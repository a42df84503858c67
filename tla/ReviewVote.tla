----------------------------- MODULE ReviewVote -----------------------------
(***************************************************************************)
(* The community vote on a content under REVIEW and the NFT of an allowed  *)
(* one: ContentBlockchainService and the views that call it, for a single  *)
(* content.                                                                *)
(*                                                                         *)
(* Every handler loads the Content row, talks to the chain for seconds and *)
(* then saves the WHOLE blockchain JSON, rebuilt from the row it loaded:   *)
(* no lock, no version, no re-read.  The model keeps the loaded copy of    *)
(* each handler (snap) and every chain call and every save as a step of    *)
(* its own, so that handlers overtake each other and are cut short between *)
(* a transaction and the save that should record it.                       *)
(*                                                                         *)
(* The contract lies outside the repository: it accepts one token per file *)
(* hash and one ballot per wallet while a vote is open, and a closed vote  *)
(* is finalized once.  Content.status follows Content.decision throughout  *)
(* and is left out, as are the display fields of the JSON.                 *)
(***************************************************************************)
EXTENDS Naturals, FiniteSets

CONSTANTS
    Handlers,   \* web server threads, each serving one request at a time
    Users,      \* users other than the owner: the voters
    Wallets,    \* the wallet addresses they may link
    MaxMails,   \* bound on the result mails that are delivered
    None        \* no wallet, no ballot, no loaded row

ASSUME VoteAssumption ==
    /\ MaxMails \in Nat
    /\ None \notin [user : Users, wallet : Wallets, choice : {"yes", "no"}]

VARIABLES
    decision,   \* Content.decision
    ledger,     \* Content.blockchain
    applied,    \* Content.watermark has "applied"
    log,        \* VoteParticipationLog of each user
    wallet,     \* WalletLink of each user
    token,      \* chain: the review token, "Ended" once its end time passed
    ballots,    \* chain: the ballots it accepted
    nft,        \* chain: the content's NFT, "absent" or "minted"
    at,         \* where each handler is
    snap,       \* the blockchain JSON the handler holds
    want,       \* notify_by_email of a start request
    ballot,     \* the ballot of a cast request
    seen,       \* the vote status the handler read from the chain
    mail,       \* email_notification_* the handler is about to save
    stale,      \* history: handlers whose row was saved by another since
    mails,      \* history: result mails delivered
    dropped,    \* history: "token", "nft": on chain, but its record was lost
    unlogged    \* history: ballots whose handler ended before logging them

rows    == <<decision, ledger, applied, log, wallet>>
chain   == <<token, ballots, nft>>
threads == <<at, snap, want, ballot, seen, mail>>
history == <<stale, mails, dropped, unlogged>>
vars    == <<rows, chain, threads, history>>

Decision == {"review", "allow", "block"}
Verdicts == {"Approved", "Rejected"}
Mail     == {"unsent", "sent", "failed"}
Switch   == {"on", "off"}
Choice   == {"yes", "no"}

\* mint_kind, whether token_id is known, vote.status ("Pending" also when it
\* is missing), vote.notify_by_email, vote.email_notification_sent/_error.
Ledger == [kind   : {"none", "review_vote", "content"},
           token  : {"unknown", "known"},
           vote   : {"Pending"} \cup Verdicts,
           notify : Switch,
           mail   : Mail]

LedgerOf(kind, tok, vote, notify, sent) ==
    [kind |-> kind, token |-> tok, vote |-> vote, notify |-> notify, mail |-> sent]

NewLedger == LedgerOf("none", "unknown", "Pending", "off", "unsent")

Ballot == [user : Users, wallet : Wallets, choice : Choice]

TokenState == {"absent", "Pending", "Ended"} \cup Verdicts

\* The pcs from which a handler still overwrites the JSON.
Writing == {"toggle", "hash", "mintReview", "record", "vote", "sync", "finalize",
            "reread", "notify", "save", "mintNft", "saveMint", "refresh"}
Pc == Writing \cup {"idle", "log"}

TypeOK ==
    /\ decision \in Decision
    /\ ledger \in Ledger
    /\ applied \in {"no", "yes"}
    /\ log \in [Users -> Ballot \cup {None}]
    /\ wallet \in [Users -> Wallets \cup {None}]
    /\ token \in TokenState
    /\ ballots \in SUBSET Ballot
    /\ nft \in {"absent", "minted"}
    /\ at \in [Handlers -> Pc]
    /\ snap \in [Handlers -> Ledger \cup {None}]
    /\ want \in [Handlers -> Switch]
    /\ ballot \in [Handlers -> Ballot \cup {None}]
    /\ seen \in [Handlers -> {"Pending"} \cup Verdicts]
    /\ mail \in [Handlers -> Mail]
    /\ stale \in SUBSET Handlers
    /\ mails \in Nat
    /\ dropped \in SUBSET {"token", "nft"}
    /\ unlogged \in SUBSET Ballot

\* The guard has sent the content to review; nothing is on the chain yet.
Init ==
    /\ decision = "review"
    /\ ledger = NewLedger
    /\ applied = "no"
    /\ log = [u \in Users |-> None]
    /\ wallet = [u \in Users |-> None]
    /\ token = "absent" /\ ballots = {} /\ nft = "absent"
    /\ at = [h \in Handlers |-> "idle"]
    /\ snap = [h \in Handlers |-> None]
    /\ want = [h \in Handlers |-> "off"]
    /\ ballot = [h \in Handlers |-> None]
    /\ seen = [h \in Handlers |-> "Pending"]
    /\ mail = [h \in Handlers |-> "unsent"]
    /\ stale = {} /\ mails = 0 /\ dropped = {} /\ unlogged = {}

-----------------------------------------------------------------------------
(* What the steps are made of                                              *)

Goto(h, pc) == at' = [at EXCEPT ![h] = pc]

InFlight == {h \in Handlers : at[h] \in Writing}

\* The view loads the Content row: get_object_or_404.
Load(h) ==
    /\ at[h] = "idle"
    /\ snap' = [snap EXCEPT ![h] = ledger]
    /\ UNCHANGED <<rows, chain, seen, mail, history>>

\* The request is answered, or ends in an exception; nothing of it remains.
End(h) ==
    /\ Goto(h, "idle")
    /\ snap' = [snap EXCEPT ![h] = None]
    /\ want' = [want EXCEPT ![h] = "off"]
    /\ ballot' = [ballot EXCEPT ![h] = None]
    /\ seen' = [seen EXCEPT ![h] = "Pending"]
    /\ mail' = [mail EXCEPT ![h] = "unsent"]

\* content.save(update_fields=["blockchain", ...]): the rows the others hold
\* are out of date from now on.
Save(h, json) ==
    /\ ledger' = json
    /\ stale' = IF json = ledger THEN stale \ {h}
                ELSE (stale \cup InFlight) \ {h}
    /\ dropped' = IF ledger.kind = "content" /\ json.kind # "content"
                  THEN dropped \cup {"nft"} ELSE dropped

\* A request that ends leaves the set of the overtaken.
Leave(h) == stale' = stale \ {h}

IsVote(json) == json.kind = "review_vote" /\ json.token = "known"

-----------------------------------------------------------------------------
(* start_review_vote                                                       *)

Start(h, notify) ==
    /\ decision = "review"
    /\ Load(h)
    /\ want' = [want EXCEPT ![h] = notify]
    /\ Goto(h, IF ~IsVote(ledger) THEN "hash"
               ELSE IF ledger.notify # notify THEN "toggle" ELSE "sync")
    /\ UNCHANGED ballot

\* The vote exists: only the notification switch is saved.
Toggle(h) ==
    /\ at[h] = "toggle"
    /\ LET json == LedgerOf(snap[h].kind, snap[h].token, snap[h].vote, want[h], snap[h].mail)
       IN  Save(h, json) /\ snap' = [snap EXCEPT ![h] = json]
    /\ Goto(h, "sync")
    /\ UNCHANGED <<decision, applied, log, wallet, chain, want, ballot, seen, mail, mails, unlogged>>

\* is_file_hash_used: a used hash is refused; an RPC error counts as unused.
CheckHash(h) ==
    /\ at[h] = "hash"
    /\ \/ Goto(h, "mintReview") /\ UNCHANGED <<snap, want, ballot, seen, mail, stale>>
       \/ token # "absent" /\ End(h) /\ Leave(h)
    /\ UNCHANGED <<rows, chain, mails, dropped, unlogged>>

\* mint_document_with_metadata(is_suspicious=True) reverts on a used hash; a
\* mined transaction may still be reported as an error.
MintReview(h) ==
    /\ at[h] = "mintReview"
    /\ \/ /\ token = "absent"
          /\ token' = "Pending"
          /\ \/ /\ Goto(h, "record")
                /\ UNCHANGED <<snap, want, ballot, seen, mail, stale, dropped>>
             \/ /\ End(h) /\ Leave(h)
                /\ dropped' = dropped \cup {"token"}
       \/ /\ token # "absent"
          /\ End(h) /\ Leave(h)
          /\ UNCHANGED <<token, dropped>>
    /\ UNCHANGED <<rows, ballots, nft, mails, unlogged>>

\* A plausible slip: the save is left to the sync that follows.
RecordVote_Later(h) ==
    /\ at[h] = "record"
    /\ snap' = [snap EXCEPT ![h] =
           LedgerOf("review_vote", snap[h].token, snap[h].vote, want[h], "unsent")]
    /\ Goto(h, "sync")
    /\ UNCHANGED <<rows, chain, want, ballot, seen, mail, history>>

RecordVote(h) ==
    /\ at[h] = "record"
    /\ LET json == LedgerOf("review_vote", snap[h].token, snap[h].vote, want[h], "unsent")
       IN  Save(h, json) /\ snap' = [snap EXCEPT ![h] = json]
    /\ Goto(h, "sync")
    /\ UNCHANGED <<decision, applied, log, wallet, chain, want, ballot, seen, mail, mails, unlogged>>

-----------------------------------------------------------------------------
(* sync_review_vote: also the status view, the signing context and the     *)
(* webhook of the chain's event listener                                   *)

\* A plausible slip: any minted content is synchronized.
Sync_AnyKind(h) ==
    /\ ledger.kind # "none"
    /\ Load(h)
    /\ Goto(h, "sync")
    /\ UNCHANGED <<want, ballot>>

Sync(h) ==
    /\ ledger.kind = "review_vote"
    /\ Load(h)
    /\ Goto(h, "sync")
    /\ UNCHANGED <<want, ballot>>

\* A plausible slip: a final status the snapshot omits counts as Pending.
ReadChain_Default(h) ==
    /\ at[h] = "sync"
    /\ token # "absent"
    /\ IF token = "Ended"
       THEN Goto(h, "finalize") /\ UNCHANGED seen
       ELSE /\ Goto(h, "notify")
            /\ \E status \in {token, "Pending"} : seen' = [seen EXCEPT ![h] = status]
    /\ UNCHANGED <<rows, chain, snap, want, ballot, mail, history>>

\* verify_document and get_document_info.
ReadChain(h) ==
    /\ at[h] = "sync"
    /\ token # "absent"
    /\ IF token = "Ended"
       THEN Goto(h, "finalize") /\ UNCHANGED seen
       ELSE Goto(h, "notify") /\ seen' = [seen EXCEPT ![h] = token]
    /\ UNCHANGED <<rows, chain, snap, want, ballot, mail, history>>

\* finalize_status; on a vote somebody else finalized it reverts.
Finalize(h) ==
    /\ at[h] = "finalize"
    /\ \/ /\ token = "Ended"
          /\ token' \in Verdicts
          /\ Goto(h, "reread")
          /\ UNCHANGED <<snap, want, ballot, seen, mail, stale, unlogged>>
       \/ /\ token \in Verdicts
          /\ End(h) /\ Leave(h)
          /\ unlogged' = unlogged \cup ({ballot[h]} \ {None})
          /\ UNCHANGED token
    /\ UNCHANGED <<rows, ballots, nft, mails, dropped>>

\* A plausible slip: the outcome of the finalization is assumed, not read.
Reread_Assumed(h) ==
    /\ at[h] = "reread"
    /\ seen' = [seen EXCEPT ![h] = "Approved"]
    /\ Goto(h, "notify")
    /\ UNCHANGED <<rows, chain, snap, want, ballot, mail, history>>

Reread(h) ==
    /\ at[h] = "reread"
    /\ seen' = [seen EXCEPT ![h] = token]
    /\ Goto(h, "notify")
    /\ UNCHANGED <<rows, chain, snap, want, ballot, mail, history>>

\* A plausible slip: a mail that failed is due again at every sync.
Due_Again(h) == snap[h].notify = "on" /\ snap[h].mail # "sent" /\ seen[h] \in Verdicts

\* should_send_email
Due(h) ==
    /\ snap[h].notify = "on" /\ snap[h].mail # "sent"
    /\ snap[h].vote = "Pending" /\ seen[h] \in Verdicts

Notify(h) ==
    /\ at[h] = "notify"
    /\ \/ /\ ~Due(h)
          /\ mail' = [mail EXCEPT ![h] = snap[h].mail]
          /\ UNCHANGED mails
       \/ /\ Due(h) /\ mails < MaxMails
          /\ mail' = [mail EXCEPT ![h] = "sent"]
          /\ mails' = mails + 1
       \/ /\ Due(h)
          /\ mail' = [mail EXCEPT ![h] = "failed"]
          /\ UNCHANGED mails
    /\ Goto(h, "save")
    /\ UNCHANGED <<rows, chain, snap, want, ballot, seen, stale, dropped, unlogged>>

VerdictOf(status) == CASE status = "Approved" -> "allow"
                       [] status = "Rejected" -> "block"
                       [] OTHER -> "review"

\* A cast request goes on to its log entry, any other one is answered.
SaveSync(h) ==
    /\ at[h] = "save"
    /\ Save(h, LedgerOf("review_vote", "known", seen[h], snap[h].notify, mail[h]))
    /\ decision' = VerdictOf(seen[h])
    /\ \/ /\ ballot[h] = None
          /\ End(h)
       \/ /\ ballot[h] # None
          /\ Goto(h, "log")
          /\ UNCHANGED <<snap, want, ballot, seen, mail>>
    /\ UNCHANGED <<applied, log, wallet, chain, mails, unlogged>>

-----------------------------------------------------------------------------
(* ContentReviewVoteCastView                                               *)

Cast(h, u, choice) ==
    /\ wallet[u] # None
    /\ IsVote(ledger)
    /\ Load(h)
    /\ ballot' = [ballot EXCEPT
           ![h] = [user |-> u, wallet |-> wallet[u], choice |-> choice]]
    /\ Goto(h, "vote")
    /\ UNCHANGED want

HasVoted(w) == \E b \in ballots : b.wallet = w

\* A plausible slip: a reverted ballot is reported like a counted one.
Vote_RevertIgnored(h) ==
    /\ at[h] = "vote"
    /\ ballots' = IF token = "Pending" /\ ~HasVoted(ballot[h].wallet)
                  THEN ballots \cup {ballot[h]} ELSE ballots
    /\ Goto(h, "sync")
    /\ UNCHANGED <<rows, token, nft, snap, want, ballot, seen, mail, history>>

\* vote_with_signature; here too an error may hide a mined transaction.
Vote(h) ==
    /\ at[h] = "vote"
    /\ \/ /\ token = "Pending" /\ ~HasVoted(ballot[h].wallet)
          /\ ballots' = ballots \cup {ballot[h]}
          /\ \/ /\ Goto(h, "sync")
                /\ UNCHANGED <<snap, want, ballot, seen, mail, stale, unlogged>>
             \/ /\ End(h) /\ Leave(h)
                /\ unlogged' = unlogged \cup {ballot[h]}
       \/ /\ token # "Pending" \/ HasVoted(ballot[h].wallet)
          /\ End(h) /\ Leave(h)
          /\ UNCHANGED <<ballots, unlogged>>
    /\ UNCHANGED <<rows, token, nft, mails, dropped>>

\* VoteParticipationLog.objects.update_or_create(content, user)
LogVote(h) ==
    /\ at[h] = "log"
    /\ log' = [log EXCEPT ![ballot[h].user] = ballot[h]]
    /\ End(h) /\ Leave(h)
    /\ UNCHANGED <<decision, ledger, applied, wallet, chain, mails, dropped, unlogged>>

-----------------------------------------------------------------------------
(* mint                                                                    *)

Mint(h) ==
    /\ decision = "allow" /\ applied = "yes"
    /\ Load(h)
    /\ Goto(h, IF ledger.kind = "content" THEN "refresh" ELSE "mintNft")
    /\ UNCHANGED <<want, ballot>>

\* The watermarked file is minted once; the snapshot taken after it may fail.
MintNft(h) ==
    /\ at[h] = "mintNft"
    /\ \/ /\ nft = "absent"
          /\ nft' = "minted"
          /\ \/ /\ Goto(h, "saveMint")
                /\ UNCHANGED <<snap, want, ballot, seen, mail, stale, dropped>>
             \/ /\ End(h) /\ Leave(h)
                /\ dropped' = dropped \cup {"nft"}
       \/ /\ nft = "minted"
          /\ End(h) /\ Leave(h)
          /\ UNCHANGED <<nft, dropped>>
    /\ UNCHANGED <<rows, token, ballots, mails, unlogged>>

\* An unresolved snapshot leaves token_id empty.
SaveMint(h) ==
    /\ at[h] = "saveMint"
    /\ \E tok \in {"unknown", "known"} :
         Save(h, LedgerOf("content", tok, snap[h].vote, snap[h].notify, snap[h].mail))
    /\ End(h)
    /\ UNCHANGED <<decision, applied, log, wallet, chain, mails, unlogged>>

\* Minted before: never again.  A missing token_id is resolved if the chain
\* shows it, and the JSON is saved if that or the index entry changed it.
Refresh(h) ==
    /\ at[h] = "refresh"
    /\ \/ \E tok \in {snap[h].token, "known"} :
            Save(h, LedgerOf("content", tok, snap[h].vote, snap[h].notify, snap[h].mail))
       \/ Leave(h) /\ UNCHANGED <<ledger, dropped>>
    /\ End(h)
    /\ UNCHANGED <<decision, applied, log, wallet, chain, mails, unlogged>>

-----------------------------------------------------------------------------
(* Failures and the surroundings                                           *)

\* A chain or storage error, a lost connection, a killed thread: the request
\* ends and none of its later steps is taken.  What it put on the chain and
\* did not record stays unrecorded.
CutShort(h) ==
    /\ at[h] # "idle"
    /\ dropped' = dropped \cup (IF at[h] = "record" THEN {"token"} ELSE {})
                          \cup (IF at[h] = "saveMint" THEN {"nft"} ELSE {})
    /\ unlogged' = unlogged \cup (IF at[h] = "vote" THEN {} ELSE {ballot[h]} \ {None})
    /\ End(h) /\ Leave(h)
    /\ UNCHANGED <<rows, chain, mails>>

\* The voting period ends; anybody may finalize the vote then.
ChainMoves ==
    /\ \/ token = "Pending" /\ token' = "Ended"
       \/ token = "Ended" /\ token' \in Verdicts
    /\ UNCHANGED <<rows, ballots, nft, threads, history>>

\* WatermarkJobs watermarks an allowed content.
Watermark ==
    /\ decision = "allow" /\ applied = "no"
    /\ applied' = "yes"
    /\ UNCHANGED <<decision, ledger, log, wallet, chain, threads, history>>

\* A user links another wallet, or unlinks it; an address has one user.
Relink(u) ==
    /\ \E w \in Wallets \cup {None} :
         /\ w = None \/ \A v \in Users : wallet[v] # w
         /\ wallet' = [wallet EXCEPT ![u] = w]
    /\ UNCHANGED <<decision, ledger, applied, log, chain, threads, history>>

Handle(h) ==
    \/ \E n \in Switch : Start(h, n)
    \/ Toggle(h) \/ CheckHash(h) \/ MintReview(h) \/ RecordVote(h)
    \/ Sync(h) \/ ReadChain(h) \/ Finalize(h) \/ Reread(h) \/ Notify(h) \/ SaveSync(h)
    \/ \E u \in Users, c \in Choice : Cast(h, u, c)
    \/ Vote(h) \/ LogVote(h)
    \/ Mint(h) \/ MintNft(h) \/ SaveMint(h) \/ Refresh(h)
    \/ CutShort(h)

Next ==
    \/ \E h \in Handlers : Handle(h)
    \/ \E u \in Users : Relink(u)
    \/ ChainMoves \/ Watermark

Spec == Init /\ [][Next]_vars

-----------------------------------------------------------------------------
(* Properties                                                              *)

(* A content is allowed or blocked by the vote only with the verdict the   *)
(* chain reached, and a verdict in the JSON is the chain's, whatever the   *)
(* order in which overlapping handlers save (sync_review_vote).            *)
VerdictFromChain ==
    /\ decision = "allow" => token = "Approved"
    /\ decision = "block" => token = "Rejected"
    /\ ledger.vote \in Verdicts => token = ledger.vote

(* What is on the chain has its record in the row, or a handler is about   *)
(* to write it, or the record was lost: the handler was cut short between  *)
(* the transaction and the save, or an overtaken one overwrote it.         *)
ChainAccounted ==
    /\ token # "absent" => \/ ledger.kind # "none" \/ "token" \in dropped
                           \/ \E h \in Handlers : at[h] = "record"
    /\ nft = "minted" => \/ ledger.kind = "content" \/ "nft" \in dropped
                         \/ \E h \in Handlers : at[h] = "saveMint"

(* A participation log repeats a ballot the chain counted for that user;   *)
(* a counted ballot is logged, unless a later one of the same user took    *)
(* its place, its handler is on the way, or it ended before the log.       *)
BallotsLogged ==
    /\ \A u \in Users : log[u] # None => log[u] \in ballots /\ log[u].user = u
    /\ \A b \in ballots : \/ log[b.user] # None \/ b \in unlogged
                          \/ \E h \in Handlers : ballot[h] = b /\ at[h] # "vote"

(* As long as no handler works on a row another one has saved since, a     *)
(* verdict stays: only an overtaken sync brings a content back to review.  *)
VerdictKept ==
    [][stale = {} /\ decision # "review" => decision' = decision]_vars

(* As long as no handler works on a row another one has saved since, the   *)
(* record of the content's NFT stays: no vote, sync or start replaces it.  *)
NftRecordKept ==
    [][stale = {} /\ ledger.kind = "content" => ledger'.kind = "content"]_vars

(* Once the verdict is in the row, no further result mail is sent, failed  *)
(* ones included, unless an overtaken handler sends it.                    *)
MailOnce ==
    [][stale = {} /\ ledger.vote \in Verdicts => mails' = mails]_vars
=============================================================================
