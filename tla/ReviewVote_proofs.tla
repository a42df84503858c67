-------------------------- MODULE ReviewVote_proofs --------------------------
(***************************************************************************)
(* What holds of ReviewVote for every number of handlers, users and        *)
(* wallets.                                                                *)
(***************************************************************************)
EXTENDS ReviewVote, TLAPS

(* A handler that serves a request holds a row, a cast request a ballot,   *)
(* and who has finalized the vote reads a verdict.                         *)
Holding(h) ==
    /\ at[h] # "idle" => snap[h] \in Ledger
    /\ at[h] \in {"vote", "log"} => ballot[h] \in Ballot
    /\ at[h] = "reread" => token \in Verdicts

TypeInv == TypeOK /\ \A h \in Handlers : Holding(h)

Syncing == {"toggle", "vote", "sync", "finalize", "reread", "notify", "save"}

(* What a handler knows of the chain is still true, and unless it has been *)
(* overtaken the row is the one it holds.                                  *)
Held(h) ==
    /\ seen[h] \in Verdicts => token = seen[h]
    /\ at[h] # "idle" /\ snap[h].vote \in Verdicts => token = snap[h].vote
    /\ at[h] # "idle" /\ snap[h].kind # "none" => token # "absent"
    /\ at[h] \in {"toggle", "record"} => snap[h].vote = "Pending"
    /\ at[h] = "record" => snap[h].kind = "none" /\ token # "absent"
    /\ at[h] \in Syncing => snap[h].kind = "review_vote"
    /\ at[h] \in {"mintNft", "saveMint", "refresh"} => token # "absent"
    /\ at[h] \in {"notify", "save"} /\ h \notin stale /\ seen[h] = "Pending"
         => decision = "review"
    /\ at[h] \in Writing /\ h \notin stale => snap[h] = ledger

Stored ==
    /\ ledger.kind = "review_vote" /\ ledger.vote \in Verdicts => decision # "review"
    /\ ledger.kind # "none" => token # "absent"

Casting == {"vote", "sync", "finalize", "reread", "notify", "save", "log"}

Carried(h) ==
    /\ ballot[h] # None => at[h] \in Casting
    /\ at[h] # "vote" /\ ballot[h] # None => ballot[h] \in ballots

Inv ==
    /\ TypeInv
    /\ VerdictFromChain
    /\ Stored
    /\ \A h \in Handlers : Held(h)

BallotInv ==
    /\ BallotsLogged
    /\ \A h \in Handlers : Carried(h)

-----------------------------------------------------------------------------
(* The rows and what the steps are made of                                 *)

Kinds == {"none", "review_vote", "content"}
Token == {"unknown", "known"}

Votes == {"Pending"} \cup Verdicts

(* LedgerOf builds a row with the fields it is given.                      *)
LEMMA LedgerTyped ==
    \A k \in Kinds, t \in Token, v \in Votes, n \in Switch, m \in Mail :
      /\ LedgerOf(k, t, v, n, m) \in Ledger
      /\ LedgerOf(k, t, v, n, m).kind = k
      /\ LedgerOf(k, t, v, n, m).vote = v
  BY DEF LedgerOf, Ledger, Kinds, Token, Votes

(* The fields of a row are typed.                                          *)
LEMMA LedgerFields ==
    ASSUME NEW l \in Ledger
    PROVE  /\ l.kind \in Kinds /\ l.token \in Token
           /\ l.vote \in Votes
           /\ l.notify \in Switch /\ l.mail \in Mail
  BY DEF Ledger, Kinds, Token, Votes

(* The rows a handler makes of the one it holds.                           *)
LEMMA Rebuilt ==
    ASSUME TypeOK, NEW h \in Handlers, snap[h] \in Ledger
    PROVE  /\ LedgerOf(snap[h].kind, snap[h].token, snap[h].vote, want[h], snap[h].mail) \in Ledger
           /\ LedgerOf(snap[h].kind, snap[h].token, snap[h].vote, want[h], snap[h].mail).kind
                = snap[h].kind
           /\ LedgerOf(snap[h].kind, snap[h].token, snap[h].vote, want[h], snap[h].mail).vote
                = snap[h].vote
           /\ LedgerOf("review_vote", snap[h].token, snap[h].vote, want[h], "unsent") \in Ledger
           /\ LedgerOf("review_vote", snap[h].token, snap[h].vote, want[h], "unsent").kind
                = "review_vote"
           /\ LedgerOf("review_vote", snap[h].token, snap[h].vote, want[h], "unsent").vote
                = snap[h].vote
           /\ \A tok \in Token :
                /\ LedgerOf("content", tok, snap[h].vote, snap[h].notify, snap[h].mail) \in Ledger
                /\ LedgerOf("content", tok, snap[h].vote, snap[h].notify, snap[h].mail).kind
                     = "content"
                /\ LedgerOf("content", tok, snap[h].vote, snap[h].notify, snap[h].mail).vote
                     = snap[h].vote
  <1>1. /\ snap[h].kind \in Kinds /\ snap[h].token \in Token /\ snap[h].vote \in Votes
        /\ snap[h].notify \in Switch /\ snap[h].mail \in Mail
    BY LedgerFields
  <1>2. want[h] \in Switch BY DEF TypeOK
  <1>3. "review_vote" \in Kinds /\ "content" \in Kinds /\ "unsent" \in Mail
    BY DEF Kinds, Mail
  <1> QED BY <1>1, <1>2, <1>3, LedgerTyped

(* A ballot names a user and a wallet.                                     *)
LEMMA BallotTyped ==
    ASSUME NEW b \in Ballot PROVE b.user \in Users /\ b.wallet \in Wallets
  BY DEF Ballot

(* What stands for "no ballot" is not one.                                 *)
LEMMA NoneIsNoBallot == None \notin Ballot
  BY VoteAssumption DEF Ballot, Choice

(* A request that ends leaves every handler's variables typed.             *)
LEMMA EndTyped ==
    ASSUME TypeOK, NEW h \in Handlers, End(h)
    PROVE  /\ at' \in [Handlers -> Pc]
           /\ snap' \in [Handlers -> Ledger \cup {None}]
           /\ want' \in [Handlers -> Switch]
           /\ ballot' \in [Handlers -> Ballot \cup {None}]
           /\ seen' \in [Handlers -> {"Pending"} \cup Verdicts]
           /\ mail' \in [Handlers -> Mail]
  <1>1. "idle" \in Pc /\ "off" \in Switch /\ "unsent" \in Mail
    BY DEF Pc, Switch, Mail
  <1> QED BY <1>1 DEF TypeOK, End, Goto

(* So does a save, of the row and of the handlers it overtakes.            *)
LEMMA SaveTyped ==
    ASSUME TypeOK, NEW h \in Handlers, NEW json \in Ledger, Save(h, json)
    PROVE  ledger' \in Ledger /\ stale' \in SUBSET Handlers
           /\ dropped' \in SUBSET {"token", "nft"}
  BY DEF TypeOK, Save, InFlight

(* Loading the row gives a handler a typed copy of it.                     *)
LEMMA LoadTyped ==
    ASSUME TypeOK, NEW h \in Handlers, Load(h)
    PROVE  snap' \in [Handlers -> Ledger \cup {None}]
  BY DEF TypeOK, Load

(* A handler that moves stays at a place of the program.                   *)
LEMMA GotoTyped ==
    ASSUME TypeOK, NEW h \in Handlers, NEW pc \in Pc, Goto(h, pc)
    PROVE  at' \in [Handlers -> Pc]
  BY DEF TypeOK, Goto

-----------------------------------------------------------------------------
(* Types                                                                   *)

(* A step of one handler leaves the variables of the others alone.         *)
LEMMA OthersUntouched ==
    ASSUME TypeOK, NEW h \in Handlers, Handle(h), NEW g \in Handlers \ {h}
    PROVE  /\ at'[g] = at[g] /\ snap'[g] = snap[g] /\ ballot'[g] = ballot[g]
           /\ seen'[g] = seen[g]
  <1>1. End(h) => /\ at'[g] = at[g] /\ snap'[g] = snap[g] /\ ballot'[g] = ballot[g]
                  /\ seen'[g] = seen[g]
    BY DEF End, Goto, TypeOK
  <1>2. ASSUME NEW pc, Goto(h, pc) PROVE at'[g] = at[g]
    BY <1>2 DEF Goto, TypeOK
  <1>3. Load(h) => snap'[g] = snap[g] /\ seen'[g] = seen[g] BY DEF Load, TypeOK
  <1>a. CASE \E n \in Switch : Start(h, n) BY <1>a, <1>2, <1>3 DEF Start
  <1>b. CASE Toggle(h) BY <1>b, <1>2 DEF Toggle, TypeOK
  <1>c. CASE CheckHash(h) BY <1>c, <1>1, <1>2 DEF CheckHash
  <1>d. CASE MintReview(h) BY <1>d, <1>1, <1>2 DEF MintReview
  <1>e. CASE RecordVote(h) BY <1>e, <1>2 DEF RecordVote, TypeOK
  <1>f. CASE Sync(h) BY <1>f, <1>2, <1>3 DEF Sync
  <1>g. CASE ReadChain(h) BY <1>g, <1>2 DEF ReadChain, TypeOK
  <1>h. CASE Finalize(h) BY <1>h, <1>1, <1>2 DEF Finalize
  <1>i. CASE Reread(h) BY <1>i, <1>2 DEF Reread, TypeOK
  <1>j. CASE Notify(h) BY <1>j, <1>2 DEF Notify
  <1>k. CASE SaveSync(h) BY <1>k, <1>1, <1>2 DEF SaveSync
  <1>l. CASE \E u \in Users, c \in Choice : Cast(h, u, c)
    BY <1>l, <1>2, <1>3 DEF Cast, TypeOK
  <1>m. CASE Vote(h) BY <1>m, <1>1, <1>2 DEF Vote
  <1>n. CASE LogVote(h) BY <1>n, <1>1 DEF LogVote
  <1>o. CASE Mint(h) BY <1>o, <1>2, <1>3 DEF Mint
  <1>p. CASE MintNft(h) BY <1>p, <1>1, <1>2 DEF MintNft
  <1>q. CASE SaveMint(h) BY <1>q, <1>1 DEF SaveMint
  <1>r. CASE Refresh(h) BY <1>r, <1>1 DEF Refresh
  <1>s. CASE CutShort(h) BY <1>s, <1>1 DEF CutShort
  <1> QED
    BY <1>a, <1>b, <1>c, <1>d, <1>e, <1>f, <1>g, <1>h, <1>i, <1>j, <1>k, <1>l, <1>m,
       <1>n, <1>o, <1>p, <1>q, <1>r, <1>s DEF Handle
(* The variables a single action leaves alone stay typed.                  *)
LEMMA StepTyped ==
    ASSUME TypeInv, NEW h \in Handlers, Handle(h)
    PROVE  TypeOK' /\ Holding(h)'
  <1> USE VoteAssumption DEF TypeInv
  <1>pc. Pc = {"toggle", "hash", "mintReview", "record", "vote", "sync", "finalize",
            "reread", "notify", "save", "mintNft", "saveMint", "refresh", "idle", "log"}
    BY DEF Pc, Writing
  <1>none. "idle" \notin {"vote", "log"} OBVIOUS
  <1>end. End(h) => at'[h] = "idle" /\ Holding(h)'
    BY DEF End, Goto, TypeOK, Holding
  <1>at. ASSUME NEW pc, Goto(h, pc) PROVE at'[h] = pc
    BY <1>at DEF Goto, TypeOK
  <1>load. Load(h) => snap'[h] = ledger /\ ledger \in Ledger
    BY DEF Load, TypeOK
  <1>held. at[h] # "idle" => snap[h] \in Ledger BY DEF Holding
  <1>cast. at[h] \in {"vote", "log"} => ballot[h] \in Ballot BY DEF Holding
  <1>a. CASE \E n \in Switch : Start(h, n)
    <2> PICK n \in Switch : Start(h, n) BY <1>a
    <2>1. \E pc \in Pc \ {"idle", "vote", "log"} : Goto(h, pc) BY <1>pc DEF Start
    <2>2. at' \in [Handlers -> Pc] BY <2>1, GotoTyped
    <2>3. want' \in [Handlers -> Switch] BY DEF Start, TypeOK
    <2>4. Holding(h)' BY <2>1, <1>at, <1>load DEF Start, Holding
    <2> QED BY <2>2, <2>3, <2>4, LoadTyped
        DEF Start, Load, TypeOK, rows, chain, history
  <1>b. CASE Toggle(h)
    <2> DEFINE json == LedgerOf(snap[h].kind, snap[h].token, snap[h].vote, want[h], snap[h].mail)
    <2>1. json \in Ledger
      BY <1>b, <1>held, Rebuilt DEF Toggle
    <2>2. Save(h, json) /\ snap' = [snap EXCEPT ![h] = json] BY <1>b DEF Toggle
    <2> HIDE DEF json
    <2>3. ledger' \in Ledger /\ stale' \in SUBSET Handlers /\ dropped' \in SUBSET {"token", "nft"}
      BY <2>1, <2>2, SaveTyped
    <2>4. snap' \in [Handlers -> Ledger \cup {None}] /\ snap'[h] = json
      BY <2>1, <2>2 DEF TypeOK
    <2>5. Goto(h, "sync") BY <1>b DEF Toggle
    <2>6. at' \in [Handlers -> Pc] BY <2>5, <1>pc, GotoTyped
    <2>7. Holding(h)' BY <2>1, <2>4, <2>5, <1>at DEF Holding
    <2> QED BY <1>b, <2>3, <2>4, <2>6, <2>7 DEF Toggle, TypeOK, chain
  <1>c. CASE CheckHash(h)
    <2>1. CASE End(h) /\ Leave(h)
      BY <1>c, <2>1, <1>end, EndTyped DEF CheckHash, TypeOK, rows, chain, Leave
    <2>2. CASE Goto(h, "mintReview") /\ UNCHANGED <<snap, want, ballot, seen, mail, stale>>
      <3>1. at' \in [Handlers -> Pc] BY <2>2, <1>pc, GotoTyped
      <3>2. Holding(h)' BY <1>c, <2>2, <1>at, <1>held DEF CheckHash, Holding
      <3> QED BY <1>c, <2>2, <3>1, <3>2 DEF CheckHash, TypeOK, rows, chain
    <2> QED BY <1>c, <2>1, <2>2 DEF CheckHash
  <1>d. CASE MintReview(h)
    <2>1. token' \in TokenState BY <1>d DEF MintReview, TypeOK, TokenState
    <2>2. dropped' \in SUBSET {"token", "nft"} BY <1>d DEF MintReview, TypeOK
    <2>3. CASE End(h) /\ Leave(h)
      BY <1>d, <2>1, <2>2, <2>3, <1>end, EndTyped DEF MintReview, TypeOK, rows, Leave
    <2>4. CASE Goto(h, "record") /\ UNCHANGED <<snap, want, ballot, seen, mail, stale, dropped>>
      <3>1. at' \in [Handlers -> Pc] BY <2>4, <1>pc, GotoTyped
      <3>2. Holding(h)' BY <1>d, <2>4, <1>at, <1>held DEF MintReview, Holding
      <3> QED BY <1>d, <2>1, <2>4, <3>1, <3>2 DEF MintReview, TypeOK, rows
    <2> QED BY <1>d, <2>3, <2>4 DEF MintReview
  <1>e. CASE RecordVote(h)
    <2> DEFINE json == LedgerOf("review_vote", snap[h].token, snap[h].vote, want[h], "unsent")
    <2>1. json \in Ledger
      BY <1>e, <1>held, Rebuilt DEF RecordVote
    <2>2. Save(h, json) /\ snap' = [snap EXCEPT ![h] = json] BY <1>e DEF RecordVote
    <2> HIDE DEF json
    <2>3. ledger' \in Ledger /\ stale' \in SUBSET Handlers /\ dropped' \in SUBSET {"token", "nft"}
      BY <2>1, <2>2, SaveTyped
    <2>4. snap' \in [Handlers -> Ledger \cup {None}] /\ snap'[h] = json
      BY <2>1, <2>2 DEF TypeOK
    <2>5. Goto(h, "sync") BY <1>e DEF RecordVote
    <2>6. at' \in [Handlers -> Pc] BY <2>5, <1>pc, GotoTyped
    <2>7. Holding(h)' BY <2>1, <2>4, <2>5, <1>at DEF Holding
    <2> QED BY <1>e, <2>3, <2>4, <2>6, <2>7 DEF RecordVote, TypeOK, chain
  <1>f. CASE Sync(h)
    <2>1. at' \in [Handlers -> Pc] BY <1>f, <1>pc, GotoTyped DEF Sync
    <2>2. Holding(h)' BY <1>f, <1>at, <1>load DEF Sync, Holding
    <2> QED BY <1>f, <2>1, <2>2, LoadTyped DEF Sync, Load, TypeOK, rows, chain, history
  <1>g. CASE ReadChain(h)
    <2>1. \E pc \in {"finalize", "notify"} : Goto(h, pc) BY <1>g DEF ReadChain
    <2>2. at' \in [Handlers -> Pc] BY <2>1, <1>pc, GotoTyped
    <2>3. seen' \in [Handlers -> {"Pending"} \cup Verdicts]
      BY <1>g DEF ReadChain, TypeOK, TokenState
    <2>4. Holding(h)' BY <1>g, <2>1, <1>at, <1>held DEF ReadChain, Holding
    <2> QED BY <1>g, <2>2, <2>3, <2>4 DEF ReadChain, TypeOK, rows, chain, history
  <1>h. CASE Finalize(h)
    <2>1. token' \in TokenState BY <1>h DEF Finalize, TypeOK, TokenState
    <2>2. CASE End(h) /\ Leave(h)
      <3>1. unlogged' \in SUBSET Ballot BY <1>h, <2>2 DEF Finalize, TypeOK
      <3> QED BY <1>h, <2>1, <2>2, <3>1, <1>end, EndTyped
          DEF Finalize, TypeOK, rows, Leave
    <2>3. CASE Goto(h, "reread") /\ UNCHANGED <<snap, want, ballot, seen, mail, stale, unlogged>>
      <3>1. at' \in [Handlers -> Pc] BY <2>3, <1>pc, GotoTyped
      <3>2. token' \in Verdicts BY <1>h, <2>3 DEF Finalize, TypeOK, End, Goto, Pc, Writing
      <3>3. at'[h] = "reread" BY <2>3, <1>at
      <3>4. snap'[h] \in Ledger BY <1>h, <2>3, <1>held DEF Finalize
      <3>5. Holding(h)' BY <3>2, <3>3, <3>4 DEF Holding
      <3> QED BY <1>h, <2>1, <2>3, <3>1, <3>5 DEF Finalize, TypeOK, rows
    <2> QED BY <1>h, <2>2, <2>3 DEF Finalize
  <1>i. CASE Reread(h)
    <2>1. at' \in [Handlers -> Pc] BY <1>i, <1>pc, GotoTyped DEF Reread
    <2>2. seen' \in [Handlers -> {"Pending"} \cup Verdicts \cup {token}]
      BY <1>i DEF Reread, TypeOK
    <2>3. token \in {"Pending"} \cup Verdicts => TypeOK'
      BY <1>i, <2>1, <2>2 DEF Reread, TypeOK, rows, chain, history
    <2>4. Holding(h)' BY <1>i, <1>at, <1>held DEF Reread, Holding
    <2> QED BY <2>3, <2>4, <1>i DEF Reread, Holding
  <1>j. CASE Notify(h)
    <2>1. at' \in [Handlers -> Pc] BY <1>j, <1>pc, GotoTyped DEF Notify
    <2>2. snap[h] \in Ledger BY <1>j, <1>held DEF Notify
    <2>3. mail' \in [Handlers -> Mail] BY <1>j, <2>2, LedgerFields DEF Notify, TypeOK, Mail
    <2>4. mails' \in Nat BY <1>j DEF Notify, TypeOK
    <2>5. Holding(h)' BY <1>j, <1>at, <1>held DEF Notify, Holding
    <2> QED BY <1>j, <2>1, <2>3, <2>4, <2>5 DEF Notify, TypeOK, rows, chain
  <1>k. CASE SaveSync(h)
    <2> DEFINE json == LedgerOf("review_vote", "known", seen[h], snap[h].notify, mail[h])
    <2>1. json \in Ledger
      <3>1. "review_vote" \in Kinds /\ "known" \in Token BY DEF Kinds, Token
      <3>2. snap[h] \in Ledger BY <1>k, <1>held DEF SaveSync
      <3>3. snap[h].notify \in Switch BY <3>2, LedgerFields
      <3>4. seen[h] \in {"Pending"} \cup Verdicts /\ mail[h] \in Mail BY DEF TypeOK
      <3> QED BY <3>1, <3>3, <3>4, LedgerTyped DEF Votes
    <2>2. Save(h, json) BY <1>k DEF SaveSync
    <2> HIDE DEF json
    <2>3. ledger' \in Ledger /\ stale' \in SUBSET Handlers /\ dropped' \in SUBSET {"token", "nft"}
      BY <2>1, <2>2, SaveTyped
    <2>4. decision' \in Decision
      <3>1. seen[h] \in {"Pending", "Approved", "Rejected"} BY DEF TypeOK, Verdicts
      <3> QED BY <1>k, <3>1 DEF SaveSync, VerdictOf, Decision
    <2>5. CASE End(h)
      BY <1>k, <2>3, <2>4, <2>5, <1>end, EndTyped DEF SaveSync, TypeOK, chain
    <2>6. CASE ballot[h] # None /\ Goto(h, "log") /\ UNCHANGED <<snap, want, ballot, seen, mail>>
      <3>1. at' \in [Handlers -> Pc] BY <2>6, <1>pc, GotoTyped
      <3>2. Holding(h)'
        <4>1. snap'[h] \in Ledger BY <1>k, <2>6, <1>held DEF SaveSync
        <4>2. ballot'[h] \in Ballot BY <2>6 DEF TypeOK
        <4>3. at'[h] = "log" BY <2>6, <1>at
        <4> QED BY <4>1, <4>2, <4>3 DEF Holding
      <3> QED BY <1>k, <2>3, <2>4, <2>6, <3>1, <3>2 DEF SaveSync, TypeOK, chain
    <2> QED BY <1>k, <2>5, <2>6 DEF SaveSync
  <1>l. CASE \E u \in Users, c \in Choice : Cast(h, u, c)
    <2> PICK u \in Users, c \in Choice : Cast(h, u, c) BY <1>l
    <2>1. at' \in [Handlers -> Pc] BY <1>pc, GotoTyped DEF Cast
    <2>2. [user |-> u, wallet |-> wallet[u], choice |-> c] \in Ballot
      BY DEF Cast, TypeOK, Ballot
    <2>3. ballot' \in [Handlers -> Ballot \cup {None}] /\ ballot'[h] \in Ballot
      BY <2>2 DEF Cast, TypeOK
    <2>4. Holding(h)' BY <2>3, <1>at, <1>load DEF Cast, Holding
    <2> QED BY <2>1, <2>3, <2>4, LoadTyped DEF Cast, Load, TypeOK, rows, chain, history
  <1>m. CASE Vote(h)
    <2>1. ballot[h] \in Ballot BY <1>m, <1>cast DEF Vote
    <2>2. ballots' \in SUBSET Ballot /\ unlogged' \in SUBSET Ballot
      BY <1>m, <2>1 DEF Vote, TypeOK
    <2>3. CASE End(h) /\ Leave(h)
      BY <1>m, <2>2, <2>3, <1>end, EndTyped DEF Vote, TypeOK, rows, Leave
    <2>4. CASE Goto(h, "sync") /\ UNCHANGED <<snap, want, ballot, seen, mail, stale, unlogged>>
      <3>1. at' \in [Handlers -> Pc] BY <2>4, <1>pc, GotoTyped
      <3>2. Holding(h)' BY <1>m, <2>4, <1>at, <1>held DEF Vote, Holding
      <3> QED BY <1>m, <2>2, <2>4, <3>1, <3>2 DEF Vote, TypeOK, rows
    <2> QED BY <1>m, <2>3, <2>4 DEF Vote
  <1>n. CASE LogVote(h)
    <2>1. ballot[h] \in Ballot BY <1>n, <1>cast DEF LogVote
    <2>2. log' \in [Users -> Ballot \cup {None}]
      BY <1>n, <2>1, BallotTyped DEF LogVote, TypeOK
    <2> QED BY <1>n, <2>2, <1>end, EndTyped DEF LogVote, TypeOK, chain, Leave
  <1>o. CASE Mint(h)
    <2>1. \E pc \in {"refresh", "mintNft"} : Goto(h, pc) BY <1>o DEF Mint
    <2>2. at' \in [Handlers -> Pc] BY <2>1, <1>pc, GotoTyped
    <2>3. Holding(h)' BY <1>o, <2>1, <1>at, <1>load DEF Mint, Holding
    <2> QED BY <1>o, <2>2, <2>3, LoadTyped DEF Mint, Load, TypeOK, rows, chain, history
  <1>p. CASE MintNft(h)
    <2>1. nft' \in {"absent", "minted"} /\ dropped' \in SUBSET {"token", "nft"}
      BY <1>p DEF MintNft, TypeOK
    <2>2. CASE End(h) /\ Leave(h)
      BY <1>p, <2>1, <2>2, <1>end, EndTyped DEF MintNft, TypeOK, rows, Leave
    <2>3. CASE Goto(h, "saveMint") /\ UNCHANGED <<snap, want, ballot, seen, mail, stale, dropped>>
      <3>1. at' \in [Handlers -> Pc] BY <2>3, <1>pc, GotoTyped
      <3>2. Holding(h)' BY <1>p, <2>3, <1>at, <1>held DEF MintNft, Holding
      <3> QED BY <1>p, <2>1, <2>3, <3>1, <3>2 DEF MintNft, TypeOK, rows
    <2> QED BY <1>p, <2>2, <2>3 DEF MintNft
  <1>mint. ASSUME NEW tok \in Token, at[h] # "idle"
           PROVE  LedgerOf("content", tok, snap[h].vote, snap[h].notify, snap[h].mail) \in Ledger
    BY <1>mint, <1>held, Rebuilt
  <1>q. CASE SaveMint(h)
    <2> PICK tok \in Token :
          Save(h, LedgerOf("content", tok, snap[h].vote, snap[h].notify, snap[h].mail))
      BY <1>q DEF SaveMint, Token
    <2>1. ledger' \in Ledger /\ stale' \in SUBSET Handlers /\ dropped' \in SUBSET {"token", "nft"}
      BY <1>q, <1>mint, SaveTyped DEF SaveMint
    <2> QED BY <1>q, <2>1, <1>end, EndTyped DEF SaveMint, TypeOK, chain
  <1>r. CASE Refresh(h)
    <2>1. ledger' \in Ledger /\ stale' \in SUBSET Handlers /\ dropped' \in SUBSET {"token", "nft"}
      <3>1. CASE Leave(h) /\ UNCHANGED <<ledger, dropped>>
        BY <3>1 DEF Leave, TypeOK
      <3>2. CASE \E tok \in {snap[h].token, "known"} :
                   Save(h, LedgerOf("content", tok, snap[h].vote, snap[h].notify, snap[h].mail))
        <4> PICK tok \in {snap[h].token, "known"} :
              Save(h, LedgerOf("content", tok, snap[h].vote, snap[h].notify, snap[h].mail))
          BY <3>2
        <4>1. tok \in Token BY <1>r, <1>held, LedgerFields DEF Refresh, Token
        <4> QED BY <1>r, <4>1, <1>mint, SaveTyped DEF Refresh
      <3> QED BY <1>r, <3>1, <3>2 DEF Refresh
    <2> QED BY <1>r, <2>1, <1>end, EndTyped DEF Refresh, TypeOK, chain
  <1>s. CASE CutShort(h)
    <2>1. unlogged' \in SUBSET Ballot /\ dropped' \in SUBSET {"token", "nft"}
      BY <1>s DEF CutShort, TypeOK
    <2> QED BY <1>s, <2>1, <1>end, EndTyped DEF CutShort, TypeOK, rows, chain, Leave
  <1> QED
    BY <1>a, <1>b, <1>c, <1>d, <1>e, <1>f, <1>g, <1>h, <1>i, <1>j, <1>k, <1>l, <1>m,
       <1>n, <1>o, <1>p, <1>q, <1>r, <1>s DEF Handle
(* The chain's own steps only turn an open or closed vote into a later one.*)
LEMMA ChainMovesOn ==
    ASSUME TypeOK, Next
    PROVE  /\ token' = token \/ (token \notin Verdicts /\ token' # "absent")
           /\ ballots \subseteq ballots'
  <1>1. \A h \in Handlers : Handle(h) =>
          /\ token' = token \/ (token \notin Verdicts /\ token' # "absent")
          /\ ballots \subseteq ballots'
    BY DEF Handle, Start, Load, Toggle, CheckHash, MintReview, RecordVote, Sync, ReadChain,
       Finalize, Reread, Notify, SaveSync, Cast, Vote, LogVote, Mint, MintNft, SaveMint,
       Refresh, CutShort, chain, Verdicts
  <1>2. (\E u \in Users : Relink(u)) \/ ChainMoves \/ Watermark =>
          /\ token' = token \/ (token \notin Verdicts /\ token' # "absent")
          /\ ballots \subseteq ballots'
    BY DEF Relink, ChainMoves, Watermark, chain, Verdicts
  <1> QED BY <1>1, <1>2 DEF Next

(* The type invariant is inductive.                                        *)
LEMMA TypeInductive == TypeInv /\ [Next]_vars => TypeInv'
  <1> SUFFICES ASSUME TypeInv, [Next]_vars PROVE TypeInv' OBVIOUS
  <1> USE DEF TypeInv
  <1>1. ASSUME NEW h \in Handlers, Handle(h) PROVE TypeInv'
    <2>1. TypeOK' /\ Holding(h)' BY <1>1, StepTyped
    <2>2. ASSUME NEW g \in Handlers \ {h} PROVE Holding(g)'
      <3>1. at'[g] = at[g] /\ snap'[g] = snap[g] /\ ballot'[g] = ballot[g]
        BY <1>1, OthersUntouched
      <3>2. token \in Verdicts => token' \in Verdicts BY <1>1, ChainMovesOn DEF Next
      <3> QED BY <3>1, <3>2 DEF Holding
    <2> QED BY <2>1, <2>2
  <1>2. CASE \E u \in Users : Relink(u)
    BY <1>2 DEF Relink, TypeOK, Holding, chain, threads, history
  <1>3. CASE ChainMoves
    BY <1>3 DEF ChainMoves, TypeOK, Holding, rows, threads, history, TokenState, Verdicts
  <1>4. CASE Watermark
    BY <1>4 DEF Watermark, TypeOK, Holding, chain, threads, history
  <1>5. CASE UNCHANGED vars
    BY <1>5 DEF vars, TypeOK, Holding, rows, chain, threads, history
  <1> QED BY <1>1, <1>2, <1>3, <1>4, <1>5 DEF Next

(* It holds of a content that has just been sent to review.                *)
LEMMA TypeInitial == Init => TypeInv
  <1> SUFFICES ASSUME Init PROVE TypeInv OBVIOUS
  <1>1. NewLedger \in Ledger
    BY LedgerTyped DEF NewLedger, Kinds, Token, Votes, Switch, Mail
  <1>2. TypeOK
    BY <1>1 DEF Init, TypeOK, Decision, TokenState, Pc, Switch, Mail
  <1> QED BY <1>2 DEF TypeInv, Holding, Init

(* Every reachable state of the review vote is well-typed.                 *)
THEOREM TypeCorrect == Spec => []TypeOK
  <1>1. TypeInv => TypeOK BY DEF TypeInv
  <1> QED BY TypeInitial, TypeInductive, <1>1, PTL DEF Spec

-----------------------------------------------------------------------------
(* The verdict and the record of the NFT                                   *)

(* A handler that is not overtaken sees the row as it was.                 *)
LEMMA NotOvertaken ==
    ASSUME TypeInv, NEW h \in Handlers, Handle(h), NEW g \in Handlers \ {h},
           at[g] \in Writing, g \notin stale'
    PROVE  g \notin stale /\ ledger' = ledger
  <1> USE DEF Leave
  <1>1. ASSUME NEW json, Save(h, json) PROVE g \notin stale /\ ledger' = ledger
    BY <1>1 DEF Save, InFlight
  <1> QED
    BY <1>1 DEF Handle, Start, Load, Toggle, CheckHash, MintReview, RecordVote, Sync, ReadChain,
       Finalize, Reread, Notify, SaveSync, Cast, Vote, LogVote, Mint, MintNft, SaveMint,
       Refresh, CutShort, rows, history

(* Only a sync touches the decision.                                       *)
LEMMA DecisionMoves ==
    ASSUME NEW h \in Handlers, Handle(h), decision' # decision
    PROVE  SaveSync(h)
  BY DEF Handle, Start, Load, Toggle, CheckHash, MintReview, RecordVote, Sync, ReadChain,
       Finalize, Reread, Notify, Cast, Vote, LogVote, Mint, MintNft, SaveMint,
       Refresh, CutShort, rows

(* What a sync saves.                                                      *)
LEMMA SyncSaves ==
    ASSUME TypeInv, NEW h \in Handlers, SaveSync(h)
    PROVE  /\ ledger'.kind = "review_vote" /\ ledger'.vote = seen[h]
           /\ seen[h] = "Pending" => decision' = "review"
           /\ seen[h] = "Approved" => decision' = "allow"
           /\ seen[h] = "Rejected" => decision' = "block"
           /\ seen[h] \in {"Pending"} \cup Verdicts
  <1>1. snap[h] \in Ledger BY DEF TypeInv, Holding, SaveSync
  <1>2. snap[h].notify \in Switch BY <1>1, LedgerFields
  <1>3. seen[h] \in {"Pending"} \cup Verdicts /\ mail[h] \in Mail BY DEF TypeInv, TypeOK
  <1>4. "review_vote" \in Kinds /\ "known" \in Token BY DEF Kinds, Token
  <1>5. ledger' = LedgerOf("review_vote", "known", seen[h], snap[h].notify, mail[h])
    BY DEF SaveSync, Save
  <1>6. ledger'.kind = "review_vote" /\ ledger'.vote = seen[h]
    <2>1. seen[h] \in Votes BY <1>3 DEF Votes
    <2>2. /\ LedgerOf("review_vote", "known", seen[h], snap[h].notify, mail[h]).kind = "review_vote"
          /\ LedgerOf("review_vote", "known", seen[h], snap[h].notify, mail[h]).vote = seen[h]
      BY <2>1, <1>2, <1>3, <1>4, LedgerTyped
    <2> QED BY <1>5, <2>2
  <1>7. decision' = VerdictOf(seen[h]) BY DEF SaveSync
  <1> QED BY <1>3, <1>6, <1>7 DEF VerdictOf, Verdicts

(* What another handler does leaves a handler's knowledge true.            *)
LEMMA OthersHeld ==
    ASSUME Inv, NEW h \in Handlers, Handle(h), NEW g \in Handlers \ {h}
    PROVE  Held(g)'
  <1>1. /\ at'[g] = at[g] /\ snap'[g] = snap[g] /\ seen'[g] = seen[g]
    BY OthersUntouched DEF Inv, TypeInv
  <1>2. token' = token \/ (token \notin Verdicts /\ token' # "absent")
    BY ChainMovesOn DEF Inv, TypeInv, Next
  <1>3. Held(g) BY DEF Inv
  <1>4. at[g] \in Writing /\ g \notin stale' => g \notin stale /\ ledger' = ledger
    BY NotOvertaken DEF Inv
  <1>5. at[g] \in {"notify", "save"} /\ g \notin stale' /\ seen[g] = "Pending"
          => decision' = "review"
    <2> SUFFICES ASSUME at[g] \in {"notify", "save"}, g \notin stale', seen[g] = "Pending",
                        decision' # "review"
                 PROVE  FALSE
      OBVIOUS
    <2>1. g \notin stale /\ ledger' = ledger BY <1>4 DEF Writing
    <2>2. decision = "review" BY <1>3, <2>1 DEF Held
    <2>3. SaveSync(h) BY <2>2, DecisionMoves
    <2>4. ledger.kind = "review_vote" /\ ledger.vote \in Verdicts
      BY <2>1, <2>3, SyncSaves DEF Inv, Verdicts
    <2> QED BY <2>2, <2>4 DEF Inv, Stored
  <1>6. at[g] # "idle" /\ snap[g].vote \in Verdicts => token' = snap[g].vote
    BY <1>2, <1>3 DEF Held
  <1>7. seen[g] \in Verdicts => token' = seen[g] BY <1>2, <1>3 DEF Held
  <1>8. token # "absent" => token' # "absent" BY <1>2
  <1> QED BY <1>1, <1>3, <1>4, <1>5, <1>6, <1>7, <1>8 DEF Held

(* What the row says of the chain stays true when it is not saved.         *)
LEMMA RowUnsaved ==
    ASSUME Inv, Next, UNCHANGED <<decision, ledger>>
    PROVE  VerdictFromChain' /\ Stored'
  <1>1. token' = token \/ (token \notin Verdicts /\ token' # "absent")
    BY ChainMovesOn DEF Inv, TypeInv
  <1> QED BY <1>1 DEF Inv, VerdictFromChain, Stored, Verdicts

(* A request that has ended knows nothing.                                 *)
LEMMA EndHeld ==
    ASSUME TypeOK, NEW h \in Handlers, End(h) PROVE Held(h)'
  <1>1. at'[h] = "idle" /\ seen'[h] = "Pending" BY DEF End, Goto, TypeOK
  <1> QED BY <1>1 DEF Held, Syncing, Writing, Verdicts

(* A step of a handler leaves the row and its own knowledge true.          *)
LEMMA OwnHeld ==
    ASSUME Inv, NEW h \in Handlers, Handle(h)
    PROVE  Held(h)' /\ VerdictFromChain' /\ Stored'
  <1> USE DEF Syncing, Writing
  <1>type. TypeInv /\ TypeOK /\ Next BY DEF Inv, TypeInv, Next
  <1>held. Held(h) BY DEF Inv
  <1>snap. at[h] # "idle" => snap[h] \in Ledger BY DEF Inv, TypeInv, Holding
  <1>row. /\ ledger.kind \in Kinds /\ ledger.vote \in {"Pending"} \cup Verdicts
          /\ ledger.vote \in Verdicts => token = ledger.vote
          /\ ledger.kind # "none" => token # "absent"
    BY <1>type, LedgerFields DEF TypeOK, Inv, VerdictFromChain, Stored, Votes
  <1>at. ASSUME NEW pc, Goto(h, pc) PROVE at'[h] = pc
    BY <1>at, <1>type DEF Goto, TypeOK
  <1>load. Load(h) => /\ snap'[h] = ledger /\ seen'[h] = seen[h]
                      /\ UNCHANGED <<decision, ledger, token, stale>>
    BY <1>type DEF Load, TypeOK, rows, chain, history
  <1>unsaved. UNCHANGED <<decision, ledger>> => VerdictFromChain' /\ Stored'
    BY <1>type, RowUnsaved
  <1>a. CASE \E n \in Switch : Start(h, n)
    <2> PICK n \in Switch : Start(h, n) BY <1>a
    <2>1. /\ at'[h] \in {"hash", "toggle", "sync"}
          /\ at'[h] \in {"toggle", "sync"} => ledger.kind = "review_vote"
          /\ decision = "review"
      BY <1>at DEF Start, IsVote
    <2>2. at'[h] = "toggle" => ledger.vote = "Pending"
      BY <2>1, <1>row DEF Inv, Stored
    <2>3. Load(h) BY DEF Start
    <2>4. Held(h)' BY <2>1, <2>2, <2>3, <1>row, <1>load, <1>held DEF Held
    <2> QED BY <2>3, <2>4, <1>load, <1>unsaved
  <1>b. CASE Toggle(h)
    <2> DEFINE json == LedgerOf(snap[h].kind, snap[h].token, snap[h].vote, want[h], snap[h].mail)
    <2>1. snap[h] \in Ledger BY <1>b, <1>snap DEF Toggle
    <2>2. json.kind = snap[h].kind /\ json.vote = snap[h].vote
      BY <2>1, <1>type, Rebuilt
    <2>3. Save(h, json) /\ snap' = [snap EXCEPT ![h] = json] BY <1>b DEF Toggle
    <2>4. snap[h].kind = "review_vote" /\ snap[h].vote = "Pending" /\ token # "absent"
      BY <1>b, <1>held DEF Toggle, Held
    <2> HIDE DEF json
    <2>5. ledger' = json /\ h \notin stale' BY <2>3 DEF Save
    <2>6. snap'[h] = json /\ at'[h] = "sync"
      BY <1>b, <2>3, <1>at, <1>type DEF Toggle, TypeOK
    <2>7. token' = token /\ seen' = seen /\ decision' = decision BY <1>b DEF Toggle, chain
    <2>8. Held(h)' BY <2>2, <2>4, <2>5, <2>6, <2>7, <1>held DEF Held, Verdicts
    <2>9. VerdictFromChain' /\ Stored'
      BY <2>2, <2>4, <2>5, <2>7 DEF Inv, VerdictFromChain, Stored, Verdicts
    <2> QED BY <2>8, <2>9
  <1>c. CASE CheckHash(h)
    <2>1. VerdictFromChain' /\ Stored' BY <1>c, <1>unsaved DEF CheckHash, rows
    <2>2. CASE End(h) BY <2>1, <2>2, <1>type, EndHeld
    <2>3. CASE Goto(h, "mintReview") /\ UNCHANGED <<snap, want, ballot, seen, mail, stale>>
      <3>1. at'[h] = "mintReview" BY <2>3, <1>at
      <3>2. at[h] = "hash" /\ UNCHANGED <<decision, ledger, token>>
        BY <1>c DEF CheckHash, rows, chain
      <3> QED BY <2>1, <2>3, <3>1, <3>2, <1>held DEF Held
    <2> QED BY <1>c, <2>2, <2>3 DEF CheckHash
  <1>d. CASE MintReview(h)
    <2>1. VerdictFromChain' /\ Stored' BY <1>d, <1>unsaved DEF MintReview, rows
    <2>2. CASE End(h) BY <2>1, <2>2, <1>type, EndHeld
    <2>3. CASE Goto(h, "record") /\ UNCHANGED <<snap, want, ballot, seen, mail, stale, dropped>>
      <3>1. at'[h] = "record" BY <2>3, <1>at
      <3>2. at[h] = "mintReview" /\ UNCHANGED <<decision, ledger>>
        BY <1>d DEF MintReview, rows
      <3>3. token = "absent" /\ token' = "Pending"
        BY <1>d, <3>1, <1>type DEF MintReview, End, Goto, TypeOK
      <3>4. snap[h].vote = "Pending" /\ snap[h].kind = "none"
        <4>1. snap[h].vote \in {"Pending"} \cup Verdicts BY <3>2, <1>snap, LedgerFields DEF Votes
        <4> QED BY <3>2, <3>3, <4>1, <1>held DEF Held, Verdicts
      <3>5. seen[h] \notin Verdicts BY <3>3, <1>held DEF Held, Verdicts
      <3>6. Held(h)'
        BY <2>3, <3>1, <3>2, <3>3, <3>4, <3>5, <1>held DEF Held, Verdicts
      <3> QED BY <2>1, <3>6
    <2> QED BY <1>d, <2>2, <2>3 DEF MintReview
  <1>e. CASE RecordVote(h)
    <2> DEFINE json == LedgerOf("review_vote", snap[h].token, snap[h].vote, want[h], "unsent")
    <2>1. snap[h] \in Ledger BY <1>e, <1>snap DEF RecordVote
    <2>2. json.kind = "review_vote" /\ json.vote = snap[h].vote
      BY <2>1, <1>type, Rebuilt
    <2>3. Save(h, json) /\ snap' = [snap EXCEPT ![h] = json] BY <1>e DEF RecordVote
    <2>4. snap[h].vote = "Pending" /\ token # "absent"
      BY <1>e, <1>held DEF RecordVote, Held
    <2> HIDE DEF json
    <2>5. ledger' = json /\ h \notin stale' BY <2>3 DEF Save
    <2>6. snap'[h] = json /\ at'[h] = "sync"
      BY <1>e, <2>3, <1>at, <1>type DEF RecordVote, TypeOK
    <2>7. token' = token /\ seen' = seen /\ decision' = decision BY <1>e DEF RecordVote, chain
    <2>8. Held(h)' BY <2>2, <2>4, <2>5, <2>6, <2>7, <1>held DEF Held, Verdicts
    <2>9. VerdictFromChain' /\ Stored'
      BY <2>2, <2>4, <2>5, <2>7 DEF Inv, VerdictFromChain, Stored, Verdicts
    <2> QED BY <2>8, <2>9
  <1>f. CASE Sync(h)
    <2>1. at'[h] = "sync" /\ ledger.kind = "review_vote" BY <1>f, <1>at DEF Sync
    <2>2. Load(h) BY <1>f DEF Sync
    <2>3. Held(h)' BY <2>1, <2>2, <1>row, <1>load, <1>held DEF Held
    <2> QED BY <2>2, <2>3, <1>load, <1>unsaved
  <1>g. CASE ReadChain(h)
    <2>1. /\ at[h] = "sync" /\ UNCHANGED <<decision, ledger, token, snap, stale>>
      BY <1>g DEF ReadChain, rows, chain, history
    <2>2. VerdictFromChain' /\ Stored' BY <2>1, <1>unsaved
    <2>3. CASE Goto(h, "finalize") /\ UNCHANGED seen
      <3>1. at'[h] = "finalize" BY <2>3, <1>at
      <3> QED BY <2>1, <2>2, <2>3, <3>1, <1>held DEF Held
    <2>4. CASE Goto(h, "notify") /\ token # "Ended" /\ seen' = [seen EXCEPT ![h] = token]
      <3>1. at'[h] = "notify" BY <2>4, <1>at
      <3>2. seen'[h] = token BY <2>4, <1>type DEF TypeOK
      <3>3. token = "Pending" => decision = "review"
        BY <1>type DEF Inv, VerdictFromChain, TypeOK, Decision
      <3> QED BY <2>1, <2>2, <2>4, <3>1, <3>2, <3>3, <1>held DEF Held
    <2> QED BY <1>g, <2>3, <2>4 DEF ReadChain
  <1>h. CASE Finalize(h)
    <2>1. VerdictFromChain' /\ Stored' BY <1>h, <1>unsaved DEF Finalize, rows
    <2>2. CASE End(h) BY <2>1, <2>2, <1>type, EndHeld
    <2>3. CASE /\ token = "Ended" /\ token' \in Verdicts /\ Goto(h, "reread")
               /\ UNCHANGED <<snap, want, ballot, seen, mail, stale, unlogged>>
      <3>1. at'[h] = "reread" BY <2>3, <1>at
      <3>2. at[h] = "finalize" /\ UNCHANGED <<decision, ledger>>
        BY <1>h DEF Finalize, rows
      <3>3. Held(h)' BY <2>3, <3>1, <3>2, <1>held DEF Held, Verdicts
      <3> QED BY <2>1, <3>3
    <2> QED BY <1>h, <2>2, <2>3 DEF Finalize
  <1>i. CASE Reread(h)
    <2>1. /\ at[h] = "reread" /\ UNCHANGED <<decision, ledger, token, snap, stale>>
      BY <1>i DEF Reread, rows, chain, history
    <2>2. at'[h] = "notify" BY <1>i, <1>at DEF Reread
    <2>3. seen'[h] = token /\ token \in Verdicts
      BY <1>i, <2>1, <1>type DEF Reread, TypeOK, TypeInv, Holding
    <2>4. Held(h)' BY <2>1, <2>2, <2>3, <1>held DEF Held, Verdicts
    <2> QED BY <2>1, <2>4, <1>unsaved
  <1>j. CASE Notify(h)
    <2>1. /\ at[h] = "notify" /\ UNCHANGED <<decision, ledger, token, snap, seen, stale>>
      BY <1>j DEF Notify, rows, chain
    <2>2. at'[h] = "save" BY <1>j, <1>at DEF Notify
    <2>3. Held(h)' BY <2>1, <2>2, <1>held DEF Held
    <2> QED BY <2>1, <2>3, <1>unsaved
  <1>k. CASE SaveSync(h)
    <2>1. at[h] = "save" /\ token' = token BY <1>k DEF SaveSync, chain
    <2>2. token # "absent" BY <2>1, <1>held DEF Held
    <2>3. VerdictFromChain' /\ Stored'
      BY <1>k, <2>1, <2>2, <1>held, <1>type, SyncSaves
      DEF Held, VerdictFromChain, Stored, Verdicts
    <2>4. CASE End(h) BY <2>3, <2>4, <1>type, EndHeld
    <2>5. CASE Goto(h, "log") /\ UNCHANGED <<snap, want, ballot, seen, mail>>
      <3>1. at'[h] = "log" BY <2>5, <1>at
      <3>2. Held(h)' BY <2>1, <2>2, <2>5, <3>1, <1>held DEF Held
      <3> QED BY <2>3, <3>2
    <2> QED BY <1>k, <2>4, <2>5 DEF SaveSync
  <1>l. CASE \E u \in Users, c \in Choice : Cast(h, u, c)
    <2> PICK u \in Users, c \in Choice : Cast(h, u, c) BY <1>l
    <2>1. at'[h] = "vote" /\ ledger.kind = "review_vote" BY <1>at DEF Cast, IsVote
    <2>2. Load(h) BY DEF Cast
    <2>3. Held(h)' BY <2>1, <2>2, <1>row, <1>load, <1>held DEF Held
    <2> QED BY <2>2, <2>3, <1>load, <1>unsaved
  <1>m. CASE Vote(h)
    <2>1. at[h] = "vote" /\ UNCHANGED <<decision, ledger, token>> BY <1>m DEF Vote, rows
    <2>2. VerdictFromChain' /\ Stored' BY <2>1, <1>unsaved
    <2>3. CASE End(h) BY <2>2, <2>3, <1>type, EndHeld
    <2>4. CASE Goto(h, "sync") /\ UNCHANGED <<snap, want, ballot, seen, mail, stale, unlogged>>
      <3>1. at'[h] = "sync" BY <2>4, <1>at
      <3>2. Held(h)' BY <2>1, <2>4, <3>1, <1>held DEF Held
      <3> QED BY <2>2, <3>2
    <2> QED BY <1>m, <2>3, <2>4 DEF Vote
  <1>n. CASE LogVote(h)
    <2>1. End(h) /\ UNCHANGED <<decision, ledger>> BY <1>n DEF LogVote
    <2> QED BY <2>1, <1>type, <1>unsaved, EndHeld
  <1>o. CASE Mint(h)
    <2>1. at'[h] \in {"refresh", "mintNft"} /\ decision = "allow" BY <1>o, <1>at DEF Mint
    <2>2. Load(h) BY <1>o DEF Mint
    <2>3. token # "absent" BY <2>1 DEF Inv, VerdictFromChain
    <2>4. Held(h)' BY <2>1, <2>2, <2>3, <1>row, <1>load, <1>held DEF Held
    <2> QED BY <2>2, <2>4, <1>load, <1>unsaved
  <1>p. CASE MintNft(h)
    <2>1. at[h] = "mintNft" /\ UNCHANGED <<decision, ledger, token>> BY <1>p DEF MintNft, rows
    <2>2. VerdictFromChain' /\ Stored' BY <2>1, <1>unsaved
    <2>3. CASE End(h) BY <2>2, <2>3, <1>type, EndHeld
    <2>4. CASE Goto(h, "saveMint") /\ UNCHANGED <<snap, want, ballot, seen, mail, stale, dropped>>
      <3>1. at'[h] = "saveMint" BY <2>4, <1>at
      <3>2. Held(h)' BY <2>1, <2>4, <3>1, <1>held DEF Held
      <3> QED BY <2>2, <3>2
    <2> QED BY <1>p, <2>3, <2>4 DEF MintNft
  <1>mint. ASSUME NEW tok \in Token, at[h] \in {"saveMint", "refresh"},
                  Save(h, LedgerOf("content", tok, snap[h].vote, snap[h].notify, snap[h].mail)),
                  UNCHANGED <<decision, token>>
           PROVE  VerdictFromChain' /\ Stored'
    <2>1. snap[h] \in Ledger BY <1>mint, <1>snap
    <2>2. ledger'.kind = "content" /\ ledger'.vote = snap[h].vote
      BY <1>mint, <2>1, <1>type, Rebuilt DEF Save
    <2>3. token # "absent" /\ (snap[h].vote \in Verdicts => token = snap[h].vote)
      BY <1>mint, <1>held DEF Held
    <2> QED BY <1>mint, <2>2, <2>3 DEF Inv, VerdictFromChain, Stored
  <1>q. CASE SaveMint(h)
    <2> PICK tok \in Token :
          Save(h, LedgerOf("content", tok, snap[h].vote, snap[h].notify, snap[h].mail))
      BY <1>q DEF SaveMint, Token
    <2>1. at[h] = "saveMint" /\ End(h) /\ UNCHANGED <<decision, token>>
      BY <1>q DEF SaveMint, chain
    <2> QED BY <2>1, <1>mint, <1>type, EndHeld
  <1>r. CASE Refresh(h)
    <2>1. at[h] = "refresh" /\ End(h) /\ UNCHANGED <<decision, token>>
      BY <1>r DEF Refresh, chain
    <2>2. CASE UNCHANGED ledger BY <2>1, <2>2, <1>type, <1>unsaved, EndHeld
    <2>3. CASE \E tok \in {snap[h].token, "known"} :
                 Save(h, LedgerOf("content", tok, snap[h].vote, snap[h].notify, snap[h].mail))
      <3> PICK tok \in {snap[h].token, "known"} :
            Save(h, LedgerOf("content", tok, snap[h].vote, snap[h].notify, snap[h].mail))
        BY <2>3
      <3>1. tok \in Token BY <2>1, <1>snap, LedgerFields DEF Token
      <3> QED BY <2>1, <3>1, <1>mint, <1>type, EndHeld
    <2> QED BY <1>r, <2>2, <2>3 DEF Refresh
  <1>s. CASE CutShort(h)
    <2>1. End(h) /\ UNCHANGED <<decision, ledger>> BY <1>s DEF CutShort, rows
    <2> QED BY <2>1, <1>type, <1>unsaved, EndHeld
  <1> QED
    BY <1>a, <1>b, <1>c, <1>d, <1>e, <1>f, <1>g, <1>h, <1>i, <1>j, <1>k, <1>l, <1>m,
       <1>n, <1>o, <1>p, <1>q, <1>r, <1>s DEF Handle

(* The invariant is inductive.                                             *)
LEMMA Inductive == Inv /\ [Next]_vars => Inv'
  <1> SUFFICES ASSUME Inv, [Next]_vars PROVE Inv' OBVIOUS
  <1>1. TypeInv' BY TypeInductive DEF Inv
  <1>2. ASSUME NEW h \in Handlers, Handle(h) PROVE Inv'
    <2>1. ASSUME NEW g \in Handlers PROVE Held(g)' BY <1>2, OwnHeld, OthersHeld
    <2> QED BY <1>1, <1>2, <2>1, OwnHeld DEF Inv
  <1>3. CASE (\E u \in Users : Relink(u)) \/ ChainMoves \/ Watermark
    <2>1. UNCHANGED <<decision, ledger, threads, history>>
      BY <1>3 DEF Relink, ChainMoves, Watermark, rows
    <2>2. Next BY <1>3 DEF Next
    <2>3. token' = token \/ (token \notin Verdicts /\ token' # "absent")
      BY <2>2, ChainMovesOn DEF Inv, TypeInv
    <2>4. ASSUME NEW g \in Handlers PROVE Held(g)'
      BY <2>1, <2>3 DEF Inv, Held, threads, history
    <2> QED BY <1>1, <2>1, <2>2, <2>4, RowUnsaved DEF Inv
  <1>4. CASE UNCHANGED vars
    BY <1>1, <1>4 DEF vars, rows, chain, threads, history, Inv, Held, VerdictFromChain, Stored
  <1> QED BY <1>2, <1>3, <1>4 DEF Next

(* It holds at first.                                                      *)
LEMMA Initial == Init => Inv
  <1> SUFFICES ASSUME Init PROVE Inv OBVIOUS
  <1>1. NewLedger.kind = "none" /\ NewLedger.vote = "Pending"
    BY LedgerTyped DEF NewLedger, Kinds, Token, Votes, Switch, Mail
  <1> QED BY <1>1, TypeInitial
      DEF Init, Inv, Held, VerdictFromChain, Stored, Verdicts, Syncing, Writing

(* The invariant the theorems below rest on.                               *)
THEOREM Invariance == Spec => []Inv
  BY Initial, Inductive, PTL DEF Spec

(* A content is allowed or blocked only with the chain's own verdict.      *)
THEOREM VerdictIsTheChains == Spec => []VerdictFromChain
  <1>1. Inv => VerdictFromChain BY DEF Inv
  <1> QED BY Invariance, <1>1, PTL
(* A verdict is lost only to a sync that was overtaken.                    *)
THEOREM VerdictStays == Spec => VerdictKept
  <1>1. ASSUME Inv, Next, stale = {}, decision # "review" PROVE decision' = decision
    <2>1. ASSUME NEW h \in Handlers, SaveSync(h) PROVE decision' = decision
      <3>1. at[h] = "save" /\ Held(h) /\ TypeInv BY <2>1, <1>1 DEF SaveSync, Inv
      <3>2. seen[h] # "Pending" BY <3>1, <1>1 DEF Held
      <3>3. seen[h] \in Verdicts /\ token = seen[h]
        BY <2>1, <3>1, <3>2, SyncSaves DEF Held
      <3>4. decision \in {"allow", "block"}
        BY <1>1, <3>1 DEF TypeInv, TypeOK, Decision
      <3> QED BY <1>1, <2>1, <3>1, <3>3, <3>4, SyncSaves DEF Inv, VerdictFromChain, Verdicts
    <2>2. ASSUME NEW h \in Handlers, Handle(h) PROVE decision' = decision
      BY <2>1, <2>2, DecisionMoves
    <2> QED BY <1>1, <2>2 DEF Next, Relink, ChainMoves, Watermark, rows
  <1>2. Inv /\ [Next]_vars =>
          [stale = {} /\ decision # "review" => decision' = decision]_vars
    BY <1>1
  <1> QED BY Invariance, <1>2, PTL DEF Spec, VerdictKept

(* The NFT's record is lost only to a handler that was overtaken.          *)
THEOREM NftRecordStays == Spec => NftRecordKept
  <1>1. ASSUME Inv, Next, stale = {}, ledger.kind = "content"
        PROVE  ledger'.kind = "content"
    <2>1. ASSUME NEW h \in Handlers, at[h] \in Syncing \cup {"record"} PROVE FALSE
      <3>1. snap[h] = ledger BY <1>1, <2>1 DEF Inv, Held, Syncing, Writing
      <3> QED BY <1>1, <2>1, <3>1 DEF Inv, Held
    <2>2. ASSUME NEW h \in Handlers, NEW tok \in Token, at[h] \in {"saveMint", "refresh"},
                 Save(h, LedgerOf("content", tok, snap[h].vote, snap[h].notify, snap[h].mail))
          PROVE  ledger'.kind = "content"
      <3>1. snap[h] \in Ledger BY <1>1, <2>2 DEF Inv, TypeInv, Holding
      <3> QED BY <1>1, <2>2, <3>1, Rebuilt DEF Save, Inv, TypeInv
    <2>3. ASSUME NEW h \in Handlers, Handle(h) PROVE ledger'.kind = "content"
      <3>1. CASE SaveMint(h) BY <3>1, <2>2 DEF SaveMint, Token
      <3>2. CASE Refresh(h)
        <4>1. snap[h].token \in Token
          BY <1>1, <3>2, LedgerFields DEF Refresh, Inv, TypeInv, Holding
        <4>2. {snap[h].token, "known"} \subseteq Token BY <4>1 DEF Token
        <4> QED BY <1>1, <3>2, <2>2, <4>2 DEF Refresh
      <3>3. CASE Toggle(h) \/ RecordVote(h) \/ SaveSync(h)
        BY <3>3, <2>1 DEF Toggle, RecordVote, SaveSync, Syncing
      <3>4. CASE ~(\/ SaveMint(h) \/ Refresh(h) \/ Toggle(h) \/ RecordVote(h) \/ SaveSync(h))
        <4>1. ledger' = ledger
          BY <2>3, <3>4 DEF Handle, Start, Load, CheckHash, MintReview, Sync, ReadChain,
             Finalize, Reread, Notify, Cast, Vote, LogVote, Mint, MintNft, CutShort, rows
        <4> QED BY <1>1, <4>1
      <3> QED BY <3>1, <3>2, <3>3, <3>4
    <2>4. CASE (\E u \in Users : Relink(u)) \/ ChainMoves \/ Watermark
      BY <1>1, <2>4 DEF Relink, ChainMoves, Watermark, rows
    <2> QED BY <1>1, <2>3, <2>4 DEF Next
  <1>2. Inv /\ [Next]_vars =>
          [stale = {} /\ ledger.kind = "content" => ledger'.kind = "content"]_vars
    BY <1>1
  <1> QED BY Invariance, <1>2, PTL DEF Spec, NftRecordKept

(* A second result mail is sent only by a handler that was overtaken.      *)
THEOREM NoSecondMail == Spec => MailOnce
  <1>1. ASSUME Inv, Next, stale = {}, ledger.vote \in Verdicts PROVE mails' = mails
    <2>1. ASSUME NEW h \in Handlers, Notify(h) PROVE mails' = mails
      <3>1. at[h] = "notify" BY <2>1 DEF Notify
      <3>2. snap[h] = ledger BY <1>1, <3>1 DEF Inv, Held, Writing
      <3>3. ~Due(h) BY <1>1, <3>2 DEF Due, Verdicts
      <3> QED BY <2>1, <3>3 DEF Notify
    <2>2. ASSUME NEW h \in Handlers, Handle(h) PROVE mails' = mails
      BY <2>1, <2>2 DEF Handle, Start, Load, Toggle, CheckHash, MintReview, RecordVote,
         Sync, ReadChain, Finalize, Reread, SaveSync, Cast, Vote, LogVote, Mint, MintNft,
         SaveMint, Refresh, CutShort, history
    <2> QED BY <1>1, <2>2 DEF Next, Relink, ChainMoves, Watermark, history
  <1>2. Inv /\ [Next]_vars => [stale = {} /\ ledger.vote \in Verdicts => mails' = mails]_vars
    BY <1>1
  <1> QED BY Invariance, <1>2, PTL DEF Spec, MailOnce

-----------------------------------------------------------------------------
(* What is on the chain is accounted for                                   *)

(* The kind a save writes.                                                 *)
LEMMA SavedKinds ==
    ASSUME Inv, NEW h \in Handlers, Handle(h)
    PROVE  /\ Toggle(h) \/ RecordVote(h) \/ SaveSync(h) => ledger'.kind = "review_vote"
           /\ SaveMint(h) => ledger'.kind = "content"
           /\ ledger.kind # "none" => ledger'.kind # "none"
           /\ ledger.kind = "content" => ledger'.kind = "content" \/ "nft" \in dropped'
           /\ dropped \subseteq dropped'
  <1>type. TypeInv /\ TypeOK BY DEF Inv, TypeInv
  <1>held. at[h] # "idle" => snap[h] \in Ledger BY DEF Inv, TypeInv, Holding
  <1>1. Toggle(h) => ledger'.kind = "review_vote"
    <2> SUFFICES ASSUME Toggle(h) PROVE ledger'.kind = "review_vote" OBVIOUS
    <2>1. snap[h] \in Ledger /\ snap[h].kind = "review_vote"
      BY <1>held DEF Toggle, Inv, Held, Syncing
    <2> QED BY <2>1, <1>type, Rebuilt DEF Toggle, Save
  <1>2. RecordVote(h) => ledger'.kind = "review_vote"
    <2> SUFFICES ASSUME RecordVote(h) PROVE ledger'.kind = "review_vote" OBVIOUS
    <2>1. snap[h] \in Ledger BY <1>held DEF RecordVote
    <2> QED BY <2>1, <1>type, Rebuilt DEF RecordVote, Save
  <1>3. SaveSync(h) => ledger'.kind = "review_vote" BY <1>type, SyncSaves
  <1>4. ASSUME NEW tok \in Token, at[h] # "idle",
               Save(h, LedgerOf("content", tok, snap[h].vote, snap[h].notify, snap[h].mail))
        PROVE  ledger'.kind = "content"
    BY <1>4, <1>held, <1>type, Rebuilt DEF Save
  <1>5. SaveMint(h) => ledger'.kind = "content" BY <1>4 DEF SaveMint, Token
  <1>6. Refresh(h) => ledger' = ledger \/ ledger'.kind = "content"
    <2> SUFFICES ASSUME Refresh(h) PROVE ledger' = ledger \/ ledger'.kind = "content" OBVIOUS
    <2>1. snap[h].token \in Token BY <1>held, LedgerFields DEF Refresh
    <2>2. {snap[h].token, "known"} \subseteq Token BY <2>1 DEF Token
    <2> QED BY <2>2, <1>4 DEF Refresh
  <1>7. \/ ledger' = ledger
        \/ Toggle(h) \/ RecordVote(h) \/ SaveSync(h) \/ SaveMint(h) \/ Refresh(h)
    BY DEF Handle, Start, Load, CheckHash, MintReview, Sync, ReadChain, Finalize, Reread,
       Notify, Cast, Vote, LogVote, Mint, MintNft, CutShort, rows
  <1>8. ASSUME NEW json, Save(h, json)
        PROVE  /\ dropped \subseteq dropped'
               /\ ledger.kind = "content" => ledger'.kind = "content" \/ "nft" \in dropped'
    BY <1>8 DEF Save
  <1>9. dropped \subseteq dropped'
    BY <1>8 DEF Handle, Start, Load, Toggle, CheckHash, MintReview, RecordVote, Sync, ReadChain,
       Finalize, Reread, Notify, SaveSync, Cast, Vote, LogVote, Mint, MintNft, SaveMint,
       Refresh, CutShort, history
  <1>10. ledger.kind = "content" => ledger'.kind = "content" \/ "nft" \in dropped'
    BY <1>5, <1>6, <1>7, <1>8 DEF Toggle, RecordVote, SaveSync
  <1>11. ledger.kind # "none" => ledger'.kind # "none"
    BY <1>1, <1>2, <1>3, <1>5, <1>6, <1>7
  <1> QED BY <1>1, <1>2, <1>3, <1>5, <1>9, <1>10, <1>11

(* What is on the chain is recorded, about to be, or known to be lost.     *)
THEOREM NothingForgotten == Spec => []ChainAccounted
  <1>1. Init => ChainAccounted BY DEF Init, ChainAccounted
  <1>2. ASSUME Inv, ChainAccounted, NEW h \in Handlers, Handle(h) PROVE ChainAccounted'
    <2>at. ASSUME NEW pc, Goto(h, pc) PROVE at'[h] = pc
      BY <2>at, <1>2 DEF Goto, Inv, TypeInv, TypeOK
    <2>others. ASSUME NEW g \in Handlers, g # h PROVE at'[g] = at[g]
      BY <1>2, <2>others, OthersUntouched DEF Inv, TypeInv
    <2>1. token' # "absent" => \/ ledger'.kind # "none" \/ "token" \in dropped'
                               \/ \E g \in Handlers : at'[g] = "record"
      <3>1. CASE MintReview(h)
        BY <1>2, <3>1, <2>at, <2>others, SavedKinds DEF MintReview, ChainAccounted
      <3>2. CASE ~MintReview(h)
        <4>1. token' # "absent" => token # "absent"
          BY <1>2, <3>2 DEF Handle, Start, Load, Toggle, CheckHash, RecordVote, Sync, ReadChain,
             Finalize, Reread, Notify, SaveSync, Cast, Vote, LogVote, Mint, MintNft, SaveMint,
             Refresh, CutShort, chain
        <4>2. at[h] = "record" => RecordVote(h) \/ "token" \in dropped'
          BY <1>2, <3>2 DEF Handle, Start, Load, Toggle, CheckHash, Sync, ReadChain,
             Finalize, Reread, Notify, SaveSync, Cast, Vote, LogVote, Mint, MintNft, SaveMint,
             Refresh, CutShort
        <4> QED BY <1>2, <4>1, <4>2, <2>others, SavedKinds DEF ChainAccounted
      <3> QED BY <3>1, <3>2
    <2>2. nft' = "minted" => \/ ledger'.kind = "content" \/ "nft" \in dropped'
                             \/ \E g \in Handlers : at'[g] = "saveMint"
      <3>1. CASE MintNft(h)
        BY <1>2, <3>1, <2>at, <2>others, SavedKinds DEF MintNft, ChainAccounted
      <3>2. CASE ~MintNft(h)
        <4>1. nft' = nft
          BY <1>2, <3>2 DEF Handle, Start, Load, Toggle, CheckHash, MintReview, RecordVote, Sync,
             ReadChain, Finalize, Reread, Notify, SaveSync, Cast, Vote, LogVote, Mint,
             SaveMint, Refresh, CutShort, chain
        <4>2. at[h] = "saveMint" => SaveMint(h) \/ "nft" \in dropped'
          BY <1>2, <3>2 DEF Handle, Start, Load, Toggle, CheckHash, MintReview, RecordVote, Sync,
             ReadChain, Finalize, Reread, Notify, SaveSync, Cast, Vote, LogVote, Mint,
             Refresh, CutShort
        <4> QED BY <1>2, <4>1, <4>2, <2>others, SavedKinds DEF ChainAccounted
      <3> QED BY <3>1, <3>2
    <2> QED BY <2>1, <2>2 DEF ChainAccounted
  <1>3. ASSUME ChainAccounted, (\E u \in Users : Relink(u)) \/ ChainMoves \/ Watermark \/ UNCHANGED vars
        PROVE  ChainAccounted'
    <2>1. UNCHANGED <<ledger, nft, at, dropped>> /\ (token' # "absent" => token # "absent")
      BY <1>3 DEF Relink, ChainMoves, Watermark, vars, rows, chain, threads, history
    <2> QED BY <1>3, <2>1 DEF ChainAccounted
  <1>4. Inv /\ ChainAccounted /\ [Next]_vars => ChainAccounted' BY <1>2, <1>3 DEF Next
  <1> QED BY <1>1, <1>4, Invariance, PTL DEF Spec

(* How a step treats the ballot its handler carries: it brings one, puts   *)
(* it on the chain, takes it further, logs it or ends with it.             *)
LEMMA BallotMoves ==
    ASSUME TypeInv, NEW h \in Handlers, Carried(h), Handle(h)
    PROVE  \/ (\E u \in Users, c \in Choice : Cast(h, u, c))
           \/ Vote(h)
           \/ LogVote(h)
           \/ /\ UNCHANGED <<ballots, log>> /\ unlogged \subseteq unlogged'
              /\ \/ /\ ballot'[h] = ballot[h] /\ at[h] # "vote" /\ at'[h] # "vote"
                    /\ ballot[h] # None => at'[h] \in Casting
                 \/ /\ ballot'[h] = None
                    /\ ballot[h] # None /\ at[h] # "vote" => ballot[h] \in unlogged'
  <1> USE DEF TypeInv
  <1>at. ASSUME NEW pc, Goto(h, pc) PROVE at'[h] = pc
    BY <1>at DEF Goto, TypeOK
  <1>end. End(h) => ballot'[h] = None /\ at'[h] = "idle"
    BY DEF End, Goto, TypeOK
  <1>1. CASE (\E n \in Switch : Start(h, n)) \/ Sync(h) \/ Mint(h)
    <2>1. at[h] = "idle" /\ ballot' = ballot /\ UNCHANGED <<ballots, log, unlogged>>
      BY <1>1 DEF Start, Sync, Mint, Load, rows, chain, history
    <2>2. at'[h] \in {"hash", "toggle", "sync", "refresh", "mintNft"}
      BY <1>1, <1>at DEF Start, Sync, Mint
    <2>3. ballot[h] = None BY <2>1 DEF Carried, Casting
    <2> QED BY <2>1, <2>2, <2>3
  <1>2. CASE Toggle(h) \/ RecordVote(h) \/ ReadChain(h) \/ Reread(h) \/ Notify(h)
    <2>1. ballot' = ballot /\ UNCHANGED <<ballots, log, unlogged>>
      BY <1>2 DEF Toggle, RecordVote, ReadChain, Reread, Notify, rows, chain, history
    <2>2. at[h] # "vote" /\ at'[h] \in {"sync", "finalize", "notify", "save"}
      BY <1>2, <1>at DEF Toggle, RecordVote, ReadChain, Reread, Notify
    <2> QED BY <2>1, <2>2 DEF Casting
  <1>3. CASE CheckHash(h) \/ MintReview(h) \/ MintNft(h) \/ SaveMint(h) \/ Refresh(h)
    <2>1. ballot[h] = None
      BY <1>3 DEF CheckHash, MintReview, MintNft, SaveMint, Refresh, Carried, Casting
    <2>2. UNCHANGED <<ballots, log, unlogged>>
      BY <1>3 DEF CheckHash, MintReview, MintNft, SaveMint, Refresh, rows, chain
    <2>3. ballot'[h] = None
      BY <1>3, <2>1, <1>end DEF CheckHash, MintReview, MintNft, SaveMint, Refresh
    <2> QED BY <2>1, <2>2, <2>3
  <1>4. CASE Finalize(h)
    BY <1>4, <1>at, <1>end DEF Finalize, rows, Casting
  <1>5. CASE SaveSync(h)
    BY <1>5, <1>at, <1>end DEF SaveSync, chain, Casting
  <1>6. CASE CutShort(h)
    BY <1>6, <1>end DEF CutShort, rows, chain
  <1> QED BY <1>1, <1>2, <1>3, <1>4, <1>5, <1>6 DEF Handle

(* Logs tell the chain's ballots, and every counted ballot is accounted.   *)
THEOREM LogsTellBallots == Spec => []BallotsLogged
  <1>1. Init => BallotInv
    BY DEF Init, BallotInv, BallotsLogged, Carried
  <1>2. ASSUME TypeInv, BallotInv, NEW h \in Handlers, Handle(h) PROVE BallotInv'
    <2> USE <1>2
    <2>type. TypeOK BY DEF TypeInv
    <2>others. ASSUME NEW g \in Handlers, g # h
               PROVE  at'[g] = at[g] /\ ballot'[g] = ballot[g]
      BY <2>type, <2>others, OthersUntouched
    <2>more. ballots \subseteq ballots' BY <2>type, ChainMovesOn DEF Next
    <2>rest. ASSUME NEW g \in Handlers, g # h PROVE Carried(g)'
      BY <2>rest, <2>others, <2>more DEF BallotInv, Carried
    <2>at. ASSUME NEW pc, Goto(h, pc) PROVE at'[h] = pc
      BY <2>at, <2>type DEF Goto, TypeOK
    <2>end. End(h) => ballot'[h] = None /\ at'[h] = "idle"
      BY <2>type DEF End, Goto, TypeOK
    <2>mine. ASSUME NEW b \in ballots
             PROVE  \/ log[b.user] # None \/ b \in unlogged
                    \/ ballot[h] = b /\ at[h] # "vote"
                    \/ \E g \in Handlers \ {h} : ballot'[g] = b /\ at'[g] # "vote"
      BY <2>others DEF BallotInv, BallotsLogged
    <2>logs. \A u \in Users : log[u] # None => log[u] \in ballots' /\ log[u].user = u
      BY <2>more DEF BallotInv, BallotsLogged
    <2>1. CASE \E u \in Users, c \in Choice : Cast(h, u, c)
      <3>1. at[h] = "idle" /\ at'[h] = "vote" /\ UNCHANGED <<ballots, log, unlogged>>
        BY <2>1, <2>at DEF Cast, Load, rows, chain, history
      <3>2. ballot[h] = None BY <3>1 DEF BallotInv, Carried, Casting
      <3>3. Carried(h)' BY <3>1 DEF Carried, Casting
      <3>4. ASSUME NEW b \in ballots
            PROVE  \/ log[b.user] # None \/ b \in unlogged
                   \/ \E g \in Handlers \ {h} : ballot'[g] = b /\ at'[g] # "vote"
        BY <3>2, <2>mine, NoneIsNoBallot, <2>type DEF TypeOK
      <3>5. BallotsLogged' BY <3>1, <3>4, <2>logs DEF BallotsLogged
      <3> QED BY <3>3, <3>5, <2>rest DEF BallotInv
    <2>2. CASE Vote(h)
      <3>1. at[h] = "vote" /\ UNCHANGED log BY <2>2 DEF Vote, rows
      <3>2. CASE End(h)
        <4>1. Carried(h)' BY <3>2, <2>end DEF Carried
        <4>2. ballots' = ballots \/ (ballots' = ballots \cup {ballot[h]} /\ ballot[h] \in unlogged')
          BY <2>2, <3>2, <2>end, <2>at DEF Vote
        <4>3. unlogged \subseteq unlogged' BY <2>2 DEF Vote
        <4>4. BallotsLogged'
          BY <3>1, <4>2, <4>3, <2>mine, <2>logs DEF BallotsLogged
        <4> QED BY <4>1, <4>4, <2>rest DEF BallotInv
      <3>3. CASE /\ Goto(h, "sync") /\ ballots' = ballots \cup {ballot[h]}
                 /\ UNCHANGED <<ballot, unlogged>>
        <4>1. at'[h] = "sync" BY <3>3, <2>at
        <4>2. Carried(h)' BY <3>3, <4>1 DEF Carried, Casting
        <4>3. BallotsLogged'
          BY <3>1, <3>3, <4>1, <2>mine, <2>logs DEF BallotsLogged
        <4> QED BY <4>2, <4>3, <2>rest DEF BallotInv
      <3> QED BY <2>2, <3>2, <3>3 DEF Vote
    <2>3. CASE LogVote(h)
      <3>1. ballot[h] \in Ballot /\ at[h] = "log"
        BY <2>3 DEF LogVote, TypeInv, Holding
      <3>2. ballot[h] # None BY <3>1, NoneIsNoBallot
      <3>3. ballot[h] \in ballots BY <3>1, <3>2 DEF BallotInv, Carried
      <3>4. log' = [log EXCEPT ![ballot[h].user] = ballot[h]] /\ ballot[h].user \in Users
        BY <2>3, <3>1, BallotTyped DEF LogVote
      <3>5. UNCHANGED <<ballots, unlogged>> BY <2>3 DEF LogVote, chain
      <3>6. Carried(h)' BY <2>3, <2>end DEF LogVote, Carried
      <3>7. \A u \in Users : log'[u] # None => log'[u] \in ballots' /\ log'[u].user = u
        BY <3>3, <3>4, <2>logs, <2>more, <2>type DEF TypeOK
      <3>8. \A b \in ballots : log[b.user] # None \/ b = ballot[h] => log'[b.user] # None
        <4>1. \A b \in ballots : b.user \in Users BY <2>type, BallotTyped DEF TypeOK
        <4> QED BY <3>2, <3>4, <4>1, <2>type DEF TypeOK
      <3>9. BallotsLogged' BY <3>5, <3>7, <3>8, <2>mine DEF BallotsLogged
      <3> QED BY <3>6, <3>9, <2>rest DEF BallotInv
    <2>4. CASE /\ UNCHANGED <<ballots, log>> /\ unlogged \subseteq unlogged'
               /\ ballot'[h] = ballot[h] /\ at[h] # "vote" /\ at'[h] # "vote"
               /\ ballot[h] # None => at'[h] \in Casting
      <3>1. Carried(h)' BY <2>4 DEF BallotInv, Carried
      <3>2. BallotsLogged' BY <2>4, <2>mine, <2>logs DEF BallotsLogged
      <3> QED BY <3>1, <3>2, <2>rest DEF BallotInv
    <2>5. CASE /\ UNCHANGED <<ballots, log>> /\ unlogged \subseteq unlogged'
               /\ ballot'[h] = None
               /\ ballot[h] # None /\ at[h] # "vote" => ballot[h] \in unlogged'
      <3>1. Carried(h)' BY <2>5, <2>type, NoneIsNoBallot DEF Carried, TypeInv, Holding
      <3>2. \A b \in ballots : b # None BY <2>type, NoneIsNoBallot DEF TypeOK
      <3>3. BallotsLogged' BY <2>5, <3>2, <2>mine, <2>logs DEF BallotsLogged
      <3> QED BY <3>1, <3>3, <2>rest DEF BallotInv
    <2>6. Carried(h) BY DEF BallotInv
    <2> QED BY <2>1, <2>2, <2>3, <2>4, <2>5, <2>6, BallotMoves
  <1>3. ASSUME BallotInv, (\E u \in Users : Relink(u)) \/ ChainMoves \/ Watermark \/ UNCHANGED vars
        PROVE  BallotInv'
    <2>1. UNCHANGED <<log, ballots, unlogged, at, ballot>>
      BY <1>3 DEF Relink, ChainMoves, Watermark, vars, rows, chain, threads, history
    <2> QED BY <1>3, <2>1 DEF BallotInv, BallotsLogged, Carried
  <1>4. TypeInv /\ BallotInv /\ [Next]_vars => BallotInv' BY <1>2, <1>3 DEF Next
  <1>5. BallotInv => BallotsLogged BY DEF BallotInv
  <1> QED BY <1>1, <1>4, <1>5, TypeInitial, TypeInductive, PTL DEF Spec
=============================================================================
