----------------------------- MODULE WalletLinks -----------------------------
(***************************************************************************)
(* Linking wallets to accounts: WalletConnectChallengeView,                *)
(* WalletConnectVerifyView and WalletLinkView.  A challenge is a message   *)
(* with a nonce that the wallet signs; verifying the signature links the   *)
(* wallet's address to the account.  Every query is a step of its own;     *)
(* only the database's unique columns (one link per user, one user per     *)
(* address) hold across them.  A request whose signature does not match    *)
(* the challenge found for it changes nothing and is left out.             *)
(***************************************************************************)
EXTENDS WalletRows

VARIABLES
    at,         \* where each handler is
    req         \* the user, the address and the challenge it works on

vars == <<link, challenge, at, req, spent, shared>>

Request   == [user : Users, address : Addresses, challenge : Nat]
NoRequest == [user |-> None, address |-> None, challenge |-> 0]
Pc        == {"idle", "issue", "conflict", "link", "mark"}

TypeOK ==
    /\ link \in [Users -> Addresses \cup {None}]
    /\ challenge \in Seq(Challenge)
    /\ at \in [Handlers -> Pc]
    /\ req \in [Handlers -> Request \cup {NoRequest}]
    /\ spent \in [1..MaxChallenges -> 0..2]
    /\ shared \in SUBSET (1..MaxChallenges)

Init ==
    /\ link = [u \in Users |-> None]
    /\ challenge = <<>>
    /\ at = [h \in Handlers |-> "idle"]
    /\ req = [h \in Handlers |-> NoRequest]
    /\ spent = [c \in 1..MaxChallenges |-> 0]
    /\ shared = {}

-----------------------------------------------------------------------------
Open(c) == challenge[c].used = "no"

Goto(h, pc) == at' = [at EXCEPT ![h] = pc]

End(h) == Goto(h, "idle") /\ req' = [req EXCEPT ![h] = NoRequest]

Serve(h, pc, u, a, c) ==
    /\ at[h] = "idle"
    /\ Goto(h, pc)
    /\ req' = [req EXCEPT ![h] = [user |-> u, address |-> a, challenge |-> c]]

Counted(c) == [spent EXCEPT ![c] = IF @ < 2 THEN @ + 1 ELSE 2]

Used(c) == [challenge[c] EXCEPT !.used = "yes"]

\* WalletConnectChallengeView: the user's unused challenges are retired ...
Ask(h, u, a) ==
    /\ Serve(h, "issue", u, a, 0)
    /\ challenge' = [c \in Issued |->
           IF challenge[c].user = u /\ Open(c) THEN Used(c) ELSE challenge[c]]
    /\ UNCHANGED <<link, spent, shared>>

\* ... and a new one is created.
Issue(h) ==
    /\ at[h] = "issue"
    /\ Len(challenge) < MaxChallenges
    /\ challenge' = Append(challenge,
           [user |-> req[h].user, address |-> req[h].address, used |-> "no", age |-> "fresh"])
    /\ End(h)
    /\ UNCHANGED <<link, spent, shared>>

Usable(u, a) == {c \in Issued : /\ challenge[c].user = u /\ challenge[c].address = a
                                /\ Open(c) /\ challenge[c].age = "fresh"}

\* WalletConnectVerifyView: the newest usable challenge, signed by the wallet.
Verify(h, u, a) ==
    \E c \in Usable(u, a) :
        /\ \A d \in Usable(u, a) : d <= c
        /\ Serve(h, "conflict", u, a, c)
        /\ shared' = IF \E g \in Handlers : req[g].challenge = c
                     THEN shared \cup {c} ELSE shared
        /\ UNCHANGED <<link, challenge, spent>>

LinkedElsewhere(u, a) == \E v \in Users \ {u} : link[v] = a

CheckConflict(h) ==
    /\ at[h] = "conflict"
    /\ IF LinkedElsewhere(req[h].user, req[h].address)
       THEN End(h)
       ELSE Goto(h, "link") /\ UNCHANGED req
    /\ UNCHANGED <<link, challenge, spent, shared>>

\* A plausible slip: address is not unique, and the conflict check is relied on.
Link_NotUnique(h) ==
    /\ at[h] = "link"
    /\ link' = [link EXCEPT ![req[h].user] = req[h].address]
    /\ spent' = Counted(req[h].challenge)
    /\ Goto(h, "mark") /\ UNCHANGED req
    /\ UNCHANGED <<challenge, shared>>

\* WalletLink.objects.update_or_create; an address that was linked elsewhere
\* in the meantime raises an IntegrityError.
Link(h) ==
    LET u == req[h].user  a == req[h].address IN
    /\ at[h] = "link"
    /\ \/ /\ ~LinkedElsewhere(u, a)
          /\ link' = [link EXCEPT ![u] = a]
          /\ spent' = Counted(req[h].challenge)
          /\ Goto(h, "mark") /\ UNCHANGED req
       \/ /\ LinkedElsewhere(u, a)
          /\ End(h)
          /\ UNCHANGED <<link, spent>>
    /\ UNCHANGED <<challenge, shared>>

\* A plausible slip: the save names a field that does not hold used_at.
Mark_Forgotten(h) ==
    /\ at[h] = "mark"
    /\ End(h)
    /\ UNCHANGED <<link, challenge, spent, shared>>

\* challenge.used_at, after the link.
Mark(h) ==
    /\ at[h] = "mark"
    /\ challenge' = [challenge EXCEPT ![req[h].challenge] = Used(req[h].challenge)]
    /\ End(h)
    /\ UNCHANGED <<link, spent, shared>>

\* The database raises or the thread is killed between two queries.
CutShort(h) ==
    /\ at[h] # "idle"
    /\ End(h)
    /\ shared' = IF at[h] = "mark" THEN shared \cup {req[h].challenge} ELSE shared
    /\ UNCHANGED <<link, challenge, spent>>

\* WalletLinkView.delete
Unlink(u) ==
    /\ link[u] # None
    /\ link' = [link EXCEPT ![u] = None]
    /\ UNCHANGED <<challenge, at, req, spent, shared>>

\* Ten minutes pass.
Expire(c) ==
    /\ challenge[c].age = "fresh"
    /\ challenge' = [challenge EXCEPT ![c].age = "expired"]
    /\ UNCHANGED <<link, at, req, spent, shared>>

Next ==
    \/ \E h \in Handlers :
         \/ \E u \in Users, a \in Addresses : Ask(h, u, a) \/ Verify(h, u, a)
         \/ Issue(h) \/ CheckConflict(h) \/ Link(h) \/ Mark(h) \/ CutShort(h)
    \/ \E u \in Users : Unlink(u)
    \/ \E c \in Issued : Expire(c)

Spec == Init /\ [][Next]_vars

=============================================================================
