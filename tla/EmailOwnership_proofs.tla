----------------------- MODULE EmailOwnership_proofs -----------------------
(***************************************************************************)
(* Proofs about EmailOwnership, for any number of accounts, mailboxes,     *)
(* providers, persons and threads.                                         *)
(***************************************************************************)
EXTENDS EmailOwnership, TLAPS

(* What requests are and what their fields hold.                           *)
LEMMA Requests ==
    /\ NoRequest \in Request
    /\ \A a \in 0..MaxAccounts, e, l \in Addresses \cup {None} :
          ForAccount(a, e, l) \in Request
    /\ \A s \in Subs, e \in Addresses \cup {None}, c \in {"none", "unverified", "verified"} :
          ForPerson(s, c, e) \in Request
BY OwnershipAssumption DEF Request, NoRequest, ForAccount, ForPerson

(* Their fields, ...                                                       *)
LEMMA RequestFields ==
    /\ NoRequest.user = 0 /\ NoRequest.sub = None /\ NoRequest.address = None
    /\ \A a, e, l : /\ ForAccount(a, e, l).user = a
                    /\ ForAccount(a, e, l).address = e
    /\ \A s, e, c : /\ ForPerson(s, c, e).user = 0
                    /\ ForPerson(s, c, e).sub = s
                    /\ ForPerson(s, c, e).address = e
BY DEF NoRequest, ForAccount, ForPerson

(* ... also after a login has found its account.                           *)
LEMMA RequestMoves ==
    \A q \in Request :
        /\ \A a \in 0..MaxAccounts :
              LET p == [q EXCEPT !.user = a]
              IN  p \in Request /\ p.user = a /\ p.sub = q.sub /\ p.address = q.address
        /\ \A e \in Addresses \cup {None} :
              LET p == [q EXCEPT !.address = e]
              IN  p \in Request /\ p.user = q.user /\ p.sub = q.sub /\ p.address = e
BY DEF Request

(* Spellings of one mailbox are each other's spellings.                    *)
LEMMA SpellingsAgree ==
    /\ Normalized \subseteq Addresses
    /\ None \notin Addresses
    /\ Spellings(None) = {}
    /\ \A e \in Addresses :
          /\ Spellings(e) \subseteq Addresses
          /\ e \in Spellings(e)
          /\ \A f \in Addresses : f \in Spellings(e) <=> e \in Spellings(f)
BY OwnershipAssumption DEF Normalized, Addresses, Spellings

(* The effect of a write of account a's address.                           *)
LEMMA Given ==
    ASSUME TypeOK, NEW h \in Handlers, NEW a \in Accounts,
           NEW e \in Addresses \cup {None}, NEW check \in How, Give(h, a, e, check)
    PROVE  /\ email' \in [Accounts -> Addresses \cup {None}]
           /\ email'[a] = e /\ \A b \in Accounts \ {a} : email'[b] = email[b]
           /\ how' \in [Accounts -> How]
           /\ how'[a] = check /\ \A b \in Accounts \ {a} : how'[b] = how[b]
           /\ raced' \subseteq raced \cup {a}
           /\ a \in raced' <=> h \in overtaken
           /\ \A b \in Accounts \ {a} : b \in raced' <=> b \in raced
           /\ overtaken' \subseteq Handlers /\ h \notin overtaken'
           /\ \A g \in Handlers \ {h} :
                 g \in overtaken' <=>
                   \/ g \in overtaken
                   \/ /\ at[g] \in {"create", "verify", "patch", "new"}
                      /\ req[g].address \in Spellings(e)
BY DEF TypeOK, Give, Overtake

(* A thread that arrives, goes on or ends leaves the others alone.         *)
LEMMA Moves ==
    ASSUME TypeOK, NEW h \in Handlers
    PROVE  /\ End(h) => /\ at' \in [Handlers -> Pc] /\ at'[h] = "idle"
                        /\ req' \in [Handlers -> Request] /\ req'[h] = NoRequest
           /\ \A pc \in Pc, q \in Request : Serve(h, pc, q) =>
                 /\ at[h] = "idle"
                 /\ at' \in [Handlers -> Pc] /\ at'[h] = pc
                 /\ req' \in [Handlers -> Request] /\ req'[h] = q
           /\ \A pc \in Pc : Goto(h, pc) => at' \in [Handlers -> Pc] /\ at'[h] = pc
           /\ \A pc, q : Goto(h, pc) \/ End(h) \/ Serve(h, pc, q) =>
                 \A g \in Handlers \ {h} : at'[g] = at[g]
           /\ \A pc, q : End(h) \/ Serve(h, pc, q) =>
                 \A g \in Handlers \ {h} : req'[g] = req[g]
BY Requests DEF TypeOK, End, Serve, Goto, Pc
-----------------------------------------------------------------------------
(* The inductive invariant.  What a request works with belongs to it ...   *)
HeldInv(h) ==
    /\ at[h] \in {"verify", "check", "patch", "move"} =>
          req[h].user \in 1..count /\ (req[h].user \in withdrawn => req[h].user \in late)
    /\ at[h] \in {"links", "link"} => req[h].user \in 1..count
    /\ at[h] \in {"find", "links", "link", "new"} => req[h].sub \in Subs
    /\ h \in overtaken => at[h] \in {"create", "verify", "patch", "new", "link"}

(* ... and what it found is still so, unless it was overtaken.             *)
FoundInv(h) ==
    h \notin overtaken =>
      /\ at[h] \in {"create", "new"} => Holders(req[h].address) = {}
      /\ at[h] = "verify" => ~VerifiedElsewhere(req[h].user, req[h].address)
      /\ at[h] = "patch" => Holders(req[h].address) \subseteq {req[h].user}
      /\ at[h] = "link" => \A s \in Subs : owner[s] = req[h].user
                               => provider[s] # provider[req[h].sub]

Base == TypeOK /\ \A h \in Handlers : HeldInv(h)

IInv == /\ Base
        /\ \A h \in Handlers : FoundInv(h)
        /\ VerifiedWasProved
        /\ AddressOwned
        /\ LoginLinks

(* Steps of a request that write nothing but its own place.                *)
Asks(h) ==
    \/ \E e \in Normalized :
          SignUp(h, e) \/ \E a \in Accounts : Verify(h, a, e) \/ Patch(h, a, e)
    \/ \E s \in Subs :
          \/ \E e \in Addresses : LoginKnown(h, s, e)
          \/ \E e \in Addresses \cup {None}, c \in {"unverified", "verified"} :
                LoginNew(h, s, e, c)
    \/ CheckFree(h) \/ FindUser(h) \/ CheckLinks(h) \/ CutShort(h)

Writes(h) == \/ CreateUser(h) \/ SaveVerified(h) \/ SavePatch(h)
             \/ MoveAddress(h) \/ Link(h) \/ CreateSocial(h)

(* Every step asks, writes or withdraws.                                   *)
LEMMA Steps == Next => \/ \E h \in Handlers : Asks(h) \/ Writes(h)
                       \/ \E a \in Accounts : Withdraw(a)
BY DEF Next, Asks, Writes

(* A step that only moves its request on keeps the others' parts, and of   *)
(* its own what the step itself does not decide.                           *)
LEMMA AsksFrame ==
    ASSUME Base, NEW h \in Handlers, Asks(h)
    PROVE  /\ UNCHANGED <<users, links, ghosts>>
           /\ overtaken' \subseteq overtaken /\ overtaken \subseteq overtaken' \cup {h}
           /\ \A g \in Handlers \ {h} : at'[g] = at[g] /\ req'[g] = req[g]
<1> USE DEF ghosts, Base
<1>1. UNCHANGED <<users, links, ghosts>>
      /\ overtaken' \subseteq overtaken /\ overtaken \subseteq overtaken' \cup {h}
  BY DEF Asks, SignUp, Verify, Patch, LoginKnown, LoginNew, CheckFree, FindUser,
         CheckLinks, CutShort
<1>2. ASSUME NEW g \in Handlers \ {h} PROVE at'[g] = at[g] /\ req'[g] = req[g]
  <2>1. CASE \E e \in Normalized :
               SignUp(h, e) \/ \E a \in Accounts : Verify(h, a, e) \/ Patch(h, a, e)
    BY <2>1, Moves DEF SignUp, Verify, Patch
  <2>2. CASE \E s \in Subs :
               \/ \E e \in Addresses : LoginKnown(h, s, e)
               \/ \E e \in Addresses \cup {None}, c \in {"unverified", "verified"} :
                     LoginNew(h, s, e, c)
    BY <2>2, Moves DEF LoginKnown, LoginNew
  <2>3. CASE CheckFree(h)
    BY <2>3, Moves DEF CheckFree
  <2>4. CASE FindUser(h)
    BY <2>4, Moves DEF FindUser, TypeOK
  <2>5. CASE CheckLinks(h)
    BY <2>5, Moves DEF CheckLinks
  <2>6. CASE CutShort(h)
    BY <2>6, Moves DEF CutShort
  <2> QED BY <2>1, <2>2, <2>3, <2>4, <2>5, <2>6 DEF Asks
<1> QED BY <1>1, <1>2

(* It keeps its own part of the invariant: what it reads is what it finds. *)
LEMMA AsksOwn ==
    ASSUME Base, NEW h \in Handlers, Asks(h)
    PROVE  /\ at' \in [Handlers -> Pc] /\ req' \in [Handlers -> Request]
           /\ HeldInv(h)'
           /\ FoundInv(h)'
<1> USE OwnershipAssumption DEF Base
<1>1. ASSUME NEW e \in Normalized, SignUp(h, e)
      PROVE  /\ at'[h] = "create" /\ req'[h] = ForAccount(0, e, None)
             /\ at' \in [Handlers -> Pc] /\ req' \in [Handlers -> Request]
             /\ Holders(e)' = {}
  <2>1. ForAccount(0, e, None) \in Request /\ "create" \in Pc
    BY Requests, SpellingsAgree DEF Pc
  <2>2. Holders(e)' = Holders(e)
    BY <1>1 DEF SignUp, Holders, users
  <2> QED BY <1>1, <2>1, <2>2, Moves DEF SignUp
<1>2. CASE \E e \in Normalized : SignUp(h, e)
  <2>1. h \notin overtaken
    BY <1>2 DEF HeldInv, SignUp, Serve
  <2> QED BY <1>1, <1>2, <2>1, RequestFields, AsksFrame DEF HeldInv, FoundInv
<1>3. ASSUME NEW e \in Normalized, NEW a \in Accounts, Verify(h, a, e)
      PROVE  /\ at'[h] = "verify" /\ req'[h] = ForAccount(a, e, None)
             /\ at' \in [Handlers -> Pc] /\ req' \in [Handlers -> Request]
             /\ ~VerifiedElsewhere(a, e)'
             /\ a \in 1..count' /\ a \notin withdrawn'
             /\ h \notin overtaken'
  <2>1. ForAccount(a, e, None) \in Request /\ "verify" \in Pc
    BY Requests, SpellingsAgree DEF Pc, Accounts
  <2>2. ~VerifiedElsewhere(a, e)' /\ a \in 1..count' /\ a \notin withdrawn'
    BY <1>3 DEF Verify, VerifiedElsewhere, users, Live
  <2>3. h \notin overtaken'
    BY <1>3 DEF HeldInv, Verify, Serve
  <2> QED BY <1>3, <2>1, <2>2, <2>3, Moves DEF Verify
<1>4. CASE \E e \in Normalized, a \in Accounts : Verify(h, a, e)
  BY <1>3, <1>4, RequestFields DEF HeldInv, FoundInv
<1>5. ASSUME NEW e \in Normalized, NEW a \in Accounts, Patch(h, a, e)
      PROVE  /\ at'[h] = "check" /\ req'[h] = ForAccount(a, e, email[a])
             /\ at' \in [Handlers -> Pc] /\ req' \in [Handlers -> Request]
             /\ a \in 1..count' /\ a \notin withdrawn'
             /\ h \notin overtaken'
  <2>1. ForAccount(a, e, email[a]) \in Request /\ "check" \in Pc
    BY Requests, SpellingsAgree DEF Pc, Accounts, TypeOK
  <2>2. a \in 1..count' /\ a \notin withdrawn' /\ h \notin overtaken'
    BY <1>5 DEF Patch, users, Live, HeldInv, Serve
  <2> QED BY <1>5, <2>1, <2>2, Moves DEF Patch
<1>6. CASE \E e \in Normalized, a \in Accounts : Patch(h, a, e)
  BY <1>5, <1>6, RequestFields DEF HeldInv, FoundInv
<1>7. ASSUME NEW s \in Subs, NEW e \in Addresses, LoginKnown(h, s, e)
      PROVE  /\ at'[h] = "move" /\ req'[h] = ForAccount(owner[s], e, None)
             /\ at' \in [Handlers -> Pc] /\ req' \in [Handlers -> Request]
             /\ owner[s] \in 1..count' /\ owner[s] \notin withdrawn'
             /\ h \notin overtaken'
  <2>1. owner[s] \in 1..count /\ owner[s] \in 0..MaxAccounts
    BY <1>7 DEF LoginKnown, Live, TypeOK
  <2>2. ForAccount(owner[s], e, None) \in Request /\ "move" \in Pc
    BY <2>1, Requests DEF Pc
  <2>3. owner[s] \in 1..count' /\ owner[s] \notin withdrawn' /\ h \notin overtaken'
    BY <1>7, <2>1 DEF LoginKnown, users, Live, HeldInv, Serve
  <2> QED BY <1>7, <2>2, <2>3, Moves DEF LoginKnown
<1>8. CASE \E s \in Subs, e \in Addresses : LoginKnown(h, s, e)
  BY <1>7, <1>8, RequestFields DEF HeldInv, FoundInv
<1>9. ASSUME NEW s \in Subs, NEW e \in Addresses \cup {None},
             NEW c \in {"unverified", "verified"}, LoginNew(h, s, e, c)
      PROVE  /\ at'[h] = "find" /\ req'[h] = ForPerson(s, c, e)
             /\ at' \in [Handlers -> Pc] /\ req' \in [Handlers -> Request]
             /\ h \notin overtaken'
  <2>1. ForPerson(s, c, e) \in Request /\ "find" \in Pc
    BY Requests DEF Pc
  <2>2. h \notin overtaken'
    BY <1>9 DEF LoginNew, HeldInv, Serve
  <2> QED BY <1>9, <2>1, <2>2, Moves DEF LoginNew
<1>10. CASE \E s \in Subs, e \in Addresses \cup {None}, c \in {"unverified", "verified"} :
              LoginNew(h, s, e, c)
  <2>1. PICK s \in Subs, e \in Addresses \cup {None}, c \in {"unverified", "verified"} :
          LoginNew(h, s, e, c)
    BY <1>10
  <2>2. ForPerson(s, c, e).sub = s
    BY RequestFields
  <2> QED BY <1>9, <2>1, <2>2 DEF HeldInv, FoundInv
<1>11. CASE CheckFree(h)
  <2>1. CASE Holders(req[h].address) \subseteq {req[h].user}
    <3>1. at' \in [Handlers -> Pc] /\ at'[h] = "patch" /\ req' = req
      BY <1>11, <2>1, Moves DEF CheckFree, Pc
    <3>2. UNCHANGED <<count, withdrawn, email, late, overtaken>> /\ at[h] = "check"
      BY <1>11 DEF CheckFree, users, ghosts
    <3>3. HeldInv(h)'
      BY <3>1, <3>2 DEF HeldInv
    <3>4. FoundInv(h)'
      BY <2>1, <3>1, <3>2 DEF FoundInv, Holders
    <3> QED BY <3>1, <3>3, <3>4 DEF TypeOK
  <2>2. CASE ~(Holders(req[h].address) \subseteq {req[h].user})
    <3>1. End(h) /\ h \notin overtaken'
      BY <1>11, <2>2 DEF CheckFree, HeldInv
    <3> QED BY <3>1, Moves DEF HeldInv, FoundInv
  <2> QED BY <2>1, <2>2
<1>12. CASE FindUser(h)
  <2>0. UNCHANGED <<count, withdrawn, email, owner, provider, late, overtaken>>
        /\ at[h] = "find" /\ h \notin overtaken /\ req[h] \in Request /\ req[h].sub \in Subs
    BY <1>12 DEF FindUser, users, links, ghosts, HeldInv, TypeOK
  <2>1. CASE End(h)
    BY <2>0, <2>1, Moves DEF HeldInv, FoundInv
  <2>2. ASSUME NEW a \in Holders(req[h].address), Goto(h, "links"),
               req' = [req EXCEPT ![h].user = a]
        PROVE  /\ at' \in [Handlers -> Pc] /\ req' \in [Handlers -> Request]
               /\ HeldInv(h)' /\ FoundInv(h)'
    <3>1. a \in 1..count /\ a \in 0..MaxAccounts
      BY DEF Holders, TypeOK
    <3>2. req' = [req EXCEPT ![h] = [req[h] EXCEPT !.user = a]]
      BY <2>2
    <3>3. /\ req' \in [Handlers -> Request] /\ req'[h].user = a
          /\ req'[h].sub = req[h].sub
      BY <2>0, <3>1, <3>2, RequestMoves DEF TypeOK
    <3>4. at' \in [Handlers -> Pc] /\ at'[h] = "links"
      BY <2>2, Moves DEF Pc
    <3> QED BY <2>0, <3>1, <3>3, <3>4 DEF HeldInv, FoundInv
  <2>3. ASSUME Holders(req[h].address) = {}, Goto(h, "new"),
               NEW e \in {req[h].address, None}, req' = [req EXCEPT ![h].address = e]
        PROVE  /\ at' \in [Handlers -> Pc] /\ req' \in [Handlers -> Request]
               /\ HeldInv(h)' /\ FoundInv(h)'
    <3>1. e \in Addresses \cup {None}
      BY <2>0 DEF Request
    <3>2. req' = [req EXCEPT ![h] = [req[h] EXCEPT !.address = e]]
      BY <2>3
    <3>3. /\ req' \in [Handlers -> Request] /\ req'[h].address = e
          /\ req'[h].sub = req[h].sub
      BY <2>0, <3>1, <3>2, RequestMoves DEF TypeOK
    <3>4. at' \in [Handlers -> Pc] /\ at'[h] = "new"
      BY <2>3, Moves DEF Pc
    <3>5. Holders(req[h].address)' = {} /\ Holders(e)' = {}
      BY <2>0, <2>3, <3>3 DEF Holders
    <3> QED BY <2>0, <3>3, <3>4, <3>5 DEF HeldInv, FoundInv
  <2>4. \/ End(h)
        \/ \E a \in Holders(req[h].address) :
              Goto(h, "links") /\ req' = [req EXCEPT ![h].user = a]
        \/ /\ Holders(req[h].address) = {} /\ Goto(h, "new")
           /\ \E e \in {req[h].address, None} : req' = [req EXCEPT ![h].address = e]
    BY <1>12 DEF FindUser
  <2> QED BY <2>1, <2>2, <2>3, <2>4
<1>13. CASE CheckLinks(h)
  <2>0. UNCHANGED <<count, owner, provider, overtaken>> /\ at[h] = "links" /\ h \notin overtaken'
    BY <1>13 DEF CheckLinks, users, links, HeldInv
  <2>1. CASE End(h)
    BY <2>0, <2>1, Moves DEF HeldInv, FoundInv
  <2>2. CASE /\ ~\E s \in Subs : owner[s] = req[h].user /\ provider[s] = provider[req[h].sub]
             /\ Goto(h, "link") /\ UNCHANGED req
    <3>1. at' \in [Handlers -> Pc] /\ at'[h] = "link"
      BY <2>2, Moves DEF Pc
    <3> QED BY <2>0, <2>2, <3>1 DEF HeldInv, FoundInv, TypeOK
  <2> QED BY <1>13, <2>1, <2>2 DEF CheckLinks
<1>14. CASE CutShort(h)
  <2>1. h \notin overtaken'
    BY <1>14 DEF CutShort
  <2> QED BY <1>14, <2>1, Moves DEF CutShort, HeldInv, FoundInv
<1> QED
  BY <1>1, <1>2, <1>3, <1>4, <1>5, <1>6, <1>7, <1>8, <1>9, <1>10, <1>11, <1>12,
     <1>13, <1>14 DEF Asks

(* A step that moves one request on and keeps its part of the invariant,   *)
(* or ends it, preserves the invariant.                                    *)
LEMMA QuietStep ==
    ASSUME IInv, NEW h \in Handlers,
           UNCHANGED <<users, links, ghosts>>,
           overtaken' \subseteq overtaken, overtaken \subseteq overtaken' \cup {h},
           \A g \in Handlers \ {h} : at'[g] = at[g] /\ req'[g] = req[g],
           at' \in [Handlers -> Pc], req' \in [Handlers -> Request],
           HeldInv(h)', FoundInv(h)'
    PROVE  IInv'
<1> USE DEF IInv, Base
<1>1. UNCHANGED <<count, withdrawn, email, verified, provider, owner, how, raced,
                  rushed, social, late>>
  BY DEF users, links, ghosts
<1>2. TypeOK'
  BY <1>1 DEF TypeOK
<1>3. ASSUME NEW g \in Handlers \ {h} PROVE HeldInv(g)' /\ FoundInv(g)'
  <2>1. HeldInv(g)'
    BY <1>1, <1>3 DEF HeldInv
  <2>2. FoundInv(g)'
    BY <1>1, <1>3 DEF FoundInv, Holders, VerifiedElsewhere
  <2> QED BY <2>1, <2>2
<1>4. VerifiedWasProved' /\ LoginLinks'
  BY <1>1 DEF VerifiedWasProved, LoginLinks
<1>5. AddressOwned'
  BY <1>1 DEF AddressOwned, Live
<1> QED BY <1>2, <1>3, <1>4, <1>5

(* Asking preserves the invariant.                                         *)
LEMMA AsksStep ==
    ASSUME IInv, NEW h \in Handlers, Asks(h)
    PROVE  IInv'
<1>1. Base
  BY DEF IInv
<1> QED BY <1>1, AsksFrame, AsksOwn, QuietStep

(* So does ending without a write.                                         *)
LEMMA IdleStep ==
    ASSUME IInv, NEW h \in Handlers, End(h), overtaken' = overtaken \ {h},
           UNCHANGED <<users, links, ghosts>>
    PROVE  IInv'
<1>1. TypeOK
  BY DEF IInv, Base
<1>2. /\ at' \in [Handlers -> Pc] /\ at'[h] = "idle" /\ req' \in [Handlers -> Request]
      /\ \A g \in Handlers \ {h} : at'[g] = at[g] /\ req'[g] = req[g]
  BY <1>1, Moves
<1>3. HeldInv(h)' /\ FoundInv(h)'
  BY <1>2 DEF HeldInv, FoundInv
<1> QED BY <1>2, <1>3, QuietStep

-----------------------------------------------------------------------------
(* Steps that write the address e of account a, old or new.                *)
Write(h, a, e, check) ==
    /\ Give(h, a, e, check)
    /\ End(h)
    /\ a \in Accounts /\ e \in Addresses \cup {None} /\ check \in How
    /\ \/ count' = count /\ a \in 1..count /\ UNCHANGED <<owner, social>>
       \/ /\ count' = count + 1 /\ a = count + 1
          /\ owner' \in [Subs -> 0..count']
          /\ \A s \in Subs : owner'[s] \in {owner[s], count + 1}
          /\ social' \subseteq 1..count'
    /\ verified' \subseteq verified \cup {a}
    /\ a \in withdrawn => a \in late
    /\ UNCHANGED <<withdrawn, late, provider, rushed>>

(* What the check must have established for the write to be owned.         *)
Checked(h, a, e, check) ==
    /\ a \in verified' => check \in {"verified", "moved", "stale"}
    /\ h \notin overtaken /\ a \in verified' /\ check \notin {"moved", "stale"}
          => ~VerifiedElsewhere(a, e)
    /\ h \notin overtaken /\ check \notin {"moved", "stale", "verified"}
          => Holders(e) \subseteq {a}

(* A write whose check holds preserves the invariant; what it means for    *)
(* the links is left to each step.                                         *)
LEMMA WriteStep ==
    ASSUME IInv, NEW h \in Handlers, NEW a, NEW e, NEW check,
           Write(h, a, e, check), Checked(h, a, e, check), LoginLinks'
    PROVE  IInv'
<1>a. /\ TypeOK /\ VerifiedWasProved /\ AddressOwned
      /\ \A g \in Handlers : HeldInv(g) /\ FoundInv(g)
  BY DEF IInv, Base
<1>b. /\ count \in 0..MaxAccounts /\ MaxAccounts \in Nat
      /\ verified \subseteq 1..count /\ withdrawn \subseteq 1..count
      /\ email \in [Accounts -> Addresses \cup {None}]
  BY <1>a, OwnershipAssumption DEF TypeOK
<1>0. /\ a \in Accounts /\ e \in Addresses \cup {None} /\ check \in How
      /\ a \in 1..count' /\ count' \in 0..MaxAccounts /\ 1..count' \subseteq 1..count \cup {a}
      /\ count <= count'
      /\ owner' \in [Subs -> 0..count'] /\ social' \subseteq 1..count'
      /\ \A s \in Subs : owner'[s] = owner[s] \/ owner'[s] = count + 1
      /\ verified' \subseteq verified \cup {a}
      /\ a \in withdrawn => a \in late
      /\ UNCHANGED <<withdrawn, late, provider, rushed>>
  <2>1. CASE count' = count /\ a \in 1..count /\ UNCHANGED <<owner, social>>
    BY <1>a, <1>b, <2>1 DEF Write, TypeOK, Accounts
  <2>2. CASE /\ count' = count + 1 /\ a = count + 1
             /\ owner' \in [Subs -> 0..count']
             /\ \A s \in Subs : owner'[s] \in {owner[s], count + 1}
             /\ social' \subseteq 1..count'
    <3>1. /\ a \in 1..count' /\ count' \in 0..MaxAccounts
          /\ 1..count' \subseteq 1..count \cup {a} /\ count <= count'
      BY <1>b, <2>2 DEF Write, Accounts
    <3> QED BY <2>2, <3>1 DEF Write
  <2> QED BY <2>1, <2>2 DEF Write
<1>1. /\ email' \in [Accounts -> Addresses \cup {None}]
      /\ email'[a] = e /\ \A b \in Accounts \ {a} : email'[b] = email[b]
      /\ how' \in [Accounts -> How]
      /\ how'[a] = check /\ \A b \in Accounts \ {a} : how'[b] = how[b]
      /\ raced' \subseteq raced \cup {a}
      /\ a \in raced' <=> h \in overtaken
      /\ \A b \in Accounts \ {a} : b \in raced' <=> b \in raced
      /\ overtaken' \subseteq Handlers /\ h \notin overtaken'
      /\ \A g \in Handlers \ {h} :
            g \in overtaken' <=>
              \/ g \in overtaken
              \/ /\ at[g] \in {"create", "verify", "patch", "new"}
                 /\ req[g].address \in Spellings(e)
  BY <1>a, <1>0, Given DEF Write
<1>2. /\ at' \in [Handlers -> Pc] /\ at'[h] = "idle"
      /\ req' \in [Handlers -> Request] /\ req'[h] = NoRequest
      /\ \A g \in Handlers \ {h} : at'[g] = at[g] /\ req'[g] = req[g]
  BY <1>a, Moves DEF Write
<1>3. TypeOK'
  BY <1>a, <1>0, <1>1, <1>2 DEF TypeOK
<1>4. HeldInv(h)' /\ FoundInv(h)'
  BY <1>1, <1>2 DEF HeldInv, FoundInv
<1>5. ASSUME NEW g \in Handlers \ {h} PROVE HeldInv(g)'
  BY <1>a, <1>b, <1>0, <1>1, <1>2, <1>5 DEF HeldInv
<1>6. ASSUME NEW g \in Handlers \ {h} PROVE FoundInv(g)'
  <2> SUFFICES ASSUME g \notin overtaken' PROVE FoundInv(g)'
    BY DEF FoundInv
  <2> PICK f : f = req[g].address
    OBVIOUS
  <2>0. g \notin overtaken /\ f \in Addresses \cup {None} /\ at'[g] = at[g] /\ req'[g] = req[g]
    BY <1>a, <1>1, <1>2, <1>6 DEF TypeOK, Request
  <2>1. at[g] \in {"create", "verify", "patch", "new"} => f \notin Spellings(e)
    BY <1>1, <1>6
  <2>2. at[g] \in {"create", "verify", "patch", "new"} /\ f # None => f # e /\ e \notin Spellings(f)
    BY <1>0, <2>0, <2>1, SpellingsAgree
  <2>3. at[g] \in {"create", "patch", "new"} => Holders(f)' \subseteq Holders(f)
    <3> SUFFICES ASSUME at[g] \in {"create", "patch", "new"}, NEW b \in Holders(f)'
                 PROVE  b \in Holders(f)
      OBVIOUS
    <3>1. b \in 1..count' /\ f # None /\ email'[b] = f
      BY DEF Holders
    <3>2. b # a
      BY <1>1, <2>2, <3>1
    <3>3. b \in 1..count
      BY <1>0, <3>1, <3>2
    <3>4. b \in Accounts
      BY <1>b, <3>3 DEF Accounts
    <3> QED BY <1>1, <3>1, <3>2, <3>3, <3>4 DEF Holders
  <2>4. at[g] = "verify" /\ ~VerifiedElsewhere(req[g].user, f)
          => ~VerifiedElsewhere(req[g].user, f)'
    <3> SUFFICES ASSUME at[g] = "verify", VerifiedElsewhere(req[g].user, f)'
                 PROVE  VerifiedElsewhere(req[g].user, f)
      OBVIOUS
    <3>1. PICK b \in verified' \ {req[g].user} : email'[b] \in Spellings(f)
      BY <2>0 DEF VerifiedElsewhere
    <3>2. f # None
      BY <3>1, SpellingsAgree
    <3>3. b # a /\ b \in verified /\ b \in Accounts
      BY <1>b, <1>0, <1>1, <2>2, <3>1, <3>2 DEF Accounts
    <3> QED BY <1>1, <3>1, <3>3 DEF VerifiedElsewhere
  <2>5. ASSUME at[g] = "link", NEW s \in Subs, owner'[s] = req[g].user
        PROVE  provider[s] # provider[req[g].sub]
    <3>1. req[g].user \in 1..count
      BY <1>a, <2>5, <1>6 DEF HeldInv
    <3>2. owner[s] = req[g].user
      BY <1>b, <1>0, <2>5, <3>1
    <3> QED BY <2>0, <2>5, <3>2, <1>6, <1>a DEF FoundInv
  <2> QED
    BY <1>a, <1>0, <1>6, <2>0, <2>3, <2>4, <2>5 DEF FoundInv
<1>7. VerifiedWasProved'
  <2>1. ASSUME NEW b \in verified', b # a PROVE how'[b] \in {"verified", "moved", "stale"}
    <3>1. b \in verified /\ b \in Accounts
      BY <1>b, <1>0, <2>1 DEF Accounts
    <3> QED BY <1>a, <1>1, <2>1, <3>1 DEF VerifiedWasProved
  <2> QED BY <1>1, <2>1 DEF VerifiedWasProved, Checked
<1>8. AddressOwned'
  <2>1. ASSUME NEW b \in Live' \ raced', b # a
        PROVE  /\ b \in Live \ raced /\ b \in Accounts
               /\ email'[b] = email[b] /\ how'[b] = how[b]
               /\ b \in verified' => b \in verified
    <3>1. b \in 1..count' /\ b \notin withdrawn' /\ b \notin raced'
      BY <2>1 DEF Live
    <3>2. b \in 1..count /\ b \in Accounts
      BY <1>b, <1>0, <2>1, <3>1 DEF Accounts
    <3> QED BY <1>0, <1>1, <2>1, <3>1, <3>2 DEF Live
  <2>2. ASSUME NEW b \in Live' \ raced', NEW c \in Live' \ raced', b # c, b # a, c # a
        PROVE  LET ways == {how'[b], how'[c]} IN
               /\ b \in verified' /\ c \in verified' /\ email'[b] \in Spellings(email'[c])
                    => ways \cap {"moved", "stale"} # {}
               /\ email'[b] = email'[c] /\ email'[b] # None
                    => ways \cap {"moved", "stale", "verified"} # {}
    BY <1>a, <2>1, <2>2 DEF AddressOwned
  <2>3. ASSUME NEW b \in Live' \ raced', b # a, a \in Live' \ raced'
        PROVE  /\ b \in verified' /\ a \in verified'
                    /\ (email'[b] \in Spellings(e) \/ e \in Spellings(email'[b]))
                    => check \in {"moved", "stale"}
               /\ email'[b] = e /\ e # None
                    => check \in {"moved", "stale", "verified"}
    <3>1. h \notin overtaken
      BY <1>1, <2>3
    <3>2. ASSUME b \in verified', a \in verified',
                 email'[b] \in Spellings(e) \/ e \in Spellings(email'[b]),
                 check \notin {"moved", "stale"}
          PROVE  FALSE
      <4>1. email[b] \in Spellings(e)
        BY <1>b, <1>0, <2>1, <2>3, <3>2, SpellingsAgree
      <4> QED BY <2>1, <2>3, <3>1, <3>2, <4>1 DEF Checked, VerifiedElsewhere
    <3>3. ASSUME email'[b] = e, e # None, check \notin {"moved", "stale", "verified"}
          PROVE  FALSE
      BY <2>1, <2>3, <3>1, <3>3 DEF Checked, Holders, Live
    <3> QED BY <3>2, <3>3
  <2>4. ASSUME NEW b \in Live' \ raced', NEW c \in Live' \ raced', b # c
        PROVE  LET ways == {how'[b], how'[c]} IN
               /\ b \in verified' /\ c \in verified' /\ email'[b] \in Spellings(email'[c])
                    => ways \cap {"moved", "stale"} # {}
               /\ email'[b] = email'[c] /\ email'[b] # None
                    => ways \cap {"moved", "stale", "verified"} # {}
    <3>1. CASE b = a
      <4>1. c # a /\ email'[b] = e /\ how'[b] = check
        BY <1>1, <2>4, <3>1
      <4>2. c \in Live' \ raced' /\ a \in Live' \ raced'
        BY <2>4, <3>1
      <4> QED BY <2>3, <3>1, <4>1, <4>2
    <3>2. CASE c = a
      <4>1. b # a /\ email'[c] = e /\ how'[c] = check
        BY <1>1, <2>4, <3>2
      <4>2. b \in Live' \ raced' /\ a \in Live' \ raced'
        BY <2>4, <3>2
      <4> QED BY <2>3, <3>2, <4>1, <4>2
    <3> QED BY <2>2, <2>4, <3>1, <3>2
  <2>5. \A b \in withdrawn' \ late' : email'[b] = None
    BY <1>a, <1>b, <1>0, <1>1 DEF AddressOwned, Accounts
  <2> QED BY <2>4, <2>5 DEF AddressOwned
<1> QED BY <1>3, <1>4, <1>5, <1>6, <1>7, <1>8 DEF IInv, Base

(* The steps that write an address do so, and with its check.              *)
LEMMA CreateUserStep ==
    ASSUME IInv, NEW h \in Handlers, CreateUser(h) PROVE IInv'
<1>a. TypeOK /\ LoginLinks /\ FoundInv(h) /\ req[h] \in Request
  BY DEF IInv, Base, TypeOK
<1>b. count \in 0..MaxAccounts /\ MaxAccounts \in Nat /\ count < MaxAccounts
  BY <1>a, OwnershipAssumption DEF TypeOK, CreateUser
<1>1. Write(h, count + 1, req[h].address, "checked")
  <2>1. /\ count + 1 \in Accounts /\ count + 1 \notin withdrawn /\ "checked" \in How
        /\ req[h].address \in Addresses \cup {None}
    BY <1>a, <1>b DEF Accounts, How, TypeOK, Request
  <2>2. owner' = owner /\ owner \in [Subs -> 0..(count + 1)] /\ social \subseteq 1..(count + 1)
    BY <1>a, <1>b DEF TypeOK, CreateUser, links
  <2> QED BY <2>1, <2>2 DEF Write, CreateUser, links
<1>2. Checked(h, count + 1, req[h].address, "checked")
  BY <1>a, <1>b DEF Checked, CreateUser, FoundInv, TypeOK
<1>3. LoginLinks'
  BY <1>a DEF LoginLinks, CreateUser, links
<1> QED BY <1>1, <1>2, <1>3, WriteStep

(* A verification gives an address that nobody else has verified.          *)
LEMMA SaveVerifiedStep ==
    ASSUME IInv, NEW h \in Handlers, SaveVerified(h) PROVE IInv'
<1>a. TypeOK /\ LoginLinks /\ FoundInv(h) /\ HeldInv(h) /\ req[h] \in Request
  BY DEF IInv, Base, TypeOK
<1>b. count \in 0..MaxAccounts /\ MaxAccounts \in Nat
  BY <1>a, OwnershipAssumption DEF TypeOK
<1>1. Write(h, req[h].user, req[h].address, "verified")
  <2>1. /\ req[h].user \in 1..count /\ (req[h].user \in withdrawn => req[h].user \in late)
        /\ req[h].address \in Addresses \cup {None} /\ "verified" \in How
    BY <1>a DEF HeldInv, SaveVerified, Request, How
  <2>2. req[h].user \in Accounts
    BY <1>b, <2>1 DEF Accounts
  <2> QED BY <2>1, <2>2 DEF Write, SaveVerified, links
<1>2. Checked(h, req[h].user, req[h].address, "verified")
  BY <1>a DEF Checked, SaveVerified, FoundInv
<1>3. LoginLinks'
  BY <1>a DEF LoginLinks, SaveVerified, links
<1> QED BY <1>1, <1>2, <1>3, WriteStep

(* A login gives the provider's address and is named for it.               *)
LEMMA MoveAddressStep ==
    ASSUME IInv, NEW h \in Handlers, MoveAddress(h) PROVE IInv'
<1>a. TypeOK /\ LoginLinks /\ HeldInv(h) /\ req[h] \in Request
  BY DEF IInv, Base, TypeOK
<1>b. count \in 0..MaxAccounts /\ MaxAccounts \in Nat
  BY <1>a, OwnershipAssumption DEF TypeOK
<1>1. Write(h, req[h].user, req[h].address, "moved")
  <2>1. /\ req[h].user \in 1..count /\ (req[h].user \in withdrawn => req[h].user \in late)
        /\ req[h].address \in Addresses \cup {None} /\ "moved" \in How
    BY <1>a DEF HeldInv, MoveAddress, Request, How
  <2>2. req[h].user \in Accounts
    BY <1>b, <2>1 DEF Accounts
  <2> QED BY <2>1, <2>2 DEF Write, MoveAddress, links
<1>2. Checked(h, req[h].user, req[h].address, "moved")
  BY DEF Checked
<1>3. LoginLinks'
  BY <1>a DEF LoginLinks, MoveAddress, links
<1> QED BY <1>1, <1>2, <1>3, WriteStep

(* PATCH /me gives a free address and resets the flag, or writes back.     *)
LEMMA SavePatchStep ==
    ASSUME IInv, NEW h \in Handlers, SavePatch(h) PROVE IInv'
<1> DEFINE a == req[h].user  e == req[h].address
<1>a. /\ TypeOK /\ VerifiedWasProved /\ AddressOwned /\ LoginLinks
      /\ \A g \in Handlers : HeldInv(g) /\ FoundInv(g)
      /\ req[h] \in Request
  BY DEF IInv, Base, TypeOK
<1>b. count \in 0..MaxAccounts /\ MaxAccounts \in Nat
  BY <1>a, OwnershipAssumption DEF TypeOK
<1>c. /\ at[h] = "patch" /\ End(h)
      /\ UNCHANGED <<count, withdrawn, links, rushed, social, late>>
  BY DEF SavePatch
<1>d. /\ a \in 1..count /\ (a \in withdrawn => a \in late)
      /\ e \in Addresses \cup {None} /\ "checked" \in How /\ "stale" \in How
  BY <1>a, <1>c DEF HeldInv, Request, How
<1>e. a \in Accounts
  BY <1>b, <1>d DEF Accounts
<1>f. LoginLinks'
  BY <1>a, <1>c DEF LoginLinks, links
<1> HIDE DEF a, e
<1>1. CASE /\ verified' = verified \ {a}
           /\ Give(h, a, e, "checked")
  <2>1. Write(h, a, e, "checked")
    BY <1>1, <1>c, <1>d, <1>e DEF Write, links
  <2>2. Checked(h, a, e, "checked")
    BY <1>1, <1>a, <1>c DEF Checked, FoundInv, a, e
  <2> QED BY <1>f, <2>1, <2>2, WriteStep
<1>2. CASE Give(h, a, e, "stale") /\ UNCHANGED verified
  <2>1. Write(h, a, e, "stale")
    BY <1>2, <1>c, <1>d, <1>e DEF Write, links
  <2>2. Checked(h, a, e, "stale")
    BY DEF Checked
  <2> QED BY <1>f, <2>1, <2>2, WriteStep
<1>3. CASE overtaken' = overtaken \ {h} /\ UNCHANGED <<email, verified, how, raced>>
  BY <1>3, <1>a, <1>c, IdleStep DEF users, links, ghosts
<1> QED BY <1>1, <1>2, <1>3 DEF SavePatch, a, e

(* A login creates an account together with its link, or neither.          *)
LEMMA CreateSocialStep ==
    ASSUME IInv, NEW h \in Handlers, CreateSocial(h) PROVE IInv'
<1> DEFINE s == req[h].sub  e == req[h].address
           check == IF e = None THEN "blank" ELSE "checked"
<1>a. TypeOK /\ LoginLinks /\ FoundInv(h) /\ HeldInv(h) /\ req[h] \in Request
  BY DEF IInv, Base, TypeOK
<1>b. count \in 0..MaxAccounts /\ MaxAccounts \in Nat
  BY <1>a, OwnershipAssumption DEF TypeOK
<1>c. /\ at[h] = "new" /\ End(h) /\ s \in Subs
      /\ UNCHANGED <<withdrawn, verified, provider, rushed, late>>
  BY <1>a DEF CreateSocial, HeldInv
<1>1. CASE owner[s] # 0
  <2>1. overtaken' = overtaken \ {h} /\ UNCHANGED <<count, owner, social, email, how, raced>>
    BY <1>1 DEF CreateSocial
  <2> QED BY <1>c, <2>1, IdleStep DEF users, links, ghosts
<1>2. CASE owner[s] = 0
  <2>0. /\ count + 1 <= MaxAccounts /\ count' = count + 1
        /\ owner' = [owner EXCEPT ![s] = count + 1]
        /\ social' = social \cup {count + 1}
        /\ Give(h, count + 1, e, check)
    BY <1>2 DEF CreateSocial
  <2> HIDE DEF s, e
  <2>1. Write(h, count + 1, e, check)
    <3>1. /\ count + 1 \in Accounts /\ count + 1 \notin withdrawn /\ check \in How
          /\ e \in Addresses \cup {None}
      BY <1>a, <1>b, <2>0 DEF Accounts, How, TypeOK, Request, e
    <3>2. /\ owner' \in [Subs -> 0..count'] /\ social' \subseteq 1..count'
          /\ \A t \in Subs : owner'[t] \in {owner[t], count + 1}
      BY <1>a, <1>b, <1>c, <2>0 DEF TypeOK
    <3> QED BY <1>c, <2>0, <3>1, <3>2 DEF Write
  <2>2. Checked(h, count + 1, e, check)
    <3>1. count + 1 \notin verified'
      BY <1>a, <1>b, <1>c DEF TypeOK
    <3>2. h \notin overtaken => Holders(e) = {}
      BY <1>a, <1>c DEF FoundInv, e
    <3> QED BY <3>1, <3>2 DEF Checked
  <2>3. LoginLinks'
    <3>1. /\ owner'[s] = count + 1 /\ \A t \in Subs \ {s} : owner'[t] = owner[t]
          /\ \A t \in Subs : owner[t] \in 0..count
      BY <1>a, <1>c, <2>0 DEF TypeOK
    <3>2. \A t \in Subs : owner[t] # count + 1
      BY <1>b, <3>1
    <3>3. ASSUME NEW b \in social' PROVE \E t \in Subs : owner'[t] = b
      <4>1. CASE b = count + 1
        BY <1>c, <3>1, <4>1
      <4>2. CASE b \in social
        <5>1. PICK t \in Subs : owner[t] = b
          BY <1>a, <4>2 DEF LoginLinks
        <5>2. b \in 1..count
          BY <1>a, <4>2 DEF TypeOK
        <5>3. t # s
          BY <1>2, <1>b, <5>1, <5>2
        <5> QED BY <3>1, <5>1, <5>3
      <4> QED BY <2>0, <4>1, <4>2
    <3>4. ASSUME NEW t \in Subs \ rushed', NEW u \in Subs \ rushed', t # u,
                 owner'[t] = owner'[u], provider'[t] = provider'[u]
          PROVE  owner'[t] = 0
      <4>1. t # s /\ u # s
        BY <3>1, <3>2, <3>4
      <4> QED BY <1>a, <1>c, <3>1, <3>4, <4>1 DEF LoginLinks
    <3> QED BY <3>3, <3>4 DEF LoginLinks
  <2> QED BY <2>1, <2>2, <2>3, WriteStep
<1> QED BY <1>1, <1>2

(* A link is added to an account that had none with the provider.          *)
LEMMA LinkStep ==
    ASSUME IInv, NEW h \in Handlers, Link(h) PROVE IInv'
<1> DEFINE a == req[h].user  s == req[h].sub
<1>a. /\ TypeOK /\ VerifiedWasProved /\ AddressOwned /\ LoginLinks
      /\ \A g \in Handlers : HeldInv(g) /\ FoundInv(g)
      /\ req[h] \in Request
  BY DEF IInv, Base, TypeOK
<1>b. count \in 0..MaxAccounts /\ MaxAccounts \in Nat
  BY <1>a, OwnershipAssumption DEF TypeOK
<1>c. /\ at[h] = "link" /\ End(h) /\ s \in Subs /\ a \in 1..count
      /\ UNCHANGED <<users, provider, how, raced, social, late>>
  BY <1>a DEF Link, HeldInv
<1>1. CASE owner[s] # 0
  <2>1. overtaken' = overtaken \ {h} /\ UNCHANGED <<owner, rushed>>
    BY <1>1 DEF Link
  <2> QED BY <1>c, <2>1, IdleStep DEF users, links, ghosts
<1>2. CASE owner[s] = 0
  <2>0. /\ owner' = [owner EXCEPT ![s] = a]
        /\ rushed' = IF h \in overtaken THEN rushed \cup {s} ELSE rushed
        /\ overtaken' = (overtaken \ {h}) \cup
               {g \in Handlers \ {h} : /\ at[g] = "link" /\ req[g].user = a
                                       /\ provider[req[g].sub] = provider[s]}
    BY <1>2 DEF Link
  <2>a. h \notin overtaken => \A t \in Subs : owner[t] = a => provider[t] # provider[s]
    BY <1>a, <1>c DEF FoundInv
  <2>b. \A g \in Handlers \ {h} : at[g] = "link" /\ req[g].user = a /\ g \notin overtaken'
                                    => provider[req[g].sub] # provider[s]
    BY <2>0
  <2> HIDE DEF a, s
  <2>1. /\ at' \in [Handlers -> Pc] /\ at'[h] = "idle"
        /\ req' \in [Handlers -> Request]
        /\ \A g \in Handlers \ {h} : at'[g] = at[g] /\ req'[g] = req[g]
    BY <1>a, <1>c, Moves
  <2>2. /\ owner'[s] = a /\ \A t \in Subs \ {s} : owner'[t] = owner[t]
        /\ owner' \in [Subs -> 0..count]
    BY <1>a, <1>b, <1>c, <2>0 DEF TypeOK
  <2>3. TypeOK'
    BY <1>a, <1>c, <2>0, <2>1, <2>2 DEF TypeOK, users
  <2>4. HeldInv(h)' /\ FoundInv(h)'
    BY <2>0, <2>1 DEF HeldInv, FoundInv
  <2>5. ASSUME NEW g \in Handlers \ {h} PROVE HeldInv(g)' /\ FoundInv(g)'
    <3>1. HeldInv(g)'
      BY <1>a, <1>c, <2>0, <2>1, <2>5 DEF HeldInv, users
    <3>2. g \notin overtaken' => g \notin overtaken
      BY <2>0, <2>5
    <3>3. ASSUME at[g] = "link", g \notin overtaken', NEW t \in Subs, owner'[t] = req[g].user
          PROVE  provider[t] # provider[req[g].sub]
      <4>1. CASE t = s
        BY <2>2, <2>5, <2>b, <3>3, <4>1
      <4>2. CASE t # s
        BY <1>a, <2>2, <2>5, <3>2, <3>3, <4>2 DEF FoundInv
      <4> QED BY <4>1, <4>2
    <3>4. FoundInv(g)'
      <4> SUFFICES ASSUME g \notin overtaken' PROVE FoundInv(g)'
        BY DEF FoundInv
      <4>1. at'[g] = at[g] /\ req'[g] = req[g] /\ g \notin overtaken
        BY <2>1, <2>5, <3>2
      <4>2. UNCHANGED <<count, withdrawn, email, verified, provider>>
        BY <1>c DEF users
      <4> QED BY <1>a, <2>5, <3>3, <4>1, <4>2 DEF FoundInv, Holders, VerifiedElsewhere
    <3> QED BY <3>1, <3>4
  <2>6. VerifiedWasProved' /\ AddressOwned'
    BY <1>a, <1>c DEF VerifiedWasProved, AddressOwned, Live, users
  <2>7. LoginLinks'
    <3>1. ASSUME NEW b \in social' PROVE \E t \in Subs : owner'[t] = b
      <4>1. PICK t \in Subs : owner[t] = b
        BY <1>a, <1>c, <3>1 DEF LoginLinks
      <4>2. b \in 1..count
        BY <1>a, <1>c, <3>1 DEF TypeOK
      <4>3. t # s
        BY <1>2, <1>b, <4>1, <4>2 DEF s
      <4> QED BY <2>2, <4>1, <4>3
    <3>2. ASSUME NEW t \in Subs \ rushed', NEW u \in Subs \ rushed', t # u,
                 owner'[t] = owner'[u], provider'[t] = provider'[u]
          PROVE  owner'[t] = 0
      <4>1. t \notin rushed /\ u \notin rushed /\ provider' = provider
        BY <1>c, <2>0, <3>2
      <4>2. t # s
        BY <2>0, <2>2, <2>a, <3>2, <4>1
      <4>3. u # s
        BY <2>0, <2>2, <2>a, <3>2, <4>1
      <4> QED BY <1>a, <2>2, <3>2, <4>1, <4>2, <4>3 DEF LoginLinks
    <3> QED BY <3>1, <3>2 DEF LoginLinks
  <2> QED BY <2>3, <2>4, <2>5, <2>6, <2>7 DEF IInv, Base
<1> QED BY <1>1, <1>2

(* A withdrawal takes the address away from its account.                   *)
LEMMA WithdrawStep ==
    ASSUME IInv, NEW a \in Accounts, Withdraw(a) PROVE IInv'
<1>a. /\ TypeOK /\ VerifiedWasProved /\ AddressOwned /\ LoginLinks
      /\ \A g \in Handlers : HeldInv(g) /\ FoundInv(g)
  BY DEF IInv, Base
<1>b. /\ a \in 1..count /\ a \notin withdrawn
      /\ withdrawn' = withdrawn \cup {a} /\ verified' = verified \ {a}
      /\ UNCHANGED <<count, provider, owner, at, req, overtaken, raced, rushed, social>>
  BY DEF Withdraw, Live, links
<1>c. /\ email' \in [Accounts -> Addresses \cup {None}] /\ email'[a] = None
      /\ \A b \in Accounts \ {a} : email'[b] = email[b]
      /\ how' \in [Accounts -> How]
      /\ \A b \in Accounts \ {a} : how'[b] = how[b]
  BY <1>a DEF TypeOK, Withdraw, How
<1>d. /\ late' \in {late, late \cup {a}}
      /\ \A h \in Handlers : req[h].user = a /\ at[h] \in {"verify", "check", "patch", "move"}
                               => late' = late \cup {a}
  BY DEF Withdraw
<1>e. 1..count \subseteq Accounts /\ None \notin Addresses
  BY <1>a, OwnershipAssumption DEF TypeOK, Accounts
<1>1. TypeOK'
  BY <1>a, <1>b, <1>c, <1>d DEF TypeOK
<1>2. ASSUME NEW h \in Handlers PROVE HeldInv(h)'
  BY <1>a, <1>b, <1>d, <1>2 DEF HeldInv
<1>3. ASSUME NEW h \in Handlers PROVE FoundInv(h)'
  <2> PICK f, u : f = req[h].address /\ u = req[h].user
    OBVIOUS
  <2>1. Holders(f)' \subseteq Holders(f)
    BY <1>b, <1>c, <1>e DEF Holders
  <2>2. ~VerifiedElsewhere(u, f) => ~VerifiedElsewhere(u, f)'
    BY <1>a, <1>b, <1>c, <1>e DEF VerifiedElsewhere, TypeOK
  <2> QED BY <1>a, <1>b, <1>3, <2>1, <2>2 DEF FoundInv
<1>4. VerifiedWasProved'
  BY <1>a, <1>b, <1>c, <1>e DEF VerifiedWasProved, TypeOK
<1>5. AddressOwned'
  <2>1. ASSUME NEW b \in Live' \ raced'
        PROVE  /\ b \in Live \ raced /\ b # a
               /\ email'[b] = email[b] /\ how'[b] = how[b]
               /\ b \in verified' => b \in verified
    BY <1>b, <1>c, <1>e, <2>1 DEF Live
  <2>2. ASSUME NEW b \in Live' \ raced', NEW c \in Live' \ raced', b # c
        PROVE  LET ways == {how'[b], how'[c]} IN
               /\ b \in verified' /\ c \in verified' /\ email'[b] \in Spellings(email'[c])
                    => ways \cap {"moved", "stale"} # {}
               /\ email'[b] = email'[c] /\ email'[b] # None
                    => ways \cap {"moved", "stale", "verified"} # {}
    BY <1>a, <2>1, <2>2 DEF AddressOwned
  <2>3. ASSUME NEW b \in withdrawn' \ late' PROVE email'[b] = None
    BY <1>a, <1>b, <1>c, <1>d, <1>e, <2>3 DEF AddressOwned, TypeOK
  <2> QED BY <2>2, <2>3 DEF AddressOwned
<1>6. LoginLinks'
  BY <1>a, <1>b DEF LoginLinks
<1> QED BY <1>1, <1>2, <1>3, <1>4, <1>5, <1>6 DEF IInv, Base

-----------------------------------------------------------------------------
(* The invariant is inductive ...                                          *)
LEMMA Inductive == IInv /\ [Next]_vars => IInv'
<1> SUFFICES ASSUME IInv, [Next]_vars PROVE IInv'
  OBVIOUS
<1>1. ASSUME NEW h \in Handlers, Writes(h) PROVE IInv'
  BY <1>1, CreateUserStep, SaveVerifiedStep, SavePatchStep, MoveAddressStep,
     LinkStep, CreateSocialStep DEF Writes
<1>2. CASE UNCHANGED vars
  <2>1. TypeOK' /\ VerifiedWasProved' /\ LoginLinks'
    BY <1>2 DEF IInv, Base, TypeOK, VerifiedWasProved, LoginLinks,
                vars, users, links, ghosts
  <2>2. AddressOwned'
    BY <1>2 DEF IInv, AddressOwned, Live, vars, users, links, ghosts
  <2>3. ASSUME NEW h \in Handlers PROVE HeldInv(h)' /\ FoundInv(h)'
    BY <1>2 DEF IInv, Base, HeldInv, FoundInv, Holders, VerifiedElsewhere,
                vars, users, links, ghosts
  <2> QED BY <2>1, <2>2, <2>3 DEF IInv, Base
<1> QED BY <1>1, <1>2, Steps, AsksStep, WithdrawStep

(* ... and holds at first.                                                 *)
LEMMA Start == Init => IInv
<1> SUFFICES ASSUME Init PROVE IInv
  OBVIOUS
<1>1. TypeOK
  BY Requests, OwnershipAssumption DEF Init, TypeOK, Pc, How, Accounts
<1>2. \A h \in Handlers : HeldInv(h) /\ FoundInv(h)
  BY DEF Init, HeldInv, FoundInv
<1>3. VerifiedWasProved /\ LoginLinks /\ AddressOwned
  BY DEF Init, VerifiedWasProved, LoginLinks, AddressOwned, Live
<1> QED BY <1>1, <1>2, <1>3 DEF IInv, Base

(* Every reachable state of accounts, links and requests is well-typed.    *)
THEOREM TypeCorrect == Spec => []TypeOK
<1>1. IInv => TypeOK
  BY DEF IInv, Base
<1> QED BY <1>1, Start, Inductive, PTL DEF Spec

(* For any number of accounts and overlapping requests, email_verified is  *)
(* set only where a verification, a login or a stale PATCH explains it.    *)
THEOREM VerifiedProved == Spec => []VerifiedWasProved
<1>1. IInv => VerifiedWasProved
  BY DEF IInv
<1> QED BY <1>1, Start, Inductive, PTL DEF Spec

(* Nor do two accounts in use hold one address, or a withdrawn one any,    *)
(* but by the unchecked or overtaken writes AddressOwned names.            *)
THEOREM AddressesOwned == Spec => []AddressOwned
<1>1. IInv => AddressOwned
  BY DEF IInv
<1> QED BY <1>1, Start, Inductive, PTL DEF Spec

(* Every account a login creates stays reachable by a login, with one link *)
(* per provider unless two were made at once.                              *)
THEOREM LinksFound == Spec => []LoginLinks
<1>1. IInv => LoginLinks
  BY DEF IInv
<1> QED BY <1>1, Start, Inductive, PTL DEF Spec
=============================================================================
