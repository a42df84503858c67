--------------------------- MODULE EmailOwnership ---------------------------
(***************************************************************************)
(* Whose e-mail address it is: User.email and User.email_verified as       *)
(* written by sign-up, by a verification whose code was right (EmailCodes), *)
(* by PATCH /me, by social logins and by withdrawal, and the SocialAccount *)
(* rows by which a login finds its account.                                *)
(*                                                                         *)
(* No column of an address is unique: each request looks whether the       *)
(* address is free in its own way and writes in a later query.  A login is *)
(* one transaction, which shows its writes at the end and is rolled back   *)
(* if somebody linked its (provider, provider_sub) meanwhile; the others   *)
(* commit each query.  The exchange with the providers is left out.        *)
(***************************************************************************)
EXTENDS Naturals, FiniteSets

CONSTANTS
    MaxAccounts, \* bound on the accounts ever created
    Mailboxes,
    Providers,
    Subs,        \* persons as known to a provider
    Handlers,    \* web server threads, each serving one request at a time
    None         \* no address, no sub

Accounts  == 1..MaxAccounts   \* by primary key
Addresses == Mailboxes \X {"lower", "mixed"}   \* a mailbox in one of its spellings

ASSUME OwnershipAssumption ==
    /\ MaxAccounts \in Nat
    /\ None \notin Addresses \cup Subs

VARIABLES
    count,      \* accounts created so far
    withdrawn,  \* accounts with is_deleted
    email,      \* User.email of each account, None when it is blank
    verified,   \* accounts with User.email_verified
    provider,   \* the provider of each sub
    owner,      \* SocialAccount.user of each sub, 0 when there is no row
    at,         \* where each handler is
    req,        \* the account, the sub and the addresses it works with
    \* History:
    how,        \* which check gave an account its address
    overtaken,  \* handlers that found an address or a provider free which
                \* somebody took before they did
    raced,      \* accounts that have their address from such a handler
    rushed,     \* subs linked by such a handler
    social,     \* accounts created by a login
    late        \* accounts withdrawn while a request was about to save them

users  == <<count, withdrawn, email, verified>>
links  == <<provider, owner>>
ghosts == <<how, raced, rushed, social, late>>
vars   == <<users, links, at, req, overtaken, ghosts>>

Request   == [user : 0..MaxAccounts, sub : Subs \cup {None}, claim : {"none", "unverified", "verified"},
              address : Addresses \cup {None}, loaded : Addresses \cup {None}]

ForAccount(a, e, l) ==
    [user |-> a, sub |-> None, claim |-> "none", address |-> e, loaded |-> l]
ForPerson(s, claim, e) ==
    [user |-> 0, sub |-> s, claim |-> claim, address |-> e, loaded |-> None]
NoRequest == ForAccount(0, None, None)

Pc  == {"idle", "create", "verify", "check", "patch", "find", "links", "link", "new", "move"}
How == {"blank", "checked", "verified", "moved", "stale"}

TypeOK ==
    /\ count \in 0..MaxAccounts
    /\ withdrawn \subseteq 1..count
    /\ email \in [Accounts -> Addresses \cup {None}]
    /\ verified \subseteq 1..count
    /\ provider \in [Subs -> Providers]
    /\ owner \in [Subs -> 0..count]
    /\ at \in [Handlers -> Pc]
    /\ req \in [Handlers -> Request]
    /\ how \in [Accounts -> How]
    /\ overtaken \subseteq Handlers
    /\ raced \subseteq 1..count /\ social \subseteq 1..count
    /\ rushed \subseteq Subs /\ late \subseteq withdrawn

Init ==
    /\ count = 0 /\ withdrawn = {} /\ verified = {}
    /\ email = [a \in Accounts |-> None]
    /\ provider \in [Subs -> Providers]
    /\ owner = [s \in Subs |-> 0]
    /\ at = [h \in Handlers |-> "idle"]
    /\ req = [h \in Handlers |-> NoRequest]
    /\ how = [a \in Accounts |-> "blank"]
    /\ overtaken = {} /\ raced = {} /\ rushed = {} /\ social = {} /\ late = {}

-----------------------------------------------------------------------------
Live == (1..count) \ withdrawn

Normalized == Mailboxes \X {"lower"}   \* as a request's address is stripped and lowered

Spellings(e) == {f \in Addresses : e # None /\ f[1] = e[1]}

Holders(e) == {a \in 1..count : e # None /\ email[a] = e}

VerifiedElsewhere(a, e) == \E b \in verified \ {a} : email[b] \in Spellings(e)

Goto(h, pc) == at' = [at EXCEPT ![h] = pc]

Serve(h, pc, request) ==
    /\ at[h] = "idle"
    /\ Goto(h, pc)
    /\ req' = [req EXCEPT ![h] = request]

End(h) == Goto(h, "idle") /\ req' = [req EXCEPT ![h] = NoRequest]

\* The address is written: whoever had found it free has been overtaken.
Overtake(h, e) ==
    overtaken' = (overtaken \ {h}) \cup
        {g \in Handlers \ {h} : /\ at[g] \in {"create", "verify", "patch", "new"}
                                /\ req[g].address \in Spellings(e)}

\* Account a gets address e.
Give(h, a, e, check) ==
    /\ email' = [email EXCEPT ![a] = e]
    /\ how' = [how EXCEPT ![a] = check]
    /\ raced' = IF h \in overtaken THEN raced \cup {a} ELSE raced \ {a}
    /\ Overtake(h, e)

-----------------------------------------------------------------------------
(* SignupView                                                              *)

\* validate_email; an address in use is refused.
SignUp(h, e) ==
    /\ Holders(e) = {}
    /\ Serve(h, "create", ForAccount(0, e, None))
    /\ UNCHANGED <<users, links, overtaken, ghosts>>

CreateUser(h) ==
    /\ at[h] = "create"
    /\ count < MaxAccounts
    /\ count' = count + 1
    /\ Give(h, count + 1, req[h].address, "checked")
    /\ End(h)
    /\ UNCHANGED <<withdrawn, verified, links, rushed, social, late>>

-----------------------------------------------------------------------------
(* EmailVerifyCodeView, from the code that was right                       *)

Verify(h, a, e) ==
    /\ a \in Live
    /\ ~VerifiedElsewhere(a, e)
    /\ Serve(h, "verify", ForAccount(a, e, None))
    /\ UNCHANGED <<users, links, overtaken, ghosts>>

SaveVerified(h) ==
    LET a == req[h].user IN
    /\ at[h] = "verify"
    /\ verified' = verified \cup {a}
    /\ Give(h, a, req[h].address, "verified")
    /\ End(h)
    /\ UNCHANGED <<count, withdrawn, links, rushed, social, late>>

-----------------------------------------------------------------------------
(* MeView.patch                                                            *)

\* The account is loaded, ...
Patch(h, a, e) ==
    /\ a \in Live
    /\ Serve(h, "check", ForAccount(a, e, email[a]))
    /\ UNCHANGED <<users, links, overtaken, ghosts>>

\* ... validate_email ...
CheckFree(h) ==
    /\ at[h] = "check"
    /\ IF Holders(req[h].address) \subseteq {req[h].user}
       THEN Goto(h, "patch") /\ UNCHANGED req
       ELSE End(h)
    /\ UNCHANGED <<users, links, overtaken, ghosts>>

\* A plausible slip: the flag is reset in memory and missing from
\* update_fields.
SavePatch_KeepFlag(h) ==
    LET a == req[h].user  e == req[h].address IN
    /\ at[h] = "patch"
    /\ Give(h, a, e, IF e # req[h].loaded THEN "checked" ELSE
                     IF e = email[a] THEN how[a] ELSE "stale")
    /\ End(h)
    /\ UNCHANGED <<count, withdrawn, verified, links, rushed, social, late>>

\* ... and update: the flag falls if the address is not the loaded one.
SavePatch(h) ==
    LET a == req[h].user  e == req[h].address IN
    /\ at[h] = "patch"
    /\ \/ /\ e # req[h].loaded
          /\ verified' = verified \ {a}
          /\ Give(h, a, e, "checked")
       \/ /\ e = req[h].loaded /\ e # email[a]
          /\ Give(h, a, e, "stale")
          /\ UNCHANGED verified
       \/ /\ e = req[h].loaded /\ e = email[a]
          /\ overtaken' = overtaken \ {h}
          /\ UNCHANGED <<email, verified, how, raced>>
    /\ End(h)
    /\ UNCHANGED <<count, withdrawn, links, rushed, social, late>>

-----------------------------------------------------------------------------
(* GoogleOAuthLoginView and its like, from the profile of the provider     *)

\* _get_or_create_social_user looks for the SocialAccount.  The address of
\* its account follows a verified claim; other logins write no address.
LoginKnown(h, s, e) ==
    LET a == owner[s] IN
    /\ a \in Live
    /\ email[a] # e
    /\ Serve(h, "move", ForAccount(a, e, None))
    /\ UNCHANGED <<users, links, overtaken, ghosts>>

LoginNew(h, s, e, claim) ==
    /\ owner[s] = 0
    /\ Serve(h, "find", ForPerson(s, claim, e))
    /\ UNCHANGED <<users, links, overtaken, ghosts>>

\* user.save(update_fields=["email"])
MoveAddress(h) ==
    /\ at[h] = "move"
    /\ Give(h, req[h].user, req[h].address, "moved")
    /\ End(h)
    /\ UNCHANGED <<count, withdrawn, verified, links, rushed, social, late>>

\* A plausible slip: only an account that has verified the address is found.
FindUser_Verified(h) ==
    LET e == req[h].address  claim == req[h].claim IN
    /\ at[h] = "find"
    /\ \/ \E a \in Holders(e) \cap verified :
            /\ \A b \in Holders(e) \cap verified : a <= b
            /\ IF claim = "verified" /\ a \in Live
               THEN Goto(h, "links") /\ req' = [req EXCEPT ![h].user = a]
               ELSE End(h)
       \/ /\ Holders(e) \cap verified = {}
          /\ Goto(h, "new")
          /\ req' = [req EXCEPT ![h].address = IF claim = "verified" THEN e ELSE None]
    /\ UNCHANGED <<users, links, overtaken, ghosts>>

\* _get_existing_active_user_by_email: the first account that has the address
\* in this spelling, withdrawn or not.  An unverified claim is not linked to
\* it; an admin login is refused where another one creates an account.
FindUser(h) ==
    LET e == req[h].address  claim == req[h].claim IN
    /\ at[h] = "find"
    /\ \/ \E a \in Holders(e) :
            /\ \A b \in Holders(e) : a <= b
            /\ IF claim = "verified" /\ a \in Live
               THEN Goto(h, "links") /\ req' = [req EXCEPT ![h].user = a]
               ELSE End(h)
       \/ /\ Holders(e) = {}
          /\ Goto(h, "new")
          /\ req' = [req EXCEPT ![h].address = IF claim = "verified" THEN e ELSE None]
    /\ UNCHANGED <<users, links, overtaken, ghosts>>

\* existing_provider_link
CheckLinks(h) ==
    /\ at[h] = "links"
    /\ IF \E s \in Subs : owner[s] = req[h].user /\ provider[s] = provider[req[h].sub]
       THEN End(h)
       ELSE Goto(h, "link") /\ UNCHANGED req
    /\ UNCHANGED <<users, links, overtaken, ghosts>>

\* SocialAccount.objects.create for the account that was found; a sub that
\* was linked meanwhile raises an IntegrityError.
Link(h) ==
    LET a == req[h].user  s == req[h].sub IN
    /\ at[h] = "link"
    /\ IF owner[s] # 0
       THEN overtaken' = overtaken \ {h} /\ UNCHANGED <<owner, rushed>>
       ELSE /\ owner' = [owner EXCEPT ![s] = a]
            /\ rushed' = IF h \in overtaken THEN rushed \cup {s} ELSE rushed
            /\ overtaken' = (overtaken \ {h}) \cup
                   {g \in Handlers \ {h} : /\ at[g] = "link" /\ req[g].user = a
                                           /\ provider[req[g].sub] = provider[s]}
    /\ End(h)
    /\ UNCHANGED <<users, provider, how, raced, social, late>>

\* A plausible slip: the account is created outside of the transaction.
CreateSocial_HalfDone(h) ==
    LET a == count + 1  s == req[h].sub  e == req[h].address IN
    /\ at[h] = "new"
    /\ a <= MaxAccounts
    /\ count' = a
    /\ owner' = IF owner[s] = 0 THEN [owner EXCEPT ![s] = a] ELSE owner
    /\ social' = social \cup {a}
    /\ Give(h, a, e, IF e = None THEN "blank" ELSE "checked")
    /\ End(h)
    /\ UNCHANGED <<withdrawn, verified, provider, rushed, late>>

\* User.objects.create_user and SocialAccount.objects.create, both or none.
CreateSocial(h) ==
    LET a == count + 1  s == req[h].sub  e == req[h].address IN
    /\ at[h] = "new"
    /\ IF owner[s] # 0
       THEN overtaken' = overtaken \ {h} /\ UNCHANGED <<count, owner, social, email, how, raced>>
       ELSE /\ a <= MaxAccounts
            /\ count' = a
            /\ owner' = [owner EXCEPT ![s] = a]
            /\ social' = social \cup {a}
            /\ Give(h, a, e, IF e = None THEN "blank" ELSE "checked")
    /\ End(h)
    /\ UNCHANGED <<withdrawn, verified, provider, rushed, late>>

-----------------------------------------------------------------------------
\* WithdrawView: soft_delete blanks the address; SocialAccount rows stay.
Withdraw(a) ==
    /\ a \in Live
    /\ withdrawn' = withdrawn \cup {a}
    /\ email' = [email EXCEPT ![a] = None]
    /\ verified' = verified \ {a}
    /\ how' = [how EXCEPT ![a] = "blank"]
    /\ late' = IF \E h \in Handlers : /\ req[h].user = a
                                      /\ at[h] \in {"verify", "check", "patch", "move"}
               THEN late \cup {a} ELSE late
    /\ UNCHANGED <<count, links, at, req, overtaken, raced, rushed, social>>

\* The database raises, a login turns out to be an admin's, or the thread is
\* killed before the write.
CutShort(h) ==
    /\ at[h] # "idle"
    /\ End(h)
    /\ overtaken' = overtaken \ {h}
    /\ UNCHANGED <<users, links, ghosts>>

Next ==
    \/ \E h \in Handlers :
         \/ \E e \in Normalized :
              SignUp(h, e) \/ \E a \in Accounts : Verify(h, a, e) \/ Patch(h, a, e)
         \/ \E s \in Subs :
              \/ \E e \in Addresses : LoginKnown(h, s, e) \/ LoginNew(h, s, e, "verified")
              \/ \E e \in Addresses \cup {None} : LoginNew(h, s, e, "unverified")
         \/ CreateUser(h) \/ SaveVerified(h) \/ CheckFree(h) \/ SavePatch(h)
         \/ MoveAddress(h) \/ FindUser(h) \/ CheckLinks(h) \/ Link(h) \/ CreateSocial(h)
         \/ CutShort(h)
    \/ \E a \in Accounts : Withdraw(a)

Spec == Init /\ [][Next]_vars

-----------------------------------------------------------------------------
(* An address counts as verified only if the account has it from a         *)
(* verification or from a login whose provider vouched for it; or from a   *)
(* PATCH that sent back the address it had loaded after another one was    *)
(* saved, which keeps the flag of that one.                                *)
VerifiedWasProved == \A a \in verified : how[a] \in {"verified", "moved", "stale"}

(* Two accounts in use that have one mailbox verified, or one address at   *)
(* all, have it by a login that moved it without a check, by a PATCH that  *)
(* wrote an old one back, or by a check that was overtaken; an unverified  *)
(* address also by a verification, which leaves its other holders alone.   *)
(* A withdrawn account holds none, unless a request that was about to save *)
(* it overlapped the withdrawal.                                           *)
AddressOwned ==
    /\ \A a, b \in Live \ raced : a # b =>
         LET ways == {how[a], how[b]} IN
         /\ a \in verified /\ b \in verified /\ email[a] \in Spellings(email[b])
              => ways \cap {"moved", "stale"} # {}
         /\ email[a] = email[b] /\ email[a] # None
              => ways \cap {"moved", "stale", "verified"} # {}
    /\ \A a \in withdrawn \ late : email[a] = None

(* Every account made by a login can be found by a login, and has one link *)
(* per provider unless two were made at the same time.                     *)
LoginLinks ==
    /\ \A a \in social : \E s \in Subs : owner[s] = a
    /\ \A s, t \in Subs \ rushed :
           s # t /\ owner[s] = owner[t] /\ provider[s] = provider[t] => owner[s] = 0
=============================================================================
