------------------------------ MODULE EmailCodes ------------------------------
(***************************************************************************)
(* The codes that prove an e-mail address: EmailSendCodeView and           *)
(* EmailVerifyCodeView over the keys of email_verification_store in Redis, *)
(* for the requests of one account (every key carries the account's id).   *)
(*                                                                         *)
(* Code and failures of an address are two keys with lifetimes of their    *)
(* own, the requests of a day a third, and every Redis command is a step:  *)
(* INCR and EXPIRE, SETEX and DELETE, DELETE and DELETE come in pairs that  *)
(* other requests, the clock and a crash can part.  Codes are numbered and *)
(* differ; an answer is right or wrong for the code the request has read.  *)
(***************************************************************************)
EXTENDS Naturals, Sequences, FiniteSets

CONSTANTS
    Addresses,
    Handlers,   \* web server threads, each serving one request at a time
    Lifetime,   \* EMAIL_VERIFY_TTL_SECONDS, in ticks
    DailyLimit, \* EMAIL_VERIFY_DAILY_LIMIT
    MaxFails,   \* EMAIL_VERIFY_MAX_FAIL_COUNT
    MaxCodes,   \* bound on the codes ever stored
    None        \* the address of an idle handler

ASSUME EmailAssumption ==
    /\ Lifetime \in Nat \ {0} /\ DailyLimit \in Nat \ {0}
    /\ MaxFails \in Nat \ {0} /\ MaxCodes \in Nat
    /\ None \notin Addresses
    /\ IsFiniteSet(Handlers)

VARIABLES
    code,       \* email_verify:code:<id>:<address>, 0 when there is no key
    codeLeft,   \* its remaining lifetime
    fails,      \* email_verify:fail:<id>:<address>, 0 when there is no key
    failsLeft,  \* its remaining lifetime, Forever before EXPIRE
    daily,      \* email_verify:daily:<id>:<today>
    at,         \* where each handler is
    req,        \* the address, the code and the failures it works with
    \* History:
    issued,     \* the address of each code ever stored
    mailed,     \* codes that were sent out
    alone,      \* those sent while no other request for the address was at work
    overlapped, \* handlers whose request met another one for its address
    loose,      \* codes used by an overlapped request or not deleted after use
    uncounted,  \* codes with a wrong answer whose request ended before INCR
    guesses,    \* wrong answers compared with each code
    uses,       \* verifications by each code, counted up to two
    expired     \* codes whose lifetime ended

store  == <<code, codeLeft, fails, failsLeft, daily>>
ghosts == <<mailed, alone, loose, uncounted, guesses, uses, expired>>
vars   == <<store, at, req, issued, overlapped, ghosts>>

Codes   == 1..MaxCodes
Forever == Lifetime + 1
Most    == MaxFails + Cardinality(Handlers) - 1   \* failures there can be
TooMany == MaxFails + 2 * Cardinality(Handlers)   \* wrong answers are counted up to here

Request   == [address : Addresses, code : 0..MaxCodes, fails : 0..Most]
NoRequest == [address |-> None, code |-> 0, fails |-> 0]
Pc == {"idle", "daily", "count", "store", "clear", "mail",
       "right", "wrong", "save", "fail", "expire", "drop", "dropFails"}

TypeOK ==
    /\ code \in [Addresses -> 0..MaxCodes]
    /\ codeLeft \in [Addresses -> 0..Lifetime]
    /\ fails \in [Addresses -> 0..Most]
    /\ failsLeft \in [Addresses -> 0..Forever]
    /\ daily \in Nat
    /\ at \in [Handlers -> Pc]
    /\ req \in [Handlers -> Request \cup {NoRequest}]
    /\ issued \in Seq(Addresses) /\ Len(issued) <= MaxCodes
    /\ mailed \subseteq Codes /\ alone \subseteq mailed
    /\ overlapped \subseteq Handlers
    /\ loose \subseteq Codes /\ uncounted \subseteq Codes /\ expired \subseteq Codes
    /\ guesses \in [Codes -> 0..TooMany]
    /\ uses \in [Codes -> 0..2]

Init ==
    /\ code = [a \in Addresses |-> 0] /\ codeLeft = [a \in Addresses |-> 0]
    /\ fails = [a \in Addresses |-> 0] /\ failsLeft = [a \in Addresses |-> 0]
    /\ daily = 0
    /\ at = [h \in Handlers |-> "idle"]
    /\ req = [h \in Handlers |-> NoRequest]
    /\ issued = <<>>
    /\ mailed = {} /\ alone = {} /\ overlapped = {}
    /\ loose = {} /\ uncounted = {} /\ expired = {}
    /\ guesses = [n \in Codes |-> 0]
    /\ uses = [n \in Codes |-> 0]

-----------------------------------------------------------------------------
Goto(h, pc) == at' = [at EXCEPT ![h] = pc]

End(h) == Goto(h, "idle") /\ req' = [req EXCEPT ![h] = NoRequest]

Step(h, here, next) == at[h] = here /\ Goto(h, next) /\ UNCHANGED req

\* A request for a arrives and has read code n.
Serve(h, pc, a, n) ==
    LET others == {g \in Handlers : at[g] # "idle" /\ req[g].address = a} IN
    /\ at[h] = "idle"
    /\ Goto(h, pc)
    /\ req' = [req EXCEPT ![h] = [address |-> a, code |-> n, fails |-> 0]]
    /\ overlapped' = IF others = {} THEN overlapped \ {h}
                                    ELSE overlapped \cup others \cup {h}

-----------------------------------------------------------------------------
(* EmailSendCodeView.post                                                  *)

\* An address that is verified elsewhere is refused first: what the other
\* accounts hold is EmailOwnership's matter.
SendCode(h, a) ==
    /\ Serve(h, "daily", a, 0)
    /\ UNCHANGED <<store, issued, ghosts>>

\* get_daily_count
ReadDaily(h) ==
    /\ IF daily >= DailyLimit THEN at[h] = "daily" /\ End(h) ELSE Step(h, "daily", "count")
    /\ UNCHANGED <<store, issued, overlapped, ghosts>>

\* increment_daily_count; the key carries the date and outlives it.
IncrDaily(h) ==
    /\ Step(h, "count", "store")
    /\ daily' = daily + 1
    /\ UNCHANGED <<code, codeLeft, fails, failsLeft, issued, overlapped, ghosts>>

\* store_code: SETEX ...
SetCode(h) ==
    LET a == req[h].address  n == Len(issued) + 1 IN
    /\ at[h] = "store"
    /\ n <= MaxCodes
    /\ issued' = Append(issued, a)
    /\ code' = [code EXCEPT ![a] = n]
    /\ codeLeft' = [codeLeft EXCEPT ![a] = Lifetime]
    /\ Goto(h, "clear")
    /\ req' = [req EXCEPT ![h].code = n]
    /\ UNCHANGED <<fails, failsLeft, daily, overlapped, ghosts>>

\* A plausible slip: the failures are left to their own lifetime.
ClearFails_Kept(h) ==
    /\ Step(h, "clear", "mail")
    /\ UNCHANGED <<store, issued, overlapped, ghosts>>

\* ... and DELETE of the failures.
ClearFails(h) ==
    LET a == req[h].address IN
    /\ Step(h, "clear", "mail")
    /\ fails' = [fails EXCEPT ![a] = 0]
    /\ failsLeft' = [failsLeft EXCEPT ![a] = 0]
    /\ UNCHANGED <<code, codeLeft, daily, issued, overlapped, ghosts>>

\* send_verification_email: a message reported unsent may have been sent.
Mail(h) ==
    LET n == req[h].code IN
    /\ at[h] = "mail"
    /\ End(h)
    /\ \/ /\ mailed' = mailed \cup {n}
          /\ alone' = IF h \in overlapped THEN alone ELSE alone \cup {n}
       \/ UNCHANGED <<mailed, alone>>
    /\ UNCHANGED <<store, issued, overlapped, loose, uncounted, guesses, uses, expired>>

-----------------------------------------------------------------------------
(* EmailVerifyCodeView.post                                                *)

\* get_code_hash, and the answer the request brought: only who has the
\* message knows the code.
AnswerRight(h, a) ==
    /\ code[a] \in mailed
    /\ Serve(h, "right", a, code[a])
    /\ UNCHANGED <<store, issued, ghosts>>

AnswerWrong(h, a) ==
    /\ code[a] # 0
    /\ Serve(h, "wrong", a, code[a])
    /\ UNCHANGED <<store, issued, ghosts>>

Blocked(h) == fails[req[h].address] >= MaxFails

\* get_fail_count, then the comparison.
CompareRight(h) ==
    /\ at[h] = "right"
    /\ IF Blocked(h) THEN End(h) ELSE Step(h, "right", "save")
    /\ UNCHANGED <<store, issued, overlapped, ghosts>>

CompareWrong(h) ==
    /\ at[h] = "wrong"
    /\ IF Blocked(h)
       THEN End(h) /\ UNCHANGED guesses
       ELSE /\ Goto(h, "fail")
            /\ req' = [req EXCEPT ![h].fails = fails[req[h].address]]
            /\ guesses' = [guesses EXCEPT ![req[h].code] = IF @ < TooMany THEN @ + 1 ELSE @]
    /\ UNCHANGED <<store, issued, overlapped, mailed, alone, loose, uncounted, uses, expired>>

Failed(h, count) ==
    IF count >= MaxFails THEN Goto(h, "drop") /\ req' = [req EXCEPT ![h].fails = count]
                         ELSE End(h)

\* A plausible slip: SETEX of the failures that were compared, and one.
IncrFail_NotAtomic(h) ==
    LET a == req[h].address  count == req[h].fails + 1 IN
    /\ at[h] = "fail"
    /\ fails' = [fails EXCEPT ![a] = count]
    /\ failsLeft' = [failsLeft EXCEPT ![a] = Lifetime]
    /\ Failed(h, count)
    /\ UNCHANGED <<code, codeLeft, daily, issued, overlapped, ghosts>>

\* increment_fail_count: INCR keeps the lifetime of a key, and gives a new one
\* none ...
IncrFail(h) ==
    LET a == req[h].address  count == fails[a] + 1 IN
    /\ at[h] = "fail"
    /\ fails' = [fails EXCEPT ![a] = count]
    /\ failsLeft' = [failsLeft EXCEPT ![a] = IF count = 1 THEN Forever ELSE @]
    /\ IF count = 1
       THEN Goto(h, "expire") /\ req' = [req EXCEPT ![h].fails = count]
       ELSE Failed(h, count)
    /\ UNCHANGED <<code, codeLeft, daily, issued, overlapped, ghosts>>

\* ... so that EXPIRE has to; it does nothing to a key that is gone.
ExpireFail(h) ==
    LET a == req[h].address IN
    /\ at[h] = "expire"
    /\ failsLeft' = [failsLeft EXCEPT ![a] = IF fails[a] = 0 THEN 0 ELSE Lifetime]
    /\ Failed(h, req[h].fails)
    /\ UNCHANGED <<code, codeLeft, fails, daily, issued, overlapped, ghosts>>

\* request.user.save(...): the address is verified, unless it has been
\* verified elsewhere, where the request ends (see CutShort).
SaveUser(h) ==
    LET n == req[h].code IN
    /\ Step(h, "save", "drop")
    /\ uses' = [uses EXCEPT ![n] = IF @ < 2 THEN @ + 1 ELSE 2]
    /\ loose' = IF h \in overlapped THEN loose \cup {n} ELSE loose
    /\ UNCHANGED <<store, issued, overlapped, mailed, alone, uncounted, guesses, expired>>

\* A plausible slip: after a verification only the failures are forgotten.
DropCode_FailsOnly(h) ==
    /\ Step(h, "drop", "dropFails")
    /\ UNCHANGED <<store, issued, overlapped, ghosts>>

\* delete_code, after a verification or the last failure: whatever code is
\* there, ...
DropCode(h) ==
    LET a == req[h].address IN
    /\ Step(h, "drop", "dropFails")
    /\ code' = [code EXCEPT ![a] = 0]
    /\ codeLeft' = [codeLeft EXCEPT ![a] = 0]
    /\ UNCHANGED <<fails, failsLeft, daily, issued, overlapped, ghosts>>

\* ... and its failures.
DropFails(h) ==
    LET a == req[h].address IN
    /\ at[h] = "dropFails"
    /\ End(h)
    /\ fails' = [fails EXCEPT ![a] = 0]
    /\ failsLeft' = [failsLeft EXCEPT ![a] = 0]
    /\ UNCHANGED <<code, codeLeft, daily, issued, overlapped, ghosts>>

\* Redis, the database or the mail service raises, the thread is killed, or
\* the address turns out to be verified elsewhere.
CutShort(h) ==
    /\ at[h] # "idle"
    /\ End(h)
    /\ loose' = IF at[h] = "drop" /\ req[h].fails = 0 THEN loose \cup {req[h].code} ELSE loose
    /\ uncounted' = IF at[h] = "fail" THEN uncounted \cup {req[h].code} ELSE uncounted
    /\ UNCHANGED <<store, issued, overlapped, mailed, alone, guesses, uses, expired>>

-----------------------------------------------------------------------------
(* The clock                                                               *)

Older(left) == CASE left = Forever -> Forever
                 [] left = 0       -> 0
                 [] OTHER          -> left - 1

\* A tick passes and every key is that much older.
Tick ==
    /\ \E a \in Addresses : codeLeft[a] > 0 \/ failsLeft[a] \in 1..Lifetime
    /\ codeLeft' = [a \in Addresses |-> Older(codeLeft[a])]
    /\ code' = [a \in Addresses |-> IF codeLeft[a] <= 1 THEN 0 ELSE code[a]]
    /\ failsLeft' = [a \in Addresses |-> Older(failsLeft[a])]
    /\ fails' = [a \in Addresses |-> IF failsLeft[a] <= 1 THEN 0 ELSE fails[a]]
    /\ expired' = expired \cup {code[a] : a \in {b \in Addresses : codeLeft[b] = 1}}
    /\ UNCHANGED <<daily, at, req, issued, overlapped, mailed, alone, loose, uncounted, guesses, uses>>

\* The next day's key does not exist yet.
Midnight ==
    /\ daily > 0
    /\ daily' = 0
    /\ UNCHANGED <<code, codeLeft, fails, failsLeft, at, req, issued, overlapped, ghosts>>

-----------------------------------------------------------------------------
Handle(h) ==
    \/ \E a \in Addresses : SendCode(h, a) \/ AnswerRight(h, a) \/ AnswerWrong(h, a)
    \/ ReadDaily(h) \/ IncrDaily(h)
    \/ SetCode(h) \/ ClearFails(h) \/ Mail(h)
    \/ CompareRight(h) \/ SaveUser(h)
    \/ CompareWrong(h) \/ IncrFail(h) \/ ExpireFail(h)
    \/ DropCode(h) \/ DropFails(h)
    \/ CutShort(h)

Next == (\E h \in Handlers : Handle(h)) \/ Tick \/ Midnight

Spec == Init /\ [][Next]_vars

-----------------------------------------------------------------------------
Newest(n) == \A later \in (n + 1)..Len(issued) : issued[later] # issued[n]

(* The newest code of an address, if its message was sent while no other   *)
(* request for the address was at work, can be answered until it expires,  *)
(* is used or was answered wrongly too often: no failure of an earlier     *)
(* code, no crash and no delayed DELETE takes it away or blocks it.        *)
CodeKept ==
    \A n \in alone : LET a == issued[n] IN
        Newest(n) => \/ code[a] = n /\ fails[a] < MaxFails
                     \/ n \in expired \/ uses[n] > 0 \/ guesses[n] >= MaxFails

(* Such a code is compared with at most MaxFails wrong answers, one more   *)
(* for each other request comparing at the same time, and one for each     *)
(* that had read it when its failures ended: they never expire or get lost *)
(* before the code does, unless a request ended before INCR.               *)
TriesBound ==
    \A n \in alone \ uncounted : guesses[n] < TooMany

(* A code verifies once, unless requests overlapped or the one that used   *)
(* it ended before deleting it.                                            *)
UsedOnce == \A n \in Codes : uses[n] > 1 => n \in loose
=============================================================================
