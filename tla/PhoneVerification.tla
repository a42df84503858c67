-------------------------- MODULE PhoneVerification --------------------------
(***************************************************************************)
(* Verifying the phone number of an account by SMS: PhoneSendCodeView and  *)
(* PhoneVerifyCodeView over SmsVerification rows and User.phone, while     *)
(* accounts withdraw (User.soft_delete).                                   *)
(*                                                                         *)
(* Every query is a step; the unique column User.phone is the only thing   *)
(* that holds across them.  Codes are abstracted to right or wrong.        *)
(***************************************************************************)
EXTENDS Accounts, Naturals, Sequences, FiniteSets

CONSTANTS
    Phones,
    DailyLimit, \* 3 requests per phone and day
    MaxFails,   \* MAX_SMS_VERIFY_FAIL_COUNT
    MaxRows     \* bound on the codes ever requested

ASSUME PhoneAssumption ==
    /\ DailyLimit \in Nat \ {0} /\ MaxFails \in Nat \ {0} /\ MaxRows \in Nat
    /\ None \notin Users \cup Phones
    /\ IsFiniteSet(Handlers)

VARIABLES
    phone,      \* User.phone, verified, of each user
    withdrawn,  \* users with is_deleted
    row,        \* SmsVerification rows, oldest first
    at,         \* where each handler is
    req,        \* the user, the phone and the row it works on
    wrong,      \* history: wrong answers given to each code
    overlapped, \* history: codes answered wrongly twice at once, or by a
                \* request that ended before counting it
    unmarked,   \* history: codes whose verifier could not mark them verified
    late        \* history: users who withdrew while a verification was at work

vars == <<phone, withdrawn, row, at, req, wrong, overlapped, unmarked, late>>
ghosts == <<wrong, overlapped, unmarked, late>>

Code      == [user : Users, phone : Phones, day : {"today", "before"},
              age : {"fresh", "expired"}, fails : 0..MaxFails,
              state : {"open", "verified", "deleted"}]
Request   == [user : Users, phone : Phones, row : 0..MaxRows, fails : 0..MaxFails]
NoRequest == [user |-> None, phone |-> None, row |-> 0, fails |-> 0]
Pc        == {"idle", "taken", "count", "create", "sms", "fail", "conflict", "save", "mark"}

TypeOK ==
    /\ phone \in [Users -> Phones \cup {None}]
    /\ withdrawn \subseteq Users
    /\ row \in Seq(Code)
    /\ at \in [Handlers -> Pc]
    /\ req \in [Handlers -> Request \cup {NoRequest}]
    /\ wrong \in [1..MaxRows -> 0..(MaxFails + 1)]
    /\ overlapped \subseteq 1..MaxRows
    /\ unmarked \subseteq 1..MaxRows
    /\ late \subseteq Users

Init ==
    /\ phone = [u \in Users |-> None]
    /\ withdrawn = {}
    /\ row = <<>>
    /\ at = [h \in Handlers |-> "idle"]
    /\ req = [h \in Handlers |-> NoRequest]
    /\ wrong = [i \in 1..MaxRows |-> 0]
    /\ overlapped = {} /\ unmarked = {} /\ late = {}

-----------------------------------------------------------------------------
Rows == {i \in 1..Len(row) : row[i].state # "deleted"}

RowsToday(p) == {i \in Rows : row[i].phone = p /\ row[i].day = "today"}

Goto(h, pc) == at' = [at EXCEPT ![h] = pc]

End(h) == Goto(h, "idle") /\ req' = [req EXCEPT ![h] = NoRequest]

\* A withdrawn account's token is refused.
Serve(h, pc, u, p, i, fails) ==
    /\ at[h] = "idle"
    /\ u \notin withdrawn
    /\ Goto(h, pc)
    /\ req' = [req EXCEPT ![h] = [user |-> u, phone |-> p, row |-> i, fails |-> fails]]

TakenElsewhere(u, p) == \E v \in Users \ {u} : phone[v] = p

-----------------------------------------------------------------------------
(* PhoneSendCodeView.post                                                  *)

SendCode(h, u, p) ==
    /\ Serve(h, "taken", u, p, 0, 0)
    /\ UNCHANGED <<phone, withdrawn, row, ghosts>>

\* The number is verified elsewhere: asked before a code is sent and again
\* before it is verified.
CheckTaken(h, here, next) ==
    /\ at[h] = here
    /\ IF TakenElsewhere(req[h].user, req[h].phone)
       THEN End(h)
       ELSE Goto(h, next) /\ UNCHANGED req
    /\ UNCHANGED <<phone, withdrawn, row, ghosts>>

\* A plausible slip: one request too many.
CountToday_TooMany(h) ==
    /\ at[h] = "count"
    /\ IF Cardinality(RowsToday(req[h].phone)) > DailyLimit
       THEN End(h)
       ELSE Goto(h, "create") /\ UNCHANGED req
    /\ UNCHANGED <<phone, withdrawn, row, ghosts>>

CountToday(h) ==
    /\ at[h] = "count"
    /\ IF Cardinality(RowsToday(req[h].phone)) >= DailyLimit
       THEN End(h)
       ELSE Goto(h, "create") /\ UNCHANGED req
    /\ UNCHANGED <<phone, withdrawn, row, ghosts>>

CreateRow(h) ==
    /\ at[h] = "create"
    /\ Len(row) < MaxRows
    /\ row' = Append(row, [user |-> req[h].user, phone |-> req[h].phone, day |-> "today",
                           age |-> "fresh", fails |-> 0, state |-> "open"])
    /\ req' = [req EXCEPT ![h].row = Len(row) + 1]
    /\ Goto(h, "sms")
    /\ UNCHANGED <<phone, withdrawn, ghosts>>

\* send_verification_sms; a row whose message is reported unsent is deleted,
\* although the code may have arrived and been answered.
SendSms(h) ==
    /\ at[h] = "sms"
    /\ row' \in {row, [row EXCEPT ![req[h].row].state = "deleted"]}
    /\ End(h)
    /\ UNCHANGED <<phone, withdrawn, ghosts>>

-----------------------------------------------------------------------------
(* PhoneVerifyCodeView.post                                                *)

\* The newest row of the user and the phone.
IsNewest(i, u, p) ==
    LET mine == {j \in Rows : row[j].user = u /\ row[j].phone = p}
    IN  i \in mine /\ \A j \in mine : j <= i

Answerable(i, u, p) ==
    /\ IsNewest(i, u, p)
    /\ row[i].state = "open" /\ row[i].age = "fresh" /\ row[i].fails < MaxFails

AnswerRight(h, u, p) ==
    /\ \E i \in Rows : Answerable(i, u, p) /\ Serve(h, "conflict", u, p, i, row[i].fails)
    /\ UNCHANGED <<phone, withdrawn, row, ghosts>>

AnswerWrong(h, u, p) ==
    /\ \E i \in Rows :
         /\ Answerable(i, u, p)
         /\ Serve(h, "fail", u, p, i, row[i].fails)
         /\ wrong' = [wrong EXCEPT ![i] = IF @ > MaxFails THEN @ ELSE @ + 1]
         /\ overlapped' = IF \E g \in Handlers : at[g] = "fail" /\ req[g].row = i
                          THEN overlapped \cup {i} ELSE overlapped
    /\ UNCHANGED <<phone, withdrawn, row, unmarked, late>>

\* A plausible slip: the failure is counted in memory only.
SaveFail_Unsaved(h) ==
    /\ at[h] = "fail"
    /\ End(h)
    /\ UNCHANGED <<phone, withdrawn, row, ghosts>>

\* fail_count as it was loaded, and one; saving a deleted row raises.
SaveFail(h) ==
    LET i == req[h].row IN
    /\ at[h] = "fail"
    /\ row' = IF i \in Rows THEN [row EXCEPT ![i].fails = req[h].fails + 1] ELSE row
    /\ End(h)
    /\ UNCHANGED <<phone, withdrawn, ghosts>>

\* A plausible slip: phone is not unique, and the check is relied on.
SaveUser_NotUnique(h) ==
    /\ at[h] = "save"
    /\ phone' = [phone EXCEPT ![req[h].user] = req[h].phone]
    /\ Goto(h, "mark") /\ UNCHANGED req
    /\ UNCHANGED <<withdrawn, row, ghosts>>

\* A number taken in the meantime raises an IntegrityError.
SaveUser(h) ==
    LET u == req[h].user  p == req[h].phone IN
    /\ at[h] = "save"
    /\ IF TakenElsewhere(u, p)
       THEN End(h) /\ UNCHANGED phone
       ELSE Goto(h, "mark") /\ phone' = [phone EXCEPT ![u] = p] /\ UNCHANGED req
    /\ UNCHANGED <<withdrawn, row, ghosts>>

Mark(h) ==
    LET i == req[h].row IN
    /\ at[h] = "mark"
    /\ IF i \in Rows
       THEN row' = [row EXCEPT ![i].state = "verified"] /\ UNCHANGED unmarked
       ELSE unmarked' = unmarked \cup {i} /\ UNCHANGED row
    /\ End(h)
    /\ UNCHANGED <<phone, withdrawn, wrong, overlapped, late>>

\* The database raises or the thread is killed between two queries.
CutShort(h) ==
    /\ at[h] # "idle"
    /\ overlapped' = IF at[h] = "fail" THEN overlapped \cup {req[h].row} ELSE overlapped
    /\ unmarked' = IF at[h] = "mark" THEN unmarked \cup {req[h].row} ELSE unmarked
    /\ End(h)
    /\ UNCHANGED <<phone, withdrawn, row, wrong, late>>

-----------------------------------------------------------------------------
\* WithdrawView: soft_delete blanks the number.
Withdraw(u) ==
    /\ u \notin withdrawn
    /\ withdrawn' = withdrawn \cup {u}
    /\ phone' = [phone EXCEPT ![u] = None]
    /\ late' = IF \E h \in Handlers : req[h].user = u /\ at[h] \in {"conflict", "save"}
               THEN late \cup {u} ELSE late
    /\ UNCHANGED <<row, at, req, wrong, overlapped, unmarked>>

\* Three minutes pass.
Expire(i) ==
    /\ row[i].age = "fresh"
    /\ row' = [row EXCEPT ![i].age = "expired"]
    /\ UNCHANGED <<phone, withdrawn, at, req, ghosts>>

Midnight ==
    /\ \E i \in Rows : row[i].day = "today"
    /\ row' = [i \in 1..Len(row) |-> [row[i] EXCEPT !.day = "before"]]
    /\ UNCHANGED <<phone, withdrawn, at, req, ghosts>>

Next ==
    \/ \E h \in Handlers :
         \/ \E u \in Users, p \in Phones :
              SendCode(h, u, p) \/ AnswerRight(h, u, p) \/ AnswerWrong(h, u, p)
         \/ CheckTaken(h, "taken", "count") \/ CountToday(h) \/ CreateRow(h) \/ SendSms(h)
         \/ SaveFail(h)
         \/ CheckTaken(h, "conflict", "save") \/ SaveUser(h) \/ Mark(h)
         \/ CutShort(h)
    \/ \E u \in Users : Withdraw(u)
    \/ \E i \in Rows : Expire(i)
    \/ Midnight

Spec == Init /\ [][Next]_vars

-----------------------------------------------------------------------------
(* There are never more codes of a day on record for a number than its     *)
(* daily limit, plus one for each other request that was counting at the   *)
(* same time, midnight included.  A code whose message was reported unsent *)
(* is deleted and does not count, whether or not it arrived.               *)
SendBound ==
    \A p \in Phones :
        Cardinality(RowsToday(p)) <= DailyLimit + Cardinality(Handlers) - 1

(* fail_count is the number of wrong answers, the one being counted aside, *)
(* unless two of them overlapped.                                          *)
FailsCounted ==
    \A i \in Rows \ overlapped :
        row[i].fails + Cardinality({h \in Handlers : at[h] = "fail" /\ req[h].row = i})
            = wrong[i]

(* A number belongs to one account, withdrawn ones included, and to one    *)
(* that was sent a code for it which is verified, about to be, or could    *)
(* not be marked.  A withdrawn account holds none, free for somebody else  *)
(* to verify, unless its verification overlapped the withdrawal.           *)
PhoneOwned ==
    /\ \A u, v \in Users : u # v /\ phone[u] # None => phone[u] # phone[v]
    /\ \A u \in Users : phone[u] # None =>
           \E i \in 1..Len(row) :
               /\ row[i].user = u /\ row[i].phone = phone[u]
               /\ \/ row[i].state # "open"
                  \/ i \in unmarked
                  \/ \E h \in Handlers : at[h] = "mark" /\ req[h].row = i
    /\ \A u \in withdrawn \ late : phone[u] = None
=============================================================================
