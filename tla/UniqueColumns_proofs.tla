------------------------ MODULE UniqueColumns_proofs ------------------------
(***************************************************************************)
(* Proofs about the two unique columns of an account, User.phone and       *)
(* WalletLink.address: about PhoneVerification and, in the second half,    *)
(* about WalletLinks, whose views the same server threads serve for the    *)
(* same users.  For any sets of users, of numbers, of addresses and, where *)
(* it is counted, any finite set of threads, and for every limit.          *)
(***************************************************************************)
EXTENDS PhoneVerification, WalletRows, FiniteSetTheorems, SequenceTheorems, TLAPS

VARIABLES place, request

\* A thread's place and request in the wallet views have names of their own.
Wallet == INSTANCE WalletLinks WITH at <- place, req <- request

-----------------------------------------------------------------------------
(* Part one: codes and numbers.                                            *)

HandlerStep(h) ==
    \/ \E u \in Users, p \in Phones :
         SendCode(h, u, p) \/ AnswerRight(h, u, p) \/ AnswerWrong(h, u, p)
    \/ CheckTaken(h, "taken", "count") \/ CountToday(h) \/ CreateRow(h) \/ SendSms(h)
    \/ SaveFail(h)
    \/ CheckTaken(h, "conflict", "save") \/ SaveUser(h) \/ Mark(h)
    \/ CutShort(h)

OutsideStep ==
    \/ \E u \in Users : Withdraw(u)
    \/ \E i \in Rows : Expire(i)
    \/ Midnight

-----------------------------------------------------------------------------
(* The part of the invariant that everything else rests on: a handler      *)
(* works on a row of its own user and number, and one that may still write *)
(* the number of a withdrawn account has been noticed.                     *)

OnRow == {"sms", "fail", "conflict", "save", "mark"}

HandlerInv(h) ==
    /\ at[h] = "idle" => req[h] = NoRequest
    /\ at[h] # "idle" => req[h] \in Request
    /\ at[h] \in OnRow => /\ req[h].row \in 1..Len(row)
                          /\ row[req[h].row].user = req[h].user
                          /\ row[req[h].row].phone = req[h].phone
    /\ at[h] = "fail" => req[h].fails < MaxFails
    /\ at[h] \in {"conflict", "save"} /\ req[h].user \in withdrawn
          => req[h].user \in late

Base == /\ TypeOK
        /\ Len(row) <= MaxRows
        /\ \A h \in Handlers : HandlerInv(h)

\* What may happen to a code that is there: it stays with its user and its
\* number, and neither a deletion nor an answer nor a day is taken back.
Ages(i) ==
    /\ row'[i].user = row[i].user /\ row'[i].phone = row[i].phone
    /\ row[i].state = "deleted" => row'[i].state = "deleted"
    /\ row[i].state # "open" => row'[i].state # "open"
    /\ row'[i].day = "today" => row[i].day = "today"

\* Only SaveFail writes the failures of a code.
FailsKept(i) == row'[i].fails = row[i].fails

(* A thread that is at work has a request.                                 *)
LEMMA BusyHandler ==
    ASSUME Base, NEW h \in Handlers, at[h] # "idle"
    PROVE  /\ req[h] \in Request
           /\ req[h].user \in Users /\ req[h].phone \in Phones
           /\ req[h].row \in 0..MaxRows /\ req[h].fails \in 0..MaxFails
BY DEF Base, HandlerInv, Request

(* Writing one code over.                                                  *)
LEMMA RowWritten ==
    ASSUME Base, NEW i \in 1..Len(row), NEW c \in Code,
           row' = [row EXCEPT ![i] = c]
    PROVE  /\ row' \in Seq(Code)
           /\ Len(row') = Len(row)
           /\ row'[i] = c
           /\ \A j \in 1..Len(row) \ {i} : row'[j] = row[j]
BY ExceptSeq DEF Base, TypeOK

(* What every step does to the codes: at most one is added, ...            *)
LEMMA RowsStep ==
    ASSUME Base, Next
    PROVE  /\ row' \in Seq(Code)
           /\ Len(row') = Len(row) \/ \E h \in Handlers : CreateRow(h)
           /\ Len(row') \in Len(row)..MaxRows
           /\ \A i \in 1..Len(row) :
                 /\ Ages(i)
                 /\ FailsKept(i) \/ \E h \in Handlers : SaveFail(h) /\ req[h].row = i
<1> DEFINE Goal == /\ row' \in Seq(Code)
                   /\ Len(row') = Len(row) \/ \E h \in Handlers : CreateRow(h)
                   /\ Len(row') \in Len(row)..MaxRows
                   /\ \A i \in 1..Len(row) :
                         /\ Ages(i)
                         /\ FailsKept(i) \/ \E h \in Handlers :
                                                SaveFail(h) /\ req[h].row = i
<1> SUFFICES Goal
  OBVIOUS
<1>0. /\ row \in Seq(Code) /\ Len(row) \in Nat /\ Len(row) <= MaxRows
      /\ \A i \in 1..Len(row) : row[i] \in Code
      /\ MaxRows \in Nat /\ MaxFails \in Nat
  BY PhoneAssumption, LenProperties, ElementOfSeq DEF Base, TypeOK
\* ... and at most one is written over, unless the day ends.
<1>1. ASSUME NEW i \in 1..Len(row), NEW c \in Code, row' = [row EXCEPT ![i] = c],
             c.user = row[i].user, c.phone = row[i].phone, c.day = row[i].day,
             row[i].state = "deleted" => c.state = "deleted",
             row[i].state # "open" => c.state # "open",
             c.fails = row[i].fails \/ \E h \in Handlers : SaveFail(h) /\ req[h].row = i
      PROVE  Goal
  <2>1. /\ row' \in Seq(Code)
        /\ Len(row') = Len(row)
        /\ row'[i] = c
        /\ \A j \in 1..Len(row) \ {i} : row'[j] = row[j]
    BY <1>1, RowWritten
  <2>2. Ages(i) /\ (FailsKept(i) \/ \E h \in Handlers : SaveFail(h) /\ req[h].row = i)
    BY <1>1, <2>1 DEF Ages, FailsKept
  <2>3. \A j \in 1..Len(row) \ {i} : Ages(j) /\ FailsKept(j)
    BY <2>1 DEF Ages, FailsKept
  <2> QED BY <1>0, <2>1, <2>2, <2>3
<1>2. ASSUME row' = row
      PROVE  Goal
  BY <1>0, <1>2 DEF Ages, FailsKept
<1> HIDE DEF Goal
<1>3. ASSUME NEW h \in Handlers, CreateRow(h)
      PROVE  Goal
  <2> DEFINE c == [user |-> req[h].user, phone |-> req[h].phone, day |-> "today",
                   age |-> "fresh", fails |-> 0, state |-> "open"]
  <2>1. c \in Code
    BY <1>0, <1>3, BusyHandler DEF CreateRow, Code
  <2>2. row' = Append(row, c) /\ Len(row) < MaxRows
    BY <1>3 DEF CreateRow
  <2> HIDE DEF c
  <2>3. /\ row' \in Seq(Code) /\ Len(row') = Len(row) + 1
        /\ \A i \in 1..Len(row) : row'[i] = row[i]
    BY <1>0, <2>1, <2>2, AppendProperties
  <2> QED BY <1>0, <1>3, <2>2, <2>3 DEF Goal, Ages, FailsKept
<1>4. ASSUME NEW h \in Handlers, SendSms(h)
      PROVE  Goal
  <2>1. req[h].row \in 1..Len(row)
    BY <1>4 DEF SendSms, Base, HandlerInv, OnRow
  <2>2. [row[req[h].row] EXCEPT !.state = "deleted"] \in Code
    BY <1>0, <2>1 DEF Code
  <2>3. CASE row' = [row EXCEPT ![req[h].row].state = "deleted"]
    BY <1>0, <1>1, <2>1, <2>2, <2>3 DEF Code
  <2> QED BY <1>2, <1>4, <2>3 DEF SendSms
<1>5. ASSUME NEW h \in Handlers, SaveFail(h)
      PROVE  Goal
  <2>1. req[h].row \in 1..Len(row) /\ req[h].fails + 1 \in 0..MaxFails
    BY <1>0, <1>5, BusyHandler DEF SaveFail, Base, HandlerInv, OnRow
  <2>2. [row[req[h].row] EXCEPT !.fails = req[h].fails + 1] \in Code
    BY <1>0, <2>1 DEF Code
  <2>3. CASE row' = [row EXCEPT ![req[h].row].fails = req[h].fails + 1]
    BY <1>0, <1>1, <1>5, <2>1, <2>2, <2>3 DEF Code
  <2> QED BY <1>2, <1>5, <2>3 DEF SaveFail
<1>6. ASSUME NEW h \in Handlers, Mark(h)
      PROVE  Goal
  <2>1. req[h].row \in 1..Len(row)
    BY <1>6 DEF Mark, Base, HandlerInv, OnRow
  <2>2. [row[req[h].row] EXCEPT !.state = "verified"] \in Code
    BY <1>0, <2>1 DEF Code
  <2>3. CASE req[h].row \in Rows /\ row' = [row EXCEPT ![req[h].row].state = "verified"]
    <3>1. row[req[h].row].state # "deleted"
      BY <2>3 DEF Rows
    <3> QED BY <1>0, <1>1, <2>1, <2>2, <2>3, <3>1 DEF Code
  <2> QED BY <1>2, <1>6, <2>3 DEF Mark
<1>7. ASSUME NEW i \in Rows, Expire(i)
      PROVE  Goal
  <2>1. i \in 1..Len(row)
    BY DEF Rows
  <2>2. [row[i] EXCEPT !.age = "expired"] \in Code
    BY <1>0, <2>1 DEF Code
  <2>3. row' = [row EXCEPT ![i] = [row[i] EXCEPT !.age = "expired"]]
    BY <1>7 DEF Expire
  <2> QED BY <1>0, <1>1, <2>1, <2>2, <2>3 DEF Code
<1>8. ASSUME Midnight
      PROVE  Goal
  <2>1. row' = [i \in 1..Len(row) |-> [row[i] EXCEPT !.day = "before"]]
    BY <1>8 DEF Midnight
  <2>2. \A i \in 1..Len(row) : [row[i] EXCEPT !.day = "before"] \in Code
    BY <1>0 DEF Code
  <2>3. row' \in [1..Len(row) -> Code]
    BY <2>1, <2>2
  <2>4. row' \in Seq(Code) /\ DOMAIN row' = 1..Len(row)
    BY <1>0, <2>3, SeqDef
  <2>5. Len(row') = Len(row)
    <3>1. Len(row') \in Nat /\ DOMAIN row' = 1..Len(row')
      BY <2>4, LenProperties
    <3> QED BY <1>0, <2>4, <3>1
  <2>6. \A i \in 1..Len(row) : Ages(i) /\ FailsKept(i)
    BY <1>0, <2>1 DEF Ages, FailsKept, Code
  <2> QED BY <1>0, <2>4, <2>5, <2>6 DEF Goal
<1> QED BY <1>2, <1>3, <1>4, <1>5, <1>6, <1>7, <1>8 DEF Next, SendCode, AnswerRight,
           AnswerWrong, CheckTaken, CountToday, SaveUser, CutShort, Withdraw

(* The histories only grow: an overlap is remembered, a wrong answer is    *)
(* counted on a code that exists, and only a withdrawal withdraws.         *)
LEMMA HistoriesGrow ==
    ASSUME Next
    PROVE  /\ overlapped \subseteq overlapped'
           /\ \/ wrong' = wrong
              \/ \E k \in Rows : wrong' = [wrong EXCEPT ![k] = IF @ > MaxFails THEN @ ELSE @ + 1]
           /\ \/ withdrawn' = withdrawn /\ late' = late
              \/ \E u \in Users : Withdraw(u)
<1>1. ASSUME NEW h \in Handlers, NEW u \in Users, NEW p \in Phones, AnswerWrong(h, u, p)
      PROVE  /\ overlapped \subseteq overlapped' /\ UNCHANGED <<withdrawn, late>>
             /\ \E k \in Rows : wrong' = [wrong EXCEPT ![k] = IF @ > MaxFails THEN @ ELSE @ + 1]
  BY <1>1 DEF AnswerWrong
<1>2. ASSUME NEW h \in Handlers, NEW u \in Users, NEW p \in Phones,
             SendCode(h, u, p) \/ AnswerRight(h, u, p)
      PROVE  UNCHANGED <<withdrawn, ghosts>>
  BY <1>2 DEF SendCode, AnswerRight
<1>3. ASSUME NEW h \in Handlers,
             \/ CheckTaken(h, "taken", "count") \/ CountToday(h) \/ CreateRow(h) \/ SendSms(h)
             \/ SaveFail(h) \/ CheckTaken(h, "conflict", "save") \/ SaveUser(h)
      PROVE  UNCHANGED <<withdrawn, ghosts>>
  BY <1>3 DEF CheckTaken, CountToday, CreateRow, SendSms, SaveFail, SaveUser
<1>4. ASSUME NEW h \in Handlers, Mark(h) \/ CutShort(h)
      PROVE  UNCHANGED <<withdrawn, wrong, late>> /\ overlapped \subseteq overlapped'
  BY <1>4 DEF Mark, CutShort
<1>5. ASSUME NEW u \in Users, Withdraw(u)
      PROVE  UNCHANGED <<wrong, overlapped>>
  BY <1>5 DEF Withdraw
<1>6. (\E i \in Rows : Expire(i)) \/ Midnight => UNCHANGED <<withdrawn, ghosts>>
  BY DEF Expire, Midnight
<1> QED BY <1>1, <1>2, <1>3, <1>4, <1>5, <1>6 DEF Next, ghosts

(* A thread that a step leaves alone keeps its part of the invariant.      *)
LEMMA HandlerFrame ==
    ASSUME Base, NEW g \in Handlers, at'[g] = at[g], req'[g] = req[g],
           Len(row') \in Len(row)..MaxRows, \A i \in 1..Len(row) : Ages(i),
           withdrawn' = withdrawn, late' = late
    PROVE  HandlerInv(g)'
<1>1. HandlerInv(g) /\ Len(row) \in Nat
  BY LenProperties DEF Base, TypeOK
<1>2. 1..Len(row) \subseteq 1..Len(row')
  BY <1>1
<1> QED BY <1>1, <1>2 DEF HandlerInv, Ages

(* What a thread's step does to the threads.                               *)
LEMMA HandlerMoves ==
    ASSUME Base, NEW h \in Handlers, HandlerStep(h)
    PROVE  /\ at' \in [Handlers -> Pc]
           /\ req' \in [Handlers -> Request \cup {NoRequest}]
           /\ \A g \in Handlers \ {h} : at'[g] = at[g] /\ req'[g] = req[g]
           /\ \/ at'[h] = "idle" /\ req'[h] = NoRequest
              \/ at'[h] # "idle" /\ req'[h] \in Request
           /\ UNCHANGED <<withdrawn, late>>
<1> DEFINE Goal == /\ at' \in [Handlers -> Pc]
                   /\ req' \in [Handlers -> Request \cup {NoRequest}]
                   /\ \A g \in Handlers \ {h} : at'[g] = at[g] /\ req'[g] = req[g]
                   /\ \/ at'[h] = "idle" /\ req'[h] = NoRequest
                      \/ at'[h] # "idle" /\ req'[h] \in Request
<1>0. /\ at \in [Handlers -> Pc]
      /\ req \in [Handlers -> Request \cup {NoRequest}]
      /\ row \in Seq(Code) /\ Len(row) \in Nat /\ Len(row) <= MaxRows
      /\ MaxFails \in Nat /\ MaxRows \in Nat
  BY PhoneAssumption, LenProperties DEF Base, TypeOK
<1>1. ASSUME NEW pc \in Pc \ {"idle"}, NEW r \in Request,
             Goto(h, pc), req' = [req EXCEPT ![h] = r]
      PROVE  Goal
  BY <1>0, <1>1 DEF Goto
<1>2. ASSUME End(h)
      PROVE  Goal
  BY <1>0, <1>2 DEF End, Goto, Pc
<1>3. ASSUME at[h] # "idle", NEW pc \in Pc \ {"idle"}, Goto(h, pc), UNCHANGED req
      PROVE  Goal
  <2>1. req[h] \in Request
    BY <1>3, BusyHandler
  <2> QED BY <1>0, <1>3, <2>1 DEF Goto
<1>4. ASSUME NEW pc \in Pc \ {"idle"}, NEW u \in Users, NEW p \in Phones,
             NEW i \in 0..MaxRows, NEW fails \in 0..MaxFails, Serve(h, pc, u, p, i, fails)
      PROVE  Goal
  <2>1. [user |-> u, phone |-> p, row |-> i, fails |-> fails] \in Request
    BY DEF Request
  <2> QED BY <1>1, <1>4, <2>1 DEF Serve
<1>5. UNCHANGED <<withdrawn, late>>
  BY DEF HandlerStep, SendCode, AnswerRight, AnswerWrong, CheckTaken, CountToday, CreateRow,
         SendSms, SaveFail, SaveUser, Mark, CutShort, ghosts
<1> SUFFICES Goal
  BY <1>5
<1> HIDE DEF Goal
<1>6. \A i \in Rows : i \in 0..MaxRows /\ row[i].fails \in 0..MaxFails
  <2>1. \A i \in 1..Len(row) : row[i] \in Code
    BY <1>0, ElementOfSeq
  <2> QED BY <1>0, <2>1 DEF Rows, Code
<1>7. CASE \E u \in Users, p \in Phones : SendCode(h, u, p)
  <2>1. "taken" \in Pc \ {"idle"} /\ 0 \in 0..MaxRows /\ 0 \in 0..MaxFails
    BY <1>0 DEF Pc
  <2> QED BY <1>4, <1>7, <2>1 DEF SendCode
<1>8. CASE \E u \in Users, p \in Phones : AnswerRight(h, u, p) \/ AnswerWrong(h, u, p)
  <2>1. "conflict" \in Pc \ {"idle"} /\ "fail" \in Pc \ {"idle"}
    BY DEF Pc
  <2> QED BY <1>4, <1>6, <1>8, <2>1 DEF AnswerRight, AnswerWrong
<1>9. CASE CreateRow(h)
  <2>1. [req[h] EXCEPT !.row = Len(row) + 1] \in Request
    BY <1>0, <1>9, BusyHandler DEF CreateRow, Request
  <2>2. req' = [req EXCEPT ![h] = [req[h] EXCEPT !.row = Len(row) + 1]] /\ Goto(h, "sms")
    BY <1>9 DEF CreateRow
  <2> QED BY <1>1, <2>1, <2>2 DEF Pc
<1>10. CASE \/ CheckTaken(h, "taken", "count") \/ CheckTaken(h, "conflict", "save")
            \/ CountToday(h) \/ SaveUser(h)
  BY <1>2, <1>3, <1>10 DEF CheckTaken, CountToday, SaveUser, Pc
<1>11. CASE SendSms(h) \/ SaveFail(h) \/ Mark(h) \/ CutShort(h)
  BY <1>2, <1>11 DEF SendSms, SaveFail, Mark, CutShort
<1> QED BY <1>7, <1>8, <1>9, <1>10, <1>11 DEF HandlerStep

(* The thread that takes the step keeps its own part.                      *)
LEMMA HandlerOwn ==
    ASSUME Base, NEW h \in Handlers, HandlerStep(h),
           Len(row') \in Len(row)..MaxRows, \A i \in 1..Len(row) : Ages(i)
    PROVE  HandlerInv(h)'
<1>0. /\ \/ at'[h] = "idle" /\ req'[h] = NoRequest
         \/ at'[h] # "idle" /\ req'[h] \in Request
      /\ UNCHANGED <<withdrawn, late>>
      /\ TypeOK /\ HandlerInv(h)
      /\ Len(row) \in Nat
  BY HandlerMoves, LenProperties DEF Base, TypeOK
<1>1. 1..Len(row) \subseteq 1..Len(row')
  BY <1>0
\* It stays on its row, ...
<1>2. ASSUME at[h] \in OnRow, req' = req, at'[h] # "fail",
             at'[h] \in {"conflict", "save"} => at[h] \in {"conflict", "save"}
      PROVE  HandlerInv(h)'
  BY <1>0, <1>1, <1>2 DEF HandlerInv, Ages
\* ... or takes one up.
<1>3. ASSUME NEW u \in Users, NEW p \in Phones, NEW i \in Rows, Answerable(i, u, p),
             Serve(h, "conflict", u, p, i, row[i].fails) \/ Serve(h, "fail", u, p, i, row[i].fails)
      PROVE  HandlerInv(h)'
  <2>1. /\ at'[h] \in {"conflict", "fail"}
        /\ req'[h] = [user |-> u, phone |-> p, row |-> i, fails |-> row[i].fails]
        /\ u \notin withdrawn
    BY <1>0, <1>3 DEF Serve, Goto, TypeOK
  <2>2. /\ i \in 1..Len(row) /\ row[i].user = u /\ row[i].phone = p
        /\ row[i].fails < MaxFails
    BY <1>3 DEF Answerable, IsNewest, Rows
  <2>3. row'[i].user = u /\ row'[i].phone = p /\ i \in 1..Len(row')
    BY <1>1, <2>2 DEF Ages
  <2> QED BY <1>0, <2>1, <2>2, <2>3 DEF HandlerInv
<1>4. CASE \E u \in Users, p \in Phones : AnswerRight(h, u, p) \/ AnswerWrong(h, u, p)
  BY <1>3, <1>4 DEF AnswerRight, AnswerWrong
<1>5. CASE CreateRow(h)
  <2>1. /\ at'[h] = "sms"
        /\ req'[h].row = Len(row) + 1 /\ req'[h].user = req[h].user
        /\ req'[h].phone = req[h].phone
    BY <1>0, <1>5 DEF CreateRow, Goto, TypeOK, HandlerInv, Request
  <2> DEFINE c == [user |-> req[h].user, phone |-> req[h].phone, day |-> "today",
                   age |-> "fresh", fails |-> 0, state |-> "open"]
  <2>2. /\ row' = Append(row, c)
        /\ c.user = req[h].user /\ c.phone = req[h].phone
    BY <1>5 DEF CreateRow
  <2> HIDE DEF c
  <2>3. c \in Code
    <3>1. at[h] # "idle" /\ MaxFails \in Nat
      BY <1>5, PhoneAssumption DEF CreateRow
    <3>2. req[h].user \in Users /\ req[h].phone \in Phones
      BY <3>1, BusyHandler
    <3> QED BY <3>1, <3>2 DEF c, Code
  <2>4. row \in Seq(Code)
    BY <1>0 DEF TypeOK
  <2>5. Len(row') = Len(row) + 1 /\ row'[Len(row) + 1] = c
    BY <2>2, <2>3, <2>4, AppendProperties
  <2>6. req'[h].row \in 1..Len(row')
    BY <1>0, <2>1, <2>5
  <2> QED BY <1>0, <2>1, <2>2, <2>5, <2>6 DEF HandlerInv
<1>6. CASE CheckTaken(h, "conflict", "save") \/ SaveUser(h)
  <2>1. \/ at'[h] = "idle"
        \/ at[h] \in {"conflict", "save"} /\ req' = req /\ at'[h] \in {"save", "mark"}
    BY <1>0, <1>6 DEF CheckTaken, SaveUser, End, Goto, TypeOK
  <2> QED BY <1>0, <1>2, <2>1 DEF OnRow, HandlerInv
<1>7. CASE \/ \E u \in Users, p \in Phones : SendCode(h, u, p)
           \/ CheckTaken(h, "taken", "count") \/ CountToday(h)
  <2>1. at'[h] \in {"idle", "taken", "count", "create"}
    BY <1>0, <1>7 DEF SendCode, Serve, CheckTaken, CountToday, End, Goto, TypeOK
  <2> QED BY <1>0, <2>1 DEF HandlerInv, OnRow
<1>8. CASE SendSms(h) \/ SaveFail(h) \/ Mark(h) \/ CutShort(h)
  <2>1. at'[h] = "idle"
    BY <1>0, <1>8 DEF SendSms, SaveFail, Mark, CutShort, End, Goto, TypeOK
  <2> QED BY <1>0, <2>1 DEF HandlerInv, OnRow
<1> QED BY <1>4, <1>5, <1>6, <1>7, <1>8 DEF HandlerStep

(* Every step keeps it.                                                    *)
LEMMA BaseStep == Base /\ [Next]_vars => Base'
<1> SUFFICES ASSUME Base, [Next]_vars PROVE Base'
  OBVIOUS
<1>1. CASE \E h \in Handlers : HandlerStep(h)
  <2>1. PICK h \in Handlers : HandlerStep(h)
    BY <1>1
  <2>2. Next
    BY <2>1 DEF HandlerStep, Next
  <2>3. /\ row' \in Seq(Code) /\ Len(row') \in Len(row)..MaxRows
        /\ \A i \in 1..Len(row) : Ages(i)
    BY <2>2, RowsStep
  <2>4. /\ at' \in [Handlers -> Pc]
        /\ req' \in [Handlers -> Request \cup {NoRequest}]
        /\ UNCHANGED <<withdrawn, late>>
        /\ \A g \in Handlers \ {h} : at'[g] = at[g] /\ req'[g] = req[g]
    BY <2>1, HandlerMoves
  <2>5. HandlerInv(h)'
    BY <2>1, <2>3, HandlerOwn
  <2>6. \A g \in Handlers \ {h} : HandlerInv(g)'
    BY <2>3, <2>4, HandlerFrame
  <2>7. phone' \in [Users -> Phones \cup {None}]
    BY <2>1, BusyHandler DEF Base, TypeOK, HandlerStep, SendCode, AnswerRight, AnswerWrong,
       CheckTaken, CountToday, CreateRow, SendSms, SaveFail, SaveUser, Mark, CutShort
  <2>8. wrong' \in [1..MaxRows -> 0..(MaxFails + 1)]
    <3>1. MaxFails \in Nat
      BY PhoneAssumption
    <3>2. \/ wrong' = wrong
          \/ \E i \in Rows : wrong' = [wrong EXCEPT ![i] = IF @ > MaxFails THEN @ ELSE @ + 1]
      BY <2>1 DEF HandlerStep, SendCode, AnswerRight, AnswerWrong, CheckTaken, CountToday,
         CreateRow, SendSms, SaveFail, SaveUser, Mark, CutShort, ghosts
    <3> QED BY <3>1, <3>2 DEF Base, TypeOK
  <2>9. overlapped' \subseteq 1..MaxRows /\ unmarked' \subseteq 1..MaxRows
    <3>1. Len(row) \in Nat /\ Len(row) <= MaxRows /\ MaxRows \in Nat
      BY PhoneAssumption, LenProperties DEF Base, TypeOK
    <3>2. 1..Len(row) \subseteq 1..MaxRows
      BY <3>1
    <3>3. Rows \subseteq 1..MaxRows
      BY <3>2 DEF Rows
    <3>4. at[h] \in {"fail", "mark"} => req[h].row \in 1..MaxRows
      BY <3>2 DEF Base, HandlerInv, OnRow
    <3> QED BY <2>1, <3>3, <3>4 DEF Base, TypeOK, HandlerStep, SendCode, AnswerRight,
           AnswerWrong, CheckTaken, CountToday, CreateRow, SendSms, SaveFail, SaveUser,
           Mark, CutShort, ghosts
  <2>10. Len(row') <= MaxRows
    BY <2>3
  <2>11. withdrawn' \subseteq Users /\ late' \subseteq Users
    BY <2>4 DEF Base, TypeOK
  <2> QED BY <2>3, <2>4, <2>5, <2>6, <2>7, <2>8, <2>9, <2>10, <2>11 DEF Base, TypeOK
<1>2. CASE OutsideStep
  <2>1. /\ row' \in Seq(Code) /\ Len(row') \in Len(row)..MaxRows
        /\ \A i \in 1..Len(row) : Ages(i)
    BY <1>2, RowsStep DEF OutsideStep, Next
  <2>2. UNCHANGED <<at, req, wrong, overlapped, unmarked>>
    BY <1>2 DEF OutsideStep, Withdraw, Expire, Midnight, ghosts
  <2>3. CASE UNCHANGED <<withdrawn, late, phone>>
    <3>1. \A g \in Handlers : HandlerInv(g)'
      BY <2>1, <2>2, <2>3, HandlerFrame
    <3> QED BY <2>1, <2>2, <2>3, <3>1 DEF Base, TypeOK
  <2>4. CASE \E u \in Users : Withdraw(u)
    <3>1. PICK u \in Users : Withdraw(u)
      BY <2>4
    <3>2. /\ withdrawn' = withdrawn \cup {u} /\ row' = row
          /\ phone' = [phone EXCEPT ![u] = None]
          /\ late' = IF \E h \in Handlers : req[h].user = u /\ at[h] \in {"conflict", "save"}
                     THEN late \cup {u} ELSE late
      BY <3>1 DEF Withdraw
    <3>3. \A g \in Handlers : HandlerInv(g)'
      BY <2>2, <3>2 DEF Base, HandlerInv
    <3> QED BY <2>1, <2>2, <3>2, <3>3 DEF Base, TypeOK
  <2> QED BY <1>2, <2>3, <2>4 DEF OutsideStep, Expire, Midnight, ghosts
<1>3. CASE UNCHANGED vars
  BY <1>3 DEF vars, Base, TypeOK, HandlerInv
<1> QED BY <1>1, <1>2, <1>3 DEF Next, HandlerStep, OutsideStep

(* It holds at first.                                                      *)
LEMMA BaseInit == Init => Base
BY PhoneAssumption, EmptySeq DEF Init, Base, TypeOK, HandlerInv, OnRow, Pc

(* It always holds.                                                        *)
THEOREM BaseInvariance == Spec => []Base
BY BaseInit, BaseStep, PTL DEF Spec

(* Every reachable state is well-typed: no code counts more failures than  *)
(* the limit, whatever is answered at the same time.                       *)
THEOREM TypeCorrect == Spec => []TypeOK
<1>1. Base => TypeOK
  BY DEF Base
<1> QED BY <1>1, BaseInvariance, PTL

-----------------------------------------------------------------------------
(* PhoneOwned is inductive as it stands, given Base.                       *)

\* Code i accounts for user u holding number p.
Backs(i, u, p) ==
    /\ row[i].user = u /\ row[i].phone = p
    /\ \/ row[i].state # "open"
       \/ i \in unmarked
       \/ \E h \in Handlers : at[h] = "mark" /\ req[h].row = i

(* A code goes on accounting for the number: the thread that is about to   *)
(* mark it either marks it or leaves it among the unmarked.                *)
LEMMA BacksStays ==
    ASSUME Base, Next, NEW i \in 1..Len(row), NEW u, NEW p, Backs(i, u, p)
    PROVE  Backs(i, u, p)'
<1>1. Ages(i)
  BY RowsStep
<1>2. unmarked \subseteq unmarked'
  BY DEF Next, SendCode, AnswerRight, AnswerWrong, CheckTaken, CountToday, CreateRow, SendSms,
         SaveFail, SaveUser, Mark, CutShort, Withdraw, Expire, Midnight, ghosts
<1>3. CASE row[i].state # "open" \/ i \in unmarked
  BY <1>1, <1>2, <1>3 DEF Backs, Ages
<1>4. CASE \E h \in Handlers : at[h] = "mark" /\ req[h].row = i
  <2>1. PICK h \in Handlers : at[h] = "mark" /\ req[h].row = i
    BY <1>4
  <2>2. CASE at'[h] = at[h] /\ req'[h] = req[h]
    BY <1>1, <2>1, <2>2 DEF Backs, Ages
  <2>3. CASE HandlerStep(h)
    <3>1. Mark(h) \/ CutShort(h)
      BY <2>1, <2>3 DEF HandlerStep, SendCode, AnswerRight, AnswerWrong, Serve, CheckTaken,
         CountToday, CreateRow, SendSms, SaveFail, SaveUser
    <3>2. CASE CutShort(h)
      BY <1>1, <2>1, <3>2 DEF CutShort, Backs, Ages
    <3>3. CASE Mark(h) /\ i \notin Rows
      BY <1>1, <2>1, <3>3 DEF Mark, Backs, Ages
    <3>4. CASE Mark(h) /\ i \in Rows
      <4>1. row[i] \in Code
        BY ElementOfSeq DEF Base, TypeOK
      <4>2. [row[i] EXCEPT !.state = "verified"] \in Code
        BY <4>1 DEF Code
      <4>3. row' = [row EXCEPT ![i] = [row[i] EXCEPT !.state = "verified"]]
        BY <2>1, <3>4 DEF Mark
      <4>4. row'[i] = [row[i] EXCEPT !.state = "verified"]
        BY <4>2, <4>3, RowWritten
      <4>5. row'[i].state = "verified"
        BY <4>1, <4>4 DEF Code
      <4> QED BY <1>1, <4>5 DEF Backs, Ages
    <3> QED BY <3>1, <3>2, <3>3, <3>4
  <2>4. CASE \E g \in Handlers \ {h} : HandlerStep(g)
    BY <2>2, <2>4, HandlerMoves
  <2>5. CASE OutsideStep
    BY <2>2, <2>5 DEF OutsideStep, Withdraw, Expire, Midnight
  <2> QED BY <2>3, <2>4, <2>5 DEF Next, HandlerStep, OutsideStep
<1> QED BY <1>3, <1>4 DEF Backs

(* How a number changes hands.                                             *)
LEMMA PhoneStep ==
    ASSUME Base, Next, phone' # phone
    PROVE  \/ \E h \in Handlers :
                /\ SaveUser(h) /\ at[h] = "save" /\ at'[h] = "mark"
                /\ req' = req
                /\ req[h].user \in Users /\ req[h].phone \in Phones
                /\ ~TakenElsewhere(req[h].user, req[h].phone)
                /\ phone' = [phone EXCEPT ![req[h].user] = req[h].phone]
                /\ UNCHANGED <<withdrawn, late, row, unmarked>>
           \/ \E u \in Users : Withdraw(u)
<1>1. (\E h \in Handlers : SaveUser(h)) \/ (\E u \in Users : Withdraw(u))
  BY DEF Next, SendCode, AnswerRight, AnswerWrong, CheckTaken, CountToday, CreateRow, SendSms,
         SaveFail, Mark, CutShort, Expire, Midnight
<1>2. ASSUME NEW h \in Handlers, SaveUser(h)
      PROVE  /\ SaveUser(h) /\ at[h] = "save" /\ at'[h] = "mark"
             /\ req' = req
             /\ req[h].user \in Users /\ req[h].phone \in Phones
             /\ ~TakenElsewhere(req[h].user, req[h].phone)
             /\ phone' = [phone EXCEPT ![req[h].user] = req[h].phone]
             /\ UNCHANGED <<withdrawn, late, row, unmarked>>
  <2>1. at[h] = "save"
    BY <1>2 DEF SaveUser
  <2>2. req[h].user \in Users /\ req[h].phone \in Phones
    BY <2>1, BusyHandler
  <2> QED BY <1>2, <2>1, <2>2 DEF SaveUser, Goto, Base, TypeOK, ghosts
<1> QED BY <1>1, <1>2

(* Saving the number is one statement under a unique constraint.           *)
LEMMA OwnedStep == Base /\ PhoneOwned /\ [Next]_vars => PhoneOwned'
<1> SUFFICES ASSUME Base, PhoneOwned, [Next]_vars PROVE PhoneOwned'
  OBVIOUS
<1> USE DEF PhoneOwned
<1>0. /\ phone \in [Users -> Phones \cup {None}]
      /\ \A u \in Users : phone[u] # None =>
             \E i \in 1..Len(row) : Backs(i, u, phone[u])
      /\ None \notin Phones
  BY PhoneAssumption DEF Base, TypeOK, Backs
<1>1. CASE UNCHANGED vars
  BY <1>1 DEF vars
<1>2. CASE Next
  \* The codes that account for the numbers that did not change go on.
  <2>1. ASSUME NEW u \in Users, phone[u] # None, phone'[u] = phone[u]
        PROVE  \E i \in 1..Len(row') :
                   /\ row'[i].user = u /\ row'[i].phone = phone'[u]
                   /\ \/ row'[i].state # "open"
                      \/ i \in unmarked'
                      \/ \E h \in Handlers : at'[h] = "mark" /\ req'[h].row = i
    <3>1. PICK i \in 1..Len(row) : Backs(i, u, phone[u])
      BY <1>0, <2>1
    <3>2. Len(row) \in Nat /\ Len(row') \in Len(row)..MaxRows
      BY <1>2, RowsStep, LenProperties DEF Base, TypeOK
    <3>3. i \in 1..Len(row')
      BY <3>2
    <3>4. PICK p : p = phone[u]
      OBVIOUS
    <3>5. Backs(i, u, p)'
      BY <1>2, <3>1, <3>4, BacksStays
    <3> QED BY <2>1, <3>3, <3>4, <3>5 DEF Backs
  <2>2. CASE UNCHANGED phone
    <3>1. withdrawn' \ late' \subseteq withdrawn \ late \/ \E u \in Users : Withdraw(u)
      BY <1>2, HistoriesGrow
    <3>2. \A u \in withdrawn' \ late' : phone'[u] = None
      BY <1>0, <2>2, <3>1 DEF Withdraw, Base, TypeOK
    <3> QED BY <2>1, <2>2, <3>2
  <2>3. CASE \E u \in Users : Withdraw(u)
    <3>1. PICK u \in Users : Withdraw(u)
      BY <2>3
    <3>2. /\ phone' = [phone EXCEPT ![u] = None]
          /\ withdrawn' = withdrawn \cup {u}
          /\ late \subseteq late'
      BY <3>1 DEF Withdraw
    <3>3. \A v \in Users : phone'[v] # None => phone'[v] = phone[v]
      BY <1>0, <3>2
    <3>4. \A v \in withdrawn' \ late' : phone'[v] = None
      BY <1>0, <3>2 DEF Base, TypeOK
    <3> QED BY <2>1, <3>3, <3>4
  <2>4. CASE ~UNCHANGED phone /\ ~\E u \in Users : Withdraw(u)
    <3>1. PICK h \in Handlers :
                /\ SaveUser(h) /\ at[h] = "save" /\ at'[h] = "mark"
                /\ req' = req
                /\ req[h].user \in Users /\ req[h].phone \in Phones
                /\ ~TakenElsewhere(req[h].user, req[h].phone)
                /\ phone' = [phone EXCEPT ![req[h].user] = req[h].phone]
                /\ UNCHANGED <<withdrawn, late, row, unmarked>>
      BY <1>2, <2>4, PhoneStep
    <3>2. /\ req[h].row \in 1..Len(row)
          /\ row[req[h].row].user = req[h].user
          /\ row[req[h].row].phone = req[h].phone
          /\ req[h].user \in withdrawn => req[h].user \in late
      BY <3>1 DEF Base, HandlerInv, OnRow
    <3>3. /\ phone'[req[h].user] = req[h].phone
          /\ \A v \in Users \ {req[h].user} : phone'[v] = phone[v]
      BY <1>0, <3>1
    <3>4. \A u, v \in Users : u # v /\ phone'[u] # None => phone'[u] # phone'[v]
      BY <1>0, <3>1, <3>3 DEF TakenElsewhere
    <3>5. ASSUME NEW u \in Users, phone'[u] # None
          PROVE  \E i \in 1..Len(row') :
                   /\ row'[i].user = u /\ row'[i].phone = phone'[u]
                   /\ \/ row'[i].state # "open"
                      \/ i \in unmarked'
                      \/ \E g \in Handlers : at'[g] = "mark" /\ req'[g].row = i
      <4>1. CASE u = req[h].user
        BY <3>1, <3>2, <3>3, <4>1
      <4>2. CASE u # req[h].user
        BY <2>1, <3>3, <3>5, <4>2
      <4> QED BY <4>1, <4>2
    <3>6. \A u \in withdrawn' \ late' : phone'[u] = None
      BY <3>1, <3>2, <3>3 DEF Base, TypeOK
    <3> QED BY <3>4, <3>5, <3>6
  <2> QED BY <2>2, <2>3, <2>4
<1> QED BY <1>1, <1>2

(* PhoneOwned: a number never belongs to two accounts, whatever            *)
(* verifications overlap; the account that holds it was sent a code for    *)
(* it; and a withdrawn account holds one only if its verification was at   *)
(* work when it withdrew.                                                  *)
THEOREM PhonesOwned == Spec => []PhoneOwned
<1>1. Init => PhoneOwned
  BY DEF Init, PhoneOwned
<1> QED BY <1>1, OwnedStep, BaseInvariance, PTL DEF Spec

-----------------------------------------------------------------------------
(* FailsCounted is not inductive: that two answers of one code did not     *)
(* overlap must also say that the one at work loaded the count as it is.   *)

Failing(h, i) == at[h] = "fail" /\ req[h].row = i

FailInv(i) ==
    i \in Rows \ overlapped =>
        /\ \A g, h \in Handlers : Failing(g, i) /\ Failing(h, i) => g = h
        /\ \A h \in Handlers : Failing(h, i) => req[h].fails = row[i].fails
        /\ wrong[i] = IF \E h \in Handlers : Failing(h, i)
                      THEN row[i].fails + 1 ELSE row[i].fails

CountInv == /\ \A i \in 1..Len(row) : FailInv(i)
            /\ \A i \in 1..MaxRows : i > Len(row) => wrong[i] = 0

(* A code that nobody answers wrongly, and whose wrong answer nobody       *)
(* counts, keeps its invariant.                                            *)
LEMMA FailFrame ==
    ASSUME NEW i \in 1..Len(row), FailInv(i), Ages(i), FailsKept(i),
           i \in 1..Len(row'),
           overlapped \subseteq overlapped', wrong'[i] = wrong[i],
           i \notin overlapped' =>
               \A h \in Handlers : /\ Failing(h, i)' <=> Failing(h, i)
                                   /\ Failing(h, i) => req'[h].fails = req[h].fails
    PROVE  FailInv(i)'
BY DEF FailInv, Ages, FailsKept, Rows

(* Whatever is at work on one code: the three steps that concern its       *)
(* count, and all others.                                                  *)
LEMMA FailStep ==
    ASSUME Base, Next, NEW i \in 1..Len(row), FailInv(i)
    PROVE  FailInv(i)'
<1>0. /\ Ages(i)
      /\ FailsKept(i) \/ \E h \in Handlers : SaveFail(h) /\ req[h].row = i
      /\ i \in 1..Len(row')
      /\ row[i] \in Code
      /\ at \in [Handlers -> Pc]
      /\ MaxFails \in Nat
      /\ i \in 1..MaxRows
      /\ wrong \in [1..MaxRows -> 0..(MaxFails + 1)]
  <2>1. Len(row) \in Nat /\ Len(row') \in Len(row)..MaxRows
    BY RowsStep, LenProperties DEF Base, TypeOK
  <2>2. i \in 1..Len(row') /\ i \in 1..MaxRows
    BY <2>1, PhoneAssumption
  <2> QED BY <2>2, RowsStep, ElementOfSeq, PhoneAssumption DEF Base, TypeOK
<1>1. overlapped \subseteq overlapped'
  BY HistoriesGrow
<1>2. CASE i \in overlapped' \/ i \notin Rows'
  BY <1>2 DEF FailInv
<1> SUFFICES ASSUME i \notin overlapped', i \in Rows'
             PROVE  FailInv(i)'
  BY <1>2
<1>3. /\ i \in Rows /\ i \notin overlapped
      /\ \A g, h \in Handlers : Failing(g, i) /\ Failing(h, i) => g = h
      /\ \A h \in Handlers : Failing(h, i) => req[h].fails = row[i].fails
      /\ wrong[i] = IF \E h \in Handlers : Failing(h, i)
                    THEN row[i].fails + 1 ELSE row[i].fails
      /\ row[i].fails \in Nat
  BY <1>0, <1>1 DEF FailInv, Rows, Ages, Code
<1>4. ASSUME NEW h \in Handlers, HandlerStep(h)
      PROVE  FailInv(i)'
  <2>0. \A g \in Handlers \ {h} : at'[g] = at[g] /\ req'[g] = req[g]
    BY <1>4, HandlerMoves
  <2>1. CASE \E u \in Users, p \in Phones : AnswerWrong(h, u, p)
    <3>1. PICK u \in Users, p \in Phones : AnswerWrong(h, u, p)
      BY <2>1
    <3>2. PICK k \in Rows :
            /\ Answerable(k, u, p)
            /\ Serve(h, "fail", u, p, k, row[k].fails)
            /\ wrong' = [wrong EXCEPT ![k] = IF @ > MaxFails THEN @ ELSE @ + 1]
            /\ overlapped' = IF \E g \in Handlers : at[g] = "fail" /\ req[g].row = k
                             THEN overlapped \cup {k} ELSE overlapped
            /\ UNCHANGED row
      BY <3>1 DEF AnswerWrong
    <3>3. /\ at[h] = "idle" /\ at'[h] = "fail"
          /\ req'[h] = [user |-> u, phone |-> p, row |-> k, fails |-> row[k].fails]
      BY <1>0, <3>2 DEF Serve, Goto, Base, TypeOK
    <3>4. FailsKept(i)
      BY <3>2 DEF FailsKept
    <3>5. CASE k = i
      <4>1. \A g \in Handlers : ~Failing(g, i)
        BY <1>3, <3>2, <3>5 DEF Failing
      <4>2. row[i].fails < MaxFails
        BY <3>2, <3>5 DEF Answerable
      <4>3. wrong[i] = row[i].fails
        BY <1>3, <4>1
      <4>4. wrong'[i] = row[i].fails + 1
        BY <1>0, <1>3, <3>2, <3>5, <4>2, <4>3
      <4>5. \A g \in Handlers : Failing(g, i)' <=> g = h
        BY <2>0, <3>3, <3>5, <4>1 DEF Failing
      <4>6. req'[h].fails = row[i].fails /\ row'[i] = row[i]
        BY <3>2, <3>3, <3>5
      <4> QED BY <4>4, <4>5, <4>6 DEF FailInv
    <3>6. CASE k # i
      <4>1. wrong'[i] = wrong[i]
        BY <1>0, <3>2, <3>6
      <4>2. \A g \in Handlers : /\ Failing(g, i)' <=> Failing(g, i)
                                /\ Failing(g, i) => req'[g].fails = req[g].fails
        BY <2>0, <3>3, <3>6 DEF Failing
      <4> QED BY <1>0, <1>1, <3>4, <4>1, <4>2, FailFrame
    <3> QED BY <3>5, <3>6
  <2>2. CASE SaveFail(h) /\ req[h].row = i
    <3>1. /\ Failing(h, i) /\ at'[h] = "idle" /\ UNCHANGED wrong
      BY <1>0, <2>2 DEF SaveFail, Failing, End, Goto, ghosts
    <3>2. req[h].fails + 1 \in 0..MaxFails
      BY <1>0, <3>1, BusyHandler DEF Base, HandlerInv, Failing
    <3>3. [row[i] EXCEPT !.fails = req[h].fails + 1] \in Code
      BY <1>0, <3>2 DEF Code
    <3>4. row' = [row EXCEPT ![i] = [row[i] EXCEPT !.fails = req[h].fails + 1]]
      BY <1>3, <2>2 DEF SaveFail
    <3>5. row'[i] = [row[i] EXCEPT !.fails = req[h].fails + 1]
      BY <3>3, <3>4, RowWritten
    <3>6. row'[i].fails = row[i].fails + 1
      BY <1>0, <1>3, <3>1, <3>5 DEF Code
    <3>7. \A g \in Handlers : ~Failing(g, i)'
      BY <1>3, <2>0, <3>1 DEF Failing
    <3>8. wrong'[i] = row[i].fails + 1
      BY <1>3, <3>1
    <3> QED BY <3>6, <3>7, <3>8 DEF FailInv
  <2>3. CASE CutShort(h) /\ Failing(h, i)
    BY <2>3 DEF CutShort, Failing
  <2>4. CASE /\ ~\E u \in Users, p \in Phones : AnswerWrong(h, u, p)
             /\ ~(SaveFail(h) /\ req[h].row = i)
             /\ ~(CutShort(h) /\ Failing(h, i))
    <3>1. UNCHANGED wrong /\ at'[h] # "fail"
      BY <1>0, <1>4, <2>4 DEF HandlerStep, SendCode, AnswerRight, CheckTaken, CountToday,
         CreateRow, SendSms, SaveFail, SaveUser, Mark, CutShort, ghosts, Serve, End, Goto
    <3>2. ~Failing(h, i)
      BY <1>4, <2>4 DEF HandlerStep, SendCode, AnswerRight, CheckTaken, CountToday, CreateRow,
         SendSms, SaveFail, SaveUser, Mark, Failing, Serve
    <3>3. \A g \in Handlers : /\ Failing(g, i)' <=> Failing(g, i)
                              /\ Failing(g, i) => req'[g].fails = req[g].fails
      BY <2>0, <3>1, <3>2 DEF Failing
    <3>4. FailsKept(i)
      <4>1. ASSUME NEW g \in Handlers, SaveFail(g), req[g].row = i
            PROVE  FALSE
        <5>1. g # h
          BY <2>4, <4>1
        <5>2. at[g] = "fail" /\ at'[g] = "idle"
          BY <1>0, <4>1 DEF SaveFail, End, Goto
        <5> QED BY <2>0, <5>1, <5>2
      <4> QED BY <1>0, <4>1
    <3> QED BY <1>0, <1>1, <3>1, <3>3, <3>4, FailFrame
  <2> QED BY <2>1, <2>2, <2>3, <2>4
<1>5. CASE OutsideStep
  <2>1. UNCHANGED <<at, req, wrong>>
    BY <1>5 DEF OutsideStep, Withdraw, Expire, Midnight, ghosts
  <2>2. FailsKept(i)
    <3>1. \A h \in Handlers : ~SaveFail(h)
      BY <1>0, <2>1 DEF SaveFail, End, Goto
    <3> QED BY <1>0, <3>1
  <2> QED BY <1>0, <1>1, <2>1, <2>2, FailFrame DEF Failing
<1> QED BY <1>4, <1>5 DEF Next, HandlerStep, OutsideStep

(* Each counting thread writes what it has read, and one.                  *)
LEMMA CountStep == Base /\ CountInv /\ [Next]_vars => CountInv'
<1> SUFFICES ASSUME Base, CountInv, [Next]_vars PROVE CountInv'
  OBVIOUS
<1>1. CASE Next
  <2>0. /\ row \in Seq(Code) /\ Len(row) \in Nat /\ Len(row') \in Len(row)..MaxRows
        /\ wrong \in [1..MaxRows -> 0..(MaxFails + 1)]
        /\ MaxRows \in Nat
    BY <1>1, RowsStep, LenProperties, PhoneAssumption DEF Base, TypeOK
  <2>1. \A i \in 1..Len(row) : FailInv(i)'
    BY <1>1, FailStep DEF CountInv
  <2>2. \A i \in 1..MaxRows : i > Len(row) => wrong'[i] = 0
    <3>1. \/ wrong' = wrong
          \/ \E k \in Rows : wrong' = [wrong EXCEPT ![k] = IF @ > MaxFails THEN @ ELSE @ + 1]
      BY <1>1, HistoriesGrow
    <3>2. \A i \in 1..MaxRows : i > Len(row) => i \notin Rows
      BY <2>0 DEF Rows
    <3> QED BY <2>0, <3>1, <3>2 DEF CountInv
  <2>3. ASSUME NEW i \in 1..Len(row'), i \notin 1..Len(row)
        PROVE  FailInv(i)'
    <3>1. PICK h \in Handlers : CreateRow(h)
      BY <1>1, <2>3, RowsStep
    <3> DEFINE c == [user |-> req[h].user, phone |-> req[h].phone, day |-> "today",
                     age |-> "fresh", fails |-> 0, state |-> "open"]
    <3>2. row' = Append(row, c) /\ c.fails = 0
      BY <3>1 DEF CreateRow
    <3>3. c \in Code
      <4>1. at[h] # "idle" /\ MaxFails \in Nat
        BY <3>1, PhoneAssumption DEF CreateRow
      <4>2. req[h].user \in Users /\ req[h].phone \in Phones
        BY <4>1, BusyHandler
      <4> QED BY <4>1, <4>2 DEF Code
    <3> HIDE DEF c
    <3>4. Len(row') = Len(row) + 1 /\ row'[Len(row) + 1] = c
      BY <2>0, <3>2, <3>3, AppendProperties
    <3>5. i = Len(row) + 1 /\ i \in 1..MaxRows
      BY <2>0, <2>3, <3>4
    <3>6. row'[i].fails = 0 /\ wrong'[i] = 0
      BY <2>0, <2>2, <3>2, <3>4, <3>5
    <3>7. \A g \in Handlers : ~Failing(g, i)'
      <4>1. \A g \in Handlers : at[g] = "fail" => req[g].row # i
        BY <2>3 DEF Base, HandlerInv, OnRow
      <4>2. \A g \in Handlers \ {h} : at'[g] = at[g] /\ req'[g] = req[g]
        BY <3>1, HandlerMoves DEF HandlerStep
      <4>3. at'[h] = "sms"
        BY <3>1 DEF CreateRow, Goto, Base, TypeOK
      <4> QED BY <4>1, <4>2, <4>3 DEF Failing
    <3> QED BY <3>6, <3>7 DEF FailInv
  <2>4. \A i \in 1..MaxRows : i > Len(row') => wrong'[i] = 0
    BY <2>0, <2>2
  <2> QED BY <2>1, <2>3, <2>4 DEF CountInv
<1>2. CASE UNCHANGED vars
  BY <1>2 DEF vars, CountInv, FailInv, Failing, Rows
<1> QED BY <1>1, <1>2

(* FailsCounted: the stored count of a code is the number of wrong answers *)
(* it was given, unless two of them overlapped or one was never counted.   *)
THEOREM FailuresCounted == Spec => []FailsCounted
<1>1. Init => CountInv
  BY EmptySeq DEF Init, CountInv, Code
<1>2. Base /\ CountInv => FailsCounted
  <2> SUFFICES ASSUME Base, CountInv, NEW i \in Rows \ overlapped
               PROVE  row[i].fails + Cardinality({h \in Handlers : Failing(h, i)}) = wrong[i]
    BY DEF FailsCounted, Failing
  <2> DEFINE S == {h \in Handlers : Failing(h, i)}
  <2>1. /\ i \in 1..Len(row)
        /\ \A g, h \in Handlers : Failing(g, i) /\ Failing(h, i) => g = h
        /\ wrong[i] = IF \E h \in Handlers : Failing(h, i)
                      THEN row[i].fails + 1 ELSE row[i].fails
    BY DEF CountInv, FailInv, Rows
  <2>2. row[i].fails \in Nat
    <3>1. row[i] \in Code
      BY <2>1, ElementOfSeq DEF Base, TypeOK
    <3> QED BY <3>1 DEF Code
  <2>3. CASE \E h \in Handlers : Failing(h, i)
    <3>1. PICK h \in Handlers : Failing(h, i)
      BY <2>3
    <3>2. S = {h}
      BY <2>1, <3>1
    <3>3. Cardinality(S) = 1
      BY <3>2, FS_Singleton
    <3> QED BY <2>1, <2>2, <2>3, <3>3
  <2>4. CASE ~\E h \in Handlers : Failing(h, i)
    <3>1. S = {}
      BY <2>4
    <3>2. Cardinality(S) = 0
      BY <3>1, FS_EmptySet
    <3> QED BY <2>1, <2>2, <2>4, <3>2
  <2> QED BY <2>3, <2>4
<1> QED BY <1>1, <1>2, BaseInvariance, CountStep, PTL DEF Spec

-----------------------------------------------------------------------------
(* SendBound is not inductive: a thread that has counted will add a code   *)
(* whatever others add before it, so those threads count as codes.         *)

Creating(p) == {h \in Handlers : at[h] = "create" /\ req[h].phone = p}

SendInv(p) ==
    Cardinality(RowsToday(p)) + Cardinality(Creating(p))
        <= DailyLimit + Cardinality(Handlers) - 1

(* The sets counted are finite.                                            *)
LEMMA Countable ==
    ASSUME Base, NEW p
    PROVE  /\ IsFiniteSet(RowsToday(p)) /\ Cardinality(RowsToday(p)) \in Nat
           /\ IsFiniteSet(Creating(p)) /\ Cardinality(Creating(p)) \in Nat
           /\ Cardinality(Creating(p)) <= Cardinality(Handlers)
           /\ Cardinality(Handlers) \in Nat
           /\ RowsToday(p) \subseteq 1..Len(row)
<1>1. Len(row) \in Nat
  BY LenProperties DEF Base, TypeOK
<1>2. IsFiniteSet(1..Len(row))
  BY <1>1, FS_Interval
<1>3. RowsToday(p) \in SUBSET (1..Len(row))
  BY DEF RowsToday, Rows
<1>4. IsFiniteSet(RowsToday(p)) /\ Cardinality(RowsToday(p)) \in Nat
  BY <1>2, <1>3, FS_Subset, FS_CardinalityType
<1>5. Creating(p) \in SUBSET Handlers /\ IsFiniteSet(Handlers)
  BY PhoneAssumption DEF Creating
<1>6. /\ IsFiniteSet(Creating(p)) /\ Cardinality(Creating(p)) \in Nat
      /\ Cardinality(Creating(p)) <= Cardinality(Handlers)
      /\ Cardinality(Handlers) \in Nat
  BY <1>5, FS_Subset, FS_CardinalityType
<1> QED BY <1>3, <1>4, <1>6

(* Steps that add neither a code nor a thread about to create one.         *)
LEMMA SendFrame ==
    ASSUME Base, NEW p, SendInv(p),
           RowsToday(p)' \subseteq RowsToday(p),
           Creating(p)' \subseteq Creating(p)
    PROVE  SendInv(p)'
<1>1. /\ Cardinality(RowsToday(p)') \in Nat
      /\ Cardinality(RowsToday(p)') <= Cardinality(RowsToday(p))
  BY Countable, FS_Subset, FS_CardinalityType
<1>2. /\ Cardinality(Creating(p)') \in Nat
      /\ Cardinality(Creating(p)') <= Cardinality(Creating(p))
  BY Countable, FS_Subset, FS_CardinalityType
<1>3. /\ Cardinality(RowsToday(p)) \in Nat /\ Cardinality(Creating(p)) \in Nat
      /\ Cardinality(Handlers) \in Nat /\ DailyLimit \in Nat
  BY Countable, PhoneAssumption
<1> QED BY <1>1, <1>2, <1>3 DEF SendInv

(* Each code is recorded by a thread that was counted.                     *)
LEMMA SendStep ==
    ASSUME Base, NEW p \in Phones, SendInv(p), Next
    PROVE  SendInv(p)'
<1>0. /\ row \in Seq(Code) /\ Len(row) \in Nat
      /\ Len(row') = Len(row) \/ \E h \in Handlers : CreateRow(h)
      /\ \A i \in 1..Len(row) : Ages(i)
      /\ at \in [Handlers -> Pc]
      /\ DailyLimit \in Nat \ {0}
  BY RowsStep, LenProperties, PhoneAssumption DEF Base, TypeOK
\* A code of today was one already, unless it has just been added.
<1>1. \A i \in 1..Len(row) : i \in RowsToday(p)' => i \in RowsToday(p)
  BY <1>0 DEF RowsToday, Rows, Ages
<1>2. ASSUME NEW h \in Handlers, CountToday(h), at'[h] = "create", req[h].phone = p
      PROVE  SendInv(p)'
  <2>1. /\ Cardinality(RowsToday(p)) < DailyLimit
        /\ UNCHANGED row
    <3>1. ~(Cardinality(RowsToday(p)) >= DailyLimit) /\ UNCHANGED row
      <4>1. CASE Cardinality(RowsToday(p)) >= DailyLimit
        BY <1>0, <1>2, <4>1 DEF CountToday, End, Goto
      <4>2. UNCHANGED row
        BY <1>2 DEF CountToday
      <4> QED BY <4>1, <4>2
    <3> QED BY <1>0, <3>1, Countable
  <2>2. RowsToday(p)' = RowsToday(p)
    BY <2>1 DEF RowsToday, Rows
  <2>3. Creating(p)' \in SUBSET Handlers /\ IsFiniteSet(Handlers)
    BY PhoneAssumption DEF Creating
  <2>4. /\ Cardinality(Creating(p)') \in Nat
        /\ Cardinality(Creating(p)') <= Cardinality(Handlers)
        /\ Cardinality(Handlers) \in Nat
    BY <2>3, FS_Subset, FS_CardinalityType
  <2>5. Cardinality(RowsToday(p)) \in Nat
    BY Countable
  <2> QED BY <1>0, <2>1, <2>2, <2>4, <2>5 DEF SendInv
<1>3. ASSUME NEW h \in Handlers, CreateRow(h)
      PROVE  SendInv(p)'
  <2> DEFINE c == [user |-> req[h].user, phone |-> req[h].phone, day |-> "today",
                   age |-> "fresh", fails |-> 0, state |-> "open"]
  <2>1. /\ row' = Append(row, c) /\ at[h] = "create"
        /\ c.phone = req[h].phone /\ c.day = "today" /\ c.state = "open"
    BY <1>3 DEF CreateRow
  <2>2. c \in Code
    <3>1. MaxFails \in Nat
      BY PhoneAssumption
    <3>2. req[h].user \in Users /\ req[h].phone \in Phones
      BY <2>1, BusyHandler
    <3> QED BY <3>1, <3>2 DEF Code
  <2> HIDE DEF c
  <2>3. /\ Len(row') = Len(row) + 1 /\ row'[Len(row) + 1] = c
        /\ \A i \in 1..Len(row) : row'[i] = row[i]
    BY <1>0, <2>1, <2>2, AppendProperties
  <2>4. \A g \in Handlers \ {h} : at'[g] = at[g] /\ req'[g] = req[g]
    BY <1>3, HandlerMoves DEF HandlerStep
  <2>5. at'[h] = "sms"
    BY <1>0, <1>3 DEF CreateRow, Goto
  <2>6. Creating(p)' = Creating(p) \ {h}
    BY <2>4, <2>5 DEF Creating
  <2>7. 1..Len(row') = (1..Len(row)) \cup {Len(row) + 1}
    BY <1>0, <2>3
  <2>8. /\ RowsToday(p) \subseteq 1..Len(row) /\ RowsToday(p)' \subseteq 1..Len(row')
        /\ \A i \in 1..Len(row) : i \in RowsToday(p)' <=> i \in RowsToday(p)
    <3>1. \A i \in 1..Len(row) : i \in 1..Len(row')
      BY <2>7
    <3> QED BY <2>3, <3>1 DEF RowsToday, Rows
  <2>9. /\ IsFiniteSet(RowsToday(p)) /\ IsFiniteSet(Creating(p))
        /\ Cardinality(RowsToday(p)) \in Nat /\ Cardinality(Creating(p)) \in Nat
        /\ Cardinality(Handlers) \in Nat
    BY Countable
  <2>10. CASE req[h].phone = p
    <3>1. Len(row) + 1 \in RowsToday(p)'
      <4>1. Len(row) + 1 \in 1..Len(row')
        BY <2>7
      <4> QED BY <2>1, <2>3, <2>10, <4>1 DEF RowsToday, Rows
    <3>2. RowsToday(p)' = RowsToday(p) \cup {Len(row) + 1}
      BY <2>7, <2>8, <3>1
    <3>3. /\ Cardinality(RowsToday(p)') <= Cardinality(RowsToday(p)) + 1
          /\ Cardinality(RowsToday(p)') \in Nat
      <4>1. Len(row) + 1 \notin RowsToday(p)
        BY <1>0, <2>8
      <4>2. Cardinality(RowsToday(p)') = Cardinality(RowsToday(p)) + 1
        BY <2>9, <3>2, <4>1, FS_AddElement
      <4> QED BY <2>9, <4>2
    <3>4. h \in Creating(p)
      BY <2>1, <2>10 DEF Creating
    <3>5. Cardinality(Creating(p)') = Cardinality(Creating(p)) - 1
      BY <2>6, <2>9, <3>4, FS_RemoveElement
    <3> QED BY <1>0, <2>9, <3>3, <3>5 DEF SendInv
  <2>11. CASE req[h].phone # p
    <3>1. Len(row) + 1 \notin RowsToday(p)'
      <4>1. row'[Len(row) + 1].phone # p
        BY <2>1, <2>3, <2>11
      <4> QED BY <4>1 DEF RowsToday
    <3>2. RowsToday(p)' \subseteq RowsToday(p)
      BY <2>7, <2>8, <3>1
    <3> QED BY <2>6, <3>2, SendFrame
  <2> QED BY <2>10, <2>11
<1>4. ASSUME ~\E h \in Handlers : CreateRow(h),
             ~\E h \in Handlers : CountToday(h) /\ at'[h] = "create" /\ req[h].phone = p
      PROVE  SendInv(p)'
  <2>1. RowsToday(p)' \subseteq RowsToday(p)
    <3>1. RowsToday(p)' \subseteq 1..Len(row)
      BY <1>0, <1>4 DEF RowsToday, Rows
    <3> QED BY <1>1, <3>1
  <2>2. ASSUME NEW h \in Handlers, HandlerStep(h)
        PROVE  Creating(p)' \subseteq Creating(p)
    <3>1. \A g \in Handlers \ {h} : at'[g] = at[g] /\ req'[g] = req[g]
      BY <2>2, HandlerMoves
    <3>2. ~(at'[h] = "create" /\ req'[h].phone = p)
      BY <1>0, <1>4, <2>2 DEF HandlerStep, SendCode, AnswerRight, AnswerWrong, CheckTaken,
         CountToday, SendSms, SaveFail, SaveUser, Mark, CutShort, Serve, End, Goto
    <3> QED BY <3>1, <3>2 DEF Creating
  <2>3. CASE OutsideStep
    <3>1. UNCHANGED <<at, req>>
      BY <2>3 DEF OutsideStep, Withdraw, Expire, Midnight
    <3> QED BY <2>1, <3>1, SendFrame DEF Creating
  <2> QED BY <2>1, <2>2, <2>3, SendFrame DEF Next, HandlerStep, OutsideStep
<1> QED BY <1>2, <1>3, <1>4

(* SendBound: however many requests count at the same time, a number has   *)
(* at most one code over its daily limit on record for each thread but one.*)
THEOREM SendsBounded == Spec => []SendBound
<1> DEFINE Inv == \A p \in Phones : SendInv(p)
<1>1. Init => Inv
  <2> SUFFICES ASSUME Init, NEW p \in Phones PROVE SendInv(p)
    OBVIOUS
  <2>1. RowsToday(p) = {} /\ Creating(p) = {}
    BY EmptySeq DEF Init, RowsToday, Rows, Creating, Code
  <2>2. Cardinality(RowsToday(p)) = 0 /\ Cardinality(Creating(p)) = 0
    BY <2>1, FS_EmptySet
  <2>3. Cardinality(Handlers) \in Nat /\ DailyLimit \in Nat \ {0}
    BY PhoneAssumption, FS_CardinalityType
  <2> QED BY <2>2, <2>3 DEF SendInv
<1>2. Base /\ Inv /\ [Next]_vars => Inv'
  <2> SUFFICES ASSUME Base, Inv, [Next]_vars, NEW p \in Phones PROVE SendInv(p)'
    OBVIOUS
  <2>1. CASE Next
    BY <2>1, SendStep
  <2>2. CASE UNCHANGED vars
    BY <2>2 DEF vars, SendInv, RowsToday, Rows, Creating
  <2> QED BY <2>1, <2>2
<1>3. Base /\ Inv => SendBound
  <2> SUFFICES ASSUME Base, Inv, NEW p \in Phones
               PROVE  Cardinality(RowsToday(p)) <= DailyLimit + Cardinality(Handlers) - 1
    BY DEF SendBound
  <2>1. SendInv(p)
    OBVIOUS
  <2>2. /\ Cardinality(RowsToday(p)) \in Nat /\ Cardinality(Creating(p)) \in Nat
        /\ Cardinality(Handlers) \in Nat /\ DailyLimit \in Nat
    BY Countable, PhoneAssumption
  <2> QED BY <2>1, <2>2 DEF SendInv
<1> QED BY <1>1, <1>2, <1>3, BaseInvariance, PTL DEF Spec

-----------------------------------------------------------------------------
(* Part two: challenges and wallets.  An invariant says where each request *)
(* stands with its challenge; the assumption on the constants of           *)
(* WalletLinks is a part of it.                                            *)

(* A request that has found a challenge works on one of its own user and   *)
(* its own address.                                                        *)
ChallengeInv(h) ==
    /\ place[h] = "idle" => request[h] = Wallet!NoRequest
    /\ place[h] # "idle" => request[h] \in Wallet!Request
    /\ place[h] = "issue" => request[h].challenge = 0
    /\ place[h] \in {"conflict", "link", "mark"} =>
         /\ request[h].challenge \in Wallet!Issued
         /\ challenge[request[h].challenge].user = request[h].user
         /\ challenge[request[h].challenge].address = request[h].address

(* A challenge nobody shared has one request at most, and after its link   *)
(* it is used or that request is about to mark it.                         *)
SpentInv(c) ==
    c \notin shared =>
        /\ spent[c] <= 1
        /\ \A g, h \in Handlers : request[g].challenge = c /\ request[h].challenge = c => g = h
        /\ \A h \in Handlers : request[h].challenge = c /\ place[h] # "mark" => spent[c] = 0
        /\ spent[c] = 1 => \/ challenge[c].used = "yes"
                           \/ \E h \in Handlers : request[h].challenge = c

WalletInv == /\ Wallet!TypeOK /\ Len(challenge) <= MaxChallenges
             /\ \A h \in Handlers : ChallengeInv(h)
             /\ \A c \in 1..MaxChallenges : c > Len(challenge) => spent[c] = 0
             /\ \A c \in Wallet!Issued : SpentInv(c)
             /\ Wallet!LinkOwned

\* A challenge that is there keeps its user and its address and stays used.
Kept(c) ==
    /\ challenge'[c].user = challenge[c].user
    /\ challenge'[c].address = challenge[c].address
    /\ challenge[c].used = "yes" => challenge'[c].used = "yes"

(* What every step does to the challenges: a new one comes last.           *)
LEMMA ChallengesStep ==
    ASSUME WalletInv, Wallet!Next
    PROVE  /\ challenge' \in Seq(Wallet!Challenge) /\ Len(challenge') <= MaxChallenges
           /\ Len(challenge) \in Nat /\ Len(challenge') \in Nat
           /\ Len(challenge') = Len(challenge) \/ Len(challenge') = Len(challenge) + 1
           /\ \A c \in Wallet!Issued : Kept(c)
<1> DEFINE Goal == /\ challenge' \in Seq(Wallet!Challenge) /\ Len(challenge') <= MaxChallenges
                   /\ Len(challenge) \in Nat /\ Len(challenge') \in Nat
                   /\ Len(challenge') = Len(challenge) \/ Len(challenge') = Len(challenge) + 1
                   /\ \A c \in Wallet!Issued : Kept(c)
<1> SUFFICES Goal
  OBVIOUS
<1>0. /\ challenge \in Seq(Wallet!Challenge)
      /\ Len(challenge) \in Nat /\ Len(challenge) <= MaxChallenges
      /\ challenge \in [1..Len(challenge) -> Wallet!Challenge]
      /\ \A c \in Wallet!Issued : challenge[c] \in Wallet!Challenge
      /\ MaxChallenges \in Nat
  BY WalletAssumption, LenProperties DEF WalletInv, Wallet!TypeOK, Wallet!Issued
\* Each challenge is written over by one with its user and its address.
<1>1. ASSUME challenge' \in [1..Len(challenge) -> Wallet!Challenge],
             \A c \in Wallet!Issued : Kept(c)
      PROVE  Goal
  <2>1. challenge' \in Seq(Wallet!Challenge)
    BY <1>0, <1>1, SeqDef
  <2>2. Len(challenge') = Len(challenge)
    <3>1. DOMAIN challenge' = 1..Len(challenge')
      BY <2>1, LenProperties
    <3> QED BY <1>0, <1>1, <2>1, <3>1, LenProperties
  <2> QED BY <1>0, <1>1, <2>1, <2>2
<1>2. CASE challenge' = challenge
  BY <1>0, <1>2 DEF Kept
<1>3. ASSUME NEW h \in Handlers, NEW u \in Users, NEW a \in Addresses, Wallet!Ask(h, u, a)
      PROVE  Goal
  <2>1. challenge' = [c \in Wallet!Issued |->
            IF challenge[c].user = u /\ Wallet!Open(c) THEN Wallet!Used(c) ELSE challenge[c]]
    BY <1>3 DEF Wallet!Ask
  <2>2. \A c \in Wallet!Issued : /\ Wallet!Used(c) \in Wallet!Challenge
                                 /\ Wallet!Used(c).user = challenge[c].user
                                 /\ Wallet!Used(c).address = challenge[c].address
                                 /\ Wallet!Used(c).used = "yes"
    BY <1>0 DEF Wallet!Used, Wallet!Challenge
  <2>3. challenge' \in [1..Len(challenge) -> Wallet!Challenge]
    BY <1>0, <2>1, <2>2 DEF Wallet!Issued
  <2>4. \A c \in Wallet!Issued : challenge'[c] = challenge[c] \/ challenge'[c] = Wallet!Used(c)
    BY <2>1
  <2>5. \A c \in Wallet!Issued : Kept(c)
    BY <2>2, <2>4 DEF Kept
  <2> QED BY <1>1, <2>3, <2>5
<1>4. ASSUME NEW h \in Handlers, Wallet!Issue(h)
      PROVE  Goal
  <2> DEFINE new == [user |-> request[h].user, address |-> request[h].address,
                     used |-> "no", age |-> "fresh"]
  <2>1. new \in Wallet!Challenge
    BY <1>4 DEF Wallet!Issue, WalletInv, ChallengeInv, Wallet!Request, Wallet!Challenge
  <2>2. challenge' = Append(challenge, new) /\ Len(challenge) < MaxChallenges
    BY <1>4 DEF Wallet!Issue
  <2> HIDE DEF new
  <2>3. /\ challenge' \in Seq(Wallet!Challenge) /\ Len(challenge') = Len(challenge) + 1
        /\ \A c \in 1..Len(challenge) : challenge'[c] = challenge[c]
    BY <1>0, <2>1, <2>2, AppendProperties
  <2>4. \A c \in Wallet!Issued : Kept(c)
    BY <2>3 DEF Wallet!Issued, Kept
  <2>5. Len(challenge') <= MaxChallenges /\ Len(challenge') \in Nat
    BY <1>0, <2>2, <2>3
  <2> QED BY <1>0, <2>3, <2>4, <2>5
<1>5. ASSUME NEW h \in Handlers, Wallet!Mark(h)
      PROVE  Goal
  <2> DEFINE d == request[h].challenge
  <2>1. d \in Wallet!Issued /\ challenge' = [challenge EXCEPT ![d] = Wallet!Used(d)]
    BY <1>5 DEF Wallet!Mark, WalletInv, ChallengeInv
  <2>2. /\ Wallet!Used(d) \in Wallet!Challenge /\ Wallet!Used(d).user = challenge[d].user
        /\ Wallet!Used(d).address = challenge[d].address /\ Wallet!Used(d).used = "yes"
    BY <1>0, <2>1 DEF Wallet!Used, Wallet!Challenge
  <2> HIDE DEF d
  <2>3. challenge' \in [1..Len(challenge) -> Wallet!Challenge]
    BY <1>0, <2>1, <2>2
  <2>4. \A c \in Wallet!Issued : Kept(c)
    BY <1>0, <2>1, <2>2 DEF Wallet!Issued, Kept
  <2> QED BY <1>1, <2>3, <2>4
<1>6. ASSUME NEW d \in Wallet!Issued, Wallet!Expire(d)
      PROVE  Goal
  <2> DEFINE new == [challenge[d] EXCEPT !.age = "expired"]
  <2>1. challenge' = [challenge EXCEPT ![d] = new]
    BY <1>6 DEF Wallet!Expire
  <2>2. /\ new \in Wallet!Challenge /\ new.user = challenge[d].user
        /\ new.address = challenge[d].address /\ new.used = challenge[d].used
    BY <1>0 DEF Wallet!Challenge
  <2> HIDE DEF new
  <2>3. challenge' \in [1..Len(challenge) -> Wallet!Challenge]
    BY <1>0, <2>1, <2>2
  <2>4. \A c \in Wallet!Issued : Kept(c)
    BY <1>0, <2>1, <2>2 DEF Wallet!Issued, Kept
  <2> QED BY <1>1, <2>3, <2>4
<1> HIDE DEF Goal
<1>7. ASSUME NEW h \in Handlers, NEW u \in Users, NEW a \in Addresses, Wallet!Verify(h, u, a)
      PROVE  challenge' = challenge
  BY <1>7 DEF Wallet!Verify
<1>8. ASSUME NEW h \in Handlers, Wallet!CheckConflict(h) \/ Wallet!Link(h) \/ Wallet!CutShort(h)
      PROVE  challenge' = challenge
  BY <1>8 DEF Wallet!CheckConflict, Wallet!Link, Wallet!CutShort
<1>9. \A u \in Users : Wallet!Unlink(u) => challenge' = challenge
  BY DEF Wallet!Unlink
<1> QED BY <1>2, <1>3, <1>4, <1>5, <1>6, <1>7, <1>8, <1>9 DEF Wallet!Next

(* The steps of a request.                                                 *)
WalletStep(h) ==
    \/ \E u \in Users, a \in Addresses : Wallet!Ask(h, u, a) \/ Wallet!Verify(h, u, a)
    \/ Wallet!Issue(h) \/ Wallet!CheckConflict(h) \/ Wallet!Link(h)
    \/ Wallet!Mark(h) \/ Wallet!CutShort(h)

\* What a step does to the thread that takes it, and to no other.
WalletMove(h) ==
    /\ place' \in [Handlers -> Wallet!Pc]
    /\ request' \in [Handlers -> Wallet!Request \cup {Wallet!NoRequest}]
    /\ \A g \in Handlers \ {h} : place'[g] = place[g] /\ request'[g] = request[g]
    /\ \/ place'[h] = "idle" /\ request'[h] = Wallet!NoRequest
       \/ /\ \E u \in Users, a \in Addresses : Wallet!Ask(h, u, a)
          /\ place'[h] = "issue" /\ request'[h] \in Wallet!Request /\ request'[h].challenge = 0
       \/ /\ \E c \in Wallet!Issued : /\ request'[h].challenge = c
                                      /\ challenge[c].user = request'[h].user
                                      /\ challenge[c].address = request'[h].address
                                      /\ challenge[c].used = "no"
                                      /\ c \in shared' \/ \A g \in Handlers : request[g].challenge # c
          /\ place'[h] = "conflict" /\ request'[h] \in Wallet!Request
          /\ UNCHANGED spent
       \/ place[h] = "conflict" /\ place'[h] = "link" /\ request'[h] = request[h]
       \/ place[h] = "link" /\ place'[h] = "mark" /\ request'[h] = request[h]

(* Every step of a request is such a move.                                 *)
LEMMA WalletMoves ==
    ASSUME WalletInv, NEW h \in Handlers, WalletStep(h)
    PROVE  WalletMove(h)
<1>0. /\ place \in [Handlers -> Wallet!Pc]
      /\ request \in [Handlers -> Wallet!Request \cup {Wallet!NoRequest}]
  BY DEF WalletInv, Wallet!TypeOK
<1>1. ASSUME NEW pc \in Wallet!Pc, Wallet!Goto(h, pc)
      PROVE  /\ place' \in [Handlers -> Wallet!Pc] /\ place'[h] = pc
             /\ \A g \in Handlers \ {h} : place'[g] = place[g]
  BY <1>0, <1>1 DEF Wallet!Goto
<1>2. ASSUME NEW r \in Wallet!Request \cup {Wallet!NoRequest}, request' = [request EXCEPT ![h] = r]
      PROVE  /\ request' \in [Handlers -> Wallet!Request \cup {Wallet!NoRequest}] /\ request'[h] = r
             /\ \A g \in Handlers \ {h} : request'[g] = request[g]
  BY <1>0, <1>2
<1>3. CASE Wallet!End(h)
  <2>1. /\ Wallet!Goto(h, "idle") /\ "idle" \in Wallet!Pc
        /\ request' = [request EXCEPT ![h] = Wallet!NoRequest]
    BY <1>3 DEF Wallet!End, Wallet!Pc
  <2> QED BY <1>1, <1>2, <2>1 DEF WalletMove
<1>4. ASSUME NEW pc \in Wallet!Pc, Wallet!Goto(h, pc), request' = request
      PROVE  /\ place' \in [Handlers -> Wallet!Pc]
             /\ request' \in [Handlers -> Wallet!Request \cup {Wallet!NoRequest}]
             /\ \A g \in Handlers \ {h} : place'[g] = place[g] /\ request'[g] = request[g]
             /\ place'[h] = pc /\ request'[h] = request[h]
  BY <1>0, <1>1, <1>4
<1>5. ASSUME NEW u \in Users, NEW a \in Addresses, Wallet!Ask(h, u, a)
      PROVE  WalletMove(h)
  <2> DEFINE r == [user |-> u, address |-> a, challenge |-> 0]
  <2>1. r \in Wallet!Request /\ r.challenge = 0
    BY DEF Wallet!Request
  <2>2. Wallet!Goto(h, "issue") /\ request' = [request EXCEPT ![h] = r] /\ "issue" \in Wallet!Pc
    BY <1>5 DEF Wallet!Ask, Wallet!Serve, Wallet!Pc
  <2> HIDE DEF r
  <2> QED BY <1>1, <1>2, <1>5, <2>1, <2>2 DEF WalletMove
<1>6. ASSUME NEW u \in Users, NEW a \in Addresses, Wallet!Verify(h, u, a)
      PROVE  WalletMove(h)
  <2>1. PICK c \in Wallet!Usable(u, a) :
           /\ Wallet!Serve(h, "conflict", u, a, c)
           /\ shared' = IF \E g \in Handlers : request[g].challenge = c
                        THEN shared \cup {c} ELSE shared
           /\ UNCHANGED spent
    BY <1>6 DEF Wallet!Verify
  <2> DEFINE r == [user |-> u, address |-> a, challenge |-> c]
  <2>2. /\ c \in Wallet!Issued /\ challenge[c].user = u /\ challenge[c].address = a
        /\ challenge[c].used = "no"
    BY <2>1 DEF Wallet!Usable, Wallet!Open
  <2>3. c \in Nat
    BY <2>2, LenProperties DEF Wallet!Issued
  <2>4. r \in Wallet!Request /\ r.challenge = c /\ r.user = u /\ r.address = a
    BY <2>3 DEF Wallet!Request
  <2>5. /\ Wallet!Goto(h, "conflict") /\ "conflict" \in Wallet!Pc
        /\ request' = [request EXCEPT ![h] = r]
    BY <2>1 DEF Wallet!Serve, Wallet!Pc
  <2> HIDE DEF r
  <2>6. /\ place' \in [Handlers -> Wallet!Pc] /\ place'[h] = "conflict"
        /\ request' \in [Handlers -> Wallet!Request \cup {Wallet!NoRequest}] /\ request'[h] = r
        /\ \A g \in Handlers \ {h} : place'[g] = place[g] /\ request'[g] = request[g]
    BY <1>1, <1>2, <2>4, <2>5
  <2>7. c \in shared' \/ \A g \in Handlers : request[g].challenge # c
    BY <2>1
  <2> QED BY <2>1, <2>2, <2>4, <2>6, <2>7 DEF WalletMove
<1>7. CASE Wallet!CheckConflict(h) /\ ~Wallet!End(h)
  <2>1. place[h] = "conflict" /\ Wallet!Goto(h, "link") /\ request' = request /\ "link" \in Wallet!Pc
    BY <1>7 DEF Wallet!CheckConflict, Wallet!Pc
  <2> QED BY <1>4, <2>1 DEF WalletMove
<1>8. CASE Wallet!Link(h) /\ ~Wallet!End(h)
  <2>1. place[h] = "link" /\ Wallet!Goto(h, "mark") /\ request' = request /\ "mark" \in Wallet!Pc
    BY <1>8 DEF Wallet!Link, Wallet!Pc
  <2> QED BY <1>4, <2>1 DEF WalletMove
<1> QED BY <1>3, <1>5, <1>6, <1>7, <1>8 DEF WalletStep, Wallet!Issue, Wallet!Mark, Wallet!CutShort

(* How links are made and how often a challenge makes one.                 *)
LEMMA LinkStep ==
    ASSUME WalletInv, Wallet!Next
    PROVE  /\ link' \in [Users -> Addresses \cup {None}]
           /\ spent' \in [1..MaxChallenges -> 0..2]
           /\ shared \subseteq shared' /\ shared' \subseteq 1..MaxChallenges
           /\ \A c \in 1..MaxChallenges : spent[c] <= spent'[c]
           /\ \A c \in 1..MaxChallenges : spent'[c] # spent[c] =>
                 \E h \in Handlers : /\ Wallet!Link(h) /\ place'[h] = "mark" /\ request'[h] = request[h]
                                     /\ request[h].challenge = c /\ spent'[c] = spent[c] + 1
           /\ \/ \A u \in Users : link'[u] \in {link[u], None}
              \/ \E h \in Handlers :
                    LET u == request[h].user  a == request[h].address  c == request[h].challenge IN
                    /\ place[h] = "link" /\ u \in Users
                    /\ ~Wallet!LinkedElsewhere(u, a) /\ link' = [link EXCEPT ![u] = a]
                    /\ c \in Wallet!Issued /\ spent'[c] > 0
                    /\ challenge[c].user = u /\ challenge[c].address = a
<1>0. /\ link \in [Users -> Addresses \cup {None}] /\ spent \in [1..MaxChallenges -> 0..2]
      /\ shared \subseteq 1..MaxChallenges
      /\ Len(challenge) \in Nat /\ Len(challenge) <= MaxChallenges /\ MaxChallenges \in Nat
  BY WalletAssumption, LenProperties DEF WalletInv, Wallet!TypeOK
<1>1. ASSUME NEW h \in Handlers, Wallet!Link(h),
             ~Wallet!LinkedElsewhere(request[h].user, request[h].address)
      PROVE  /\ request[h].user \in Users /\ request[h].address \in Addresses
             /\ request[h].challenge \in Wallet!Issued /\ request[h].challenge \in 1..MaxChallenges
             /\ challenge[request[h].challenge].user = request[h].user
             /\ challenge[request[h].challenge].address = request[h].address
             /\ place[h] = "link" /\ place'[h] = "mark" /\ request'[h] = request[h]
             /\ link' = [link EXCEPT ![request[h].user] = request[h].address]
             /\ spent' = Wallet!Counted(request[h].challenge)
             /\ UNCHANGED shared
  <2>1. /\ place[h] = "link" /\ Wallet!Goto(h, "mark") /\ request' = request
        /\ link' = [link EXCEPT ![request[h].user] = request[h].address]
        /\ spent' = Wallet!Counted(request[h].challenge)
        /\ UNCHANGED shared
    BY <1>1 DEF Wallet!Link
  <2>2. ChallengeInv(h) /\ place'[h] = "mark"
    BY <2>1 DEF WalletInv, Wallet!TypeOK, Wallet!Goto
  <2> QED BY <1>0, <2>1, <2>2 DEF ChallengeInv, Wallet!Request, Wallet!Issued
<1>2. CASE \E h \in Handlers :
              Wallet!Link(h) /\ ~Wallet!LinkedElsewhere(request[h].user, request[h].address)
  <2>1. PICK h \in Handlers :
            Wallet!Link(h) /\ ~Wallet!LinkedElsewhere(request[h].user, request[h].address)
    BY <1>2
  <2> DEFINE u == request[h].user
             a == request[h].address
             c == request[h].challenge
  <2>2. /\ u \in Users /\ a \in Addresses /\ c \in Wallet!Issued /\ c \in 1..MaxChallenges
        /\ challenge[c].user = u /\ challenge[c].address = a
        /\ place[h] = "link" /\ place'[h] = "mark" /\ request'[h] = request[h]
        /\ link' = [link EXCEPT ![u] = a] /\ UNCHANGED shared
        /\ spent' = [spent EXCEPT ![c] = IF spent[c] < 2 THEN spent[c] + 1 ELSE 2]
    BY <1>1, <2>1 DEF Wallet!Counted
  <2>3. link' \in [Users -> Addresses \cup {None}]
    BY <1>0, <2>2
  <2>4. /\ spent' \in [1..MaxChallenges -> 0..2] /\ spent'[c] > 0
        /\ \A d \in 1..MaxChallenges : /\ spent[d] <= spent'[d]
                                       /\ spent'[d] # spent[d] => d = c /\ spent'[d] = spent[d] + 1
    <3> HIDE DEF c, a, u
    <3>1. spent[c] \in 0..2
      BY <1>0, <2>2
    <3>2. spent' \in [1..MaxChallenges -> 0..2]
      BY <1>0, <2>2, <3>1
    <3>3. spent'[c] = IF spent[c] < 2 THEN spent[c] + 1 ELSE 2
      BY <1>0, <2>2
    <3>4. \A d \in 1..MaxChallenges \ {c} : spent'[d] = spent[d] /\ spent[d] \in 0..2
      BY <1>0, <2>2
    <3> QED BY <3>1, <3>2, <3>3, <3>4
  <2> QED BY <1>0, <2>1, <2>2, <2>3, <2>4
<1>3. ASSUME NEW u \in Users, Wallet!Unlink(u)
      PROVE  /\ link' \in [Users -> Addresses \cup {None}]
             /\ \A v \in Users : link'[v] \in {link[v], None}
             /\ UNCHANGED <<spent, shared>>
  BY <1>0, <1>3 DEF Wallet!Unlink
<1>4. ASSUME NEW h \in Handlers, WalletStep(h),
             ~(Wallet!Link(h) /\ ~Wallet!LinkedElsewhere(request[h].user, request[h].address))
      PROVE  UNCHANGED <<link, spent>> /\ shared \subseteq shared' /\ shared' \subseteq 1..MaxChallenges
  <2>1. CASE \E u \in Users, a \in Addresses : Wallet!Verify(h, u, a)
    <3>1. PICK u \in Users, a \in Addresses : Wallet!Verify(h, u, a)
      BY <2>1
    <3>2. PICK c \in Wallet!Usable(u, a) : /\ shared' \in {shared, shared \cup {c}}
                                  /\ UNCHANGED <<link, spent>>
      BY <3>1 DEF Wallet!Verify
    <3>3. c \in 1..MaxChallenges
      BY <1>0, <3>2 DEF Wallet!Usable, Wallet!Issued
    <3> QED BY <1>0, <3>2, <3>3
  <2>2. CASE Wallet!CutShort(h)
    <3>1. place[h] = "mark" => request[h].challenge \in 1..MaxChallenges
      BY <1>0 DEF WalletInv, ChallengeInv, Wallet!Issued
    <3>2. /\ shared' = IF place[h] = "mark" THEN shared \cup {request[h].challenge} ELSE shared
          /\ UNCHANGED <<link, spent>>
      BY <2>2 DEF Wallet!CutShort
    <3> QED BY <1>0, <3>1, <3>2
  <2>3. CASE Wallet!Link(h)
    BY <1>0, <1>4, <2>3 DEF Wallet!Link
  <2> QED BY <1>0, <1>4, <2>1, <2>2, <2>3
          DEF WalletStep, Wallet!Ask, Wallet!Issue, Wallet!CheckConflict, Wallet!Mark
<1>5. ASSUME UNCHANGED <<link, spent>>, shared \subseteq shared', shared' \subseteq 1..MaxChallenges
      PROVE  /\ link' \in [Users -> Addresses \cup {None}]
             /\ spent' \in [1..MaxChallenges -> 0..2]
             /\ \A c \in 1..MaxChallenges : spent[c] <= spent'[c] /\ spent'[c] = spent[c]
             /\ \A u \in Users : link'[u] \in {link[u], None}
  BY <1>0, <1>5
<1>6. \A c \in Wallet!Issued : Wallet!Expire(c) => UNCHANGED <<link, spent, shared>>
  BY DEF Wallet!Expire
<1>7. CASE \E u \in Users : Wallet!Unlink(u)
  <2>1. /\ link' \in [Users -> Addresses \cup {None}]
        /\ \A u \in Users : link'[u] \in {link[u], None}
        /\ UNCHANGED <<spent, shared>>
    BY <1>3, <1>7
  <2>2. \A c \in 1..MaxChallenges : spent[c] <= spent[c]
    BY <1>0
  <2> QED BY <1>0, <2>1, <2>2
<1>8. CASE UNCHANGED <<link, spent>> /\ shared \subseteq shared' /\ shared' \subseteq 1..MaxChallenges
  BY <1>5, <1>8
<1> QED BY <1>0, <1>2, <1>4, <1>6, <1>7, <1>8 DEF Wallet!Next, WalletStep

(* A request keeps to the challenge it has found.                          *)
LEMMA ChallengeInvStep ==
    ASSUME WalletInv, Wallet!Next
    PROVE  /\ place' \in [Handlers -> Wallet!Pc]
           /\ request' \in [Handlers -> Wallet!Request \cup {Wallet!NoRequest}]
           /\ \A h \in Handlers : ChallengeInv(h)'
<1>1. /\ place \in [Handlers -> Wallet!Pc]
      /\ request \in [Handlers -> Wallet!Request \cup {Wallet!NoRequest}]
      /\ \A h \in Handlers : ChallengeInv(h)
  BY DEF WalletInv, Wallet!TypeOK
<1>2. /\ Wallet!Issued \subseteq Wallet!Issued'
      /\ \A c \in Wallet!Issued : /\ challenge'[c].user = challenge[c].user
                                  /\ challenge'[c].address = challenge[c].address
  BY ChallengesStep DEF Wallet!Issued, Kept
<1>3. ASSUME NEW h \in Handlers, place'[h] = place[h], request'[h] = request[h]
      PROVE  ChallengeInv(h)'
  BY <1>1, <1>2, <1>3 DEF ChallengeInv
<1>4. CASE \E h \in Handlers : WalletStep(h)
  <2>1. PICK h \in Handlers : WalletStep(h)
    BY <1>4
  <2>2. WalletMove(h)
    BY <2>1, WalletMoves
  <2>3. ChallengeInv(h)'
    BY <1>1, <1>2, <2>2 DEF ChallengeInv, WalletMove
  <2> QED BY <1>3, <2>2, <2>3 DEF WalletMove
<1>5. CASE place' = place /\ request' = request
  BY <1>1, <1>3, <1>5
<1>6. (\E u \in Users : Wallet!Unlink(u)) \/  (\E c \in Wallet!Issued : Wallet!Expire(c))
         => place' = place /\ request' = request
  BY DEF Wallet!Unlink, Wallet!Expire
<1> QED BY <1>4, <1>5, <1>6 DEF Wallet!Next, WalletStep

(* Links are made under the unique column, and by their own challenge.     *)
LEMMA LinkOwnedStep ==
    ASSUME WalletInv, Wallet!Next
    PROVE  Wallet!LinkOwned'
<1>1. /\ \A u, v \in Users : u # v /\ link[u] # None => link[v] # link[u]
      /\ \A u \in Users : link[u] # None =>
             \E c \in Wallet!Issued : /\ spent[c] > 0
                                      /\ challenge[c].user = u /\ challenge[c].address = link[u]
  BY DEF WalletInv, Wallet!LinkOwned
<1>2. \A c \in Wallet!Issued : c \in Wallet!Issued' /\ c \in 1..MaxChallenges
  <2>1. Len(challenge) \in Nat /\ Len(challenge) <= MaxChallenges /\ MaxChallenges \in Nat
    BY WalletAssumption, ChallengesStep DEF WalletInv
  <2> QED BY <2>1, ChallengesStep DEF Wallet!Issued
\* What a challenge shows, it goes on showing.
<1>3. ASSUME NEW c \in Wallet!Issued, NEW u, NEW a, spent[c] > 0 \/ spent'[c] > 0,
             challenge[c].user = u, challenge[c].address = a
      PROVE  \E d \in Wallet!Issued' : /\ spent'[d] > 0
                                       /\ challenge'[d].user = u /\ challenge'[d].address = a
  <2>1. spent[c] \in 0..2 /\ spent'[c] \in 0..2 /\ spent[c] <= spent'[c]
    BY <1>2, LinkStep DEF WalletInv, Wallet!TypeOK
  <2>2. spent'[c] > 0
    BY <1>3, <2>1
  <2>3. challenge'[c].user = u /\ challenge'[c].address = a
    BY <1>3, ChallengesStep DEF Kept
  <2> QED BY <1>2, <2>2, <2>3
<1>4. CASE \A u \in Users : link'[u] \in {link[u], None}
  <2>1. \A u, v \in Users : u # v /\ link'[u] # None => link'[v] # link'[u]
    BY <1>1, <1>4
  <2>2. ASSUME NEW u \in Users, link'[u] # None
        PROVE  \E d \in Wallet!Issued' : /\ spent'[d] > 0 /\ challenge'[d].user = u
                                         /\ challenge'[d].address = link'[u]
    <3>1. link'[u] = link[u]
      BY <1>4, <2>2
    <3> QED BY <1>1, <1>3, <2>2, <3>1
  <2> QED BY <2>1, <2>2 DEF Wallet!LinkOwned
<1>5. ASSUME NEW h \in Handlers,
             LET u == request[h].user  a == request[h].address  c == request[h].challenge IN
             /\ place[h] = "link" /\ u \in Users
             /\ ~Wallet!LinkedElsewhere(u, a) /\ link' = [link EXCEPT ![u] = a]
             /\ c \in Wallet!Issued /\ spent'[c] > 0
             /\ challenge[c].user = u /\ challenge[c].address = a
      PROVE  Wallet!LinkOwned'
  <2> DEFINE u == request[h].user
             a == request[h].address
             c == request[h].challenge
  <2>1. /\ u \in Users /\ c \in Wallet!Issued /\ spent'[c] > 0
        /\ challenge[c].user = u /\ challenge[c].address = a
        /\ link' = [link EXCEPT ![u] = a]
        /\ \A v \in Users \ {u} : link[v] # a
    BY <1>5 DEF Wallet!LinkedElsewhere
  <2> HIDE DEF u, a, c
  <2>2. link'[u] = a /\ \A v \in Users \ {u} : link'[v] = link[v]
    BY <2>1 DEF WalletInv, Wallet!TypeOK
  <2>3. \A v, w \in Users : v # w /\ link'[v] # None => link'[w] # link'[v]
    BY <1>1, <2>1, <2>2
  <2>4. ASSUME NEW v \in Users, link'[v] # None
        PROVE  \E d \in Wallet!Issued' : /\ spent'[d] > 0 /\ challenge'[d].user = v
                                         /\ challenge'[d].address = link'[v]
    <3>1. CASE v = u
      BY <1>3, <2>1, <2>2, <3>1
    <3>2. CASE v # u
      BY <1>1, <1>3, <2>2, <2>4, <3>2
    <3> QED BY <3>1, <3>2
  <2> QED BY <2>3, <2>4 DEF Wallet!LinkOwned
<1> QED BY <1>4, <1>5, LinkStep

(* The request that links by a challenge nobody shared is the last.        *)
LEMMA SpentStep ==
    ASSUME WalletInv, Wallet!Next, NEW c \in Wallet!Issued'
    PROVE  SpentInv(c)'
<1> SUFFICES ASSUME c \notin shared'
             PROVE  /\ spent'[c] <= 1
                    /\ \A g, h \in Handlers :
                          request'[g].challenge = c /\ request'[h].challenge = c => g = h
                    /\ \A h \in Handlers :
                          request'[h].challenge = c /\ place'[h] # "mark" => spent'[c] = 0
                    /\ spent'[c] = 1 => \/ challenge'[c].used = "yes"
                                        \/ \E h \in Handlers : request'[h].challenge = c
  BY DEF SpentInv
<1>0. /\ c \in 1..MaxChallenges /\ c # 0 /\ c \notin shared
      /\ spent[c] \in 0..2 /\ spent'[c] \in 0..2
      /\ place \in [Handlers -> Wallet!Pc]
  <2>1. c \in 1..MaxChallenges
    BY WalletAssumption, ChallengesStep DEF Wallet!Issued, WalletInv
  <2> QED BY WalletAssumption, <2>1, LinkStep DEF WalletInv, Wallet!TypeOK
\* Every request that has c had it, or has just found it unused and alone.
<1>1. \A h \in Handlers : request'[h].challenge = c =>
         \/ /\ place'[h] \in {place[h], "link", "mark"} /\ request'[h] = request[h]
            /\ place[h] = "mark" => place'[h] = "mark"
            /\ place'[h] = "mark" => place[h] \in {"link", "mark"}
         \/ /\ c \in Wallet!Issued /\ challenge[c].used = "no" /\ spent'[c] = spent[c]
            /\ \A g \in Handlers : request[g].challenge # c
            /\ \A g \in Handlers \ {h} : request'[g].challenge # c
  <2> SUFFICES ASSUME NEW h \in Handlers, request'[h].challenge = c
               PROVE  \/ /\ place'[h] \in {place[h], "link", "mark"} /\ request'[h] = request[h]
                         /\ place[h] = "mark" => place'[h] = "mark"
                         /\ place'[h] = "mark" => place[h] \in {"link", "mark"}
                      \/ /\ c \in Wallet!Issued /\ challenge[c].used = "no" /\ spent'[c] = spent[c]
                         /\ \A g \in Handlers : request[g].challenge # c
                         /\ \A g \in Handlers \ {h} : request'[g].challenge # c
    OBVIOUS
  <2>1. CASE \E g \in Handlers : WalletStep(g)
    <3>1. PICK g \in Handlers : WalletStep(g)
      BY <2>1
    <3>2. WalletMove(g)
      BY <3>1, WalletMoves
    <3>3. CASE g # h
      BY <3>2, <3>3 DEF WalletMove
    <3>4. CASE g = h
      <4>1. Wallet!NoRequest.challenge = 0
        BY DEF Wallet!NoRequest
      <4> QED BY <1>0, <3>2, <3>4, <4>1 DEF WalletMove
    <3> QED BY <3>3, <3>4
  <2>2. CASE place' = place /\ request' = request
    BY <1>0, <2>2
  <2>3. (\E u \in Users : Wallet!Unlink(u)) \/ (\E d \in Wallet!Issued : Wallet!Expire(d))
           => place' = place /\ request' = request
    BY DEF Wallet!Unlink, Wallet!Expire
  <2> QED BY <2>1, <2>2, <2>3 DEF Wallet!Next, WalletStep
<1>2. CASE c \notin Wallet!Issued
  <2>1. spent[c] = 0 /\ \A h \in Handlers : request[h].challenge # c
    <3>1. c > Len(challenge)
      BY <1>2, ChallengesStep DEF Wallet!Issued
    <3>2. \A h \in Handlers : request[h].challenge # c
      <4> SUFFICES ASSUME NEW h \in Handlers, request[h].challenge = c PROVE FALSE
        OBVIOUS
      <4>1. ChallengeInv(h) /\ place[h] \in Wallet!Pc
        BY DEF WalletInv, Wallet!TypeOK
      <4>2. Wallet!NoRequest.challenge = 0
        BY DEF Wallet!NoRequest
      <4> QED BY <1>0, <1>2, <4>1, <4>2 DEF ChallengeInv, Wallet!Pc
    <3> QED BY <1>0, <3>1, <3>2 DEF WalletInv
  <2>2. spent'[c] = 0
    <3>1. spent'[c] = spent[c]
      BY <1>0, <2>1, LinkStep
    <3> QED BY <2>1, <3>1
  <2>3. \A h \in Handlers : request'[h].challenge # c
    BY <1>1, <1>2, <2>1
  <2> QED BY <2>2, <2>3
<1>3. CASE c \in Wallet!Issued
  <2>0. /\ spent[c] <= 1
        /\ \A g, h \in Handlers : request[g].challenge = c /\ request[h].challenge = c => g = h
        /\ \A h \in Handlers : request[h].challenge = c /\ place[h] # "mark" => spent[c] = 0
        /\ spent[c] = 1 => \/ challenge[c].used = "yes"
                           \/ \E h \in Handlers : request[h].challenge = c
    BY <1>0, <1>3 DEF WalletInv, SpentInv
  <2>1. \A g, h \in Handlers : request'[g].challenge = c /\ request'[h].challenge = c => g = h
    BY <1>1, <2>0
  <2>2. CASE spent'[c] # spent[c]
    <3>1. PICK h \in Handlers : /\ Wallet!Link(h) /\ place'[h] = "mark" /\ request'[h] = request[h]
                                /\ request[h].challenge = c /\ spent'[c] = spent[c] + 1
      BY <1>0, <2>2, LinkStep
    <3>2. spent[c] = 0
      BY <2>0, <3>1 DEF Wallet!Link
    <3>3. \A g \in Handlers : request'[g].challenge = c => g = h
      BY <2>1, <3>1
    <3> QED BY <2>1, <3>1, <3>2, <3>3
  <2>3. CASE spent'[c] = spent[c]
    <3>1. ASSUME NEW h \in Handlers, request'[h].challenge = c, place'[h] # "mark"
          PROVE  spent'[c] = 0
      <4>1. CASE request'[h] = request[h] /\ place[h] # "mark"
        BY <2>0, <2>3, <3>1, <4>1
      <4>2. CASE challenge[c].used = "no" /\ \A g \in Handlers : request[g].challenge # c
        BY <1>0, <2>0, <2>3, <4>2
      <4> QED BY <1>1, <3>1, <4>1, <4>2
    <3>2. ASSUME spent'[c] = 1
          PROVE  challenge'[c].used = "yes" \/ \E h \in Handlers : request'[h].challenge = c
      <4>1. CASE challenge[c].used = "yes"
        BY <1>3, <4>1, ChallengesStep DEF Kept
      <4>2. CASE \E h \in Handlers : request[h].challenge = c
        <5>1. PICK h \in Handlers : request[h].challenge = c
          BY <4>2
        <5>2. place[h] = "mark"
          BY <2>0, <2>3, <3>2, <5>1
        <5>3. CASE Wallet!Mark(h)
          <6>1. /\ challenge' = [challenge EXCEPT ![c] = Wallet!Used(c)]
                /\ challenge[c] \in Wallet!Challenge
            <7>1. \A d \in 1..Len(challenge) : challenge[d] \in Wallet!Challenge
              BY ElementOfSeq DEF WalletInv, Wallet!TypeOK
            <7> QED BY <1>3, <5>1, <5>3, <7>1 DEF Wallet!Mark, Wallet!Issued
          <6>2. DOMAIN challenge = Wallet!Issued
            BY LenProperties DEF WalletInv, Wallet!TypeOK, Wallet!Issued
          <6> QED BY <1>3, <6>1, <6>2 DEF Wallet!Used, Wallet!Challenge
        <5>4. ~Wallet!CutShort(h)
          BY <5>1, <5>2 DEF Wallet!CutShort
        <5>5. CASE ~WalletStep(h)
          <6>1. request'[h] = request[h]
            <7>1. \A g \in Handlers : WalletStep(g) => g # h /\ WalletMove(g)
              BY <5>5, WalletMoves
            <7> QED BY <7>1 DEF WalletMove, Wallet!Next, WalletStep, Wallet!Unlink, Wallet!Expire
          <6> QED BY <5>1, <6>1
        <5>6. WalletStep(h) => Wallet!Mark(h)
          BY <5>2, <5>4
             DEF WalletStep, Wallet!Ask, Wallet!Verify, Wallet!Serve, Wallet!Issue,
                 Wallet!CheckConflict, Wallet!Link
        <5> QED BY <5>3, <5>5, <5>6
      <4> QED BY <2>0, <2>3, <3>2, <4>1, <4>2
    <3> QED BY <2>0, <2>1, <2>3, <3>1, <3>2
  <2> QED BY <2>2, <2>3
<1> QED BY <1>2, <1>3

(* It always holds.                                                        *)
THEOREM WalletInvariance == Wallet!Spec => []WalletInv
<1>1. Wallet!Init => WalletInv
  <2> SUFFICES ASSUME Wallet!Init PROVE WalletInv
    OBVIOUS
  <2>1. /\ challenge = <<>> /\ challenge \in Seq(Wallet!Challenge)
        /\ Len(challenge) = 0 /\ Wallet!Issued = {}
    BY EmptySeq DEF Wallet!Init, Wallet!Issued
  <2>2. Wallet!TypeOK
    BY <2>1 DEF Wallet!Init, Wallet!TypeOK, Wallet!Pc
  <2>3. \A h \in Handlers : ChallengeInv(h)
    BY DEF Wallet!Init, ChallengeInv
  <2>4. Wallet!LinkOwned
    BY DEF Wallet!Init, Wallet!LinkOwned
  <2> QED BY WalletAssumption, <2>1, <2>2, <2>3, <2>4 DEF WalletInv, Wallet!Init
<1>2. WalletInv /\ [Wallet!Next]_(Wallet!vars) => WalletInv'
  <2> SUFFICES ASSUME WalletInv, [Wallet!Next]_(Wallet!vars) PROVE WalletInv'
    OBVIOUS
  <2>1. CASE Wallet!Next
    <3>1. Wallet!TypeOK'
      BY <2>1, ChallengesStep, ChallengeInvStep, LinkStep DEF Wallet!TypeOK
    <3>2. \A c \in 1..MaxChallenges : c > Len(challenge') => spent'[c] = 0
      <4> SUFFICES ASSUME NEW c \in 1..MaxChallenges, c > Len(challenge'), spent'[c] # spent[c]
                   PROVE  FALSE
        BY <2>1, ChallengesStep DEF WalletInv
      <4>1. PICK h \in Handlers : Wallet!Link(h) /\ request[h].challenge = c
        BY <2>1, LinkStep
      <4>2. c \in Wallet!Issued
        BY <4>1 DEF Wallet!Link, WalletInv, ChallengeInv
      <4> QED BY <2>1, <4>2, ChallengesStep DEF Wallet!Issued
    <3>3. \A c \in Wallet!Issued' : SpentInv(c)'
      BY <2>1, SpentStep
    <3> QED BY <2>1, <3>1, <3>2, <3>3, ChallengesStep, ChallengeInvStep, LinkOwnedStep
            DEF WalletInv
  <2>2. CASE UNCHANGED Wallet!vars
    <3>1. UNCHANGED <<link, challenge, place, request, spent, shared>>
      BY <2>2 DEF Wallet!vars
    <3>2. Wallet!TypeOK'
      BY <3>1 DEF WalletInv, Wallet!TypeOK
    <3>3. (\A h \in Handlers : ChallengeInv(h)') /\ Wallet!Issued' = Wallet!Issued
      BY <3>1 DEF WalletInv, ChallengeInv, Wallet!Issued
    <3>4. \A c \in Wallet!Issued : SpentInv(c)'
      BY <3>1 DEF WalletInv, SpentInv
    <3>5. Wallet!LinkOwned'
      BY <3>1, <3>3 DEF WalletInv, Wallet!LinkOwned
    <3> QED BY <3>1, <3>2, <3>3, <3>4, <3>5 DEF WalletInv
  <2> QED BY <2>1, <2>2
<1> QED BY <1>1, <1>2, PTL DEF Wallet!Spec

(* LinkOwned: an address has one account, and that account's own wallet    *)
(* signed for it, whatever verifications overlap.                          *)
THEOREM LinksOwned == Wallet!Spec => []LinkOwned
<1>1. WalletInv => LinkOwned
  BY DEF WalletInv, LinkOwned, Issued, Wallet!LinkOwned, Wallet!Issued
<1> QED BY <1>1, WalletInvariance, PTL

(* SpentOnce: a challenge links twice only if two requests verified it at  *)
(* the same time or the one that did ended before marking it used.         *)
THEOREM ChallengesSpentOnce == Wallet!Spec => []SpentOnce
<1>1. WalletInv => SpentOnce
  <2> SUFFICES ASSUME WalletInv, NEW c \in Wallet!Issued, spent[c] > 1, c \notin shared PROVE FALSE
    BY DEF SpentOnce, Issued, Wallet!Issued
  <2>1. c \in 1..MaxChallenges
    BY WalletAssumption, LenProperties DEF WalletInv, Wallet!TypeOK, Wallet!Issued
  <2>2. spent[c] \in 0..2 /\ spent[c] <= 1
    BY <2>1 DEF WalletInv, Wallet!TypeOK, SpentInv
  <2> QED BY <2>2
<1> QED BY <1>1, WalletInvariance, PTL
=============================================================================
