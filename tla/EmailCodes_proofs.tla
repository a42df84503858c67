-------------------------- MODULE EmailCodes_proofs --------------------------
(***************************************************************************)
(* Proofs about EmailCodes, for any set of addresses, any finite number of *)
(* server threads, and every lifetime and limit.                           *)
(***************************************************************************)
EXTENDS EmailCodes, FiniteSetTheorems, SequenceTheorems, TLAPS

Stored    == {"clear", "mail"}
Answering == {"right", "wrong", "save", "fail", "expire", "drop", "dropFails"}
Dropping  == {"drop", "dropFails"}

Busy(h, a) == at[h] # "idle" /\ req[h].address = a

FailingAt(a) == {h \in Handlers : at[h] = "fail" /\ req[h].address = a}
Failing(n)   == {h \in Handlers : at[h] = "fail" /\ req[h].code = n}
Asking(n)    == {h \in Handlers : at[h] = "wrong" /\ req[h].code = n}

-----------------------------------------------------------------------------
(* The part of the invariant that everything else rests on.  A request     *)
(* works with a code of its own address, the key holds the newest code of  *)
(* its address, and two requests for one address are both marked.          *)

HandlerInv(h) ==
    /\ at[h] = "idle" => req[h] = NoRequest
    /\ at[h] # "idle" => req[h] \in Request
    /\ at[h] \in Stored \cup Answering =>
          /\ req[h].code \in 1..Len(issued)
          /\ issued[req[h].code] = req[h].address
    /\ at[h] \in {"right", "save"} => req[h].fails = 0
    /\ at[h] = "expire" => req[h].fails = 1

CodeInv(a) ==
    /\ code[a] # 0 <=> codeLeft[a] > 0
    /\ code[a] # 0 => /\ code[a] \in 1..Len(issued)
                      /\ issued[code[a]] = a
                      /\ Newest(code[a])

\* Whoever is about to count a failure compared while there were few.
Load(a) ==
    fails[a] + Cardinality(FailingAt(a)) <= MaxFails + Cardinality(Handlers) - 1

Overlap(g, h) ==
    g # h /\ at[g] # "idle" /\ Busy(h, req[g].address) => g \in overlapped

Base == /\ TypeOK
        /\ \A h \in Handlers : HandlerInv(h)
        /\ \A a \in Addresses : CodeInv(a) /\ Load(a)
        /\ \A g, h \in Handlers : Overlap(g, h)
        /\ mailed \subseteq 1..Len(issued)
        /\ \A n \in Codes : n > Len(issued) => guesses[n] = 0 /\ uses[n] = 0

(* Counting threads.                                                       *)
LEMMA Threads ==
    ASSUME NEW S \in SUBSET Handlers
    PROVE  /\ IsFiniteSet(S) /\ Cardinality(S) \in Nat
           /\ Cardinality(S) <= Cardinality(Handlers)
           /\ Cardinality(Handlers) \in Nat
           /\ \A h \in Handlers \ S : Cardinality(S \cup {h}) = Cardinality(S) + 1
           /\ \A h \in S : Cardinality(S \ {h}) = Cardinality(S) - 1
<1>1. IsFiniteSet(Handlers)
  BY EmailAssumption
<1>2. IsFiniteSet(S) /\ Cardinality(S) <= Cardinality(Handlers)
  BY <1>1, FS_Subset
<1>3. \A h \in Handlers \ S : Cardinality(S \cup {h}) = Cardinality(S) + 1
  BY <1>2, FS_AddElement
<1>4. \A h \in S : Cardinality(S \ {h}) = Cardinality(S) - 1
  BY <1>2, FS_RemoveElement
<1> QED BY <1>1, <1>2, <1>3, <1>4, FS_CardinalityType

(* What every step does to the list of the codes.                          *)
LEMMA IssuedStep ==
    ASSUME Base, Next
    PROVE  /\ issued' \in Seq(Addresses) /\ Len(issued') <= MaxCodes
           /\ Len(issued) \in Nat /\ Len(issued') \in Nat
           /\ Len(issued') = Len(issued) \/ Len(issued') = Len(issued) + 1
           /\ \A n \in 1..Len(issued) : issued'[n] = issued[n]
           /\ \A n \in 1..Len(issued) : Newest(n)' => Newest(n)
           /\ \/ issued' = issued
              \/ \E h \in Handlers : SetCode(h)
<1>0. issued \in Seq(Addresses) /\ Len(issued) <= MaxCodes /\ Len(issued) \in Nat
  BY LenProperties DEF Base, TypeOK
<1>1. CASE \E h \in Handlers : SetCode(h)
  <2>1. PICK h \in Handlers : SetCode(h)
    BY <1>1
  <2>2. req[h] \in Request
    BY <2>1 DEF SetCode, Base, HandlerInv
  <2> DEFINE a == req[h].address
  <2>3. a \in Addresses /\ issued' = Append(issued, a) /\ Len(issued) + 1 <= MaxCodes
    BY <2>1, <2>2 DEF SetCode, Request
  <2> HIDE DEF a
  <2>4. /\ issued' \in Seq(Addresses) /\ Len(issued') = Len(issued) + 1
        /\ \A n \in 1..Len(issued) : issued'[n] = issued[n]
    BY <1>0, <2>3, AppendProperties
  <2>5. \A n \in 1..Len(issued) : Newest(n)' => Newest(n)
    BY <1>0, <2>4 DEF Newest
  <2> QED BY <1>0, <1>1, <2>3, <2>4, <2>5
<1>2. CASE issued' = issued
  BY <1>0, <1>2 DEF Newest
<1> QED BY <1>1, <1>2 DEF Next, Handle, SendCode, AnswerRight, AnswerWrong, ReadDaily,
           IncrDaily, ClearFails, Mail, CompareRight, SaveUser, CompareWrong, IncrFail,
           ExpireFail, DropCode, DropFails, CutShort, Tick, Midnight

(* The code a step stores comes last, and no other of its address is the   *)
(* newest then.                                                            *)
LEMMA NewCode ==
    ASSUME Base, NEW h \in Handlers, SetCode(h)
    PROVE  LET n == Len(issued) + 1  a == req[h].address IN
           /\ a \in Addresses /\ n \in Codes /\ Len(issued') = n /\ issued'[n] = a
           /\ \A m \in 1..Len(issued) : issued[m] = a => ~Newest(m)'
           /\ guesses[n] = 0 /\ uses[n] = 0
           /\ code' = [code EXCEPT ![a] = n]
           /\ codeLeft' = [codeLeft EXCEPT ![a] = Lifetime]
<1> DEFINE n == Len(issued) + 1
           a == req[h].address
<1>0. issued \in Seq(Addresses) /\ Len(issued) \in Nat /\ MaxCodes \in Nat
  BY EmailAssumption, LenProperties DEF Base, TypeOK
<1>1. a \in Addresses
  BY DEF SetCode, Base, HandlerInv, Request
<1>2. /\ issued' = Append(issued, a) /\ n <= MaxCodes
      /\ code' = [code EXCEPT ![a] = n]
      /\ codeLeft' = [codeLeft EXCEPT ![a] = Lifetime]
  BY DEF SetCode
<1>3. n \in Codes
  BY <1>0, <1>2 DEF Codes
<1>4. guesses[n] = 0 /\ uses[n] = 0
  BY <1>0, <1>3 DEF Base
<1>5. /\ Len(issued') = n /\ issued'[n] = a
      /\ \A m \in 1..Len(issued) : issued'[m] = issued[m]
  <2> HIDE DEF a
  <2> QED BY <1>0, <1>1, <1>2, AppendProperties
<1>6. \A m \in 1..Len(issued) : issued[m] = a => ~Newest(m)'
  BY <1>0, <1>5 DEF Newest
<1> QED BY <1>1, <1>2, <1>3, <1>4, <1>5, <1>6

(* Two requests that are both there.                                       *)
LEMMA Alone ==
    ASSUME Base, NEW g \in Handlers, NEW h \in Handlers \ {g},
           at[g] # "idle", at[h] # "idle", req[g].address = req[h].address
    PROVE  g \in overlapped /\ h \in overlapped
BY DEF Base, Overlap, Busy

(* The numbers the model counts with.                                      *)
LEMMA Limits ==
    /\ Lifetime \in Nat /\ Lifetime > 0 /\ MaxFails \in Nat /\ MaxFails > 0 /\ MaxCodes \in Nat
    /\ Cardinality(Handlers) \in Nat
    /\ Forever = Lifetime + 1
    /\ Most = MaxFails + Cardinality(Handlers) - 1 /\ Most \in Nat
    /\ TooMany = MaxFails + 2 * Cardinality(Handlers)
BY EmailAssumption, FS_CardinalityType DEF Forever, Most, TooMany

(* What every step does to the keys of one address.                        *)
LEMMA KeysStep ==
    ASSUME Base, Next, NEW a \in Addresses
    PROVE  /\ code' \in [Addresses -> 0..MaxCodes]
           /\ codeLeft' \in [Addresses -> 0..Lifetime]
           /\ failsLeft' \in [Addresses -> 0..Forever]
           /\ fails' \in [Addresses -> Nat] /\ fails[a] \in Nat
           /\ code'[a] # 0 <=> codeLeft'[a] > 0
           /\ code'[a] = code[a] /\ code[a] # 0 => codeLeft'[a] <= codeLeft[a]
           /\ code'[a] # code[a] =>
                 \/ \E h \in Handlers : SetCode(h) /\ req[h].address = a
                 \/ /\ code'[a] = 0
                    /\ \/ \E h \in Handlers : DropCode(h) /\ req[h].address = a
                       \/ Tick /\ code[a] \in expired'
           /\ /\ fails'[a] = fails[a] /\ code'[a] = code[a] /\ code[a] # 0 /\ fails[a] > 0
              /\ failsLeft[a] >= codeLeft[a]
              => failsLeft'[a] >= codeLeft'[a]
           /\ fails'[a] # fails[a] =>
                 \/ \E h \in Handlers : /\ IncrFail(h) /\ req[h].address = a
                                        /\ fails'[a] = fails[a] + 1
                                        /\ fails[a] = 0 => failsLeft'[a] = Forever
                                        /\ fails[a] # 0 => failsLeft'[a] = failsLeft[a]
                 \/ /\ fails'[a] = 0
                    /\ \/ \E h \in Handlers : /\ ClearFails(h) \/ DropFails(h)
                                              /\ req[h].address = a
                       \/ Tick /\ (code'[a] # 0 => failsLeft[a] < codeLeft[a])
<1>0. /\ code \in [Addresses -> 0..MaxCodes] /\ codeLeft \in [Addresses -> 0..Lifetime]
      /\ fails \in [Addresses -> Nat] /\ failsLeft \in [Addresses -> 0..Forever]
      /\ code[a] # 0 <=> codeLeft[a] > 0
  <2>1. fails \in [Addresses -> 0..Most] /\ Most \in Nat
    BY Limits DEF Base, TypeOK
  <2>2. fails \in [Addresses -> Nat]
    BY <2>1
  <2> QED BY <2>2 DEF Base, TypeOK, CodeInv
<1>1. \A h \in Handlers : at[h] # "idle" => req[h] \in Request /\ req[h].address \in Addresses
  BY DEF Base, HandlerInv, Request
<1>2. ASSUME NEW h \in Handlers, SetCode(h)
      PROVE  /\ req[h].address \in Addresses
             /\ code' = [code EXCEPT ![req[h].address] = Len(issued) + 1]
             /\ codeLeft' = [codeLeft EXCEPT ![req[h].address] = Lifetime]
             /\ Len(issued) + 1 \in 1..MaxCodes
             /\ UNCHANGED <<fails, failsLeft>>
  BY <1>2, NewCode DEF SetCode, Codes
<1>3. CASE \E h \in Handlers : SetCode(h)
  <2>1. PICK h \in Handlers : SetCode(h)
    BY <1>3
  <2> DEFINE b == req[h].address
             n == Len(issued) + 1
  <2>2. n \in 1..MaxCodes /\ (code[a] # 0 => code[a] < n)
    BY <1>2, <2>1 DEF Base, CodeInv
  <2>3. /\ b \in Addresses
        /\ code' = [code EXCEPT ![b] = n] /\ codeLeft' = [codeLeft EXCEPT ![b] = Lifetime]
        /\ UNCHANGED <<fails, failsLeft>>
    BY <1>2, <2>1
  <2> HIDE DEF n
  <2>4. CASE a = b
    BY <1>0, <2>1, <2>2, <2>3, <2>4, Limits
  <2>5. CASE a # b
    BY <1>0, <2>2, <2>3, <2>5, Limits
  <2> QED BY <2>4, <2>5
<1>4. CASE \E h \in Handlers : ClearFails(h) \/ DropFails(h)
  <2>1. PICK h \in Handlers : ClearFails(h) \/ DropFails(h)
    BY <1>4
  <2>2. /\ req[h].address \in Addresses
        /\ fails' = [fails EXCEPT ![req[h].address] = 0]
        /\ failsLeft' = [failsLeft EXCEPT ![req[h].address] = 0]
        /\ UNCHANGED <<code, codeLeft>>
    BY <1>1, <2>1 DEF ClearFails, DropFails, Step
  <2> QED BY <1>0, <2>1, <2>2, Limits
<1>5. CASE \E h \in Handlers : IncrFail(h)
  <2>1. PICK h \in Handlers : IncrFail(h)
    BY <1>5
  <2> DEFINE b == req[h].address
  <2>2. /\ b \in Addresses
        /\ fails' = [fails EXCEPT ![b] = fails[b] + 1]
        /\ failsLeft' = [failsLeft EXCEPT ![b] = IF fails[b] + 1 = 1 THEN Forever
                                                 ELSE failsLeft[b]]
        /\ UNCHANGED <<code, codeLeft>>
    BY <1>1, <2>1 DEF IncrFail
  <2>3. failsLeft' \in [Addresses -> 0..Forever]
    BY <1>0, <2>2, Limits
  <2>4. CASE a = b
    <3>1. fails'[a] = fails[a] + 1 /\ fails[a] \in Nat
      BY <1>0, <2>2, <2>4
    <3>2. failsLeft'[a] = IF fails[a] = 0 THEN Forever ELSE failsLeft[a]
      BY <1>0, <2>2, <2>4
    <3> QED BY <1>0, <2>1, <2>2, <2>3, <2>4, <3>1, <3>2
  <2>5. CASE a # b
    BY <1>0, <2>2, <2>3, <2>5
  <2> QED BY <2>4, <2>5
<1>6. CASE \E h \in Handlers : ExpireFail(h)
  <2>1. PICK h \in Handlers : ExpireFail(h)
    BY <1>6
  <2> DEFINE b == req[h].address
  <2>2. /\ b \in Addresses
        /\ failsLeft' = [failsLeft EXCEPT ![b] = IF fails[b] = 0 THEN 0 ELSE Lifetime]
        /\ UNCHANGED <<code, codeLeft, fails>>
    BY <1>1, <2>1 DEF ExpireFail
  <2> QED BY <1>0, <2>2, Limits
<1>7. CASE \E h \in Handlers : DropCode(h)
  <2>1. PICK h \in Handlers : DropCode(h)
    BY <1>7
  <2>2. /\ req[h].address \in Addresses
        /\ code' = [code EXCEPT ![req[h].address] = 0]
        /\ codeLeft' = [codeLeft EXCEPT ![req[h].address] = 0]
        /\ UNCHANGED <<fails, failsLeft>>
    BY <1>1, <2>1 DEF DropCode, Step
  <2> QED BY <1>0, <2>1, <2>2, Limits
<1>8. CASE Tick
  <2>1. /\ codeLeft' = [b \in Addresses |-> Older(codeLeft[b])]
        /\ code' = [b \in Addresses |-> IF codeLeft[b] <= 1 THEN 0 ELSE code[b]]
        /\ failsLeft' = [b \in Addresses |-> Older(failsLeft[b])]
        /\ fails' = [b \in Addresses |-> IF failsLeft[b] <= 1 THEN 0 ELSE fails[b]]
        /\ codeLeft[a] = 1 => code[a] \in expired'
    BY <1>8 DEF Tick
  <2>2. /\ \A left \in 0..Lifetime : Older(left) = IF left = 0 THEN 0 ELSE left - 1
        /\ \A left \in 0..Forever : Older(left) = IF left = 0 THEN 0 ELSE
                                                  IF left = Forever THEN Forever ELSE left - 1
    BY Limits DEF Older
  <2>3. codeLeft' \in [Addresses -> 0..Lifetime] /\ failsLeft' \in [Addresses -> 0..Forever]
    <3>1. \A b \in Addresses : Older(codeLeft[b]) \in 0..Lifetime
      BY <1>0, <2>2, Limits
    <3>2. \A b \in Addresses : Older(failsLeft[b]) \in 0..Forever
      BY <1>0, <2>2, Limits
    <3> QED BY <2>1, <3>1, <3>2
  <2>4. code' \in [Addresses -> 0..MaxCodes]
    BY <1>0, <2>1, Limits
  <2>5. /\ codeLeft'[a] = IF codeLeft[a] = 0 THEN 0 ELSE codeLeft[a] - 1
        /\ code'[a] = IF codeLeft[a] <= 1 THEN 0 ELSE code[a]
        /\ failsLeft'[a] = IF failsLeft[a] = 0 THEN 0 ELSE
                           IF failsLeft[a] = Forever THEN Forever ELSE failsLeft[a] - 1
        /\ fails'[a] = IF failsLeft[a] <= 1 THEN 0 ELSE fails[a]
        /\ codeLeft[a] \in 0..Lifetime /\ failsLeft[a] \in 0..Forever
    BY <1>0, <2>1, <2>2
  <2> QED BY <1>0, <1>8, <2>1, <2>3, <2>4, <2>5, Limits
<1>9. CASE UNCHANGED <<code, codeLeft, fails, failsLeft>>
  BY <1>0, <1>9
<1>10. ASSUME NEW h \in Handlers, Handle(h)
       PROVE  \/ SetCode(h) \/ ClearFails(h) \/ DropFails(h) \/ IncrFail(h)
              \/ ExpireFail(h) \/ DropCode(h)
              \/ UNCHANGED <<code, codeLeft, fails, failsLeft>>
  BY <1>10 DEF Handle, SendCode, AnswerRight, AnswerWrong, ReadDaily, IncrDaily, Mail,
               CompareRight, SaveUser, CompareWrong, CutShort, store
<1>11. Midnight => UNCHANGED <<code, codeLeft, fails, failsLeft>>
  BY DEF Midnight
<1> QED BY <1>3, <1>4, <1>5, <1>6, <1>7, <1>8, <1>9, <1>10, <1>11 DEF Next

(* A code a request works with was stored.                                 *)
LEMMA KnownCode ==
    ASSUME Base, NEW h \in Handlers, at[h] \in Stored \cup Answering
    PROVE  /\ req[h] \in Request
           /\ req[h].address \in Addresses
           /\ req[h].code \in 1..Len(issued) /\ req[h].code \in Codes
           /\ issued[req[h].code] = req[h].address
           /\ req[h].fails \in 0..Most
<1>1. req[h] \in Request /\ req[h].code \in 1..Len(issued) /\ issued[req[h].code] = req[h].address
  BY DEF Base, HandlerInv, Stored, Answering
<1>2. Len(issued) \in Nat /\ Len(issued) <= MaxCodes /\ MaxCodes \in Nat
  BY LenProperties, Limits DEF Base, TypeOK
<1>3. req[h].code \in Codes
  BY <1>1, <1>2 DEF Codes
<1>4. req[h].address \in Addresses /\ req[h].fails \in 0..Most
  BY <1>1 DEF Request
<1> QED BY <1>1, <1>3, <1>4

(* What every step does to the histories.                                  *)
LEMMA GhostStep ==
    ASSUME Base, Next
    PROVE  /\ alone \subseteq alone' /\ alone' \subseteq mailed' /\ mailed' \subseteq 1..Len(issued)
           /\ \A n \in alone' \ alone :
                 \E h \in Handlers : Mail(h) /\ h \notin overlapped /\ req[h].code = n
           /\ expired \subseteq expired' /\ expired' \subseteq Codes
           /\ loose \subseteq loose' /\ loose' \subseteq Codes
           /\ uncounted \subseteq uncounted' /\ uncounted' \subseteq Codes
           /\ guesses' \in [Codes -> 0..TooMany] /\ uses' \in [Codes -> 0..2]
           /\ \A n \in Codes : guesses[n] <= guesses'[n] /\ uses[n] <= uses'[n]
           /\ \A n \in Codes : guesses'[n] # guesses[n] =>
                 \E h \in Handlers : /\ CompareWrong(h) /\ ~Blocked(h) /\ req[h].code = n
                                     /\ guesses'[n] = guesses[n] + 1
           /\ \A n \in Codes : uses'[n] # uses[n] =>
                 \E h \in Handlers : SaveUser(h) /\ req[h].code = n /\ uses'[n] = uses[n] + 1
           /\ daily' \in Nat
           /\ overlapped' \subseteq Handlers
           /\ \A g \in overlapped : at[g] # "idle" => g \in overlapped'
<1>0. /\ alone \subseteq mailed /\ mailed \subseteq 1..Len(issued) /\ daily \in Nat
      /\ expired \subseteq Codes /\ loose \subseteq Codes /\ uncounted \subseteq Codes
      /\ guesses \in [Codes -> 0..TooMany] /\ uses \in [Codes -> 0..2]
      /\ overlapped \subseteq Handlers
      /\ TooMany \in Nat
  <2>1. TooMany \in Nat
    BY Limits
  <2> QED BY <2>1 DEF Base, TypeOK
<1> DEFINE Mailing == \E h \in Handlers : Mail(h)
           Guessing == \E h \in Handlers : CompareWrong(h)
           Using == \E h \in Handlers : SaveUser(h)
           Cutting == \E h \in Handlers : CutShort(h)
<1>1. daily' \in Nat
  BY <1>0 DEF Next, Handle, SendCode, AnswerRight, AnswerWrong, ReadDaily, IncrDaily, SetCode,
              ClearFails, Mail, CompareRight, SaveUser, CompareWrong, IncrFail, ExpireFail,
              DropCode, DropFails, CutShort, Tick, Midnight, store
<1>2. overlapped' \subseteq Handlers /\ \A g \in overlapped : at[g] # "idle" => g \in overlapped'
  <2>1. ASSUME NEW h \in Handlers, NEW pc, NEW a, NEW n, Serve(h, pc, a, n)
        PROVE  /\ overlapped' \subseteq Handlers
               /\ \A g \in overlapped : at[g] # "idle" => g \in overlapped'
    BY <1>0, <2>1 DEF Serve
  <2>2. ASSUME NEW h \in Handlers, Handle(h)
        PROVE  /\ overlapped' \subseteq Handlers
               /\ \A g \in overlapped : at[g] # "idle" => g \in overlapped'
    <3>1. CASE \E a \in Addresses : SendCode(h, a) \/ AnswerRight(h, a) \/ AnswerWrong(h, a)
      BY <2>1, <3>1 DEF SendCode, AnswerRight, AnswerWrong
    <3>2. CASE overlapped' = overlapped
      BY <1>0, <3>2
    <3> QED BY <2>2, <3>1, <3>2
            DEF Handle, ReadDaily, IncrDaily, SetCode, ClearFails, Mail, CompareRight, SaveUser,
                CompareWrong, IncrFail, ExpireFail, DropCode, DropFails, CutShort
  <2>3. Tick \/ Midnight => overlapped' = overlapped
    BY DEF Tick, Midnight
  <2> QED BY <1>0, <2>2, <2>3 DEF Next
<1>3. CASE Mailing
  <2>1. PICK h \in Handlers : Mail(h)
    BY <1>3
  <2>2. req[h].code \in 1..Len(issued)
    BY <2>1, KnownCode DEF Mail, Stored
  <2>3. /\ \/ /\ mailed' = mailed \cup {req[h].code}
              /\ alone' = IF h \in overlapped THEN alone ELSE alone \cup {req[h].code}
           \/ UNCHANGED <<mailed, alone>>
        /\ UNCHANGED <<loose, uncounted, guesses, uses, expired>>
    BY <2>1 DEF Mail
  <2> QED BY <1>0, <1>1, <1>2, <2>1, <2>2, <2>3
<1>4. CASE Guessing
  <2>1. PICK h \in Handlers : CompareWrong(h)
    BY <1>4
  <2>2. req[h].code \in Codes
    BY <2>1, KnownCode DEF CompareWrong, Answering
  <2>3. UNCHANGED <<mailed, alone, loose, uncounted, uses, expired>>
    BY <2>1 DEF CompareWrong
  <2>4. CASE Blocked(h)
    <3>1. guesses' = guesses
      BY <2>1, <2>4 DEF CompareWrong
    <3> QED BY <1>0, <1>1, <1>2, <2>3, <3>1
  <2>5. CASE ~Blocked(h)
    <3> DEFINE k == req[h].code
    <3>1. guesses' = [guesses EXCEPT ![k] =
                          IF guesses[k] < TooMany THEN guesses[k] + 1 ELSE guesses[k]]
      BY <2>1, <2>5 DEF CompareWrong
    <3>2. guesses' \in [Codes -> 0..TooMany]
      BY <1>0, <2>2, <3>1
    <3>3. \A n \in Codes : /\ guesses[n] <= guesses'[n]
                           /\ guesses'[n] # guesses[n] => k = n /\ guesses'[n] = guesses[n] + 1
      BY <1>0, <2>2, <3>1
    <3> QED BY <1>0, <1>1, <1>2, <2>1, <2>3, <2>5, <3>2, <3>3
  <2> QED BY <2>4, <2>5
<1>5. CASE Using
  <2>1. PICK h \in Handlers : SaveUser(h)
    BY <1>5
  <2> DEFINE k == req[h].code
  <2>2. k \in Codes
    BY <2>1, KnownCode DEF SaveUser, Step, Answering
  <2>3. /\ uses' = [uses EXCEPT ![k] = IF uses[k] < 2 THEN uses[k] + 1 ELSE 2]
        /\ loose' = IF h \in overlapped THEN loose \cup {k} ELSE loose
        /\ UNCHANGED <<mailed, alone, uncounted, guesses, expired>>
    BY <2>1 DEF SaveUser
  <2>4. uses' \in [Codes -> 0..2]
    BY <1>0, <2>2, <2>3
  <2>5. \A n \in Codes : /\ uses[n] <= uses'[n]
                         /\ uses'[n] # uses[n] => k = n /\ uses'[n] = uses[n] + 1
    BY <1>0, <2>2, <2>3
  <2>6. /\ loose \subseteq loose' /\ loose' \subseteq Codes
        /\ UNCHANGED <<mailed, alone, uncounted, guesses, expired>>
    BY <1>0, <2>2, <2>3
  <2>7. \A n \in Codes : uses'[n] # uses[n] =>
           \E g \in Handlers : SaveUser(g) /\ req[g].code = n /\ uses'[n] = uses[n] + 1
    BY <2>1, <2>5
  <2>8. \A n \in Codes : uses[n] <= uses'[n]
    BY <2>5
  <2> HIDE DEF k
  <2> QED BY <1>0, <1>1, <1>2, <2>4, <2>6, <2>7, <2>8
<1>6. CASE Cutting
  <2>1. PICK h \in Handlers : CutShort(h)
    BY <1>6
  <2>2. at[h] \in {"drop", "fail"} => req[h].code \in Codes
    BY KnownCode DEF Answering
  <2>3. /\ loose' = IF at[h] = "drop" /\ req[h].fails = 0 THEN loose \cup {req[h].code} ELSE loose
        /\ uncounted' = IF at[h] = "fail" THEN uncounted \cup {req[h].code} ELSE uncounted
        /\ UNCHANGED <<mailed, alone, guesses, uses, expired>>
    BY <2>1 DEF CutShort
  <2> QED BY <1>0, <1>1, <1>2, <2>2, <2>3
<1>7. CASE Tick
  <2>1. /\ expired' = expired \cup {code[a] : a \in {b \in Addresses : codeLeft[b] = 1}}
        /\ UNCHANGED <<mailed, alone, loose, uncounted, guesses, uses>>
    BY <1>7 DEF Tick
  <2>2. \A a \in Addresses : codeLeft[a] = 1 => code[a] \in Codes
    <3>1. \A a \in Addresses : codeLeft[a] = 1 => code[a] # 0 /\ code[a] \in 0..MaxCodes
      BY DEF Base, TypeOK, CodeInv
    <3> QED BY <3>1, Limits DEF Codes
  <2> QED BY <1>0, <1>1, <1>2, <2>1, <2>2
<1>8. CASE UNCHANGED ghosts
  BY <1>0, <1>1, <1>2, <1>8 DEF ghosts
<1>9. ASSUME NEW h \in Handlers, Handle(h)
      PROVE  Mail(h) \/ CompareWrong(h) \/ SaveUser(h) \/ CutShort(h) \/ UNCHANGED ghosts
  BY <1>9 DEF Handle, SendCode, AnswerRight, AnswerWrong, ReadDaily, IncrDaily, SetCode,
              ClearFails, CompareRight, IncrFail, ExpireFail, DropCode, DropFails
<1>10. Midnight => UNCHANGED ghosts
  BY DEF Midnight
<1> QED BY <1>3, <1>4, <1>5, <1>6, <1>7, <1>8, <1>9, <1>10 DEF Next

(* Moving one thread on.                                                   *)
LEMMA Moved ==
    ASSUME Base, NEW h \in Handlers, NEW pc \in Pc, NEW r \in Request \cup {NoRequest},
           at' = [at EXCEPT ![h] = pc], req' = [req EXCEPT ![h] = r]
    PROVE  /\ at' \in [Handlers -> Pc] /\ req' \in [Handlers -> Request \cup {NoRequest}]
           /\ \A g \in Handlers \ {h} : at'[g] = at[g] /\ req'[g] = req[g]
           /\ at'[h] = pc /\ req'[h] = r
BY DEF Base, TypeOK

\* What a request that arrives has looked at, and whom it meets.
Arrives(h) ==
    /\ at[h] = "idle" /\ at'[h] \in {"daily", "right", "wrong"}
    /\ at'[h] # "daily" => req'[h].code # 0 /\ code[req'[h].address] = req'[h].code
    /\ \A g \in Handlers \ {h} : Busy(g, req'[h].address) => g \in overlapped' /\ h \in overlapped'

\* Whether a thread has just failed to answer is told by its step.
Settles(h) ==
    /\ at'[h] = "fail" => CompareWrong(h) /\ ~Blocked(h) /\ req'[h].code = req[h].code
    /\ at[h] = "fail" => IncrFail(h) \/ CutShort(h)
    /\ at'[h] # "wrong" \/ at[h] = "idle"

ThreadGoal(h) ==
    /\ at' \in [Handlers -> Pc] /\ req' \in [Handlers -> Request \cup {NoRequest}]
    /\ \A g \in Handlers \ {h} : at'[g] = at[g] /\ req'[g] = req[g]
    /\ HandlerInv(h)'
    /\ at[h] = "idle" => Arrives(h)
    /\ at[h] # "idle" /\ at'[h] # "idle" => req'[h].address = req[h].address
    /\ Settles(h)

(* A request arrives.                                                      *)
LEMMA ServeStep ==
    ASSUME Base, NEW h \in Handlers, NEW a \in Addresses, NEW n \in 0..MaxCodes,
           NEW pc \in {"daily", "right", "wrong"}, Serve(h, pc, a, n), issued' = issued,
           pc # "daily" => n # 0 /\ code[a] = n
    PROVE  ThreadGoal(h)
<1> DEFINE r == [address |-> a, code |-> n, fails |-> 0]
<1>1. r \in Request
  BY Limits DEF Request
<1>2. /\ at[h] = "idle" /\ at' = [at EXCEPT ![h] = pc] /\ req' = [req EXCEPT ![h] = r]
  BY DEF Serve, Goto
<1>3. /\ at' \in [Handlers -> Pc] /\ req' \in [Handlers -> Request \cup {NoRequest}]
      /\ \A g \in Handlers \ {h} : at'[g] = at[g] /\ req'[g] = req[g]
      /\ at'[h] = pc /\ req'[h] = r
  <2>1. pc \in Pc
    BY DEF Pc
  <2> HIDE DEF r
  <2> QED BY <1>1, <1>2, <2>1, Moved
<1>4. pc # "daily" => n \in 1..Len(issued) /\ issued[n] = a
  BY DEF Base, CodeInv
<1>5. HandlerInv(h)'
  BY <1>1, <1>3, <1>4 DEF HandlerInv, Stored, Answering
<1>6. \A g \in Handlers \ {h} : Busy(g, a) => g \in overlapped' /\ h \in overlapped'
  BY DEF Serve, Busy
<1>7. Arrives(h)
  BY <1>2, <1>3, <1>6 DEF Arrives
<1> QED BY <1>2, <1>3, <1>5, <1>7 DEF ThreadGoal, Settles

(* A request ends.                                                         *)
LEMMA EndStep ==
    ASSUME Base, NEW h \in Handlers, at[h] # "idle", End(h),
           at[h] = "fail" => IncrFail(h) \/ CutShort(h)
    PROVE  ThreadGoal(h)
<1>1. /\ at' \in [Handlers -> Pc] /\ req' \in [Handlers -> Request \cup {NoRequest}]
      /\ \A g \in Handlers \ {h} : at'[g] = at[g] /\ req'[g] = req[g]
      /\ at'[h] = "idle" /\ req'[h] = NoRequest
  <2>1. "idle" \in Pc /\ at' = [at EXCEPT ![h] = "idle"] /\ req' = [req EXCEPT ![h] = NoRequest]
    BY DEF End, Goto, Pc
  <2> QED BY <2>1, Moved
<1> QED BY <1>1 DEF ThreadGoal, HandlerInv, Settles, Stored, Answering

(* A request goes on with the code it had.                                 *)
LEMMA GoOn ==
    ASSUME Base, NEW h \in Handlers, at[h] # "idle", NEW pc \in Pc \ {"idle", "wrong"},
           NEW count \in 0..Most,
           Goto(h, pc), req' = [req EXCEPT ![h].fails = count], issued' = issued,
           at[h] \in Stored \cup Answering \/ pc \notin Stored \cup Answering,
           pc \in {"right", "save"} => count = 0,
           pc = "expire" => count = 1,
           pc = "fail" => CompareWrong(h) /\ ~Blocked(h),
           at[h] = "fail" => IncrFail(h)
    PROVE  ThreadGoal(h)
<1>1. req[h] \in Request
  BY DEF Base, HandlerInv
<1> DEFINE r == [req[h] EXCEPT !.fails = count]
<1>2. /\ r \in Request /\ r.address = req[h].address /\ r.code = req[h].code /\ r.fails = count
  BY <1>1 DEF Request
<1>3. /\ at' = [at EXCEPT ![h] = pc] /\ req' = [req EXCEPT ![h] = r]
  BY DEF Goto
<1> HIDE DEF r
<1>4. /\ at' \in [Handlers -> Pc] /\ req' \in [Handlers -> Request \cup {NoRequest}]
      /\ \A g \in Handlers \ {h} : at'[g] = at[g] /\ req'[g] = req[g]
      /\ at'[h] = pc /\ req'[h] = r
  BY <1>2, <1>3, Moved
<1>5. HandlerInv(h)'
  BY <1>2, <1>4 DEF Base, HandlerInv
<1> QED BY <1>2, <1>4, <1>5 DEF ThreadGoal, Settles

(* ... and the failures, too.                                              *)
LEMMA StepOn ==
    ASSUME Base, NEW h \in Handlers, NEW here \in Pc \ {"idle", "fail"},
           NEW next \in Pc \ {"idle", "wrong", "fail", "expire"},
           Step(h, here, next), issued' = issued,
           here \in Stored \cup Answering \/ next \notin Stored \cup Answering,
           next \in {"right", "save"} => here = "right"
    PROVE  ThreadGoal(h)
<1>1. at[h] = here /\ Goto(h, next) /\ req' = req
  BY DEF Step
<1>2. req[h] \in Request /\ (next \in {"right", "save"} => req[h].fails = 0)
  BY <1>1 DEF Base, HandlerInv
<1>3. req' = [req EXCEPT ![h].fails = req[h].fails] /\ req[h].fails \in 0..Most
  <2>1. [req[h] EXCEPT !.fails = req[h].fails] = req[h]
    BY <1>2 DEF Request
  <2>2. req \in [Handlers -> Request \cup {NoRequest}]
    BY DEF Base, TypeOK
  <2> QED BY <1>1, <1>2, <2>1, <2>2 DEF Request
<1> QED BY <1>1, <1>2, <1>3, GoOn

(* There is room for every failure that is being counted.                  *)
LEMMA FailRoom ==
    ASSUME Base, NEW h \in Handlers, at[h] = "fail"
    PROVE  fails[req[h].address] + 1 \in 1..Most
<1> DEFINE a == req[h].address
           F == FailingAt(a)
<1>1. a \in Addresses /\ fails[a] \in Nat /\ Load(a)
  <2>1. a \in Addresses
    BY KnownCode DEF Answering
  <2>2. fails[a] \in 0..Most /\ Load(a)
    BY <2>1 DEF Base, TypeOK
  <2> QED BY <2>1, <2>2, Limits
<1>2. F \in SUBSET Handlers /\ h \in F
  BY DEF FailingAt
<1>3. /\ Cardinality(F \ {h}) \in Nat /\ Cardinality(F) \in Nat
      /\ Cardinality(F \ {h}) = Cardinality(F) - 1
  <2> HIDE DEF F
  <2>1. F \ {h} \in SUBSET Handlers
    BY <1>2
  <2> QED BY <1>2, <2>1, Threads
<1>4. fails[a] + Cardinality(F) <= MaxFails + Cardinality(Handlers) - 1
  BY <1>1 DEF Load
<1> HIDE DEF F, a
<1>5. fails[a] + 1 \in 1..Most
  BY <1>1, <1>3, <1>4, Limits
<1> QED BY <1>5 DEF a

(* What the steps of a request do to its thread.                           *)
LEMMA ThreadStep ==
    ASSUME Base, NEW h \in Handlers, Handle(h)
    PROVE  ThreadGoal(h)
<1>0. at[h] \in Pc
  BY DEF Base, TypeOK
<1>1. ASSUME NEW a \in Addresses, SendCode(h, a) \/ AnswerRight(h, a) \/ AnswerWrong(h, a)
      PROVE  ThreadGoal(h)
  <2>1. CASE SendCode(h, a)
    BY <2>1, ServeStep, Limits DEF SendCode
  <2>2. code[a] \in 0..MaxCodes /\ (code[a] \in mailed => code[a] # 0)
    BY DEF Base, TypeOK, Codes
  <2>3. CASE AnswerRight(h, a)
    <3>1. Serve(h, "right", a, code[a]) /\ issued' = issued /\ code[a] # 0
      BY <2>2, <2>3 DEF AnswerRight
    <3> QED BY <2>2, <3>1, ServeStep
  <2>4. CASE AnswerWrong(h, a)
    <3>1. Serve(h, "wrong", a, code[a]) /\ issued' = issued /\ code[a] # 0
      BY <2>4 DEF AnswerWrong
    <3> QED BY <2>2, <3>1, ServeStep
  <2> QED BY <1>1, <2>1, <2>3, <2>4
<1>2. CASE ReadDaily(h)
  <2>1. at[h] = "daily" /\ issued' = issued
    BY <1>2 DEF ReadDaily, Step
  <2>2. CASE End(h)
    BY <2>1, <2>2, EndStep
  <2>3. CASE Step(h, "daily", "count")
    BY <2>1, <2>3, StepOn DEF Pc, Stored, Answering
  <2> QED BY <1>2, <2>2, <2>3 DEF ReadDaily
<1>3. CASE IncrDaily(h)
  BY <1>3, StepOn DEF IncrDaily, Pc, Stored, Answering
<1>4. CASE SetCode(h)
  <2> DEFINE n == Len(issued) + 1
             r == [req[h] EXCEPT !.code = n]
  <2>1. /\ at[h] = "store" /\ at' = [at EXCEPT ![h] = "clear"]
        /\ req' = [req EXCEPT ![h] = r]
    BY <1>4 DEF SetCode, Goto
  <2>2. /\ req[h] \in Request
        /\ n \in Codes /\ Len(issued') = n /\ issued'[n] = req[h].address
    BY <1>4, <2>1, NewCode DEF Base, HandlerInv
  <2>3. r \in Request /\ r.address = req[h].address /\ r.code = n
    <3>1. n \in 0..MaxCodes
      BY <2>2, Limits DEF Codes
    <3> HIDE DEF n
    <3> QED BY <2>2, <3>1 DEF Request
  <2> HIDE DEF r
  <2>4. /\ at' \in [Handlers -> Pc] /\ req' \in [Handlers -> Request \cup {NoRequest}]
        /\ \A g \in Handlers \ {h} : at'[g] = at[g] /\ req'[g] = req[g]
        /\ at'[h] = "clear" /\ req'[h] = r
    BY <2>1, <2>3, Moved DEF Pc
  <2>5. HandlerInv(h)'
    <3>1. n \in 1..Len(issued')
      BY <2>2 DEF Codes
    <3> QED BY <2>2, <2>3, <2>4, <3>1 DEF HandlerInv, Stored, Answering
  <2> QED BY <2>1, <2>3, <2>4, <2>5 DEF ThreadGoal, Settles
<1>5. CASE ClearFails(h)
  BY <1>5, StepOn DEF ClearFails, Pc, Stored, Answering
<1>6. CASE Mail(h) \/ DropFails(h) \/ CutShort(h)
  BY <1>6, EndStep DEF Mail, DropFails, CutShort, store
<1>7. CASE CompareRight(h)
  <2>1. at[h] = "right" /\ issued' = issued
    BY <1>7 DEF CompareRight, Step
  <2>2. CASE End(h)
    BY <2>1, <2>2, EndStep
  <2>3. CASE Step(h, "right", "save")
    BY <2>1, <2>3, StepOn DEF Pc, Stored, Answering
  <2> QED BY <1>7, <2>2, <2>3 DEF CompareRight
<1>8. CASE SaveUser(h)
  BY <1>8, StepOn DEF SaveUser, Pc, Stored, Answering
<1>9. CASE CompareWrong(h)
  <2>1. CASE Blocked(h)
    BY <1>9, <2>1, EndStep DEF CompareWrong
  <2>2. CASE ~Blocked(h)
    <3>1. /\ at[h] = "wrong" /\ Goto(h, "fail") /\ issued' = issued
          /\ req' = [req EXCEPT ![h].fails = fails[req[h].address]]
      BY <1>9, <2>2 DEF CompareWrong
    <3>2. fails[req[h].address] \in 0..Most
      BY <3>1, KnownCode DEF Base, TypeOK, Answering
    <3> QED BY <1>9, <2>2, <3>1, <3>2, GoOn DEF Pc, Stored, Answering
  <2> QED BY <2>1, <2>2
<1>10. ASSUME NEW count \in 0..Most, Failed(h, count), at[h] \in {"fail", "expire"},
              at[h] = "fail" => IncrFail(h), issued' = issued
       PROVE  ThreadGoal(h)
  <2>1. CASE count >= MaxFails
    <3>1. Goto(h, "drop") /\ req' = [req EXCEPT ![h].fails = count]
      BY <1>10, <2>1 DEF Failed
    <3> QED BY <1>10, <3>1, GoOn DEF Pc, Stored, Answering
  <2>2. CASE ~(count >= MaxFails)
    BY <1>10, <2>2, EndStep DEF Failed
  <2> QED BY <2>1, <2>2
<1>11. CASE IncrFail(h)
  <2> DEFINE count == fails[req[h].address] + 1
  <2>1. /\ at[h] = "fail" /\ issued' = issued
        /\ IF count = 1 THEN Goto(h, "expire") /\ req' = [req EXCEPT ![h].fails = count]
                        ELSE Failed(h, count)
    BY <1>11 DEF IncrFail
  <2>2. count \in 0..Most
    BY <2>1, FailRoom, Limits
  <2> HIDE DEF count
  <2>3. CASE count = 1
    BY <1>11, <2>1, <2>2, <2>3, GoOn DEF Pc, Stored, Answering
  <2>4. CASE count # 1
    BY <1>10, <1>11, <2>1, <2>2, <2>4
  <2> QED BY <2>3, <2>4
<1>12. CASE ExpireFail(h)
  <2>1. at[h] = "expire" /\ issued' = issued /\ Failed(h, req[h].fails)
    BY <1>12 DEF ExpireFail
  <2>2. req[h].fails \in 0..Most
    BY <2>1, KnownCode DEF Answering
  <2> QED BY <1>10, <2>1, <2>2
<1>13. CASE DropCode(h)
  BY <1>13, StepOn DEF DropCode, Pc, Stored, Answering
<1> QED BY <1>1, <1>2, <1>3, <1>4, <1>5, <1>6, <1>7, <1>8, <1>9, <1>11, <1>12, <1>13 DEF Handle

(* The failures of an address and the requests that are about to count one.*)
LEMMA LoadStep ==
    ASSUME Base, Next, NEW a \in Addresses
    PROVE  Load(a)'
<1> DEFINE F == FailingAt(a)
           room == MaxFails + Cardinality(Handlers) - 1
<1>0. /\ fails[a] \in Nat /\ fails'[a] \in Nat
      /\ F \in SUBSET Handlers /\ F' \in SUBSET Handlers
      /\ fails[a] + Cardinality(F) <= room
      /\ Cardinality(F) \in Nat /\ Cardinality(F') \in Nat
      /\ Cardinality(F') <= Cardinality(Handlers)
      /\ room \in Nat
  <2>1. fails[a] \in Nat /\ fails'[a] \in Nat
    BY KeysStep
  <2>2. F \in SUBSET Handlers /\ F' \in SUBSET Handlers
    BY DEF FailingAt
  <2>3. fails[a] + Cardinality(F) <= room
    BY DEF Base, Load
  <2> HIDE DEF F
  <2> QED BY <2>1, <2>2, <2>3, Threads, Limits
<1>1. CASE \E h \in Handlers : CompareWrong(h) /\ ~Blocked(h) /\ req[h].address = a
  <2>1. PICK h \in Handlers : CompareWrong(h) /\ ~Blocked(h) /\ req[h].address = a
    BY <1>1
  <2>2. ~IncrFail(h) /\ ~ClearFails(h) /\ ~DropFails(h) /\ fails' = fails
    BY <2>1 DEF CompareWrong, store, IncrFail, ClearFails, DropFails, Step
  <2>3. fails[a] < MaxFails
    BY <1>0, <2>1, Limits DEF Blocked
  <2> HIDE DEF F
  <2> QED BY <1>0, <2>2, <2>3, Limits DEF Load, F
<1>2. CASE \E h \in Handlers : IncrFail(h) /\ req[h].address = a
  <2>1. PICK h \in Handlers : IncrFail(h) /\ req[h].address = a
    BY <1>2
  <2>2. fails'[a] = fails[a] + 1 /\ at[h] = "fail"
    BY <2>1 DEF IncrFail, Base, TypeOK
  <2>3. ThreadGoal(h)
    BY <2>1, ThreadStep DEF Handle
  <2>4. at'[h] # "fail"
    BY <2>1, <2>2, <2>3 DEF ThreadGoal, Settles, CompareWrong
  <2>5. h \in F /\ F' = F \ {h}
    BY <2>1, <2>2, <2>3, <2>4 DEF FailingAt, ThreadGoal
  <2> HIDE DEF F
  <2>6. Cardinality(F') = Cardinality(F) - 1
    BY <1>0, <2>5, Threads
  <2> QED BY <1>0, <2>2, <2>6 DEF Load, F
<1>3. CASE ~(\E h \in Handlers : /\ req[h].address = a
                                 /\ (CompareWrong(h) /\ ~Blocked(h)) \/ IncrFail(h))
  <2>1. fails'[a] <= fails[a]
    BY <1>0, <1>3, KeysStep
  <2>2. F' \subseteq F
    <3>1. CASE \E h \in Handlers : Handle(h)
      <4>1. PICK h \in Handlers : Handle(h)
        BY <3>1
      <4>2. ThreadGoal(h)
        BY <4>1, ThreadStep
      <4>3. at'[h] = "fail" => req'[h].address # a
        BY <1>3, <4>2 DEF ThreadGoal, Settles, CompareWrong
      <4> QED BY <4>2, <4>3 DEF ThreadGoal, FailingAt
    <3>2. CASE Tick \/ Midnight
      BY <3>2 DEF Tick, Midnight, FailingAt
    <3> QED BY <3>1, <3>2 DEF Next
  <2> HIDE DEF F
  <2>3. Cardinality(F') <= Cardinality(F)
    <3>1. IsFiniteSet(F)
      BY <1>0, Threads
    <3> QED BY <2>2, <3>1, FS_Subset
  <2> QED BY <1>0, <2>1, <2>3 DEF Load, F
<1> QED BY <1>1, <1>2, <1>3

(* Every step keeps it.                                                    *)
LEMMA BaseStep == Base /\ [Next]_vars => Base'
<1> SUFFICES ASSUME Base, [Next]_vars PROVE Base'
  OBVIOUS
<1>1. CASE UNCHANGED vars
  <2>1. /\ UNCHANGED <<code, codeLeft, fails, failsLeft, daily, at, req, issued, overlapped>>
        /\ UNCHANGED <<mailed, alone, loose, uncounted, guesses, uses, expired>>
    BY <1>1 DEF vars, store, ghosts
  <2>2. TypeOK'
    BY <2>1 DEF Base, TypeOK
  <2>3. \A h \in Handlers : HandlerInv(h)'
    BY <2>1 DEF Base, HandlerInv
  <2>4. \A a \in Addresses : CodeInv(a)' /\ Load(a)'
    BY <2>1 DEF Base, CodeInv, Newest, Load, FailingAt
  <2>5. \A g, h \in Handlers : Overlap(g, h)'
    BY <2>1 DEF Base, Overlap, Busy
  <2> QED BY <2>1, <2>2, <2>3, <2>4, <2>5 DEF Base
<1>2. CASE Next
  <2>0. \/ \E h \in Handlers : Handle(h)
        \/ UNCHANGED <<at, req, overlapped, issued>>
    BY <1>2 DEF Next, Tick, Midnight
  <2>1. TypeOK'
    <3>1. /\ at' \in [Handlers -> Pc] /\ req' \in [Handlers -> Request \cup {NoRequest}]
      BY <2>0, ThreadStep DEF ThreadGoal, Base, TypeOK
    <3>2. /\ code' \in [Addresses -> 0..MaxCodes] /\ codeLeft' \in [Addresses -> 0..Lifetime]
          /\ failsLeft' \in [Addresses -> 0..Forever] /\ fails' \in [Addresses -> Nat]
      <4>1. CASE Addresses = {}
        <5>1. ASSUME NEW h \in Handlers, Handle(h)
              PROVE  FALSE
          <6>1. at[h] = "idle"
            BY <4>1 DEF Base, HandlerInv, Request
          <6> QED BY <4>1, <5>1, <6>1
                  DEF Handle, ReadDaily, IncrDaily, SetCode, ClearFails, Mail, CompareRight,
                      SaveUser, CompareWrong, IncrFail, ExpireFail, DropCode, DropFails,
                      CutShort, Step
        <5>2. Midnight
          BY <1>2, <4>1, <5>1 DEF Next, Tick
        <5>3. UNCHANGED <<code, codeLeft, fails, failsLeft>>
          BY <5>2 DEF Midnight
        <5>4. fails \in [Addresses -> Nat]
          BY <4>1 DEF Base, TypeOK
        <5> QED BY <5>3, <5>4 DEF Base, TypeOK
      <4>2. CASE Addresses # {}
        <5>1. PICK a \in Addresses : TRUE
          BY <4>2
        <5> QED BY <1>2, <5>1, KeysStep
      <4> QED BY <4>1, <4>2
    <3>3. fails' \in [Addresses -> 0..Most]
      <4>1. ASSUME NEW a \in Addresses
            PROVE  fails'[a] \in 0..Most
        <5>1. Load(a)'
          BY <1>2, <4>1, LoadStep
        <5>2. fails'[a] \in Nat
          BY <3>2
        <5>3. FailingAt(a)' \in SUBSET Handlers
          BY DEF FailingAt
        <5>4. Cardinality(FailingAt(a)') \in Nat
          BY <5>3, Threads
        <5> QED BY <5>1, <5>2, <5>4, Limits DEF Load
      <4> QED BY <3>2, <4>1
    <3>4. alone' \subseteq mailed' /\ mailed' \subseteq Codes
      <4>1. 1..Len(issued) \subseteq Codes
        BY <1>2, IssuedStep, Limits DEF Base, TypeOK, Codes
      <4> QED BY <1>2, <4>1, GhostStep
    <3> QED BY <1>2, <3>1, <3>2, <3>3, <3>4, IssuedStep, GhostStep DEF TypeOK
  <2>2. ASSUME NEW g \in Handlers PROVE HandlerInv(g)'
    <3>1. HandlerInv(g) /\ at[g] \in Pc
      BY DEF Base, TypeOK
    <3>2. CASE at'[g] = at[g] /\ req'[g] = req[g]
      BY <1>2, <3>1, <3>2, IssuedStep DEF HandlerInv
    <3>3. CASE Handle(g)
      BY <3>3, ThreadStep DEF ThreadGoal
    <3> QED BY <2>0, <3>2, <3>3, ThreadStep DEF ThreadGoal
  <2>3. ASSUME NEW a \in Addresses PROVE CodeInv(a)' /\ Load(a)'
    <3>1. Load(a)'
      BY <1>2, LoadStep
    <3>2. code'[a] # 0 <=> codeLeft'[a] > 0
      BY <1>2, KeysStep
    <3>3. ASSUME NEW h \in Handlers, SetCode(h)
          PROVE  CodeInv(a)'
      <4> DEFINE n == Len(issued) + 1
      <4>1. /\ n \in Codes /\ Len(issued') = n /\ issued'[n] = req[h].address
            /\ code' = [code EXCEPT ![req[h].address] = n] /\ code \in [Addresses -> 0..MaxCodes]
            /\ req[h].address \in Addresses
        BY <3>3, NewCode DEF Base, TypeOK
      <4>2. n \in 1..Len(issued') /\ Len(issued) \in Nat
        BY <1>2, <4>1, IssuedStep
      <4>3. CASE a = req[h].address
        <5>1. code'[a] = n
          BY <4>1, <4>3
        <5>2. code'[a] = Len(issued') /\ code'[a] \in 1..Len(issued') /\ issued'[code'[a]] = a
          BY <4>1, <4>2, <4>3, <5>1
        <5>3. \A later \in (code'[a] + 1)..Len(issued') : issued'[later] # issued'[code'[a]]
          BY <4>2, <5>2
        <5> QED BY <3>2, <5>2, <5>3 DEF CodeInv, Newest
      <4>4. CASE a # req[h].address
        <5>1. code'[a] = code[a] /\ CodeInv(a)
          BY <4>1, <4>4 DEF Base
        <5>2. CASE code[a] = 0
          BY <3>2, <5>1, <5>2 DEF CodeInv
        <5>3. CASE code[a] # 0
          <6>1. code[a] \in 1..Len(issued) /\ issued[code[a]] = a /\ Newest(code[a])
            BY <5>1, <5>3 DEF CodeInv
          <6>2. code[a] \in 1..Len(issued') /\ issued'[code[a]] = a
            BY <1>2, <6>1, IssuedStep
          <6>3. \A later \in (code[a] + 1)..Len(issued') : issued'[later] # a
            <7> SUFFICES ASSUME NEW later \in (code[a] + 1)..Len(issued')
                         PROVE  issued'[later] # a
              OBVIOUS
            <7>1. later = n \/ later \in (code[a] + 1)..Len(issued)
              BY <4>1, <4>2, <6>1
            <7>2. CASE later \in (code[a] + 1)..Len(issued)
              BY <1>2, <4>2, <6>1, <7>2, IssuedStep DEF Newest
            <7> QED BY <4>1, <4>4, <7>1, <7>2
          <6> QED BY <3>2, <5>1, <6>2, <6>3 DEF CodeInv, Newest
        <5> QED BY <5>2, <5>3
      <4> QED BY <4>3, <4>4
    <3>4. CASE issued' = issued /\ ~(\E h \in Handlers : SetCode(h))
      <4>1. code'[a] = code[a] \/ code'[a] = 0
        BY <1>2, <3>4, KeysStep
      <4>2. CodeInv(a)
        BY DEF Base
      <4>3. CASE code'[a] = 0
        BY <3>1, <3>2, <4>3 DEF CodeInv
      <4>4. CASE code'[a] = code[a]
        BY <3>1, <3>2, <3>4, <4>2, <4>4 DEF CodeInv, Newest
      <4> QED BY <4>1, <4>3, <4>4
    <3> QED BY <1>2, <3>1, <3>3, <3>4, IssuedStep
  <2>4. ASSUME NEW f \in Handlers, NEW g \in Handlers PROVE Overlap(f, g)'
    <3> SUFFICES ASSUME f # g, at'[f] # "idle", at'[g] # "idle",
                        req'[g].address = req'[f].address
                 PROVE  f \in overlapped'
      BY DEF Overlap, Busy
    <3>1. CASE /\ at[f] # "idle" /\ at[g] # "idle"
               /\ req'[f].address = req[f].address /\ req'[g].address = req[g].address
      <4>1. f \in overlapped
        BY <3>1, Alone
      <4> QED BY <1>2, <3>1, <4>1, GhostStep
    <3>2. ASSUME NEW h \in Handlers, Handle(h)
          PROVE  f \in overlapped'
      <4>1. ThreadGoal(h)
        BY <3>2, ThreadStep
      <4>2. CASE at[h] = "idle" /\ h \in {f, g}
        BY <4>1, <4>2 DEF ThreadGoal, Arrives, Busy
      <4>3. CASE at[h] # "idle" \/ h \notin {f, g}
        BY <3>1, <4>1, <4>3 DEF ThreadGoal
      <4> QED BY <4>2, <4>3
    <3> QED BY <2>0, <3>1, <3>2
  <2>5. mailed' \subseteq 1..Len(issued')
    BY <1>2, GhostStep, IssuedStep
  <2>6. ASSUME NEW n \in Codes, n > Len(issued')
        PROVE  guesses'[n] = 0 /\ uses'[n] = 0
    <3>1. n > Len(issued) /\ n \in Nat
      BY <1>2, <2>6, IssuedStep DEF Codes
    <3>2. \A h \in Handlers : at[h] \in Answering => req[h].code # n
      BY <1>2, <3>1, KnownCode, IssuedStep
    <3>3. guesses'[n] = guesses[n]
      BY <1>2, <3>2, GhostStep DEF CompareWrong, Answering
    <3>4. uses'[n] = uses[n]
      BY <1>2, <3>2, GhostStep DEF SaveUser, Step, Answering
    <3> QED BY <3>1, <3>3, <3>4 DEF Base
  <2> QED BY <2>1, <2>2, <2>3, <2>4, <2>5, <2>6 DEF Base
<1> QED BY <1>1, <1>2

(* It holds at first.                                                      *)
LEMMA BaseInit == Init => Base
<1> SUFFICES ASSUME Init PROVE Base
  OBVIOUS
<1>1. TypeOK
  <2>1. <<>> \in Seq(Addresses) /\ Len(<<>>) = 0
    BY EmptySeq
  <2> QED BY <2>1, Limits DEF Init, TypeOK, Pc, Codes
<1>2. ASSUME NEW a \in Addresses
      PROVE  CodeInv(a) /\ Load(a)
  <2>1. FailingAt(a) = {}
    BY DEF Init, FailingAt
  <2> QED BY <2>1, Limits, FS_EmptySet DEF Init, CodeInv, Load
<1> QED BY <1>1, <1>2 DEF Init, Base, HandlerInv, Overlap, Stored, Answering

(* It always holds.                                                        *)
THEOREM BaseInvariance == Spec => []Base
BY BaseInit, BaseStep, PTL DEF Spec

(* Every reachable state is well-typed; in particular a failure counter    *)
(* passes its limit at most by one for each other thread.                  *)
THEOREM TypeCorrect == Spec => []TypeOK
<1>1. Base => TypeOK
  BY DEF Base
<1> QED BY <1>1, BaseInvariance, PTL

-----------------------------------------------------------------------------
(* Where a thread comes from, and where it goes.                           *)
LEMMA Whence ==
    ASSUME Base, NEW h \in Handlers, Handle(h)
    PROVE  /\ at'[h] = "clear" => SetCode(h)
           /\ at'[h] = "mail" => ClearFails(h)
           /\ at'[h] \in {"right", "wrong"} => at[h] = "idle"
           /\ at'[h] = "save" => CompareRight(h)
           /\ at'[h] = "fail" => CompareWrong(h) /\ ~Blocked(h)
           /\ at'[h] = "expire" => IncrFail(h)
           /\ at'[h] = "drop" =>
                 \/ SaveUser(h)
                 \/ IncrFail(h) /\ fails[req[h].address] + 1 >= MaxFails
                 \/ ExpireFail(h) /\ req[h].fails >= MaxFails
           /\ at'[h] = "dropFails" => DropCode(h)
           /\ at[h] = "drop" => DropCode(h) \/ CutShort(h)
           /\ at[h] = "wrong" => CompareWrong(h) \/ CutShort(h)
           /\ at'[h] \in Answering /\ at[h] # "idle" =>
                 at[h] \in Answering /\ req'[h].code = req[h].code
<1> DEFINE Goal == /\ at'[h] = "clear" => SetCode(h)
                   /\ at'[h] = "mail" => ClearFails(h)
                   /\ at'[h] \in {"right", "wrong"} => at[h] = "idle"
                   /\ at'[h] = "save" => CompareRight(h)
                   /\ at'[h] = "fail" => CompareWrong(h) /\ ~Blocked(h)
                   /\ at'[h] = "expire" => IncrFail(h)
                   /\ at'[h] = "drop" =>
                         \/ SaveUser(h)
                         \/ IncrFail(h) /\ fails[req[h].address] + 1 >= MaxFails
                         \/ ExpireFail(h) /\ req[h].fails >= MaxFails
                   /\ at'[h] = "dropFails" => DropCode(h)
                   /\ at[h] = "drop" => DropCode(h) \/ CutShort(h)
                   /\ at[h] = "wrong" => CompareWrong(h) \/ CutShort(h)
                   /\ at'[h] \in Answering /\ at[h] # "idle" =>
                         at[h] \in Answering /\ req'[h].code = req[h].code
<1> SUFFICES Goal
  OBVIOUS
<1>0. at \in [Handlers -> Pc] /\ req \in [Handlers -> Request \cup {NoRequest}]
  BY DEF Base, TypeOK
<1>1. ASSUME NEW pc, Goto(h, pc)
      PROVE  at'[h] = pc
  BY <1>0, <1>1 DEF Goto
<1>2. End(h) => at'[h] = "idle"
  BY <1>1 DEF End
<1>3. ASSUME NEW count, req' = [req EXCEPT ![h].fails = count]
      PROVE  req'[h].code = req[h].code
  BY <1>0, <1>3
<1>4. CASE \E a \in Addresses : SendCode(h, a) \/ AnswerRight(h, a) \/ AnswerWrong(h, a)
  <2>1. at[h] = "idle" /\ at'[h] \in {"daily", "right", "wrong"}
    BY <1>1, <1>4 DEF SendCode, AnswerRight, AnswerWrong, Serve
  <2> QED BY <2>1 DEF Answering
<1>5. CASE ReadDaily(h) \/ IncrDaily(h) \/ SetCode(h) \/ ClearFails(h)
  <2>1. /\ at[h] \in {"daily", "count", "store", "clear"}
        /\ at'[h] \in {"idle", "count", "store", "clear", "mail"}
        /\ at'[h] = "clear" => SetCode(h)
        /\ at'[h] = "mail" => ClearFails(h)
    BY <1>1, <1>2, <1>5 DEF ReadDaily, IncrDaily, SetCode, ClearFails, Step
  <2> QED BY <2>1 DEF Answering
<1>6. CASE Mail(h) \/ DropFails(h)
  <2>1. at[h] \in {"mail", "dropFails"} /\ at'[h] = "idle"
    BY <1>2, <1>6 DEF Mail, DropFails
  <2> QED BY <2>1 DEF Answering
<1>7. CASE CutShort(h)
  <2>1. at'[h] = "idle"
    BY <1>2, <1>7 DEF CutShort
  <2> QED BY <1>7, <2>1 DEF Answering
<1>8. CASE CompareRight(h)
  <2>1. at[h] = "right" /\ (at'[h] = "idle" \/ (at'[h] = "save" /\ req' = req))
    <3>1. CASE Blocked(h)
      <4>1. at[h] = "right" /\ End(h)
        BY <1>8, <3>1 DEF CompareRight, Step
      <4> QED BY <1>2, <4>1
    <3>2. CASE ~Blocked(h)
      <4>1. at[h] = "right" /\ Goto(h, "save") /\ req' = req
        BY <1>8, <3>2 DEF CompareRight, Step
      <4> QED BY <1>1, <4>1
    <3> QED BY <3>1, <3>2
  <2> QED BY <1>8, <2>1 DEF Answering
<1>9. CASE CompareWrong(h)
  <2>1. /\ at[h] = "wrong"
        /\ \/ at'[h] = "idle"
           \/ at'[h] = "fail" /\ ~Blocked(h) /\ req'[h].code = req[h].code
    BY <1>1, <1>2, <1>3, <1>9 DEF CompareWrong
  <2> QED BY <1>9, <2>1 DEF Answering
<1>10. CASE SaveUser(h) \/ DropCode(h)
  <2>1. \/ SaveUser(h) /\ at[h] = "save" /\ at'[h] = "drop" /\ req' = req
        \/ DropCode(h) /\ at[h] = "drop" /\ at'[h] = "dropFails" /\ req' = req
    BY <1>1, <1>10 DEF SaveUser, DropCode, Step
  <2> QED BY <2>1 DEF Answering
<1>11. CASE IncrFail(h)
  <2>1. /\ at[h] = "fail"
        /\ \/ at'[h] = "idle"
           \/ at'[h] = "expire" /\ req'[h].code = req[h].code
           \/ /\ at'[h] = "drop" /\ req'[h].code = req[h].code
              /\ fails[req[h].address] + 1 >= MaxFails
    BY <1>1, <1>2, <1>3, <1>11 DEF IncrFail, Failed
  <2> QED BY <1>11, <2>1 DEF Answering
<1>12. CASE ExpireFail(h)
  <2>1. /\ at[h] = "expire"
        /\ \/ at'[h] = "idle"
           \/ at'[h] = "drop" /\ req'[h].code = req[h].code /\ req[h].fails >= MaxFails
    BY <1>1, <1>2, <1>3, <1>12 DEF ExpireFail, Failed
  <2> QED BY <1>12, <2>1 DEF Answering
<1> QED BY <1>4, <1>5, <1>6, <1>7, <1>8, <1>9, <1>10, <1>11, <1>12 DEF Handle

(* A thread that takes no step stays where it is.                          *)
LEMMA OthersStay ==
    ASSUME Base, Next, NEW g \in Handlers
    PROVE  Handle(g) \/ (at'[g] = at[g] /\ req'[g] = req[g])
<1>1. CASE \E h \in Handlers : Handle(h)
  <2>1. PICK h \in Handlers : Handle(h)
    BY <1>1
  <2>2. ThreadGoal(h)
    BY <2>1, ThreadStep
  <2>3. CASE g = h
    BY <2>1, <2>3
  <2>4. CASE g # h
    BY <2>2, <2>4 DEF ThreadGoal
  <2> QED BY <2>3, <2>4
<1>2. CASE Tick \/ Midnight
  BY <1>2 DEF Tick, Midnight
<1> QED BY <1>1, <1>2 DEF Next

(* Who met nobody is the only one at work on its address.                  *)
LEMMA OnlyOne ==
    ASSUME Base, NEW h \in Handlers, at[h] # "idle", h \notin overlapped
    PROVE  \A g \in Handlers \ {h} : ~Busy(g, req[h].address)
BY Alone DEF Busy

(* An address has one newest code.                                         *)
LEMMA OneNewest ==
    ASSUME Base, NEW m \in 1..Len(issued), NEW n \in 1..Len(issued),
           issued[m] = issued[n], Newest(m), Newest(n)
    PROVE  m = n
<1>1. Len(issued) \in Nat
  BY LenProperties DEF Base, TypeOK
<1> QED BY <1>1 DEF Newest

-----------------------------------------------------------------------------
(* A code verifies once: as long as the request that used it has not       *)
(* deleted it, everybody else who has it is marked, and once it is deleted *)
(* nobody comes by it any more.                                            *)
UseInv(n) ==
    n \notin loose =>
        /\ uses[n] <= 1
        /\ uses[n] = 1 =>
              /\ \A g \in Handlers :
                    at[g] \in {"right", "save"} /\ req[g].code = n => g \in overlapped
              /\ code[issued[n]] = n =>
                    \E h \in Handlers : at[h] = "drop" /\ req[h].fails = 0 /\ req[h].code = n

(* No step of any thread makes a second use unmarked.                      *)
LEMMA UseStep ==
    ASSUME Base, Next, NEW n \in Codes, UseInv(n)
    PROVE  UseInv(n)'
<1> SUFFICES ASSUME n \notin loose' PROVE (uses[n] <= 1)' /\ (uses[n] = 1 =>
              /\ \A g \in Handlers :
                    at[g] \in {"right", "save"} /\ req[g].code = n => g \in overlapped
              /\ code[issued[n]] = n =>
                    \E h \in Handlers : at[h] = "drop" /\ req[h].fails = 0 /\ req[h].code = n)'
  BY DEF UseInv
<1>0. /\ n \notin loose /\ uses[n] <= 1
      /\ uses[n] \in 0..2 /\ uses'[n] \in 0..2 /\ uses[n] <= uses'[n]
  BY GhostStep DEF UseInv, Base, TypeOK
<1>1. CASE \E h \in Handlers : SaveUser(h) /\ req[h].code = n
  <2>1. PICK h \in Handlers : SaveUser(h) /\ req[h].code = n
    BY <1>1
  <2>2. /\ at[h] = "save" /\ req' = req /\ code' = code /\ issued' = issued
        /\ at' = [at EXCEPT ![h] = "drop"]
        /\ uses' = [uses EXCEPT ![n] = IF uses[n] < 2 THEN uses[n] + 1 ELSE 2]
        /\ h \notin overlapped
    BY <2>1 DEF SaveUser, Step, Goto, store
  <2>3. /\ issued[n] = req[h].address /\ req[h].fails = 0
    BY <2>1, <2>2, KnownCode DEF Answering, Base, HandlerInv
  <2>4. uses[n] = 0
    BY <1>0, <2>1, <2>2 DEF UseInv
  <2>5. uses'[n] = 1
    BY <2>2, <2>4 DEF Base, TypeOK
  <2>6. at'[h] = "drop" /\ \A g \in Handlers \ {h} : at'[g] = at[g]
    BY <2>2 DEF Base, TypeOK
  <2>7. \A g \in Handlers : ~(at'[g] \in {"right", "save"} /\ req'[g].code = n)
    <3> SUFFICES ASSUME NEW g \in Handlers, at'[g] \in {"right", "save"}, req'[g].code = n
                 PROVE  FALSE
      OBVIOUS
    <3>1. g # h /\ at[g] \in {"right", "save"} /\ req[g].code = n
      BY <2>2, <2>6
    <3>2. req[g].address = req[h].address
      BY <2>3, <3>1, KnownCode DEF Answering
    <3> QED BY <2>2, <3>1, <3>2, OnlyOne DEF Busy
  <2>8. at'[h] = "drop" /\ req'[h].fails = 0 /\ req'[h].code = n
    BY <2>1, <2>2, <2>3, <2>6
  <2> QED BY <2>5, <2>7, <2>8
<1>2. CASE uses'[n] = uses[n]
  <2>1. CASE uses[n] = 0
    BY <1>0, <1>2, <2>1
  <2>2. CASE uses[n] = 1
    <3>0. /\ \A g \in Handlers :
                at[g] \in {"right", "save"} /\ req[g].code = n => g \in overlapped
          /\ code[issued[n]] = n =>
                \E h \in Handlers : at[h] = "drop" /\ req[h].fails = 0 /\ req[h].code = n
      BY <1>0, <2>2 DEF UseInv
    <3> DEFINE a == issued[n]
    <3>1. n \in 1..Len(issued) /\ issued'[n] = a /\ a \in Addresses
      <4>1. Len(issued) \in Nat /\ issued \in Seq(Addresses)
        BY LenProperties DEF Base, TypeOK
      <4>2. n \in 1..Len(issued)
        BY <2>2, <4>1 DEF Base, Codes
      <4> QED BY <4>1, <4>2, IssuedStep, ElementOfSeq
    <3>2. ASSUME NEW g \in Handlers, at'[g] \in {"right", "save"}, req'[g].code = n
          PROVE  g \in overlapped'
      <4>1. CASE at[g] \in {"right", "save"} /\ req[g].code = n
        BY <3>0, <4>1, GhostStep
      <4>2. CASE Handle(g)
        <5>1. ThreadGoal(g)
          BY <4>2, ThreadStep
        <5>2. CASE at'[g] = "right"
          <6>1. at[g] = "idle" /\ code[req'[g].address] = n
            BY <3>2, <4>2, <5>1, <5>2, Whence DEF ThreadGoal, Arrives
          <6>2. req'[g].address = a
            <7>1. req'[g].address \in Addresses
              BY <5>1, <5>2, <6>1 DEF ThreadGoal, HandlerInv, Request
            <7> QED BY <3>1, <6>1, <7>1 DEF Base, CodeInv
          <6>3. PICK h \in Handlers : at[h] = "drop" /\ req[h].code = n
            BY <3>0, <6>1, <6>2
          <6>4. Busy(h, a) /\ h # g
            BY <6>1, <6>3, KnownCode DEF Busy, Answering
          <6> QED BY <5>1, <6>1, <6>2, <6>4 DEF ThreadGoal, Arrives
        <5>3. CASE at'[g] = "save"
          <6>1. CompareRight(g)
            BY <4>2, <5>3, Whence
          <6>2. at[g] = "right" /\ req[g].code = n
            BY <3>2, <4>2, <5>3, <6>1, Whence DEF CompareRight, Step, Answering
          <6> QED BY <4>1, <6>2
        <5> QED BY <3>2, <5>2, <5>3
      <4>3. CASE at'[g] = at[g] /\ req'[g] = req[g]
        BY <3>2, <4>1, <4>3
      <4>4. Handle(g) \/ (at'[g] = at[g] /\ req'[g] = req[g])
        BY OthersStay
      <4> QED BY <4>2, <4>3, <4>4
    <3>3. ASSUME code'[issued'[n]] = n
          PROVE  \E h \in Handlers : at'[h] = "drop" /\ req'[h].fails = 0 /\ req'[h].code = n
      <4>1. code'[a] = n
        BY <3>1, <3>3
      <4>2. code[a] = n
        <5>1. SUFFICES ASSUME code[a] # n PROVE FALSE
          OBVIOUS
        <5>2. n # 0
          BY <3>1
        <5>3. PICK h \in Handlers : SetCode(h) /\ req[h].address = a
          BY <3>1, <4>1, <5>1, <5>2, KeysStep
        <5>4. code'[a] = Len(issued) + 1
          BY <3>1, <5>3, NewCode DEF Base, TypeOK
        <5> QED BY <3>1, <4>1, <5>4, IssuedStep
      <4>3. PICK k \in Handlers : at[k] = "drop" /\ req[k].fails = 0 /\ req[k].code = n
        BY <3>0, <4>2
      <4>4. ~DropCode(k)
        <5>1. SUFFICES ASSUME DropCode(k) PROVE FALSE
          OBVIOUS
        <5>2. req[k].address = a
          BY <4>3, KnownCode DEF Answering
        <5>3. code'[a] = 0
          BY <3>1, <5>1, <5>2 DEF DropCode, Base, TypeOK
        <5> QED BY <3>1, <4>1, <5>3
      <4>5. ~CutShort(k)
        BY <4>3 DEF CutShort
      <4>6. ~Handle(k)
        BY <4>3, <4>4, <4>5, Whence
      <4>7. at'[k] = at[k] /\ req'[k] = req[k]
        BY <4>6, OthersStay
      <4> QED BY <4>3, <4>7
    <3> QED BY <1>2, <2>2, <3>2, <3>3
  <2> QED BY <1>0, <2>1, <2>2
<1> QED BY <1>1, <1>2, GhostStep

(* UsedOnce: a code verifies a second time only if requests overlapped or  *)
(* the one that used it ended before deleting it.                          *)
THEOREM CodesUsedOnce == Spec => []UsedOnce
<1>1. Init => \A n \in Codes : UseInv(n)
  BY DEF Init, UseInv
<1>2. Base /\ (\A n \in Codes : UseInv(n)) /\ [Next]_vars => (\A n \in Codes : UseInv(n))'
  <2> SUFFICES ASSUME Base, \A n \in Codes : UseInv(n), [Next]_vars
               PROVE  \A n \in Codes : UseInv(n)'
    OBVIOUS
  <2>1. CASE Next
    BY <2>1, UseStep
  <2>2. CASE UNCHANGED vars
    BY <2>2 DEF vars, store, ghosts, UseInv
  <2> QED BY <2>1, <2>2
<1>3. Base /\ (\A n \in Codes : UseInv(n)) => UsedOnce
  <2> SUFFICES ASSUME Base, NEW n \in Codes, UseInv(n), uses[n] > 1
               PROVE  n \in loose
    BY DEF UsedOnce
  <2>1. uses[n] \in 0..2
    BY DEF Base, TypeOK
  <2> QED BY <2>1 DEF UseInv
<1> QED BY <1>1, <1>2, <1>3, BaseInvariance, PTL DEF Spec

-----------------------------------------------------------------------------
(* A code whose request meets nobody until its message is sent is still    *)
(* the key's, or has expired, and its failures start at none.              *)
SentInv(h) ==
    at[h] \in Stored /\ h \notin overlapped =>
        /\ code[req[h].address] = req[h].code \/ req[h].code \in expired
        /\ guesses[req[h].code] = 0
        /\ at[h] = "mail" => fails[req[h].address] = 0

(* Only the thread itself, or the clock, can change that.                  *)
LEMMA SentStep ==
    ASSUME Base, Next, NEW h \in Handlers, SentInv(h)
    PROVE  SentInv(h)'
<1> SUFFICES ASSUME at'[h] \in Stored, h \notin overlapped'
             PROVE  (/\ code[req[h].address] = req[h].code \/ req[h].code \in expired
                     /\ guesses[req[h].code] = 0
                     /\ at[h] = "mail" => fails[req[h].address] = 0)'
  BY DEF SentInv
<1>1. CASE SetCode(h)
  <2> DEFINE n == Len(issued) + 1
             a == req[h].address
  <2>1. /\ a \in Addresses /\ n \in Codes /\ guesses[n] = 0
        /\ code' = [code EXCEPT ![a] = n]
    BY <1>1, NewCode
  <2>2. /\ at' = [at EXCEPT ![h] = "clear"] /\ req' = [req EXCEPT ![h].code = n]
        /\ guesses' = guesses /\ req[h] \in Request
    BY <1>1 DEF SetCode, Goto, ghosts, Base, HandlerInv
  <2>3. at'[h] = "clear" /\ req'[h].code = n /\ req'[h].address = a
    <3> HIDE DEF n
    <3> QED BY <2>2 DEF Base, TypeOK, Request
  <2>4. code'[a] = n
    BY <2>1 DEF Base, TypeOK
  <2> HIDE DEF n, a
  <2> QED BY <2>1, <2>2, <2>3, <2>4
<1>2. CASE ClearFails(h)
  <2>1. /\ at[h] = "clear" /\ req' = req /\ code' = code /\ h \notin overlapped
        /\ guesses' = guesses /\ expired' = expired
        /\ fails' = [fails EXCEPT ![req[h].address] = 0]
    BY <1>2 DEF ClearFails, Step, ghosts
  <2>2. req[h].address \in Addresses
    BY <2>1, KnownCode DEF Stored
  <2>3. fails'[req[h].address] = 0
    BY <2>1, <2>2 DEF Base, TypeOK
  <2> QED BY <2>1, <2>3 DEF SentInv, Stored
<1>3. CASE ~SetCode(h) /\ ~ClearFails(h)
  <2>1. ~Handle(h)
    BY <1>3, Whence DEF Stored
  <2>2. at'[h] = at[h] /\ req'[h] = req[h]
    BY <2>1, OthersStay
  <2> DEFINE a == req[h].address
             n == req[h].code
  <2>3. h \notin overlapped /\ at[h] # "idle"
    BY <2>2, GhostStep DEF Stored
  <2>4. /\ code[a] = n \/ n \in expired
        /\ guesses[n] = 0
        /\ at[h] = "mail" => fails[a] = 0
        /\ a \in Addresses /\ n \in Codes /\ issued[n] = a
    BY <2>2, <2>3, KnownCode DEF SentInv
  <2>5. \A g \in Handlers : Handle(g) => ~Busy(g, a)
    BY <2>1, <2>3, OnlyOne
  <2>6. ASSUME NEW g \in Handlers, req[g].address = a
        PROVE  /\ ~SetCode(g) /\ ~ClearFails(g) /\ ~DropFails(g) /\ ~IncrFail(g)
               /\ ~CompareWrong(g) /\ ~DropCode(g)
    BY <2>5, <2>6 DEF Handle, Busy, SetCode, ClearFails, DropFails, IncrFail, CompareWrong,
                      DropCode, Step
  <2>7. code'[a] = n \/ n \in expired'
    <3>1. code'[a] = code[a] \/ (Tick /\ code[a] \in expired')
      BY <2>4, <2>6, KeysStep
    <3> QED BY <2>4, <3>1, GhostStep
  <2>8. guesses'[n] = 0
    <3>1. SUFFICES ASSUME guesses'[n] # guesses[n] PROVE FALSE
      BY <2>4
    <3>2. PICK g \in Handlers : CompareWrong(g) /\ req[g].code = n
      BY <2>4, <3>1, GhostStep
    <3>3. req[g].address = a
      BY <2>4, <3>2, KnownCode DEF CompareWrong, Answering
    <3> QED BY <2>6, <3>2, <3>3
  <2>9. at'[h] = "mail" => fails'[a] = 0
    <3>1. fails'[a] = fails[a] \/ fails'[a] = 0
      BY <2>4, <2>6, KeysStep
    <3> QED BY <2>2, <2>4, <3>1
  <2> QED BY <2>2, <2>7, <2>8, <2>9
<1> QED BY <1>1, <1>2, <1>3

(* Who is about to count a failure of a code, as a wrong answer is found   *)
(* and as it is counted.                                                   *)
LEMMA FailingStep ==
    ASSUME Base, Next, NEW n \in Codes
    PROVE  /\ Cardinality(Failing(n)) \in Nat /\ Cardinality(Failing(n))' \in Nat
           /\ \A h \in Handlers : CompareWrong(h) /\ ~Blocked(h) /\ req[h].code = n =>
                 /\ Cardinality(Failing(n))' = Cardinality(Failing(n)) + 1
                 /\ UNCHANGED store
                 /\ guesses'[n] = IF guesses[n] < TooMany THEN guesses[n] + 1 ELSE guesses[n]
           /\ \A h \in Handlers : IncrFail(h) /\ req[h].code = n =>
                 /\ Cardinality(Failing(n))' = Cardinality(Failing(n)) - 1
                 /\ UNCHANGED guesses
           /\ (\A h \in Handlers : CompareWrong(h) /\ req[h].code = n => Blocked(h)) =>
                 /\ Cardinality(Failing(n))' <= Cardinality(Failing(n))
                 /\ guesses'[n] = guesses[n]
           /\ (\A h \in Handlers : IncrFail(h) => req[h].code # n) /\ n \notin uncounted' =>
                 Cardinality(Failing(n)) <= Cardinality(Failing(n))'
<1> DEFINE F == Failing(n)
<1>0. F \in SUBSET Handlers /\ F' \in SUBSET Handlers
  BY DEF Failing
<1>1. IsFiniteSet(F) /\ IsFiniteSet(F') /\ Cardinality(F) \in Nat /\ Cardinality(F') \in Nat
  <2> HIDE DEF F
  <2> QED BY <1>0, Threads
<1>2. ASSUME NEW h \in Handlers, CompareWrong(h), ~Blocked(h), req[h].code = n
      PROVE  /\ Cardinality(F') = Cardinality(F) + 1
             /\ UNCHANGED store
             /\ guesses'[n] = IF guesses[n] < TooMany THEN guesses[n] + 1 ELSE guesses[n]
  <2>1. /\ at[h] = "wrong" /\ at' = [at EXCEPT ![h] = "fail"] /\ UNCHANGED store
        /\ guesses' = [guesses EXCEPT ![n] = IF guesses[n] < TooMany THEN guesses[n] + 1
                                             ELSE guesses[n]]
        /\ req' = [req EXCEPT ![h].fails = fails[req[h].address]]
    BY <1>2 DEF CompareWrong, Goto
  <2>2. /\ at'[h] = "fail" /\ req'[h].code = n
        /\ \A g \in Handlers \ {h} : at'[g] = at[g] /\ req'[g] = req[g]
    BY <1>2, <2>1 DEF Base, TypeOK
  <2>3. h \notin F /\ F' = F \cup {h}
    BY <2>1, <2>2 DEF Failing
  <2>4. Cardinality(F') = Cardinality(F) + 1
    <3> HIDE DEF F
    <3> QED BY <1>0, <2>3, Threads
  <2>5. guesses'[n] = IF guesses[n] < TooMany THEN guesses[n] + 1 ELSE guesses[n]
    BY <2>1 DEF Base, TypeOK
  <2> QED BY <2>1, <2>4, <2>5
<1>3. ASSUME NEW h \in Handlers, IncrFail(h), req[h].code = n
      PROVE  Cardinality(F') = Cardinality(F) - 1 /\ UNCHANGED guesses
  <2>1. at[h] = "fail" /\ UNCHANGED guesses
    BY <1>3 DEF IncrFail, ghosts
  <2>2. ThreadGoal(h)
    BY <1>3, ThreadStep DEF Handle
  <2>3. at'[h] # "fail"
    BY <2>1, <2>2 DEF ThreadGoal, Settles, CompareWrong
  <2>4. h \in F /\ F' = F \ {h}
    BY <1>3, <2>1, <2>2, <2>3 DEF Failing, ThreadGoal
  <2> HIDE DEF F
  <2> QED BY <1>0, <2>1, <2>4, Threads
<1>4. ASSUME \A h \in Handlers : CompareWrong(h) /\ req[h].code = n => Blocked(h)
      PROVE  Cardinality(F') <= Cardinality(F) /\ guesses'[n] = guesses[n]
  <2>1. F' \subseteq F
    <3> SUFFICES ASSUME NEW g \in Handlers, at'[g] = "fail", req'[g].code = n
                 PROVE  at[g] = "fail" /\ req[g].code = n
      BY DEF Failing
    <3>1. ~Handle(g)
      BY <1>4, ThreadStep DEF ThreadGoal, Settles
    <3> QED BY <3>1, OthersStay
  <2>2. guesses'[n] = guesses[n]
    BY <1>4, GhostStep
  <2> HIDE DEF F
  <2> QED BY <1>1, <2>1, <2>2, FS_Subset
<1>5. ASSUME \A h \in Handlers : IncrFail(h) => req[h].code # n, n \notin uncounted'
      PROVE  Cardinality(F) <= Cardinality(F')
  <2>1. F \subseteq F'
    <3> SUFFICES ASSUME NEW g \in Handlers, at[g] = "fail", req[g].code = n
                 PROVE  at'[g] = "fail" /\ req'[g].code = n
      BY DEF Failing
    <3>1. ~CutShort(g)
      BY <1>5 DEF CutShort
    <3>2. ~Handle(g)
      BY <1>5, <3>1, ThreadStep DEF ThreadGoal, Settles
    <3> QED BY <3>2, OthersStay
  <2> HIDE DEF F
  <2> QED BY <1>1, <2>1, FS_Subset
<1> QED BY <1>1, <1>2, <1>3, <1>4, <1>5

-----------------------------------------------------------------------------
(* The newest code of an address, once its message was sent by a request   *)
(* that met nobody: whoever works on the address has read this code, and   *)
(* while the code is not done with, the failures its key counts and those  *)
(* on their way are wrong answers to it, and nobody is about to delete it. *)
Done(n) == n \in expired \/ uses[n] > 0 \/ guesses[n] >= MaxFails

Fresh(n) ==
    \A g \in Handlers : Busy(g, issued[n]) =>
        /\ at[g] \notin Stored
        /\ at[g] \in Answering => req[g].code = n
        /\ at[g] = "dropFails" => code[issued[n]] # n

Open(n) ==
    /\ code[issued[n]] = n
    /\ fails[issued[n]] + Cardinality(Failing(n)) <= guesses[n]
    /\ \A g \in Handlers : Busy(g, issued[n]) =>
          /\ at[g] \notin Dropping
          /\ at[g] = "expire" => guesses[n] > 0

AloneInv(n) == n \in alone /\ Newest(n) => Fresh(n) /\ (Done(n) \/ Open(n))

(* Done with is done with.                                                 *)
LEMMA StaysDone ==
    ASSUME Base, Next, NEW n \in Codes, Done(n)
    PROVE  Done(n)'
<1>1. /\ guesses[n] \in Nat /\ guesses'[n] \in Nat /\ guesses[n] <= guesses'[n]
      /\ uses[n] \in Nat /\ uses'[n] \in Nat /\ uses[n] <= uses'[n]
  <2>1. /\ guesses[n] \in 0..TooMany /\ guesses'[n] \in 0..TooMany
        /\ uses[n] \in 0..2 /\ uses'[n] \in 0..2
    BY GhostStep DEF Base, TypeOK
  <2> QED BY <2>1, GhostStep, Limits
<1> QED BY <1>1, Limits, GhostStep DEF Done

(* The code was there before it is sent.                                   *)
LEMMA SentBefore ==
    ASSUME Base, Next, NEW n \in alone'
    PROVE  /\ n \in 1..Len(issued) /\ n \in Codes /\ n # 0
           /\ issued[n] \in Addresses /\ issued'[n] = issued[n]
           /\ Newest(n)' => Newest(n)
<1>1. Len(issued) \in Nat /\ Len(issued) <= MaxCodes /\ issued \in Seq(Addresses)
  BY LenProperties DEF Base, TypeOK
<1>2. n \in 1..Len(issued)
  BY GhostStep
<1> QED BY <1>1, <1>2, IssuedStep, Limits, ElementOfSeq DEF Codes

(* When the message has gone, nobody is at work on the address.            *)
LEMMA JustSent ==
    ASSUME Base, Next, NEW n \in alone' \ alone, \A h \in Handlers : SentInv(h)
    PROVE  /\ \A g \in Handlers : ~Busy(g, issued[n])'
           /\ code'[issued[n]] = n \/ n \in expired'
           /\ guesses'[n] = 0 /\ fails'[issued[n]] = 0
           /\ Cardinality(Failing(n))' = 0
<1>0. n \in Codes /\ issued[n] \in Addresses /\ issued'[n] = issued[n]
  BY SentBefore
<1>1. PICK h \in Handlers : Mail(h) /\ h \notin overlapped /\ req[h].code = n
  BY GhostStep
<1>2. /\ at[h] = "mail" /\ UNCHANGED store /\ guesses' = guesses /\ expired' = expired
      /\ code' = code /\ fails' = fails
  BY <1>1 DEF Mail, store
<1>3. issued[n] = req[h].address
  BY <1>1, <1>2, KnownCode DEF Stored
<1>4. /\ code[issued[n]] = n \/ n \in expired
      /\ guesses[n] = 0 /\ fails[issued[n]] = 0
  BY <1>1, <1>2, <1>3 DEF SentInv, Stored
<1>5. at'[h] = "idle" /\ \A g \in Handlers \ {h} : at'[g] = at[g] /\ req'[g] = req[g]
  <2>1. End(h)
    BY <1>1 DEF Mail
  <2> QED BY <2>1 DEF End, Goto, Base, TypeOK
<1>6. \A g \in Handlers \ {h} : ~Busy(g, issued[n])
  BY <1>1, <1>2, <1>3, OnlyOne
<1>7. \A g \in Handlers : ~Busy(g, issued[n])'
  BY <1>0, <1>5, <1>6 DEF Busy
<1>8. Failing(n)' = {}
  <2> SUFFICES ASSUME NEW g \in Handlers, at'[g] = "fail", req'[g].code = n
               PROVE  FALSE
    BY DEF Failing
  <2>1. g # h /\ at[g] = "fail" /\ req[g].code = n
    BY <1>5
  <2>2. req[g].address = issued[n]
    BY <2>1, KnownCode DEF Answering
  <2> QED BY <1>6, <2>1, <2>2 DEF Busy
<1>9. Cardinality(Failing(n))' = 0
  BY <1>8, FS_EmptySet
<1> QED BY <1>2, <1>4, <1>7, <1>9

(* Of the newest code, the key's value changes to none.                    *)
LEMMA CodeGone ==
    ASSUME Base, Next, NEW n \in alone', Newest(n)', code'[issued[n]] # code[issued[n]]
    PROVE  /\ code'[issued[n]] = 0
           /\ \/ \E h \in Handlers : DropCode(h) /\ Busy(h, issued[n])
              \/ Tick /\ code[issued[n]] \in expired'
<1>1. n \in 1..Len(issued) /\ issued[n] \in Addresses
  BY SentBefore
<1>2. \A h \in Handlers : ~(SetCode(h) /\ req[h].address = issued[n])
  BY <1>1, NewCode
<1>3. \A h \in Handlers : DropCode(h) /\ req[h].address = issued[n] => Busy(h, issued[n])
  BY DEF DropCode, Step, Busy
<1> QED BY <1>1, <1>2, <1>3, KeysStep

(* Whoever arrives reads this code, and nobody stores another.             *)
LEMMA FreshStep ==
    ASSUME Base, Next, NEW n \in alone, Newest(n)', Fresh(n)
    PROVE  Fresh(n)'
<1> DEFINE a == issued[n]
<1>0. /\ n \in alone' /\ n \in 1..Len(issued) /\ n # 0 /\ a \in Addresses /\ issued'[n] = a
      /\ Newest(n)
  BY GhostStep, SentBefore
<1>1. code'[a] = code[a] \/ code'[a] = 0
  BY <1>0, CodeGone
<1> SUFFICES ASSUME NEW g \in Handlers, at'[g] # "idle", req'[g].address = a
             PROVE  /\ at'[g] \notin Stored
                    /\ at'[g] \in Answering => req'[g].code = n
                    /\ at'[g] = "dropFails" => code'[a] # n
  BY <1>0 DEF Fresh, Busy
<1>2. CASE ~Handle(g)
  <2>1. at'[g] = at[g] /\ req'[g] = req[g]
    BY <1>2, OthersStay
  <2>2. Busy(g, a)
    BY <2>1 DEF Busy
  <2> QED BY <1>0, <1>1, <2>1, <2>2 DEF Fresh
<1>3. CASE Handle(g)
  <2>0. ThreadGoal(g)
    BY <1>3, ThreadStep
  <2>1. at[g] # "idle" => Busy(g, a)
    BY <2>0 DEF ThreadGoal, Busy
  <2>2. at'[g] # "clear"
    <3>1. SUFFICES ASSUME at'[g] = "clear" PROVE FALSE
      OBVIOUS
    <3>2. SetCode(g)
      BY <1>3, <3>1, Whence
    <3>3. req[g].address = a
      BY <2>1, <3>2 DEF SetCode, Busy
    <3> QED BY <1>0, <3>2, <3>3, NewCode
  <2>3. at'[g] # "mail"
    <3>1. SUFFICES ASSUME at'[g] = "mail" PROVE FALSE
      OBVIOUS
    <3>2. at[g] = "clear"
      BY <1>3, <3>1, Whence DEF ClearFails, Step
    <3> QED BY <2>1, <3>2 DEF Fresh, Stored
  <2>4. at'[g] \in Answering => req'[g].code = n
    <3>1. CASE at[g] = "idle"
      <4>1. SUFFICES ASSUME at'[g] \in Answering PROVE req'[g].code = n
        OBVIOUS
      <4>2. code[a] # 0 /\ code[a] = req'[g].code
        BY <2>0, <3>1, <4>1 DEF ThreadGoal, Arrives, Answering
      <4>3. code[a] \in 1..Len(issued) /\ issued[code[a]] = a /\ Newest(code[a])
        BY <1>0, <4>2 DEF Base, CodeInv
      <4> QED BY <1>0, <4>2, <4>3, OneNewest
    <3>2. CASE at[g] # "idle"
      BY <1>3, <2>1, <3>2, Whence DEF Fresh
    <3> QED BY <3>1, <3>2
  <2>5. at'[g] = "dropFails" => code'[a] # n
    <3>1. SUFFICES ASSUME at'[g] = "dropFails" PROVE code'[a] # n
      OBVIOUS
    <3>2. DropCode(g)
      BY <1>3, <3>1, Whence
    <3>3. req[g].address = a
      BY <2>1, <3>2 DEF DropCode, Step, Busy
    <3>4. code'[a] = 0
      BY <1>0, <3>2, <3>3 DEF DropCode, Base, TypeOK
    <3> QED BY <1>0, <3>4
  <2> QED BY <2>2, <2>3, <2>4, <2>5 DEF Stored
<1> QED BY <1>2, <1>3

(* As long as such a code is not done with, nobody deletes it and every    *)
(* failure that is counted is one of its own.                              *)
LEMMA OpenStep ==
    ASSUME Base, Next, NEW n \in alone, Newest(n)', Fresh(n), Open(n), ~Done(n)'
    PROVE  Open(n)'
<1> DEFINE a == issued[n]
           F == Cardinality(Failing(n))
<1>0. /\ n \in alone' /\ n \in 1..Len(issued) /\ n \in Codes /\ n # 0
      /\ a \in Addresses /\ issued'[n] = a
  BY GhostStep, SentBefore
<1>1. /\ n \notin expired' /\ uses'[n] \in 0..2 /\ uses'[n] = 0
      /\ guesses[n] \in Nat /\ guesses'[n] \in Nat /\ guesses[n] <= guesses'[n]
      /\ guesses'[n] < MaxFails
      /\ fails[a] \in Nat /\ fails'[a] \in Nat /\ F \in Nat /\ F' \in Nat
      /\ guesses[n] < TooMany
  <2>1. /\ uses'[n] \in 0..2 /\ guesses[n] \in 0..TooMany /\ guesses'[n] \in 0..TooMany
        /\ guesses[n] <= guesses'[n]
    BY <1>0, GhostStep DEF Base, TypeOK
  <2>2. fails[a] \in Nat /\ fails'[a] \in Nat /\ F \in Nat /\ F' \in Nat
    BY <1>0, KeysStep, FailingStep
  <2> QED BY <2>1, <2>2, Limits DEF Done
<1>2. /\ code[a] = n
      /\ fails[a] + F <= guesses[n]
      /\ \A g \in Handlers : Busy(g, a) =>
            /\ at[g] \notin Dropping
            /\ at[g] = "expire" => guesses[n] > 0
  BY DEF Open
<1>3. code'[a] = n
  <2>1. SUFFICES ASSUME code'[a] # code[a] PROVE FALSE
    BY <1>2
  <2>2. \/ \E h \in Handlers : DropCode(h) /\ Busy(h, a)
        \/ code[a] \in expired'
    BY <1>0, <2>1, CodeGone
  <2> QED BY <1>1, <1>2, <2>2 DEF DropCode, Step, Dropping
<1>4. fails'[a] + F' <= guesses'[n]
  <2>1. CASE \E h \in Handlers : CompareWrong(h) /\ ~Blocked(h) /\ req[h].code = n
    <3>1. F' = F + 1 /\ UNCHANGED store /\ guesses'[n] = guesses[n] + 1
      BY <1>0, <1>1, <2>1, FailingStep
    <3>2. fails'[a] = fails[a]
      BY <3>1 DEF store
    <3> HIDE DEF F, a
    <3> QED BY <1>1, <1>2, <3>1, <3>2
  <2>2. CASE \E h \in Handlers : IncrFail(h) /\ req[h].code = n
    <3>1. PICK h \in Handlers : IncrFail(h) /\ req[h].code = n
      BY <2>2
    <3>2. F' = F - 1
      BY <1>0, <3>1, FailingStep
    <3>3. req[h].address = a
      BY <3>1, KnownCode DEF IncrFail, Answering
    <3>4. fails'[a] = fails[a] + 1
      BY <1>0, <3>1, <3>3 DEF IncrFail, Base, TypeOK
    <3> HIDE DEF F, a
    <3> QED BY <1>1, <1>2, <3>2, <3>4
  <2>3. CASE ~\E h \in Handlers : /\ req[h].code = n
                                  /\ IncrFail(h) \/ (CompareWrong(h) /\ ~Blocked(h))
    <3>1. F' <= F
      BY <1>0, <2>3, FailingStep
    <3>2. \A h \in Handlers : IncrFail(h) => req[h].address # a
      <4> SUFFICES ASSUME NEW h \in Handlers, IncrFail(h), req[h].address = a PROVE FALSE
        OBVIOUS
      <4>1. at[h] = "fail" /\ Busy(h, a)
        BY DEF IncrFail, Busy
      <4>2. req[h].code = n
        BY <4>1 DEF Fresh, Answering
      <4> QED BY <2>3, <4>2
    <3>3. fails'[a] = fails[a] \/ fails'[a] = 0
      BY <1>0, <3>2, KeysStep
    <3> HIDE DEF F, a
    <3> QED BY <1>1, <1>2, <3>1, <3>3
  <2> QED BY <2>1, <2>2, <2>3
<1>5. ASSUME NEW g \in Handlers, at'[g] # "idle", req'[g].address = a
      PROVE  /\ at'[g] \notin Dropping
             /\ at'[g] = "expire" => guesses'[n] > 0
  <2>1. CASE ~Handle(g)
    <3>1. at'[g] = at[g] /\ req'[g] = req[g]
      BY <2>1, OthersStay
    <3> QED BY <1>1, <1>2, <1>5, <3>1 DEF Busy
  <2>2. CASE Handle(g)
    <3>0. ThreadGoal(g)
      BY <2>2, ThreadStep
    <3>1. at[g] # "idle" => Busy(g, a)
      BY <1>5, <3>0 DEF ThreadGoal, Busy
    <3>2. IncrFail(g) => fails[a] + 1 <= guesses[n] /\ req[g].address = a
      <4> SUFFICES ASSUME IncrFail(g) PROVE fails[a] + 1 <= guesses[n] /\ req[g].address = a
        OBVIOUS
      <4>1. at[g] = "fail" /\ Busy(g, a)
        BY <3>1 DEF IncrFail
      <4>2. req[g].code = n
        BY <4>1 DEF Fresh, Answering
      <4>3. F' = F - 1
        BY <1>0, <4>2, FailingStep
      <4>4. req[g].address = a
        BY <4>1 DEF Busy
      <4> HIDE DEF F, a
      <4> QED BY <1>1, <1>2, <4>3, <4>4
    <3>3. at'[g] # "drop"
      <4>1. SUFFICES ASSUME at'[g] = "drop" PROVE FALSE
        OBVIOUS
      <4>2. CASE SaveUser(g)
        <5>1. /\ at[g] = "save"
              /\ uses' = [uses EXCEPT ![req[g].code] = IF @ < 2 THEN @ + 1 ELSE 2]
          BY <4>2 DEF SaveUser, Step
        <5>2. req[g].code = n
          BY <3>1, <5>1 DEF Fresh, Answering
        <5>3. uses'[n] = IF uses[n] < 2 THEN uses[n] + 1 ELSE 2
          BY <1>0, <5>1, <5>2 DEF Base, TypeOK
        <5>4. uses[n] \in 0..2
          BY <1>0 DEF Base, TypeOK
        <5> QED BY <1>1, <5>3, <5>4
      <4>3. CASE IncrFail(g) /\ fails[req[g].address] + 1 >= MaxFails
        <5>1. fails[a] + 1 <= guesses[n] /\ fails[a] + 1 >= MaxFails
          BY <3>2, <4>3
        <5> HIDE DEF a
        <5> QED BY <1>1, <5>1, Limits
      <4>4. CASE ExpireFail(g) /\ req[g].fails >= MaxFails
        <5>1. at[g] = "expire"
          BY <4>4 DEF ExpireFail
        <5>2. req[g].fails = 1 /\ guesses[n] > 0
          BY <1>2, <3>1, <5>1 DEF Base, HandlerInv
        <5> HIDE DEF a
        <5> QED BY <1>1, <4>4, <5>2, Limits
      <4> QED BY <2>2, <4>1, <4>2, <4>3, <4>4, Whence
    <3>4. at'[g] # "dropFails"
      <4>1. SUFFICES ASSUME at'[g] = "dropFails" PROVE FALSE
        OBVIOUS
      <4>2. at[g] = "drop"
        BY <2>2, <4>1, Whence DEF DropCode, Step
      <4> QED BY <1>2, <3>1, <4>2 DEF Dropping
    <3>5. at'[g] = "expire" => guesses'[n] > 0
      <4>1. at'[g] = "expire" => fails[a] + 1 <= guesses[n]
        BY <2>2, <3>2, Whence
      <4> HIDE DEF a
      <4> QED BY <1>1, <4>1
    <3> QED BY <3>3, <3>4, <3>5 DEF Dropping
  <2> QED BY <2>1, <2>2
<1> HIDE DEF F
<1>6. fails'[issued'[n]] + Cardinality(Failing(n))' <= guesses'[n]
  BY <1>0, <1>4 DEF F
<1>7. \A g \in Handlers : Busy(g, issued[n])' =>
         /\ at'[g] \notin Dropping
         /\ at'[g] = "expire" => guesses'[n] > 0
  BY <1>0, <1>5 DEF Busy
<1> QED BY <1>0, <1>3, <1>6, <1>7 DEF Open

(* Sent now, or kept since.                                                *)
LEMMA AloneStep ==
    ASSUME Base, Next, NEW n \in Codes, AloneInv(n), \A h \in Handlers : SentInv(h)
    PROVE  AloneInv(n)'
<1> SUFFICES ASSUME n \in alone', Newest(n)' PROVE Fresh(n)' /\ (Done(n)' \/ Open(n)')
  BY DEF AloneInv
<1>1. CASE n \in alone
  <2>1. Fresh(n) /\ (Done(n) \/ Open(n))
    BY <1>1, SentBefore DEF AloneInv
  <2> QED BY <1>1, <2>1, FreshStep, StaysDone, OpenStep
<1>2. CASE n \notin alone
  <2>0. issued'[n] = issued[n]
    BY SentBefore
  <2>1. /\ \A g \in Handlers : ~Busy(g, issued[n])'
        /\ code'[issued[n]] = n \/ n \in expired'
        /\ guesses'[n] = 0 /\ fails'[issued[n]] = 0
        /\ Cardinality(Failing(n))' = 0
    BY <1>2, JustSent
  <2>2. Fresh(n)'
    BY <2>1 DEF Fresh
  <2>3. n \notin expired' => Open(n)'
    <3>1. fails'[issued'[n]] + Cardinality(Failing(n))' <= guesses'[n]
      BY <2>0, <2>1
    <3> QED BY <2>0, <2>1, <3>1 DEF Open
  <2> QED BY <2>2, <2>3 DEF Done
<1> QED BY <1>1, <1>2

-----------------------------------------------------------------------------
(* No wrong answer to such a code is forgotten: while the key holds it,    *)
(* each is counted or about to be and the failures outlive the code; after *)
(* that, only those who have read it can still compare with it.            *)
TriesInv(n) ==
    n \in alone \ uncounted =>
        IF code[issued[n]] = n
        THEN /\ guesses[n] <= fails[issued[n]] + Cardinality(Failing(n))
             /\ fails[issued[n]] > 0 => failsLeft[issued[n]] >= codeLeft[issued[n]]
        ELSE guesses[n] + Cardinality(Asking(n)) < TooMany

(* The failures of a code are failures of its address.                     *)
LEMMA LoadBound ==
    ASSUME Base, NEW n \in 1..Len(issued), issued[n] \in Addresses
    PROVE  fails[issued[n]] + Cardinality(Failing(n)) <= MaxFails + Cardinality(Handlers) - 1
<1> DEFINE a == issued[n]
           F == Failing(n)
           L == FailingAt(a)
<1>1. F \subseteq L /\ L \in SUBSET Handlers
  BY KnownCode DEF Failing, FailingAt, Answering
<1>2. fails[a] + Cardinality(L) <= MaxFails + Cardinality(Handlers) - 1
  BY DEF Base, Load
<1>3. fails[a] \in Nat
  <2>1. fails[a] \in 0..Most
    BY DEF Base, TypeOK
  <2> QED BY <2>1, Limits
<1> HIDE DEF F, L, a
<1>4. Cardinality(F) <= Cardinality(L) /\ Cardinality(F) \in Nat /\ Cardinality(L) \in Nat
  <2>1. IsFiniteSet(L) /\ F \in SUBSET Handlers
    BY <1>1, Threads
  <2> QED BY <1>1, <2>1, FS_Subset, FS_CardinalityType
<1>5. MaxFails \in Nat /\ Cardinality(Handlers) \in Nat
  BY Limits
<1>6. fails[a] + Cardinality(F) <= MaxFails + Cardinality(Handlers) - 1
  BY <1>2, <1>3, <1>4, <1>5
<1> QED BY <1>6 DEF a, F

(* Who has read a code with a wrong answer to it.                          *)
LEMMA AskingStep ==
    ASSUME Base, Next, NEW n \in 1..Len(issued), n \in Codes, issued[n] \in Addresses
    PROVE  /\ Cardinality(Asking(n)) \in Nat /\ Cardinality(Asking(n))' \in Nat
           /\ Cardinality(Asking(n))' <= Cardinality(Handlers)
           /\ code[issued[n]] # n =>
                 /\ Cardinality(Asking(n))' <= Cardinality(Asking(n))
                 /\ \A h \in Handlers : CompareWrong(h) /\ req[h].code = n =>
                       Cardinality(Asking(n))' <= Cardinality(Asking(n)) - 1
<1> DEFINE A == Asking(n)
<1>0. A \in SUBSET Handlers /\ A' \in SUBSET Handlers
  BY DEF Asking
<1>1. /\ IsFiniteSet(A) /\ IsFiniteSet(A') /\ Cardinality(A) \in Nat /\ Cardinality(A') \in Nat
      /\ Cardinality(A') <= Cardinality(Handlers)
  <2> HIDE DEF A
  <2> QED BY <1>0, Threads
<1>2. ASSUME code[issued[n]] # n
      PROVE  A' \subseteq A
  <2> SUFFICES ASSUME NEW g \in Handlers, at'[g] = "wrong", req'[g].code = n
               PROVE  at[g] = "wrong" /\ req[g].code = n
    BY DEF Asking
  <2>1. ~Handle(g)
    <3>1. SUFFICES ASSUME Handle(g) PROVE FALSE
      OBVIOUS
    <3>2. ThreadGoal(g) /\ at[g] = "idle"
      BY <3>1, ThreadStep, Whence
    <3>3. n # 0 /\ code[req'[g].address] = n
      BY <3>2 DEF ThreadGoal, Arrives
    <3>4. req'[g].address \in Addresses
      BY <3>2 DEF ThreadGoal, HandlerInv, Request
    <3> QED BY <1>2, <3>3, <3>4 DEF Base, CodeInv
  <2> QED BY <2>1, OthersStay
<1>3. ASSUME code[issued[n]] # n, NEW h \in Handlers, CompareWrong(h), req[h].code = n
      PROVE  Cardinality(A') <= Cardinality(A) - 1
  <2>1. at[h] = "wrong" /\ Handle(h)
    BY <1>3 DEF CompareWrong, Handle
  <2>2. at'[h] # "wrong"
    BY <2>1, ThreadStep DEF ThreadGoal, Settles
  <2>3. h \in A /\ A' \subseteq A \ {h}
    BY <1>2, <1>3, <2>1, <2>2 DEF Asking
  <2> HIDE DEF A
  <2>4. IsFiniteSet(A \ {h}) /\ Cardinality(A \ {h}) = Cardinality(A) - 1
    BY <1>0, <1>1, <2>3, FS_RemoveElement
  <2>5. Cardinality(A') <= Cardinality(A \ {h})
    BY <2>3, <2>4, FS_Subset
  <2> QED BY <2>4, <2>5
<1>4. code[issued[n]] # n => Cardinality(A') <= Cardinality(A)
  <2> HIDE DEF A
  <2> QED BY <1>1, <1>2, FS_Subset
<1> QED BY <1>1, <1>3, <1>4

(* A wrong answer and its INCR move the sum along.                         *)
LEMMA TriesStep ==
    ASSUME Base, Next, NEW n \in Codes, AloneInv(n), TriesInv(n),
           \A h \in Handlers : SentInv(h)
    PROVE  TriesInv(n)'
<1> DEFINE a == issued[n]
           F == Cardinality(Failing(n))
           A == Cardinality(Asking(n))
<1> SUFFICES ASSUME n \in alone', n \notin uncounted'
             PROVE  IF code'[issued'[n]] = n
                    THEN /\ guesses'[n] <= fails'[issued'[n]] + F'
                         /\ fails'[issued'[n]] > 0 =>
                               failsLeft'[issued'[n]] >= codeLeft'[issued'[n]]
                    ELSE guesses'[n] + A' < TooMany
  BY DEF TriesInv, TooMany
<1>0. /\ n \in 1..Len(issued) /\ n # 0 /\ a \in Addresses /\ issued'[n] = a
      /\ n \notin uncounted
  BY GhostStep, SentBefore
<1>1. /\ guesses[n] \in Nat /\ guesses'[n] \in Nat
      /\ fails[a] \in Nat /\ fails'[a] \in Nat
      /\ F \in Nat /\ F' \in Nat /\ A \in Nat /\ A' \in Nat /\ A' <= Cardinality(Handlers)
      /\ codeLeft[a] \in 0..Lifetime /\ codeLeft'[a] \in 0..Lifetime
      /\ failsLeft[a] \in 0..Forever /\ failsLeft'[a] \in 0..Forever
  <2>1. guesses[n] \in 0..TooMany /\ guesses'[n] \in 0..TooMany
    BY GhostStep DEF Base, TypeOK
  <2>2. /\ codeLeft[a] \in 0..Lifetime /\ codeLeft'[a] \in 0..Lifetime
        /\ failsLeft[a] \in 0..Forever /\ failsLeft'[a] \in 0..Forever
        /\ fails[a] \in Nat /\ fails'[a] \in Nat
    BY <1>0, KeysStep DEF Base, TypeOK
  <2>3. F \in Nat /\ F' \in Nat /\ A \in Nat /\ A' \in Nat /\ A' <= Cardinality(Handlers)
    BY <1>0, FailingStep, AskingStep
  <2> QED BY <2>1, <2>2, <2>3, Limits
<1> DEFINE Goal == IF code'[a] = n
                   THEN /\ guesses'[n] <= fails'[a] + F'
                        /\ fails'[a] > 0 => failsLeft'[a] >= codeLeft'[a]
                   ELSE guesses'[n] + A' < TooMany
<1> SUFFICES Goal
  BY <1>0
<1>2. CASE n \notin alone
  <2>1. guesses'[n] = 0 /\ fails'[a] = 0 /\ F' = 0
    BY <1>2, JustSent
  <2> HIDE DEF F, A, a
  <2>2. guesses'[n] <= fails'[a] + F' /\ ~(fails'[a] > 0)
    BY <2>1
  <2>3. guesses'[n] + A' < TooMany
    BY <1>1, <2>1, Limits
  <2> QED BY <2>2, <2>3
<1>3. CASE n \in alone /\ code[a] # n
  <2>1. guesses[n] + A < TooMany
    BY <1>0, <1>3 DEF TriesInv
  <2>2. code'[a] # n
    <3>1. SUFFICES ASSUME code'[a] = n PROVE FALSE
      OBVIOUS
    <3>2. PICK h \in Handlers : SetCode(h) /\ req[h].address = a
      BY <1>0, <1>3, <3>1, KeysStep
    <3>3. code'[a] = Len(issued) + 1
      BY <1>0, <3>2, NewCode DEF Base, TypeOK
    <3> QED BY <1>0, <3>1, <3>3, IssuedStep
  <2>3. /\ A' <= A
        /\ \A h \in Handlers : CompareWrong(h) /\ req[h].code = n => A' <= A - 1
    BY <1>0, <1>3, AskingStep
  <2>4. guesses'[n] + A' <= guesses[n] + A
    <3>1. CASE guesses'[n] = guesses[n]
      <4> HIDE DEF A
      <4> QED BY <1>1, <2>3, <3>1
    <3>2. CASE guesses'[n] # guesses[n]
      <4>1. guesses'[n] = guesses[n] + 1 /\ \E h \in Handlers : CompareWrong(h) /\ req[h].code = n
        BY <3>2, GhostStep
      <4>2. A' <= A - 1
        BY <2>3, <4>1
      <4> HIDE DEF A
      <4> QED BY <1>1, <4>1, <4>2
    <3> QED BY <3>1, <3>2
  <2> HIDE DEF A, F, a
  <2> QED BY <1>1, <2>1, <2>2, <2>4, Limits
<1>4. CASE n \in alone /\ code[a] = n
  <2>1. /\ guesses[n] <= fails[a] + F
        /\ fails[a] > 0 => failsLeft[a] >= codeLeft[a]
    BY <1>0, <1>4 DEF TriesInv
  <2>2. Fresh(n)
    BY <1>0, <1>4 DEF AloneInv, Base, CodeInv
  <2>3. CASE code'[a] # n
    <3>1. \A h \in Handlers : ~CompareWrong(h)
      <4>1. \A h \in Handlers : CompareWrong(h) => code' = code
        BY DEF CompareWrong, store
      <4> QED BY <1>4, <2>3, <4>1
    <3>2. guesses'[n] = guesses[n]
      BY <3>1, GhostStep
    <3>3. fails[a] + F <= MaxFails + Cardinality(Handlers) - 1
      BY <1>0, LoadBound
    <3> HIDE DEF F, A, a
    <3> QED BY <1>1, <2>1, <2>3, <3>2, <3>3, Limits
  <2>4. CASE code'[a] = n
    <3>0. /\ codeLeft'[a] <= codeLeft[a]
          /\ fails'[a] = fails[a] /\ fails[a] > 0 => failsLeft'[a] >= codeLeft'[a]
      BY <1>0, <1>4, <2>1, <2>4, KeysStep
    <3>1. \A h \in Handlers : ~(ClearFails(h) \/ DropFails(h)) \/ req[h].address # a
      <4> SUFFICES ASSUME NEW h \in Handlers, ClearFails(h) \/ DropFails(h), req[h].address = a
                   PROVE  FALSE
        OBVIOUS
      <4>1. at[h] \in {"clear", "dropFails"} /\ Busy(h, a)
        BY DEF ClearFails, DropFails, Step, Busy
      <4> QED BY <1>4, <2>2, <4>1 DEF Fresh, Stored
    <3>2. fails'[a] # fails[a] =>
             \/ \E h \in Handlers : /\ IncrFail(h) /\ req[h].address = a
                                    /\ fails'[a] = fails[a] + 1
                                    /\ fails[a] = 0 => failsLeft'[a] = Forever
                                    /\ fails[a] # 0 => failsLeft'[a] = failsLeft[a]
             \/ failsLeft[a] < codeLeft[a] /\ fails'[a] = 0
      BY <1>0, <2>4, <3>1, KeysStep
    <3>3. failsLeft[a] < codeLeft[a] => fails[a] = 0
      <4> HIDE DEF a
      <4> QED BY <1>1, <2>1
    <3>4. fails'[a] # fails[a] =>
             \E h \in Handlers : /\ IncrFail(h) /\ req[h].address = a
                                 /\ fails'[a] = fails[a] + 1
                                 /\ fails[a] = 0 => failsLeft'[a] = Forever
                                 /\ fails[a] # 0 => failsLeft'[a] = failsLeft[a]
      BY <3>2, <3>3
    <3>5. fails'[a] > 0 => failsLeft'[a] >= codeLeft'[a]
      <4> HIDE DEF a
      <4> QED BY <1>1, <2>1, <3>0, <3>4, Limits
    <3>6. guesses'[n] <= fails'[a] + F'
      <4>1. CASE \E h \in Handlers : CompareWrong(h) /\ ~Blocked(h) /\ req[h].code = n
        <5>1. /\ F' = F + 1 /\ UNCHANGED store
              /\ guesses'[n] = guesses[n] \/ guesses'[n] = guesses[n] + 1
          BY <4>1, FailingStep
        <5>2. fails'[a] = fails[a]
          BY <5>1 DEF store
        <5> HIDE DEF F, a
        <5> QED BY <1>1, <2>1, <5>1, <5>2
      <4>2. CASE \E h \in Handlers : IncrFail(h) /\ req[h].code = n
        <5>1. PICK h \in Handlers : IncrFail(h) /\ req[h].code = n
          BY <4>2
        <5>2. F' = F - 1 /\ guesses'[n] = guesses[n]
          BY <5>1, FailingStep
        <5>3. req[h].address = a
          BY <5>1, KnownCode DEF IncrFail, Answering
        <5>4. fails'[a] = fails[a] + 1
          BY <1>0, <5>1, <5>3 DEF IncrFail, Base, TypeOK
        <5> HIDE DEF F, a
        <5> QED BY <1>1, <2>1, <5>2, <5>4
      <4>3. CASE ~\E h \in Handlers : /\ req[h].code = n
                                      /\ IncrFail(h) \/ (CompareWrong(h) /\ ~Blocked(h))
        <5>1. F <= F' /\ guesses'[n] = guesses[n]
          BY <4>3, FailingStep
        <5>2. fails[a] <= fails'[a]
          <6> HIDE DEF a
          <6> QED BY <1>1, <3>4
        <5> HIDE DEF F, a
        <5> QED BY <1>1, <2>1, <5>1, <5>2
      <4> QED BY <4>1, <4>2, <4>3
    <3> QED BY <2>4, <3>5, <3>6
  <2> QED BY <2>3, <2>4
<1> QED BY <1>2, <1>3, <1>4

(* What is kept about a code that was sent by a request that met nobody.   *)
CodesInv == /\ \A h \in Handlers : SentInv(h)
            /\ \A n \in Codes : AloneInv(n) /\ TriesInv(n)

(* It always holds.                                                        *)
THEOREM CodesInvariance == Spec => [](Base /\ CodesInv)
<1>1. Init => CodesInv
  BY DEF Init, CodesInv, SentInv, Stored, AloneInv, TriesInv
<1>2. Base /\ CodesInv /\ [Next]_vars => CodesInv'
  <2> SUFFICES ASSUME Base, CodesInv, [Next]_vars PROVE CodesInv'
    OBVIOUS
  <2>1. CASE Next
    BY <2>1, SentStep, AloneStep, TriesStep DEF CodesInv
  <2>2. CASE UNCHANGED vars
    <3>0. UNCHANGED <<code, codeLeft, fails, failsLeft, at, req, issued, overlapped, alone,
                      uncounted, guesses, uses, expired>>
      BY <2>2 DEF vars, store, ghosts
    <3>1. ASSUME NEW h \in Handlers PROVE SentInv(h)'
      BY <3>0 DEF CodesInv, SentInv
    <3>2. ASSUME NEW n \in Codes PROVE AloneInv(n)'
      <4>1. (Newest(n) <=> Newest(n)') /\ (Done(n) <=> Done(n)')
        BY <3>0 DEF Newest, Done
      <4>2. Fresh(n) <=> Fresh(n)'
        BY <3>0 DEF Fresh, Busy
      <4>3. Open(n) <=> Open(n)'
        BY <3>0 DEF Open, Busy, Failing
      <4> QED BY <3>0, <4>1, <4>2, <4>3 DEF CodesInv, AloneInv
    <3>3. ASSUME NEW n \in Codes PROVE TriesInv(n)'
      BY <3>0 DEF CodesInv, TriesInv, Failing, Asking
    <3> QED BY <3>1, <3>2, <3>3 DEF CodesInv
  <2> QED BY <2>1, <2>2
<1> QED BY <1>1, <1>2, BaseInvariance, PTL DEF Spec

(* CodeKept: no failure of an earlier code, no crash and no delayed DELETE *)
(* takes the newest code away or blocks it.                                *)
THEOREM NewestCodeKept == Spec => []CodeKept
<1>1. Base /\ CodesInv => CodeKept
  <2> SUFFICES ASSUME Base, CodesInv, NEW n \in alone, Newest(n), ~Done(n)
               PROVE  code[issued[n]] = n /\ fails[issued[n]] < MaxFails
    BY DEF CodeKept, Done
  <2> DEFINE a == issued[n]
             F == Failing(n)
  <2>1. n \in 1..Len(issued) /\ Len(issued) \in Nat /\ Len(issued) <= MaxCodes
        /\ issued \in Seq(Addresses)
    BY LenProperties DEF Base, TypeOK
  <2>2. n \in Codes /\ a \in Addresses
    BY <2>1, Limits, ElementOfSeq DEF Codes
  <2>3. code[a] = n /\ fails[a] + Cardinality(F) <= guesses[n]
    BY <2>2 DEF CodesInv, AloneInv, Open
  <2>4. fails[a] \in Nat /\ guesses[n] \in Nat /\ guesses[n] < MaxFails
    <3>1. fails[a] \in 0..Most /\ guesses[n] \in 0..TooMany
      BY <2>2 DEF Base, TypeOK
    <3> QED BY <3>1, Limits DEF Done
  <2>5. Cardinality(F) \in Nat
    <3>1. F \in SUBSET Handlers
      BY DEF Failing
    <3> HIDE DEF F
    <3> QED BY <3>1, Threads
  <2> HIDE DEF F, a
  <2>6. code[a] = n /\ fails[a] < MaxFails
    BY <2>3, <2>4, <2>5, Limits
  <2> QED BY <2>6 DEF a
<1> QED BY <1>1, CodesInvariance, PTL

(* TriesBound: a code that was sent by a request that met nobody is        *)
(* compared with a bounded number of wrong answers.                        *)
THEOREM TriesBounded == Spec => []TriesBound
<1>1. Base /\ CodesInv => TriesBound
  <2> SUFFICES ASSUME Base, CodesInv, NEW n \in alone \ uncounted
               PROVE  guesses[n] < TooMany
    BY DEF TriesBound
  <2> DEFINE a == issued[n]
             F == Failing(n)
             A == Asking(n)
  <2>1. n \in 1..Len(issued) /\ Len(issued) \in Nat /\ Len(issued) <= MaxCodes
        /\ issued \in Seq(Addresses)
    BY LenProperties DEF Base, TypeOK
  <2>2. n \in Codes /\ a \in Addresses
    BY <2>1, Limits, ElementOfSeq DEF Codes
  <2>3. TriesInv(n) /\ guesses[n] \in Nat
    <3>1. guesses[n] \in 0..TooMany
      BY <2>2 DEF Base, TypeOK
    <3> QED BY <2>2, <3>1, Limits DEF CodesInv
  <2>4. CASE code[a] = n
    <3>1. guesses[n] <= fails[a] + Cardinality(F)
      BY <2>3, <2>4 DEF TriesInv
    <3>2. fails[a] + Cardinality(F) <= MaxFails + Cardinality(Handlers) - 1
      BY <2>1, <2>2, LoadBound
    <3>3. fails[a] \in 0..Most /\ F \in SUBSET Handlers
      BY <2>2 DEF Base, TypeOK, Failing
    <3> HIDE DEF F, a
    <3>4. Cardinality(F) \in Nat
      BY <3>3, Threads
    <3> QED BY <2>3, <3>1, <3>2, <3>3, <3>4, Limits
  <2>5. CASE code[a] # n
    <3>1. guesses[n] + Cardinality(A) < TooMany /\ A \in SUBSET Handlers
      BY <2>3, <2>5 DEF TriesInv, Asking
    <3> HIDE DEF A, a
    <3>2. Cardinality(A) \in Nat
      BY <3>1, Threads
    <3> QED BY <2>3, <3>1, <3>2, Limits
  <2> QED BY <2>4, <2>5
<1> QED BY <1>1, CodesInvariance, PTL
=============================================================================
