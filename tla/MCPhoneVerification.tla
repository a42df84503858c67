------------------------ MODULE MCPhoneVerification -------------------------
(* Small instances of PhoneVerification: users, numbers and threads are    *)
(* symmetric.                                                              *)
EXTENDS PhoneVerification, TLC

Symmetry == Permutations(Users) \cup Permutations(Phones) \cup Permutations(Handlers)

Answered == \/ \E i \in 1..MaxRows : wrong'[i] > 0
            \/ \E h \in Handlers : at'[h] \in {"conflict", "save", "mark"}
            \/ \E u \in Users : phone'[u] # None
            \/ \E i \in 1..Len(row') : row'[i].state = "verified"
            \/ unmarked' # {}

(* Bounds: a third code and another day are explored for codes that nobody *)
(* answers, wrong answers for one code of an account that is alone. *)
Codes ==
    Answered => Len(row') <= 2 /\ \A i \in 1..Len(row') : row'[i].day = "today"

WrongAnswers ==
    (\E i \in 1..MaxRows : wrong'[i] > 0)
        => /\ Len(row') <= 1
           /\ \A g, h \in Handlers : {req'[g].user, req'[h].user} \subseteq Users
                                        => req'[g].user = req'[h].user
=============================================================================
