---------------------------- MODULE MCEmailCodes ----------------------------
(* Small instances of EmailCodes: addresses and threads are symmetric.     *)
EXTENDS EmailCodes, TLC

Symmetry == Permutations(Addresses) \cup Permutations(Handlers)

Answered == \/ \E n \in Codes : guesses'[n] > 0 \/ uses'[n] > 0
            \/ \E h \in Handlers : at'[h] \in {"right", "wrong", "save"}

(* Bounds: another day and a third code are explored when nobody answers   *)
(* and nothing expires, a second code when there are few answers.          *)
Answers ==
    /\ Answered => Len(issued') <= 2 /\ daily' >= Len(issued')
    /\ Len(issued') > 2 => expired' = {}
    /\ Len(issued') > 1 => /\ guesses'[1] <= 1 /\ guesses'[1] + guesses'[2] <= MaxFails
                           /\ uses'[1] + uses'[2] <= 1
=============================================================================
