-------------------------- MODULE MCEmailOwnership --------------------------
(* Small instances of EmailOwnership: mailboxes, subs and threads are      *)
(* symmetric.                                                              *)
EXTENDS EmailOwnership, TLC

Symmetry == Permutations(Mailboxes) \cup Permutations(Subs) \cup Permutations(Handlers)

InUse == {email'[a] : a \in Accounts}
           \cup UNION {{req'[h].address, req'[h].loaded} : h \in Handlers}

(* Bounds: two mailboxes, a withdrawal, and two persons with other          *)
(* spellings or providers are explored apart.                              *)
Few ==
    LET boxes   == {e[1] : e \in InUse \ {None}}
        persons == {s \in Subs : owner'[s] # 0 \/ \E h \in Handlers : req'[h].sub = s}
        plain   == /\ \A e \in InUse \ {None} : e[2] = "lower"
                   /\ \A s, t \in Subs : provider[s] = provider[t]
                   /\ Cardinality(persons) <= 1
    IN  /\ Cardinality(boxes) > 1 => plain /\ withdrawn' = {}
        /\ withdrawn' # {} => plain
=============================================================================
