---------------------------- MODULE MCReviewVote ----------------------------
(* ReviewVote on a small instance.                                         *)
EXTENDS ReviewVote, TLC

Symmetry == Permutations(Handlers)
SymmetricWallets == Permutations(Handlers) \cup Permutations(Wallets)

(* Bound: a second wallet is explored for votes nobody wants a mail about. *)
WalletsInUse ==
    ({b.wallet : b \in ballots'} \cup {wallet'[u] : u \in Users}
        \cup {ballot'[h].wallet : h \in {g \in Handlers : ballot'[g] # None}}) \ {None}

MailOrWallets ==
    (\E h \in Handlers : want'[h] = "on") \/ ledger'.notify = "on"
        => Cardinality(WalletsInUse) <= 1
=============================================================================
