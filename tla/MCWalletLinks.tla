--------------------------- MODULE MCWalletLinks ----------------------------
(* Small instances of WalletLinks: users, addresses and threads are        *)
(* symmetric.                                                              *)
EXTENDS WalletLinks, TLC

Symmetry == Permutations(Users) \cup Permutations(Addresses) \cup Permutations(Handlers)

(* Bound: a third challenge is explored for one user or for one address.   *)
ThirdChallenge ==
    LET all == {challenge'[c] : c \in 1..Len(challenge')} IN
    Len(challenge') > 2 => \/ \A c, d \in all : c.user = d.user
                           \/ \A c, d \in all : c.address = d.address
=============================================================================
