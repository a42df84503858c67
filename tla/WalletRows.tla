----------------------------- MODULE WalletRows -----------------------------
(***************************************************************************)
(* The tables behind wallet linking, WalletLink and                        *)
(* WalletConnectionChallenge, and what must hold of their rows, whatever   *)
(* views write them.  WalletLinks adds the views.                          *)
(***************************************************************************)
EXTENDS Accounts, Naturals, Sequences, FiniteSets

CONSTANTS
    Addresses,
    MaxChallenges   \* bound on the challenges ever issued

ASSUME WalletAssumption ==
    /\ MaxChallenges \in Nat
    /\ None \notin Users \cup Addresses

VARIABLES
    link,       \* WalletLink.address of each user
    challenge,  \* WalletConnectionChallenge rows, oldest first
    spent,      \* history: links made with each challenge, counted up to two
    shared      \* history: challenges verified twice at once, or whose
                \* verifier ended before marking them used

Challenge == [user : Users, address : Addresses,
              used : {"no", "yes"}, age : {"fresh", "expired"}]

Issued == 1..Len(challenge)

-----------------------------------------------------------------------------
(* An address belongs to one account, whatever verifications overlap: the  *)
(* conflict check alone would not keep it, the unique column does; and an  *)
(* account has the address its own wallet signed for.                      *)
LinkOwned ==
    /\ \A u, v \in Users : u # v /\ link[u] # None => link[v] # link[u]
    /\ \A u \in Users : link[u] # None =>
           \E c \in Issued : /\ spent[c] > 0
                             /\ challenge[c].user = u
                             /\ challenge[c].address = link[u]

(* A challenge links once, unless two requests verified it at the same     *)
(* time or the one that did ended before marking it used.                  *)
SpentOnce == \A c \in Issued : spent[c] > 1 => c \in shared
=============================================================================
