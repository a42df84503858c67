\* Two users and two wallets, on two threads; a third challenge for one user
\* or one wallet.
CONSTANTS
    Users = {u1, u2}
    Addresses = {a1, a2}
    Handlers = {h1, h2}
    MaxChallenges = 3
    None = None
SPECIFICATION Spec
ACTION_CONSTRAINTS ThirdChallenge
INVARIANTS LinkOwned SpentOnce
SYMMETRY Symmetry
CHECK_DEADLOCK FALSE
