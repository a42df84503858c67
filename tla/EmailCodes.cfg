\* One account proving an address with two requests at once.
CONSTANTS
    Addresses = {a1}
    Handlers = {h1, h2}
    Lifetime = 2
    DailyLimit = 2
    MaxFails = 2
    MaxCodes = 4
    None = None
SPECIFICATION Spec
ACTION_CONSTRAINT Answers
INVARIANTS CodeKept TriesBound UsedOnce
SYMMETRY Symmetry
CHECK_DEADLOCK FALSE
