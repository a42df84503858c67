\* Two accounts after one number, on two threads; one code a day, two wrong
\* answers, over midnight.
CONSTANTS
    Users = {u1, u2}
    Phones = {p1}
    Handlers = {h1, h2}
    DailyLimit = 1
    MaxFails = 2
    MaxRows = 3
    None = None
SPECIFICATION Spec
ACTION_CONSTRAINTS Codes WrongAnswers
INVARIANTS PhoneOwned FailsCounted SendBound
SYMMETRY Symmetry
CHECK_DEADLOCK FALSE
