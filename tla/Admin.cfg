\* Two accounts in any roles, patched on two threads: enough for each to judge
\* the other while being judged.
CONSTANTS
    Users = {u1, u2}
    Handlers = {h1, h2}
    NoRequest = NoRequest
SPECIFICATION Spec
INVARIANTS LastAdminKept WithdrawnInactive
PROPERTIES RightsGranted
SYMMETRY Symmetry
CHECK_DEADLOCK FALSE
