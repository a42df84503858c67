\* Two uploads of the same file: the double click of the README.
CONSTANTS
    Requests = {r1, r2}
    Files = {document}
    Documents = {document}
    Workers = {w1, w2}
    Slow = {}
    NoFile = NoFile
    NoRequest = NoRequest
SPECIFICATION Spec
INVARIANTS OneJobInFlightPerFile
CHECK_DEADLOCK FALSE
