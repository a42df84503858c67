\* Two requests for one content, or one whose message is delivered twice; the
\* content may be analysed again; two workers, fair.
SPECIFICATION FairSpec
CONSTANTS
    Requests = {r1, r2}
    Contents = {c1}
    Workers = {w1, w2}
    Slow = {r1}
    Rerun = {c1}
    NoContent = NoContent
    NoRequest = NoRequest
CHECK_DEADLOCK FALSE
ACTION_CONSTRAINTS RedeliveredAlone
INVARIANTS ClaimAccounted OneEmbedder SuccessMeansApplied
PROPERTIES AppliedKept ImplementsLifecycle ClaimEnds
