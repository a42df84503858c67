\* A marked image and a document, or the image alone with its message
\* delivered twice; two workers, fair.
CONSTANTS
    Requests = {image, document}
    Documents = {document}
    Marked = {image}
    Workers = {w1, w2}
    Slow = {image}
    NoRequest = NoRequest
SPECIFICATION FairSpec
ACTION_CONSTRAINTS RedeliveredAlone
INVARIANTS HistoryAgreement VerifiedIsRegistered
PROPERTIES ImplementsLifecycle AnsweredVerificationEnds
CHECK_DEADLOCK FALSE
