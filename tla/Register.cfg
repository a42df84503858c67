\* Two uploads of one file, an image or a document, or one upload whose
\* message is delivered twice; two workers, fair.
CONSTANTS
    Requests = {r1, r2}
    Files = {image, document}
    Documents = {document}
    Workers = {w1, w2}
    Slow = {r1}
    NoFile = NoFile
    NoRequest = NoRequest
SPECIFICATION FairSpec
ACTION_CONSTRAINTS RedeliveredAlone SameFile
INVARIANTS OneExecutor OutcomeAgreement AbandonedOnlyByDeath
PROPERTIES ImplementsLifecycle AnsweredJobEnds
CHECK_DEADLOCK FALSE
