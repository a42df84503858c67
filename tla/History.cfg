\* A client walking over four events that happen before and while it does, one
\* verdict taken back; pages of one or two items, and a last page to be clamped to.
CONSTANTS
    PageSizes = {1, 2}
    MaxPage = 3
    MaxEvents = 4
    MaxTaken = 1
SPECIFICATION Spec
ACTION_CONSTRAINT Apart
INVARIANTS PagesExact NothingSkipped
CHECK_DEADLOCK FALSE
