\* Three rounds of a stream that is consumed, and two reports of the task.
CONSTANTS
    Reports = {35, 90}
    Deadline = 3
SPECIFICATION FairSpec
PROPERTIES NeverBack StreamEnds ResultShown
CHECK_DEADLOCK FALSE
