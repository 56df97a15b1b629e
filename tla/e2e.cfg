\* One run with up to three heartbeats; any two requests of `apply` fail, or it
\* is killed.
SPECIFICATION Spec
CONSTANTS
    Operators = {o1}
    Profiles = 2
    MaxRuns = 1
    MaxBeats = 3
    MaxFaults = 2
    LateTriggers = TRUE
INVARIANTS
    NoRunIsRecorded
    CompletedRowsAreTrue
CHECK_DEADLOCK FALSE
