\* Drains one after the other; an instance may die and its leases run out.
SPECIFICATION FairSpec
CONSTANTS
    Object = {o1}
    Hash = {h1}
    MaxRev = 2
    Consumer = {c1, c2, c3}
    Page = {p1}
    MaxAttempts = 2
    BatchSize = 2
    MaxRunning = 1
    MaxCrashes = 1
    FreshRevisions = TRUE
    Stalls = FALSE
    NoOne = NoOne
    NoHash = NoHash
    NoPage = NoPage
    NoEvent = NoEvent
PROPERTIES
    EventuallySettled
CHECK_DEADLOCK FALSE
