\* One object; clients re-create it only above its last revision.
SPECIFICATION Spec
CONSTANTS
    Object = {o1}
    Hash = {h1}
    MaxRev = 2
    Consumer = {c1, c2}
    Page = {p1, p2}
    MaxAttempts = 2
    BatchSize = 1
    MaxRunning = 2
    MaxCrashes = 1
    FreshRevisions = TRUE
    Stalls = TRUE
    NoOne = NoOne
    NoHash = NoHash
    NoPage = NoPage
    NoEvent = NoEvent
SYMMETRY Interchangeable
INVARIANTS
    LiveLeaseHoldsRows
    SyncedIsDelivered
    NoLostIntent
PROPERTIES
    ProjectionNeverRegresses
    KeepsPromise
CHECK_DEADLOCK FALSE
