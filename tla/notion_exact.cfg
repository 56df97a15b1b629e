\* Consumers crash and requests lose their replies, but no running consumer
\* outlives its lease.
SPECIFICATION NotionSpec
CONSTANTS
    Object = {o1}
    Entities = {o1}
    Hash = {h1}
    MaxRev = 2
    Consumer = {c1, c2}
    Page = {p1, p2}
    MaxAttempts = 2
    BatchSize = 1
    MaxRunning = 2
    MaxCrashes = 1
    Batches = 2
    FreshRevisions = TRUE
    Stalls = FALSE
    NoOne = NoOne
    NoHash = NoHash
    NoPage = NoPage
    NoEvent = NoEvent
    NoObject = NoObject
SYMMETRY Interchangeable

    
    
PROPERTIES
    ImplementsConsumer
CHECK_DEADLOCK FALSE
