\* Signals may arrive while the lock is being removed, so that two scripts may
\* run at once, and other stages start services.
SPECIFICATION FairSpec
CONSTANTS
    Database = {d1}
    Client = {s1}
    Id = {i1}
    Operator = {p1, p2}
    MaxWrites = 0
    MaxKills = 0
    TruncatedDumps = FALSE
    LateSignals = TRUE
    OtherStages = TRUE
    Absent = Absent
    Empty = Empty
    Truncated = Truncated
    NoDump = NoDump
    NoBackup = NoBackup
    NoId = NoId
PROPERTIES
    ClientsReturn
