\* Two operators; any command may fail, one process may be killed.
SPECIFICATION Spec
CONSTANTS
    Database = {d1, d2}
    Client = {s1}
    Id = {i1}
    Operator = {p1, p2}
    MaxWrites = 2
    MaxKills = 1
    TruncatedDumps = FALSE
    LateSignals = FALSE
    OtherStages = FALSE
    Absent = Absent
    Empty = Empty
    Truncated = Truncated
    NoDump = NoDump
    NoBackup = NoBackup
    NoId = NoId
SYMMETRY Interchangeable
INVARIANTS
    LockExclusive
    RollbackIsComplete
    RestoredOrRolledBack
    LostDataIsOnDisk
PROPERTIES
    BackupIsCut
    ClientsComeBack
