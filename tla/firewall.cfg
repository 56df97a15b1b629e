\* An operator runs twice, or once and changes the policy, beside the service
\* and the timer.
SPECIFICATION FairSpec
CONSTANTS
    Operator = {p1}
    Service = "service"
    Recover = "recover"
    Chain = {c1, c2, c3, c4}
    Rules = 2
    MaxPolicy = 2
    MaxRuns = 2
    MaxMishaps = 1
    Nobody = Nobody
    NoChain = NoChain
    Foreign = Foreign
    Absent = Absent
PROPERTIES
    SwitchIsSeamless
    NothingIsLeft
    PolicyReturns
    EveryoneEnds
CHECK_DEADLOCK FALSE
