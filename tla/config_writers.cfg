\* Any three scripts overlap, one of which may fail or be killed anywhere.
SPECIFICATION FairSpec
CONSTANTS
    Scripts <- Everyone
    Projections = 2
    MaxCommits = 8
    MaxStarts = 3
    MaxKills = 1
INVARIANTS
    
    ManifestMeansRendered
    
PROPERTIES
    IssuedStays
    EveryScriptEnds
CHECK_DEADLOCK FALSE
