\* Two faults in any passes and one event between passes.
SPECIFICATION ProvisioningFairSpec
CONSTANTS
    Modes <- AllModes
    MaxFaults = 2
    MaxEvents = 1
INVARIANTS
    
    OneOfEachName
    
PROPERTIES
    RepeatChangesNothing
    
CHECK_DEADLOCK FALSE
