\* The mode is edited from admin to public, then Hermes is reconciled.
SPECIFICATION Spec
CONSTANTS
    Releases = 1
    MaxEdits = 1
    MaxEvents = 1
    MaxFaults = 0
INVARIANT PublicIsHardened
