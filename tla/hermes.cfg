\* Installations, reconciliations and removals of Hermes, one after the other,
\* with one edit of the canonical file, two mishaps or other commands and one
\* fault.  Commands may always be started anew, so nothing is exempted from
\* the deadlock check.
SPECIFICATION FairSpec
CONSTANTS
    Releases = 2
    MaxEdits = 1
    MaxEvents = 2
    MaxFaults = 1
INVARIANTS
    RevokedAtOnce
    InstalledMeansOperational
PROPERTIES
    InstallRecovers
