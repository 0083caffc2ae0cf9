SPECIFICATION Spec
CONSTANTS
    Versions = {v1, bad}
    Snapshot = snapshot
    Unmanageable = bad
    NoVersion = none
    Deployed <- NoCFSSL
    MaxUids = 2
    MaxEdits = 1
    MaxFlips = 0
    MaxFaults = 1
    MaxCrashes = 1
CHECK_DEADLOCK FALSE
INVARIANTS TypeOK FinalizerInv
PROPERTIES DeploysOnlyUnderFinalizer FinalizesOnlyDeleted
