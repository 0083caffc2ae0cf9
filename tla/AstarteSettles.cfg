SPECIFICATION FairSpec
CONSTANTS
    Versions = {v1, v2, bad}
    Snapshot = snapshot
    Unmanageable = bad
    NoVersion = none
    Deployed <- NoCFSSL
    MaxUids = 1
    MaxEdits = 1
    MaxFlips = 0
    MaxFaults = 0
    MaxCrashes = 1
CHECK_DEADLOCK FALSE
PROPERTIES DeletionCompletes StatusSettles
