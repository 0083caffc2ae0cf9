SPECIFICATION Spec
CONSTANTS
    Versions = {v1, v2}
    Snapshot = snapshot
    Unmanageable = bad
    NoVersion = none
    Deployed <- NoCFSSL
    MaxUids = 1
    MaxEdits = 1
    MaxFlips = 1
    MaxFaults = 0
    MaxCrashes = 0
CHECK_DEADLOCK FALSE
PROPERTIES UpgradeGated
