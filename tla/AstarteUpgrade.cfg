SPECIFICATION PatientSpec
CONSTANTS
    Versions = {v1, v2, snapshot}
    Snapshot = snapshot
    Unmanageable = bad
    NoVersion = none
    Deployed <- NoCFSSL
    MaxUids = 1
    MaxEdits = 1
    MaxFlips = 1
    MaxFaults = 1
    MaxCrashes = 1
CHECK_DEADLOCK FALSE
PROPERTIES UpgradeGated
