SPECIFICATION FairSpec
CONSTANTS
    Astartes = {a}
    MaxReplicas = 2
    Replicas = {0, 1, 2}
    QueueCounts = {2, 3}
    MaxEdits = 1
    MaxFaults = 1
    MaxCrashes = 1
    MaxBacklog = 3
CHECK_DEADLOCK FALSE
INVARIANTS TypeOK
PROPERTIES AllocationSettles
