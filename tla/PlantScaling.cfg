SPECIFICATION PromptSpec
CONSTANTS
    Astartes = {a, b}
    MaxReplicas = 3
    Replicas = {0, 1, 2, 3}
    QueueCounts = {5}
    MaxEdits = 2
    MaxFaults = 0
    MaxCrashes = 0
    MaxBacklog = 2
CHECK_DEADLOCK FALSE
INVARIANTS RangesDisjoint PlantInv
