SPECIFICATION FairSpec
CONSTANTS
    Astartes = {"first", "second"}
    IDs = {"one", "two"}
    Specs <- Asked
    MaxLag = 1
    MaxEdits = 2
    MaxMishaps = 1
CHECK_DEADLOCK FALSE
INVARIANTS UniqueIDs NoOrphanClasses QuietMeansPrioritized
PROPERTIES DeletionsComplete
