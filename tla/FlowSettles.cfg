SPECIFICATION FairSpec
CONSTANTS
    Blocks <- OneBlock
    Workers <- TwoWorkers
    Specs <- Rescaled
    MaxLag = 2
    MaxEdits = 1
    MaxMishaps = 1
CHECK_DEADLOCK FALSE
INVARIANTS SecretsMounted QuietMeansReconciled
PROPERTIES ComesToRest NothingOutlivesTheFlow
