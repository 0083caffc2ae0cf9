SPECIFICATION FairSpec
CONSTANTS
    Secrets <- Names
    Stored <- Certificates
    Specs <- Resources
    AstarteSpecs <- Astartes
    MaxLag = 2
    MaxEdits = 2
    MaxMishaps = 1
CHECK_DEADLOCK FALSE
INVARIANTS OnlyWhatWasVetted QuietMeansServed
PROPERTIES ComesToRest NothingOutlivesTheIngress
