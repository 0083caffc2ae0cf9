SPECIFICATION FairSpec
CONSTANTS
    Mega = 2
    Order <- Deployed
    Scaled = "trigger_engine"
    Need = 2
    Specs <- Astartes
    MaxLag = 2
    MaxEdits = 1
    MaxMishaps = 1
CHECK_DEADLOCK FALSE
INVARIANTS QuietMeansDeployed QuietWithinBudget
PROPERTIES ReplicasSettle BrokerSettles
