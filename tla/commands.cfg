SPECIFICATION FairSpec
CONSTANTS
    Clusters <- TwoClusters
    Config <- Blocks
    Kept <- HubMural
    Given <- Mixed
    Insisted <- Both
    DefaultTimeout = 20
    MaxFaults = 2
INVARIANTS
    TypeOK
    SuccessMeansAchieved
    FailFast
    AtMostOneBegunLate
PROPERTIES
    PrerequisitesFirst
    DeployComesBack
    RefusedOnlyInTheWay
