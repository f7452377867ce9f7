SPECIFICATION Spec
CONSTANTS
    Clusters <- TwoClusters
    Config <- ReadmeBlocks
    Kept <- NoReleases
    Given <- Plain
    Insisted <- Plain
    DefaultTimeout = 20
    MaxFaults = 0
INVARIANTS
    UnsetTimeoutIsDefault
