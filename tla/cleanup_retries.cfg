SPECIFICATION FairSpec
CONSTANTS
    HubNamespace = "mural-system"
    Ancillary = {"tenant-default"}
    Labelled = {}
    StaleHooks = {"hue-admission"}
    LabelledHooks = {"extra-admission"}
    Deployed = {"deployed"}
    Requests <- FullOnly
    Interrupts = TRUE
    MaxFaults = 2
PROPERTIES
    RetriesConverge
