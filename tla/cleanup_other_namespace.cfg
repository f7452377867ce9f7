SPECIFICATION Spec
CONSTANTS
    HubNamespace = "hub"
    Ancillary = {"tenant-default"}
    Labelled = {}
    StaleHooks = {"hue-admission"}
    LabelledHooks = {"extra-admission"}
    Deployed = {"deployed"}
    Requests <- FullOnly
    Interrupts = TRUE
    MaxFaults = 0
INVARIANTS
    SuccessMeansClean
