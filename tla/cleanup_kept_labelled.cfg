SPECIFICATION Spec
CONSTANTS
    HubNamespace = "mural-system"
    Ancillary = {"tenant-default"}
    Labelled = {"cert-manager"}
    StaleHooks = {"hue-admission"}
    LabelledHooks = {"extra-admission"}
    Deployed = {"deployed"}
    Requests <- FullKeeping
    Interrupts = TRUE
    MaxFaults = 0
PROPERTIES
    KeepFlagsCoverLabels
