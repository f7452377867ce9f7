SPECIFICATION Spec
CONSTANTS
    HubNamespace = "mural-system"
    Ancillary = {"tenant-default"}
    Labelled = {}
    StaleHooks = {"hue-admission"}
    LabelledHooks = {"extra-admission"}
    Deployed = {"deployed"}
    Requests <- UninstallOnly
    Interrupts = TRUE
    MaxFaults = 1
INVARIANTS
    RetryUninstalls
