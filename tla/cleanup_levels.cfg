SPECIFICATION Spec
CONSTANTS
    HubNamespace = "mural-system"
    Ancillary = {"tenant-default"}
    Labelled = {"mural-system"}
    StaleHooks = {"hue-admission"}
    LabelledHooks = {"extra-admission"}
    Deployed = {"deployed"}
    Requests <- AllLevels
    Interrupts = TRUE
    MaxFaults = 1
INVARIANTS
    TypeOK
    SuccessMeansClean
    SuccessMeansUninstalled
PROPERTIES
    InterruptIsHeeded
    DependentsFirst
    KeptIsLeftAlone
    ImplementsContract
