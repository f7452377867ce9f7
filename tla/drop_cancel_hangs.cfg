SPECIFICATION FairSpec
CONSTANTS
    mural = mural
    messaging = messaging
    certmanager = certmanager
    Namespaces = {mural, messaging, certmanager}
    Cap = 2
    ForceFinalize = FALSE
    Interruptible = TRUE
    Recreates = FALSE
PROPERTIES
    CancelReturns
CHECK_DEADLOCK FALSE
