SPECIFICATION FairSpec
CONSTANTS
    mural = mural
    messaging = messaging
    certmanager = certmanager
    Namespaces = {mural, messaging, certmanager}
    Cap = 2
    ForceFinalize = TRUE
    Interruptible = TRUE
    Recreates = TRUE
INVARIANTS
    TypeOK
    NoErrorMeansGone
    AtMostOneLateStart
    TokenBalance
    ConcurrencyCap
PROPERTIES
    FinalizersSpared
    ImplementsContract
    ReturnsUnlessHung
CHECK_DEADLOCK FALSE
