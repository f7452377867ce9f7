SPECIFICATION FairSpec
CONSTANTS
    canvas = canvas
    hook = hook
    Pods = {canvas, hook}
INVARIANTS
    TypeOK
    SuccessMeansReachable
    ErrorNamesItsCause
PROPERTIES
    WaitEnds
    CancelReturns
