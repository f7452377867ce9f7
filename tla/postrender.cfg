SPECIFICATION Spec
CONSTANTS
    Streams <- AllStreams
    Words <- AnyWords
    Depth = 6
INVARIANTS
    TypeOK
    NoNilFields
    ZotHasOneServiceName
    RestIsUntouched
    NothingOnError
CHECK_DEADLOCK FALSE
