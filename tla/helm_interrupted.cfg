SPECIFICATION Spec
CONSTANTS
    ci = ci
    laptop = laptop
    mural = mural
    crds = crds
    namespaced = namespaced
    clusterwide = clusterwide
    Processes = {ci, laptop}
    Releases = {mural, crds}
    Kinds = {namespaced, clusterwide}
    Interrupts = TRUE
SYMMETRY Symmetry
INVARIANTS
    TypeOK
    NoOrphans
    DeployedIsComplete
    OneWriter
PROPERTIES
    NotFoundMeansGone
