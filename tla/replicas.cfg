\* Two instances without leader election.
SPECIFICATION Spec
CONSTANTS
    nil = nil
    Nil = nil
    NoConfig = noconfig
    NoData = nodata
    Data = {d1}
    Namespaces <- FixedNamespaces
    Settings <- MCSettings
    SecretNames = {}
    Specs <- FixedSpecs
    Configs <- OneConfig
    ConfigHashOf <- MCHash
    WithWorkloadCluster = FALSE
    Instances = {i1, i2}
    EmptyObjHasKind = FALSE
    Disturbances = {}
    MaxEvents = 0
INVARIANTS
    PhaseMatchesCondition
\* the environment may run out of events and the provider come to rest
CHECK_DEADLOCK FALSE
