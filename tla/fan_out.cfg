\* A new ProviderConfig, with the empty object of main.go.
SPECIFICATION Spec
CONSTANTS
    nil = nil
    Nil = nil
    NoConfig = noconfig
    NoData = nodata
    Data = {d1}
    Namespaces <- FixedNamespaces
    Settings <- MCSettings
    SecretNames = {}
    Specs <- FixedSpecs
    Configs <- NoPolling
    ConfigHashOf <- MCHash
    WithWorkloadCluster = FALSE
    Instances = {i1}
    EmptyObjHasKind = FALSE
    Disturbances = {"config"}
    MaxEvents = 1
PROPERTIES
    ConfigChangeReachesObject
\* the environment may run out of events and the provider come to rest
CHECK_DEADLOCK FALSE
