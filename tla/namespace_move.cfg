\* The user moves the collector to another namespace, then deletes the service.
SPECIFICATION Spec
CONSTANTS
    nil = nil
    Nil = nil
    NoConfig = noconfig
    NoData = nodata
    Data = {d1}
    Namespaces <- TwoNamespaces
    Settings <- MCSettings
    SecretNames = {}
    Specs <- MovingSpecs
    Configs <- OneConfig
    ConfigHashOf <- MCHash
    WithWorkloadCluster = FALSE
    Instances = {i1}
    EmptyObjHasKind = FALSE
    Disturbances = {"edit", "delete"}
    MaxEvents = 2
INVARIANTS
    NoOrphanedResources
\* the environment may run out of events and the provider come to rest
CHECK_DEADLOCK FALSE
