\* A Deployment of the same name that is not the provider's.
SPECIFICATION Spec
CONSTANTS
    nil = nil
    Nil = nil
    NoConfig = noconfig
    NoData = nodata
    Data = {d1}
    Namespaces <- FixedNamespaces
    Settings <- MCSettings
    SecretNames = {}
    Specs <- FixedSpecs
    Configs <- OneConfig
    ConfigHashOf <- MCHash
    WithWorkloadCluster = FALSE
    Instances = {i1}
    EmptyObjHasKind = FALSE
    Disturbances = {"delete", "foreign"}
    MaxEvents = 2
PROPERTIES
    OnlyManagedIsDeleted
\* the environment may run out of events and the provider come to rest
CHECK_DEADLOCK FALSE
