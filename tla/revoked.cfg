\* Somebody deletes the access request of a service that is then deleted.
SPECIFICATION Spec
CONSTANTS
    nil = nil
    Nil = nil
    NoConfig = noconfig
    NoData = nodata
    Data = {d1}
    Namespaces <- FixedNamespaces
    Settings <- MCSettings
    SecretNames = {}
    Specs <- FixedSpecs
    Configs <- OneConfig
    ConfigHashOf <- MCHash
    WithWorkloadCluster = FALSE
    Instances = {i1}
    EmptyObjHasKind = FALSE
    Disturbances = {"delete", "revoke"}
    MaxEvents = 2
INVARIANTS
    NoOrphanedResources
\* the environment may run out of events and the provider come to rest
CHECK_DEADLOCK FALSE
