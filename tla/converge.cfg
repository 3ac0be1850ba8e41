\* Everything that may disturb one instance, and what has to come of it.
SPECIFICATION FewStartsFairSpec
CONSTANTS
    nil = nil
    Nil = nil
    NoConfig = noconfig
    NoData = nodata
    Data = {d1, d2}
    Namespaces <- FixedNamespaces
    Settings <- MCSettings
    SecretNames = {"pull"}
    Specs <- FixedSpecs
    Configs <- TwoConfigs
    ConfigHashOf <- MCHash
    WithWorkloadCluster = FALSE
    Instances = {i1}
    EmptyObjHasKind = FALSE
    Disturbances = {"edit", "delete", "fault", "crash", "config", "miss", "prerequisite", "drift", "platformSecret", "revoke", "foreign"}
    MaxEvents = 2
PROPERTIES
    Converges
    DeletionCompletes
    SettledStays
\* the environment may run out of events and the provider come to rest
CHECK_DEADLOCK FALSE
