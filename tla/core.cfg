\* One instance, one target namespace; users, failed calls, crashes and config changes.
SPECIFICATION Spec
CONSTANTS
    nil = nil
    Nil = nil
    NoConfig = noconfig
    NoData = nodata
    Data = {d1}
    Namespaces <- FixedNamespaces
    Settings <- MCSettings
    SecretNames = {"pull"}
    Specs <- FixedSpecs
    Configs <- TwoConfigs
    ConfigHashOf <- MCHash
    WithWorkloadCluster = FALSE
    Instances = {i1}
    EmptyObjHasKind = FALSE
    Disturbances = {"create", "edit", "delete", "fault", "crash", "config"}
    MaxEvents = 3
INVARIANTS
    TypeOK
    NoOrphanedResources
    AccessHeldByFinalizer
    ReadyMeansDeployed
    PhaseMatchesCondition
    WakeupPending
    FinalizerGuards
    CleanupOrder
    AccessOrder
PROPERTIES
    NoRenewalWhileDeleting
    ImplementsLifecycle
\* the environment may run out of events and the provider come to rest
CHECK_DEADLOCK FALSE
