\* Access to a workload cluster as well, an empty object with its kind, and no poll interval;
\* deletion under faults, to the end, coming to rest, and what is deployed then.
SPECIFICATION FairSpec
CONSTANTS
    nil = nil
    Nil = nil
    NoConfig = noconfig
    NoData = nodata
    Data = {d1}
    Namespaces <- FixedNamespaces
    Settings <- MCSettings
    SecretNames = {}
    Specs <- FixedSpecs
    Configs <- NoPolling
    ConfigHashOf <- MCHash
    WithWorkloadCluster = TRUE
    Instances = {i1}
    EmptyObjHasKind = TRUE
    Disturbances = {"create", "edit", "delete", "fault", "crash", "miss", "config", "namespace", "prerequisite", "foreign"}
    MaxEvents = 2
INVARIANTS
    NoOrphanedResources
    AccessHeldByFinalizer
    RestMeansDeployed
PROPERTIES
    NoRenewalWhileDeleting
    ImplementsLifecycle
    DeletionCompletes
    QuickReconcilesRest
\* the environment may run out of events and the provider come to rest
CHECK_DEADLOCK FALSE
