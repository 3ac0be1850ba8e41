-------------------------- MODULE ManagedControlPlane --------------------------
(***************************************************************************)
(* The managed control plane (MCP) the collector is deployed to, and the   *)
(* operations of internal/resources on it.  Each operator below is one     *)
(* call of the API server that changes something; a Get followed by the    *)
(* write it guards (resourceVersion, AlreadyExists) is one operation that  *)
(* may also fail, which the calling reconciler models.                     *)
(*                                                                         *)
(* The Deployment and the Service are called collector and frontend here:  *)
(* "Service" is also the name of the API object of the provider.           *)
(***************************************************************************)
EXTENDS ServiceApi

CollectorSecret == "otel-collector-secret"  \* constants.go: SecretName

VARIABLES
    namespaces,       \* namespaces that exist
    configMap,        \* namespace -> the user's collector configuration
    secrets,          \* namespace -> secret name -> contents
    collector,        \* namespace -> the Deployment
    frontend,         \* namespace -> owner of the Service
    platformSecrets   \* secret name -> contents, in the provider's own namespace

mcpVars == <<namespaces, configMap, secrets, collector, frontend>>

Owners == {"none", "provider", "user"}      \* "provider": carries the managed-by label

Deployments == [owner : Owners,
                image : Values, version : Values, resources : Values,
                pullSecrets : Seq(SecretNames),
                hash : Hashes]

NoDeployment == [owner |-> "none", image |-> Nil, version |-> Nil, resources |-> Nil,
                 pullSecrets |-> <<>>, hash |-> NoData]

MCPTypeOK ==
    /\ namespaces \subseteq Namespaces
    /\ configMap \in [Namespaces -> MaybeData]
    /\ secrets \in [Namespaces -> [SecretNames \cup {CollectorSecret} -> MaybeData]]
    /\ collector \in [Namespaces -> Deployments]
    /\ frontend \in [Namespaces -> Owners]
    /\ platformSecrets \in [SecretNames -> MaybeData]

-----------------------------------------------------------------------------
(* What a reconcile does to the MCP.                                       *)

\* ReconcileNamespace
CreateNamespace(ns) ==
    /\ namespaces' = namespaces \cup {ns}
    /\ UNCHANGED <<configMap, secrets, collector, frontend>>

\* ReconcileImagePullSecrets, one secret: the copy is created or overwritten,
\* whoever made it
CopyPullSecret(ns, name, data) ==
    /\ secrets' = [secrets EXCEPT ![ns][name] = data]
    /\ UNCHANGED <<namespaces, configMap, collector, frontend>>

\* DeploymentOpts and the mutate function of ReconcileDeployment: the labels are
\* set on whatever Deployment has the name
DesiredDeployment(spec, cfg, hash) ==
    [owner |-> "provider",
     image |-> Resolve("image", spec, cfg), version |-> Resolve("version", spec, cfg),
     resources |-> Resolve("resources", spec, cfg),
     pullSecrets |-> cfg.pullSecrets, hash |-> hash]

ReconcileDeployment(ns, deployment) ==
    /\ collector' = [collector EXCEPT ![ns] = deployment]
    /\ UNCHANGED <<namespaces, configMap, secrets, frontend>>

ReconcileService(ns) ==
    /\ frontend' = [frontend EXCEPT ![ns] = "provider"]
    /\ UNCHANGED <<namespaces, configMap, secrets, collector>>

\* DeleteManagedResources, in its two calls: by name, whatever the labels say
DeleteDeployment(ns) ==
    /\ collector' = [collector EXCEPT ![ns] = NoDeployment]
    /\ UNCHANGED <<namespaces, configMap, secrets, frontend>>

DeleteService(ns) ==
    /\ frontend' = [frontend EXCEPT ![ns] = "none"]
    /\ UNCHANGED <<namespaces, configMap, secrets, collector>>

-----------------------------------------------------------------------------
(* What users of the MCP do.                                               *)

\* A namespace is made by hand, say before the service object
UserMakesNamespace ==
    \E ns \in Namespaces \ namespaces : CreateNamespace(ns)

UserWritesConfigMap ==
    \E ns \in namespaces, d \in MaybeData :
        /\ d # configMap[ns]
        /\ configMap' = [configMap EXCEPT ![ns] = d]
        /\ UNCHANGED <<namespaces, secrets, collector, frontend>>

UserWritesSecret ==
    \E ns \in namespaces, d \in MaybeData :
        /\ d # secrets[ns][CollectorSecret]
        /\ CopyPullSecret(ns, CollectorSecret, d)

\* Drift: the managed Deployment is edited or removed, the Service removed
UserEditsDeployment ==
    \E ns \in namespaces, v \in Settings :
        /\ collector[ns].owner = "provider"
        /\ v # collector[ns].version
        /\ ReconcileDeployment(ns, [collector[ns] EXCEPT !.version = v])

UserRemovesDeployment ==
    \E ns \in namespaces : collector[ns].owner = "provider" /\ DeleteDeployment(ns)

UserRemovesService ==
    \E ns \in namespaces : frontend[ns] = "provider" /\ DeleteService(ns)

\* A Deployment or Service of the same name that this provider did not make
UserMakesDeployment ==
    \E ns \in namespaces :
        /\ collector[ns].owner = "none"
        /\ ReconcileDeployment(ns, [NoDeployment EXCEPT !.owner = "user"])

UserMakesService ==
    \E ns \in namespaces :
        /\ frontend[ns] = "none"
        /\ frontend' = [frontend EXCEPT ![ns] = "user"]
        /\ UNCHANGED <<namespaces, configMap, secrets, collector>>

MCPInit ==
    /\ namespaces \in {{}, Namespaces}
    /\ configMap \in {[ns \in Namespaces |-> NoData]}
        \cup {[ns \in Namespaces |-> IF ns \in namespaces THEN d ELSE NoData] : d \in Data}
    /\ secrets = [ns \in Namespaces |->
                    [n \in SecretNames \cup {CollectorSecret} |->
                        IF n = CollectorSecret THEN configMap[ns] ELSE NoData]]
    /\ collector = [ns \in Namespaces |-> NoDeployment]
    /\ frontend = [ns \in Namespaces |-> "none"]
    /\ platformSecrets \in [SecretNames -> Data]
=============================================================================
