---------------------------- MODULE ServiceProvider ----------------------------
(***************************************************************************)
(* The whole provider: the instances' reconcile loops, the ProviderConfig  *)
(* and the controller that delivers it, the managed control plane, cluster *)
(* access, and everybody else who acts on them.                            *)
(*                                                                         *)
(* Whatever others do is bounded: each of their actions has a kind, a      *)
(* model allows the kinds in Disturbances, MaxEvents of them in all.  What *)
(* the platform does by itself (grant access, finish a deletion), timers   *)
(* and the delivery of a config are not bounded.                           *)
(***************************************************************************)
EXTENDS OtelCollectorController

CONSTANTS
    Disturbances,   \* kinds of events that may happen
    MaxEvents       \* how many of them

ASSUME DisturbancesAssumption == MaxEvents \in Nat

VARIABLES
    config,   \* the ProviderConfig on the platform cluster
    notify,   \* instances whose ProviderConfig controller has work
    budget    \* disturbances left

vars == <<spVars, access, mcpVars, platformSecrets, config, notify, budget>>

TypeOK ==
    /\ SPTypeOK /\ AccessTypeOK /\ MCPTypeOK
    /\ config \in Configs \cup {NoConfig}
    /\ notify \subseteq Instances
    /\ budget \in 0 .. MaxEvents

Init ==
    /\ SPInit /\ AccessInit /\ MCPInit
    /\ config \in Configs \cup {NoConfig}
    /\ notify = IF config = NoConfig THEN {} ELSE Instances
    /\ budget = MaxEvents

-----------------------------------------------------------------------------

Disturb(kind) == kind \in Disturbances /\ budget > 0 /\ budget' = budget - 1

ConfigUntouched == UNCHANGED <<config, notify>>
Untouched == UNCHANGED <<platformSecrets, config, notify>>

Worker(i) == WorkerStep(i) /\ Untouched /\ UNCHANGED budget

Fault(i) == Disturb("fault") /\ CallFails(i) /\ MCPUntouched /\ Untouched

Timer(i) == TimerFires(i) /\ UNCHANGED access /\ MCPUntouched /\ Untouched /\ UNCHANGED budget

\* PCReconciler.Reconcile: what it finds is sent to the other controller
DeliverConfig(i) ==
    /\ i \in notify
    /\ notify' = notify \ {i}
    /\ StoreConfig(i, config)
    /\ UNCHANGED <<access, platformSecrets, config, budget>> /\ MCPUntouched

\* A Get that fails sends nil, like a config that is not there; it is retried
MissConfig(i) ==
    /\ Disturb("miss")
    /\ i \in notify
    /\ StoreConfig(i, NoConfig)
    /\ UNCHANGED <<access, platformSecrets, config, notify>> /\ MCPUntouched

\* A crash; the restarted process lists the ProviderConfig as it lists objects
Crash(i) ==
    /\ Disturb("crash")
    /\ Restart(i)
    /\ notify' = IF config = NoConfig THEN notify \ {i} ELSE notify \cup {i}
    /\ UNCHANGED <<access, platformSecrets, config>> /\ MCPUntouched

\* The operator applies, changes or deletes the ProviderConfig
EditConfig ==
    /\ Disturb("config")
    /\ \E c \in (Configs \cup {NoConfig}) \ {config} : config' = c
    /\ notify' = Instances
    /\ UNCHANGED <<spVars, access, platformSecrets>> /\ MCPUntouched

\* The operator changes a pull secret on the platform cluster
EditPlatformSecret ==
    /\ Disturb("platformSecret")
    /\ \E n \in SecretNames, d \in MaybeData :
         d # platformSecrets[n] /\ platformSecrets' = [platformSecrets EXCEPT ![n] = d]
    /\ UNCHANGED <<spVars, access>> /\ MCPUntouched /\ ConfigUntouched

Platform ==
    /\ \E r \in Requests : AccessGranted(r) \/ AccessGone(r)
    /\ UNCHANGED <<spVars, budget>> /\ MCPUntouched /\ Untouched

Revoke ==
    /\ Disturb("revoke")
    /\ \E r \in Requests : AccessRevoked(r)
    /\ UNCHANGED spVars /\ MCPUntouched /\ Untouched

User ==
    /\ \/ Disturb("create") /\ CreateObject
       \/ Disturb("edit") /\ EditObject
       \/ Disturb("delete") /\ DeleteObject
    /\ UNCHANGED access /\ MCPUntouched /\ Untouched

ControlPlaneUser ==
    /\ \/ Disturb("namespace") /\ UserMakesNamespace
       \/ Disturb("prerequisite") /\ (UserWritesConfigMap \/ UserWritesSecret)
       \/ Disturb("drift")
            /\ (UserEditsDeployment \/ UserRemovesDeployment \/ UserRemovesService)
       \/ Disturb("foreign") /\ (UserMakesDeployment \/ UserMakesService)
    /\ UNCHANGED <<spVars, access>> /\ Untouched

Next ==
    \/ \E i \in Instances : \/ Worker(i) \/ Fault(i) \/ Timer(i)
                            \/ DeliverConfig(i) \/ MissConfig(i) \/ Crash(i)
    \/ EditConfig \/ EditPlatformSecret \/ Platform \/ Revoke
    \/ User \/ ControlPlaneUser

Spec == Init /\ [][Next]_vars

-----------------------------------------------------------------------------
(* A worker with work goes on, delayed requeues come due, controllers are  *)
(* notified and the platform acts on requests; nobody else has to act.     *)

Fairness ==
    /\ \A i \in Instances : WF_vars(Worker(i)) /\ WF_vars(Timer(i)) /\ WF_vars(DeliverConfig(i))
    /\ WF_vars(Platform)

FairSpec == Spec /\ Fairness

-----------------------------------------------------------------------------
(* Safety.                                                                 *)

\* Nothing the provider deployed outlives the finalizer that guards its removal:
\* a service object without finalizer, or no object, means no managed Deployment
\* and no managed Service anywhere (spreconciler.go, delete; README "Flow").
NoOrphanedResources ==
    ~obj.fin => \A ns \in Namespaces : collector[ns].owner # "provider" /\ frontend[ns] # "provider"

\* Access requests exist only under a finalizer: they are made after it is set and
\* gone before it is removed (createOrUpdate, delete).
AccessHeldByFinalizer == ~obj.fin => AllAbsent

\* A live service that reports Ready for its current generation runs what its spec
\* overrides, in the namespace it asks for, behind a Service.  (One in deletion may
\* report Ready too: it was deleted between the two reads of one reconcile.)
ReadyMeansDeployed ==
    obj.life = "live" /\ obj.status.phase = "Ready" /\ obj.status.observed = obj.gen =>
        \E ns \in Namespaces :
            /\ obj.spec["namespace"] \in {Nil, ns}
            /\ frontend[ns] = "provider"
            /\ collector[ns].owner = "provider"
            /\ \A f \in {"image", "version", "resources"} :
                 obj.spec[f] \in {Nil, collector[ns][f]}

\* status.go: Ready is the phase exactly of objects whose condition is True.
PhaseMatchesCondition ==
    obj.status.phase = "Ready" <=> obj.status.ready.status = "True"

\* An object that exists is never forgotten: an idle instance has it queued or has
\* a timer for it (the requeues and the poll interval of Reconcile).
WakeupPending ==
    obj.life # "absent" => \A i \in Instances : pc[i] # "idle" \/ i \in queued \cup timer

\* Nothing to come: no reconcile runs, is queued or will be by time, and no config is on
\* its way
Quiescent ==
    /\ \A i \in Instances : pc[i] = "idle" /\ i \notin queued \cup timer
    /\ notify = {}

\* Deployment and Service are as a spec and a config ask, with the digest of whatever the
\* prerequisites were
DeployedAs(spec, cfg) ==
    LET ns == Resolve("namespace", spec, cfg)
    IN  /\ collector[ns] = DesiredDeployment(spec, cfg, collector[ns].hash)
        /\ frontend[ns] = "provider"

\* Nothing comes to rest on the way (Reconcile returns no requeue and no error only after
\* the last call of createOrUpdate): if nothing is left to do for a live service, it is
\* deployed as its present spec and the present ProviderConfig ask, whatever was edited,
\* lost or delivered late during its reconciles.  If a new config enqueues no object, it
\* may be some other config that it is deployed with.
RestMeansDeployed ==
    Quiescent /\ obj.life = "live" /\ config # NoConfig =>
        \E c \in Configs : DeployedAs(obj.spec, c) /\ (EmptyObjHasKind => c = config)

\* A reconcile that deletes does not renew access that is being given up: it makes no
\* request while one is absent or in deletion (areAccessRequestsInDeletion).
NoRenewalWhileDeleting ==
    [][\A i \in Instances, r \in Requests :
         job[i].del /\ access[r] \in {"absent", "deleting"} => access'[r] # "pending"]_vars

\* Cleanup deletes "the Deployment and Service managed by this service provider"
\* (cleanup.go): what somebody else made under the same name stays, or is adopted.
OnlyManagedIsDeleted ==
    [][\A ns \in Namespaces :
         /\ collector[ns].owner = "user" => collector'[ns].owner # "none"
         /\ frontend[ns] = "user" => frontend'[ns] # "none"]_vars

\* "Any provider config change results in a reconcile request for every existing
\* service provider api object" (pcreconciler.go).
ConfigChangeReachesObject ==
    [][\A i \in Instances : cached'[i] \notin {cached[i], NoConfig} /\ obj.life # "absent"
         => i \in queued']_vars

-----------------------------------------------------------------------------
(* Why the safety properties hold, for one instance: the parts of the      *)
(* inductive invariants of ServiceProviderProofs.  CleanupOrder also needs *)
(* that all specs and configs resolve to one target namespace.             *)

\* Past the first steps a job has a config and a spec, and a pull secret to copy
JobReady ==
    /\ obj.life # "absent" => obj.spec \in Specs
    /\ \A i \in Instances :
         /\ pc[i] \notin {"idle", "status"} => job[i].cfg \in Configs /\ job[i].obj.spec \in Specs
         /\ pc[i] \in {"readPull", "writePull"} => job[i].pull # <<>>

\* Who works on which path, and that the finalizer is there while access is held
FinalizerGuards ==
    /\ obj.life = "absent" => ~obj.fin
    /\ obj.life = "deleting" => obj.fin
    /\ \A i \in Instances :
         /\ job[i].del => obj.life = "deleting"
         /\ pc[i] \in CreatePcs \cup {"finalizer"} => ~job[i].del
         /\ pc[i] \in DeletePcs \cup {"check", "terminating", "release", "drop"} => job[i].del
         /\ pc[i] \in CreatePcs \cup {"access"} => obj.fin

ManagedAt(ns) == collector[ns].owner = "provider" \/ frontend[ns] = "provider"
Managed  == \E ns \in Namespaces : ManagedAt(ns)
Deployed == \E ns \in Namespaces : collector[ns].owner = "provider"

AtHome ==
    \A ns \in Namespaces : ManagedAt(ns) =>
        \A s \in Specs, c \in Configs : Resolve("namespace", s, c) = ns

\* Resources are made after and removed before access and finalizer, in the one
\* namespace that spec and config resolve to: what keeps them from being orphaned
CleanupOrder ==
    /\ AtHome
    /\ Managed => obj.fin /\ AllGranted
    /\ ~obj.fin => AllAbsent
    /\ \A i \in Instances :
         /\ pc[i] \in CreatePcs => AllGranted
         /\ pc[i] = "deleteService" => ~Deployed
         /\ pc[i] = "terminating" /\ job[i].result # "error" => ~Managed
         /\ pc[i] \in {"release", "drop"} => ~Managed
         /\ pc[i] = "drop" => AllAbsent

-----------------------------------------------------------------------------
(* The abstract life cycle that the provider implements.                   *)

\* A reconcile that began while the object was live goes on as if it still were:
\* the service is not draining before it has ended
Creating(i) == pc[i] # "idle" /\ ~job[i].del

Stage ==
    CASE obj.life = "absent" -> "absent"
      [] obj.life = "deleting" /\ (\A i \in Instances : ~Creating(i)) -> "draining"
      [] OTHER -> "serving"

Held == {r \in Requests : access[r] # "absent"}

DeployedKinds ==
    {k \in {"Deployment", "Service"} :
        \E ns \in Namespaces : IF k = "Deployment" THEN collector[ns].owner = "provider"
                                                 ELSE frontend[ns] = "provider"}

Lifecycle == INSTANCE ServiceLifecycle
                 WITH stage <- Stage, guarded <- obj.fin, held <- Held, deployed <- DeployedKinds

\* Object, finalizer, access and resources come in this order and go in the reverse
\* order, and nothing is asked for or made again once the service is draining
\* (createOrUpdate, delete), for one instance without drift and revoked requests.
ImplementsLifecycle == Lifecycle!Spec

\* Why it does, besides CleanupOrder: access is given up only for an object that
\* nobody still serves, and a reconcile that deletes asks for access only while
\* none has been given up (areAccessRequestsInDeletion), so it never makes a request
AccessOrder ==
    /\ (\E r \in Requests : access[r] = "deleting") =>
         obj.life = "deleting" /\ \A i \in Instances : ~Creating(i)
    /\ \A i \in Instances : pc[i] = "access" /\ job[i].del => ~InDeletion

-----------------------------------------------------------------------------
(* Liveness.                                                               *)

Configured == config # NoConfig

\* Deletion completes, if there is a ProviderConfig in the end.
DeletionCompletes ==
    <>[]Configured => (obj.life = "deleting" ~> obj.life = "absent")

\* Everything is in place for a running collector
Provided ==
    /\ obj.life = "live" /\ Configured
    /\ LET ns == Resolve("namespace", obj.spec, config)
       IN  configMap[ns] # NoData /\ secrets[ns][CollectorSecret] # NoData
    /\ \A n \in SecretNames : platformSecrets[n] # NoData

\* What the user asked for, with a provider that polls
Requested == Provided /\ config.poll

\* and what it takes: the Deployment of the current spec, config and prerequisites,
\* its Service, copies of the pull secrets, and a status that says so
Running ==
    LET ns == Resolve("namespace", obj.spec, config)
    IN  /\ collector[ns] = DesiredDeployment(obj.spec, config,
                              ConfigHashOf(configMap[ns], secrets[ns][CollectorSecret]))
        /\ frontend[ns] = "provider"
        /\ \A k \in DOMAIN config.pullSecrets :
             LET n == config.pullSecrets[k] IN secrets[ns][n] = platformSecrets[n]
        /\ obj.status.phase = "Ready" /\ obj.status.observed = obj.gen

\* What a reconcile under way has to have copied and computed so far in order to change
\* nothing of that
InStep(i) ==
    LET ns == Resolve("namespace", obj.spec, config)
    IN  /\ cached[i] = config
        /\ pc[i] # "idle" =>
             /\ pc[i] \in CreatePcs \cup {"finalizer", "access", "status"} /\ ~job[i].del
             /\ job[i].cfg = config
        /\ pc[i] \in CreatePcs \cup {"access"} => job[i].obj.spec = obj.spec /\ job[i].obj.gen = obj.gen
        /\ pc[i] \in {"namespace", "readPull", "writePull"} =>
             \A k \in DOMAIN job[i].pull : \E m \in DOMAIN config.pullSecrets :
                 job[i].pull[k] = config.pullSecrets[m]
        /\ pc[i] = "writePull" => job[i].src = platformSecrets[Head(job[i].pull)]
        /\ pc[i] = "secret" => job[i].conf = configMap[ns]
        /\ pc[i] = "deployment" => job[i].hash = ConfigHashOf(configMap[ns], secrets[ns][CollectorSecret])
        /\ pc[i] = "status" =>
             job[i].obj.status.phase = "Ready" /\ job[i].obj.status.observed = obj.gen

Settled == Provided /\ AllGranted /\ Running /\ \A i \in Instances : InStep(i)

\* Reconciles of a collector that runs as it should are idempotent: while nothing fails
\* and nobody else acts, any number of instances reconcile it again and again, and at no
\* time between their calls it is restarted, loses its Service or stops being Ready.
SettledStays ==
    [][Settled /\ budget' = budget =>
         Settled' /\ UNCHANGED <<configMap, secrets, collector, frontend>>]_vars

\* Once the environment settles on a request, the collector runs and stays, in spite
\* of crashes, failed calls, lost patches, edits, drift and stale copies before.
Converges == <>[]Requested => <>[](Requested /\ Running)

\* Nothing left to do: no reconcile runs and none is queued
AtRest == \A i \in Instances : pc[i] = "idle" /\ i \notin queued

\* A patch that moves nothing but the lastTransitionTime of a condition that was True
\* before and is True again
OnlyTimeMoves == (\E i \in Instances : WriteStatus(i)) /\ obj' = obj /\ queued' # queued

\* "Return 0 if not required" (ProviderConfig, PollInterval): without a poll interval a
\* service that is in place is not reconciled again and again, where a reconcile of a
\* Ready object begins and ends within one second (in the end).
QuickReconcilesRest ==
    <>[](Provided /\ ~config.poll) /\ <>[][~OnlyTimeMoves]_vars => <>[]AtRest
=============================================================================
