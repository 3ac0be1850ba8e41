# Specification of service-provider-otel-collector

TLA+ modules of the provider, TLC runs that check them on small instances, and
theorems about them checked by TLAPS. Paths below are relative to the
repository.

Run a model with `tlc -config core.cfg MCServiceProvider` and check the proofs
with `tlapm ServiceProviderProofs.tla`, and so on for the other modules whose
names end in `Proofs`.

## The system

The provider deploys an OpenTelemetry Collector to a managed control plane
(MCP) for an `OtelCollectorService` object. It works on three clusters: the
object and its status are on the *onboarding* cluster, `ProviderConfig`, access
requests and pull secrets on the *platform* cluster, the results on the *MCP*.

| Component | Code | State | Operations |
|---|---|---|---|
| Service object, status | `api/v1alpha1`, `pkg/spruntime/status.go` | life, finalizer, generation, spec, status | three status setters, merge patch |
| Generic reconcile loop | `pkg/spruntime/spreconciler.go` | config cache (atomic pointer), work queue, delayed requeues, locals of the running reconcile | `Reconcile`, `createOrUpdate`, `delete`, `updateStatus`, config map function |
| ProviderConfig controller | `pkg/spruntime/pcreconciler.go` | its queue, the unbuffered update channel, the buffer of the channel source | reads the config, sends it or nil to the map function of the loop |
| Domain controller | `internal/controller` | none | `CreateOrUpdate`, `Delete`, resolution of settings |
| Resources | `internal/resources` | namespace, pull secrets, Deployment, Service in the MCP | create or update, check of prerequisites, cleanup |
| Config hash | `internal/resources/prerequisites.go` | none | digest of ConfigMap and Secret |
| Cluster access | openMCP library, used through `ClusterAccessProvider` | access requests | request, grant, release |
| Program | `cmd/service-provider-otel-collector` | how far the init job and the run process are | `init` (access, CRDs, registration), `run` (access, wiring, start of both controllers) |

How they interact: users write the object and, in the MCP, the two
prerequisites (ConfigMap, Secret); the API server's watch queues the object's
key; the loop reads the object and the cached config, sets the finalizer, asks
for access and calls the domain, which makes one call after the other on the
MCP; the outcome is patched into the status. The MCP is not watched: whatever
changes there is noticed by a requeue (30 s while prerequisites are missing,
the poll interval after a success). The ProviderConfig controller is the only
other goroutine; it sends over a channel to the map function of the loop's
controller, which stores the config and should enqueue every object.

What is hard: everything is a sequence of remote calls with users, the
platform, a second controller and possibly a second instance in between; the
object is read twice in one reconcile; any call may fail and the process may
stop between any two; one error (of the status patch) is swallowed; and
deletion has to give up resources, access and finalizer in an order that can be
resumed from what is left. What makes each part correct:

- *loop*: no resource or access request without a finalizer; no false Ready; an
  object is never forgotten; deletion completes and is not undone by its own
  requests for access; the result converges on what was asked for.
- *domain and resources*: precedence of settings, cleanup of what was made and
  of nothing else, no deployment on incomplete prerequisites.
- *status*: phase and condition agree.
- *config delivery*: the cache ends up with the current config and each change
  reaches every object.
- *start*: an init job does everything or says what it could not do; init job
  and run process find each other's results in any order of events.
- *hash*: independent of map order; different contents, different digest.

`PROJECT.json` lists the hazards behind these, each at its line.

## Modules

| Module | Models |
|---|---|
| `ServiceApi` | object, ProviderConfig, precedence (`Resolve`), status setters, merge patch |
| `ManagedControlPlane` | the MCP, each write of `internal/resources` on it, the users who change it |
| `ClusterAccess` | access requests (external: from the interface and its use) |
| `SPReconciler` | the loop: one action per remote call, the queue, timers, cache, restart, failing calls, users of the object |
| `OtelCollectorController` | `CreateOrUpdate` and `Delete` of the domain, as steps inside the loop |
| `ServiceProvider` | the composition, with delivery of the config, crashes and disturbances; all properties |
| `MCServiceProvider` | instances for TLC |
| `ServiceLifecycle` | abstract: the life of one service, from which `ServiceProvider` hides the how |
| `ProviderConfigSync`, `MCProviderConfigSync` | the delivery of a config step by step, to several objects, with stops of the process |
| `ConfigRegister` | abstract: a register that never goes back and learns the newest config |
| `Startup` | the init job and the run process of `main.go` |
| `ConfigHash`, `MCConfigHash` | `computeConfigHash` over small data |
| `ServiceProviderProofs` | theorems: types, finalizer and access, order of cleanup |
| `LifecycleProofs` | theorems: `ServiceProvider` implements `ServiceLifecycle` |
| `ReconcileProofs` | theorems: wake-ups, what comes to rest, phase and condition |
| `ReadyProofs` | theorem: a service that says Ready runs what it asks for |
| `SettledProofs` | theorem: reconciles of a collector that runs are idempotent |
| `ConfigSyncProofs` | theorems: `ProviderConfigSync` implements `ConfigRegister`; no change and no object is forgotten |
| `StartupProofs` | theorems: types, what a silent init job has done |
| `HashProofs` | theorems: the digest does not depend on the order of a map; an edit of one entry changes it |

`ServiceApi` <- `ManagedControlPlane`; `ServiceApi`, `ClusterAccess` <-
`SPReconciler`; both <- `OtelCollectorController` <- `ServiceProvider`.
Definitions headed "Mutated" are broken variants of the definition that follows
(`PROJECT.json`, "mutants"); a run with the variant in its place must violate
the property named there. They take part in no specification.

### Correspondence with the code

- *Steps.* An action is one API call with the local computation up to the next
  one. `pc[i]` names the call that instance `i` makes next, `job[i]` holds the
  local variables of its running reconcile: its copy of the object (`obj`), the
  status it read (`old`, which stands for `oldObj`), the config copy, and what
  the domain has read so far. A Get with the write it guards is one step,
  because both controllers use `CreateOrUpdate` or check for NotFound and an
  intermediate change makes the write fail, which is the action `CallFails`.
- *Order of calls.* `finalizer` (CreateOrUpdate), `access` (clusters()),
  `namespace`, `readPull`/`writePull` for each pull secret, `configMap`,
  `secret`, `deployment`, `service`, `status` on the create path; `check`,
  `access`, `deleteDeployment`, `deleteService`, `terminating` (the status
  patch), `release` (ReconcileDelete), `drop` (finalizer) on the delete path.
- *Versions.* `fresh` is the set of instances whose copy has the server's
  resourceVersion. An Update needs it. A status patch carries a resourceVersion
  only if the copy moved on since `oldObj` (`job.moved`), because MergeFrom
  includes it in the difference then.
- *Status patch.* `PatchNames` are the fields that differ between the two
  copies, `MergePatch` leaves the others to the server, `PatchValid` is the
  schema's demand for `phase` and `observedGeneration`. The list of conditions is one
  field. Whether the time of a condition that stays True has moved is a free
  choice.
- *Queue.* `queued` and `timer` are what the controller-runtime queue holds for
  the one key; an error is a timer too (backoff). Intervals have no length.
- *Config.* `notify` is the pending work of the ProviderConfig controller,
  `cached` the atomic pointer. `MissConfig` is a Get that fails: nil is sent and
  the key is retried. Read, send and map function are one step.
- *Access.* The library's reconciler makes the first missing request and
  reports a retry until everything is granted; ReconcileDelete deletes what
  exists and reports a retry until all is gone. It may fail after either.
- *Failing calls.* `CallFails` has one action per place where the code handles
  an error differently. A write that is applied and whose answer is lost is the
  write followed by the failure of the next call.
- *Crash.* What the process holds in memory is lost: queue, timers, cache,
  running job. The new process lists the objects and the ProviderConfig.

`ServiceProvider` implements `ServiceLifecycle` under this mapping: `stage` is
the life of the object, except that a service is not "draining" before the
reconcile that found it live has ended (`Creating`), because that one still asks
for access and deploys; `guarded` is the finalizer, `held` the access requests
that exist, `deployed` the kinds that some namespace has from the provider.

`ProviderConfigSync` refines what `ServiceProvider` does in one step,
`DeliverConfig`:

- *Sender.* `Read` and `ReadFails` are the Get of `PCReconciler.Reconcile`,
  `Send` the rendezvous on the unbuffered channel followed by the return, with
  `retry` where the Get failed. `notified` and `sending` are its queue and the
  one event its worker holds.
- *Receiver.* `buffer` is that of controller-runtime's channel source, which
  stops receiving when it is full or the process stops. `MapFunction` has two
  steps, first the pointer is stored, then the objects are listed and queued.
- *Kind of the empty object.* `hasKind` is chosen at the start and never
  changes: main.go's `emptyObj()` has no TypeMeta, with it the list succeeds.
  `dropped` records, for the properties only, that the last list failed.
- *Reconciles.* One step to begin, which copies the pointer, and one to end; one
  worker for all objects, as controller-runtime has it by default.
- *Stop.* A signal stops the receiver, though the sender may still be blocked; the
  process ends after its graceful shutdown timeout at the latest (`Exit`) and is started
  again (`Reboot`). A crash is the same without the wait.

`history` numbers the configs there have been. `register` of `ConfigRegister` is
the atomic pointer with the place of its config in the history.

`Startup` has one action per call of `main.go` after the flags are parsed. Both
commands ask for access under their own name and poll for up to 30 minutes. The
init job goes on without a client after that (`InitTimesOut`), tries every CRD,
logs errors and succeeds; how the library takes a cluster that is nil is left
open (`InstallFails`, `InstallPanics`). Kubernetes starts a failed job and an
ended process again, and a job that succeeded never. The process ends when a
wait or the sync of a cache (two minutes, controller-runtime's default) times out.

## Runs

Each kind of event a disturbance brings about is switched on by `Disturbances`,
and `MaxEvents` bounds their number; the steps of the provider, the platform's
grants and deletions, timers and config delivery are never bounded.

| Run | Instance | Properties | States |
|---|---|---|---|
| `core` | 1 instance, 1 namespace, 2 specs, 2 configs (one with a pull secret), 1 content; create, edit, delete, fault, crash, config; 3 events | `TypeOK`, `NoOrphanedResources`, `AccessHeldByFinalizer`, `ReadyMeansDeployed`, `PhaseMatchesCondition`, `WakeupPending`, `FinalizerGuards`, `CleanupOrder`, `AccessOrder`, `NoRenewalWhileDeleting`, `ImplementsLifecycle` | 539 000 |
| `workload` | 2 access requests, 2 configs without poll interval, empty object with its kind; create, edit, delete, fault, crash, miss, config, namespace, prerequisite, foreign; 2 events | `NoOrphanedResources`, `AccessHeldByFinalizer`, `RestMeansDeployed`, `NoRenewalWhileDeleting`, `ImplementsLifecycle`, `DeletionCompletes`, `QuickReconcilesRest` | 184 000 |
| `converge` | 2 contents, pull secret; all kinds but create and namespace; 2 events | `Converges`, `DeletionCompletes`, `SettledStays` | 295 000 |
| `config_sync` | 2 objects, 3 configs (2 of them polling), buffer of 1, empty object with and without kind; config, create, miss, list, stop, crash; 2 events | `TypeOK`, `InOrder`, `NewestOnItsWay`, `NoObjectForgotten`, `ImplementsRegister`, `RegisterLearns`, `EveryObjectLearns` | 291 000 |
| `startup` | first installation and upgrade; fault, crash; 3 events | `TypeOK`, `SilentInitIsComplete`, `InitEnds`, `ComesUp` | 7 800 |
| `hash_edit` | 3 keys, 3 values of one or two letters | `OrderIrrelevant`, `EditIsDetected` | 4 100 |
| `namespace_move` | 2 namespaces; edit, delete | violates `NoOrphanedResources` | |
| `revoked` | delete, revoke; 2 events | violates `NoOrphanedResources` | |
| `replicas` | 2 instances, no disturbance | violates `PhaseMatchesCondition` | |
| `fan_out` | poll interval 0; config | violates `ConfigChangeReachesObject` | |
| `foreign` | foreign, delete | violates `OnlyManagedIsDeleted` | |
| `hash_replace` | as `hash_edit` | violates `ChangeIsDetected` | |

What the passing runs show:

- `core`: creation, re-creation, edits and deletion at every point of a
  reconcile, together with failures, crashes and config changes, never leave a
  managed resource or a request without its finalizer; a live object that says
  Ready for its generation has its Deployment and Service; phase and condition agree;
  an idle instance has the object queued or a timer for it. The service goes through the abstract life cycle:
  nothing is asked for without finalizer, nothing made again while draining.
- `workload` is the runtime (`pkg/spruntime`) as another program may use it: with a
  workload cluster, which the shipped one skips (`main.go:328`), and with an
  `emptyObj()` that has its kind, which the shipped one has not
  (`main.go:312-316`). Where one of two requests may be gone before the other, nothing
  is orphaned or renewed and deletion ends; without a poll interval a service in place
  comes to rest (if its reconciles end within a second, see below).
  And only there: what is at rest, with nothing queued, timed or on its way, is
  deployed as the present spec and the present config ask (`RestMeansDeployed`). A
  reconcile works with the spec and the config it has copied, and reports success for
  them; an edit or a delivery in the meantime must have queued the object once more,
  and no way out but the one after the last call may set no timer. The status does not
  come into it, since its patch may be lost for good. Without a poll interval nothing
  else would ever repair it. The digest is whatever the reconcile read: the
  prerequisites are not watched.
- `converge`: after any two disturbances, if the environment then keeps asking
  for a collector (object live, config with a poll interval, prerequisites and
  pull secrets present), the Deployment, the Service, the copies and the status
  are what spec, config and prerequisites say, and stay so. `DeletionCompletes`
  has the premise that a ProviderConfig is there in the end: without one the
  code refuses to delete.
  Nor does a reconcile disturb a collector that runs (`SettledStays`): in a state that
  is `Settled` (all is as asked for, and a reconcile under way works from current copies)
  each further call writes what is there already. Namespace, secrets, Deployment and
  Service are written again every time, and the status passes through Progressing in the
  copy; none of it reaches the server as a change of Deployment, Service, copies,
  phase or observed generation.
- `config_sync`: whatever is in flight when the config changes, the pointer never
  goes back to an older one and gets the newest in the end, because at any time the
  pointer has it or it is on its way (`NewestOnItsWay`); each object is
  reconciled with it, by the request the map function makes, or by its next poll
  where the list fails and every config so far polls (`NoObjectForgotten` is the
  safety behind that). A stop may leave the sender blocked for ever, with a config that
  is lost with the process; that the process ends all the same is the library's graceful
  shutdown timeout and is assumed (fairness of `Exit`), that the next process learns the
  config is what `RegisterLearns` says.
- `startup`: a job that succeeded and logged nothing installed everything; the
  job ends even if access is never granted; once the CRDs are there and access is
  granted both controllers work, whatever came first.
- `hash_edit`: as the table says.

### Findings

The six violating runs show where the code does not do what it says.

1. *Namespace change orphans resources* (`namespace_move`). `Delete` resolves
   the namespace anew (`otelcollectorservice_controller.go:111`) and nothing
   cleans up the one used before, so a change of `spec.namespace` or of the
   default leaves a Deployment and a Service that no later reconcile finds;
   `README.md:42` promises their removal.
2. *Two instances mix their statuses* (`replicas`). `updateStatus` patches
   differences without a resourceVersion; leader election is off by default.
   The object ends up in phase Ready with a False condition, against
   `status.go:11`. The next successful reconcile repairs it.
3. *A config change enqueues nothing* (`fan_out`). The list in the map function
   uses the kind of an object that has none (`main.go:312-316`), against
   `pcreconciler.go:33-34`. With a poll interval the change is picked up late,
   with interval 0 never.
4. *Cleanup deletes by name* (`foreign`). `cleanup.go:12` speaks of what is
   managed by the provider; the label is not looked at.
5. *Digests collide* (`hash_replace`). Keys and values are concatenated, so
   some different contents have equal digests, against `README.md:46`. An edit
   of one entry is always detected (`hash_edit`).
6. *A revoked request skips the cleanup* (`revoked`). `areAccessRequestsInDeletion`
   (`spreconciler.go:227`) takes a request that is absent for one being deleted.
   If somebody else deleted it, deletion of the service goes on to the finalizer
   without the domain's `Delete`: Deployment and Service stay, against the comment
   "make sure to not drop the object before cleanup has been done"
   (`spreconciler.go:256`).

Also seen in the model, and not kept as runs of their own:

- A live object may be deleted between the two reads of a reconcile, which then
  still deploys and reports Ready (the deletion that follows cleans up).
- Drift makes a Ready status untrue until the next poll.
- With two instances one may deploy on with the access it had while the other
  deletes, and resources outlive the service; and one may renew the access that
  the other gives up, so that deletion does not end.
- A pull secret that is named `otel-collector-secret` overwrites the user's
  Secret of that name (`imagepullsecret.go:43`, against `README.md:97`, "The service
  provider does not create or manage these resources"). It is one step of one call, so
  no property is stated about it.
- Each successful reconcile sets Progressing before Ready, so the time of the
  condition moves when it lasts into another second; the patch triggers the next
  reconcile through the watch. Without a poll interval a service in place is then
  reconciled for ever, which is why `QuickReconcilesRest` has a premise on time.
- The init job succeeds after errors it only logs (`main.go:263`, `272`), so
  nothing runs it again; `SilentInitIsComplete` is what is left to rely on.

### Bounds and why they are enough

`ServiceProvider` has one service object: reconciles of different objects share
the config cache and the worker, which `ProviderConfigSync` has, and its run has
two objects. The second spec and the second config differ from the first in
what precedence and convergence can tell apart; one namespace where the
namespace never moves, two where it does. The hazards need at most an object, its
deletion and one more event at the wrong moment: a creation and a deletion with
a crash or a failure between are three events (`core`); in `converge` and
`workload` the object may exist from the start, with or without prerequisites,
namespaces and config, so two events make the interesting cases. Every action
is taken by some passing run, and every property is broken by a plausible
change of the code within these bounds (`PROJECT.json`, "mutants").
Generations are not bounded by themselves but by the number of events. The one
branch no passing run takes is the patch of the phase Terminating that changes
nothing and still refreshes the copy: it needs two instances.
In `ProviderConfigSync` a buffer of one is full as soon as a second event comes
while the map function works on the first, so the sender blocks: the config
there at the start and two changes put different configs into map function,
buffer and sender, and one change and a stop leave a sender that blocks for
ever. Two objects let the requests of one list come apart, while running
reconcile, timer and list compete for each.
In `Startup` three events fail each of
two CRDs and the registration, or lose a pod at each stage of one start.
`FewStarts` cuts the initial states of `converge` to those where all contents
are the same.

Deadlock is not checked in the runs of `MCServiceProvider`,
`MCProviderConfigSync` and `Startup`: once the object is gone, the config
delivered or the process at work, and no event is left, there is nothing to do.

### Fairness

Weak fairness of the worker of each instance (controller-runtime takes the next
key whenever one is queued, and a call returns), of timers (delayed requeues
come due), of config delivery (the controller's own queue) and of the platform
(grants and deletions are processed). Nothing is assumed of users, faults and
crashes, which are bounded by `MaxEvents`: failures stop at some time.

`ProviderConfigSync` assumes the same of each step of the delivery, and strong
fairness of the beginning of each object's reconcile: the one worker is busy
with others in between, but the work queue is first in, first out. In `Startup`
both commands go on; a cache whose CRD is there syncs even if another one is
about to time out (strong fairness of `Sync`, each informer runs in its own
goroutine). The platform is not fair there: `ComesUp` has the grant as its
premise, and `InitEnds` does without it.

## Proofs

`ServiceProviderProofs` proves, for all values of the constants (any number of
specs, configs, contents, pull secrets and events):

- `TypeCorrect`: `Spec => [](TypeOK /\ JobReady)`, for any number of instances.
  `TypeOK` is not inductive: that `Target(i)` is a namespace, and `Head` of the
  pull secrets is one, needs the job past its first steps to have a config and
  a spec from the given sets, which is `JobReady`. One lemma per group of
  actions (`GenericTypes`, `DomainTypes`, `FaultTypes`, `UserTypes`, ...), one
  step per action.
- `FinalizerIsGuarded`, `AccessReleased`: with one instance, `FinalizerGuards` and
  `AccessHeldByFinalizer`, wherever the collector moves and whoever revokes
  requests. The inductive invariant is `Guarded`: who may be at which `pc` given the
  life of the object, and that all requests are absent at the removal of the finalizer.
- `CleanupIsOrdered`: `CleanupOrder`, if besides all specs and configs resolve to
  the same namespace and requests are not revoked by others. On top of `Guarded` the
  invariant (`Safe`) says that resources imply granted access and the finalizer, and
  that each step of the delete path has left its part behind. The orphan property by
  itself says nothing about a reconcile under way and cannot be carried over a step.
- `NoOrphans` follows from it.

The assumptions are needed: `namespace_move` refutes `NoOrphans` without the second,
`revoked` without the third, and the model has counterexamples without the
first (see above). TLC checks the parts of the invariants in `core`.

`LifecycleProofs`:

- `AccessIsOrdered`: with one instance and no revoked requests `AccessOrder` is
  inductive together with `Guarded`: a request is in deletion only for an object in
  deletion that nobody still serves, and a reconcile that deletes asks for access
  only while none is given up.
- `NoRenewal`: so such a reconcile never makes a request.
- `LifecycleImplemented`: every step is one of `ServiceLifecycle` or leaves its
  variables unchanged, under the assumptions of `CleanupIsOrdered`. One lemma per action
  that changes one of them. Without drift: a user who removes the Deployment is not in
  the abstract life.

`ReconcileProofs`, for all values of the constants:

- `NothingForgotten`: if every config has a poll interval, `WakeupPending` holds
  for any number of instances. The strengthening says that a job about to end in
  success has a config.
- `RestIsDeployed`: with one instance and no drift, `RestMeansDeployed`, with or without
  a list that works and wherever spec and config move the collector. The inductive
  invariant (`InPlace`) says that as long as a live object is not queued, the job has its
  spec and, where a delivery would have queued it, the config of the cache; that the
  Deployment is as these ask when the Service is to be written, and both are when a
  success is to be reported; that one without timer or queue is as some such job left
  it; and that an instance has the present config in its cache or is still to be told.
- `PhaseAgrees`: with one instance, phase and condition agree. The inductive
  invariant adds the two copies in the job, and that the server has the status
  the reconcile found, or none at all, as long as a patch is to come; a patch on
  none at all is refused if it does not name the phase, and if it does, the
  condition it leaves out was not True.

`ReadyProofs`, for one instance and no drift: `ReadyIsDeployed`, wherever specs and
configs send the collector and whoever revokes access. The inductive invariant (`Honest`, on top of the three
before) says what a job knows of the object: its copy is no newer, and has the
spec of the server's if it has its generation, because an object with the
finalizer cannot be deleted and made again; at the call for the Service the
Deployment fits the copy's spec; and a Ready status that is to be written is
either what was read or belongs to what has been built.

`SettledProofs`, for any number of instances and without further assumptions:
`ReconcileIsIdempotent` (`converge` checks it for one). `Settled` is kept by every step of the workers, timers, delivery
and the platform. One lemma says that a worker which goes on with copies that are
current keeps it (`GotoSettled`); each call then only has to be shown to write
what is there and to hand on what is current. A patch of a status that says Ready for the
generation on one that says so leaves both, whatever the two reconciles read before
(`PatchKeepsReady`), which is why this survives two instances while phase and condition
do not.

`ConfigSyncProofs`, for any configs, objects and buffer size:

- `SyncTypeCorrect`: types, and that the buffer never exceeds its size.
- `ConfigsInOrder` (everything in flight is in the order of the reads) and from it
  `RegisterImplemented`, the refinement of `ConfigRegister` without its liveness.
- `NewestComes`: `NewestOnItsWay` is inductive. A read config that is overtaken by a
  change is followed by a notification, a failed Get by its retry.
- `ObjectsAreServed`: `NoObjectForgotten`; the strengthening relates what the map
  function has stored to what it has yet to enqueue, and a config at work to the history.

`StartupProofs`: `StartupTypeCorrect`, and `SilentInitDidItAll`; its strengthening is
`TriedIsInstalled`, about a job that is not done yet.

`HashProofs`, for any finite set of keys that are not empty and any values (both sequences
of numbers):

- `DigestIsDeterministic`. The order of strings is total, irreflexive and transitive (each by
  the first position that differs); so there is a sorted order of a finite set, by the
  number of keys before each, and two sorted orders agree, because at the first position
  where they did not each would have the smaller key. That the sort is *some* rearrangement
  that is sorted is all that is used of it.
- `EditIsAlwaysDetected`. `FlattenSeq` is a recursive function; its partial results exist
  and satisfy its equations by going from one position to the next (`Upward`, from the least
  number at which a fact fails, instead of an induction theorem). The sorted order without
  one key is the sorted order of the rest (`Removal`, by uniqueness). So an entry that is
  added or removed makes what is written longer or shorter (`AdditionShows`), and a value
  that changes makes a difference which the same pieces after it keep (`ChangeShows`).
  The digest of one unchanged map is cancelled.

What the constants must satisfy is stated as ASSUME where they are declared
(`ApiAssumption`, `NamespaceAssumption`, `AccessAssumption`, `SPAssumption`,
`DisturbancesAssumption`, `SyncAssumption`, `StartupAssumption`, `HashAssumption`); TLC evaluates these in each run.

Only model-checked:

- liveness (`DeletionCompletes`, `Converges`, `QuickReconcilesRest`, `RegisterLearns`,
  `EveryObjectLearns`, `InitEnds`, `ComesUp`): TLAPS does not reason
  about ENABLED and fairness here. The safety they rest on is proved
  (`NewestOnItsWay`, `NoObjectForgotten`, `WakeupPending`, `RestMeansDeployed`,
  `SettledStays`: once it has converged it stays so).

## Not modelled

- Flags, TLS, schemes, permissions, metrics and health checks of `main.go`, which
  change no state of the provider; what the openMCP library does with a cluster
  that is nil (both outcomes are allowed).
- Namespaces of the MCP that are deleted, selectors of a foreign Deployment
  that make the API server refuse the update (a failed call here),
  asynchronous deletion of pods.
- Fixed parts of manifests, wording of messages, permissions, TLS, probes,
  generated code.
- The two reads of `areAccessRequestsInDeletion` with a workload cluster, and
  the reads of `clusters()` after access is granted, are one step each.
- Several service objects at the level of single calls (they are in
  `ProviderConfigSync`, where a reconcile has two steps).
- More than one ProviderConfig: the provider watches the one it is named after.

## Plan

Done: the core and its composition (`ServiceApi` to `ServiceProvider`),
`ConfigHash`, the delivery of the config with its register, the abstract life
cycle, the start of the program, and the theorems above: every invariant a passing run
checks is proved, and every action property. Left:

1. Two instances: under which protocol of access requests deletion ends.
2. `ServiceProvider` with the delivery of `ProviderConfigSync` in place of its one
   step, for one object.
