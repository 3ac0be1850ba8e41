------------------------------ MODULE SPReconciler ------------------------------
(***************************************************************************)
(* The generic reconcile loop, pkg/spruntime: SPReconciler of every        *)
(* instance of the provider, working on one service object.  A step is one *)
(* call of an API server, with the local computation up to the next call;  *)
(* between two steps users, the platform and other instances act.          *)
(*                                                                         *)
(* Reads of the service object go to the API server (the clients are not   *)
(* cached), writes carry a resourceVersion: "fresh" holds the instances    *)
(* whose copy is at the server's current version, which stands for the     *)
(* comparison of versions without counting them.                           *)
(*                                                                         *)
(* The domain's steps are between pc "namespace" and "status" and between  *)
(* "deleteDeployment" and "terminating": module OtelCollectorController.   *)
(***************************************************************************)
EXTENDS ServiceApi, ClusterAccess

CONSTANTS
    Instances,        \* processes that run the provider
    EmptyObjHasKind   \* emptyObj() sets its TypeMeta; main.go: FALSE

ASSUME SPAssumption == EmptyObjHasKind \in BOOLEAN

VARIABLES
    obj,     \* the service object on the onboarding cluster
    fresh,   \* instances whose copy has the server's resourceVersion
    queued,  \* instances whose work queue holds the object's key
    timer,   \* instances with a delayed requeue
    cached,  \* instance -> providerConfig, the atomic pointer
    pc,      \* instance -> the call its worker makes next
    job      \* instance -> the local variables of the running reconcile

spVars == <<obj, fresh, queued, timer, cached, pc, job>>

CreatePcs == {"namespace", "readPull", "writePull", "configMap", "secret", "deployment", "service"}
DeletePcs == {"deleteDeployment", "deleteService"}
Pcs == {"idle", "finalizer", "access", "status", "check", "terminating", "release", "drop"}
           \cup CreatePcs \cup DeletePcs

Jobs == [obj : Objects,                 \* obj
         old : Status,                  \* oldObj.Status
         del : BOOLEAN,                 \* deleted
         cfg : Configs \cup {NoConfig}, \* providerConfigCopy
         moved : BOOLEAN,               \* obj and oldObj differ in resourceVersion
         result : {"ok", "requeue", "error"},
         pull : Seq(SecretNames),       \* pull secrets left to copy
         src : MaybeData,               \* the pull secret just read
         conf : MaybeData,              \* the ConfigMap just read
         hash : Hashes]

NoJob == [obj |-> NoObject, old |-> NoStatus, del |-> FALSE, cfg |-> NoConfig,
          moved |-> FALSE, result |-> "ok", pull |-> <<>>,
          src |-> NoData, conf |-> NoData, hash |-> NoData]

SPTypeOK ==
    /\ obj \in Objects
    /\ fresh \subseteq Instances
    /\ queued \subseteq Instances
    /\ timer \subseteq Instances
    /\ cached \in [Instances -> Configs \cup {NoConfig}]
    /\ pc \in [Instances -> Pcs]
    /\ job \in [Instances -> Jobs]

NewObject(spec) == [NoObject EXCEPT !.life = "live", !.gen = 1, !.spec = spec]

SPInit ==
    /\ obj \in {NoObject} \cup {NewObject(s) : s \in Specs}
    /\ fresh = {}
    /\ queued = IF obj.life = "absent" THEN {} ELSE Instances
    /\ timer = {}
    /\ cached = [i \in Instances |-> NoConfig]
    /\ pc = [i \in Instances |-> "idle"]
    /\ job = [i \in Instances |-> NoJob]

-----------------------------------------------------------------------------
(* Building blocks.                                                        *)

\* The API server stores o: every watcher is told, only the writer's copy is fresh
Store(o, writer) ==
    /\ obj' = o
    /\ fresh' = writer
    /\ queued' = Instances

Goto(i, label, j) ==
    /\ pc' = [pc EXCEPT ![i] = label]
    /\ job' = [job EXCEPT ![i] = j]
    /\ UNCHANGED <<timer, cached>>

\* Mutated: the RequeueAfter of a pending access or deletion is not returned
FinishWithoutRequeue(i, result) ==
    /\ pc' = [pc EXCEPT ![i] = "idle"]
    /\ job' = [job EXCEPT ![i] = NoJob]
    /\ timer' = IF result = "error" THEN timer \cup {i} ELSE timer
    /\ UNCHANGED cached

\* Mutated: no poll interval after a success
FinishWithoutPolling(i, result) ==
    /\ pc' = [pc EXCEPT ![i] = "idle"]
    /\ job' = [job EXCEPT ![i] = NoJob]
    /\ timer' = IF result = "ok" THEN timer ELSE timer \cup {i}
    /\ UNCHANGED cached

\* Mutated: RequeueAfter is never zero
FinishAlwaysRequeues(i, result) ==
    /\ pc' = [pc EXCEPT ![i] = "idle"]
    /\ job' = [job EXCEPT ![i] = NoJob]
    /\ timer' = timer \cup {i}
    /\ UNCHANGED cached

\* The end of Reconcile: an error is retried with backoff, RequeueAfter and the
\* poll interval are timers; an interval of zero sets none
Finish(i, result) ==
    /\ pc' = [pc EXCEPT ![i] = "idle"]
    /\ job' = [job EXCEPT ![i] = NoJob]
    /\ timer' = IF result = "ok" /\ ~job[i].cfg.poll THEN timer ELSE timer \cup {i}
    /\ UNCHANGED cached

\* createOrUpdate returned an error: its status is written before Reconcile ends
Fail(i) == Goto(i, "status", [job[i] EXCEPT !.result = "error"])

-----------------------------------------------------------------------------
(* Reconcile.                                                              *)

\* client.IgnoreNotFound
ObjectGone(i) ==
    /\ pc[i] = "idle" /\ i \in queued /\ obj.life = "absent"
    /\ queued' = queued \ {i}
    /\ UNCHANGED <<obj, fresh, timer, cached, pc, job, access>>

Loaded(i) == [NoJob EXCEPT !.obj = obj, !.old = obj.status, !.cfg = cached[i],
                           !.del = (obj.life = "deleting")]

GetObject(i) ==
    /\ pc[i] = "idle" /\ i \in queued /\ obj.life # "absent"
    /\ queued' = queued \ {i}
    /\ fresh' = fresh \cup {i}
    /\ UNCHANGED <<obj, access>>

\* The cache has no ProviderConfig
BeginWithoutConfig(i) ==
    /\ GetObject(i)
    /\ cached[i] = NoConfig
    /\ Goto(i, "status", [Loaded(i) EXCEPT !.obj = StatusProgressing(obj, "NoProviderConfig"),
                                           !.result = "error"])

Begin(i) ==
    /\ GetObject(i)
    /\ cached[i] # NoConfig
    /\ Goto(i, IF obj.life = "deleting" THEN "check" ELSE "finalizer", Loaded(i))

\* updateStatus: does the patch name something, and does the server take it?  A
\* copy that moved on since oldObj carries its resourceVersion in the patch.
PatchTimes(i) == IF Churned(job[i].old, job[i].obj.status) THEN BOOLEAN ELSE {FALSE}

PatchLands(i, timeMoved) ==
    LET old == job[i].old  new == job[i].obj.status
    IN  /\ PatchNames(old, new, timeMoved) # {}
        /\ obj.life # "absent"
        /\ job[i].moved => i \in fresh
        /\ PatchValid(obj.status, old, new, timeMoved)

Patched(i, timeMoved) ==
    [obj EXCEPT !.status = MergePatch(obj.status, job[i].old, job[i].obj.status, timeMoved)]

\* A patch that leaves the object as it is makes no new version
PatchMoves(i, timeMoved) == timeMoved \/ Patched(i, timeMoved) # obj

\* updateStatus at the end of createOrUpdate, or without a ProviderConfig
WriteStatus(i) ==
    /\ pc[i] = "status"
    /\ \E timeMoved \in PatchTimes(i) :
         IF PatchLands(i, timeMoved) /\ PatchMoves(i, timeMoved)
         THEN Store(Patched(i, timeMoved), {})
         ELSE /\ fresh' = fresh \ {i}
              /\ UNCHANGED <<obj, queued>>
    /\ Finish(i, job[i].result)
    /\ UNCHANGED access

-----------------------------------------------------------------------------
(* createOrUpdate.                                                         *)

\* Mutated: the finalizer is added to the copy only
AddFinalizerLocally(i) ==
    /\ pc[i] = "finalizer" /\ obj.life # "absent"
    /\ fresh' = fresh \cup {i}
    /\ Goto(i, "access", [job[i] EXCEPT !.obj = [obj EXCEPT !.fin = TRUE],
                                        !.moved = i \notin fresh])
    /\ UNCHANGED <<obj, queued, access>>

\* controllerutil.CreateOrUpdate reads the object again and adds the finalizer.
\* It may by now be gone (the create that follows is refused: the copy has a
\* resourceVersion), edited, or in deletion.
AddFinalizer(i) ==
    /\ pc[i] = "finalizer" /\ obj.life # "absent"
    /\ LET o == [obj EXCEPT !.fin = TRUE]
           written == o # obj
       IN  /\ IF written
              THEN Store(o, {i})
              ELSE fresh' = fresh \cup {i} /\ UNCHANGED <<obj, queued>>
           /\ Goto(i, "access", [job[i] EXCEPT !.obj = o, !.moved = written \/ i \notin fresh])
    /\ UNCHANGED access

AddFinalizerGone(i) ==
    /\ pc[i] = "finalizer" /\ obj.life = "absent"
    /\ Fail(i)
    /\ UNCHANGED <<obj, fresh, queued, access>>

\* Mutated: the status InProgress is patched at once
AccessReadyReports(i) ==
    /\ pc[i] = "access" /\ AllGranted
    /\ IF job[i].del
       THEN Goto(i, "deleteDeployment", [job[i] EXCEPT !.obj = StatusTerminating(@)])
       ELSE Goto(i, "namespace", [job[i] EXCEPT !.obj = StatusProgressing(@, "InProgress"),
                                                !.pull = job[i].cfg.pullSecrets])
    /\ Store([obj EXCEPT !.status = job'[i].obj.status], {i})
    /\ UNCHANGED access

\* clusters(), and the status the domain sets first
AccessReady(i) ==
    /\ pc[i] = "access" /\ AllGranted
    /\ IF job[i].del
       THEN Goto(i, "deleteDeployment", [job[i] EXCEPT !.obj = StatusTerminating(@)])
       ELSE Goto(i, "namespace", [job[i] EXCEPT !.obj = StatusProgressing(@, "InProgress"),
                                                !.pull = job[i].cfg.pullSecrets])
    /\ UNCHANGED <<obj, fresh, queued, access>>

\* While access is being set up the reconcile is requeued; delete does not
\* write the status it computes here
AccessPending(i) ==
    /\ pc[i] = "access" /\ ~AllGranted
    /\ EnsureAccess
    /\ IF job[i].del
       THEN Finish(i, "requeue") /\ fresh' = fresh \ {i}
       ELSE /\ Goto(i, "status", [job[i] EXCEPT !.obj = StatusProgressing(@, "SettingUpAccess"),
                                                !.result = "requeue"])
            /\ UNCHANGED fresh
    /\ UNCHANGED <<obj, queued>>

-----------------------------------------------------------------------------
(* delete.                                                                 *)

\* Mutated: the domain's Delete is never called, or always
CheckAccessSkipsDelete(i) ==
    /\ pc[i] = "check"
    /\ Goto(i, "release", job[i])
    /\ UNCHANGED <<obj, fresh, queued, access>>

CheckAccessAlwaysDeletes(i) ==
    /\ pc[i] = "check"
    /\ Goto(i, "access", job[i])
    /\ UNCHANGED <<obj, fresh, queued, access>>

\* Requests already in deletion are not renewed, and Delete is not called again
CheckAccess(i) ==
    /\ pc[i] = "check"
    /\ Goto(i, IF InDeletion THEN "release" ELSE "access", job[i])
    /\ UNCHANGED <<obj, fresh, queued, access>>

TerminatingStored(i) ==
    IF PatchMoves(i, FALSE)
    THEN Store(Patched(i, FALSE), {i})
    ELSE fresh' = fresh \cup {i} /\ UNCHANGED <<obj, queued>>

\* Mutated: the error of the domain's Delete is dropped
WriteTerminatingDropsError(i) ==
    /\ pc[i] = "terminating"
    /\ IF PatchLands(i, FALSE)
       THEN TerminatingStored(i)
       ELSE UNCHANGED <<obj, fresh, queued>>
    /\ Goto(i, "release", IF PatchLands(i, FALSE)
                          THEN [job[i] EXCEPT !.obj = Patched(i, FALSE)] ELSE job[i])
    /\ UNCHANGED access

\* updateStatus after the domain's Delete, before its error is looked at; the
\* answer to the patch replaces the copy
WriteTerminating(i) ==
    /\ pc[i] = "terminating"
    /\ IF PatchLands(i, FALSE)
       THEN TerminatingStored(i)
       ELSE UNCHANGED <<obj, fresh, queued>>
    /\ IF job[i].result = "error" THEN Finish(i, "error")
       ELSE Goto(i, "release", IF PatchLands(i, FALSE)
                               THEN [job[i] EXCEPT !.obj = Patched(i, FALSE)] ELSE job[i])
    /\ UNCHANGED access

\* Mutated: the requests are deleted and the finalizer removed at once
ReleaseWithoutWaiting(i) ==
    /\ pc[i] = "release"
    /\ ReleaseAccess
    /\ Goto(i, "drop", job[i])
    /\ UNCHANGED <<obj, fresh, queued>>

Release(i) ==
    /\ pc[i] = "release"
    /\ IF AllAbsent
       THEN Goto(i, "drop", job[i]) /\ UNCHANGED <<fresh, access>>
       ELSE ReleaseAccess /\ Finish(i, "requeue") /\ fresh' = fresh \ {i}
    /\ UNCHANGED <<obj, queued>>

\* The finalizer goes and with it the object, unless the copy is stale
Drop(i) ==
    /\ pc[i] = "drop"
    /\ IF i \in fresh
       THEN Store(NoObject, {}) /\ Finish(i, "ok")
       ELSE Finish(i, "error") /\ UNCHANGED <<obj, fresh, queued>>
    /\ UNCHANGED access

-----------------------------------------------------------------------------
(* A call that fails: at the first Get, inside createOrUpdate, inside      *)
(* delete, inside the domain's Delete, or the patch of the status, whose   *)
(* error is logged and dropped.  The reconciler of access may fail after   *)
(* it has made or deleted a request.                                       *)

GetFails(i) ==
    /\ pc[i] = "idle" /\ i \in queued
    /\ queued' = queued \ {i}
    /\ timer' = timer \cup {i}
    /\ UNCHANGED <<obj, fresh, cached, pc, job, access>>

CreateOrUpdateFails(i) ==
    /\ pc[i] \in {"finalizer"} \cup CreatePcs
    /\ Fail(i)
    /\ UNCHANGED <<obj, fresh, queued, access>>

AccessFails(i) ==
    /\ pc[i] = "access" /\ ~job[i].del
    /\ Goto(i, "status", [job[i] EXCEPT !.obj = StatusProgressing(@, "ClusterAccessError"),
                                        !.result = "error"])
    /\ EnsureAccess \/ UNCHANGED access
    /\ UNCHANGED <<obj, fresh, queued>>

DeleteFails(i) ==
    /\ pc[i] \in {"check", "release", "drop"} \/ (pc[i] = "access" /\ job[i].del)
    /\ Finish(i, "error")
    /\ fresh' = fresh \ {i}
    /\ \/ UNCHANGED access
       \/ pc[i] = "access" /\ EnsureAccess
       \/ pc[i] = "release" /\ ReleaseAccess
    /\ UNCHANGED <<obj, queued>>

DomainDeleteFails(i) ==
    /\ pc[i] \in DeletePcs
    /\ Goto(i, "terminating", [job[i] EXCEPT !.result = "error"])
    /\ UNCHANGED <<obj, fresh, queued, access>>

PatchLost(i) ==
    /\ pc[i] = "status"
    /\ Finish(i, job[i].result)
    /\ fresh' = fresh \ {i}
    /\ UNCHANGED <<obj, queued, access>>

TerminatingPatchLost(i) ==
    /\ pc[i] = "terminating"
    /\ IF job[i].result = "error" THEN Finish(i, "error") ELSE Goto(i, "release", job[i])
    /\ UNCHANGED <<obj, fresh, queued, access>>

CallFails(i) ==
    \/ GetFails(i) \/ CreateOrUpdateFails(i) \/ AccessFails(i) \/ DeleteFails(i)
    \/ DomainDeleteFails(i) \/ PatchLost(i) \/ TerminatingPatchLost(i)

-----------------------------------------------------------------------------
(* Queue, cache and process.                                               *)

TimerFires(i) ==
    /\ i \in timer
    /\ timer' = timer \ {i}
    /\ queued' = queued \cup {i}
    /\ UNCHANGED <<obj, fresh, cached, pc, job>>

\* Mutated: an object that is being reconciled is not enqueued once more
StoreConfigBetweenReconciles(i, cfg) ==
    /\ cached' = [cached EXCEPT ![i] = cfg]
    /\ queued' = IF EmptyObjHasKind /\ obj.life # "absent" /\ pc[i] = "idle"
                 THEN queued \cup {i} ELSE queued
    /\ UNCHANGED <<obj, fresh, timer, pc, job>>

\* The map function of SetupWithManager: the new config is cached, then every
\* object is to be enqueued; the list needs the kind of emptyObj()
StoreConfig(i, cfg) ==
    /\ cached' = [cached EXCEPT ![i] = cfg]
    /\ queued' = IF EmptyObjHasKind /\ obj.life # "absent" THEN queued \cup {i} ELSE queued
    /\ UNCHANGED <<obj, fresh, timer, pc, job>>

\* The process ends and starts again: what it held in memory is lost, its watch
\* lists the objects that exist
Restart(i) ==
    /\ pc' = [pc EXCEPT ![i] = "idle"]
    /\ job' = [job EXCEPT ![i] = NoJob]
    /\ cached' = [cached EXCEPT ![i] = NoConfig]
    /\ timer' = timer \ {i}
    /\ queued' = IF obj.life = "absent" THEN queued \ {i} ELSE queued \cup {i}
    /\ fresh' = fresh \ {i}
    /\ UNCHANGED obj

-----------------------------------------------------------------------------
(* Users of the onboarding API.                                            *)

CreateObject ==
    /\ obj.life = "absent"
    /\ \E s \in Specs : Store(NewObject(s), {})
    /\ UNCHANGED <<timer, cached, pc, job>>

EditObject ==
    /\ obj.life # "absent"
    /\ \E s \in Specs \ {obj.spec} : Store([obj EXCEPT !.spec = s, !.gen = @ + 1], {})
    /\ UNCHANGED <<timer, cached, pc, job>>

\* An object with a finalizer is only marked, which counts as a generation
DeleteObject ==
    /\ obj.life = "live"
    /\ Store(IF obj.fin THEN [obj EXCEPT !.life = "deleting", !.gen = @ + 1] ELSE NoObject, {})
    /\ UNCHANGED <<timer, cached, pc, job>>
=============================================================================
