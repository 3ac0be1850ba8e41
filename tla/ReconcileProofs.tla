---------------------------- MODULE ReconcileProofs ----------------------------
(***************************************************************************)
(* Proofs about the reconcile loop: no object is forgotten, what comes to  *)
(* rest is deployed, and phase and condition of its status agree.          *)
(***************************************************************************)
EXTENDS ServiceProviderProofs

(***************************************************************************)
(* Wake-ups.  Each way out of a reconcile sets a timer, or leaves the      *)
(* object queued; that a success does, takes a poll interval.  So what a   *)
(* job that is about to end in success knows of its config is carried      *)
(* along.                                                                  *)
(***************************************************************************)

AllPoll == \A c \in Configs : c.poll

Awake(i) ==
    /\ pc[i] = "status" /\ job[i].result = "ok" => job[i].cfg \in Configs
    /\ obj.life # "absent" => pc[i] # "idle" \/ i \in queued \cup timer

AllAwake == \A i \in Instances : Awake(i)

\* What a step of instance i may do to the others: nothing, but for the wake-ups of a write
QueueKept(i) == (UNCHANGED obj /\ queued \ {i} \subseteq queued') \/ queued' = Instances

\* A step within a reconcile.
LEMMA GotoAwake ==
    ASSUME WorkerInv, AllAwake, NEW i \in Instances, NEW label \in Pcs \ {"idle"}, NEW j,
           Goto(i, label, j), QueueKept(i),
           label = "status" => j.result # "ok" \/ j.cfg \in Configs
    PROVE  AllAwake'
<1>1. Awake(i)'
  BY DEF WorkerInv, Goto, Awake
<1>2. ASSUME NEW k \in Instances, k # i PROVE Awake(k)'
  BY <1>2 DEF WorkerInv, Goto, Awake, AllAwake, QueueKept
<1> QED
  BY <1>1, <1>2 DEF AllAwake

\* The end of a reconcile, with a requeue, an error or a poll interval.
LEMMA FinishAwake ==
    ASSUME WorkerInv, AllAwake, NEW i \in Instances, NEW r, Finish(i, r), QueueKept(i),
           r = "ok" => job[i].cfg.poll
    PROVE  AllAwake'
<1>1. Awake(i)'
  BY DEF WorkerInv, Finish, Awake
<1>2. ASSUME NEW k \in Instances, k # i PROVE Awake(k)'
  BY <1>2 DEF WorkerInv, Finish, Awake, AllAwake, QueueKept
<1> QED
  BY <1>1, <1>2 DEF AllAwake

\* An error on the way.
LEMMA FailAwake ==
    ASSUME WorkerInv, AllAwake, NEW i \in Instances, Fail(i), QueueKept(i)
    PROVE  AllAwake'
<1>1. [job[i] EXCEPT !.result = "error"].result = "error"
  BY DEF WorkerInv, Jobs
<1>2. "status" \in Pcs \ {"idle"}
  BY DEF Pcs
<1> QED
  BY <1>1, <1>2, GotoAwake DEF Fail

\* The steps of the generic loop.
LEMMA GenericAwake ==
    ASSUME TypeInv, AllAwake, AllPoll, NEW i \in Instances, GenericStep(i)
    PROVE  AllAwake'
<1> USE DEF TypeInv
<1>j. job[i] \in Jobs
  BY DEF WorkerInv
<1>p. {"status", "check", "finalizer", "access", "release", "drop", "deleteDeployment", "namespace"}
        \subseteq Pcs \ {"idle"}
  BY DEF Pcs, CreatePcs, DeletePcs
<1>k. /\ \A o, w : Store(o, w) => QueueKept(i)
      /\ UNCHANGED <<obj, queued>> => QueueKept(i)
      /\ UNCHANGED obj /\ queued' = queued \ {i} => QueueKept(i)
  BY DEF Store, QueueKept
<1>c. pc[i] \notin {"idle", "status"} => job[i].cfg.poll
  BY DEF WorkerInv, WorkerReady, AllPoll
<1>1. CASE ObjectGone(i)
  BY <1>1 DEF ObjectGone, AllAwake, Awake
<1>2. CASE BeginWithoutConfig(i)
  <2>1. [Loaded(i) EXCEPT !.obj = StatusProgressing(obj, "NoProviderConfig"),
                          !.result = "error"].result = "error"
    BY DEF Loaded, NoJob
  <2> QED
    BY <1>2, <2>1, <1>p, <1>k, GotoAwake DEF BeginWithoutConfig, GetObject
<1>3. CASE Begin(i)
  BY <1>3, <1>p, <1>k, GotoAwake DEF Begin, GetObject
<1>4. CASE AddFinalizer(i)
  <2>1. QueueKept(i)
    BY <1>4, <1>k DEF AddFinalizer
  <2> QED
    BY <1>4, <2>1, <1>p, GotoAwake DEF AddFinalizer
<1>5. CASE AddFinalizerGone(i)
  BY <1>5, <1>k, FailAwake DEF AddFinalizerGone
<1>6. CASE AccessReady(i)
  BY <1>6, <1>p, <1>k, GotoAwake DEF AccessReady
<1>7. CASE AccessPending(i)
  <2>1. [job[i] EXCEPT !.obj = StatusProgressing(@, "SettingUpAccess"),
                       !.result = "requeue"].result = "requeue"
    BY <1>j DEF Jobs
  <2> QED
    BY <1>7, <2>1, <1>p, <1>k, GotoAwake, FinishAwake DEF AccessPending
<1>8. CASE WriteStatus(i)
  <2>1. QueueKept(i)
    BY <1>8, <1>k DEF WriteStatus
  <2>2. job[i].result = "ok" => job[i].cfg.poll
    BY <1>8 DEF WriteStatus, AllAwake, Awake, AllPoll
  <2> QED
    BY <1>8, <2>1, <2>2, FinishAwake DEF WriteStatus
<1>9. CASE CheckAccess(i)
  BY <1>9, <1>p, <1>k, GotoAwake DEF CheckAccess
<1>10. CASE WriteTerminating(i)
  <2>1. QueueKept(i)
    BY <1>10, <1>k DEF WriteTerminating, TerminatingStored
  <2> QED
    BY <1>10, <2>1, <1>p, GotoAwake, FinishAwake DEF WriteTerminating
<1>11. CASE Release(i)
  BY <1>11, <1>p, <1>k, GotoAwake, FinishAwake DEF Release
<1>12. CASE Drop(i)
  BY <1>12, <1>c, <1>k, FinishAwake DEF Drop
<1> QED
  BY <1>1, <1>2, <1>3, <1>4, <1>5, <1>6, <1>7, <1>8, <1>9, <1>10, <1>11, <1>12 DEF GenericStep

\* The steps of the domain: only its last one ends in success, with a config.
LEMMA DomainAwake ==
    ASSUME TypeInv, AllAwake, NEW i \in Instances, DomainStep(i)
    PROVE  AllAwake'
<1> USE DEF TypeInv
<1>j. job[i] \in Jobs
  BY DEF WorkerInv
<1>p. {"status", "readPull", "writePull", "configMap", "secret", "deployment", "service",
       "deleteService", "terminating"} \subseteq Pcs \ {"idle"}
  BY DEF Pcs, CreatePcs, DeletePcs
<1>k. QueueKept(i)
  BY DEF DomainStep, EnsureNamespace, ReadPullSecret, WritePullSecret, ReadConfigMap, ReadSecret,
         WriteDeployment, WriteService, RemoveDeployment, RemoveService, Local, QueueKept
<1>1. CASE EnsureNamespace(i)
  BY <1>1, <1>p, <1>k, GotoAwake DEF EnsureNamespace, AfterPull
<1>2. CASE ReadPullSecret(i)
  BY <1>2, <1>p, <1>k, GotoAwake, FailAwake DEF ReadPullSecret
<1>3. CASE WritePullSecret(i)
  BY <1>3, <1>p, <1>k, GotoAwake DEF WritePullSecret, AfterPull
<1>4. CASE ReadConfigMap(i)
  BY <1>4, <1>p, <1>k, GotoAwake DEF ReadConfigMap
<1>5. CASE ReadSecret(i)
  <2>1. \A why : [job[i] EXCEPT !.obj = StatusProgressing(@, why),
                                !.result = "requeue"].result = "requeue"
    BY <1>j DEF Jobs
  <2> QED
    BY <1>5, <2>1, <1>p, <1>k, GotoAwake DEF ReadSecret
<1>6. CASE WriteDeployment(i)
  BY <1>6, <1>p, <1>k, GotoAwake DEF WriteDeployment
<1>7. CASE WriteService(i)
  <2>1. [job[i] EXCEPT !.obj = StatusReady(@)].cfg \in Configs
    <3>1. job[i].cfg \in Configs
      BY <1>7 DEF WriteService, WorkerInv, WorkerReady
    <3> QED
      BY <3>1, <1>j DEF Jobs
  <2> QED
    BY <1>7, <2>1, <1>p, <1>k, GotoAwake DEF WriteService
<1>8. CASE RemoveDeployment(i)
  BY <1>8, <1>p, <1>k, GotoAwake DEF RemoveDeployment
<1>9. CASE RemoveService(i)
  BY <1>9, <1>p, <1>k, GotoAwake DEF RemoveService
<1> QED
  BY <1>1, <1>2, <1>3, <1>4, <1>5, <1>6, <1>7, <1>8, <1>9 DEF DomainStep

\* Calls that fail.
LEMMA FaultAwake ==
    ASSUME TypeInv, AllAwake, AllPoll, NEW i \in Instances, CallFails(i)
    PROVE  AllAwake'
<1> USE DEF TypeInv
<1>j. job[i] \in Jobs
  BY DEF WorkerInv
<1>p. {"status", "release", "terminating"} \subseteq Pcs \ {"idle"}
  BY DEF Pcs
<1>k. UNCHANGED <<obj, queued>> => QueueKept(i)
  BY DEF QueueKept
<1>1. CASE GetFails(i)
  <2>1. ASSUME NEW k \in Instances PROVE Awake(k)'
    BY <1>1 DEF GetFails, AllAwake, Awake
  <2> QED
    BY <2>1 DEF AllAwake
<1>2. CASE CreateOrUpdateFails(i)
  BY <1>2, <1>k, FailAwake DEF CreateOrUpdateFails
<1>3. CASE AccessFails(i)
  <2>1. [job[i] EXCEPT !.obj = StatusProgressing(@, "ClusterAccessError"),
                       !.result = "error"].result = "error"
    BY <1>j DEF Jobs
  <2> QED
    BY <1>3, <2>1, <1>p, <1>k, GotoAwake DEF AccessFails
<1>4. CASE DeleteFails(i)
  BY <1>4, <1>k, FinishAwake DEF DeleteFails
<1>5. CASE DomainDeleteFails(i)
  BY <1>5, <1>p, <1>k, GotoAwake DEF DomainDeleteFails
<1>6. CASE PatchLost(i)
  BY <1>6, <1>k, FinishAwake DEF PatchLost, AllAwake, Awake, AllPoll
<1>7. CASE TerminatingPatchLost(i)
  BY <1>7, <1>p, <1>k, GotoAwake, FinishAwake DEF TerminatingPatchLost
<1> QED
  BY <1>1, <1>2, <1>3, <1>4, <1>5, <1>6, <1>7 DEF CallFails

\* Users wake every instance, a timer that fires or a new process queues the object.
LEMMA OthersAwake ==
    ASSUME TypeInv, AllAwake
    PROVE  /\ User => AllAwake'
           /\ \A i \in Instances : TimerFires(i) \/ Restart(i) => AllAwake'
           /\ \A i \in Instances : \A c : StoreConfig(i, c) => AllAwake'
           /\ UNCHANGED spVars => AllAwake'
<1> USE DEF TypeInv
<1>1. ASSUME User PROVE AllAwake'
  <2>1. queued' = Instances /\ UNCHANGED <<pc, job, timer>>
    BY <1>1 DEF User, CreateObject, EditObject, DeleteObject, Store
  <2> QED
    BY <2>1 DEF AllAwake, Awake
<1>2. ASSUME NEW i \in Instances, TimerFires(i) PROVE AllAwake'
  BY <1>2 DEF TimerFires, AllAwake, Awake
<1>3. ASSUME NEW i \in Instances, Restart(i) PROVE AllAwake'
  <2>1. ASSUME NEW k \in Instances PROVE Awake(k)'
    BY <1>3 DEF Restart, WorkerInv, AllAwake, Awake
  <2> QED
    BY <2>1 DEF AllAwake
<1>4. ASSUME NEW i \in Instances, NEW c, StoreConfig(i, c) PROVE AllAwake'
  BY <1>4 DEF StoreConfig, AllAwake, Awake
<1>5. ASSUME UNCHANGED spVars PROVE AllAwake'
  BY <1>5 DEF spVars, AllAwake, Awake
<1> QED
  BY <1>1, <1>2, <1>3, <1>4, <1>5

\* Every step keeps the wake-ups.
LEMMA NextAwake == TypeInv /\ AllAwake /\ AllPoll /\ [Next]_vars => AllAwake'
<1> SUFFICES ASSUME TypeInv, AllAwake, AllPoll, [Next]_vars PROVE AllAwake'
  OBVIOUS
<1>1. ASSUME NEW i \in Instances, Worker(i) \/ Fault(i) PROVE AllAwake'
  BY <1>1, GenericAwake, DomainAwake, FaultAwake DEF Worker, WorkerStep, Fault
<1>2. ASSUME NEW i \in Instances, Timer(i) \/ DeliverConfig(i) \/ MissConfig(i) \/ Crash(i)
      PROVE  AllAwake'
  BY <1>2, OthersAwake DEF Timer, DeliverConfig, MissConfig, Crash
<1>3. CASE EditConfig \/ EditPlatformSecret \/ Platform \/ Revoke \/ User \/ ControlPlaneUser
  BY <1>3, OthersAwake DEF EditConfig, EditPlatformSecret, Platform, Revoke, ControlPlaneUser
<1>4. CASE UNCHANGED vars
  BY <1>4, OthersAwake DEF vars
<1> QED
  BY <1>1, <1>2, <1>3, <1>4 DEF Next

\* Where every config has a poll interval no object is ever forgotten, by any number of
\* instances, whatever fails, crashes or changes (the results of Reconcile).
THEOREM NothingForgotten ==
    ASSUME AllPoll
    PROVE  Spec => []WakeupPending
<1>1. Init => AllAwake
  BY DEF Init, SPInit, AllAwake, Awake
<1>2. AllAwake => WakeupPending
  BY DEF AllAwake, Awake, WakeupPending
<1> QED
  BY <1>1, <1>2, InitTypes, NextTypes, NextAwake, PTL DEF Spec

(***************************************************************************)
(* Coming to rest, for one instance and without drift.  While nothing puts *)
(* the object back into the queue, a job has the object's spec and, if a   *)
(* new config would have, the config of the cache; and it ends in success  *)
(* only when Deployment and Service are as these two ask.                  *)
(***************************************************************************)

\* The Deployment, and Deployment and Service, of a spec and a config among those of the MCP
DeploymentAt(spec, cfg, c) ==
    LET ns == Resolve("namespace", spec, cfg)
    IN  c[ns] = DesiredDeployment(spec, cfg, c[ns].hash)

DeployedAt(spec, cfg, c, s) ==
    DeploymentAt(spec, cfg, c) /\ s[Resolve("namespace", spec, cfg)] = "provider"

Undisturbed(i) == i \notin queued /\ obj.life = "live"

Fits(i, cfg) == EmptyObjHasKind => cfg = cached[i]

UpToDate(i) == Undisturbed(i) => job[i].obj.spec = obj.spec /\ Fits(i, job[i].cfg)

Working(i) ==
    /\ pc[i] \in CreatePcs \cup {"finalizer", "access"} => UpToDate(i)
    /\ pc[i] = "service" => DeploymentAt(job[i].obj.spec, job[i].cfg, collector)
    /\ pc[i] = "status" /\ job[i].result = "ok" =>
         /\ UpToDate(i)
         /\ job[i].obj.spec \in Specs /\ job[i].cfg \in Configs
         /\ DeployedAt(job[i].obj.spec, job[i].cfg, collector, frontend)

Resting(i) ==
    pc[i] = "idle" /\ i \notin timer /\ Undisturbed(i) =>
        \E c \in Configs : Fits(i, c) /\ DeployedAt(obj.spec, c, collector, frontend)

Told(i) == i \in notify \/ cached[i] = config

InPlace(i) == Working(i) /\ Resting(i) /\ Told(i)

AllInPlace == \A i \in Instances : InPlace(i)

\* A step within a reconcile, other than the one that writes the Deployment.
LEMMA GotoInPlace ==
    ASSUME OneInstance, WorkerInv, AllInPlace, NEW i \in Instances,
           NEW label \in Pcs \ {"idle", "service"}, NEW j, Goto(i, label, j),
           UNCHANGED <<config, notify>>,
           label \in CreatePcs \cup {"finalizer", "access"} => UpToDate(i)',
           label = "status" => j.result # "ok"
    PROVE  AllInPlace'
<1>1. pc'[i] = label /\ job'[i] = j /\ UNCHANGED cached
  BY DEF WorkerInv, Goto
<1>2. Working(i)'
  BY <1>1 DEF Working
<1>3. Resting(i)' /\ Told(i)'
  BY <1>1 DEF AllInPlace, InPlace, Resting, Told
<1> QED
  BY <1>2, <1>3 DEF OneInstance, AllInPlace, InPlace

\* The end of a reconcile: only one without error and requeue may come to rest.
LEMMA FinishInPlace ==
    ASSUME OneInstance, WorkerInv, AllInPlace, NEW i \in Instances, NEW r, Finish(i, r),
           UNCHANGED <<config, notify>>,
           r = "ok" => Resting(i)'
    PROVE  AllInPlace'
<1>1. pc'[i] = "idle" /\ (r # "ok" => i \in timer') /\ UNCHANGED cached
  BY DEF WorkerInv, Finish
<1>2. Working(i)'
  BY <1>1 DEF Working, CreatePcs
<1>3. Resting(i)' /\ Told(i)'
  BY <1>1 DEF AllInPlace, InPlace, Resting, Told
<1> QED
  BY <1>2, <1>3 DEF OneInstance, AllInPlace, InPlace

\* An error on the way.
LEMMA FailInPlace ==
    ASSUME OneInstance, WorkerInv, AllInPlace, NEW i \in Instances, Fail(i),
           UNCHANGED <<config, notify>>
    PROVE  AllInPlace'
<1>1. [job[i] EXCEPT !.result = "error"].result = "error"
  BY DEF WorkerInv, Jobs
<1>2. "status" \in Pcs \ {"idle", "service"} /\ "status" \notin CreatePcs \cup {"finalizer", "access"}
  BY DEF Pcs, CreatePcs
<1> QED
  BY <1>1, <1>2, GotoInPlace DEF Fail

\* A job that keeps its spec and config stays up to date while the object stays.
LEMMA StillUpToDate ==
    ASSUME NEW i \in Instances, UpToDate(i), UNCHANGED <<obj, queued, cached>>,
           job'[i].obj.spec = job[i].obj.spec, job'[i].cfg = job[i].cfg
    PROVE  UpToDate(i)'
BY DEF UpToDate, Undisturbed, Fits

\* The steps of the generic loop.
LEMMA GenericInPlace ==
    ASSUME OneInstance, TypeInv, Guarded, AllInPlace, NEW i \in Instances, GenericStep(i),
           MCPUntouched, UNCHANGED <<config, notify>>
    PROVE  AllInPlace'
<1>w. WorkerInv /\ WorkerGuarded(i) /\ GlobalGuarded /\ Working(i) /\ Resting(i) /\ Told(i)
  BY DEF TypeInv, Guarded, AllInPlace, InPlace
<1>j. job[i] \in Jobs /\ job[i].obj \in Objects /\ obj \in Objects
  BY <1>w DEF WorkerInv, TypeInv, ObjectInv, Jobs
<1>m. UNCHANGED <<collector, frontend>>
  BY DEF MCPUntouched
<1>e. ASSUME NEW label \in Pcs, NEW j, Goto(i, label, j)
      PROVE  pc'[i] = label /\ job'[i] = j /\ UNCHANGED cached
  BY <1>w, <1>e DEF WorkerInv, Goto
<1>p. /\ {"status", "check", "finalizer", "access", "release", "drop", "deleteDeployment",
          "namespace"} \subseteq Pcs \ {"idle", "service"}
      /\ {"status", "check", "release", "drop", "deleteDeployment"}
           \cap (CreatePcs \cup {"finalizer", "access"}) = {}
  BY DEF Pcs, CreatePcs, DeletePcs
<1>a. pc[i] \in {"finalizer", "access"} => UpToDate(i)
  BY <1>w DEF Working
<1>d. job[i].del => obj.life # "live"
  BY <1>w DEF WorkerGuarded
<1>1. CASE ObjectGone(i)
  <2>1. UNCHANGED <<obj, timer, cached, pc, job>> /\ obj.life = "absent" /\ pc[i] = "idle"
    BY <1>1 DEF ObjectGone
  <2>2. Working(i)' /\ Resting(i)' /\ Told(i)'
    BY <2>1, <1>w DEF Working, Resting, Told, Undisturbed, CreatePcs
  <2> QED
    BY <2>2 DEF OneInstance, AllInPlace, InPlace
<1>2. CASE BeginWithoutConfig(i)
  <2>1. [Loaded(i) EXCEPT !.obj = StatusProgressing(obj, "NoProviderConfig"),
                          !.result = "error"].result = "error"
    BY DEF Loaded, NoJob
  <2> QED
    BY <1>2, <2>1, <1>p, <1>w, GotoInPlace DEF BeginWithoutConfig
<1>3. CASE Begin(i)
  <2> DEFINE label == IF obj.life = "deleting" THEN "check" ELSE "finalizer"
  <2>1. Goto(i, label, Loaded(i)) /\ UNCHANGED obj /\ label \in {"check", "finalizer"}
    BY <1>3 DEF Begin, GetObject
  <2>2. Loaded(i).obj = obj /\ Loaded(i).cfg = cached[i]
    BY DEF Loaded, NoJob
  <2>3. UpToDate(i)'
    BY <2>1, <2>2, <1>e, <1>p DEF UpToDate, Undisturbed, Fits
  <2> QED
    BY <2>1, <2>3, <1>p, <1>w, GotoInPlace
<1>4. CASE AddFinalizer(i)
  <2> DEFINE o == [obj EXCEPT !.fin = TRUE]
             moved == o # obj \/ i \notin fresh
             j == [job[i] EXCEPT !.obj = o, !.moved = moved]
  <2>1. o.spec = obj.spec /\ j.obj = o /\ j.cfg = job[i].cfg
    BY <1>j DEF Jobs, Objects
  <2>2. Goto(i, "access", j) /\ pc[i] = "finalizer"
    BY <1>4 DEF AddFinalizer
  <2>3. UpToDate(i)'
    <3>1. CASE o # obj
      BY <1>4, <3>1 DEF AddFinalizer, Store, UpToDate, Undisturbed
    <3>2. CASE o = obj
      <4>1. UNCHANGED <<obj, queued>>
        BY <1>4, <3>2 DEF AddFinalizer
      <4> QED
        BY <4>1, <2>1, <2>2, <3>2, <1>a, <1>e, <1>p DEF UpToDate, Undisturbed, Fits
    <3> QED
      BY <3>1, <3>2
  <2> QED
    BY <2>2, <2>3, <1>p, <1>w, GotoInPlace
<1>5. CASE AddFinalizerGone(i)
  BY <1>5, <1>w, FailInPlace DEF AddFinalizerGone
<1>6. CASE AccessReady(i)
  <2>1. CASE job[i].del
    <3>1. \E j : Goto(i, "deleteDeployment", j)
      BY <1>6, <2>1 DEF AccessReady
    <3> QED
      BY <3>1, <1>p, <1>w, GotoInPlace
  <2>2. CASE ~job[i].del
    <3> DEFINE j == [job[i] EXCEPT !.obj = StatusProgressing(@, "InProgress"),
                                   !.pull = job[i].cfg.pullSecrets]
    <3>1. j.obj.spec = job[i].obj.spec /\ j.cfg = job[i].cfg
      BY <1>j DEF Jobs, Objects, StatusProgressing, Reported
    <3>2. Goto(i, "namespace", j) /\ pc[i] = "access" /\ UNCHANGED <<obj, queued>>
      BY <1>6, <2>2 DEF AccessReady
    <3>3. UpToDate(i)'
      BY <3>1, <3>2, <1>a, <1>e, <1>p, StillUpToDate
    <3> QED
      BY <3>2, <3>3, <1>p, <1>w, GotoInPlace
  <2> QED
    BY <2>1, <2>2
<1>7. CASE AccessPending(i)
  <2>1. [job[i] EXCEPT !.obj = StatusProgressing(@, "SettingUpAccess"),
                       !.result = "requeue"].result = "requeue"
    BY <1>j DEF Jobs
  <2> QED
    BY <1>7, <2>1, <1>p, <1>w, GotoInPlace, FinishInPlace DEF AccessPending
<1>8. CASE WriteStatus(i)
  <2>1. pc[i] = "status" /\ Finish(i, job[i].result)
    BY <1>8 DEF WriteStatus
  <2>2. queued' = Instances \/ UNCHANGED <<obj, queued>>
    BY <1>8 DEF WriteStatus, Store
  <2>3. ASSUME job[i].result = "ok" PROVE Resting(i)'
    <3>1. CASE queued' = Instances
      BY <3>1 DEF Resting, Undisturbed
    <3>2. CASE UNCHANGED <<obj, queued>>
      <4>1. UNCHANGED cached
        BY <2>1 DEF Finish
      <4> QED
        BY <4>1, <2>1, <2>3, <3>2, <1>m, <1>w DEF Working, Resting, UpToDate, Undisturbed, Fits
    <3> QED
      BY <2>2, <3>1, <3>2
  <2> QED
    BY <2>1, <2>3, <1>w, FinishInPlace
<1>9. CASE CheckAccess(i)
  <2> DEFINE label == IF InDeletion THEN "release" ELSE "access"
  <2>1. Goto(i, label, job[i]) /\ UNCHANGED obj /\ label \in {"release", "access"} /\ pc[i] = "check"
    BY <1>9 DEF CheckAccess
  <2>2. obj.life # "live"
    BY <2>1, <1>w DEF WorkerGuarded
  <2>3. UpToDate(i)'
    BY <2>1, <2>2 DEF UpToDate, Undisturbed
  <2> QED
    BY <2>1, <2>3, <1>p, <1>w, GotoInPlace
<1>10. CASE WriteTerminating(i)
  <2>1. Finish(i, "error") \/ \E j : Goto(i, "release", j)
    BY <1>10 DEF WriteTerminating
  <2> QED
    BY <2>1, <1>p, <1>w, GotoInPlace, FinishInPlace
<1>11. CASE Release(i)
  <2>1. Finish(i, "requeue") \/ Goto(i, "drop", job[i])
    BY <1>11 DEF Release
  <2> QED
    BY <2>1, <1>p, <1>w, GotoInPlace, FinishInPlace
<1>12. CASE Drop(i)
  <2>1. obj' = NoObject => Resting(i)'
    BY DEF Resting, Undisturbed, NoObject
  <2> QED
    BY <1>12, <2>1, <1>w, FinishInPlace DEF Drop, Store
<1> QED
  BY <1>1, <1>2, <1>3, <1>4, <1>5, <1>6, <1>7, <1>8, <1>9, <1>10, <1>11, <1>12 DEF GenericStep

\* The steps of CreateOrUpdate before the Deployment, and of Delete.
LEMMA PrepareInPlace ==
    ASSUME OneInstance, TypeInv, Guarded, AllInPlace, NEW i \in Instances,
           \/ EnsureNamespace(i) \/ ReadPullSecret(i) \/ WritePullSecret(i)
           \/ ReadConfigMap(i) \/ ReadSecret(i) \/ RemoveDeployment(i) \/ RemoveService(i),
           UNCHANGED <<config, notify>>
    PROVE  AllInPlace'
<1>w. WorkerInv /\ Working(i)
  BY DEF TypeInv, AllInPlace, InPlace
<1>j. job[i] \in Jobs
  BY <1>w DEF WorkerInv
<1>p. /\ {"status", "readPull", "writePull", "configMap", "secret", "deployment",
          "deleteService", "terminating"} \subseteq Pcs \ {"idle", "service"}
      /\ {"status", "deleteService", "terminating"} \cap (CreatePcs \cup {"finalizer", "access"}) = {}
  BY DEF Pcs, CreatePcs, DeletePcs
<1>u. ASSUME pc[i] \in CreatePcs, NEW label \in Pcs, NEW j, Goto(i, label, j),
             j.obj = job[i].obj, j.cfg = job[i].cfg, UNCHANGED <<obj, queued>>
      PROVE  UpToDate(i)'
  <2>1. UpToDate(i) /\ job'[i] = j /\ UNCHANGED cached
    BY <1>u, <1>w DEF Working, WorkerInv, Goto
  <2> QED
    BY <2>1, <1>u, StillUpToDate
<1>1. CASE EnsureNamespace(i)
  <2>1. Goto(i, AfterPull(job[i].pull), job[i]) /\ pc[i] \in CreatePcs /\ UNCHANGED <<obj, queued>>
    BY <1>1 DEF EnsureNamespace, Local, CreatePcs
  <2>2. AfterPull(job[i].pull) \in {"configMap", "readPull"}
    BY DEF AfterPull
  <2> QED
    BY <2>1, <2>2, <1>p, <1>u, <1>w, GotoInPlace
<1>2. CASE ReadPullSecret(i)
  <2> DEFINE j == [job[i] EXCEPT !.src = platformSecrets[Head(job[i].pull)]]
  <2>1. /\ Fail(i) \/ Goto(i, "writePull", j)
        /\ pc[i] \in CreatePcs /\ UNCHANGED <<obj, queued>>
    BY <1>2 DEF ReadPullSecret, Local, CreatePcs
  <2>2. j.obj = job[i].obj /\ j.cfg = job[i].cfg
    BY <1>j DEF Jobs
  <2> QED
    BY <2>1, <2>2, <1>p, <1>u, <1>w, GotoInPlace, FailInPlace
<1>3. CASE WritePullSecret(i)
  <2> DEFINE rest == Tail(job[i].pull)
             j == [job[i] EXCEPT !.pull = rest, !.src = NoData]
  <2>1. Goto(i, AfterPull(rest), j) /\ pc[i] \in CreatePcs /\ UNCHANGED <<obj, queued>>
    BY <1>3 DEF WritePullSecret, Local, CreatePcs
  <2>2. AfterPull(rest) \in {"configMap", "readPull"} /\ j.obj = job[i].obj /\ j.cfg = job[i].cfg
    BY <1>j DEF AfterPull, Jobs
  <2> QED
    BY <2>1, <2>2, <1>p, <1>u, <1>w, GotoInPlace
<1>4. CASE ReadConfigMap(i)
  <2> DEFINE j == [job[i] EXCEPT !.conf = configMap[Target(i)]]
  <2>1. Goto(i, "secret", j) /\ pc[i] \in CreatePcs /\ UNCHANGED <<obj, queued>>
    BY <1>4 DEF ReadConfigMap, Local, CreatePcs
  <2>2. j.obj = job[i].obj /\ j.cfg = job[i].cfg
    BY <1>j DEF Jobs
  <2> QED
    BY <2>1, <2>2, <1>p, <1>u, <1>w, GotoInPlace
<1>5. CASE ReadSecret(i)
  <2> DEFINE secret == secrets[Target(i)][CollectorSecret]
             ready == [job[i] EXCEPT !.hash = ConfigHashOf(job[i].conf, secret), !.conf = NoData]
             waits == [job[i] EXCEPT !.obj = StatusProgressing(@, Missing(job[i].conf, secret)),
                                     !.result = "requeue"]
  <2>1. /\ Goto(i, "deployment", ready) \/ Goto(i, "status", waits)
        /\ pc[i] \in CreatePcs /\ UNCHANGED <<obj, queued>>
    BY <1>5 DEF ReadSecret, Local, CreatePcs
  <2>2. ready.obj = job[i].obj /\ ready.cfg = job[i].cfg /\ waits.result = "requeue"
    BY <1>j DEF Jobs
  <2> QED
    BY <2>1, <2>2, <1>p, <1>u, <1>w, GotoInPlace
<1>6. CASE RemoveDeployment(i) \/ RemoveService(i)
  <2>1. Goto(i, "deleteService", job[i]) \/ Goto(i, "terminating", job[i])
    BY <1>6 DEF RemoveDeployment, RemoveService
  <2> QED
    BY <2>1, <1>p, <1>w, GotoInPlace
<1> QED
  BY <1>1, <1>2, <1>3, <1>4, <1>5, <1>6

\* The Deployment is written as the job's spec and config ask, then the Service.
LEMMA DeployInPlace ==
    ASSUME OneInstance, TypeInv, AllInPlace, NEW i \in Instances,
           WriteDeployment(i) \/ WriteService(i), UNCHANGED <<config, notify>>
    PROVE  AllInPlace'
<1> DEFINE spec == job[i].obj.spec
           cfg  == job[i].cfg
           home == Target(i)
<1>w. WorkerInv /\ MCPTypeOK /\ Working(i) /\ Told(i)
  BY DEF TypeInv, AllInPlace, InPlace
<1>p. /\ pc[i] \in {"deployment", "service"} /\ job[i] \in Jobs
      /\ UpToDate(i) /\ spec \in Specs /\ cfg \in Configs /\ home \in Namespaces
  <2>1. pc[i] \in {"deployment", "service"} /\ job[i] \in Jobs
    BY <1>w DEF WriteDeployment, WriteService, WorkerInv
  <2>2. UpToDate(i) /\ spec \in Specs /\ cfg \in Configs
    BY <2>1, <1>w DEF Working, CreatePcs, WorkerInv, WorkerReady
  <2> QED
    BY <2>1, <2>2, TargetType DEF Jobs
<1>u. UNCHANGED <<obj, queued, cached, timer>>
  BY DEF WriteDeployment, WriteService, Local, Goto
<1>1. CASE WriteDeployment(i)
  <2> DEFINE d == DesiredDeployment(spec, cfg, job[i].hash)
  <2>1. pc'[i] = "service" /\ job'[i] = job[i] /\ collector' = [collector EXCEPT ![home] = d]
    <3>1. "service" \in Pcs
      BY DEF Pcs, CreatePcs
    <3> QED
      BY <1>1, <3>1, <1>w DEF WriteDeployment, WorkerInv, Goto, ReconcileDeployment
  <2>2. UpToDate(i)'
    BY <2>1, <1>p, <1>u, StillUpToDate
  <2>3. collector'[home] = d /\ d.hash = job[i].hash
    BY <2>1, <1>p, <1>w DEF MCPTypeOK, DesiredDeployment
  <2>4. DeploymentAt(spec, cfg, collector')
    BY <2>3 DEF DeploymentAt, Target
  <2>5. Working(i)' /\ Resting(i)' /\ Told(i)'
    BY <2>1, <2>2, <2>4, <1>u, <1>w DEF Working, Resting, Told
  <2> QED
    BY <2>5 DEF OneInstance, AllInPlace, InPlace
<1>2. CASE WriteService(i)
  <2> DEFINE j == [job[i] EXCEPT !.obj = StatusReady(@)]
  <2>1. j.obj.spec = spec /\ j.cfg = cfg
    BY <1>p DEF Jobs, Objects, StatusReady, Reported
  <2>2. /\ pc'[i] = "status" /\ job'[i] = j /\ UNCHANGED collector
        /\ frontend' = [frontend EXCEPT ![home] = "provider"]
    <3>1. "status" \in Pcs
      BY DEF Pcs
    <3> QED
      BY <1>2, <3>1, <1>w DEF WriteService, WorkerInv, Goto, ReconcileService
  <2>3. UpToDate(i)'
    BY <2>1, <2>2, <1>p, <1>u, StillUpToDate
  <2>4. DeployedAt(spec, cfg, collector, frontend')
    <3>1. DeploymentAt(spec, cfg, collector)
      BY <1>2, <1>w DEF WriteService, Working
    <3>2. frontend'[home] = "provider"
      BY <2>2, <1>p, <1>w DEF MCPTypeOK
    <3> QED
      BY <3>1, <3>2 DEF DeployedAt, Target
  <2>5. Working(i)'
    BY <2>1, <2>2, <2>3, <2>4, <1>p DEF Working, CreatePcs
  <2>6. Resting(i)' /\ Told(i)'
    BY <2>2, <1>u, <1>w DEF Resting, Told
  <2> QED
    BY <2>5, <2>6 DEF OneInstance, AllInPlace, InPlace
<1> QED
  BY <1>1, <1>2

\* Calls that fail: none ends a reconcile without a timer.
LEMMA FaultInPlace ==
    ASSUME OneInstance, TypeInv, AllInPlace, NEW i \in Instances, CallFails(i), MCPUntouched,
           UNCHANGED <<config, notify>>
    PROVE  AllInPlace'
<1>w. WorkerInv /\ Working(i) /\ Told(i)
  BY DEF TypeInv, AllInPlace, InPlace
<1>j. job[i] \in Jobs
  BY <1>w DEF WorkerInv
<1>p. /\ {"status", "release", "terminating"} \subseteq Pcs \ {"idle", "service"}
      /\ {"status", "release", "terminating"} \cap (CreatePcs \cup {"finalizer", "access"}) = {}
  BY DEF Pcs, CreatePcs
<1>1. CASE GetFails(i)
  <2>1. pc[i] = "idle" /\ i \in timer' /\ UNCHANGED <<pc, cached>>
    BY <1>1 DEF GetFails
  <2>2. Working(i)' /\ Resting(i)' /\ Told(i)'
    BY <2>1, <1>w DEF Working, Resting, Told, CreatePcs
  <2> QED
    BY <2>2 DEF OneInstance, AllInPlace, InPlace
<1>2. CASE CreateOrUpdateFails(i)
  BY <1>2, <1>w, FailInPlace DEF CreateOrUpdateFails
<1>3. CASE AccessFails(i)
  <2>1. [job[i] EXCEPT !.obj = StatusProgressing(@, "ClusterAccessError"),
                       !.result = "error"].result = "error"
    BY <1>j DEF Jobs
  <2> QED
    BY <1>3, <2>1, <1>p, <1>w, GotoInPlace DEF AccessFails
<1>4. CASE DeleteFails(i)
  BY <1>4, <1>w, FinishInPlace DEF DeleteFails
<1>5. CASE DomainDeleteFails(i)
  BY <1>5, <1>p, <1>w, GotoInPlace DEF DomainDeleteFails
<1>6. CASE PatchLost(i)
  <2>1. job[i].result = "ok" => Resting(i)'
    BY <1>6, <1>w DEF PatchLost, Finish, MCPUntouched, Working, Resting, UpToDate, Undisturbed, Fits
  <2> QED
    BY <1>6, <2>1, <1>w, FinishInPlace DEF PatchLost
<1>7. CASE TerminatingPatchLost(i)
  BY <1>7, <1>p, <1>w, GotoInPlace, FinishInPlace DEF TerminatingPatchLost
<1> QED
  BY <1>1, <1>2, <1>3, <1>4, <1>5, <1>6, <1>7 DEF CallFails

\* What is deployed stays as long as nobody takes away or changes what the provider manages.
LEMMA DeployedStays ==
    ASSUME NEW c, NEW s, NEW d, NEW t, NEW spec \in Specs, NEW cfg \in Configs,
           \A ns \in Namespaces : /\ c[ns].owner = "provider" => d[ns] = c[ns]
                                  /\ s[ns] = "provider" => t[ns] = "provider"
    PROVE  /\ DeploymentAt(spec, cfg, c) => DeploymentAt(spec, cfg, d)
           /\ DeployedAt(spec, cfg, c, s) => DeployedAt(spec, cfg, d, t)
<1>1. Resolve("namespace", spec, cfg) \in Namespaces
  BY NamespaceAssumption
<1>2. \A hash : DesiredDeployment(spec, cfg, hash).owner = "provider"
  BY DEF DesiredDeployment
<1> QED
  BY <1>1, <1>2 DEF DeploymentAt, DeployedAt

\* Everybody else, if the object may only be queued in addition and a timer only fires.
LEMMA ElsewhereInPlace ==
    ASSUME TypeInv, AllInPlace, UNCHANGED <<pc, job, obj, cached>>,
           queued \subseteq queued', timer \subseteq timer' \cup queued',
           \A i \in Instances : Told(i)',
           \A ns \in Namespaces :
             /\ collector[ns].owner = "provider" => collector'[ns] = collector[ns]
             /\ frontend[ns] = "provider" => frontend'[ns] = "provider"
    PROVE  AllInPlace'
<1>1. ASSUME NEW i \in Instances PROVE Working(i)' /\ Resting(i)'
  <2>1. Working(i) /\ Resting(i)
    BY DEF AllInPlace, InPlace
  <2>2. UpToDate(i) => UpToDate(i)'
    BY DEF UpToDate, Undisturbed, Fits
  <2>3. Working(i)'
    <3>1. pc[i] = "service" => job[i].obj.spec \in Specs /\ job[i].cfg \in Configs
      BY DEF TypeInv, WorkerInv, WorkerReady
    <3>2. \A spec \in Specs, cfg \in Configs :
            /\ DeploymentAt(spec, cfg, collector) => DeploymentAt(spec, cfg, collector')
            /\ DeployedAt(spec, cfg, collector, frontend) => DeployedAt(spec, cfg, collector', frontend')
      BY DeployedStays
    <3> QED
      BY <2>1, <2>2, <3>1, <3>2 DEF Working
  <2>4. Resting(i)'
    <3>1. obj.life = "live" => obj.spec \in Specs
      BY DEF TypeInv, ObjectInv
    <3> QED
      BY <2>1, <3>1, DeployedStays DEF Resting, Undisturbed, Fits
  <2> QED
    BY <2>3, <2>4
<1> QED
  BY <1>1 DEF AllInPlace, InPlace

\* A config that is delivered, or nil: a live object is queued, or no config would be.
LEMMA StoreInPlace ==
    ASSUME TypeInv, AllInPlace, NEW i \in Instances, NEW c, StoreConfig(i, c), MCPUntouched,
           \A k \in Instances : Told(k)'
    PROVE  AllInPlace'
<1>m. UNCHANGED <<obj, pc, job, timer, collector, frontend>>
  BY DEF StoreConfig, MCPUntouched
<1>1. ASSUME NEW k \in Instances PROVE Working(k)' /\ Resting(k)'
  <2>1. Undisturbed(k)' => Undisturbed(k) /\ (EmptyObjHasKind => cached'[k] = cached[k])
    BY DEF StoreConfig, Undisturbed, TypeInv, WorkerInv
  <2>2. UpToDate(k) => UpToDate(k)'
    BY <1>m, <2>1 DEF UpToDate, Fits
  <2> QED
    BY <1>m, <2>1, <2>2 DEF AllInPlace, InPlace, Working, Resting, Fits
<1> QED
  BY <1>1 DEF AllInPlace, InPlace

\* Users queue the object.
LEMMA UserInPlace ==
    ASSUME AllInPlace, User, UNCHANGED <<config, notify>>, MCPUntouched
    PROVE  AllInPlace'
<1>1. queued' = Instances /\ UNCHANGED <<pc, job, cached, collector, frontend>>
  BY DEF User, CreateObject, EditObject, DeleteObject, Store, MCPUntouched
<1>2. ASSUME NEW i \in Instances PROVE InPlace(i)'
  <2>1. ~Undisturbed(i)'
    BY <1>1 DEF Undisturbed
  <2> QED
    BY <1>1, <2>1 DEF AllInPlace, InPlace, Working, Resting, Told, UpToDate
<1> QED
  BY <1>2 DEF AllInPlace

\* A new process lists the objects and is yet to be told the config.
LEMMA CrashInPlace ==
    ASSUME OneInstance, TypeInv, NEW i \in Instances, Crash(i)
    PROVE  AllInPlace'
<1>1. pc'[i] = "idle" /\ cached'[i] = NoConfig /\ UNCHANGED <<obj, config>>
  BY DEF Crash, Restart, TypeInv, WorkerInv
<1>2. obj.life = "live" => i \in queued'
  BY DEF Crash, Restart
<1>3. Told(i)'
  BY <1>1 DEF Crash, Told
<1>4. Working(i)' /\ Resting(i)'
  BY <1>1, <1>2 DEF Working, Resting, Undisturbed, CreatePcs
<1> QED
  BY <1>3, <1>4 DEF OneInstance, AllInPlace, InPlace

\* Users of the MCP without drift leave alone what the provider manages.
LEMMA ControlPlaneUserKeeps ==
    ASSUME MCPTypeOK, "drift" \notin Disturbances, ControlPlaneUser
    PROVE  \A ns \in Namespaces : /\ collector[ns].owner = "provider" => collector'[ns] = collector[ns]
                                  /\ frontend[ns] = "provider" => frontend'[ns] = "provider"
<1>n. /\ collector \in [Namespaces -> Deployments] /\ frontend \in [Namespaces -> Owners]
      /\ namespaces \subseteq Namespaces
  BY DEF MCPTypeOK
<1>1. CASE UserMakesNamespace \/ UserWritesConfigMap \/ UserWritesSecret
  BY <1>1 DEF UserMakesNamespace, CreateNamespace, UserWritesConfigMap, UserWritesSecret,
              CopyPullSecret
<1>2. CASE UserMakesDeployment
  BY <1>2, <1>n DEF UserMakesDeployment, ReconcileDeployment
<1>3. CASE UserMakesService
  BY <1>3, <1>n DEF UserMakesService
<1> QED
  BY <1>1, <1>2, <1>3 DEF ControlPlaneUser, Disturb

\* Every step keeps it.
LEMMA NextInPlace ==
    ASSUME OneInstance, "drift" \notin Disturbances, TypeInv, Guarded, AllInPlace, [Next]_vars
    PROVE  AllInPlace'
<1>t. \A i \in Instances : Told(i)
  BY DEF AllInPlace, InPlace
<1>e. ASSUME UNCHANGED <<pc, job, obj, cached, queued, timer>>, MCPUntouched,
             \A i \in Instances : Told(i)'
      PROVE  AllInPlace'
  BY <1>e, ElsewhereInPlace DEF MCPUntouched
<1>1. ASSUME NEW i \in Instances, Worker(i) PROVE AllInPlace'
  BY <1>1, GenericInPlace, PrepareInPlace, DeployInPlace
     DEF Worker, WorkerStep, DomainStep, Untouched
<1>2. ASSUME NEW i \in Instances, Fault(i) PROVE AllInPlace'
  BY <1>2, FaultInPlace DEF Fault, Untouched
<1>3. ASSUME NEW i \in Instances, Timer(i) PROVE AllInPlace'
  <2>1. \A k \in Instances : Told(k)'
    BY <1>3, <1>t DEF Timer, TimerFires, Untouched, Told
  <2> QED
    BY <1>3, <2>1, ElsewhereInPlace DEF Timer, TimerFires, MCPUntouched
<1>4. ASSUME NEW i \in Instances, DeliverConfig(i) \/ MissConfig(i) PROVE AllInPlace'
  <2>1. \A k \in Instances : Told(k)'
    BY <1>4, <1>t DEF DeliverConfig, MissConfig, StoreConfig, Told, TypeInv, WorkerInv
  <2> QED
    BY <1>4, <2>1, StoreInPlace DEF DeliverConfig, MissConfig
<1>5. ASSUME NEW i \in Instances, Crash(i) PROVE AllInPlace'
  BY <1>5, CrashInPlace
<1>6. CASE EditConfig
  BY <1>6, <1>e DEF EditConfig, spVars, Told
<1>7. CASE EditPlatformSecret \/ Platform \/ Revoke \/ UNCHANGED vars
  <2>1. UNCHANGED <<spVars, config, notify>> /\ MCPUntouched
    BY <1>7 DEF EditPlatformSecret, Platform, Revoke, Untouched, ConfigUntouched, vars, mcpVars,
                MCPUntouched
  <2>2. \A i \in Instances : Told(i)'
    BY <2>1, <1>t DEF spVars, Told
  <2> QED
    BY <2>1, <2>2, <1>e DEF spVars
<1>8. CASE User
  BY <1>8, UserInPlace DEF User, Untouched
<1>9. CASE ControlPlaneUser
  <2>1. UNCHANGED <<spVars, config, notify>>
    BY <1>9 DEF ControlPlaneUser, Untouched
  <2>2. \A i \in Instances : Told(i)'
    BY <2>1, <1>t DEF spVars, Told
  <2> QED
    BY <1>9, <2>1, <2>2, ControlPlaneUserKeeps, ElsewhereInPlace DEF spVars, TypeInv
<1> QED
  BY <1>1, <1>2, <1>3, <1>4, <1>5, <1>6, <1>7, <1>8, <1>9 DEF Next

\* What comes to rest is deployed: if no reconcile runs, is queued or timed and no config is
\* on its way, Deployment and Service are as the spec of a live service and the
\* ProviderConfig ask (Reconcile, createOrUpdate, the map function), whatever fails, crashes,
\* is edited or delivered between two calls; for any specs, configs, contents and namespaces.
THEOREM RestIsDeployed ==
    ASSUME OneInstance, Instances # {}, "drift" \notin Disturbances
    PROVE  Spec => []RestMeansDeployed
<1>1. Init => AllInPlace
  <2>1. ASSUME Init, NEW i \in Instances PROVE InPlace(i)
    <3>1. pc[i] = "idle" /\ cached[i] = NoConfig /\ (obj.life = "live" => i \in queued)
          /\ (config # NoConfig => i \in notify)
      BY <2>1 DEF Init, SPInit
    <3> QED
      BY <3>1 DEF InPlace, Working, Resting, Told, Undisturbed, CreatePcs
  <2> QED
    BY <2>1 DEF AllInPlace
<1>2. TypeInv /\ Guarded /\ AllInPlace /\ [Next]_vars => TypeInv' /\ Guarded' /\ AllInPlace'
  BY NextTypes, NextGuarded, NextInPlace
<1>3. ASSUME AllInPlace PROVE RestMeansDeployed
  BY <1>3 DEF AllInPlace, InPlace, Resting, Told, Undisturbed, Fits, DeployedAt, DeploymentAt,
              RestMeansDeployed, Quiescent, DeployedAs
<1> QED
  BY <1>1, <1>2, <1>3, InitTypes, InitGuarded, PTL DEF Spec

(***************************************************************************)
(* Phase and condition, for one instance: nobody else writes the status,   *)
(* so what the server has while a patch is still to come is what the       *)
(* reconcile found, or nothing because the object was deleted and made     *)
(* again.                                                                  *)
(***************************************************************************)

Agrees(s) == s.phase = "Ready" <=> s.ready.status = "True"

Patching == Pcs \ {"idle", "release", "drop"}

Agreed(i) ==
    /\ Agrees(job[i].obj.status) /\ Agrees(job[i].old)
    /\ pc[i] \in Patching => obj.status \in {job[i].old, NoStatus}

AllAgreed == Agrees(obj.status) /\ \A i \in Instances : Agreed(i)

\* The setters report a phase and the condition that goes with it.
LEMMA SettersAgree ==
    ASSUME NEW o \in Objects
    PROVE  /\ \A why : Agrees(StatusProgressing(o, why).status)
           /\ Agrees(StatusReady(o).status)
           /\ Agrees(StatusTerminating(o).status)
<1>1. ASSUME NEW phase, NEW status, NEW why
      PROVE  /\ Reported(o, phase, status, why).status.phase = phase
             /\ Reported(o, phase, status, why).status.ready.status = status
  BY DEF Reported, Objects
<1> QED
  BY <1>1 DEF Agrees, StatusProgressing, StatusReady, StatusTerminating

\* A patch that the server takes, on what the reconcile found or on nothing.
LEMMA MergeAgrees ==
    ASSUME NEW old \in Status, NEW new \in Status, Agrees(old), Agrees(new),
           NEW server, server \in {old, NoStatus}, NEW t \in BOOLEAN, PatchValid(server, old, new, t)
    PROVE  Agrees(MergePatch(server, old, new, t))
<1> DEFINE m == MergePatch(server, old, new, t)
           names == PatchNames(old, new, t)
<1>1. /\ m.phase = IF "phase" \in names THEN new.phase ELSE server.phase
      /\ m.ready = IF "ready" \in names THEN new.ready ELSE server.ready
  BY DEF MergePatch
<1>2. /\ "phase" \notin names => new.phase = old.phase
      /\ "ready" \notin names => new.ready = old.ready
  BY DEF PatchNames
<1>3. CASE server = old
  BY <1>1, <1>2, <1>3 DEF Agrees
<1>4. CASE server = NoStatus /\ "ready" \in names
  <2>1. "phase" \in names
    BY <1>4 DEF PatchValid
  <2> QED
    BY <2>1, <1>1, <1>4 DEF Agrees
<1>5. CASE server = NoStatus /\ "ready" \notin names
  <2>1. "phase" \in names
    BY <1>5 DEF PatchValid
  <2>2. old.phase # new.phase
    BY <2>1 DEF PatchNames
  <2>3. new.phase # "Ready"
    BY <2>2, <1>2, <1>5 DEF Agrees
  <2>4. m.phase = new.phase /\ m.ready = NoStatus.ready
    BY <2>1, <1>1, <1>5
  <2>5. NoStatus.ready.status # "True"
    BY DEF NoStatus
  <2> HIDE DEF m
  <2>6. Agrees(m)
    BY <2>3, <2>4, <2>5 DEF Agrees
  <2> QED
    BY <2>6 DEF m
<1> QED
  BY <1>3, <1>4, <1>5

\* The patch of instance i, where it lands.
LEMMA PatchAgrees ==
    ASSUME TypeInv, AllAgreed, NEW i \in Instances, pc[i] \in Patching, NEW t \in BOOLEAN,
           PatchLands(i, t)
    PROVE  Agrees(Patched(i, t).status)
<1>1. job[i].old \in Status /\ job[i].obj.status \in Status
  BY DEF TypeInv, WorkerInv, Jobs, Objects
<1>2. Agrees(MergePatch(obj.status, job[i].old, job[i].obj.status, t))
  BY <1>1, MergeAgrees DEF AllAgreed, Agreed, PatchLands
<1> QED
  BY <1>2 DEF Patched, TypeInv, ObjectInv, Objects

\* A step within a reconcile; one that writes the status is the last that patches.
LEMMA GotoAgreed ==
    ASSUME TypeInv, OneInstance, AllAgreed, NEW i \in Instances, NEW label \in Pcs, NEW j,
           Goto(i, label, j), Agrees(obj'.status), Agrees(j.obj.status), Agrees(j.old),
           label \in Patching => obj'.status \in {j.old, NoStatus}
    PROVE  AllAgreed'
BY DEF TypeInv, WorkerInv, OneInstance, AllAgreed, Agreed, Goto, Agrees

\* The end of a reconcile.
LEMMA FinishAgreed ==
    ASSUME TypeInv, OneInstance, AllAgreed, NEW i \in Instances, NEW r, Finish(i, r),
           Agrees(obj'.status)
    PROVE  AllAgreed'
BY DEF TypeInv, WorkerInv, OneInstance, AllAgreed, Agreed, Finish, Agrees, NoJob, NoObject, NoStatus,
       Patching

\* A step that leaves object and worker alone.
LEMMA SameAgreed == AllAgreed /\ UNCHANGED <<obj, pc, job>> => AllAgreed'
BY DEF AllAgreed, Agreed, Agrees

\* The steps of the generic loop.
LEMMA GenericAgreed ==
    ASSUME TypeInv, OneInstance, AllAgreed, NEW i \in Instances, GenericStep(i)
    PROVE  AllAgreed'
<1>j. job[i] \in Jobs /\ job[i].obj \in Objects /\ obj \in Objects
  BY DEF TypeInv, WorkerInv, ObjectInv, Jobs
<1>a. /\ Agrees(obj.status) /\ Agrees(job[i].obj.status) /\ Agrees(job[i].old)
      /\ pc[i] \in Patching => obj.status \in {job[i].old, NoStatus}
  BY DEF AllAgreed, Agreed
<1>p. /\ {"status", "check", "finalizer", "access", "release", "drop", "deleteDeployment",
          "namespace", "terminating"} \subseteq Pcs
      /\ \A label \in Pcs : label \notin {"idle", "release", "drop"} <=> label \in Patching
  BY DEF Pcs, CreatePcs, DeletePcs, Patching
<1>u. UNCHANGED obj => obj'.status = obj.status
  OBVIOUS
<1>1. CASE ObjectGone(i)
  BY <1>1, SameAgreed DEF ObjectGone
<1>2. CASE BeginWithoutConfig(i) \/ Begin(i)
  <2>1. /\ Loaded(i).obj = obj /\ Loaded(i).old = obj.status
        /\ [Loaded(i) EXCEPT !.obj = StatusProgressing(obj, "NoProviderConfig"),
                             !.result = "error"].obj = StatusProgressing(obj, "NoProviderConfig")
        /\ [Loaded(i) EXCEPT !.obj = StatusProgressing(obj, "NoProviderConfig"),
                             !.result = "error"].old = obj.status
    BY DEF Loaded, NoJob
  <2>2. UNCHANGED obj
    BY <1>2 DEF BeginWithoutConfig, Begin, GetObject
  <2>3. Agrees(StatusProgressing(obj, "NoProviderConfig").status)
    BY <1>j, SettersAgree
  <2>4. CASE BeginWithoutConfig(i)
    BY <2>1, <2>2, <2>3, <2>4, <1>a, <1>p, <1>u, GotoAgreed DEF BeginWithoutConfig
  <2>5. CASE Begin(i)
    BY <2>1, <2>2, <2>5, <1>a, <1>p, <1>u, GotoAgreed DEF Begin
  <2> QED
    BY <1>2, <2>4, <2>5
<1>3. CASE AddFinalizer(i)
  <2> DEFINE o == [obj EXCEPT !.fin = TRUE]
             moved == o # obj \/ i \notin fresh
             j == [job[i] EXCEPT !.obj = o, !.moved = moved]
  <2>1. o.status = obj.status
    BY <1>j DEF Objects
  <2>2. j.obj = o /\ j.old = job[i].old
    BY <1>j DEF Jobs
  <2>3. obj' = o
    BY <1>3 DEF AddFinalizer, Store
  <2>4. Goto(i, "access", j)
    BY <1>3 DEF AddFinalizer
  <2>5. pc[i] \in Patching
    BY <1>3, <1>p DEF AddFinalizer
  <2> HIDE DEF o, j
  <2> QED
    BY <2>1, <2>2, <2>3, <2>4, <2>5, <1>a, <1>p, GotoAgreed
<1>4. CASE AddFinalizerGone(i)
  <2>1. [job[i] EXCEPT !.result = "error"].obj = job[i].obj
        /\ [job[i] EXCEPT !.result = "error"].old = job[i].old
    BY <1>j DEF Jobs
  <2>2. pc[i] \in Patching /\ UNCHANGED obj
    BY <1>4, <1>p DEF AddFinalizerGone
  <2>3. Goto(i, "status", [job[i] EXCEPT !.result = "error"])
    BY <1>4 DEF AddFinalizerGone, Fail
  <2> QED
    BY <2>1, <2>2, <2>3, <1>a, <1>p, <1>u, GotoAgreed
<1>5. CASE AccessReady(i)
  <2>1. pc[i] \in Patching /\ UNCHANGED obj
    BY <1>5, <1>p DEF AccessReady
  <2>2. CASE job[i].del
    <3> DEFINE j == [job[i] EXCEPT !.obj = StatusTerminating(@)]
    <3>1. j.obj = StatusTerminating(job[i].obj) /\ j.old = job[i].old
      BY <1>j DEF Jobs
    <3>2. Goto(i, "deleteDeployment", j)
      BY <1>5, <2>2 DEF AccessReady
    <3> HIDE DEF j
    <3> QED
      BY <3>1, <3>2, <2>1, <1>j, <1>a, <1>p, <1>u, SettersAgree, GotoAgreed
  <2>3. CASE ~job[i].del
    <3> DEFINE j == [job[i] EXCEPT !.obj = StatusProgressing(@, "InProgress"),
                                   !.pull = job[i].cfg.pullSecrets]
    <3>1. j.obj = StatusProgressing(job[i].obj, "InProgress") /\ j.old = job[i].old
      BY <1>j DEF Jobs
    <3>2. Goto(i, "namespace", j)
      BY <1>5, <2>3 DEF AccessReady
    <3> HIDE DEF j
    <3> QED
      BY <3>1, <3>2, <2>1, <1>j, <1>a, <1>p, <1>u, SettersAgree, GotoAgreed
  <2> QED
    BY <2>2, <2>3
<1>6. CASE AccessPending(i)
  <2>1. pc[i] \in Patching /\ UNCHANGED obj
    BY <1>6, <1>p DEF AccessPending
  <2> DEFINE j == [job[i] EXCEPT !.obj = StatusProgressing(@, "SettingUpAccess"),
                                 !.result = "requeue"]
  <2>2. j.obj = StatusProgressing(job[i].obj, "SettingUpAccess") /\ j.old = job[i].old
    BY <1>j DEF Jobs
  <2>3. Finish(i, "requeue") \/ Goto(i, "status", j)
    BY <1>6 DEF AccessPending
  <2> HIDE DEF j
  <2> QED
    BY <2>1, <2>2, <2>3, <1>j, <1>a, <1>p, <1>u, SettersAgree, GotoAgreed, FinishAgreed
<1>7. CASE WriteStatus(i)
  <2>1. pc[i] \in Patching
    BY <1>7, <1>p DEF WriteStatus
  <2>2. Agrees(obj'.status)
    <3>1. ASSUME NEW t \in BOOLEAN, PatchLands(i, t), obj' = Patched(i, t) PROVE Agrees(obj'.status)
      BY <3>1, <2>1, PatchAgrees
    <3>2. PatchTimes(i) \subseteq BOOLEAN
      BY DEF PatchTimes
    <3> QED
      BY <1>7, <3>1, <3>2, <1>a DEF WriteStatus, Store
  <2> QED
    BY <1>7, <2>2, FinishAgreed DEF WriteStatus
<1>8. CASE CheckAccess(i)
  BY <1>8, <1>a, <1>p, <1>u, GotoAgreed DEF CheckAccess
<1>9. CASE WriteTerminating(i)
  <2>1. pc[i] \in Patching
    BY <1>9, <1>p DEF WriteTerminating
  <2>2. PatchLands(i, FALSE) => Agrees(Patched(i, FALSE).status)
    BY <2>1, PatchAgrees
  <2>3. Agrees(obj'.status)
    BY <1>9, <2>2, <1>a DEF WriteTerminating, TerminatingStored, Store
  <2> DEFINE j == [job[i] EXCEPT !.obj = Patched(i, FALSE)]
  <2>4. j.obj = Patched(i, FALSE) /\ j.old = job[i].old
    BY <1>j DEF Jobs
  <2>5. \/ Finish(i, "error")
        \/ PatchLands(i, FALSE) /\ Goto(i, "release", j)
        \/ Goto(i, "release", job[i])
    <3>1. CASE job[i].result = "error"
      BY <1>9, <3>1 DEF WriteTerminating
    <3>2. CASE job[i].result # "error" /\ PatchLands(i, FALSE)
      BY <1>9, <3>2 DEF WriteTerminating
    <3>3. CASE job[i].result # "error" /\ ~PatchLands(i, FALSE)
      BY <1>9, <3>3 DEF WriteTerminating
    <3> QED
      BY <3>1, <3>2, <3>3
  <2> HIDE DEF j
  <2> QED
    BY <2>2, <2>3, <2>4, <2>5, <1>a, <1>p, GotoAgreed, FinishAgreed
<1>10. CASE Release(i)
  BY <1>10, <1>a, <1>p, <1>u, GotoAgreed, FinishAgreed DEF Release
<1>11. CASE Drop(i)
  <2>1. Agrees(NoObject.status)
    BY DEF NoObject, NoStatus, Agrees
  <2> QED
    BY <1>11, <2>1, <1>a, <1>u, FinishAgreed DEF Drop, Store
<1> QED
  BY <1>1, <1>2, <1>3, <1>4, <1>5, <1>6, <1>7, <1>8, <1>9, <1>10, <1>11 DEF GenericStep

\* The steps of the domain: the status changes in the copy only.
LEMMA DomainAgreed ==
    ASSUME TypeInv, OneInstance, AllAgreed, NEW i \in Instances, DomainStep(i), UNCHANGED obj
    PROVE  AllAgreed'
<1>j. job[i] \in Jobs /\ job[i].obj \in Objects
  BY DEF TypeInv, WorkerInv, Jobs
<1>a. Agrees(obj.status) /\ Agrees(job[i].obj.status) /\ Agrees(job[i].old)
  BY DEF AllAgreed, Agreed
<1>b. obj.status \in {job[i].old, NoStatus}
  BY DEF DomainStep, EnsureNamespace, ReadPullSecret, WritePullSecret, ReadConfigMap, ReadSecret,
         WriteDeployment, WriteService, RemoveDeployment, RemoveService,
         AllAgreed, Agreed, Patching, Pcs, CreatePcs, DeletePcs
<1>1. ASSUME NEW label \in Pcs, NEW j, Goto(i, label, j), Agrees(j.obj.status), j.old = job[i].old
      PROVE  AllAgreed'
  BY <1>1, <1>a, <1>b, GotoAgreed
<1>2. ASSUME NEW label \in Pcs, NEW j, Goto(i, label, j), j.obj = job[i].obj, j.old = job[i].old
      PROVE  AllAgreed'
  BY <1>2, <1>1, <1>a
<1>p. Pcs = {"idle", "finalizer", "access", "status", "check", "terminating", "release", "drop",
             "namespace", "readPull", "writePull", "configMap", "secret", "deployment", "service",
             "deleteDeployment", "deleteService"}
  BY DEF Pcs, CreatePcs, DeletePcs
<1>3. CASE EnsureNamespace(i)
  BY <1>3, <1>2, <1>p DEF EnsureNamespace, AfterPull
<1>4. CASE ReadPullSecret(i)
  <2>1. \A d : [job[i] EXCEPT !.src = d].obj = job[i].obj /\ [job[i] EXCEPT !.src = d].old = job[i].old
    BY <1>j DEF Jobs
  <2>2. /\ [job[i] EXCEPT !.result = "error"].obj = job[i].obj
        /\ [job[i] EXCEPT !.result = "error"].old = job[i].old
    BY <1>j DEF Jobs
  <2> QED
    BY <1>4, <2>1, <2>2, <1>2, <1>p DEF ReadPullSecret, Fail
<1>5. CASE WritePullSecret(i)
  <2>1. \A rest : /\ [job[i] EXCEPT !.pull = rest, !.src = NoData].obj = job[i].obj
                  /\ [job[i] EXCEPT !.pull = rest, !.src = NoData].old = job[i].old
    BY <1>j DEF Jobs
  <2> QED
    BY <1>5, <2>1, <1>2, <1>p DEF WritePullSecret, AfterPull
<1>6. CASE ReadConfigMap(i)
  <2>1. \A d : [job[i] EXCEPT !.conf = d].obj = job[i].obj /\ [job[i] EXCEPT !.conf = d].old = job[i].old
    BY <1>j DEF Jobs
  <2> QED
    BY <1>6, <2>1, <1>2, <1>p DEF ReadConfigMap
<1>7. CASE ReadSecret(i)
  <2>1. \A h : /\ [job[i] EXCEPT !.hash = h, !.conf = NoData].obj = job[i].obj
               /\ [job[i] EXCEPT !.hash = h, !.conf = NoData].old = job[i].old
    BY <1>j DEF Jobs
  <2>2. ASSUME NEW why, NEW j,
               j = [job[i] EXCEPT !.obj = StatusProgressing(@, why), !.result = "requeue"]
        PROVE  Agrees(j.obj.status) /\ j.old = job[i].old
    <3>1. j.obj = StatusProgressing(job[i].obj, why) /\ j.old = job[i].old
      BY <2>2, <1>j DEF Jobs
    <3> QED
      BY <3>1, <1>j, SettersAgree
  <2>3. \/ \E h : Goto(i, "deployment", [job[i] EXCEPT !.hash = h, !.conf = NoData])
        \/ \E why : Goto(i, "status", [job[i] EXCEPT !.obj = StatusProgressing(@, why),
                                                     !.result = "requeue"])
    BY <1>7 DEF ReadSecret
  <2> QED
    BY <2>1, <2>2, <2>3, <1>1, <1>2, <1>p
<1>8. CASE WriteService(i)
  <2>1. /\ [job[i] EXCEPT !.obj = StatusReady(@)].obj = StatusReady(job[i].obj)
        /\ [job[i] EXCEPT !.obj = StatusReady(@)].old = job[i].old
    BY <1>j DEF Jobs
  <2>2. Agrees([job[i] EXCEPT !.obj = StatusReady(@)].obj.status)
    BY <2>1, <1>j, SettersAgree
  <2> QED
    BY <1>8, <2>1, <2>2, <1>1, <1>p DEF WriteService
<1>9. CASE WriteDeployment(i) \/ RemoveDeployment(i) \/ RemoveService(i)
  BY <1>9, <1>2, <1>p DEF WriteDeployment, RemoveDeployment, RemoveService
<1> QED
  BY <1>3, <1>4, <1>5, <1>6, <1>7, <1>8, <1>9 DEF DomainStep

\* Calls that fail.
LEMMA FaultAgreed ==
    ASSUME TypeInv, OneInstance, AllAgreed, NEW i \in Instances, CallFails(i)
    PROVE  AllAgreed'
<1>j. job[i] \in Jobs /\ job[i].obj \in Objects
  BY DEF TypeInv, WorkerInv, Jobs
<1>o. UNCHANGED obj
  BY DEF CallFails, GetFails, CreateOrUpdateFails, AccessFails, DeleteFails, DomainDeleteFails,
         PatchLost, TerminatingPatchLost
<1>a. /\ Agrees(obj'.status) /\ Agrees(job[i].obj.status) /\ Agrees(job[i].old)
      /\ pc[i] \in Patching => obj'.status \in {job[i].old, NoStatus}
  BY <1>o DEF AllAgreed, Agreed
<1>p. /\ {"status", "release", "terminating"} \subseteq Pcs
      /\ {"finalizer", "access", "terminating"} \cup CreatePcs \cup DeletePcs \subseteq Patching
      /\ "release" \notin Patching
  BY DEF Pcs, CreatePcs, DeletePcs, Patching
<1>e. /\ [job[i] EXCEPT !.result = "error"].obj = job[i].obj
      /\ [job[i] EXCEPT !.result = "error"].old = job[i].old
  BY <1>j DEF Jobs
<1>1. CASE GetFails(i)
  BY <1>1, SameAgreed DEF GetFails
<1>2. CASE CreateOrUpdateFails(i)
  BY <1>2, <1>a, <1>p, <1>e, GotoAgreed DEF CreateOrUpdateFails, Fail
<1>3. CASE AccessFails(i)
  <2> DEFINE j == [job[i] EXCEPT !.obj = StatusProgressing(@, "ClusterAccessError"), !.result = "error"]
  <2>1. j.obj = StatusProgressing(job[i].obj, "ClusterAccessError") /\ j.old = job[i].old
    BY <1>j DEF Jobs
  <2>2. Goto(i, "status", j) /\ pc[i] \in Patching
    BY <1>3, <1>p DEF AccessFails
  <2> HIDE DEF j
  <2> QED
    BY <2>1, <2>2, <1>j, <1>a, <1>p, SettersAgree, GotoAgreed
<1>4. CASE DeleteFails(i)
  BY <1>4, <1>a, FinishAgreed DEF DeleteFails
<1>5. CASE DomainDeleteFails(i)
  BY <1>5, <1>a, <1>p, <1>e, GotoAgreed DEF DomainDeleteFails
<1>6. CASE PatchLost(i)
  BY <1>6, <1>a, FinishAgreed DEF PatchLost
<1>7. CASE TerminatingPatchLost(i)
  BY <1>7, <1>a, <1>p, GotoAgreed, FinishAgreed DEF TerminatingPatchLost
<1> QED
  BY <1>1, <1>2, <1>3, <1>4, <1>5, <1>6, <1>7 DEF CallFails

\* Users leave the status alone, or make an object without one; a new process knows nothing.
LEMMA OthersAgreed ==
    ASSUME TypeInv, AllAgreed
    PROVE  /\ User => AllAgreed'
           /\ \A i \in Instances : Restart(i) => AllAgreed'
<1>n. Agrees(NoStatus) /\ Agrees(NoJob.obj.status) /\ Agrees(NoJob.old)
  BY DEF Agrees, NoStatus, NoJob, NoObject
<1>1. ASSUME User PROVE AllAgreed'
  <2>1. UNCHANGED <<pc, job>>
    BY <1>1 DEF User, CreateObject, EditObject, DeleteObject
  <2>2. obj'.status \in {obj.status, NoStatus}
    <3>1. \A s : NewObject(s).status = NoStatus
      BY DEF NewObject, NoObject
    <3>2. \A s : [obj EXCEPT !.spec = s, !.gen = @ + 1].status = obj.status
      BY DEF TypeInv, ObjectInv, Objects
    <3>3. [obj EXCEPT !.life = "deleting", !.gen = @ + 1].status = obj.status
      BY DEF TypeInv, ObjectInv, Objects
    <3>4. NoObject.status = NoStatus
      BY DEF NoObject
    <3> QED
      BY <1>1, <3>1, <3>2, <3>3, <3>4 DEF User, CreateObject, EditObject, DeleteObject, Store
  <2>3. Agrees(obj'.status)
    BY <2>2, <1>n DEF AllAgreed
  <2>4. ASSUME NEW i \in Instances PROVE Agreed(i)'
    BY <2>1, <2>2 DEF AllAgreed, Agreed, Agrees
  <2> QED
    BY <2>3, <2>4 DEF AllAgreed, Agrees
<1>2. ASSUME NEW i \in Instances, Restart(i) PROVE AllAgreed'
  <2>1. ASSUME NEW k \in Instances PROVE Agreed(k)'
    BY <1>2, <1>n DEF Restart, TypeInv, WorkerInv, AllAgreed, Agreed, Agrees, Patching
  <2> QED
    BY <2>1, <1>2 DEF AllAgreed, Agrees, Restart
<1> QED
  BY <1>1, <1>2

\* Every step keeps phase and condition together.
LEMMA NextAgreed == TypeInv /\ OneInstance /\ AllAgreed /\ [Next]_vars => AllAgreed'
<1> SUFFICES ASSUME TypeInv, OneInstance, AllAgreed, [Next]_vars PROVE AllAgreed'
  OBVIOUS
<1>1. ASSUME NEW i \in Instances, Worker(i) \/ Fault(i) PROVE AllAgreed'
  <2>1. DomainStep(i) => UNCHANGED obj
    BY DEF DomainStep, EnsureNamespace, ReadPullSecret, WritePullSecret, ReadConfigMap, ReadSecret,
           WriteDeployment, WriteService, RemoveDeployment, RemoveService, Local
  <2> QED
    BY <1>1, <2>1, GenericAgreed, DomainAgreed, FaultAgreed DEF Worker, WorkerStep, Fault
<1>2. ASSUME NEW i \in Instances, Timer(i) \/ DeliverConfig(i) \/ MissConfig(i) PROVE AllAgreed'
  BY <1>2, SameAgreed DEF Timer, DeliverConfig, MissConfig, TimerFires, StoreConfig
<1>3. ASSUME NEW i \in Instances, Crash(i) PROVE AllAgreed'
  BY <1>3, OthersAgreed DEF Crash
<1>4. CASE User
  BY <1>4, OthersAgreed
<1>5. CASE EditConfig \/ EditPlatformSecret \/ Platform \/ Revoke \/ ControlPlaneUser \/ UNCHANGED vars
  BY <1>5, SameAgreed
     DEF EditConfig, EditPlatformSecret, Platform, Revoke, ControlPlaneUser, spVars, vars
<1> QED
  BY <1>1, <1>2, <1>3, <1>4, <1>5 DEF Next

\* At first there is no status and no job.
LEMMA InitAgreed == Init => AllAgreed
<1>1. NoObject.status = NoStatus /\ \A s : NewObject(s).status = NoStatus
  BY DEF NewObject, NoObject
<1>2. ASSUME Init PROVE obj.status = NoStatus /\ \A i \in Instances : pc[i] = "idle" /\ job[i] = NoJob
  BY <1>1, <1>2 DEF Init, SPInit
<1>3. Agrees(NoStatus) /\ Agrees(NoJob.obj.status) /\ Agrees(NoJob.old)
  BY DEF Agrees, NoStatus, NoJob, NoObject
<1> QED
  BY <1>2, <1>3 DEF AllAgreed, Agreed, Patching

\* Ready is the phase exactly of objects whose condition is True (status.go), with one
\* instance, for any specs and configs and whatever fails, crashes, is edited, deleted or
\* made again.
THEOREM PhaseAgrees ==
    ASSUME OneInstance
    PROVE  Spec => []PhaseMatchesCondition
<1>1. AllAgreed => PhaseMatchesCondition
  BY DEF AllAgreed, Agrees, PhaseMatchesCondition
<1> QED
  BY <1>1, InitAgreed, InitTypes, NextTypes, NextAgreed, PTL DEF Spec
===============================================================================
