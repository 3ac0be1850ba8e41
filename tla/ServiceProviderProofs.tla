------------------------- MODULE ServiceProviderProofs -------------------------
(***************************************************************************)
(* Proofs about ServiceProvider, for every value of its constants.         *)
(***************************************************************************)
EXTENDS ServiceProvider, TLAPS

(***************************************************************************)
(* The building blocks keep their types.                                   *)
(***************************************************************************)

\* What a setter of status.go returns is an object with the same metadata and spec.
LEMMA ReportedType ==
    ASSUME NEW o \in Objects, NEW phase \in {"", "Progressing", "Ready", "Terminating"},
           NEW status \in {"", "True", "False"}, NEW why \in Whys
    PROVE  /\ Reported(o, phase, status, why) \in Objects
           /\ Reported(o, phase, status, why).life = o.life
           /\ Reported(o, phase, status, why).fin = o.fin
           /\ Reported(o, phase, status, why).spec = o.spec
BY DEF Objects, Status, Reported

\* The three setters, as the reconcilers call them.
LEMMA SetterTypes ==
    ASSUME NEW o \in Objects
    PROVE  /\ \A why \in Whys : /\ StatusProgressing(o, why) \in Objects
                                /\ StatusProgressing(o, why).spec = o.spec
           /\ StatusReady(o) \in Objects /\ StatusReady(o).spec = o.spec
           /\ StatusTerminating(o) \in Objects /\ StatusTerminating(o).spec = o.spec
<1>1. ASSUME NEW why \in Whys
      PROVE  StatusProgressing(o, why) \in Objects /\ StatusProgressing(o, why).spec = o.spec
  BY ReportedType DEF StatusProgressing
<1>2. "ReconcileSuccess" \in Whys /\ "Terminating" \in Whys
  BY DEF Whys
<1>3. StatusReady(o) \in Objects /\ StatusReady(o).spec = o.spec
  BY <1>2, ReportedType DEF StatusReady
<1>4. StatusTerminating(o) \in Objects /\ StatusTerminating(o).spec = o.spec
  BY <1>2, ReportedType DEF StatusTerminating
<1> QED
  BY <1>1, <1>3, <1>4

\* A merge patch of two statuses on a third is a status.
LEMMA MergePatchType ==
    ASSUME NEW server \in Status, NEW old \in Status, NEW new \in Status, NEW t \in BOOLEAN
    PROVE  MergePatch(server, old, new, t) \in Status
BY DEF MergePatch, Status

\* The records that stand for nothing have the types of something.
LEMMA EmptyTypes == NoObject \in Objects /\ NoJob \in Jobs /\ NoStatus \in Status
<1>1. NoStatus \in Status
  BY DEF NoStatus, Status, Whys
<1>2. NoObject \in Objects
  BY <1>1 DEF NoObject, Objects
<1>3. <<>> \in Seq(SecretNames)
  OBVIOUS
<1>4. NoData \in MaybeData /\ NoData \in Hashes
  BY DEF MaybeData, Hashes
<1> QED
  BY <1>1, <1>2, <1>3, <1>4 DEF NoJob, Jobs

\* A setting resolves to a value a Deployment can have.
LEMMA ResolveType ==
    ASSUME NEW f \in Fields, NEW s \in Specs, NEW c \in Configs
    PROVE  Resolve(f, s, c) \in Values
BY ApiAssumption DEF Resolve, Values, Overrides, ProviderConfigs

\* The Deployment a job asks for is one.
LEMMA DesiredDeploymentType ==
    ASSUME NEW s \in Specs, NEW c \in Configs,
           NEW h \in Hashes
    PROVE  /\ DesiredDeployment(s, c, h) \in Deployments
           /\ DesiredDeployment(s, c, h).owner = "provider"
<1>1. /\ Resolve("image", s, c) \in Values
      /\ Resolve("version", s, c) \in Values
      /\ Resolve("resources", s, c) \in Values
  BY ResolveType DEF Fields
<1>2. c.pullSecrets \in Seq(SecretNames)
  BY ApiAssumption DEF ProviderConfigs
<1> QED
  BY <1>1, <1>2 DEF DesiredDeployment, Deployments, Owners

\* The target namespace of a job that has a config and a spec is one of the MCP's.
LEMMA TargetType ==
    ASSUME NEW i \in Instances, job[i].cfg \in Configs, job[i].obj.spec \in Specs
    PROVE  Target(i) \in Namespaces
BY NamespaceAssumption DEF Target

(***************************************************************************)
(* The typing invariant, in the parts that a step changes separately: the  *)
(* workers, the service object with the queues, access requests, the MCP,  *)
(* and the config with its bounds.                                         *)
(***************************************************************************)

WorkerReady(i) ==
    /\ pc[i] \notin {"idle", "status"} => job[i].cfg \in Configs /\ job[i].obj.spec \in Specs
    /\ pc[i] \in {"readPull", "writePull"} => job[i].pull # <<>>

WorkerInv ==
    /\ timer \subseteq Instances
    /\ cached \in [Instances -> Configs \cup {NoConfig}]
    /\ pc \in [Instances -> Pcs]
    /\ job \in [Instances -> Jobs]
    /\ \A i \in Instances : WorkerReady(i)

ObjectInv ==
    /\ obj \in Objects
    /\ obj.life # "absent" => obj.spec \in Specs
    /\ fresh \subseteq Instances
    /\ queued \subseteq Instances

EnvInv ==
    /\ config \in Configs \cup {NoConfig}
    /\ notify \subseteq Instances
    /\ budget \in 0 .. MaxEvents

TypeInv == WorkerInv /\ ObjectInv /\ AccessTypeOK /\ MCPTypeOK /\ EnvInv

\* The parts together are the type invariant and JobReady.
LEMMA TypeInvParts == TypeInv <=> TypeOK /\ JobReady
BY DEF TypeInv, WorkerInv, WorkerReady, ObjectInv, EnvInv, TypeOK, SPTypeOK, JobReady

\* Going on within a reconcile, to a job that is ready for its next call.
LEMMA GotoWorker ==
    ASSUME WorkerInv, NEW i \in Instances, NEW label \in Pcs, NEW j \in Jobs, Goto(i, label, j),
           label \notin {"idle", "status"} => j.cfg \in Configs /\ j.obj.spec \in Specs,
           label \in {"readPull", "writePull"} => j.pull # <<>>
    PROVE  WorkerInv'
<1>1. /\ pc' \in [Instances -> Pcs] /\ job' \in [Instances -> Jobs]
      /\ timer' \subseteq Instances /\ cached' \in [Instances -> Configs \cup {NoConfig}]
  BY DEF WorkerInv, Goto
<1>2. ASSUME NEW k \in Instances PROVE WorkerReady(k)'
  BY DEF WorkerInv, WorkerReady, Goto
<1> QED
  BY <1>1, <1>2 DEF WorkerInv

\* The end of a reconcile.
LEMMA FinishWorker ==
    ASSUME WorkerInv, NEW i \in Instances, NEW r, Finish(i, r)
    PROVE  WorkerInv'
<1>0. "idle" \in Pcs
  BY DEF Pcs
<1>1. /\ pc' \in [Instances -> Pcs] /\ job' \in [Instances -> Jobs]
      /\ timer' \subseteq Instances /\ cached' \in [Instances -> Configs \cup {NoConfig}]
  BY <1>0, EmptyTypes DEF WorkerInv, Finish
<1>2. ASSUME NEW k \in Instances PROVE WorkerReady(k)'
  BY DEF WorkerInv, WorkerReady, Finish
<1> QED
  BY <1>1, <1>2 DEF WorkerInv

\* The rest of a job that only ends.
LEMMA FailWorker ==
    ASSUME WorkerInv, NEW i \in Instances, Fail(i)
    PROVE  WorkerInv'
<1>1. job[i] \in Jobs
  BY DEF WorkerInv
<1>2. "status" \in Pcs /\ [job[i] EXCEPT !.result = "error"] \in Jobs
  BY <1>1 DEF Pcs, Jobs
<1> QED
  BY <1>2, GotoWorker DEF Fail

\* The workers do not change.
LEMMA SameWorker ==
    ASSUME WorkerInv, UNCHANGED <<timer, cached, pc, job>>
    PROVE  WorkerInv'
BY DEF WorkerInv, WorkerReady

\* The API server stores an object that has a spec, or none.
LEMMA StoreObject ==
    ASSUME ObjectInv, NEW o \in Objects, o.life # "absent" => o.spec \in Specs,
           NEW writer \in SUBSET Instances, Store(o, writer)
    PROVE  ObjectInv'
BY DEF ObjectInv, Store

\* A patch of the status of the object there is.
LEMMA PatchedType ==
    ASSUME ObjectInv, WorkerInv, NEW i \in Instances, NEW t \in BOOLEAN
    PROVE  /\ Patched(i, t) \in Objects
           /\ Patched(i, t).life = obj.life /\ Patched(i, t).fin = obj.fin
           /\ Patched(i, t).spec = obj.spec
<1>1. obj \in Objects /\ job[i].old \in Status /\ job[i].obj.status \in Status
  BY DEF ObjectInv, WorkerInv, Jobs, Objects
<1>2. MergePatch(obj.status, job[i].old, job[i].obj.status, t) \in Status
  BY <1>1, MergePatchType DEF Objects
<1> QED
  BY <1>1, <1>2 DEF Patched, Objects

\* Every operation on the MCP keeps its types.
LEMMA MCPOperations ==
    ASSUME MCPTypeOK, UNCHANGED platformSecrets, NEW ns \in Namespaces
    PROVE  /\ MCPUntouched => MCPTypeOK'
           /\ CreateNamespace(ns) => MCPTypeOK'
           /\ \A n \in SecretNames \cup {CollectorSecret}, d \in MaybeData :
                CopyPullSecret(ns, n, d) => MCPTypeOK'
           /\ \A d \in Deployments : ReconcileDeployment(ns, d) => MCPTypeOK'
           /\ ReconcileService(ns) => MCPTypeOK'
           /\ DeleteDeployment(ns) => MCPTypeOK'
           /\ DeleteService(ns) => MCPTypeOK'
<1>1. NoDeployment \in Deployments
  <2>1. Nil \in Values /\ NoData \in Hashes /\ <<>> \in Seq(SecretNames)
    BY DEF Values, Fields, BuiltIn, Hashes
  <2> QED
    BY <2>1 DEF NoDeployment, Deployments, Owners
<1>2. MCPUntouched => MCPTypeOK'
  BY DEF MCPUntouched, MCPTypeOK
<1>3. CreateNamespace(ns) => MCPTypeOK'
  BY DEF CreateNamespace, MCPTypeOK
<1>4. ASSUME NEW n \in SecretNames \cup {CollectorSecret}, NEW d \in MaybeData,
             CopyPullSecret(ns, n, d)
      PROVE  MCPTypeOK'
  BY <1>4 DEF CopyPullSecret, MCPTypeOK
<1>5. ASSUME NEW d \in Deployments, ReconcileDeployment(ns, d) PROVE MCPTypeOK'
  BY <1>5 DEF ReconcileDeployment, MCPTypeOK
<1>6. ReconcileService(ns) => MCPTypeOK'
  BY DEF ReconcileService, MCPTypeOK, Owners
<1>7. DeleteDeployment(ns) => MCPTypeOK'
  BY <1>1 DEF DeleteDeployment, MCPTypeOK
<1>8. DeleteService(ns) => MCPTypeOK'
  BY DEF DeleteService, MCPTypeOK, Owners
<1> QED
  BY <1>2, <1>3, <1>4, <1>5, <1>6, <1>7, <1>8

\* So do the operations on access requests.
LEMMA AccessOperations ==
    ASSUME AccessTypeOK
    PROVE  /\ EnsureAccess => AccessTypeOK'
           /\ ReleaseAccess => AccessTypeOK'
           /\ UNCHANGED access => AccessTypeOK'
           /\ \A r \in Requests :
                AccessGranted(r) \/ AccessGone(r) \/ AccessRevoked(r) => AccessTypeOK'
<1>1. "mcp" \in Requests
  BY DEF Requests
<1>2. EnsureAccess => AccessTypeOK'
  BY <1>1 DEF EnsureAccess, AccessTypeOK
<1>3. ReleaseAccess => AccessTypeOK'
  BY DEF ReleaseAccess, AccessTypeOK
<1>4. UNCHANGED access => AccessTypeOK'
  BY DEF AccessTypeOK
<1>5. ASSUME NEW r \in Requests, AccessGranted(r) \/ AccessGone(r) \/ AccessRevoked(r)
      PROVE  AccessTypeOK'
  BY <1>5 DEF AccessTypeOK, AccessGranted, AccessGone, AccessRevoked
<1> QED
  BY <1>2, <1>3, <1>4, <1>5

(***************************************************************************)
(* The actions keep the typing invariant.                                  *)
(***************************************************************************)

\* The steps of the generic loop.
LEMMA GenericTypes ==
    ASSUME TypeInv, NEW i \in Instances, GenericStep(i)
    PROVE  WorkerInv' /\ ObjectInv' /\ AccessTypeOK'
<1> USE DEF TypeInv
<1>j. job[i] \in Jobs /\ job[i].obj \in Objects /\ job[i].cfg \in Configs \cup {NoConfig}
  BY DEF WorkerInv, Jobs
<1>o. obj \in Objects /\ (obj.life # "absent" => obj.spec \in Specs)
  BY DEF ObjectInv
<1>r. pc[i] \notin {"idle", "status"} => job[i].cfg \in Configs /\ job[i].obj.spec \in Specs
  BY DEF WorkerInv, WorkerReady
<1>l. Loaded(i) \in Jobs /\ Loaded(i).cfg = cached[i] /\ Loaded(i).obj = obj
  <2>1. obj.status \in Status /\ cached[i] \in Configs \cup {NoConfig} /\ NoJob \in Jobs
    BY <1>o, EmptyTypes DEF Objects, WorkerInv
  <2> QED
    BY <1>o, <2>1 DEF Loaded, Jobs
<1>1. CASE ObjectGone(i)
  <2>1. WorkerInv'
    BY <1>1, SameWorker DEF ObjectGone
  <2> QED
    BY <1>1, <2>1, AccessOperations DEF ObjectGone, ObjectInv
<1>2. CASE BeginWithoutConfig(i)
  <2>1. [Loaded(i) EXCEPT !.obj = StatusProgressing(obj, "NoProviderConfig"), !.result = "error"] \in Jobs
    <3>1. StatusProgressing(obj, "NoProviderConfig") \in Objects
      BY <1>o, SetterTypes DEF Whys
    <3> QED
      BY <3>1, <1>l DEF Jobs
  <2>2. "status" \in Pcs
    BY DEF Pcs
  <2>3. WorkerInv'
    BY <1>2, <2>1, <2>2, GotoWorker DEF BeginWithoutConfig
  <2> QED
    BY <1>2, <2>3, AccessOperations DEF BeginWithoutConfig, GetObject, ObjectInv
<1>3. CASE Begin(i)
  <2>1. "check" \in Pcs /\ "finalizer" \in Pcs
    BY DEF Pcs
  <2>2. Loaded(i).cfg \in Configs /\ Loaded(i).obj.spec \in Specs
    BY <1>3, <1>l, <1>o DEF Begin, GetObject, WorkerInv
  <2>3. WorkerInv'
    BY <1>3, <1>l, <2>1, <2>2, GotoWorker DEF Begin
  <2> QED
    BY <1>3, <2>3, AccessOperations DEF Begin, GetObject, ObjectInv
<1>4. CASE AddFinalizer(i)
  <2> DEFINE o == [obj EXCEPT !.fin = TRUE]
             j == [job[i] EXCEPT !.obj = o, !.moved = o # obj \/ i \notin fresh]
  <2>1. o \in Objects /\ o.spec = obj.spec /\ o.spec \in Specs
    BY <1>4, <1>o DEF Objects, AddFinalizer
  <2>2. j \in Jobs /\ j.cfg = job[i].cfg /\ j.obj = o
    BY <1>j, <2>1 DEF Jobs
  <2>3. "access" \in Pcs /\ Goto(i, "access", j)
    BY <1>4 DEF Pcs, AddFinalizer
  <2>4. j.cfg \in Configs
    BY <1>4, <1>r, <2>2 DEF AddFinalizer
  <2>5. WorkerInv'
    BY <2>1, <2>2, <2>3, <2>4, GotoWorker
  <2>6. ObjectInv'
    <3>1. CASE o # obj
      BY <3>1, <1>4, <2>1, StoreObject DEF AddFinalizer
    <3>2. CASE o = obj
      BY <3>2, <1>4 DEF AddFinalizer, ObjectInv
    <3> QED
      BY <3>1, <3>2
  <2> QED
    BY <1>4, <2>5, <2>6, AccessOperations DEF AddFinalizer
<1>5. CASE AddFinalizerGone(i)
  BY <1>5, FailWorker, AccessOperations DEF AddFinalizerGone, ObjectInv
<1>6. CASE AccessReady(i)
  <2>0. job[i].cfg \in Configs /\ job[i].obj.spec \in Specs
    BY <1>6, <1>r DEF AccessReady
  <2>1. ASSUME job[i].del PROVE WorkerInv'
    <3> DEFINE j == [job[i] EXCEPT !.obj = StatusTerminating(@)]
    <3>1. j \in Jobs /\ j.cfg = job[i].cfg /\ j.obj.spec = job[i].obj.spec
      BY <1>j, SetterTypes DEF Jobs
    <3>2. "deleteDeployment" \in Pcs /\ Goto(i, "deleteDeployment", j)
      BY <1>6, <2>1 DEF Pcs, DeletePcs, AccessReady
    <3> QED
      BY <2>0, <3>1, <3>2, GotoWorker
  <2>2. ASSUME ~job[i].del PROVE WorkerInv'
    <3> DEFINE j == [job[i] EXCEPT !.obj = StatusProgressing(@, "InProgress"),
                                   !.pull = job[i].cfg.pullSecrets]
    <3>1. StatusProgressing(job[i].obj, "InProgress") \in Objects
          /\ StatusProgressing(job[i].obj, "InProgress").spec = job[i].obj.spec
      BY <1>j, SetterTypes DEF Whys
    <3>2. job[i].cfg.pullSecrets \in Seq(SecretNames)
      BY <2>0, ApiAssumption DEF ProviderConfigs
    <3>3. j \in Jobs /\ j.cfg = job[i].cfg /\ j.obj.spec = job[i].obj.spec
      BY <1>j, <3>1, <3>2 DEF Jobs
    <3>4. "namespace" \in Pcs /\ Goto(i, "namespace", j)
      BY <1>6, <2>2 DEF Pcs, CreatePcs, AccessReady
    <3> QED
      BY <2>0, <3>3, <3>4, GotoWorker
  <2> QED
    BY <1>6, <2>1, <2>2, AccessOperations DEF AccessReady, ObjectInv
<1>7. CASE AccessPending(i)
  <2>1. CASE job[i].del
    BY <1>7, <2>1, FinishWorker, AccessOperations DEF AccessPending, ObjectInv
  <2>2. CASE ~job[i].del
    <3> DEFINE j == [job[i] EXCEPT !.obj = StatusProgressing(@, "SettingUpAccess"),
                                   !.result = "requeue"]
    <3>1. StatusProgressing(job[i].obj, "SettingUpAccess") \in Objects
      BY <1>j, SetterTypes DEF Whys
    <3>2. j \in Jobs
      BY <1>j, <3>1 DEF Jobs
    <3>3. "status" \in Pcs /\ Goto(i, "status", j)
      BY <1>7, <2>2 DEF Pcs, AccessPending
    <3>4. WorkerInv'
      BY <3>2, <3>3, GotoWorker
    <3> QED
      BY <1>7, <2>2, <3>4, AccessOperations DEF AccessPending, ObjectInv
  <2> QED
    BY <2>1, <2>2
<1>8. CASE WriteStatus(i)
  <2>1. PICK t \in PatchTimes(i) :
           IF PatchLands(i, t) /\ PatchMoves(i, t) THEN Store(Patched(i, t), {})
           ELSE fresh' = fresh \ {i} /\ UNCHANGED <<obj, queued>>
    BY <1>8 DEF WriteStatus
  <2>2. t \in BOOLEAN
    BY DEF PatchTimes
  <2>3. ObjectInv'
    <3>1. CASE PatchLands(i, t) /\ PatchMoves(i, t)
      BY <3>1, <2>1, <2>2, <1>o, PatchedType, StoreObject DEF PatchLands
    <3>2. CASE ~(PatchLands(i, t) /\ PatchMoves(i, t))
      BY <3>2, <2>1 DEF ObjectInv
    <3> QED
      BY <3>1, <3>2
  <2> QED
    BY <1>8, <2>3, FinishWorker, AccessOperations DEF WriteStatus
<1>9. CASE CheckAccess(i)
  <2>0. job[i].cfg \in Configs /\ job[i].obj.spec \in Specs
    BY <1>9, <1>r DEF CheckAccess
  <2>1. "release" \in Pcs /\ "access" \in Pcs
    BY DEF Pcs
  <2>2. WorkerInv'
    BY <1>9, <1>j, <2>0, <2>1, GotoWorker DEF CheckAccess
  <2> QED
    BY <1>9, <2>2, AccessOperations DEF CheckAccess, ObjectInv
<1>10. CASE WriteTerminating(i)
  <2> DEFINE o == Patched(i, FALSE)
             lands == PatchLands(i, FALSE)
             j == IF lands THEN [job[i] EXCEPT !.obj = o] ELSE job[i]
  <2>0. job[i].cfg \in Configs /\ job[i].obj.spec \in Specs
    BY <1>10, <1>r DEF WriteTerminating
  <2>1. o \in Objects /\ o.spec = obj.spec /\ o.life = obj.life
    BY PatchedType
  <2>2. lands => obj.life # "absent"
    BY DEF PatchLands
  <2>3. j \in Jobs /\ j.cfg = job[i].cfg /\ j.obj.spec \in Specs
    BY <1>j, <1>o, <2>0, <2>1, <2>2 DEF Jobs
  <2>4. ObjectInv'
    <3>1. CASE lands /\ PatchMoves(i, FALSE)
      BY <3>1, <1>10, <1>o, <2>1, StoreObject DEF WriteTerminating, TerminatingStored
    <3>3. CASE lands /\ ~PatchMoves(i, FALSE)
      BY <3>3, <1>10 DEF WriteTerminating, TerminatingStored, ObjectInv
    <3>2. CASE ~lands
      BY <3>2, <1>10 DEF WriteTerminating, ObjectInv
    <3> QED
      BY <3>1, <3>2, <3>3
  <2>5. WorkerInv'
    <3>1. CASE job[i].result = "error"
      BY <3>1, <1>10, FinishWorker DEF WriteTerminating
    <3>2. CASE job[i].result # "error"
      <4>1. "release" \in Pcs /\ Goto(i, "release", j)
        BY <1>10, <3>2 DEF Pcs, WriteTerminating
      <4> QED
        BY <4>1, <2>0, <2>3, GotoWorker
    <3> QED
      BY <3>1, <3>2
  <2> QED
    BY <1>10, <2>4, <2>5, AccessOperations DEF WriteTerminating
<1>11. CASE Release(i)
  <2>0. job[i].cfg \in Configs /\ job[i].obj.spec \in Specs /\ "drop" \in Pcs
    BY <1>11, <1>r DEF Release, Pcs
  <2>1. CASE AllAbsent
    <3>1. Goto(i, "drop", job[i])
      BY <1>11, <2>1 DEF Release
    <3>2. WorkerInv'
      BY <3>1, <2>0, <1>j, GotoWorker
    <3> QED
      BY <1>11, <2>1, <3>2, AccessOperations DEF Release, ObjectInv
  <2>2. CASE ~AllAbsent
    BY <1>11, <2>2, FinishWorker, AccessOperations DEF Release, ObjectInv
  <2> QED
    BY <2>1, <2>2
<1>12. CASE Drop(i)
  <2>1. NoObject.life = "absent" /\ NoObject \in Objects
    BY EmptyTypes DEF NoObject
  <2>2. ObjectInv'
    <3>1. CASE i \in fresh
      BY <3>1, <1>12, <2>1, StoreObject DEF Drop
    <3>2. CASE i \notin fresh
      BY <3>2, <1>12 DEF Drop, ObjectInv
    <3> QED
      BY <3>1, <3>2
  <2> QED
    BY <1>12, <2>2, FinishWorker, AccessOperations DEF Drop
<1> QED
  BY <1>1, <1>2, <1>3, <1>4, <1>5, <1>6, <1>7, <1>8, <1>9, <1>10, <1>11, <1>12 DEF GenericStep

\* The steps of the domain.
LEMMA DomainTypes ==
    ASSUME TypeInv, NEW i \in Instances, DomainStep(i), UNCHANGED platformSecrets
    PROVE  WorkerInv' /\ ObjectInv' /\ AccessTypeOK' /\ MCPTypeOK'
<1> USE DEF TypeInv
<1>j. job[i] \in Jobs /\ job[i].obj \in Objects /\ job[i].pull \in Seq(SecretNames)
      /\ job[i].src \in MaybeData /\ job[i].conf \in MaybeData /\ job[i].hash \in Hashes
  BY DEF WorkerInv, Jobs
<1>p. pc[i] \in CreatePcs \cup DeletePcs
  BY DEF DomainStep, EnsureNamespace, ReadPullSecret, WritePullSecret, ReadConfigMap, ReadSecret,
         WriteDeployment, WriteService, RemoveDeployment, RemoveService, CreatePcs, DeletePcs
<1>r. job[i].cfg \in Configs /\ job[i].obj.spec \in Specs /\ Target(i) \in Namespaces
  BY <1>p, TargetType DEF WorkerInv, WorkerReady, CreatePcs, DeletePcs
<1>l. UNCHANGED <<obj, fresh, queued, access>>
  BY DEF DomainStep, EnsureNamespace, ReadPullSecret, WritePullSecret, ReadConfigMap, ReadSecret,
         WriteDeployment, WriteService, RemoveDeployment, RemoveService, Local
<1>s. ObjectInv' /\ AccessTypeOK'
  BY <1>l, AccessOperations DEF ObjectInv
<1>u. \A label \in {"readPull", "writePull", "configMap", "secret", "deployment", "service",
                    "status", "deleteService", "terminating"} : label \in Pcs
  BY DEF Pcs, CreatePcs, DeletePcs
<1>1. CASE EnsureNamespace(i)
  <2>1. Goto(i, AfterPull(job[i].pull), job[i]) /\ CreateNamespace(Target(i))
    BY <1>1 DEF EnsureNamespace
  <2>2. AfterPull(job[i].pull) \in {"configMap", "readPull"}
        /\ (AfterPull(job[i].pull) = "readPull" => job[i].pull # <<>>)
    BY DEF AfterPull
  <2>3. WorkerInv'
    BY <2>1, <2>2, <1>j, <1>r, <1>u, GotoWorker
  <2> QED
    BY <2>1, <2>3, <1>r, <1>s, MCPOperations
<1>2. CASE ReadPullSecret(i)
  <2> DEFINE data == platformSecrets[Head(job[i].pull)]
             j == [job[i] EXCEPT !.src = data]
  <2>1. job[i].pull # <<>>
    BY <1>2 DEF ReadPullSecret, WorkerInv, WorkerReady
  <2>2. data \in MaybeData
    BY <1>j, <2>1 DEF MCPTypeOK
  <2>3. j \in Jobs /\ j.cfg = job[i].cfg /\ j.obj = job[i].obj /\ j.pull = job[i].pull
    BY <1>j, <2>2 DEF Jobs
  <2>4. WorkerInv'
    <3>1. CASE data = NoData
      BY <3>1, <1>2, FailWorker DEF ReadPullSecret
    <3>2. CASE data # NoData
      <4>1. Goto(i, "writePull", j)
        BY <3>2, <1>2 DEF ReadPullSecret
      <4> QED
        BY <4>1, <2>1, <2>3, <1>r, <1>u, GotoWorker
    <3> QED
      BY <3>1, <3>2
  <2> QED
    BY <1>2, <2>4, <1>r, <1>s, MCPOperations DEF ReadPullSecret
<1>3. CASE WritePullSecret(i)
  <2> DEFINE rest == Tail(job[i].pull)
             j == [job[i] EXCEPT !.pull = rest, !.src = NoData]
  <2>1. job[i].pull # <<>>
    BY <1>3 DEF WritePullSecret, WorkerInv, WorkerReady
  <2>2. rest \in Seq(SecretNames) /\ Head(job[i].pull) \in SecretNames
    BY <1>j, <2>1
  <2>3. j \in Jobs /\ j.cfg = job[i].cfg /\ j.obj = job[i].obj /\ j.pull = rest
    BY <1>j, <2>2 DEF Jobs, MaybeData
  <2>4. Goto(i, AfterPull(rest), j) /\ CopyPullSecret(Target(i), Head(job[i].pull), job[i].src)
    BY <1>3 DEF WritePullSecret
  <2>5. AfterPull(rest) \in {"configMap", "readPull"}
        /\ (AfterPull(rest) = "readPull" => rest # <<>>)
    BY DEF AfterPull
  <2>6. WorkerInv'
    BY <2>3, <2>4, <2>5, <1>r, <1>u, GotoWorker
  <2> QED
    BY <2>2, <2>4, <2>6, <1>j, <1>r, <1>s, MCPOperations
<1>4. CASE ReadConfigMap(i)
  <2> DEFINE j == [job[i] EXCEPT !.conf = configMap[Target(i)]]
  <2>1. configMap[Target(i)] \in MaybeData
    BY <1>r DEF MCPTypeOK
  <2>2. j \in Jobs /\ j.cfg = job[i].cfg /\ j.obj = job[i].obj
    BY <1>j, <2>1 DEF Jobs
  <2>3. Goto(i, "secret", j) /\ MCPUntouched
    BY <1>4 DEF ReadConfigMap
  <2>4. WorkerInv'
    BY <2>2, <2>3, <1>r, <1>u, GotoWorker
  <2> QED
    BY <2>3, <2>4, <1>r, <1>s, MCPOperations
<1>5. CASE ReadSecret(i)
  <2> DEFINE s == secrets[Target(i)][CollectorSecret]
             c == job[i].conf
             ready == [job[i] EXCEPT !.hash = ConfigHashOf(c, s), !.conf = NoData]
             waits == [job[i] EXCEPT !.obj = StatusProgressing(@, Missing(c, s)),
                                     !.result = "requeue"]
  <2>1. s \in MaybeData
    BY <1>r DEF MCPTypeOK
  <2>2. MCPUntouched
    BY <1>5 DEF ReadSecret
  <2>3. WorkerInv'
    <3>1. CASE c # NoData /\ s # NoData
      <4>1. ConfigHashOf(c, s) \in Hashes /\ NoData \in MaybeData
        BY <3>1, <2>1, <1>j DEF Hashes, MaybeData
      <4>2. ready \in Jobs /\ ready.cfg = job[i].cfg /\ ready.obj = job[i].obj
        BY <1>j, <4>1 DEF Jobs
      <4>3. Goto(i, "deployment", ready)
        BY <3>1, <1>5 DEF ReadSecret
      <4> QED
        BY <4>2, <4>3, <1>r, <1>u, GotoWorker
    <3>2. CASE ~(c # NoData /\ s # NoData)
      <4>1. Missing(c, s) \in Whys
        BY DEF Missing, Whys
      <4>2. StatusProgressing(job[i].obj, Missing(c, s)) \in Objects
        BY <4>1, <1>j, SetterTypes
      <4>3. waits \in Jobs
        BY <1>j, <4>2 DEF Jobs
      <4>4. Goto(i, "status", waits)
        BY <3>2, <1>5 DEF ReadSecret
      <4> QED
        BY <4>3, <4>4, <1>u, GotoWorker
    <3> QED
      BY <3>1, <3>2
  <2> QED
    BY <2>2, <2>3, <1>r, <1>s, MCPOperations
<1>6. CASE WriteDeployment(i)
  <2> DEFINE d == DesiredDeployment(job[i].obj.spec, job[i].cfg, job[i].hash)
  <2>1. d \in Deployments
    BY <1>j, <1>r, DesiredDeploymentType
  <2>2. ReconcileDeployment(Target(i), d) /\ Goto(i, "service", job[i])
    BY <1>6 DEF WriteDeployment
  <2>3. WorkerInv'
    BY <2>2, <1>j, <1>r, <1>u, GotoWorker
  <2> QED
    BY <2>1, <2>2, <2>3, <1>r, <1>s, MCPOperations
<1>7. CASE WriteService(i)
  <2> DEFINE j == [job[i] EXCEPT !.obj = StatusReady(@)]
  <2>1. j \in Jobs
    BY <1>j, SetterTypes DEF Jobs
  <2>2. ReconcileService(Target(i)) /\ Goto(i, "status", j)
    BY <1>7 DEF WriteService
  <2>3. WorkerInv'
    BY <2>1, <2>2, <1>u, GotoWorker
  <2> QED
    BY <2>2, <2>3, <1>r, <1>s, MCPOperations
<1>8. CASE RemoveDeployment(i)
  <2>1. DeleteDeployment(Target(i)) /\ Goto(i, "deleteService", job[i])
    BY <1>8 DEF RemoveDeployment
  <2>2. WorkerInv'
    BY <2>1, <1>j, <1>r, <1>u, GotoWorker
  <2> QED
    BY <2>1, <2>2, <1>r, <1>s, MCPOperations
<1>9. CASE RemoveService(i)
  <2>1. DeleteService(Target(i)) /\ Goto(i, "terminating", job[i])
    BY <1>9 DEF RemoveService
  <2>2. WorkerInv'
    BY <2>1, <1>j, <1>r, <1>u, GotoWorker
  <2> QED
    BY <2>1, <2>2, <1>r, <1>s, MCPOperations
<1> QED
  BY <1>1, <1>2, <1>3, <1>4, <1>5, <1>6, <1>7, <1>8, <1>9 DEF DomainStep

\* Calls that fail.
LEMMA FaultTypes ==
    ASSUME TypeInv, NEW i \in Instances, CallFails(i)
    PROVE  WorkerInv' /\ ObjectInv' /\ AccessTypeOK'
<1> USE DEF TypeInv
<1>j. job[i] \in Jobs /\ job[i].obj \in Objects
  BY DEF WorkerInv, Jobs
<1>s. ObjectInv' /\ AccessTypeOK'
  BY AccessOperations DEF ObjectInv, CallFails, GetFails, CreateOrUpdateFails, AccessFails,
     DeleteFails, DomainDeleteFails, PatchLost, TerminatingPatchLost
<1>1. CASE GetFails(i)
  BY <1>1, <1>s DEF GetFails, WorkerInv, WorkerReady
<1>2. CASE CreateOrUpdateFails(i)
  BY <1>2, <1>s, FailWorker DEF CreateOrUpdateFails
<1>3. CASE AccessFails(i)
  <2> DEFINE j == [job[i] EXCEPT !.obj = StatusProgressing(@, "ClusterAccessError"),
                                 !.result = "error"]
  <2>1. StatusProgressing(job[i].obj, "ClusterAccessError") \in Objects
    BY <1>j, SetterTypes DEF Whys
  <2>2. j \in Jobs
    BY <1>j, <2>1 DEF Jobs
  <2>3. "status" \in Pcs /\ Goto(i, "status", j)
    BY <1>3 DEF Pcs, AccessFails
  <2> QED
    BY <2>2, <2>3, <1>s, GotoWorker
<1>4. CASE DeleteFails(i)
  BY <1>4, <1>s, FinishWorker DEF DeleteFails
<1>5. CASE DomainDeleteFails(i)
  <2> DEFINE j == [job[i] EXCEPT !.result = "error"]
  <2>1. job[i].cfg \in Configs /\ job[i].obj.spec \in Specs
    BY <1>5 DEF DomainDeleteFails, DeletePcs, WorkerInv, WorkerReady
  <2>2. j \in Jobs /\ j.cfg = job[i].cfg /\ j.obj = job[i].obj
    BY <1>j DEF Jobs
  <2>3. "terminating" \in Pcs /\ Goto(i, "terminating", j)
    BY <1>5 DEF Pcs, DomainDeleteFails
  <2> QED
    BY <2>1, <2>2, <2>3, <1>s, GotoWorker
<1>6. CASE PatchLost(i)
  BY <1>6, <1>s, FinishWorker DEF PatchLost
<1>7. CASE TerminatingPatchLost(i)
  <2>1. CASE job[i].result = "error"
    BY <2>1, <1>7, <1>s, FinishWorker DEF TerminatingPatchLost
  <2>2. CASE job[i].result # "error"
    <3>1. job[i].cfg \in Configs /\ job[i].obj.spec \in Specs
      BY <1>7 DEF TerminatingPatchLost, WorkerInv, WorkerReady
    <3>2. "release" \in Pcs /\ Goto(i, "release", job[i])
      BY <2>2, <1>7 DEF Pcs, TerminatingPatchLost
    <3> QED
      BY <3>1, <3>2, <1>j, <1>s, GotoWorker
  <2> QED
    BY <2>1, <2>2
<1> QED
  BY <1>1, <1>2, <1>3, <1>4, <1>5, <1>6, <1>7 DEF CallFails

\* What users of the MCP do to it.
LEMMA ControlPlaneUserTypes ==
    ASSUME MCPTypeOK, ControlPlaneUser
    PROVE  MCPTypeOK'
<1> USE DEF ControlPlaneUser, Untouched
<1>n. namespaces \subseteq Namespaces /\ collector \in [Namespaces -> Deployments]
  BY DEF MCPTypeOK
<1>1. CASE UserMakesNamespace
  BY <1>1, MCPOperations DEF UserMakesNamespace
<1>2. CASE UserWritesConfigMap
  BY <1>2 DEF UserWritesConfigMap, MCPTypeOK
<1>3. CASE UserWritesSecret
  BY <1>3, <1>n, MCPOperations DEF UserWritesSecret
<1>4. CASE UserEditsDeployment
  <2>1. PICK ns \in namespaces, v \in Settings :
          ReconcileDeployment(ns, [collector[ns] EXCEPT !.version = v])
    BY <1>4 DEF UserEditsDeployment
  <2>2. v \in Values /\ collector[ns] \in Deployments
    BY <1>n DEF Values
  <2>3. [collector[ns] EXCEPT !.version = v] \in Deployments
    BY <2>2 DEF Deployments
  <2> QED
    BY <2>1, <2>3, <1>n, MCPOperations
<1>5. CASE UserRemovesDeployment
  BY <1>5, <1>n, MCPOperations DEF UserRemovesDeployment
<1>6. CASE UserRemovesService
  BY <1>6, <1>n, MCPOperations DEF UserRemovesService
<1>7. CASE UserMakesDeployment
  <2>1. PICK ns \in namespaces :
          ReconcileDeployment(ns, [NoDeployment EXCEPT !.owner = "user"])
    BY <1>7 DEF UserMakesDeployment
  <2>2. [NoDeployment EXCEPT !.owner = "user"] \in Deployments
    <3>1. Nil \in Values /\ NoData \in Hashes /\ <<>> \in Seq(SecretNames)
      BY DEF Values, Fields, BuiltIn, Hashes
    <3> QED
      BY <3>1 DEF NoDeployment, Deployments, Owners
  <2> QED
    BY <2>1, <2>2, <1>n, MCPOperations
<1>8. CASE UserMakesService
  BY <1>8 DEF UserMakesService, MCPTypeOK, Owners
<1> QED
  BY <1>1, <1>2, <1>3, <1>4, <1>5, <1>6, <1>7, <1>8

\* The users of the onboarding API.
LEMMA UserTypes ==
    ASSUME ObjectInv, WorkerInv, User
    PROVE  ObjectInv' /\ WorkerInv'
<1> USE DEF User
<1>n. NoObject \in Objects /\ NoObject.life = "absent"
  BY EmptyTypes DEF NoObject
<1>o. obj \in Objects /\ obj.gen + 1 \in Nat /\ (obj.life # "absent" => obj.spec \in Specs)
  BY DEF ObjectInv, Objects
<1>1. CASE CreateObject
  <2>1. PICK s \in Specs : Store(NewObject(s), {})
    BY <1>1 DEF CreateObject
  <2>2. NewObject(s) \in Objects /\ NewObject(s).spec = s
    BY <1>n DEF NewObject, Objects, NoObject
  <2> QED
    BY <1>1, <2>1, <2>2, StoreObject, SameWorker DEF CreateObject
<1>2. CASE EditObject
  <2>1. PICK s \in Specs : Store([obj EXCEPT !.spec = s, !.gen = @ + 1], {})
    BY <1>2 DEF EditObject
  <2> DEFINE o == [obj EXCEPT !.spec = s, !.gen = @ + 1]
  <2>2. o \in Objects /\ o.spec = s
    BY <1>o DEF Objects
  <2>3. ObjectInv'
    <3>1. Store(o, {}) /\ {} \in SUBSET Instances
      BY <2>1
    <3> HIDE DEF o
    <3> QED
      BY <3>1, <2>2, StoreObject
  <2> QED
    BY <1>2, <2>3, SameWorker DEF EditObject
<1>3. CASE DeleteObject
  <2> DEFINE o == [obj EXCEPT !.life = "deleting", !.gen = @ + 1]
  <2>1. o \in Objects /\ o.spec = obj.spec /\ obj.spec \in Specs
    BY <1>3, <1>o DEF Objects, DeleteObject
  <2>2. Store(IF obj.fin THEN o ELSE NoObject, {})
    BY <1>3 DEF DeleteObject
  <2>3. ObjectInv'
    <3>1. {} \in SUBSET Instances
      OBVIOUS
    <3> HIDE DEF o
    <3> QED
      BY <3>1, <2>1, <2>2, <1>n, StoreObject
  <2> QED
    BY <1>3, <2>3, SameWorker DEF DeleteObject
<1> QED
  BY <1>1, <1>2, <1>3

\* Timers, caches and crashes.
LEMMA ProcessTypes ==
    ASSUME ObjectInv, WorkerInv, NEW i \in Instances
    PROVE  /\ TimerFires(i) => ObjectInv' /\ WorkerInv'
           /\ \A c \in Configs \cup {NoConfig} : StoreConfig(i, c) => ObjectInv' /\ WorkerInv'
           /\ Restart(i) => ObjectInv' /\ WorkerInv'
<1>1. ASSUME TimerFires(i) PROVE ObjectInv' /\ WorkerInv'
  BY <1>1 DEF TimerFires, ObjectInv, WorkerInv, WorkerReady
<1>2. ASSUME NEW c \in Configs \cup {NoConfig}, StoreConfig(i, c) PROVE ObjectInv' /\ WorkerInv'
  BY <1>2 DEF StoreConfig, ObjectInv, WorkerInv, WorkerReady
<1>3. ASSUME Restart(i) PROVE ObjectInv' /\ WorkerInv'
  <2>1. "idle" \in Pcs /\ NoJob \in Jobs
    BY EmptyTypes DEF Pcs
  <2>2. ObjectInv'
    BY <1>3 DEF Restart, ObjectInv
  <2>3. /\ pc' \in [Instances -> Pcs] /\ job' \in [Instances -> Jobs]
        /\ timer' \subseteq Instances /\ cached' \in [Instances -> Configs \cup {NoConfig}]
    BY <1>3, <2>1 DEF Restart, WorkerInv
  <2>4. ASSUME NEW k \in Instances PROVE WorkerReady(k)'
    BY <1>3 DEF Restart, WorkerInv, WorkerReady
  <2> QED
    BY <2>2, <2>3, <2>4 DEF WorkerInv
<1> QED
  BY <1>1, <1>2, <1>3

\* The initial states have the types.
LEMMA InitTypes == Init => TypeInv
<1> SUFFICES ASSUME Init PROVE TypeInv
  OBVIOUS
<1> USE DEF Init
<1>1. WorkerInv
  BY EmptyTypes DEF SPInit, WorkerInv, WorkerReady, Pcs
<1>2. ObjectInv
  <2>1. ASSUME NEW s \in Specs
        PROVE  NewObject(s) \in Objects /\ NewObject(s).spec = s /\ NewObject(s).life = "live"
    BY EmptyTypes DEF NewObject, Objects, NoObject
  <2>2. NoObject.life = "absent"
    BY DEF NoObject
  <2> QED
    BY <2>1, <2>2, EmptyTypes DEF SPInit, ObjectInv
<1>3. AccessTypeOK
  BY DEF AccessInit, AccessTypeOK
<1>4. MCPTypeOK
  <2>1. NoDeployment \in Deployments
    <3>1. Nil \in Values /\ NoData \in Hashes /\ <<>> \in Seq(SecretNames)
      BY DEF Values, Fields, BuiltIn, Hashes
    <3> QED
      BY <3>1 DEF NoDeployment, Deployments, Owners
  <2>2. configMap \in [Namespaces -> MaybeData]
    BY DEF MCPInit, MaybeData
  <2>3. secrets \in [Namespaces -> [SecretNames \cup {CollectorSecret} -> MaybeData]]
    BY <2>2 DEF MCPInit, MaybeData
  <2>4. platformSecrets \in [SecretNames -> MaybeData] /\ namespaces \subseteq Namespaces
    BY DEF MCPInit, MaybeData
  <2> QED
    BY <2>1, <2>2, <2>3, <2>4 DEF MCPInit, MCPTypeOK, Owners
<1>5. EnvInv
  BY DisturbancesAssumption DEF EnvInv
<1> QED
  BY <1>1, <1>2, <1>3, <1>4, <1>5 DEF TypeInv

\* A disturbance uses up some of the budget, other steps none.
LEMMA BudgetTypes ==
    ASSUME budget \in 0 .. MaxEvents
    PROVE  /\ \A kind : Disturb(kind) => budget' \in 0 .. MaxEvents
           /\ UNCHANGED budget => budget' \in 0 .. MaxEvents
BY DisturbancesAssumption DEF Disturb

\* Every step keeps the typing invariant.
LEMMA NextTypes == TypeInv /\ [Next]_vars => TypeInv'
<1> SUFFICES ASSUME TypeInv, [Next]_vars PROVE TypeInv'
  OBVIOUS
<1> USE DEF TypeInv
<1>b. budget \in 0 .. MaxEvents /\ config \in Configs \cup {NoConfig} /\ notify \subseteq Instances
  BY DEF EnvInv
<1>n. (UNCHANGED <<access, spVars>> => AccessTypeOK' /\ ObjectInv' /\ WorkerInv')
      /\ (UNCHANGED spVars => ObjectInv' /\ WorkerInv')
  BY SameWorker, AccessOperations DEF spVars, ObjectInv
<1>m. UNCHANGED platformSecrets /\ MCPUntouched => MCPTypeOK'
  BY DEF MCPUntouched, MCPTypeOK
<1>1. ASSUME NEW i \in Instances, Worker(i) PROVE TypeInv'
  <2>1. EnvInv'
    BY <1>1, <1>b DEF Worker, Untouched, EnvInv
  <2>2. CASE DomainStep(i)
    BY <1>1, <2>1, <2>2, DomainTypes DEF Worker, Untouched
  <2>3. CASE GenericStep(i) /\ MCPUntouched
    BY <1>1, <2>1, <2>3, <1>m, GenericTypes DEF Worker, Untouched
  <2> QED
    BY <1>1, <2>2, <2>3 DEF Worker, WorkerStep
<1>2. ASSUME NEW i \in Instances, Fault(i) PROVE TypeInv'
  <2>1. EnvInv'
    BY <1>2, <1>b, BudgetTypes DEF Fault, Untouched, EnvInv
  <2> QED
    BY <1>2, <2>1, <1>m, FaultTypes DEF Fault, Untouched
<1>3. ASSUME NEW i \in Instances, Timer(i) PROVE TypeInv'
  <2>1. EnvInv'
    BY <1>3, <1>b DEF Timer, Untouched, EnvInv
  <2> QED
    BY <1>3, <2>1, <1>m, ProcessTypes, AccessOperations DEF Timer, Untouched
<1>4. ASSUME NEW i \in Instances, DeliverConfig(i) PROVE TypeInv'
  <2>1. EnvInv'
    BY <1>4, <1>b DEF DeliverConfig, EnvInv
  <2> QED
    BY <1>4, <1>b, <2>1, <1>m, ProcessTypes, AccessOperations DEF DeliverConfig
<1>5. ASSUME NEW i \in Instances, MissConfig(i) PROVE TypeInv'
  <2>1. EnvInv'
    BY <1>5, <1>b, BudgetTypes DEF MissConfig, EnvInv
  <2> QED
    BY <1>5, <2>1, <1>m, ProcessTypes, AccessOperations DEF MissConfig
<1>6. ASSUME NEW i \in Instances, Crash(i) PROVE TypeInv'
  <2>1. EnvInv'
    BY <1>6, <1>b, BudgetTypes DEF Crash, EnvInv
  <2> QED
    BY <1>6, <2>1, <1>m, ProcessTypes, AccessOperations DEF Crash
<1>7. CASE EditConfig
  <2>1. EnvInv'
    BY <1>7, <1>b, BudgetTypes DEF EditConfig, EnvInv
  <2> QED
    BY <1>7, <2>1, <1>n, <1>m DEF EditConfig
<1>8. CASE EditPlatformSecret
  <2>1. EnvInv'
    BY <1>8, <1>b, BudgetTypes DEF EditPlatformSecret, ConfigUntouched, EnvInv
  <2>2. MCPTypeOK'
    BY <1>8 DEF EditPlatformSecret, MCPUntouched, MCPTypeOK
  <2> QED
    BY <1>8, <2>1, <2>2, <1>n DEF EditPlatformSecret
<1>9. CASE Platform
  <2>1. EnvInv'
    BY <1>9, <1>b DEF Platform, Untouched, EnvInv
  <2> QED
    BY <1>9, <2>1, <1>n, <1>m, AccessOperations DEF Platform, Untouched
<1>10. CASE Revoke
  <2>1. EnvInv'
    BY <1>10, <1>b, BudgetTypes DEF Revoke, Untouched, EnvInv
  <2> QED
    BY <1>10, <2>1, <1>n, <1>m, AccessOperations DEF Revoke, Untouched
<1>11. CASE User
  <2>1. EnvInv'
    BY <1>11, <1>b, BudgetTypes DEF User, Untouched, EnvInv
  <2> QED
    BY <1>11, <2>1, <1>m, UserTypes, AccessOperations DEF User, Untouched
<1>12. CASE ControlPlaneUser
  <2>1. EnvInv'
    BY <1>12, <1>b, BudgetTypes DEF ControlPlaneUser, Untouched, EnvInv
  <2> QED
    BY <1>12, <2>1, <1>n, ControlPlaneUserTypes DEF ControlPlaneUser
<1>13. CASE UNCHANGED vars
  <2>1. EnvInv' /\ UNCHANGED <<access, spVars>> /\ MCPUntouched /\ UNCHANGED platformSecrets
    BY <1>13, <1>b DEF vars, mcpVars, MCPUntouched, EnvInv
  <2> QED
    BY <2>1, <1>n, <1>m
<1> QED
  BY <1>1, <1>2, <1>3, <1>4, <1>5, <1>6, <1>7, <1>8, <1>9, <1>10, <1>11, <1>12, <1>13 DEF Next

\* Every reachable state has the types, and every worker past its first steps the
\* config and spec it works with (the nil check of Reconcile, the copies it makes).
THEOREM TypeCorrect == Spec => [](TypeOK /\ JobReady)
<1>1. TypeInv => TypeOK /\ JobReady
  BY TypeInvParts
<1> QED
  BY <1>1, InitTypes, NextTypes, PTL DEF Spec

(***************************************************************************)
(* The finalizer: nobody works for an object without one, and access is    *)
(* held only under it.  It takes one instance of the provider, and nothing *)
(* else: the collector may move, requests may be revoked.                  *)
(***************************************************************************)

OneInstance == \A i, k \in Instances : i = k

GlobalGuarded ==
    /\ obj.life = "absent" => ~obj.fin
    /\ obj.life = "deleting" => obj.fin
    /\ ~obj.fin => AllAbsent

WorkerGuarded(i) ==
    /\ job[i].del => obj.life = "deleting"
    /\ pc[i] \in CreatePcs \cup {"finalizer"} => ~job[i].del
    /\ pc[i] \in DeletePcs \cup {"check", "terminating", "release", "drop"} => job[i].del
    /\ pc[i] \in CreatePcs \cup {"access"} => obj.fin
    /\ pc[i] = "drop" => AllAbsent

Guarded == GlobalGuarded /\ \A i \in Instances : WorkerGuarded(i)

\* The invariants of the runs that it stands for.
LEMMA GuardedParts == Guarded => FinalizerGuards /\ AccessHeldByFinalizer
BY DEF Guarded, GlobalGuarded, WorkerGuarded, FinalizerGuards, AccessHeldByFinalizer

\* With one instance, what a step does to its worker is all there is to check.
LEMMA OneWorkerGuarded ==
    ASSUME OneInstance, NEW i \in Instances, GlobalGuarded', WorkerGuarded(i)'
    PROVE  Guarded'
BY DEF OneInstance, Guarded

\* The job after a step within a reconcile, and after its end.
LEMMA StepEffect ==
    ASSUME WorkerInv, NEW i \in Instances
    PROVE  /\ \A label \in Pcs, j \in Jobs : Goto(i, label, j) => pc'[i] = label /\ job'[i] = j
           /\ \A r : Finish(i, r) => pc'[i] = "idle" /\ job'[i] = NoJob
           /\ Fail(i) => /\ pc'[i] = "status"
                         /\ job'[i] = [job[i] EXCEPT !.result = "error"]
BY DEF WorkerInv, Goto, Finish, Fail

\* With access unchanged the same is granted and absent.
LEMMA SameAccess ==
    ASSUME UNCHANGED access
    PROVE  AllGranted' = AllGranted /\ AllAbsent' = AllAbsent
BY DEF AllGranted, AllAbsent

\* The steps of the generic loop keep it.
LEMMA GenericGuarded ==
    ASSUME TypeInv, Guarded, OneInstance, NEW i \in Instances, GenericStep(i)
    PROVE  Guarded'
<1>w. WorkerInv /\ ObjectInv /\ WorkerGuarded(i) /\ GlobalGuarded
  BY DEF TypeInv, Guarded
<1>j. job[i] \in Jobs /\ obj \in Objects /\ pc \in [Instances -> Pcs] /\ job \in [Instances -> Jobs]
  BY <1>w DEF WorkerInv, ObjectInv
<1>n. NoJob.del = FALSE /\ NoObject.life = "absent" /\ NoObject.fin = FALSE
  BY DEF NoJob, NoObject
<1>l. Loaded(i).del = (obj.life = "deleting")
  BY DEF Loaded, NoJob
<1>s. ASSUME GlobalGuarded', WorkerGuarded(i)' PROVE Guarded'
  BY <1>s, OneWorkerGuarded
<1> USE DEF WorkerGuarded, GlobalGuarded, CreatePcs, DeletePcs
<1>1. CASE ObjectGone(i)
  BY <1>1, <1>w, <1>s, SameAccess DEF ObjectGone
<1>2. CASE BeginWithoutConfig(i)
  <2>1. pc'[i] = "status" /\ job'[i].del = (obj.life = "deleting") /\ UNCHANGED <<obj, access>>
    BY <1>2, <1>j, <1>l DEF BeginWithoutConfig, GetObject, Goto
  <2> QED
    BY <2>1, <1>w, <1>s, SameAccess
<1>3. CASE Begin(i)
  <2>1. /\ pc'[i] = IF obj.life = "deleting" THEN "check" ELSE "finalizer"
        /\ job'[i].del = (obj.life = "deleting") /\ UNCHANGED <<obj, access>>
    BY <1>3, <1>j, <1>l DEF Begin, GetObject, Goto
  <2> QED
    BY <2>1, <1>w, <1>s, SameAccess
<1>4. CASE AddFinalizer(i)
  <2>1. obj' = [obj EXCEPT !.fin = TRUE] /\ UNCHANGED access
    BY <1>4 DEF AddFinalizer, Store
  <2>2. obj'.fin = TRUE /\ obj'.life = obj.life /\ obj.life # "absent"
    BY <2>1, <1>4, <1>j DEF Objects, AddFinalizer
  <2>3. pc'[i] = "access" /\ job'[i].del = job[i].del
    BY <1>4, <1>j DEF AddFinalizer, Goto, Jobs
  <2> QED
    BY <2>1, <2>2, <2>3, <1>4, <1>w, <1>s, SameAccess DEF AddFinalizer
<1>5. CASE AddFinalizerGone(i)
  <2>1. pc'[i] = "status" /\ job'[i].del = job[i].del /\ UNCHANGED <<obj, access>>
    BY <1>5, <1>j DEF AddFinalizerGone, Fail, Goto, Jobs
  <2> QED
    BY <2>1, <1>w, <1>s, SameAccess
<1>6. CASE AccessReady(i)
  <2>1. /\ pc'[i] = IF job[i].del THEN "deleteDeployment" ELSE "namespace"
        /\ job'[i].del = job[i].del /\ UNCHANGED <<obj, access>>
    BY <1>6, <1>j DEF AccessReady, Goto, Jobs
  <2> QED
    BY <2>1, <1>6, <1>w, <1>s, SameAccess DEF AccessReady
<1>7. CASE AccessPending(i)
  <2>1. pc'[i] \in {"idle", "status"} /\ (job'[i].del => job[i].del) /\ UNCHANGED obj
    BY <1>7, <1>j, <1>n DEF AccessPending, Goto, Finish, Jobs
  <2>2. obj.fin
    BY <1>7, <1>w DEF AccessPending
  <2> QED
    BY <2>1, <2>2, <1>w, <1>s
<1>8. CASE WriteStatus(i)
  <2>1. obj'.life = obj.life /\ obj'.fin = obj.fin
    <3>1. \A t \in BOOLEAN : Patched(i, t).life = obj.life /\ Patched(i, t).fin = obj.fin
      BY <1>w, PatchedType
    <3>2. PatchTimes(i) \subseteq BOOLEAN
      BY DEF PatchTimes
    <3> QED
      BY <1>8, <3>1, <3>2 DEF WriteStatus, Store
  <2>2. pc'[i] = "idle" /\ job'[i].del = FALSE /\ UNCHANGED access
    BY <1>8, <1>j, <1>n DEF WriteStatus, Finish
  <2> QED
    BY <2>1, <2>2, <1>w, <1>s, SameAccess
<1>9. CASE CheckAccess(i)
  <2>1. /\ pc'[i] = IF InDeletion THEN "release" ELSE "access"
        /\ job'[i] = job[i] /\ UNCHANGED <<obj, access>>
    BY <1>9, <1>j DEF CheckAccess, Goto
  <2> QED
    BY <2>1, <1>9, <1>w, <1>s, SameAccess DEF CheckAccess
<1>10. CASE WriteTerminating(i)
  <2>1. obj'.life = obj.life /\ obj'.fin = obj.fin
    BY <1>10, <1>w, PatchedType DEF WriteTerminating, TerminatingStored, Store
  <2>2. /\ UNCHANGED access /\ (job'[i].del => job[i].del)
        /\ pc'[i] = (IF job[i].result = "error" THEN "idle" ELSE "release")
        /\ (pc'[i] = "release" => job'[i].del = job[i].del)
    BY <1>10, <1>j, <1>n DEF WriteTerminating, Goto, Finish, Jobs
  <2> QED
    BY <2>1, <2>2, <1>10, <1>w, <1>s, SameAccess DEF WriteTerminating
<1>11. CASE Release(i)
  <2>1. obj.fin /\ UNCHANGED obj
    BY <1>11, <1>w DEF Release
  <2>2. CASE AllAbsent
    <3>1. pc'[i] = "drop" /\ job'[i] = job[i] /\ UNCHANGED access
      BY <1>11, <2>2, <1>j DEF Release, Goto
    <3> QED
      BY <2>1, <2>2, <3>1, <1>11, <1>w, <1>s, SameAccess DEF Release
  <2>3. CASE ~AllAbsent
    <3>1. pc'[i] = "idle" /\ job'[i].del = FALSE
      BY <1>11, <2>3, <1>j, <1>n DEF Release, Finish
    <3> QED
      BY <2>1, <3>1, <1>w, <1>s
  <2> QED
    BY <2>2, <2>3
<1>12. CASE Drop(i)
  <2>1. AllAbsent /\ UNCHANGED access
    BY <1>12, <1>w DEF Drop
  <2>2. pc'[i] = "idle" /\ job'[i].del = FALSE
    BY <1>12, <1>j, <1>n DEF Drop, Finish
  <2>3. obj' = NoObject \/ obj' = obj
    BY <1>12 DEF Drop, Store
  <2> QED
    BY <2>1, <2>2, <2>3, <1>n, <1>w, <1>s, SameAccess
<1> QED
  BY <1>1, <1>2, <1>3, <1>4, <1>5, <1>6, <1>7, <1>8, <1>9, <1>10, <1>11, <1>12 DEF GenericStep

\* The steps of the domain leave object and access alone, and stay on their path.
LEMMA DomainPath ==
    ASSUME TypeInv, NEW i \in Instances, DomainStep(i)
    PROVE  /\ UNCHANGED <<obj, access>> /\ job'[i].del = job[i].del
           /\ \/ pc[i] \in CreatePcs /\ pc'[i] \in CreatePcs \cup {"status"}
              \/ pc[i] \in DeletePcs /\ pc'[i] \in {"deleteService", "terminating"}
<1>j. job[i] \in Jobs /\ pc \in [Instances -> Pcs] /\ job \in [Instances -> Jobs]
  BY DEF TypeInv, WorkerInv
<1>l. UNCHANGED <<obj, access>>
  BY DEF DomainStep, EnsureNamespace, ReadPullSecret, WritePullSecret, ReadConfigMap, ReadSecret,
         WriteDeployment, WriteService, RemoveDeployment, RemoveService, Local
<1>1. ASSUME EnsureNamespace(i) \/ ReadPullSecret(i) \/ WritePullSecret(i) \/ ReadConfigMap(i)
               \/ ReadSecret(i) \/ WriteDeployment(i) \/ WriteService(i)
      PROVE  /\ pc[i] \in CreatePcs /\ pc'[i] \in CreatePcs \cup {"status"}
             /\ job'[i].del = job[i].del
  <2>1. CASE EnsureNamespace(i)
    BY <2>1, <1>j DEF EnsureNamespace, Goto, AfterPull, CreatePcs
  <2>2. CASE ReadPullSecret(i)
    BY <2>2, <1>j DEF ReadPullSecret, Goto, Fail, Jobs, CreatePcs
  <2>3. CASE WritePullSecret(i)
    BY <2>3, <1>j DEF WritePullSecret, Goto, AfterPull, Jobs, CreatePcs
  <2>4. CASE ReadConfigMap(i)
    BY <2>4, <1>j DEF ReadConfigMap, Goto, Jobs, CreatePcs
  <2>5. CASE ReadSecret(i)
    BY <2>5, <1>j DEF ReadSecret, Goto, Jobs, CreatePcs
  <2>6. CASE WriteDeployment(i) \/ WriteService(i)
    BY <2>6, <1>j DEF WriteDeployment, WriteService, Goto, Jobs, CreatePcs
  <2> QED
    BY <1>1, <2>1, <2>2, <2>3, <2>4, <2>5, <2>6
<1>2. ASSUME RemoveDeployment(i) \/ RemoveService(i)
      PROVE  /\ pc[i] \in DeletePcs /\ pc'[i] \in {"deleteService", "terminating"}
             /\ job'[i] = job[i]
  BY <1>2, <1>j DEF RemoveDeployment, RemoveService, Goto, DeletePcs
<1> QED
  BY <1>1, <1>2, <1>l DEF DomainStep

LEMMA DomainGuarded ==
    ASSUME TypeInv, Guarded, OneInstance, NEW i \in Instances, DomainStep(i)
    PROVE  Guarded'
<1>1. GlobalGuarded' /\ WorkerGuarded(i)'
  BY DomainPath, SameAccess DEF Guarded, GlobalGuarded, WorkerGuarded, CreatePcs, DeletePcs
<1> QED
  BY <1>1, OneWorkerGuarded

\* A call that fails: access may change while the worker asks for it or gives it up,
\* both for an object with a finalizer.
LEMMA FaultGuarded ==
    ASSUME TypeInv, Guarded, OneInstance, NEW i \in Instances, CallFails(i)
    PROVE  Guarded'
<1>w. WorkerInv /\ WorkerGuarded(i) /\ GlobalGuarded
  BY DEF TypeInv, Guarded
<1>j. job[i] \in Jobs /\ pc \in [Instances -> Pcs] /\ job \in [Instances -> Jobs]
  BY <1>w DEF WorkerInv
<1>o. UNCHANGED obj
  BY DEF CallFails, GetFails, CreateOrUpdateFails, AccessFails, DeleteFails, DomainDeleteFails,
         PatchLost, TerminatingPatchLost
<1>a. UNCHANGED access \/ (obj.fin /\ (AccessFails(i) \/ DeleteFails(i)))
  BY <1>w DEF CallFails, GetFails, CreateOrUpdateFails, AccessFails, DeleteFails, DomainDeleteFails,
              PatchLost, TerminatingPatchLost, WorkerGuarded, GlobalGuarded
<1>b. UNCHANGED access => AllAbsent' = AllAbsent
  BY SameAccess
<1>n. NoJob.del = FALSE
  BY DEF NoJob
<1>s. ASSUME GlobalGuarded', WorkerGuarded(i)' PROVE Guarded'
  BY <1>s, OneWorkerGuarded
<1> USE DEF WorkerGuarded, GlobalGuarded, CreatePcs, DeletePcs
<1>1. CASE GetFails(i)
  BY <1>1, <1>w, <1>b, <1>s DEF GetFails
<1>2. CASE CreateOrUpdateFails(i) \/ AccessFails(i)
  <2>1. pc'[i] = "status" /\ job'[i].del = job[i].del
    BY <1>2, <1>j DEF CreateOrUpdateFails, AccessFails, Fail, Goto, Jobs
  <2> QED
    BY <2>1, <1>w, <1>o, <1>a, <1>b, <1>s
<1>3. CASE DeleteFails(i) \/ PatchLost(i)
  <2>1. pc'[i] = "idle" /\ job'[i].del = FALSE
    BY <1>3, <1>j, <1>n DEF DeleteFails, PatchLost, Finish
  <2> QED
    BY <2>1, <1>w, <1>o, <1>a, <1>b, <1>s
<1>4. CASE DomainDeleteFails(i)
  <2>1. pc'[i] = "terminating" /\ job'[i].del = job[i].del
    BY <1>4, <1>j DEF DomainDeleteFails, Goto, Jobs
  <2> QED
    BY <2>1, <1>4, <1>w, <1>b, <1>s DEF DomainDeleteFails
<1>5. CASE TerminatingPatchLost(i)
  <2>1. \/ pc'[i] = "idle" /\ job'[i].del = FALSE
        \/ pc'[i] = "release" /\ job'[i] = job[i]
    BY <1>5, <1>j, <1>n DEF TerminatingPatchLost, Goto, Finish
  <2> QED
    BY <2>1, <1>5, <1>w, <1>b, <1>s DEF TerminatingPatchLost
<1> QED
  BY <1>1, <1>2, <1>3, <1>4, <1>5 DEF CallFails

\* What users of the onboarding API do to an object: it is made without a finalizer,
\* edited, or deleted, for good only without one.
LEMMA UserEffect ==
    ASSUME TypeInv, User
    PROVE  \/ obj.life = "absent" /\ obj'.life = "live" /\ obj'.fin = FALSE
           \/ obj'.life = obj.life /\ obj'.fin = obj.fin
           \/ obj.life = "live" /\ obj.fin /\ obj'.life = "deleting" /\ obj'.fin
           \/ obj.life = "live" /\ ~obj.fin /\ obj'.life = "absent" /\ obj'.fin = FALSE
<1>o. obj \in Objects
  BY DEF TypeInv, ObjectInv
<1>1. CASE CreateObject
  BY <1>1 DEF CreateObject, Store, NewObject, NoObject
<1>2. CASE EditObject
  BY <1>2, <1>o DEF EditObject, Store, Objects
<1>3. CASE DeleteObject
  BY <1>3, <1>o DEF DeleteObject, Store, Objects, NoObject
<1> QED
  BY <1>1, <1>2, <1>3 DEF User

LEMMA UserGuarded ==
    ASSUME TypeInv, Guarded, User
    PROVE  Guarded'
<1>1. UNCHANGED <<pc, job>> /\ AllAbsent' = AllAbsent
  BY SameAccess DEF User, CreateObject, EditObject, DeleteObject
<1>2. GlobalGuarded'
  BY <1>1, UserEffect DEF Guarded, GlobalGuarded
<1>3. ASSUME NEW i \in Instances PROVE WorkerGuarded(i)'
  BY <1>1, UserEffect DEF Guarded, GlobalGuarded, WorkerGuarded, CreatePcs, DeletePcs
<1> QED
  BY <1>2, <1>3 DEF Guarded

\* The platform, and whoever revokes a request, change only what is there.
LEMMA PlatformGuarded ==
    ASSUME Guarded, Platform \/ Revoke
    PROVE  Guarded'
<1>1. ~AllAbsent /\ UNCHANGED <<pc, job, obj>>
  BY DEF Platform, Revoke, AllAbsent, AccessGranted, AccessGone, AccessRevoked, spVars
<1>2. GlobalGuarded'
  BY <1>1 DEF Guarded, GlobalGuarded
<1>3. ASSUME NEW i \in Instances PROVE WorkerGuarded(i)'
  BY <1>1 DEF Guarded, WorkerGuarded
<1> QED
  BY <1>2, <1>3 DEF Guarded

\* A crash forgets the job.
LEMMA CrashGuarded ==
    ASSUME TypeInv, Guarded, OneInstance, NEW i \in Instances, Crash(i)
    PROVE  Guarded'
<1>1. pc'[i] = "idle" /\ job'[i].del = FALSE /\ UNCHANGED obj /\ AllAbsent' = AllAbsent
  BY SameAccess DEF Crash, Restart, NoJob, TypeInv, WorkerInv
<1>2. GlobalGuarded' /\ WorkerGuarded(i)'
  BY <1>1 DEF Guarded, GlobalGuarded, WorkerGuarded, CreatePcs, DeletePcs
<1> QED
  BY <1>2, OneWorkerGuarded

LEMMA InitGuarded == Init => Guarded
<1> SUFFICES ASSUME Init PROVE Guarded
  OBVIOUS
<1>1. AllAbsent
  BY DEF Init, AccessInit, AllAbsent
<1>2. obj.life \in {"absent", "live"} /\ obj.fin = FALSE
  <2>1. NoObject.life = "absent" /\ NoObject.fin = FALSE
    BY DEF NoObject
  <2>2. ASSUME NEW s \in Specs PROVE NewObject(s).life = "live" /\ NewObject(s).fin = FALSE
    BY DEF NewObject, NoObject
  <2>3. obj = NoObject \/ \E s \in Specs : obj = NewObject(s)
    BY DEF Init, SPInit
  <2> QED
    BY <2>1, <2>2, <2>3
<1>3. ASSUME NEW i \in Instances PROVE WorkerGuarded(i)
  <2>1. pc[i] = "idle" /\ job[i].del = FALSE
    BY DEF Init, SPInit, NoJob
  <2> QED
    BY <2>1 DEF WorkerGuarded, CreatePcs, DeletePcs
<1> QED
  BY <1>1, <1>2, <1>3 DEF Guarded, GlobalGuarded

\* Every step keeps it.
LEMMA NextGuarded ==
    ASSUME OneInstance, TypeInv, Guarded, [Next]_vars
    PROVE  Guarded'
<1>e. ASSUME UNCHANGED <<pc, job, obj, access>> PROVE Guarded'
  BY <1>e, SameAccess DEF Guarded, GlobalGuarded, WorkerGuarded
<1>1. ASSUME NEW i \in Instances, Worker(i) PROVE Guarded'
  BY <1>1, DomainGuarded, GenericGuarded DEF Worker, WorkerStep
<1>2. ASSUME NEW i \in Instances, Fault(i) PROVE Guarded'
  BY <1>2, FaultGuarded DEF Fault
<1>3. ASSUME NEW i \in Instances, Timer(i) \/ DeliverConfig(i) \/ MissConfig(i) PROVE Guarded'
  BY <1>3, <1>e DEF Timer, TimerFires, DeliverConfig, MissConfig, StoreConfig
<1>4. ASSUME NEW i \in Instances, Crash(i) PROVE Guarded'
  BY <1>4, CrashGuarded
<1>5. CASE EditConfig \/ EditPlatformSecret \/ ControlPlaneUser \/ UNCHANGED vars
  BY <1>5, <1>e DEF EditConfig, EditPlatformSecret, ControlPlaneUser, spVars, vars
<1>6. CASE Platform \/ Revoke
  BY <1>6, PlatformGuarded
<1>7. CASE User
  BY <1>7, UserGuarded
<1> QED
  BY <1>1, <1>2, <1>3, <1>4, <1>5, <1>6, <1>7 DEF Next

LEMMA AlwaysGuarded ==
    ASSUME OneInstance
    PROVE  Spec => [](TypeInv /\ Guarded)
<1>1. Init => TypeInv /\ Guarded
  BY InitTypes, InitGuarded
<1>2. TypeInv /\ Guarded /\ [Next]_vars => (TypeInv /\ Guarded)'
  BY NextTypes, NextGuarded
<1> QED
  BY <1>1, <1>2, PTL DEF Spec

\* Whoever creates or holds access works for an object with a finalizer, whoever deletes
\* for one in deletion (createOrUpdate, delete).
THEOREM FinalizerIsGuarded ==
    ASSUME OneInstance
    PROVE  Spec => []FinalizerGuards
BY AlwaysGuarded, GuardedParts, PTL

\* No access request outlives the finalizer, not even a revoked one, or that of a service
\* which moved (createOrUpdate, delete).
THEOREM AccessReleased ==
    ASSUME OneInstance
    PROVE  Spec => []AccessHeldByFinalizer
BY AlwaysGuarded, GuardedParts, PTL

(***************************************************************************)
(* No orphans: resources, access and finalizer go in the order in which    *)
(* they can be found again.  It takes, besides, specs and configs that     *)
(* never move the collector to another namespace, and that nobody but the  *)
(* provider deletes its access requests.                                   *)
(***************************************************************************)

FixedNamespace ==
    \A s, t \in Specs, c, d \in Configs :
        Resolve("namespace", s, c) = Resolve("namespace", t, d)

GlobalClean ==
    /\ AtHome
    /\ Managed => obj.fin /\ AllGranted

WorkerClean(i) ==
    /\ pc[i] \in CreatePcs => AllGranted
    /\ pc[i] = "deleteService" => ~Deployed
    /\ pc[i] = "terminating" /\ job[i].result # "error" => ~Managed
    /\ pc[i] \in {"release", "drop"} => ~Managed

GlobalSafe == GlobalGuarded /\ GlobalClean
WorkerSafe(i) == WorkerGuarded(i) /\ WorkerClean(i)

Safe == GlobalSafe /\ \A i \in Instances : WorkerSafe(i)

\* The same as the invariants that TLC checks.
LEMMA SafeParts == Safe <=> FinalizerGuards /\ CleanupOrder
BY DEF Safe, GlobalSafe, WorkerSafe, GlobalGuarded, WorkerGuarded, GlobalClean, WorkerClean,
       FinalizerGuards, CleanupOrder

LEMMA SafeIsGuarded == Safe => Guarded
BY DEF Safe, GlobalSafe, WorkerSafe, Guarded

LEMMA CleanIsSafe ==
    ASSUME Guarded', GlobalClean', \A i \in Instances : WorkerClean(i)'
    PROVE  Safe'
BY DEF Safe, GlobalSafe, WorkerSafe, Guarded

\* With one instance, what a step does to its worker is all there is to check.
LEMMA OneWorkerSafe ==
    ASSUME OneInstance, NEW i \in Instances, Guarded', GlobalClean', WorkerClean(i)'
    PROVE  Safe'
BY DEF OneInstance, Safe, GlobalSafe, WorkerSafe, Guarded

\* What is managed does not change as long as the Deployments and Services do not.
LEMMA SameManaged ==
    ASSUME UNCHANGED <<collector, frontend>>
    PROVE  Managed' = Managed /\ Deployed' = Deployed /\ AtHome' = AtHome
BY DEF Managed, Deployed, AtHome, ManagedAt

\* Access that is granted is not asked for again.
LEMMA GrantedStays ==
    ASSUME AccessTypeOK, AllGranted, EnsureAccess
    PROVE  UNCHANGED access
<1>1. "mcp" \in Requests
  BY DEF Requests
<1>2. access' = [r \in Requests |-> access[r]]
  BY <1>1 DEF AllGranted, EnsureAccess
<1> QED
  BY <1>2 DEF AccessTypeOK

\* The steps of the generic loop keep the order.
LEMMA GenericSafe ==
    ASSUME TypeInv, Safe, OneInstance, Guarded', NEW i \in Instances, GenericStep(i), MCPUntouched
    PROVE  Safe'
<1>w. WorkerInv /\ ObjectInv /\ AccessTypeOK /\ WorkerSafe(i) /\ GlobalSafe
  BY DEF TypeInv, Safe
<1>j. job[i] \in Jobs /\ obj \in Objects /\ pc \in [Instances -> Pcs] /\ job \in [Instances -> Jobs]
  BY <1>w DEF WorkerInv, ObjectInv
<1>m. Managed' = Managed /\ Deployed' = Deployed /\ AtHome' = AtHome
  BY SameManaged DEF MCPUntouched
<1>n. NoJob.del = FALSE /\ NoObject.life = "absent" /\ NoObject.fin = FALSE
  BY DEF NoJob, NoObject
<1>l. Loaded(i).del = (obj.life = "deleting")
  BY DEF Loaded, NoJob
<1>s. ASSUME GlobalClean', WorkerClean(i)' PROVE Safe'
  BY <1>s, OneWorkerSafe
<1> USE DEF WorkerSafe, GlobalSafe, WorkerGuarded, GlobalGuarded, WorkerClean, GlobalClean,
            CreatePcs, DeletePcs
<1>1. CASE ObjectGone(i)
  BY <1>1, <1>w, <1>m, <1>s, SameAccess DEF ObjectGone
<1>2. CASE BeginWithoutConfig(i)
  <2>1. pc'[i] = "status" /\ job'[i].del = (obj.life = "deleting") /\ UNCHANGED <<obj, access>>
    BY <1>2, <1>j, <1>l DEF BeginWithoutConfig, GetObject, Goto
  <2> QED
    BY <2>1, <1>w, <1>m, <1>s, SameAccess
<1>3. CASE Begin(i)
  <2>1. /\ pc'[i] = IF obj.life = "deleting" THEN "check" ELSE "finalizer"
        /\ job'[i].del = (obj.life = "deleting") /\ UNCHANGED <<obj, access>>
    BY <1>3, <1>j, <1>l DEF Begin, GetObject, Goto
  <2> QED
    BY <2>1, <1>w, <1>m, <1>s, SameAccess
<1>4. CASE AddFinalizer(i)
  <2>1. obj' = [obj EXCEPT !.fin = TRUE] /\ UNCHANGED access
    BY <1>4 DEF AddFinalizer, Store
  <2>2. obj'.fin = TRUE /\ obj'.life = obj.life /\ obj.life # "absent"
    BY <2>1, <1>4, <1>j DEF Objects, AddFinalizer
  <2>3. pc'[i] = "access" /\ job'[i].del = job[i].del
    BY <1>4, <1>j DEF AddFinalizer, Goto, Jobs
  <2> QED
    BY <2>1, <2>2, <2>3, <1>4, <1>w, <1>m, <1>s, SameAccess DEF AddFinalizer
<1>5. CASE AddFinalizerGone(i)
  <2>1. pc'[i] = "status" /\ job'[i].del = job[i].del /\ UNCHANGED <<obj, access>>
    BY <1>5, <1>j DEF AddFinalizerGone, Fail, Goto, Jobs
  <2> QED
    BY <2>1, <1>w, <1>m, <1>s, SameAccess
<1>6. CASE AccessReady(i)
  <2>1. /\ pc'[i] = IF job[i].del THEN "deleteDeployment" ELSE "namespace"
        /\ job'[i].del = job[i].del /\ UNCHANGED <<obj, access>>
    BY <1>6, <1>j DEF AccessReady, Goto, Jobs
  <2> QED
    BY <2>1, <1>6, <1>w, <1>m, <1>s, SameAccess DEF AccessReady
<1>7. CASE AccessPending(i)
  <2>1. pc'[i] \in {"idle", "status"} /\ (job'[i].del => job[i].del) /\ UNCHANGED obj
    BY <1>7, <1>j, <1>n DEF AccessPending, Goto, Finish, Jobs
  <2>2. obj.fin /\ ~Managed
    BY <1>7, <1>w DEF AccessPending
  <2> QED
    BY <2>1, <2>2, <1>w, <1>m, <1>s
<1>8. CASE WriteStatus(i)
  <2>1. obj'.life = obj.life /\ obj'.fin = obj.fin
    <3>1. \A t \in BOOLEAN : Patched(i, t).life = obj.life /\ Patched(i, t).fin = obj.fin
      BY <1>w, PatchedType
    <3>2. PatchTimes(i) \subseteq BOOLEAN
      BY DEF PatchTimes
    <3> QED
      BY <1>8, <3>1, <3>2 DEF WriteStatus, Store
  <2>2. pc'[i] = "idle" /\ job'[i].del = FALSE /\ UNCHANGED access
    BY <1>8, <1>j, <1>n DEF WriteStatus, Finish
  <2> QED
    BY <2>1, <2>2, <1>w, <1>m, <1>s, SameAccess
<1>9. CASE CheckAccess(i)
  <2>1. /\ pc'[i] = IF InDeletion THEN "release" ELSE "access"
        /\ job'[i] = job[i] /\ UNCHANGED <<obj, access>>
    BY <1>9, <1>j DEF CheckAccess, Goto
  <2>2. InDeletion => ~AllGranted
    BY DEF InDeletion, AllGranted
  <2> QED
    BY <2>1, <2>2, <1>9, <1>w, <1>m, <1>s, SameAccess DEF CheckAccess
<1>10. CASE WriteTerminating(i)
  <2>1. obj'.life = obj.life /\ obj'.fin = obj.fin
    BY <1>10, <1>w, PatchedType DEF WriteTerminating, TerminatingStored, Store
  <2>2. /\ UNCHANGED access /\ (job'[i].del => job[i].del)
        /\ pc'[i] = (IF job[i].result = "error" THEN "idle" ELSE "release")
        /\ (pc'[i] = "release" => job'[i].del = job[i].del)
    BY <1>10, <1>j, <1>n DEF WriteTerminating, Goto, Finish, Jobs
  <2> QED
    BY <2>1, <2>2, <1>10, <1>w, <1>m, <1>s, SameAccess DEF WriteTerminating
<1>11. CASE Release(i)
  <2>1. obj.fin /\ ~Managed /\ UNCHANGED obj
    BY <1>11, <1>w DEF Release
  <2>2. CASE AllAbsent
    <3>1. pc'[i] = "drop" /\ job'[i] = job[i] /\ UNCHANGED access
      BY <1>11, <2>2, <1>j DEF Release, Goto
    <3> QED
      BY <2>1, <2>2, <3>1, <1>11, <1>w, <1>m, <1>s, SameAccess DEF Release
  <2>3. CASE ~AllAbsent
    <3>1. pc'[i] = "idle" /\ job'[i].del = FALSE
      BY <1>11, <2>3, <1>j, <1>n DEF Release, Finish
    <3> QED
      BY <2>1, <3>1, <1>w, <1>m, <1>s
  <2> QED
    BY <2>2, <2>3
<1>12. CASE Drop(i)
  <2>1. AllAbsent /\ ~Managed /\ UNCHANGED access
    BY <1>12, <1>w DEF Drop
  <2>2. pc'[i] = "idle" /\ job'[i].del = FALSE
    BY <1>12, <1>j, <1>n DEF Drop, Finish
  <2>3. obj' = NoObject \/ obj' = obj
    BY <1>12 DEF Drop, Store
  <2> QED
    BY <2>1, <2>2, <2>3, <1>n, <1>w, <1>m, <1>s, SameAccess
<1> QED
  BY <1>1, <1>2, <1>3, <1>4, <1>5, <1>6, <1>7, <1>8, <1>9, <1>10, <1>11, <1>12 DEF GenericStep

\* The steps of the domain keep it.
LEMMA DomainSafe ==
    ASSUME TypeInv, Safe, OneInstance, FixedNamespace, Guarded', NEW i \in Instances, DomainStep(i)
    PROVE  Safe'
<1>w. WorkerInv /\ MCPTypeOK /\ WorkerSafe(i) /\ GlobalSafe
  BY DEF TypeInv, Safe
<1>j. /\ job[i] \in Jobs /\ pc \in [Instances -> Pcs] /\ job \in [Instances -> Jobs]
      /\ collector \in [Namespaces -> Deployments] /\ frontend \in [Namespaces -> Owners]
      /\ job[i].hash \in Hashes
  BY <1>w DEF WorkerInv, MCPTypeOK, Jobs
<1>p. pc[i] \in CreatePcs \cup DeletePcs
  BY DEF DomainStep, EnsureNamespace, ReadPullSecret, WritePullSecret, ReadConfigMap, ReadSecret,
         WriteDeployment, WriteService, RemoveDeployment, RemoveService, CreatePcs, DeletePcs
<1>r. /\ job[i].cfg \in Configs /\ job[i].obj.spec \in Specs /\ Target(i) \in Namespaces
      /\ \A s \in Specs, c \in Configs : Resolve("namespace", s, c) = Target(i)
  <2>1. job[i].cfg \in Configs /\ job[i].obj.spec \in Specs
    BY <1>p, <1>w DEF WorkerInv, WorkerReady, CreatePcs, DeletePcs
  <2> QED
    BY <2>1, TargetType DEF FixedNamespace, Target
<1>l. UNCHANGED <<obj, access>> /\ AllGranted' = AllGranted /\ AllAbsent' = AllAbsent
  <2>1. UNCHANGED <<obj, access>>
    BY DEF DomainStep, EnsureNamespace, ReadPullSecret, WritePullSecret, ReadConfigMap, ReadSecret,
           WriteDeployment, WriteService, RemoveDeployment, RemoveService, Local
  <2> QED
    BY <2>1, SameAccess
<1>s. ASSUME GlobalClean', WorkerClean(i)' PROVE Safe'
  BY <1>s, OneWorkerSafe
<1>h. \A ns \in Namespaces : ManagedAt(ns) => ns = Target(i)
  BY <1>r, <1>w DEF GlobalSafe, GlobalClean, AtHome
<1> USE DEF WorkerSafe, GlobalSafe, WorkerGuarded, GlobalGuarded, WorkerClean, GlobalClean,
            CreatePcs, DeletePcs
<1>1. CASE EnsureNamespace(i) \/ WritePullSecret(i) \/ ReadPullSecret(i) \/ ReadConfigMap(i)
           \/ ReadSecret(i)
  <2>1. UNCHANGED <<collector, frontend>>
    BY <1>1 DEF EnsureNamespace, CreateNamespace, WritePullSecret, CopyPullSecret, ReadPullSecret,
                ReadConfigMap, ReadSecret, MCPUntouched
  <2>2. Managed' = Managed /\ Deployed' = Deployed /\ AtHome' = AtHome
    BY <2>1, SameManaged
  <2>3. pc'[i] \in {"configMap", "readPull", "writePull", "secret", "deployment", "status"}
        /\ job'[i].del = job[i].del
    <3>1. CASE EnsureNamespace(i)
      BY <3>1, <1>j DEF EnsureNamespace, Goto, AfterPull
    <3>2. CASE WritePullSecret(i)
      BY <3>2, <1>j DEF WritePullSecret, Goto, AfterPull, Jobs
    <3>3. CASE ReadPullSecret(i)
      BY <3>3, <1>j DEF ReadPullSecret, Goto, Fail, Jobs
    <3>4. CASE ReadConfigMap(i)
      BY <3>4, <1>j DEF ReadConfigMap, Goto, Jobs
    <3>5. CASE ReadSecret(i)
      BY <3>5, <1>j DEF ReadSecret, Goto, Jobs
    <3> QED
      BY <1>1, <3>1, <3>2, <3>3, <3>4, <3>5
  <2>4. pc[i] \in CreatePcs
    BY <1>1 DEF EnsureNamespace, WritePullSecret, ReadPullSecret, ReadConfigMap, ReadSecret
  <2> QED
    BY <2>2, <2>3, <2>4, <1>l, <1>w, <1>s
<1>2. CASE WriteDeployment(i) \/ WriteService(i)
  <2>1. \A ns \in Namespaces : ManagedAt(ns)' => ns = Target(i)
    BY <1>2, <1>h, <1>j DEF WriteDeployment, WriteService, ReconcileDeployment, ReconcileService,
                            ManagedAt
  <2>2. AtHome'
    BY <2>1, <1>r DEF AtHome
  <2>3. pc'[i] \in {"service", "status"} /\ job'[i].del = job[i].del
    BY <1>2, <1>j DEF WriteDeployment, WriteService, Goto, Jobs
  <2>4. pc[i] \in CreatePcs
    BY <1>2 DEF WriteDeployment, WriteService
  <2> QED
    BY <2>2, <2>3, <2>4, <1>l, <1>w, <1>s
<1>3. CASE RemoveDeployment(i)
  <2>1. ~Deployed' /\ (\A ns \in Namespaces : ManagedAt(ns)' => ManagedAt(ns))
    BY <1>3, <1>h, <1>j, <1>r
       DEF RemoveDeployment, DeleteDeployment, NoDeployment, Deployed, ManagedAt
  <2>2. AtHome' /\ (Managed' => Managed)
    BY <2>1, <1>w DEF AtHome, Managed
  <2>3. pc'[i] = "deleteService" /\ job'[i] = job[i]
    BY <1>3, <1>j DEF RemoveDeployment, Goto
  <2> QED
    BY <2>1, <2>2, <2>3, <1>3, <1>l, <1>w, <1>s DEF RemoveDeployment
<1>4. CASE RemoveService(i)
  <2>1. ~Deployed
    BY <1>4, <1>w DEF RemoveService
  <2>2. ~Managed'
    BY <2>1, <1>4, <1>h, <1>j, <1>r
       DEF RemoveService, DeleteService, Deployed, Managed, ManagedAt
  <2>3. AtHome'
    BY <2>2 DEF AtHome, Managed
  <2>4. pc'[i] = "terminating" /\ job'[i] = job[i]
    BY <1>4, <1>j DEF RemoveService, Goto
  <2> QED
    BY <2>2, <2>3, <2>4, <1>4, <1>l, <1>w, <1>s DEF RemoveService
<1> QED
  BY <1>1, <1>2, <1>3, <1>4 DEF DomainStep

\* A call that fails keeps it: what was not removed leads back to Delete.
LEMMA FaultSafe ==
    ASSUME TypeInv, Safe, OneInstance, Guarded', NEW i \in Instances, CallFails(i), MCPUntouched
    PROVE  Safe'
<1>w. WorkerInv /\ AccessTypeOK /\ WorkerSafe(i) /\ GlobalSafe
  BY DEF TypeInv, Safe
<1>j. job[i] \in Jobs /\ pc \in [Instances -> Pcs] /\ job \in [Instances -> Jobs]
  BY <1>w DEF WorkerInv
<1>m. Managed' = Managed /\ Deployed' = Deployed /\ AtHome' = AtHome
  BY SameManaged DEF MCPUntouched
<1>o. UNCHANGED obj
  BY DEF CallFails, GetFails, CreateOrUpdateFails, AccessFails, DeleteFails, DomainDeleteFails,
         PatchLost, TerminatingPatchLost
<1>a. UNCHANGED access \/ (obj.fin /\ ~Managed)
  <2>1. CASE AccessFails(i) \/ (DeleteFails(i) /\ pc[i] = "access")
    <3>1. obj.fin /\ (Managed => AllGranted)
      BY <2>1, <1>w DEF AccessFails, WorkerSafe, GlobalSafe, WorkerGuarded, GlobalClean
    <3>2. EnsureAccess \/ UNCHANGED access
      BY <2>1 DEF AccessFails, DeleteFails
    <3> QED
      BY <3>1, <3>2, <1>w, GrantedStays
  <2>2. CASE DeleteFails(i) /\ pc[i] # "access"
    BY <2>2, <1>w DEF DeleteFails, WorkerSafe, GlobalSafe, WorkerClean, WorkerGuarded, GlobalGuarded
  <2> QED
    BY <2>1, <2>2 DEF CallFails, GetFails, CreateOrUpdateFails, DomainDeleteFails, PatchLost,
                      TerminatingPatchLost
<1>b. UNCHANGED access => AllGranted' = AllGranted /\ AllAbsent' = AllAbsent
  BY SameAccess
<1>n. NoJob.del = FALSE
  BY DEF NoJob
<1>s. ASSUME GlobalClean', WorkerClean(i)' PROVE Safe'
  BY <1>s, OneWorkerSafe
<1> USE DEF WorkerSafe, GlobalSafe, WorkerGuarded, GlobalGuarded, WorkerClean, GlobalClean,
            CreatePcs, DeletePcs
<1>1. CASE GetFails(i)
  BY <1>1, <1>w, <1>m, <1>b, <1>s DEF GetFails
<1>2. CASE CreateOrUpdateFails(i) \/ AccessFails(i)
  <2>1. pc'[i] = "status" /\ job'[i].del = job[i].del
    BY <1>2, <1>j DEF CreateOrUpdateFails, AccessFails, Fail, Goto, Jobs
  <2> QED
    BY <2>1, <1>w, <1>m, <1>o, <1>a, <1>b, <1>s
<1>3. CASE DeleteFails(i) \/ PatchLost(i)
  <2>1. pc'[i] = "idle" /\ job'[i].del = FALSE
    BY <1>3, <1>j, <1>n DEF DeleteFails, PatchLost, Finish
  <2> QED
    BY <2>1, <1>w, <1>m, <1>o, <1>a, <1>b, <1>s
<1>4. CASE DomainDeleteFails(i)
  <2>1. pc'[i] = "terminating" /\ job'[i].del = job[i].del /\ job'[i].result = "error"
    BY <1>4, <1>j DEF DomainDeleteFails, Goto, Jobs
  <2> QED
    BY <2>1, <1>4, <1>w, <1>m, <1>b, <1>s DEF DomainDeleteFails
<1>5. CASE TerminatingPatchLost(i)
  <2>1. \/ pc'[i] = "idle" /\ job'[i].del = FALSE
        \/ pc'[i] = "release" /\ job'[i] = job[i] /\ job[i].result # "error"
    BY <1>5, <1>j, <1>n DEF TerminatingPatchLost, Goto, Finish
  <2> QED
    BY <2>1, <1>5, <1>w, <1>m, <1>b, <1>s DEF TerminatingPatchLost
<1> QED
  BY <1>1, <1>2, <1>3, <1>4, <1>5 DEF CallFails

\* Users of the MCP make nothing that counts as the provider's.
LEMMA ControlPlaneUserManaged ==
    ASSUME MCPTypeOK, ControlPlaneUser
    PROVE  \A ns \in Namespaces :
             /\ ManagedAt(ns)' => ManagedAt(ns)
             /\ collector'[ns].owner = "provider" => collector[ns].owner = "provider"
<1>n. /\ collector \in [Namespaces -> Deployments] /\ frontend \in [Namespaces -> Owners]
      /\ namespaces \subseteq Namespaces
  BY DEF MCPTypeOK
<1> USE DEF ManagedAt
<1>1. CASE UserMakesNamespace \/ UserWritesConfigMap \/ UserWritesSecret
  BY <1>1 DEF UserMakesNamespace, CreateNamespace, UserWritesConfigMap, UserWritesSecret, CopyPullSecret
<1>2. CASE UserEditsDeployment
  BY <1>2, <1>n DEF UserEditsDeployment, ReconcileDeployment, Deployments
<1>3. CASE UserRemovesDeployment
  BY <1>3, <1>n DEF UserRemovesDeployment, DeleteDeployment, NoDeployment
<1>4. CASE UserRemovesService
  BY <1>4, <1>n DEF UserRemovesService, DeleteService
<1>5. CASE UserMakesDeployment
  BY <1>5, <1>n DEF UserMakesDeployment, ReconcileDeployment, NoDeployment
<1>6. CASE UserMakesService
  BY <1>6, <1>n DEF UserMakesService
<1> QED
  BY <1>1, <1>2, <1>3, <1>4, <1>5, <1>6 DEF ControlPlaneUser

\* A step that leaves workers, object and access alone and manages nothing new.
LEMMA ElsewhereSafe ==
    ASSUME Safe, Guarded', UNCHANGED <<pc, job, obj, access>>,
           \A ns \in Namespaces :
             /\ ManagedAt(ns)' => ManagedAt(ns)
             /\ collector'[ns].owner = "provider" => collector[ns].owner = "provider"
    PROVE  Safe'
<1>1. (Managed' => Managed) /\ (Deployed' => Deployed) /\ (AtHome => AtHome')
  BY DEF Managed, Deployed, AtHome
<1>2. AllGranted' = AllGranted /\ AllAbsent' = AllAbsent
  BY SameAccess
<1>3. GlobalClean'
  BY <1>1, <1>2 DEF Safe, GlobalSafe, GlobalClean
<1>4. ASSUME NEW i \in Instances PROVE WorkerClean(i)'
  BY <1>1, <1>2 DEF Safe, WorkerSafe, WorkerClean
<1> QED
  BY <1>3, <1>4, CleanIsSafe

\* Users of the onboarding API: an object in deletion keeps its finalizer.
LEMMA UserSafe ==
    ASSUME TypeInv, Safe, Guarded', User
    PROVE  Safe'
<1>m. /\ Managed' = Managed /\ Deployed' = Deployed /\ AtHome' = AtHome
      /\ AllGranted' = AllGranted /\ AllAbsent' = AllAbsent
  BY SameManaged, SameAccess DEF User, MCPUntouched
<1>1. UNCHANGED <<pc, job>>
  BY DEF User, CreateObject, EditObject, DeleteObject
<1>2. obj.fin => obj'.fin
  BY UserEffect DEF Safe, GlobalSafe, GlobalGuarded
<1>3. GlobalClean'
  BY <1>2, <1>m DEF Safe, GlobalSafe, GlobalClean
<1>4. ASSUME NEW i \in Instances PROVE WorkerClean(i)'
  BY <1>1, <1>m DEF Safe, WorkerSafe, WorkerClean
<1> QED
  BY <1>3, <1>4, CleanIsSafe

\* The platform grants what is pending and removes what was given up.
LEMMA PlatformSafe ==
    ASSUME TypeInv, Safe, Guarded', Platform
    PROVE  Safe'
<1>1. PICK r \in Requests : AccessGranted(r) \/ AccessGone(r)
  BY DEF Platform
<1>2. ~AllGranted /\ ~AllAbsent
  BY <1>1 DEF AllGranted, AllAbsent, AccessGranted, AccessGone
<1>m. Managed' = Managed /\ Deployed' = Deployed /\ AtHome' = AtHome
  BY SameManaged DEF Platform, MCPUntouched
<1>3. UNCHANGED <<pc, job, obj>>
  BY DEF Platform, spVars
<1>4. GlobalClean'
  BY <1>2, <1>3, <1>m DEF Safe, GlobalSafe, GlobalClean
<1>5. ASSUME NEW i \in Instances PROVE WorkerClean(i)'
  BY <1>2, <1>3, <1>m DEF Safe, WorkerSafe, WorkerClean
<1> QED
  BY <1>4, <1>5, CleanIsSafe

\* A crash forgets the job, and the next one starts from what is stored.
LEMMA CrashSafe ==
    ASSUME TypeInv, Safe, OneInstance, Guarded', NEW i \in Instances, Crash(i)
    PROVE  Safe'
<1>m. Managed' = Managed /\ AtHome' = AtHome /\ AllGranted' = AllGranted
  BY SameManaged, SameAccess DEF Crash, MCPUntouched
<1>1. pc'[i] = "idle" /\ UNCHANGED obj
  BY DEF Crash, Restart, TypeInv, WorkerInv
<1>2. GlobalClean'
  BY <1>1, <1>m DEF Safe, GlobalSafe, GlobalClean
<1>3. WorkerClean(i)'
  BY <1>1 DEF WorkerClean, CreatePcs
<1> QED
  BY <1>2, <1>3, OneWorkerSafe

\* In the beginning nothing is deployed, requested or under way.
LEMMA InitSafe == Init => Safe
<1> SUFFICES ASSUME Init PROVE Safe
  OBVIOUS
<1>1. ~Managed
  BY DEF Init, MCPInit, Managed, ManagedAt, NoDeployment
<1>2. GlobalClean
  BY <1>1 DEF GlobalClean, AtHome, Managed
<1>3. ASSUME NEW i \in Instances PROVE WorkerClean(i)
  BY DEF Init, SPInit, WorkerClean, CreatePcs
<1> QED
  BY <1>2, <1>3, InitGuarded DEF Safe, GlobalSafe, WorkerSafe, Guarded

\* Every step keeps the order.
LEMMA NextSafe ==
    ASSUME OneInstance, FixedNamespace, "revoke" \notin Disturbances,
           TypeInv, Safe, [Next]_vars
    PROVE  Safe'
<1>g. Guarded'
  BY NextGuarded, SafeIsGuarded
<1>e. ASSUME UNCHANGED <<pc, job, obj, access>>, MCPUntouched PROVE Safe'
  BY <1>e, <1>g, ElsewhereSafe DEF MCPUntouched, ManagedAt
<1>1. ASSUME NEW i \in Instances, Worker(i) PROVE Safe'
  BY <1>1, <1>g, DomainSafe, GenericSafe DEF Worker, WorkerStep
<1>2. ASSUME NEW i \in Instances, Fault(i) PROVE Safe'
  BY <1>2, <1>g, FaultSafe DEF Fault
<1>3. ASSUME NEW i \in Instances, Timer(i) PROVE Safe'
  BY <1>3, <1>e DEF Timer, TimerFires
<1>4. ASSUME NEW i \in Instances, DeliverConfig(i) \/ MissConfig(i) PROVE Safe'
  BY <1>4, <1>e DEF DeliverConfig, MissConfig, StoreConfig
<1>5. ASSUME NEW i \in Instances, Crash(i) PROVE Safe'
  BY <1>5, <1>g, CrashSafe
<1>6. CASE EditConfig \/ EditPlatformSecret
  BY <1>6, <1>e DEF EditConfig, EditPlatformSecret, spVars
<1>7. CASE Platform
  BY <1>7, <1>g, PlatformSafe
<1>8. CASE Revoke
  BY <1>8 DEF Revoke, Disturb
<1>9. CASE User
  BY <1>9, <1>g, UserSafe
<1>10. CASE ControlPlaneUser
  <2>1. UNCHANGED <<pc, job, obj, access>> /\ MCPTypeOK
    BY <1>10 DEF ControlPlaneUser, spVars, TypeInv
  <2> QED
    BY <2>1, <1>10, <1>g, ControlPlaneUserManaged, ElsewhereSafe
<1>11. CASE UNCHANGED vars
  BY <1>11, <1>e DEF vars, spVars, mcpVars, MCPUntouched
<1> QED
  BY <1>1, <1>2, <1>3, <1>4, <1>5, <1>6, <1>7, <1>8, <1>9, <1>10, <1>11 DEF Next

\* The cleanup order is an invariant (createOrUpdate and delete of spreconciler.go
\* with the domain's CreateOrUpdate and Delete in between).
THEOREM CleanupIsOrdered ==
    ASSUME OneInstance, FixedNamespace, "revoke" \notin Disturbances
    PROVE  Spec => [](FinalizerGuards /\ CleanupOrder)
<1>1. Init => TypeInv /\ Safe
  BY InitTypes, InitSafe
<1>2. TypeInv /\ Safe /\ [Next]_vars => (TypeInv /\ Safe)'
  BY NextTypes, NextSafe
<1>3. TypeInv /\ Safe => FinalizerGuards /\ CleanupOrder
  BY SafeParts
<1> QED
  BY <1>1, <1>2, <1>3, PTL DEF Spec

\* So nothing the provider deployed outlives the finalizer.
THEOREM NoOrphans ==
    ASSUME OneInstance, FixedNamespace, "revoke" \notin Disturbances
    PROVE  Spec => []NoOrphanedResources
<1>1. FinalizerGuards /\ CleanupOrder => NoOrphanedResources
  BY DEF CleanupOrder, Managed, ManagedAt, NoOrphanedResources
<1> QED
  BY <1>1, CleanupIsOrdered, PTL
=============================================================================
