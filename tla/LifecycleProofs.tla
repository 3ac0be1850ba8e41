---------------------------- MODULE LifecycleProofs ----------------------------
(***************************************************************************)
(* ServiceProvider implements ServiceLifecycle: the initial states map to  *)
(* initial states, every step maps to a step of the life cycle or changes  *)
(* nothing of it.  It takes one instance, one target namespace, no revoked *)
(* requests, as in ServiceProviderProofs, and no drift; that access is     *)
(* given up in order takes one instance and no revoked requests.           *)
(***************************************************************************)
EXTENDS ServiceProviderProofs

LifecycleStep == [Lifecycle!Next]_Lifecycle!vars

\* The stage with only one worker to ask
StageOf(i) ==
    IF obj.life = "absent" THEN "absent"
    ELSE IF obj.life = "deleting" /\ ~Creating(i) THEN "draining"
    ELSE "serving"

\* One instance decides whether the service is draining.
LEMMA StageIs ==
    ASSUME OneInstance, NEW i \in Instances
    PROVE  Stage = StageOf(i) /\ Stage' = StageOf(i)'
<1>1. (\A k \in Instances : ~Creating(k)) <=> ~Creating(i)
  BY DEF OneInstance
<1>2. (\A k \in Instances : ~Creating(k)') <=> ~Creating(i)'
  BY DEF OneInstance
<1>3. Stage = StageOf(i)
  BY <1>1 DEF Stage, StageOf
<1>4. Stage' = StageOf(i)'
  BY <1>2 DEF Stage, StageOf
<1> QED
  BY <1>3, <1>4

\* A step that changes nothing of what the life cycle is about.
LEMMA Quiet ==
    ASSUME Stage' = Stage, obj'.fin = obj.fin, Held' = Held, DeployedKinds' = DeployedKinds
    PROVE  LifecycleStep
BY DEF LifecycleStep, Lifecycle!vars

\* With access unchanged the same requests are held, with the resources unchanged the
\* same kinds are deployed; giving up access holds it until the platform is done.
LEMMA SameHeld ==
    ASSUME AccessTypeOK
    PROVE  /\ UNCHANGED access => Held' = Held /\ InDeletion' = InDeletion
           /\ ReleaseAccess => Held' = Held
           /\ EnsureAccess => Held \subseteq Held' /\ Held' \subseteq Requests
           /\ EnsureAccess /\ ~InDeletion => UNCHANGED access
<1>1. UNCHANGED access => Held' = Held /\ InDeletion' = InDeletion
  BY DEF Held, InDeletion
<1>2. ReleaseAccess => Held' = Held
  BY DEF ReleaseAccess, Held, AccessTypeOK
<1>3. EnsureAccess => Held \subseteq Held' /\ Held' \subseteq Requests
  BY DEF EnsureAccess, Held, AccessTypeOK, Requests
<1>4. ASSUME EnsureAccess, ~InDeletion PROVE UNCHANGED access
  <2>1. "mcp" \in Requests
    BY DEF Requests
  <2>2. access["mcp"] # "absent" /\ \A r \in Requests : access[r] # "absent"
    BY <2>1, <1>4 DEF InDeletion
  <2>3. access' = access \/ access' = [r \in Requests |-> access[r]]
    BY <2>2, <1>4 DEF EnsureAccess
  <2> QED
    BY <2>3 DEF AccessTypeOK
<1> QED
  BY <1>1, <1>2, <1>3, <1>4

\* Nothing managed, nothing deployed; everything granted, everything held.
LEMMA KindsAndHeld ==
    /\ ~Managed => DeployedKinds = {}
    /\ UNCHANGED <<collector, frontend>> => DeployedKinds' = DeployedKinds
    /\ AllGranted => Held = Requests
    /\ AllAbsent => Held = {}
BY DEF Managed, ManagedAt, DeployedKinds, AllGranted, AllAbsent, Held

\* What a step of the one worker has to show: the rest of AccessOrder is about it.
AccessSafe(i) ==
    /\ (\E r \in Requests : access[r] = "deleting") => obj.life = "deleting" /\ ~Creating(i)
    /\ pc[i] = "access" /\ job[i].del => ~InDeletion

LEMMA OneAccessSafe ==
    ASSUME OneInstance, NEW i \in Instances
    PROVE  (AccessOrder => AccessSafe(i)) /\ (AccessSafe(i)' => AccessOrder')
<1>1. (\A k \in Instances : ~Creating(k)) <=> ~Creating(i)
  BY DEF OneInstance
<1>2. (\A k \in Instances : ~Creating(k)') <=> ~Creating(i)'
  BY DEF OneInstance
<1>3. AccessOrder => AccessSafe(i)
  BY <1>1 DEF AccessOrder, AccessSafe
<1>4. AccessSafe(i)' => AccessOrder'
  BY <1>2 DEF OneInstance, AccessOrder, AccessSafe
<1> QED
  BY <1>3, <1>4

(***************************************************************************)
(* Three shapes of steps of a worker, and what they are in the life cycle. *)
(***************************************************************************)

\* Object, access and resources stay, and so does who is at work: nothing.  A job
\* that begins works for the deletion if the object is in deletion.
LEMMA OnwardStep ==
    ASSUME TypeInv, OneInstance, AccessOrder, NEW i \in Instances,
           obj'.life = obj.life, obj'.fin = obj.fin, UNCHANGED <<access, collector, frontend>>,
           \/ Creating(i)' = Creating(i)
           \/ obj.life = "live"
           \/ ~Creating(i) /\ ~Creating(i)',
           pc'[i] = "access" /\ job'[i].del => ~InDeletion
    PROVE  AccessOrder' /\ LifecycleStep
<1>1. AccessSafe(i) /\ InDeletion' = InDeletion /\ Held' = Held /\ DeployedKinds' = DeployedKinds
  BY OneAccessSafe, SameHeld, KindsAndHeld DEF TypeInv
<1>2. Stage' = Stage
  BY StageIs DEF StageOf
<1>3. AccessSafe(i)'
  BY <1>1 DEF AccessSafe
<1> QED
  BY <1>1, <1>2, <1>3, Quiet, OneAccessSafe

\* The reconcile ends, by itself or in a crash: a service whose object was deleted in
\* the meantime begins to drain.
LEMMA EndStep ==
    ASSUME TypeInv, Guarded, OneInstance, AccessOrder, NEW i \in Instances,
           obj'.life = obj.life, obj'.fin = obj.fin, UNCHANGED <<collector, frontend>>,
           \/ UNCHANGED access
           \/ ReleaseAccess /\ obj.life = "deleting",
           pc'[i] = "idle"
    PROVE  AccessOrder' /\ LifecycleStep
<1>1. AccessSafe(i) /\ Held' = Held /\ DeployedKinds' = DeployedKinds
  BY OneAccessSafe, SameHeld, KindsAndHeld DEF TypeInv
<1>2. ~Creating(i)'
  BY DEF Creating
<1>3. AccessSafe(i)'
  BY <1>1, <1>2 DEF AccessSafe
<1>4. Stage = StageOf(i) /\ Stage' = StageOf(i)'
  BY StageIs
<1>5. CASE obj.life = "deleting" /\ Creating(i)
  <2>1. obj.fin
    BY <1>5 DEF Guarded, GlobalGuarded
  <2>2. Stage = "serving" /\ Stage' = "draining"
    BY <1>2, <1>4, <1>5 DEF StageOf
  <2>3. Lifecycle!Drain
    BY <2>1, <2>2, <1>1 DEF Lifecycle!Drain
  <2> QED
    BY <2>3, <1>3, OneAccessSafe DEF LifecycleStep, Lifecycle!Next
<1>6. CASE ~(obj.life = "deleting" /\ Creating(i))
  <2>1. Stage' = Stage
    BY <1>2, <1>4, <1>6 DEF StageOf
  <2> QED
    BY <2>1, <1>1, <1>3, Quiet, OneAccessSafe
<1> QED
  BY <1>5, <1>6

\* A reconcile that serves asks for access.
LEMMA AskStep ==
    ASSUME TypeInv, OneInstance, AccessOrder, NEW i \in Instances,
           obj.fin, obj.life # "absent", Creating(i), Creating(i)', pc'[i] # "access",
           obj' = obj, UNCHANGED <<collector, frontend>>, EnsureAccess
    PROVE  AccessOrder' /\ LifecycleStep
<1>1. AccessSafe(i) /\ Held \subseteq Held' /\ Held' \subseteq Requests /\ DeployedKinds' = DeployedKinds
  BY OneAccessSafe, SameHeld, KindsAndHeld DEF TypeInv
<1>2. \A r \in Requests : access[r] # "deleting"
  BY <1>1 DEF AccessSafe
<1>3. \A r \in Requests : access'[r] # "deleting"
  BY <1>2 DEF EnsureAccess, TypeInv, AccessTypeOK
<1>4. AccessSafe(i)'
  BY <1>3 DEF AccessSafe
<1>5. Stage = "serving" /\ Stage' = "serving"
  BY StageIs DEF StageOf
<1>6. Lifecycle!Acquire
  BY <1>1, <1>5 DEF Lifecycle!Acquire
<1> QED
  BY <1>4, <1>6, OneAccessSafe DEF LifecycleStep, Lifecycle!Next

(***************************************************************************)
(* The steps.                                                              *)
(***************************************************************************)

\* The steps of the generic loop.
LEMMA GenericLifecycle ==
    ASSUME TypeInv, Guarded, OneInstance, AccessOrder, NEW i \in Instances,
           GenericStep(i), MCPUntouched
    PROVE  AccessOrder' /\ (Safe => LifecycleStep)
<1>w. WorkerInv /\ ObjectInv /\ WorkerGuarded(i) /\ GlobalGuarded /\ AccessSafe(i)
  BY OneAccessSafe DEF TypeInv, Guarded
<1>j. job[i] \in Jobs /\ obj \in Objects /\ pc \in [Instances -> Pcs] /\ job \in [Instances -> Jobs]
  BY <1>w DEF WorkerInv, ObjectInv
<1>m. UNCHANGED <<collector, frontend>>
  BY DEF MCPUntouched
<1>l. Loaded(i).del = (obj.life = "deleting")
  BY DEF Loaded, NoJob
<1>o. obj.life \in {"absent", "live", "deleting"}
  BY <1>j DEF Objects
<1>1. CASE ObjectGone(i)
  <2>1. Creating(i)' = Creating(i) /\ UNCHANGED <<obj, access>> /\ pc'[i] = "idle"
    BY <1>1 DEF ObjectGone, Creating
  <2> QED
    BY <2>1, <1>m, OnwardStep
<1>2. CASE BeginWithoutConfig(i) \/ Begin(i)
  <2>1. /\ pc[i] = "idle" /\ pc'[i] \in {"status", "check", "finalizer"}
        /\ job'[i].del = (obj.life = "deleting") /\ obj.life # "absent" /\ UNCHANGED <<obj, access>>
    <3>1. CASE BeginWithoutConfig(i)
      BY <3>1, <1>j, <1>l DEF BeginWithoutConfig, GetObject, Goto
    <3>2. CASE Begin(i)
      BY <3>2, <1>j, <1>l DEF Begin, GetObject, Goto
    <3> QED
      BY <1>2, <3>1, <3>2
  <2>2. obj.life = "live" \/ (~Creating(i) /\ ~Creating(i)')
    BY <2>1, <1>o DEF Creating
  <2> QED
    BY <2>1, <2>2, <1>m, OnwardStep
<1>3. CASE AddFinalizer(i)
  <2>1. obj' = [obj EXCEPT !.fin = TRUE] /\ UNCHANGED access
    BY <1>3 DEF AddFinalizer, Store
  <2>2. obj'.fin = TRUE /\ obj'.life = obj.life /\ obj.life # "absent"
    BY <2>1, <1>3, <1>j DEF Objects, AddFinalizer
  <2>3. pc[i] = "finalizer" /\ ~job[i].del /\ pc'[i] = "access" /\ job'[i].del = FALSE
    BY <1>3, <1>j, <1>w DEF AddFinalizer, Goto, Jobs, WorkerGuarded
  <2>4. Creating(i) /\ Creating(i)'
    BY <2>3 DEF Creating
  <2>5. CASE obj.fin
    BY <2>1, <2>2, <2>3, <2>4, <2>5, <1>m, OnwardStep
  <2>6. CASE ~obj.fin
    <3>1. Stage = "serving" /\ Stage' = "serving"
      BY <2>2, <2>4, StageIs DEF StageOf
    <3>2. Held' = Held /\ DeployedKinds' = DeployedKinds
      BY <2>1, <1>m, SameHeld, KindsAndHeld DEF TypeInv
    <3>3. Lifecycle!Guard
      BY <3>1, <3>2, <2>2, <2>6, <1>j DEF Lifecycle!Guard, Objects
    <3>4. AccessSafe(i)'
      BY <2>1, <2>2, <2>3, <2>4, <1>w DEF AccessSafe
    <3> QED
      BY <3>3, <3>4, OneAccessSafe DEF LifecycleStep, Lifecycle!Next
  <2> QED
    BY <2>5, <2>6
<1>4. CASE AddFinalizerGone(i)
  <2>1. /\ pc[i] = "finalizer" /\ pc'[i] = "status" /\ job'[i].del = job[i].del
        /\ UNCHANGED <<obj, access>>
    BY <1>4, <1>j DEF AddFinalizerGone, Fail, Goto, Jobs
  <2>2. Creating(i)' = Creating(i)
    BY <2>1 DEF Creating
  <2> QED
    BY <2>1, <2>2, <1>m, OnwardStep
<1>5. CASE AccessReady(i)
  <2>1. /\ pc[i] = "access" /\ pc'[i] \in {"deleteDeployment", "namespace"}
        /\ job'[i].del = job[i].del /\ UNCHANGED <<obj, access>>
    BY <1>5, <1>j DEF AccessReady, Goto, Jobs
  <2>2. Creating(i)' = Creating(i)
    BY <2>1 DEF Creating
  <2> QED
    BY <2>1, <2>2, <1>m, OnwardStep
<1>6. CASE AccessPending(i)
  <2>1. pc[i] = "access" /\ obj.fin /\ obj.life # "absent" /\ EnsureAccess /\ obj' = obj
    BY <1>6, <1>w DEF AccessPending, WorkerGuarded, GlobalGuarded
  <2>2. CASE job[i].del
    <3>1. UNCHANGED access
      BY <2>1, <2>2, <1>w, SameHeld DEF AccessSafe, TypeInv
    <3>2. pc'[i] = "idle"
      BY <1>6, <2>2, <1>j DEF AccessPending, Finish
    <3> QED
      BY <2>1, <3>1, <3>2, <1>m, EndStep
  <2>3. CASE ~job[i].del
    <3>1. pc'[i] = "status" /\ job'[i].del = job[i].del
      BY <1>6, <2>3, <1>j DEF AccessPending, Goto, Jobs
    <3>2. Creating(i) /\ Creating(i)'
      BY <2>1, <2>3, <3>1 DEF Creating
    <3> QED
      BY <2>1, <3>1, <3>2, <1>m, AskStep
  <2> QED
    BY <2>2, <2>3
<1>7. CASE WriteStatus(i)
  <2>1. obj'.life = obj.life /\ obj'.fin = obj.fin
    <3>1. \A t \in BOOLEAN : Patched(i, t).life = obj.life /\ Patched(i, t).fin = obj.fin
      BY <1>w, PatchedType
    <3>2. PatchTimes(i) \subseteq BOOLEAN
      BY DEF PatchTimes
    <3> QED
      BY <1>7, <3>1, <3>2 DEF WriteStatus, Store
  <2>2. pc'[i] = "idle" /\ UNCHANGED access
    BY <1>7, <1>j DEF WriteStatus, Finish
  <2> QED
    BY <2>1, <2>2, <1>m, EndStep
<1>8. CASE CheckAccess(i)
  <2>1. /\ pc[i] = "check" /\ pc'[i] = IF InDeletion THEN "release" ELSE "access"
        /\ job'[i] = job[i] /\ UNCHANGED <<obj, access>>
    BY <1>8, <1>j DEF CheckAccess, Goto
  <2>2. Creating(i)' = Creating(i) /\ (pc'[i] = "access" => ~InDeletion)
    BY <2>1 DEF Creating
  <2> QED
    BY <2>1, <2>2, <1>m, OnwardStep
<1>9. CASE WriteTerminating(i)
  <2>1. obj'.life = obj.life /\ obj'.fin = obj.fin
    BY <1>9, <1>w, PatchedType DEF WriteTerminating, TerminatingStored, Store
  <2>2. UNCHANGED access
    BY <1>9 DEF WriteTerminating
  <2>3. CASE job[i].result = "error"
    <3>1. pc'[i] = "idle"
      BY <1>9, <2>3, <1>j DEF WriteTerminating, Finish
    <3> QED
      BY <3>1, <2>1, <2>2, <1>m, EndStep
  <2>4. CASE job[i].result # "error"
    <3>1. pc[i] = "terminating" /\ pc'[i] = "release" /\ job'[i].del = job[i].del
      BY <1>9, <2>4, <1>j DEF WriteTerminating, Goto, Jobs
    <3>2. Creating(i)' = Creating(i)
      BY <3>1 DEF Creating
    <3> QED
      BY <3>1, <3>2, <2>1, <2>2, <1>m, OnwardStep
  <2> QED
    BY <2>3, <2>4
<1>10. CASE Release(i)
  <2>1. pc[i] = "release" /\ obj.life = "deleting" /\ UNCHANGED obj
    BY <1>10, <1>w DEF Release, WorkerGuarded
  <2>2. CASE AllAbsent
    <3>1. pc'[i] = "drop" /\ job'[i] = job[i] /\ UNCHANGED access
      BY <1>10, <2>2, <1>j DEF Release, Goto
    <3>2. Creating(i)' = Creating(i)
      BY <2>1, <3>1 DEF Creating
    <3> QED
      BY <2>1, <3>1, <3>2, <1>m, OnwardStep
  <2>3. CASE ~AllAbsent
    <3>1. pc'[i] = "idle" /\ ReleaseAccess
      BY <1>10, <2>3, <1>j DEF Release, Finish
    <3> QED
      BY <2>1, <3>1, <1>m, EndStep
  <2> QED
    BY <2>2, <2>3
<1>11. CASE Drop(i)
  <2>1. /\ AllAbsent /\ UNCHANGED access
        /\ job[i].del /\ obj.life = "deleting" /\ pc'[i] = "idle"
    BY <1>11, <1>j, <1>w DEF Drop, Finish, WorkerGuarded
  <2>m. Safe => ~Managed
    BY <1>11 DEF Drop, Safe, WorkerSafe, WorkerClean
  <2>2. CASE obj' = obj
    BY <2>1, <2>2, <1>m, EndStep
  <2>3. CASE obj' = NoObject
    <3>1. ~Creating(i) /\ ~Creating(i)' /\ obj'.life = "absent" /\ obj'.fin = FALSE
      BY <2>1, <2>3 DEF Creating, NoObject
    <3>2. Stage = "draining" /\ Stage' = "absent"
      BY <2>1, <3>1, StageIs DEF StageOf
    <3>3. /\ Held = {} /\ Held' = {} /\ DeployedKinds' = DeployedKinds
          /\ Safe => DeployedKinds = {}
      BY <2>1, <2>m, <1>m, SameHeld, KindsAndHeld DEF TypeInv
    <3>4. Safe => Lifecycle!Finish
      BY <3>1, <3>2, <3>3 DEF Lifecycle!Finish
    <3>5. AccessSafe(i)'
      BY <2>1 DEF AccessSafe, AllAbsent
    <3> QED
      BY <3>4, <3>5, OneAccessSafe DEF LifecycleStep, Lifecycle!Next
  <2> QED
    BY <2>2, <2>3, <1>11 DEF Drop, Store
<1> QED
  BY <1>1, <1>2, <1>3, <1>4, <1>5, <1>6, <1>7, <1>8, <1>9, <1>10, <1>11 DEF GenericStep

\* The steps of the domain leave access alone.
LEMMA DomainAccess ==
    ASSUME TypeInv, OneInstance, AccessOrder, NEW i \in Instances, DomainStep(i)
    PROVE  /\ AccessOrder' /\ Stage' = Stage /\ Held' = Held
           /\ pc[i] \in CreatePcs \cup DeletePcs /\ UNCHANGED <<obj, access>>
<1>1. /\ Creating(i)' = Creating(i) /\ pc'[i] # "access" /\ UNCHANGED <<obj, access>>
      /\ pc[i] \in CreatePcs \cup DeletePcs
  BY DomainPath DEF Creating, CreatePcs, DeletePcs
<1>2. Stage' = Stage /\ Held' = Held
  BY <1>1, StageIs, SameHeld DEF StageOf, TypeInv
<1>3. AccessSafe(i)'
  BY <1>1, OneAccessSafe DEF AccessSafe, InDeletion
<1> QED
  BY <1>1, <1>2, <1>3, OneAccessSafe

\* The steps of the domain: it deploys only while serving, removes only while draining.
LEMMA DomainLifecycle ==
    ASSUME TypeInv, Safe, OneInstance, FixedNamespace, AccessOrder, NEW i \in Instances,
           DomainStep(i), UNCHANGED platformSecrets
    PROVE  LifecycleStep
<1>w. /\ WorkerInv /\ MCPTypeOK /\ WorkerSafe(i) /\ GlobalSafe
      /\ obj.life \in {"absent", "live", "deleting"}
  BY DEF TypeInv, Safe, ObjectInv, Objects
<1>j. /\ job[i] \in Jobs /\ pc \in [Instances -> Pcs] /\ job \in [Instances -> Jobs]
      /\ collector \in [Namespaces -> Deployments] /\ frontend \in [Namespaces -> Owners]
  BY <1>w DEF WorkerInv, MCPTypeOK
<1>k. /\ Stage' = Stage /\ Held' = Held
      /\ pc[i] \in CreatePcs \cup DeletePcs /\ UNCHANGED <<obj, access>>
  BY DomainAccess
<1>r. /\ Target(i) \in Namespaces
      /\ \A s \in Specs, c \in Configs : Resolve("namespace", s, c) = Target(i)
  <2>1. job[i].cfg \in Configs /\ job[i].obj.spec \in Specs
    BY <1>k, <1>w DEF WorkerInv, WorkerReady, CreatePcs, DeletePcs
  <2> QED
    BY <2>1, TargetType DEF FixedNamespace, Target
<1>h. \A ns \in Namespaces : ManagedAt(ns) => ns = Target(i)
  BY <1>r, <1>w, <1>k DEF GlobalSafe, GlobalClean, AtHome, WorkerInv, WorkerReady, CreatePcs, DeletePcs
<1>1. CASE EnsureNamespace(i) \/ WritePullSecret(i) \/ ReadPullSecret(i) \/ ReadConfigMap(i)
           \/ ReadSecret(i)
  <2>1. UNCHANGED <<collector, frontend>>
    BY <1>1 DEF EnsureNamespace, CreateNamespace, WritePullSecret, CopyPullSecret, ReadPullSecret,
                ReadConfigMap, ReadSecret, MCPUntouched
  <2> QED
    BY <2>1, <1>k, KindsAndHeld, Quiet
<1>2. CASE WriteDeployment(i) \/ WriteService(i)
  <2>1. pc[i] \in CreatePcs
    BY <1>2 DEF WriteDeployment, WriteService, CreatePcs
  <2>2. obj.fin = TRUE /\ obj.life # "absent" /\ AllGranted /\ Creating(i)
    BY <2>1, <1>w DEF WorkerSafe, GlobalSafe, WorkerGuarded, WorkerClean, GlobalGuarded, Creating, CreatePcs, TypeInv, ObjectInv, Objects
  <2>3. Stage = "serving" /\ Held = Requests
    BY <2>2, StageIs, KindsAndHeld DEF StageOf
  <2>4. \E k \in {"Deployment", "Service"} : DeployedKinds' = DeployedKinds \cup {k}
    <3>1. CASE WriteDeployment(i)
      <4>1. /\ collector'[Target(i)].owner = "provider" /\ frontend' = frontend
            /\ \A ns \in Namespaces : ns # Target(i) => collector'[ns] = collector[ns]
        BY <3>1, <1>j, <1>r DEF WriteDeployment, ReconcileDeployment, DesiredDeployment
      <4>2. DeployedKinds' = DeployedKinds \cup {"Deployment"}
        BY <4>1, <1>r DEF DeployedKinds
      <4> QED
        BY <4>2
    <3>2. CASE WriteService(i)
      <4>1. /\ frontend'[Target(i)] = "provider" /\ collector' = collector
            /\ \A ns \in Namespaces : ns # Target(i) => frontend'[ns] = frontend[ns]
        BY <3>2, <1>j, <1>r DEF WriteService, ReconcileService
      <4>2. DeployedKinds' = DeployedKinds \cup {"Service"}
        BY <4>1, <1>r DEF DeployedKinds
      <4> QED
        BY <4>2
    <3> QED
      BY <1>2, <3>1, <3>2
  <2>5. Lifecycle!Deploy
    BY <2>2, <2>3, <2>4, <1>k DEF Lifecycle!Deploy, Lifecycle!Kinds
  <2> QED
    BY <2>5 DEF LifecycleStep, Lifecycle!Next
<1>3. CASE RemoveDeployment(i) \/ RemoveService(i)
  <2>1. pc[i] \in DeletePcs
    BY <1>3 DEF RemoveDeployment, RemoveService, DeletePcs
  <2>2. obj.life = "deleting" /\ ~Creating(i)
    BY <2>1, <1>w DEF WorkerSafe, WorkerGuarded, Creating
  <2>3. Stage = "draining"
    BY <2>2, StageIs DEF StageOf
  <2>4. \E k \in {"Deployment", "Service"} : DeployedKinds' = DeployedKinds \ {k}
    <3>1. CASE RemoveDeployment(i)
      <4>1. frontend' = frontend /\ \A ns \in Namespaces : collector'[ns].owner # "provider"
        BY <3>1, <1>h, <1>j, <1>r DEF RemoveDeployment, DeleteDeployment, NoDeployment, ManagedAt
      <4>2. DeployedKinds' = DeployedKinds \ {"Deployment"}
        BY <4>1 DEF DeployedKinds
      <4> QED
        BY <4>2
    <3>2. CASE RemoveService(i)
      <4>1. collector' = collector /\ \A ns \in Namespaces : frontend'[ns] # "provider"
        BY <3>2, <1>h, <1>j, <1>r DEF RemoveService, DeleteService, ManagedAt
      <4>2. DeployedKinds' = DeployedKinds \ {"Service"}
        BY <4>1 DEF DeployedKinds
      <4> QED
        BY <4>2
    <3> QED
      BY <1>3, <3>1, <3>2
  <2>5. CASE Managed
    <3>1. Held = Requests
      BY <2>5, <1>w, KindsAndHeld DEF GlobalSafe, GlobalClean
    <3>2. Lifecycle!Undeploy
      BY <2>3, <2>4, <3>1, <1>k DEF Lifecycle!Undeploy, Lifecycle!Kinds
    <3> QED
      BY <3>2 DEF LifecycleStep, Lifecycle!Next
  <2>6. CASE ~Managed
    <3>1. DeployedKinds' = DeployedKinds
      BY <2>4, <2>6, KindsAndHeld
    <3> QED
      BY <3>1, <1>k, Quiet
  <2> QED
    BY <2>5, <2>6
<1> QED
  BY <1>1, <1>2, <1>3 DEF DomainStep

\* A call that fails: the reconcile goes on or ends, access as far as it came.
LEMMA FaultLifecycle ==
    ASSUME TypeInv, Guarded, OneInstance, AccessOrder, NEW i \in Instances,
           CallFails(i), MCPUntouched
    PROVE  AccessOrder' /\ LifecycleStep
<1>w. WorkerInv /\ WorkerGuarded(i) /\ GlobalGuarded /\ AccessSafe(i)
  BY OneAccessSafe DEF TypeInv, Guarded
<1>j. job[i] \in Jobs /\ pc \in [Instances -> Pcs] /\ job \in [Instances -> Jobs]
  BY <1>w DEF WorkerInv
<1>m. UNCHANGED <<collector, frontend>>
  BY DEF MCPUntouched
<1>o. UNCHANGED obj
  BY DEF CallFails, GetFails, CreateOrUpdateFails, AccessFails, DeleteFails, DomainDeleteFails,
         PatchLost, TerminatingPatchLost
<1>1. CASE GetFails(i)
  <2>1. Creating(i)' = Creating(i) /\ UNCHANGED access /\ pc'[i] = "idle"
    BY <1>1 DEF GetFails, Creating
  <2> QED
    BY <2>1, <1>m, <1>o, OnwardStep
<1>2. CASE CreateOrUpdateFails(i) \/ DomainDeleteFails(i)
  <2>1. /\ pc[i] # "idle" /\ pc'[i] \in {"status", "terminating"}
        /\ job'[i].del = job[i].del /\ UNCHANGED access
    BY <1>2, <1>j DEF CreateOrUpdateFails, DomainDeleteFails, Fail, Goto, Jobs, CreatePcs, DeletePcs
  <2>2. Creating(i)' = Creating(i)
    BY <2>1 DEF Creating
  <2> QED
    BY <2>1, <2>2, <1>m, <1>o, OnwardStep
<1>3. CASE AccessFails(i)
  <2>1. /\ pc[i] = "access" /\ ~job[i].del /\ pc'[i] = "status" /\ job'[i].del = job[i].del
        /\ EnsureAccess \/ UNCHANGED access
    BY <1>3, <1>j DEF AccessFails, Goto, Jobs
  <2>2. Creating(i) /\ Creating(i)' /\ obj.fin /\ obj.life # "absent"
    BY <2>1, <1>w DEF Creating, WorkerGuarded, GlobalGuarded
  <2>3. CASE UNCHANGED access
    BY <2>1, <2>2, <2>3, <1>m, <1>o, OnwardStep
  <2>4. CASE EnsureAccess
    BY <2>1, <2>2, <2>4, <1>m, <1>o, AskStep
  <2> QED
    BY <2>1, <2>3, <2>4
<1>4. CASE DeleteFails(i)
  <2>1. pc'[i] = "idle" /\ job[i].del /\ obj.life = "deleting"
    BY <1>4, <1>j, <1>w DEF DeleteFails, Finish, WorkerGuarded
  <2>2. pc[i] = "access" /\ EnsureAccess => UNCHANGED access
    BY <2>1, <1>w, SameHeld DEF AccessSafe, TypeInv
  <2>3. UNCHANGED access \/ ReleaseAccess
    BY <2>2, <1>4 DEF DeleteFails
  <2> QED
    BY <2>1, <2>3, <1>m, <1>o, EndStep
<1>5. CASE PatchLost(i)
  <2>1. pc'[i] = "idle" /\ UNCHANGED access
    BY <1>5, <1>j DEF PatchLost, Finish
  <2> QED
    BY <2>1, <1>m, <1>o, EndStep
<1>6. CASE TerminatingPatchLost(i)
  <2>1. /\ UNCHANGED access /\ pc[i] = "terminating"
        /\ pc'[i] = "idle" \/ (pc'[i] = "release" /\ job'[i] = job[i])
    BY <1>6, <1>j DEF TerminatingPatchLost, Goto, Finish
  <2>2. pc'[i] = "release" /\ job'[i] = job[i] => Creating(i)' = Creating(i)
    BY <2>1 DEF Creating
  <2> QED
    BY <2>1, <2>2, <1>m, <1>o, OnwardStep, EndStep
<1> QED
  BY <1>1, <1>2, <1>3, <1>4, <1>5, <1>6 DEF CallFails

\* Whoever leaves object, workers and access alone and makes nothing the provider's.
LEMMA ElsewhereLifecycle ==
    ASSUME AccessOrder, UNCHANGED <<pc, job, obj, access>>, DeployedKinds' = DeployedKinds
    PROVE  AccessOrder' /\ LifecycleStep
<1>1. Stage' = Stage /\ Held' = Held
  BY DEF Stage, Held, Creating
<1>2. AccessOrder'
  BY DEF AccessOrder, InDeletion, Creating
<1> QED
  BY <1>1, <1>2, Quiet

\* Without drift, users of the MCP neither make nor remove what is the provider's.
LEMMA ControlPlaneUserKinds ==
    ASSUME MCPTypeOK, ControlPlaneUser, "drift" \notin Disturbances
    PROVE  DeployedKinds' = DeployedKinds
<1>n. /\ collector \in [Namespaces -> Deployments] /\ frontend \in [Namespaces -> Owners]
      /\ namespaces \subseteq Namespaces
  BY DEF MCPTypeOK
<1>1. \A ns \in Namespaces :
        /\ collector'[ns].owner = "provider" <=> collector[ns].owner = "provider"
        /\ frontend'[ns] = "provider" <=> frontend[ns] = "provider"
  <2>1. CASE UserMakesNamespace \/ UserWritesConfigMap \/ UserWritesSecret
    BY <2>1 DEF UserMakesNamespace, CreateNamespace, UserWritesConfigMap, UserWritesSecret, CopyPullSecret
  <2>2. CASE UserMakesDeployment
    BY <2>2, <1>n DEF UserMakesDeployment, ReconcileDeployment, NoDeployment
  <2>3. CASE UserMakesService
    BY <2>3, <1>n DEF UserMakesService
  <2> QED
    BY <2>1, <2>2, <2>3 DEF ControlPlaneUser, Disturb
<1> QED
  BY <1>1 DEF DeployedKinds

\* Users of the onboarding API.
LEMMA UserLifecycle ==
    ASSUME TypeInv, Guarded, AccessOrder, User
    PROVE  AccessOrder' /\ LifecycleStep
<1>o. obj \in Objects /\ GlobalGuarded
  BY DEF TypeInv, ObjectInv, Guarded
<1>1. UNCHANGED <<pc, job, access, collector, frontend>>
  BY DEF User, CreateObject, EditObject, DeleteObject, MCPUntouched
<1>2. /\ Held' = Held /\ DeployedKinds' = DeployedKinds
      /\ \A i \in Instances : Creating(i)' = Creating(i)
  BY <1>1, SameHeld, KindsAndHeld DEF TypeInv, Creating
<1>3. obj.life = "deleting" => obj'.life = "deleting"
  BY <1>o DEF User, CreateObject, EditObject, DeleteObject, Store, Objects
<1>4. AccessOrder'
  BY <1>1, <1>2, <1>3 DEF AccessOrder, InDeletion
<1>5. CASE CreateObject
  <2>1. obj.life = "absent" /\ obj'.life = "live" /\ obj.fin = FALSE /\ obj'.fin = FALSE
    BY <1>5, <1>o DEF CreateObject, Store, NewObject, NoObject, GlobalGuarded, Objects
  <2>2. Stage = "absent" /\ Stage' = "serving"
    BY <2>1 DEF Stage
  <2>3. Lifecycle!Create
    BY <2>1, <2>2, <1>2 DEF Lifecycle!Create
  <2> QED
    BY <2>3, <1>4 DEF LifecycleStep, Lifecycle!Next
<1>6. CASE EditObject
  <2>1. obj'.life = obj.life /\ obj'.fin = obj.fin
    BY <1>6, <1>o DEF EditObject, Store, Objects
  <2>2. Stage' = Stage
    BY <2>1, <1>1 DEF Stage, Creating
  <2> QED
    BY <2>1, <2>2, <1>2, <1>4, Quiet
<1>7. CASE DeleteObject
  <2>1. obj.life = "live" /\ Stage = "serving"
    BY <1>7 DEF DeleteObject, Stage
  <2>2. CASE obj.fin
    <3>1. obj'.life = "deleting" /\ obj'.fin = obj.fin
      BY <1>7, <2>2, <1>o DEF DeleteObject, Store, Objects
    <3>2. Stage' = "draining" \/ Stage' = Stage
      BY <2>1, <3>1 DEF Stage
    <3>3. Stage' = "draining" => Lifecycle!Drain
      BY <2>1, <2>2, <3>1, <1>2 DEF Lifecycle!Drain
    <3> QED
      BY <3>1, <3>2, <3>3, <1>2, <1>4, Quiet DEF LifecycleStep, Lifecycle!Next
  <2>3. CASE ~obj.fin
    <3>1. obj'.life = "absent" /\ obj'.fin = FALSE /\ obj.fin = FALSE
      BY <1>7, <2>3, <1>o DEF DeleteObject, Store, NoObject, Objects
    <3>2. Stage' = "absent"
      BY <3>1 DEF Stage
    <3>3. Lifecycle!Leave
      BY <2>1, <3>1, <3>2, <1>2 DEF Lifecycle!Leave
    <3> QED
      BY <3>3, <1>4 DEF LifecycleStep, Lifecycle!Next
  <2> QED
    BY <2>2, <2>3
<1> QED
  BY <1>5, <1>6, <1>7 DEF User

\* The platform grants requests, which are held already, and finishes the deletion of
\* those that a draining service gave up.
LEMMA PlatformLifecycle ==
    ASSUME TypeInv, AccessOrder, Platform
    PROVE  AccessOrder' /\ (Safe => LifecycleStep)
<1>1. PICK r \in Requests : AccessGranted(r) \/ AccessGone(r)
  BY DEF Platform
<1>2. /\ UNCHANGED <<pc, job, obj, collector, frontend>> /\ DeployedKinds' = DeployedKinds
      /\ access \in [Requests -> {"absent", "pending", "granted", "deleting"}]
  BY KindsAndHeld DEF Platform, spVars, MCPUntouched, TypeInv, AccessTypeOK
<1>3. Stage' = Stage
  BY <1>2 DEF Stage, Creating
<1>4. CASE AccessGranted(r)
  <2>1. Held' = Held
    BY <1>2, <1>4 DEF AccessGranted, Held
  <2>2. AccessOrder'
    BY <1>2, <1>4 DEF AccessGranted, AccessOrder, InDeletion, Creating
  <2> QED
    BY <2>1, <2>2, <1>2, <1>3, Quiet
<1>5. CASE AccessGone(r)
  <2>1. obj.life = "deleting" /\ \A i \in Instances : ~Creating(i)
    BY <1>5 DEF AccessGone, AccessOrder
  <2>2. Stage = "draining"
    BY <2>1 DEF Stage
  <2>3. ~AllGranted
    BY <1>5 DEF AccessGone, AllGranted
  <2>4. Safe => DeployedKinds = {}
    BY <2>3, KindsAndHeld DEF Safe, GlobalSafe, GlobalClean
  <2>5. r \in Held /\ Held' = Held \ {r}
    BY <1>2, <1>5 DEF AccessGone, Held
  <2>6. Safe => Lifecycle!Release
    BY <2>2, <2>4, <2>5, <1>2, <1>3 DEF Lifecycle!Release
  <2>7. InDeletion /\ UNCHANGED <<pc, job, obj>>
    BY <1>2, <1>5 DEF AccessGone, InDeletion
  <2>8. AccessOrder'
    BY <2>1, <2>7 DEF AccessOrder, Creating
  <2> QED
    BY <2>6, <2>8 DEF LifecycleStep, Lifecycle!Next
<1> QED
  BY <1>1, <1>4, <1>5

\* Initial states are initial states of the life cycle.
LEMMA InitLifecycle == Init => AccessOrder /\ Lifecycle!Init
<1> SUFFICES ASSUME Init PROVE AccessOrder /\ Lifecycle!Init
  OBVIOUS
<1>1. \A r \in Requests : access[r] = "absent"
  BY DEF Init, AccessInit
<1>2. \A i \in Instances : pc[i] = "idle"
  BY DEF Init, SPInit
<1>3. AccessOrder
  BY <1>1, <1>2 DEF AccessOrder
<1>4. obj.life \in {"absent", "live"} /\ obj.fin = FALSE
  <2>1. NoObject.life = "absent" /\ NoObject.fin = FALSE
    BY DEF NoObject
  <2>2. ASSUME NEW t \in Specs PROVE NewObject(t).life = "live" /\ NewObject(t).fin = FALSE
    BY DEF NewObject, NoObject
  <2>3. obj = NoObject \/ \E t \in Specs : obj = NewObject(t)
    BY DEF Init, SPInit
  <2> QED
    BY <2>1, <2>2, <2>3
<1>5. Stage \in {"absent", "serving"}
  BY <1>4 DEF Stage
<1>6. Held = {} /\ DeployedKinds = {}
  BY <1>1 DEF Held, DeployedKinds, Init, MCPInit, NoDeployment
<1> QED
  BY <1>3, <1>4, <1>5, <1>6 DEF Lifecycle!Init

\* Every step keeps the order of access and is a step of the life cycle.
LEMMA NextLifecycle ==
    ASSUME OneInstance, "revoke" \notin Disturbances, TypeInv, Guarded, AccessOrder, [Next]_vars
    PROVE  /\ AccessOrder'
           /\ FixedNamespace /\ Safe /\ "drift" \notin Disturbances => LifecycleStep
<1>e. ASSUME UNCHANGED <<pc, job, obj, access>>, MCPUntouched PROVE AccessOrder' /\ LifecycleStep
  BY <1>e, ElsewhereLifecycle, KindsAndHeld DEF MCPUntouched
<1>1. ASSUME NEW i \in Instances, Worker(i)
      PROVE  AccessOrder' /\ (FixedNamespace /\ Safe => LifecycleStep)
  BY <1>1, DomainAccess, DomainLifecycle, GenericLifecycle DEF Worker, WorkerStep, Untouched
<1>2. ASSUME NEW i \in Instances, Fault(i) PROVE AccessOrder' /\ LifecycleStep
  BY <1>2, FaultLifecycle DEF Fault
<1>3. ASSUME NEW i \in Instances, Timer(i) PROVE AccessOrder' /\ LifecycleStep
  BY <1>3, <1>e DEF Timer, TimerFires
<1>4. ASSUME NEW i \in Instances, DeliverConfig(i) \/ MissConfig(i)
      PROVE  AccessOrder' /\ LifecycleStep
  BY <1>4, <1>e DEF DeliverConfig, MissConfig, StoreConfig
<1>5. ASSUME NEW i \in Instances, Crash(i) PROVE AccessOrder' /\ LifecycleStep
  <2>1. pc'[i] = "idle" /\ UNCHANGED <<obj, access, collector, frontend>>
    BY <1>5 DEF Crash, Restart, MCPUntouched, TypeInv, WorkerInv
  <2> QED
    BY <2>1, EndStep
<1>6. CASE EditConfig \/ EditPlatformSecret
  BY <1>6, <1>e DEF EditConfig, EditPlatformSecret, spVars
<1>7. ASSUME Platform PROVE AccessOrder' /\ (Safe => LifecycleStep)
  BY <1>7, PlatformLifecycle
<1>8. CASE Revoke
  BY <1>8 DEF Revoke, Disturb
<1>9. CASE User
  BY <1>9, UserLifecycle
<1>10. ASSUME ControlPlaneUser PROVE AccessOrder' /\ ("drift" \notin Disturbances => LifecycleStep)
  <2>1. UNCHANGED <<pc, job, obj, access>> /\ MCPTypeOK
    BY <1>10 DEF ControlPlaneUser, spVars, TypeInv
  <2>2. AccessOrder'
    BY <2>1 DEF AccessOrder, InDeletion, Creating
  <2> QED
    BY <2>1, <2>2, <1>10, ControlPlaneUserKinds, ElsewhereLifecycle
<1>11. CASE UNCHANGED vars
  BY <1>11, <1>e DEF vars, spVars, mcpVars, MCPUntouched
<1> QED
  BY <1>1, <1>2, <1>3, <1>4, <1>5, <1>6, <1>7, <1>8, <1>9, <1>10, <1>11 DEF Next

\* Who changes access, and how: clusters(), ReconcileDelete and the platform.
LEMMA AccessEffect ==
    ASSUME [Next]_vars, "revoke" \notin Disturbances
    PROVE  \/ UNCHANGED access
           \/ \E i \in Instances : pc[i] = "access" /\ EnsureAccess
           \/ ReleaseAccess
           \/ \E r \in Requests : AccessGranted(r) \/ AccessGone(r)
<1>1. ASSUME NEW i \in Instances, Worker(i)
      PROVE  UNCHANGED access \/ (pc[i] = "access" /\ EnsureAccess) \/ ReleaseAccess
  <2>1. CASE DomainStep(i)
    BY <2>1 DEF DomainStep, EnsureNamespace, ReadPullSecret, WritePullSecret, ReadConfigMap, ReadSecret,
                WriteDeployment, WriteService, RemoveDeployment, RemoveService, Local
  <2>2. CASE GenericStep(i)
    BY <2>2 DEF GenericStep, ObjectGone, BeginWithoutConfig, Begin, GetObject, AddFinalizer,
                AddFinalizerGone, AccessReady, AccessPending, WriteStatus, CheckAccess,
                WriteTerminating, Release, Drop
  <2> QED
    BY <1>1, <2>1, <2>2 DEF Worker, WorkerStep
<1>2. ASSUME NEW i \in Instances, Fault(i)
      PROVE  UNCHANGED access \/ (pc[i] = "access" /\ EnsureAccess) \/ ReleaseAccess
  BY <1>2 DEF Fault, CallFails, GetFails, CreateOrUpdateFails, AccessFails, DeleteFails,
              DomainDeleteFails, PatchLost, TerminatingPatchLost
<1>3. ASSUME NEW i \in Instances, Timer(i) \/ DeliverConfig(i) \/ MissConfig(i) \/ Crash(i)
      PROVE  UNCHANGED access
  BY <1>3 DEF Timer, DeliverConfig, MissConfig, Crash
<1>4. CASE EditConfig \/ EditPlatformSecret \/ User \/ ControlPlaneUser \/ UNCHANGED vars
  BY <1>4 DEF EditConfig, EditPlatformSecret, User, ControlPlaneUser, vars
<1>5. CASE Platform
  BY <1>5 DEF Platform
<1>6. CASE Revoke
  BY <1>6 DEF Revoke, Disturb
<1> QED
  BY <1>1, <1>2, <1>3, <1>4, <1>5, <1>6 DEF Next

\* Access is given up only for a service that nobody serves any more, and a reconcile
\* that deletes asks for access only while none has been given up (delete).
THEOREM AccessIsOrdered ==
    ASSUME OneInstance, "revoke" \notin Disturbances
    PROVE  Spec => []AccessOrder
<1>1. Init => TypeInv /\ Guarded /\ AccessOrder
  BY InitTypes, InitGuarded, InitLifecycle
<1>2. TypeInv /\ Guarded /\ AccessOrder /\ [Next]_vars => (TypeInv /\ Guarded /\ AccessOrder)'
  BY NextTypes, NextGuarded, NextLifecycle
<1> QED
  BY <1>1, <1>2, PTL DEF Spec

\* A reconcile that deletes asks for nothing once a request is absent or in deletion
\* (areAccessRequestsInDeletion is asked before clusters(); nobody else may change the
\* answer in between).
THEOREM NoRenewal ==
    ASSUME OneInstance, "revoke" \notin Disturbances
    PROVE  Spec => NoRenewalWhileDeleting
<1>1. Init => TypeInv /\ Guarded /\ AccessOrder
  BY InitTypes, InitGuarded, InitLifecycle
<1>2. TypeInv /\ Guarded /\ AccessOrder /\ [Next]_vars => (TypeInv /\ Guarded /\ AccessOrder)'
  BY NextTypes, NextGuarded, NextLifecycle
<1>3. TypeInv /\ AccessOrder /\ [Next]_vars =>
        [\A i \in Instances, r \in Requests :
            job[i].del /\ access[r] \in {"absent", "deleting"} => access'[r] # "pending"]_vars
  <2> SUFFICES ASSUME TypeInv, AccessOrder, [Next]_vars, NEW i \in Instances, NEW r \in Requests,
                      job[i].del, access[r] \in {"absent", "deleting"}
               PROVE  access'[r] # "pending"
    OBVIOUS
  <2>1. access \in [Requests -> {"absent", "pending", "granted", "deleting"}]
    BY DEF TypeInv, AccessTypeOK
  <2>2. ASSUME NEW k \in Instances, pc[k] = "access" PROVE FALSE
    <3>1. k = i
      BY DEF OneInstance
    <3> QED
      BY <2>2, <3>1 DEF AccessOrder, InDeletion
  <2>3. CASE ReleaseAccess
    BY <2>3 DEF ReleaseAccess
  <2>4. ASSUME NEW q \in Requests, AccessGranted(q) \/ AccessGone(q)
        PROVE  access'[r] # "pending"
    BY <2>1, <2>4 DEF AccessGranted, AccessGone
  <2> QED
    BY <2>2, <2>3, <2>4, AccessEffect
<1> QED
  BY <1>1, <1>2, <1>3, PTL DEF Spec, NoRenewalWhileDeleting

\* The provider implements the life cycle: createOrUpdate sets finalizer, access and
\* resources up in this order, delete takes them down in the reverse order and to the
\* end, whatever fails, crashes or is edited in between.
THEOREM LifecycleImplemented ==
    ASSUME OneInstance, FixedNamespace, "revoke" \notin Disturbances, "drift" \notin Disturbances
    PROVE  Spec => ImplementsLifecycle
<1>1. Init => TypeInv /\ Safe /\ AccessOrder /\ Lifecycle!Init
  BY InitTypes, InitSafe, InitLifecycle
<1>2. TypeInv /\ Safe /\ AccessOrder /\ [Next]_vars
        => /\ (TypeInv /\ Safe /\ AccessOrder)'
           /\ [Lifecycle!Next]_Lifecycle!vars
  BY NextTypes, NextSafe, NextLifecycle, SafeIsGuarded DEF LifecycleStep
<1> QED
  BY <1>1, <1>2, PTL DEF Spec, ImplementsLifecycle, Lifecycle!Spec
=============================================================================
