----------------------------- MODULE SettledProofs -----------------------------
(***************************************************************************)
(* Reconciles of a collector that runs as it should are idempotent, for    *)
(* any number of instances that reconcile it at the same time.             *)
(*                                                                         *)
(* Each call of a reconcile that is in step writes what is already there,  *)
(* and what it has read and computed is what the next call needs.          *)
(***************************************************************************)
EXTENDS ServiceProviderProofs

\* What Settled says of the object may not change, nor anything else it speaks of
ObjectStays ==
    /\ obj'.life = obj.life /\ obj'.spec = obj.spec /\ obj'.gen = obj.gen
    /\ obj'.status.phase = obj.status.phase /\ obj'.status.observed = obj.status.observed

WorldStays == UNCHANGED <<access, configMap, secrets, collector, frontend, platformSecrets, config>>

\* The namespace of the collector
Home == Resolve("namespace", obj.spec, config)

\* A reconcile about to make the call p with the locals j is in step
CarriesOn(p, j) ==
    /\ p \in CreatePcs \cup {"finalizer", "access", "status"} /\ ~j.del
    /\ j.cfg = config
    /\ p \in CreatePcs \cup {"access"} => j.obj.spec = obj.spec /\ j.obj.gen = obj.gen
    /\ p \in {"namespace", "readPull", "writePull"} =>
         \A k \in DOMAIN j.pull : \E m \in DOMAIN config.pullSecrets :
             j.pull[k] = config.pullSecrets[m]
    /\ p = "writePull" => j.src = platformSecrets[Head(j.pull)]
    /\ p = "secret" => j.conf = configMap[Home]
    /\ p = "deployment" => j.hash = ConfigHashOf(configMap[Home], secrets[Home][CollectorSecret])
    /\ p = "status" => j.obj.status.phase = "Ready" /\ j.obj.status.observed = obj.gen

\* Every call of the loop by name.
LEMMA PcNames ==
    /\ CreatePcs = {"namespace", "readPull", "writePull", "configMap", "secret", "deployment", "service"}
    /\ CreatePcs \cup {"finalizer", "access", "status"} \subseteq Pcs \ {"idle"}
    /\ DeletePcs \cup {"check", "terminating", "release", "drop"}
         \subseteq Pcs \ (CreatePcs \cup {"finalizer", "access", "status", "idle"})
BY DEF Pcs, CreatePcs, DeletePcs

\* InStep, for the reconcile an instance is at.
LEMMA InStepIs ==
    ASSUME NEW i \in Instances
    PROVE  InStep(i) <=> cached[i] = config /\ (pc[i] # "idle" => CarriesOn(pc[i], job[i]))
BY PcNames DEF InStep, CarriesOn, Home

-----------------------------------------------------------------------------

\* The collector runs on, if nothing it depends on changes.
LEMMA RunsOn ==
    ASSUME Settled, ObjectStays, WorldStays
    PROVE  (Provided /\ AllGranted /\ Running)'
<1>1. Provided'
  BY DEF Settled, Provided, Configured, ObjectStays, WorldStays
<1>2. AllGranted'
  BY DEF Settled, AllGranted, WorldStays
<1>3. Running'
  BY DEF Settled, Running, ObjectStays, WorldStays
<1> QED
  BY <1>1, <1>2, <1>3

\* An instance that does nothing stays in step.
LEMMA OthersInStep ==
    ASSUME NEW k \in Instances, InStep(k), ObjectStays, WorldStays,
           pc'[k] = pc[k], job'[k] = job[k], cached'[k] = cached[k]
    PROVE  InStep(k)'
BY DEF InStep, ObjectStays, WorldStays

\* A reconcile that goes on in step.
LEMMA GotoSettled ==
    ASSUME WorkerInv, Settled, ObjectStays, WorldStays, NEW i \in Instances, NEW label, NEW j,
           Goto(i, label, j), CarriesOn(label, j)
    PROVE  Settled'
<1>1. InStep(i)'
  <2>1. pc'[i] = label /\ job'[i] = j /\ cached'[i] = config'
    BY DEF WorkerInv, Goto, Settled, InStep, WorldStays
  <2>2. Home' = Home
    BY DEF Home, ObjectStays, WorldStays
  <2> QED
    BY <2>1, <2>2, PcNames DEF InStep, CarriesOn, Home, ObjectStays, WorldStays
<1>2. ASSUME NEW k \in Instances, k # i PROVE InStep(k)'
  BY <1>2, OthersInStep DEF WorkerInv, Goto, Settled
<1> QED
  BY <1>1, <1>2, RunsOn DEF Settled

\* A reconcile that ends.
LEMMA FinishSettled ==
    ASSUME WorkerInv, Settled, ObjectStays, WorldStays, NEW i \in Instances, NEW r, Finish(i, r)
    PROVE  Settled'
<1>1. InStep(i)'
  <2>1. pc'[i] = "idle" /\ cached'[i] = config'
    BY DEF WorkerInv, Finish, Settled, InStep, WorldStays
  <2> QED
    BY <2>1, PcNames DEF InStep
<1>2. ASSUME NEW k \in Instances, k # i PROVE InStep(k)'
  BY <1>2, OthersInStep DEF WorkerInv, Finish, Settled
<1> QED
  BY <1>1, <1>2, RunsOn DEF Settled

\* A patch of a status that says Ready for the current generation, on one that says so:
\* whatever two reconciles have read before, it leaves that as it is.
LEMMA PatchKeepsReady ==
    ASSUME TypeInv, Settled, NEW i \in Instances, pc[i] = "status", NEW t \in BOOLEAN
    PROVE  /\ Patched(i, t).status.phase = obj.status.phase
           /\ Patched(i, t).status.observed = obj.status.observed
           /\ Patched(i, t).life = obj.life /\ Patched(i, t).spec = obj.spec
           /\ Patched(i, t).gen = obj.gen
<1>1. /\ obj.status.phase = "Ready" /\ obj.status.observed = obj.gen
      /\ job[i].obj.status.phase = "Ready" /\ job[i].obj.status.observed = obj.gen
  BY DEF Settled, Running, InStep
<1>2. /\ Patched(i, t).status = MergePatch(obj.status, job[i].old, job[i].obj.status, t)
      /\ Patched(i, t).life = obj.life /\ Patched(i, t).spec = obj.spec
      /\ Patched(i, t).gen = obj.gen
  BY DEF TypeInv, ObjectInv, Objects, Patched
<1>3. /\ MergePatch(obj.status, job[i].old, job[i].obj.status, t).phase \in
           {obj.status.phase, job[i].obj.status.phase}
      /\ MergePatch(obj.status, job[i].old, job[i].obj.status, t).observed \in
           {obj.status.observed, job[i].obj.status.observed}
  BY DEF MergePatch
<1> QED
  BY <1>1, <1>2, <1>3

-----------------------------------------------------------------------------

\* The steps of the generic loop: it begins, or goes on in step; it deletes nothing.
LEMMA GenericSettled ==
    ASSUME TypeInv, Settled, NEW i \in Instances, GenericStep(i), MCPUntouched,
           UNCHANGED <<platformSecrets, config>>
    PROVE  Settled'
<1> USE DEF TypeInv
<1>s. /\ obj.life = "live" /\ config # NoConfig /\ AllGranted
      /\ obj.status.phase = "Ready" /\ obj.status.observed = obj.gen
      /\ cached[i] = config /\ (pc[i] # "idle" => CarriesOn(pc[i], job[i]))
  BY InStepIs DEF Settled, Provided, Configured, Running
<1>t. /\ obj \in Objects /\ job[i] \in Jobs /\ job[i].obj \in Objects
      /\ obj = [obj EXCEPT !.life = "live"]
  BY <1>s DEF ObjectInv, WorkerInv, Jobs, Objects
<1>w. UNCHANGED access => WorldStays
  BY DEF WorldStays, MCPUntouched
<1>o. UNCHANGED obj => ObjectStays
  BY DEF ObjectStays
<1>c. /\ ~ObjectGone(i) /\ ~BeginWithoutConfig(i) /\ ~AddFinalizerGone(i) /\ ~AccessPending(i)
      /\ ~CheckAccess(i) /\ ~WriteTerminating(i) /\ ~Release(i) /\ ~Drop(i)
  BY <1>s, PcNames DEF CarriesOn, ObjectGone, BeginWithoutConfig, AddFinalizerGone, AccessPending,
                       CheckAccess, WriteTerminating, Release, Drop
<1>1. CASE Begin(i)
  <2>1. Loaded(i).cfg = config /\ ~Loaded(i).del
    BY <1>s DEF Loaded, NoJob
  <2>2. CarriesOn("finalizer", Loaded(i))
    BY <2>1, PcNames DEF CarriesOn
  <2>3. Goto(i, "finalizer", Loaded(i)) /\ UNCHANGED <<obj, access>>
    BY <1>1, <1>s DEF Begin, GetObject
  <2> QED
    BY <2>2, <2>3, <1>w, <1>o, GotoSettled
<1>2. CASE AddFinalizer(i)
  <2> DEFINE o == [obj EXCEPT !.fin = TRUE]
  <2>1. PICK m : Goto(i, "access", [job[i] EXCEPT !.obj = o, !.moved = m])
    BY <1>2 DEF AddFinalizer
  <2>2. /\ o.life = obj.life /\ o.spec = obj.spec /\ o.gen = obj.gen /\ o.status = obj.status
    BY <1>t DEF Objects
  <2>3. obj' \in {o, obj} /\ UNCHANGED access
    BY <1>2 DEF AddFinalizer, Store
  <2>4. ObjectStays
    BY <2>2, <2>3 DEF ObjectStays
  <2> DEFINE j == [job[i] EXCEPT !.obj = o, !.moved = m]
  <2>5. j.obj = o /\ j.del = job[i].del /\ j.cfg = job[i].cfg
    BY <1>t DEF Jobs
  <2>6. pc[i] = "finalizer"
    BY <1>2 DEF AddFinalizer
  <2>7. CarriesOn("access", j)
    BY <2>2, <2>5, <2>6, <1>s, PcNames DEF CarriesOn
  <2> QED
    BY <2>1, <2>3, <2>4, <2>7, <1>w, GotoSettled
<1>3. CASE AccessReady(i)
  <2> DEFINE j == [job[i] EXCEPT !.obj = StatusProgressing(@, "InProgress"), !.pull = job[i].cfg.pullSecrets]
  <2>1. /\ j.obj = StatusProgressing(job[i].obj, "InProgress") /\ j.pull = job[i].cfg.pullSecrets
        /\ j.del = job[i].del /\ j.cfg = job[i].cfg
    BY <1>t DEF Jobs
  <2>2. /\ StatusProgressing(job[i].obj, "InProgress").spec = job[i].obj.spec
        /\ StatusProgressing(job[i].obj, "InProgress").gen = job[i].obj.gen
    BY <1>t DEF StatusProgressing, Reported, Objects
  <2>3. pc[i] = "access" /\ CarriesOn("access", job[i])
    BY <1>3, <1>s DEF AccessReady
  <2>4. Goto(i, "namespace", j) /\ UNCHANGED <<obj, access>>
    BY <1>3, <2>3 DEF AccessReady, CarriesOn
  <2> HIDE DEF j
  <2>5. CarriesOn("namespace", j)
    BY <2>1, <2>2, <2>3, PcNames DEF CarriesOn
  <2> QED
    BY <2>4, <2>5, <1>w, <1>o, GotoSettled
<1>4. CASE WriteStatus(i)
  <2>1. pc[i] = "status" /\ UNCHANGED access /\ Finish(i, job[i].result)
    BY <1>4 DEF WriteStatus
  <2>2. PICK t \in BOOLEAN : obj' \in {obj, Patched(i, t)}
    BY <1>4 DEF WriteStatus, Store, PatchTimes
  <2>3. ObjectStays
    BY <2>1, <2>2, PatchKeepsReady DEF ObjectStays
  <2> QED
    BY <2>1, <2>3, <1>w, FinishSettled
<1> QED
  BY <1>1, <1>2, <1>3, <1>4, <1>c DEF GenericStep

\* The calls of the domain: each writes what is there already.
LEMMA DomainSettled ==
    ASSUME TypeInv, Settled, NEW i \in Instances, DomainStep(i), UNCHANGED <<platformSecrets, config>>
    PROVE  Settled' /\ UNCHANGED <<configMap, secrets, collector, frontend>>
<1> USE DEF TypeInv
<1>s. CarriesOn(pc[i], job[i])
  <2>1. pc[i] # "idle"
    BY DEF DomainStep, EnsureNamespace, ReadPullSecret, WritePullSecret, ReadConfigMap, ReadSecret,
           WriteDeployment, WriteService, RemoveDeployment, RemoveService
  <2> QED
    BY <2>1, InStepIs DEF Settled
<1>t. job[i] \in Jobs /\ job[i].obj \in Objects /\ job[i].pull \in Seq(SecretNames)
  BY DEF WorkerInv, Jobs
<1>l. ObjectStays /\ UNCHANGED access
  BY DEF DomainStep, EnsureNamespace, ReadPullSecret, WritePullSecret, ReadConfigMap, ReadSecret,
         WriteDeployment, WriteService, RemoveDeployment, RemoveService, Local, ObjectStays
<1>h. pc[i] \in CreatePcs => Target(i) = Home
  BY <1>s DEF Target, Home, CarriesOn
<1>n. Home \in Namespaces
  BY NamespaceAssumption DEF Settled, Provided, Configured, ObjectInv, EnvInv, Home
<1>w. UNCHANGED <<configMap, secrets, collector, frontend>> => WorldStays
  BY <1>l DEF WorldStays
<1>c. ~RemoveDeployment(i) /\ ~RemoveService(i)
  BY <1>s, PcNames DEF CarriesOn, RemoveDeployment, RemoveService
<1>g. ASSUME NEW label, NEW j, Goto(i, label, j), CarriesOn(label, j),
             UNCHANGED <<configMap, secrets, collector, frontend>>
      PROVE  Settled' /\ UNCHANGED <<configMap, secrets, collector, frontend>>
  BY <1>g, <1>l, <1>w, GotoSettled
<1>1. CASE EnsureNamespace(i)
  <2>1. /\ pc[i] = "namespace" /\ Goto(i, AfterPull(job[i].pull), job[i])
        /\ UNCHANGED <<configMap, secrets, collector, frontend>>
    BY <1>1 DEF EnsureNamespace, CreateNamespace
  <2>2. CarriesOn(AfterPull(job[i].pull), job[i])
    BY <2>1, <1>s, PcNames DEF CarriesOn, AfterPull
  <2> QED
    BY <2>1, <2>2, <1>g
<1>2. CASE ReadPullSecret(i)
  <2> DEFINE data == platformSecrets[Head(job[i].pull)]
             j == [job[i] EXCEPT !.src = data]
  <2>1. pc[i] = "readPull" /\ job[i].pull # <<>>
    BY <1>2 DEF ReadPullSecret, WorkerInv, WorkerReady
  <2>2. data # NoData
    BY <2>1, <1>t DEF Settled, Provided
  <2>3. /\ Goto(i, "writePull", j)
        /\ UNCHANGED <<configMap, secrets, collector, frontend>>
    BY <1>2, <2>2 DEF ReadPullSecret, MCPUntouched
  <2>4. j.src = data /\ j.obj = job[i].obj /\ j.del = job[i].del /\ j.cfg = job[i].cfg /\ j.pull = job[i].pull
    BY <1>t DEF Jobs
  <2> HIDE DEF j
  <2>5. CarriesOn("writePull", j)
    BY <2>1, <2>4, <1>s, PcNames DEF CarriesOn
  <2> QED
    BY <2>3, <2>5, <1>g
<1>3. CASE WritePullSecret(i)
  <2> DEFINE name == Head(job[i].pull)
             rest == Tail(job[i].pull)
             j == [job[i] EXCEPT !.pull = rest, !.src = NoData]
  <2>1. /\ pc[i] = "writePull" /\ job[i].pull # <<>> /\ Goto(i, AfterPull(rest), j)
        /\ CopyPullSecret(Home, name, job[i].src)
    BY <1>3, <1>h, PcNames DEF WritePullSecret, WorkerInv, WorkerReady
  <2>2. /\ DOMAIN job[i].pull = 1 .. Len(job[i].pull) /\ name = job[i].pull[1] /\ 1 \in DOMAIN job[i].pull
        /\ \A k \in DOMAIN rest : rest[k] = job[i].pull[k + 1] /\ k + 1 \in DOMAIN job[i].pull
        /\ rest \in Seq(SecretNames)
    BY <2>1, <1>t
  <2>3. PICK m \in DOMAIN config.pullSecrets : name = config.pullSecrets[m]
    BY <2>1, <2>2, <1>s DEF CarriesOn
  <2>4. job[i].src = secrets[Home][name]
    BY <2>1, <2>3, <1>s DEF CarriesOn, Settled, Running, Home
  <2>5. UNCHANGED secrets
    BY <2>1, <2>4, <1>n DEF CopyPullSecret, MCPTypeOK
  <2>6. j.pull = rest /\ j.obj = job[i].obj /\ j.del = job[i].del /\ j.cfg = job[i].cfg
    BY <1>t DEF Jobs
  <2>7. \A k \in DOMAIN rest : \E n \in DOMAIN config.pullSecrets : rest[k] = config.pullSecrets[n]
    BY <2>1, <2>2, <1>s DEF CarriesOn
  <2> HIDE DEF j
  <2>8. CarriesOn(AfterPull(rest), j)
    BY <2>1, <2>6, <2>7, <1>s, PcNames DEF CarriesOn, AfterPull
  <2> QED
    BY <2>1, <2>5, <2>8, <1>g DEF CopyPullSecret
<1>4. CASE ReadConfigMap(i)
  <2> DEFINE j == [job[i] EXCEPT !.conf = configMap[Target(i)]]
  <2>1. /\ pc[i] = "configMap" /\ Goto(i, "secret", j)
        /\ UNCHANGED <<configMap, secrets, collector, frontend>>
    BY <1>4 DEF ReadConfigMap, MCPUntouched
  <2>2. j.conf = configMap[Home] /\ j.obj = job[i].obj /\ j.del = job[i].del /\ j.cfg = job[i].cfg
    BY <2>1, <1>t, <1>h, PcNames DEF Jobs
  <2> HIDE DEF j
  <2>3. CarriesOn("secret", j)
    BY <2>1, <2>2, <1>s, PcNames DEF CarriesOn
  <2> QED
    BY <2>1, <2>3, <1>g
<1>5. CASE ReadSecret(i)
  <2> DEFINE h == ConfigHashOf(configMap[Home], secrets[Home][CollectorSecret])
             j == [job[i] EXCEPT !.hash = h, !.conf = NoData]
  <2>1. pc[i] = "secret" /\ job[i].conf = configMap[Home] /\ Target(i) = Home
    BY <1>5, <1>s, <1>h, PcNames DEF ReadSecret, CarriesOn
  <2>2. configMap[Home] # NoData /\ secrets[Home][CollectorSecret] # NoData
    BY DEF Settled, Provided, Home
  <2>3. /\ Goto(i, "deployment", j)
        /\ UNCHANGED <<configMap, secrets, collector, frontend>>
    BY <1>5, <2>1, <2>2 DEF ReadSecret, MCPUntouched
  <2>4. j.hash = h /\ j.obj = job[i].obj /\ j.del = job[i].del /\ j.cfg = job[i].cfg
    BY <1>t DEF Jobs
  <2> HIDE DEF j
  <2>5. CarriesOn("deployment", j)
    BY <2>1, <2>4, <1>s, PcNames DEF CarriesOn
  <2> QED
    BY <2>3, <2>5, <1>g
<1>6. CASE WriteDeployment(i)
  <2>1. /\ pc[i] = "deployment" /\ Goto(i, "service", job[i]) /\ Target(i) = Home
        /\ ReconcileDeployment(Home, DesiredDeployment(job[i].obj.spec, job[i].cfg, job[i].hash))
    BY <1>6, <1>h, PcNames DEF WriteDeployment
  <2>2. collector[Home] = DesiredDeployment(job[i].obj.spec, job[i].cfg, job[i].hash)
    BY <2>1, <1>s, PcNames DEF CarriesOn, Settled, Running, Home
  <2>3. UNCHANGED collector
    BY <2>1, <2>2 DEF ReconcileDeployment, MCPTypeOK
  <2>4. CarriesOn("service", job[i])
    BY <2>1, <1>s, PcNames DEF CarriesOn
  <2> QED
    BY <2>1, <2>3, <2>4, <1>g DEF ReconcileDeployment
<1>7. CASE WriteService(i)
  <2> DEFINE j == [job[i] EXCEPT !.obj = StatusReady(@)]
  <2>1. pc[i] = "service" /\ Goto(i, "status", j) /\ ReconcileService(Home)
    BY <1>7, <1>h, PcNames DEF WriteService
  <2>2. frontend[Home] = "provider"
    BY DEF Settled, Running, Home
  <2>3. UNCHANGED frontend
    BY <2>1, <2>2 DEF ReconcileService, MCPTypeOK
  <2>4. j.obj = StatusReady(job[i].obj) /\ j.del = job[i].del /\ j.cfg = job[i].cfg
    BY <1>t DEF Jobs
  <2>5. /\ StatusReady(job[i].obj).status.phase = "Ready"
        /\ StatusReady(job[i].obj).status.observed = job[i].obj.gen
    BY <1>t DEF StatusReady, Reported, Objects
  <2> HIDE DEF j
  <2>6. CarriesOn("status", j)
    BY <2>1, <2>4, <2>5, <1>s, PcNames DEF CarriesOn
  <2> QED
    BY <2>1, <2>3, <2>6, <1>g DEF ReconcileService
<1> QED
  BY <1>1, <1>2, <1>3, <1>4, <1>5, <1>6, <1>7, <1>c DEF DomainStep

\* Timers, the delivery of the config and the platform.
LEMMA AroundSettled ==
    ASSUME TypeInv, Settled,
           Platform \/ \E i \in Instances : Timer(i) \/ DeliverConfig(i)
    PROVE  Settled' /\ UNCHANGED <<configMap, secrets, collector, frontend>>
<1>1. UNCHANGED <<obj, pc, job, configMap, secrets, collector, frontend, platformSecrets, config>>
  BY DEF Platform, Timer, TimerFires, DeliverConfig, StoreConfig, Untouched, MCPUntouched, spVars
<1>2. UNCHANGED access
  <2>1. ~Platform
    BY DEF Settled, AllGranted, Platform, AccessGranted, AccessGone
  <2> QED
    BY <2>1 DEF Timer, DeliverConfig
<1>3. \A k \in Instances : cached'[k] = cached[k]
  <2>1. CASE UNCHANGED cached
    BY <2>1
  <2>2. CASE \E i \in Instances : DeliverConfig(i)
    BY <2>2 DEF DeliverConfig, StoreConfig, TypeInv, WorkerInv, Settled, InStep
  <2> QED
    BY <2>1, <2>2 DEF Platform, Timer, TimerFires, spVars
<1>4. ObjectStays /\ WorldStays
  BY <1>1, <1>2 DEF ObjectStays, WorldStays
<1>5. \A k \in Instances : InStep(k)'
  BY <1>1, <1>3, <1>4, OthersInStep DEF Settled
<1> QED
  BY <1>1, <1>4, <1>5, RunsOn DEF Settled

\* Every step that is not a disturbance.
LEMMA NextSettled ==
    ASSUME TypeInv, Settled, [Next]_vars, budget' = budget
    PROVE  Settled' /\ UNCHANGED <<configMap, secrets, collector, frontend>>
<1>1. \A kind : ~Disturb(kind)
  BY DEF Disturb, TypeInv, EnvInv
<1>2. ASSUME NEW i \in Instances, Worker(i)
      PROVE  Settled' /\ UNCHANGED <<configMap, secrets, collector, frontend>>
  BY <1>2, GenericSettled, DomainSettled DEF Worker, WorkerStep, Untouched, MCPUntouched
<1>3. CASE UNCHANGED vars
  <2>1. ObjectStays /\ WorldStays
    BY <1>3 DEF vars, spVars, mcpVars, ObjectStays, WorldStays
  <2>2. \A k \in Instances : InStep(k)'
    BY <1>3, <2>1, OthersInStep DEF vars, spVars, Settled
  <2> QED
    BY <1>3, <2>1, <2>2, RunsOn DEF vars, mcpVars, Settled
<1> QED
  BY <1>1, <1>2, <1>3, AroundSettled
     DEF Next, Fault, MissConfig, Crash, EditConfig, EditPlatformSecret, Revoke, User, ControlPlaneUser

\* Reconciles of a collector that runs as it should are idempotent: for any number of
\* instances, any specs, configs, contents and pull secrets, whatever came before.
THEOREM ReconcileIsIdempotent == Spec => SettledStays
<1>1. TypeInv /\ [Next]_vars
        => [Settled /\ budget' = budget =>
              Settled' /\ UNCHANGED <<configMap, secrets, collector, frontend>>]_vars
  BY NextSettled
<1> QED
  BY <1>1, InitTypes, NextTypes, PTL DEF Spec, SettledStays
===============================================================================
