------------------------------ MODULE ReadyProofs ------------------------------
(***************************************************************************)
(* A live service that says Ready runs what it asks for: with one instance *)
(* and without drift.                                                      *)
(*                                                                         *)
(* While it has the finalizer the object that a job copied is the one on   *)
(* the server, so its generation tells whether the spec is still the same. *)
(***************************************************************************)
EXTENDS ReconcileProofs

\* A Deployment that has what a spec sets itself, and one with a Service before it
FitsAs(spec, ns, d) ==
    /\ spec["namespace"] \in {Nil, ns}
    /\ d.owner = "provider"
    /\ \A f \in {"image", "version", "resources"} : spec[f] \in {Nil, d[f]}

BuiltWith(spec, c, s) == \E ns \in Namespaces : s[ns] = "provider" /\ FitsAs(spec, ns, c[ns])

Built(spec) == BuiltWith(spec, collector, frontend)

StatusHonest ==
    obj.status.phase = "Ready" =>
        /\ obj.status.observed <= obj.gen
        /\ obj.life = "live" /\ obj.status.observed = obj.gen => Built(obj.spec)

Copied(i) ==
    /\ job[i].obj.gen <= obj.gen
    /\ job[i].obj.gen = obj.gen => job[i].obj.spec = obj.spec

Done(i) ==
    /\ obj.fin /\ Copied(i)
    /\ job[i].obj.status.observed = job[i].obj.gen
    /\ Built(job[i].obj.spec)

WorkerHonest(i) ==
    /\ pc[i] = "finalizer" => job[i].obj.status = job[i].old
    /\ pc[i] \in CreatePcs \cup DeletePcs \cup {"terminating"} => job[i].obj.status.phase # "Ready"
    /\ pc[i] \in CreatePcs \cup {"access"} /\ ~job[i].del =>
         /\ Copied(i)
         /\ obj.status.phase = "Ready" => obj.status.observed <= job[i].obj.gen
    /\ pc[i] = "service" => FitsAs(job[i].obj.spec, Target(i), collector[Target(i)])
    /\ pc[i] = "status" =>
         job[i].obj.status.phase # "Ready" \/ job[i].obj.status = job[i].old \/ Done(i)

Honest == StatusHonest /\ \A i \in Instances : WorkerHonest(i)

Inv == TypeInv /\ Guarded /\ AllAgreed /\ Honest

-----------------------------------------------------------------------------

\* With one instance, what a step does to its worker is all there is to check.
LEMMA OneWorkerHonest ==
    ASSUME OneInstance, NEW i \in Instances, StatusHonest', WorkerHonest(i)'
    PROVE  Honest'
BY DEF OneInstance, Honest

\* What is built stays built while managed resources stay as they are.
LEMMA BuiltStays ==
    ASSUME NEW c, NEW s, NEW d, NEW t,
           \A ns \in Namespaces : /\ c[ns].owner = "provider" => d[ns] = c[ns]
                                  /\ s[ns] = "provider" => t[ns] = "provider"
    PROVE  \A spec : /\ BuiltWith(spec, c, s) => BuiltWith(spec, d, t)
                     /\ \A ns \in Namespaces : FitsAs(spec, ns, c[ns]) => FitsAs(spec, ns, d[ns])
BY DEF BuiltWith, FitsAs

\* A step that touches neither object nor resources leaves the status honest.
LEMMA StatusStays ==
    ASSUME Honest, UNCHANGED <<obj, collector, frontend>>
    PROVE  StatusHonest'
BY DEF Honest, StatusHonest, Built

\* The patch of a status, on what the reconcile found or on nothing, leaves the phase and
\* the observed generation that the reconcile computed.
LEMMA MergeIs ==
    ASSUME NEW old \in Status, NEW new \in Status, NEW server, server \in {old, NoStatus},
           NEW t \in BOOLEAN, PatchValid(server, old, new, t)
    PROVE  /\ MergePatch(server, old, new, t).phase = new.phase
           /\ MergePatch(server, old, new, t).observed = new.observed
<1>1. /\ "phase" \notin PatchNames(old, new, t) => new.phase = old.phase
      /\ "observed" \notin PatchNames(old, new, t) => new.observed = old.observed
  BY DEF PatchNames
<1>2. server = NoStatus => {"phase", "observed"} \subseteq PatchNames(old, new, t)
  BY DEF PatchValid
<1>3. CASE server = NoStatus
  BY <1>2, <1>3 DEF MergePatch
<1>4. CASE server = old
  BY <1>1, <1>4 DEF MergePatch
<1> QED
  BY <1>3, <1>4

\* The same for the object the server stores.
LEMMA PatchIs ==
    ASSUME TypeInv, AllAgreed, NEW i \in Instances, pc[i] \in Patching, NEW t \in BOOLEAN,
           PatchLands(i, t)
    PROVE  /\ Patched(i, t).status.phase = job[i].obj.status.phase
           /\ Patched(i, t).status.observed = job[i].obj.status.observed
           /\ Patched(i, t).gen = obj.gen /\ Patched(i, t).life = obj.life
           /\ Patched(i, t).fin = obj.fin /\ Patched(i, t).spec = obj.spec
           /\ job[i].obj.status = job[i].old => obj.status = job[i].old
<1>1. job[i].old \in Status /\ job[i].obj.status \in Status /\ obj \in Objects
  BY DEF TypeInv, WorkerInv, ObjectInv, Jobs, Objects
<1>2. obj.status \in {job[i].old, NoStatus} /\ PatchValid(obj.status, job[i].old, job[i].obj.status, t)
  BY DEF AllAgreed, Agreed, PatchLands
<1>3. /\ Patched(i, t).status = MergePatch(obj.status, job[i].old, job[i].obj.status, t)
      /\ Patched(i, t).gen = obj.gen /\ Patched(i, t).life = obj.life
      /\ Patched(i, t).fin = obj.fin /\ Patched(i, t).spec = obj.spec
  BY <1>1 DEF Patched, Objects
<1>4. ASSUME job[i].obj.status = job[i].old PROVE obj.status = job[i].old
  <2>1. "phase" \notin PatchNames(job[i].old, job[i].obj.status, t)
    BY <1>4 DEF PatchNames
  <2>2. obj.status # NoStatus
    BY <1>2, <2>1 DEF PatchValid
  <2> QED
    BY <1>2, <2>2
<1> QED
  BY <1>1, <1>2, <1>3, <1>4, MergeIs

\* The setters leave spec and generation, and observe the latter.
LEMMA SetterGens ==
    ASSUME NEW o \in Objects
    PROVE  /\ \A why : /\ StatusProgressing(o, why).gen = o.gen /\ StatusProgressing(o, why).spec = o.spec
                       /\ StatusProgressing(o, why).status.phase = "Progressing"
           /\ StatusTerminating(o).status.phase = "Terminating"
           /\ StatusReady(o).gen = o.gen /\ StatusReady(o).spec = o.spec
           /\ StatusReady(o).status.observed = o.gen
BY DEF Objects, Reported, StatusProgressing, StatusReady, StatusTerminating

\* The end of a reconcile: only the status is left to check.
LEMMA FinishHonest ==
    ASSUME OneInstance, Inv, NEW i \in Instances, NEW r, Finish(i, r), StatusHonest'
    PROVE  Honest'
<1>1. pc'[i] = "idle"
  BY StepEffect DEF Inv, TypeInv
<1>2. WorkerHonest(i)'
  BY <1>1 DEF WorkerHonest, CreatePcs, DeletePcs
<1> QED
  BY <1>2, OneWorkerHonest

\* The steps of the generic loop.
LEMMA GenericHonest ==
    ASSUME OneInstance, Inv, NEW i \in Instances, GenericStep(i), MCPUntouched
    PROVE  Honest'
<1>w. /\ TypeInv /\ WorkerInv /\ AllAgreed /\ Honest /\ StatusHonest
      /\ WorkerHonest(i) /\ WorkerGuarded(i) /\ GlobalGuarded
  BY DEF Inv, TypeInv, Guarded, Honest
<1>j. job[i] \in Jobs /\ job[i].obj \in Objects /\ obj \in Objects
  BY <1>w DEF WorkerInv, TypeInv, ObjectInv, Jobs
<1>n. obj.gen \in Nat /\ job[i].obj.gen \in Nat /\ obj.status.observed \in Nat
  BY <1>j DEF Objects, Status
<1>m. UNCHANGED <<collector, frontend>>
  BY DEF MCPUntouched
<1>u. UNCHANGED obj => StatusHonest'
  BY <1>w, <1>m, StatusStays
<1>e. ASSUME NEW label \in Pcs, NEW j, Goto(i, label, j) PROVE pc'[i] = label /\ job'[i] = j
  BY <1>w, <1>e DEF WorkerInv, Goto
<1>p. /\ {"status", "check", "finalizer", "access", "release", "drop", "deleteDeployment",
          "namespace", "terminating"} \subseteq Pcs
      /\ {"status", "terminating"} \subseteq Patching
  BY DEF Pcs, CreatePcs, DeletePcs, Patching
<1> USE DEF CreatePcs, DeletePcs
<1>1. CASE ObjectGone(i)
  <2>1. UNCHANGED <<obj, pc, job>>
    BY <1>1 DEF ObjectGone
  <2>2. WorkerHonest(i)'
    BY <1>1, <2>1, <1>w DEF ObjectGone, WorkerHonest
  <2> QED
    BY <2>1, <2>2, <1>u, OneWorkerHonest
<1>2. CASE BeginWithoutConfig(i)
  <2> DEFINE j == [Loaded(i) EXCEPT !.obj = StatusProgressing(obj, "NoProviderConfig"),
                                    !.result = "error"]
  <2>1. j.obj = StatusProgressing(obj, "NoProviderConfig")
    BY DEF Loaded, NoJob
  <2>2. UNCHANGED obj /\ pc'[i] = "status" /\ job'[i] = j
    BY <1>2, <1>e, <1>p DEF BeginWithoutConfig, GetObject
  <2>3. job'[i].obj.status.phase # "Ready"
    BY <2>1, <2>2, <1>j, SetterGens
  <2>4. WorkerHonest(i)'
    BY <2>2, <2>3 DEF WorkerHonest
  <2> QED
    BY <2>2, <2>4, <1>u, OneWorkerHonest
<1>3. CASE Begin(i)
  <2>1. UNCHANGED obj /\ pc'[i] \in {"check", "finalizer"} /\ job'[i] = Loaded(i)
    BY <1>3, <1>e, <1>p DEF Begin, GetObject
  <2>2. Loaded(i).obj.status = Loaded(i).old
    BY DEF Loaded, NoJob
  <2>3. WorkerHonest(i)'
    BY <2>1, <2>2 DEF WorkerHonest
  <2> QED
    BY <2>1, <2>3, <1>u, OneWorkerHonest
<1>4. CASE AddFinalizer(i)
  <2> DEFINE o == [obj EXCEPT !.fin = TRUE]
             moved == o # obj \/ i \notin fresh
             j == [job[i] EXCEPT !.obj = o, !.moved = moved]
  <2>1. /\ o.status = obj.status /\ o.gen = obj.gen /\ o.spec = obj.spec /\ o.life = obj.life
        /\ j.obj = o
    BY <1>j DEF Jobs, Objects
  <2>2. obj' = o /\ pc'[i] = "access" /\ job'[i] = j
    BY <1>4, <1>e, <1>p DEF AddFinalizer, Store
  <2>3. StatusHonest'
    BY <2>1, <2>2, <1>m, <1>w DEF StatusHonest, Built
  <2>4. WorkerHonest(i)'
    <3>1. job'[i].obj = obj'
      BY <2>1, <2>2
    <3>2. Copied(i)'
      BY <3>1, <2>1, <2>2, <1>n DEF Copied
    <3>3. obj'.status.phase = "Ready" => obj'.status.observed <= job'[i].obj.gen
      BY <3>1, <2>1, <2>2, <1>w DEF StatusHonest
    <3> QED
      BY <2>2, <3>2, <3>3 DEF WorkerHonest
  <2> QED
    BY <2>3, <2>4, OneWorkerHonest
<1>5. CASE AddFinalizerGone(i)
  <2>1. UNCHANGED obj /\ pc[i] = "finalizer" /\ pc'[i] = "status"
        /\ job'[i] = [job[i] EXCEPT !.result = "error"]
    BY <1>5, <1>w, StepEffect DEF AddFinalizerGone
  <2>2. job'[i].obj = job[i].obj /\ job'[i].old = job[i].old
    BY <2>1, <1>j DEF Jobs
  <2>3. WorkerHonest(i)'
    BY <2>1, <2>2, <1>w DEF WorkerHonest
  <2> QED
    BY <2>1, <2>3, <1>u, OneWorkerHonest
<1>6. CASE AccessReady(i)
  <2>1. UNCHANGED obj /\ pc[i] = "access"
    BY <1>6 DEF AccessReady
  <2>2. CASE job[i].del
    <3> DEFINE j == [job[i] EXCEPT !.obj = StatusTerminating(@)]
    <3>1. j.obj = StatusTerminating(job[i].obj) /\ j.del = job[i].del
      BY <1>j DEF Jobs
    <3>2. pc'[i] = "deleteDeployment" /\ job'[i] = j
      BY <1>6, <2>2, <1>e, <1>p DEF AccessReady
    <3>3. job'[i].obj.status.phase # "Ready"
      BY <3>1, <3>2, <1>j, SetterGens
    <3>4. WorkerHonest(i)'
      BY <3>2, <3>3 DEF WorkerHonest
    <3> QED
      BY <2>1, <3>4, <1>u, OneWorkerHonest
  <2>3. CASE ~job[i].del
    <3> DEFINE j == [job[i] EXCEPT !.obj = StatusProgressing(@, "InProgress"),
                                   !.pull = job[i].cfg.pullSecrets]
    <3>1. j.obj = StatusProgressing(job[i].obj, "InProgress") /\ j.del = job[i].del
      BY <1>j DEF Jobs
    <3>2. pc'[i] = "namespace" /\ job'[i] = j
      BY <1>6, <2>3, <1>e, <1>p DEF AccessReady
    <3>3. /\ job'[i].obj.status.phase # "Ready"
          /\ job'[i].obj.gen = job[i].obj.gen /\ job'[i].obj.spec = job[i].obj.spec
      BY <3>1, <3>2, <1>j, SetterGens
    <3>4. WorkerHonest(i)'
      BY <2>1, <2>3, <3>2, <3>3, <1>w DEF WorkerHonest, Copied
    <3> QED
      BY <2>1, <3>4, <1>u, OneWorkerHonest
  <2> QED
    BY <2>2, <2>3
<1>7. CASE AccessPending(i)
  <2> DEFINE j == [job[i] EXCEPT !.obj = StatusProgressing(@, "SettingUpAccess"),
                                 !.result = "requeue"]
  <2>1. UNCHANGED obj /\ (Finish(i, "requeue") \/ Goto(i, "status", j))
    BY <1>7 DEF AccessPending
  <2>2. CASE Finish(i, "requeue")
    BY <2>1, <2>2, <1>u, FinishHonest
  <2>3. CASE Goto(i, "status", j)
    <3>1. j.obj = StatusProgressing(job[i].obj, "SettingUpAccess")
      BY <1>j DEF Jobs
    <3>2. pc'[i] = "status" /\ job'[i] = j
      BY <2>3, <1>e, <1>p
    <3>3. job'[i].obj.status.phase # "Ready"
      BY <3>1, <3>2, <1>j, SetterGens
    <3>4. WorkerHonest(i)'
      BY <3>2, <3>3 DEF WorkerHonest
    <3> QED
      BY <2>1, <3>4, <1>u, OneWorkerHonest
  <2> QED
    BY <2>1, <2>2, <2>3
<1>8. CASE WriteStatus(i)
  <2>1. pc[i] = "status" /\ Finish(i, job[i].result)
    BY <1>8 DEF WriteStatus
  <2>2. ASSUME NEW t \in BOOLEAN, PatchLands(i, t), obj' = Patched(i, t) PROVE StatusHonest'
    <3>1. /\ obj'.status.phase = job[i].obj.status.phase
          /\ obj'.status.observed = job[i].obj.status.observed
          /\ obj'.gen = obj.gen /\ obj'.life = obj.life /\ obj'.spec = obj.spec
          /\ job[i].obj.status = job[i].old => obj.status = job[i].old
      BY <2>1, <2>2, <1>w, <1>p, PatchIs
    <3>2. CASE job[i].obj.status.phase # "Ready"
      BY <3>1, <3>2 DEF StatusHonest
    <3>3. CASE job[i].obj.status = job[i].old
      BY <3>1, <3>3, <1>m, <1>w DEF StatusHonest, Built
    <3>4. CASE Done(i)
      BY <3>1, <3>4, <1>m DEF StatusHonest, Done, Copied, Built
    <3> QED
      BY <2>1, <3>2, <3>3, <3>4, <1>w DEF WorkerHonest
  <2>3. PatchTimes(i) \subseteq BOOLEAN
    BY DEF PatchTimes
  <2>4. StatusHonest'
    BY <1>8, <2>2, <2>3, <1>u DEF WriteStatus, Store
  <2> QED
    BY <2>1, <2>4, FinishHonest
<1>9. CASE CheckAccess(i)
  <2>1. /\ UNCHANGED obj /\ pc[i] = "check" /\ pc'[i] \in {"release", "access"}
        /\ job'[i] = job[i]
    BY <1>9, <1>e, <1>p DEF CheckAccess
  <2>2. job[i].del
    BY <2>1, <1>w DEF WorkerGuarded
  <2>3. WorkerHonest(i)'
    BY <2>1, <2>2 DEF WorkerHonest
  <2> QED
    BY <2>1, <2>3, <1>u, OneWorkerHonest
<1>10. CASE WriteTerminating(i)
  <2>1. pc[i] = "terminating" /\ job[i].obj.status.phase # "Ready"
    BY <1>10, <1>w DEF WriteTerminating, WorkerHonest
  <2>2. StatusHonest'
    <3>1. CASE PatchLands(i, FALSE) /\ obj' = Patched(i, FALSE)
      <4>1. obj'.status.phase = job[i].obj.status.phase
        BY <3>1, <2>1, <1>w, <1>p, PatchIs
      <4> QED
        BY <4>1, <2>1 DEF StatusHonest
    <3> QED
      BY <1>10, <3>1, <1>u DEF WriteTerminating, TerminatingStored, Store
  <2>3. Finish(i, "error") \/ \E j : Goto(i, "release", j)
    BY <1>10 DEF WriteTerminating
  <2>4. ASSUME NEW j, Goto(i, "release", j) PROVE WorkerHonest(i)'
    <3>1. pc'[i] = "release"
      BY <2>4, <1>e, <1>p
    <3> QED
      BY <3>1 DEF WorkerHonest
  <2> QED
    BY <2>2, <2>3, <2>4, FinishHonest, OneWorkerHonest
<1>11. CASE Release(i)
  <2>1. UNCHANGED obj /\ (Finish(i, "requeue") \/ Goto(i, "drop", job[i]))
    BY <1>11 DEF Release
  <2>2. ASSUME Goto(i, "drop", job[i]) PROVE WorkerHonest(i)'
    <3>1. pc'[i] = "drop"
      BY <2>2, <1>e, <1>p
    <3> QED
      BY <3>1 DEF WorkerHonest
  <2> QED
    BY <2>1, <2>2, <1>u, FinishHonest, OneWorkerHonest
<1>12. CASE Drop(i)
  <2>1. NoObject.status.phase # "Ready"
    BY DEF NoObject, NoStatus
  <2>2. obj' = NoObject \/ UNCHANGED obj
    BY <1>12 DEF Drop, Store
  <2>3. StatusHonest'
    BY <2>1, <2>2, <1>u DEF StatusHonest
  <2>4. \E r : Finish(i, r)
    BY <1>12 DEF Drop
  <2> QED
    BY <2>3, <2>4, FinishHonest
<1> QED
  BY <1>1, <1>2, <1>3, <1>4, <1>5, <1>6, <1>7, <1>8, <1>9, <1>10, <1>11, <1>12 DEF GenericStep

\* The steps of the domain's CreateOrUpdate that leave Deployment and Service alone.
LEMMA PrepareHonest ==
    ASSUME OneInstance, Inv, NEW i \in Instances, UNCHANGED obj,
           EnsureNamespace(i) \/ ReadPullSecret(i) \/ WritePullSecret(i)
             \/ ReadConfigMap(i) \/ ReadSecret(i)
    PROVE  Honest'
<1>w. WorkerInv /\ Honest /\ WorkerHonest(i) /\ WorkerGuarded(i)
  BY DEF Inv, TypeInv, Guarded, Honest
<1>j. job[i] \in Jobs /\ job[i].obj \in Objects
  BY <1>w DEF WorkerInv, Jobs
<1>m. UNCHANGED <<collector, frontend>>
  BY DEF EnsureNamespace, CreateNamespace, ReadPullSecret, WritePullSecret, CopyPullSecret,
         ReadConfigMap, ReadSecret, MCPUntouched
<1>u. StatusHonest'
  BY <1>w, <1>m, StatusStays
<1>c. pc[i] \in CreatePcs /\ ~job[i].del /\ job[i].obj.status.phase # "Ready"
  <2>1. pc[i] \in CreatePcs
    BY DEF EnsureNamespace, ReadPullSecret, WritePullSecret, ReadConfigMap, ReadSecret, CreatePcs
  <2> QED
    BY <2>1, <1>w DEF WorkerGuarded, WorkerHonest
<1>1. ASSUME NEW label \in CreatePcs \ {"service"}, NEW j, Goto(i, label, j),
             j.obj = job[i].obj, j.del = job[i].del
      PROVE  Honest'
  <2>1. pc'[i] = label /\ job'[i] = j
    BY <1>1, <1>w DEF WorkerInv, Goto
  <2>2. WorkerHonest(i)'
    BY <1>1, <2>1, <1>c, <1>w DEF WorkerHonest, Copied, CreatePcs
  <2> QED
    BY <2>2, <1>u, OneWorkerHonest
<1>2. ASSUME NEW j, Goto(i, "status", j), j.obj.status.phase # "Ready" PROVE Honest'
  <2>1. pc'[i] = "status" /\ job'[i] = j
    BY <1>2, <1>w DEF WorkerInv, Goto
  <2>2. WorkerHonest(i)'
    BY <1>2, <2>1 DEF WorkerHonest, CreatePcs, DeletePcs
  <2> QED
    BY <2>2, <1>u, OneWorkerHonest
<1>p. {"readPull", "writePull", "configMap", "secret", "deployment"} \subseteq CreatePcs \ {"service"}
  BY DEF CreatePcs
<1>3. CASE EnsureNamespace(i)
  BY <1>3, <1>1, <1>p DEF EnsureNamespace, AfterPull
<1>4. CASE ReadPullSecret(i)
  <2>1. \A d : [job[i] EXCEPT !.src = d].obj = job[i].obj /\ [job[i] EXCEPT !.src = d].del = job[i].del
    BY <1>j DEF Jobs
  <2>2. [job[i] EXCEPT !.result = "error"].obj = job[i].obj
    BY <1>j DEF Jobs
  <2> QED
    BY <1>4, <2>1, <2>2, <1>1, <1>2, <1>c, <1>p DEF ReadPullSecret, Fail
<1>5. CASE WritePullSecret(i)
  <2>1. \A rest : /\ [job[i] EXCEPT !.pull = rest, !.src = NoData].obj = job[i].obj
                  /\ [job[i] EXCEPT !.pull = rest, !.src = NoData].del = job[i].del
    BY <1>j DEF Jobs
  <2> QED
    BY <1>5, <2>1, <1>1, <1>p DEF WritePullSecret, AfterPull
<1>6. CASE ReadConfigMap(i)
  <2>1. \A d : [job[i] EXCEPT !.conf = d].obj = job[i].obj /\ [job[i] EXCEPT !.conf = d].del = job[i].del
    BY <1>j DEF Jobs
  <2> QED
    BY <1>6, <2>1, <1>1, <1>p DEF ReadConfigMap
<1>7. CASE ReadSecret(i)
  <2>1. \A h : /\ [job[i] EXCEPT !.hash = h, !.conf = NoData].obj = job[i].obj
               /\ [job[i] EXCEPT !.hash = h, !.conf = NoData].del = job[i].del
    BY <1>j DEF Jobs
  <2>2. ASSUME NEW why, NEW j,
               j = [job[i] EXCEPT !.obj = StatusProgressing(@, why), !.result = "requeue"]
        PROVE  j.obj.status.phase # "Ready"
    <3>1. j.obj = StatusProgressing(job[i].obj, why)
      BY <2>2, <1>j DEF Jobs
    <3> QED
      BY <3>1, <1>j, SetterGens
  <2>3. \/ \E h : Goto(i, "deployment", [job[i] EXCEPT !.hash = h, !.conf = NoData])
        \/ \E why : Goto(i, "status", [job[i] EXCEPT !.obj = StatusProgressing(@, why),
                                                     !.result = "requeue"])
    BY <1>7 DEF ReadSecret
  <2> QED
    BY <2>1, <2>2, <2>3, <1>1, <1>2, <1>p
<1> QED
  BY <1>3, <1>4, <1>5, <1>6, <1>7

\* The Deployment that a job writes fits its spec, and the object's where the status on
\* the server says Ready for it: then it is the same spec.  One elsewhere stays.
LEMMA DeploymentHonest ==
    ASSUME OneInstance, Inv, NEW i \in Instances, WriteDeployment(i), UNCHANGED obj
    PROVE  Honest'
<1>w. WorkerInv /\ ObjectInv /\ MCPTypeOK /\ Honest /\ StatusHonest /\ WorkerHonest(i) /\ WorkerGuarded(i)
  BY DEF Inv, TypeInv, Guarded, Honest
<1> DEFINE d == DesiredDeployment(job[i].obj.spec, job[i].cfg, job[i].hash)
           home == Target(i)
<1>p. pc[i] = "deployment" /\ job[i] \in Jobs /\ job[i].obj \in Objects /\ obj \in Objects
  BY <1>w DEF WriteDeployment, WorkerInv, ObjectInv, Jobs
<1>1. job[i].cfg \in Configs /\ job[i].obj.spec \in Specs /\ home \in Namespaces
  <2>1. job[i].cfg \in Configs /\ job[i].obj.spec \in Specs
    BY <1>p, <1>w DEF WorkerInv, WorkerReady
  <2> QED
    BY <2>1, TargetType
<1>2. pc'[i] = "service" /\ job'[i] = job[i] /\ UNCHANGED frontend
      /\ collector' = [collector EXCEPT ![home] = d]
  BY <1>w DEF WriteDeployment, WorkerInv, Goto, ReconcileDeployment
<1>3. collector'[home] = d
  BY <1>1, <1>2, <1>w DEF MCPTypeOK
<1>4. FitsAs(job[i].obj.spec, home, d)
  <2>1. job[i].obj.spec["namespace"] \in {Nil, home}
    BY DEF Target, Resolve
  <2>2. /\ d.owner = "provider"
        /\ d["image"] = Resolve("image", job[i].obj.spec, job[i].cfg)
        /\ d["version"] = Resolve("version", job[i].obj.spec, job[i].cfg)
        /\ d["resources"] = Resolve("resources", job[i].obj.spec, job[i].cfg)
    BY DEF DesiredDeployment
  <2> QED
    BY <2>1, <2>2 DEF FitsAs, Resolve
<1>c. ~job[i].del /\ Copied(i) /\ (obj.status.phase = "Ready" => obj.status.observed <= job[i].obj.gen)
      /\ job[i].obj.status.phase # "Ready"
  BY <1>p, <1>w DEF WorkerGuarded, WorkerHonest, CreatePcs
<1>5. StatusHonest'
  <2> SUFFICES ASSUME obj.status.phase = "Ready", obj.life = "live", obj.status.observed = obj.gen
               PROVE  BuiltWith(obj.spec, collector', frontend')
    BY <1>w DEF StatusHonest, Built
  <2>1. job[i].obj.spec = obj.spec
    <3>1. job[i].obj.gen \in Nat /\ obj.gen \in Nat
      BY <1>p DEF Objects
    <3> QED
      BY <3>1, <1>c DEF Copied
  <2>2. PICK ns \in Namespaces : frontend[ns] = "provider" /\ FitsAs(obj.spec, ns, collector[ns])
    BY <1>w DEF StatusHonest, Built, BuiltWith
  <2>3. FitsAs(obj.spec, ns, collector'[ns])
    <3>1. CASE ns = home
      BY <3>1, <2>1, <1>3, <1>4
    <3>2. CASE ns # home
      <4>1. collector'[ns] = collector[ns]
        BY <3>2, <1>2, <1>w DEF MCPTypeOK
      <4> QED
        BY <4>1, <2>2
    <3> QED
      BY <3>1, <3>2
  <2> QED
    BY <2>2, <2>3, <1>2 DEF BuiltWith
<1>6. WorkerHonest(i)'
  <2>1. Target(i)' = home
    BY <1>2 DEF Target
  <2> QED
    BY <2>1, <1>2, <1>3, <1>4, <1>c DEF WorkerHonest, Copied, CreatePcs, DeletePcs
<1> QED
  BY <1>5, <1>6, OneWorkerHonest

\* With the Service what the job copied is built, and it reports Ready.
LEMMA ServiceHonest ==
    ASSUME OneInstance, Inv, NEW i \in Instances, WriteService(i), UNCHANGED obj
    PROVE  Honest'
<1>w. WorkerInv /\ MCPTypeOK /\ Honest /\ StatusHonest /\ WorkerHonest(i) /\ WorkerGuarded(i)
  BY DEF Inv, TypeInv, Guarded, Honest
<1> DEFINE j == [job[i] EXCEPT !.obj = StatusReady(@)]
           home == Target(i)
<1>p. pc[i] = "service" /\ job[i] \in Jobs /\ job[i].obj \in Objects /\ home \in Namespaces
  <2>1. pc[i] = "service" /\ job[i] \in Jobs
    BY <1>w DEF WriteService, WorkerInv
  <2>2. job[i].cfg \in Configs /\ job[i].obj.spec \in Specs
    BY <2>1, <1>w DEF WorkerInv, WorkerReady
  <2> QED
    BY <2>1, <2>2, TargetType DEF Jobs
<1>1. j.obj = StatusReady(job[i].obj)
  BY <1>p DEF Jobs
<1>2. pc'[i] = "status" /\ job'[i] = j /\ UNCHANGED collector
      /\ frontend' = [frontend EXCEPT ![home] = "provider"]
  <2>1. "status" \in Pcs
    BY DEF Pcs
  <2> QED
    BY <2>1, <1>w DEF WriteService, WorkerInv, Goto, ReconcileService
<1>3. \A ns \in Namespaces : frontend[ns] = "provider" => frontend'[ns] = "provider"
  BY <1>2, <1>w DEF MCPTypeOK
<1>4. \A spec : Built(spec) => BuiltWith(spec, collector', frontend')
  BY <1>2, <1>3 DEF Built, BuiltWith
<1>5. StatusHonest'
  BY <1>4, <1>w DEF StatusHonest, Built
<1>6. BuiltWith(job[i].obj.spec, collector', frontend')
  <2>1. frontend'[home] = "provider"
    BY <1>2, <1>p, <1>w DEF MCPTypeOK
  <2>2. FitsAs(job[i].obj.spec, home, collector'[home])
    BY <1>2, <1>p, <1>w DEF WorkerHonest
  <2> QED
    BY <2>1, <2>2, <1>p DEF BuiltWith
<1>7. Done(i)'
  <2>1. /\ job'[i].obj.gen = job[i].obj.gen /\ job'[i].obj.spec = job[i].obj.spec
        /\ job'[i].obj.status.observed = job[i].obj.gen
    BY <1>1, <1>2, <1>p, SetterGens
  <2>2. obj.fin /\ ~job[i].del /\ Copied(i)
    BY <1>p, <1>w DEF WorkerGuarded, WorkerHonest, CreatePcs
  <2> QED
    BY <2>1, <2>2, <1>6 DEF Done, Copied, Built
<1>8. WorkerHonest(i)'
  BY <1>2, <1>7 DEF WorkerHonest, CreatePcs, DeletePcs
<1> QED
  BY <1>5, <1>8, OneWorkerHonest

\* The domain's Delete works for an object that is not live.
LEMMA RemoveHonest ==
    ASSUME OneInstance, Inv, NEW i \in Instances, RemoveDeployment(i) \/ RemoveService(i), UNCHANGED obj
    PROVE  Honest'
<1>w. WorkerInv /\ Honest /\ StatusHonest /\ WorkerHonest(i) /\ WorkerGuarded(i)
  BY DEF Inv, TypeInv, Guarded, Honest
<1>1. /\ pc[i] \in DeletePcs /\ job'[i] = job[i] /\ pc'[i] \in {"deleteService", "terminating"}
  BY <1>w DEF RemoveDeployment, RemoveService, WorkerInv, Goto, DeletePcs
<1>2. obj.life = "deleting" /\ job[i].del /\ job[i].obj.status.phase # "Ready"
  BY <1>1, <1>w DEF WorkerGuarded, WorkerHonest
<1>3. StatusHonest'
  BY <1>2, <1>w DEF StatusHonest
<1>4. WorkerHonest(i)'
  BY <1>1, <1>2 DEF WorkerHonest, CreatePcs
<1> QED
  BY <1>3, <1>4, OneWorkerHonest

\* Calls that fail.
LEMMA FaultHonest ==
    ASSUME OneInstance, Inv, NEW i \in Instances, CallFails(i), MCPUntouched
    PROVE  Honest'
<1>w. WorkerInv /\ Honest /\ WorkerHonest(i) /\ WorkerGuarded(i)
  BY DEF Inv, TypeInv, Guarded, Honest
<1>j. job[i] \in Jobs /\ job[i].obj \in Objects
  BY <1>w DEF WorkerInv, Jobs
<1>o. UNCHANGED obj
  BY DEF CallFails, GetFails, CreateOrUpdateFails, AccessFails, DeleteFails, DomainDeleteFails,
         PatchLost, TerminatingPatchLost
<1>u. StatusHonest'
  BY <1>o, <1>w, StatusStays DEF MCPUntouched
<1>e. ASSUME NEW label \in Pcs, NEW j, Goto(i, label, j) PROVE pc'[i] = label /\ job'[i] = j
  BY <1>w, <1>e DEF WorkerInv, Goto
<1>r. /\ [job[i] EXCEPT !.result = "error"].obj = job[i].obj
      /\ [job[i] EXCEPT !.result = "error"].old = job[i].old
  BY <1>j DEF Jobs
<1>p. {"status", "release", "terminating"} \subseteq Pcs
  BY DEF Pcs
<1> USE DEF CreatePcs, DeletePcs
<1>1. CASE GetFails(i)
  <2>1. WorkerHonest(i)'
    BY <1>1 DEF GetFails, WorkerHonest
  <2> QED
    BY <2>1, <1>u, OneWorkerHonest
<1>2. CASE CreateOrUpdateFails(i)
  <2>1. pc[i] \in {"finalizer"} \cup CreatePcs /\ pc'[i] = "status"
        /\ job'[i] = [job[i] EXCEPT !.result = "error"]
    BY <1>2, <1>e, <1>p DEF CreateOrUpdateFails, Fail
  <2>2. WorkerHonest(i)'
    BY <2>1, <1>r, <1>w DEF WorkerHonest
  <2> QED
    BY <2>2, <1>u, OneWorkerHonest
<1>3. CASE AccessFails(i)
  <2> DEFINE j == [job[i] EXCEPT !.obj = StatusProgressing(@, "ClusterAccessError"), !.result = "error"]
  <2>1. j.obj = StatusProgressing(job[i].obj, "ClusterAccessError")
    BY <1>j DEF Jobs
  <2>2. pc'[i] = "status" /\ job'[i] = j
    BY <1>3, <1>e, <1>p DEF AccessFails
  <2>3. job'[i].obj.status.phase # "Ready"
    BY <2>1, <2>2, <1>j, SetterGens
  <2>4. WorkerHonest(i)'
    BY <2>2, <2>3 DEF WorkerHonest
  <2> QED
    BY <2>4, <1>u, OneWorkerHonest
<1>4. CASE DeleteFails(i)
  BY <1>4, <1>u, FinishHonest DEF DeleteFails
<1>5. CASE DomainDeleteFails(i)
  <2>1. pc[i] \in DeletePcs /\ pc'[i] = "terminating" /\ job'[i] = [job[i] EXCEPT !.result = "error"]
    BY <1>5, <1>e, <1>p DEF DomainDeleteFails
  <2>2. WorkerHonest(i)'
    BY <2>1, <1>r, <1>w DEF WorkerHonest
  <2> QED
    BY <2>2, <1>u, OneWorkerHonest
<1>6. CASE PatchLost(i)
  BY <1>6, <1>u, FinishHonest DEF PatchLost
<1>7. CASE TerminatingPatchLost(i)
  <2>1. ASSUME Goto(i, "release", job[i]) PROVE WorkerHonest(i)'
    <3>1. pc'[i] = "release"
      BY <2>1, <1>e, <1>p
    <3> QED
      BY <3>1 DEF WorkerHonest
  <2> QED
    BY <1>7, <2>1, <1>u, FinishHonest, OneWorkerHonest DEF TerminatingPatchLost
<1> QED
  BY <1>1, <1>2, <1>3, <1>4, <1>5, <1>6, <1>7 DEF CallFails

\* Users of the service object: an edit or a deletion makes a new generation, and an
\* object that a job still works for is not made anew.
LEMMA UserHonest ==
    ASSUME Inv, User
    PROVE  Honest'
<1>w. ObjectInv /\ WorkerInv /\ Honest /\ StatusHonest /\ Guarded /\ GlobalGuarded
  BY DEF Inv, TypeInv, Guarded, Honest
<1>j. obj \in Objects /\ obj.gen \in Nat /\ (obj.status.observed \in Nat)
  BY <1>w DEF ObjectInv, Objects, Status
<1>m. UNCHANGED <<pc, job, collector, frontend>>
  BY DEF User, CreateObject, EditObject, DeleteObject, MCPUntouched
<1>n. NoObject.status.phase # "Ready" /\ \A s : NewObject(s).status.phase # "Ready"
  BY DEF NewObject, NoObject, NoStatus
<1>1. CASE ~obj.fin /\ obj'.status.phase # "Ready"
  <2>1. StatusHonest'
    BY <1>1 DEF StatusHonest
  <2>2. ASSUME NEW i \in Instances PROVE WorkerHonest(i)'
    <3>1. WorkerHonest(i) /\ pc[i] \notin CreatePcs \cup {"access"} /\ ~Done(i)
      BY <1>1, <1>w DEF Honest, Guarded, WorkerGuarded, Done
    <3> QED
      BY <3>1, <1>m DEF WorkerHonest, CreatePcs
  <2> QED
    BY <2>1, <2>2 DEF Honest
<1>2. CASE /\ obj'.gen = obj.gen + 1 /\ obj'.status = obj.status /\ obj'.fin = obj.fin
  <2>1. StatusHonest'
    BY <1>2, <1>j, <1>w DEF StatusHonest
  <2>2. ASSUME NEW i \in Instances PROVE WorkerHonest(i)'
    <3>1. WorkerHonest(i) /\ job[i].obj.gen \in Nat
      BY <1>w DEF Honest, WorkerInv, Jobs, Objects
    <3>2. Copied(i) => Copied(i)'
      BY <3>1, <1>2, <1>j, <1>m DEF Copied
    <3>3. Done(i) => Done(i)'
      BY <3>2, <1>2, <1>m DEF Done, Built
    <3>4. UNCHANGED Target(i)
      BY <1>m DEF Target
    <3> QED
      BY <3>1, <3>2, <3>3, <3>4, <1>2, <1>m DEF WorkerHonest
  <2> QED
    BY <2>1, <2>2 DEF Honest
<1>3. ASSUME CreateObject PROVE Honest'
  <2>1. obj.life = "absent" /\ ~obj.fin
    BY <1>3, <1>w DEF CreateObject, GlobalGuarded
  <2>2. obj'.status.phase # "Ready"
    BY <1>3, <1>n DEF CreateObject, Store
  <2> QED
    BY <2>1, <2>2, <1>1
<1>4. ASSUME EditObject PROVE Honest'
  <2>1. \A s : /\ [obj EXCEPT !.spec = s, !.gen = @ + 1].gen = obj.gen + 1
               /\ [obj EXCEPT !.spec = s, !.gen = @ + 1].status = obj.status
               /\ [obj EXCEPT !.spec = s, !.gen = @ + 1].fin = obj.fin
    BY <1>j DEF Objects
  <2> QED
    BY <1>4, <2>1, <1>2 DEF EditObject, Store
<1>5. ASSUME DeleteObject PROVE Honest'
  <2>1. CASE obj.fin
    <3>1. /\ [obj EXCEPT !.life = "deleting", !.gen = @ + 1].gen = obj.gen + 1
          /\ [obj EXCEPT !.life = "deleting", !.gen = @ + 1].status = obj.status
          /\ [obj EXCEPT !.life = "deleting", !.gen = @ + 1].fin = obj.fin
      BY <1>j DEF Objects
    <3> QED
      BY <1>5, <2>1, <3>1, <1>2 DEF DeleteObject, Store
  <2>2. CASE ~obj.fin
    BY <1>5, <2>2, <1>n, <1>1 DEF DeleteObject, Store
  <2> QED
    BY <2>1, <2>2 DEF Inv, TypeInv, ObjectInv, Objects
<1> QED
  BY <1>3, <1>4, <1>5 DEF User

\* Everybody else, as long as nobody takes away what the provider manages.
LEMMA ElsewhereHonest ==
    ASSUME Inv, UNCHANGED <<pc, job, obj>>,
           \A ns \in Namespaces :
             /\ collector[ns].owner = "provider" => collector'[ns] = collector[ns]
             /\ frontend[ns] = "provider" => frontend'[ns] = "provider"
    PROVE  Honest'
<1>1. \A spec : /\ Built(spec) => BuiltWith(spec, collector', frontend')
                /\ \A ns \in Namespaces : FitsAs(spec, ns, collector[ns]) => FitsAs(spec, ns, collector'[ns])
  BY BuiltStays DEF Built
<1>2. StatusHonest'
  BY <1>1 DEF Inv, Honest, StatusHonest, Built
<1>3. ASSUME NEW i \in Instances PROVE WorkerHonest(i)'
  <2>0. pc[i] = "service" => Target(i) \in Namespaces
    BY TargetType DEF Inv, TypeInv, WorkerInv, WorkerReady
  <2>1. UNCHANGED <<Target(i), Copied(i)>>
    BY DEF Target, Copied
  <2>2. Done(i) => Done(i)'
    BY <2>1, <1>1 DEF Done, Built
  <2> QED
    BY <1>1, <2>0, <2>1, <2>2 DEF Inv, Honest, WorkerHonest
<1> QED
  BY <1>2, <1>3 DEF Honest

\* Users of the MCP without drift.
LEMMA ControlPlaneUserHonest ==
    ASSUME Inv, "drift" \notin Disturbances, ControlPlaneUser
    PROVE  Honest'
<1>1. UNCHANGED <<pc, job, obj>>
  BY DEF ControlPlaneUser, spVars
<1>2. \A ns \in Namespaces : /\ collector[ns].owner = "provider" => collector'[ns] = collector[ns]
                             /\ frontend[ns] = "provider" => frontend'[ns] = "provider"
  BY ControlPlaneUserKeeps DEF Inv, TypeInv
<1> QED
  BY <1>1, <1>2, ElsewhereHonest

\* A new process knows nothing, what is in the cluster stays.
LEMMA CrashHonest ==
    ASSUME OneInstance, Inv, NEW i \in Instances, Crash(i)
    PROVE  Honest'
<1>1. pc'[i] = "idle" /\ UNCHANGED <<obj, collector, frontend>>
  BY DEF Crash, Restart, MCPUntouched, Inv, TypeInv, WorkerInv
<1>2. StatusHonest'
  BY <1>1, StatusStays DEF Inv
<1>3. WorkerHonest(i)'
  BY <1>1 DEF WorkerHonest, CreatePcs, DeletePcs
<1> QED
  BY <1>2, <1>3, OneWorkerHonest

\* Every step keeps the status honest.
LEMMA NextHonest ==
    ASSUME OneInstance, "drift" \notin Disturbances, Inv, [Next]_vars
    PROVE  Honest'
<1>e. ASSUME UNCHANGED <<pc, job, obj>>, MCPUntouched PROVE Honest'
  BY <1>e, ElsewhereHonest DEF MCPUntouched
<1>1. ASSUME NEW i \in Instances, Worker(i) PROVE Honest'
  <2>1. DomainStep(i) => UNCHANGED obj
    BY DEF DomainStep, EnsureNamespace, ReadPullSecret, WritePullSecret, ReadConfigMap, ReadSecret,
           WriteDeployment, WriteService, RemoveDeployment, RemoveService, Local
  <2> QED
    BY <1>1, <2>1, GenericHonest, PrepareHonest, DeploymentHonest, ServiceHonest, RemoveHonest
       DEF Worker, WorkerStep, DomainStep
<1>2. ASSUME NEW i \in Instances, Fault(i) PROVE Honest'
  BY <1>2, FaultHonest DEF Fault
<1>3. ASSUME NEW i \in Instances, Timer(i) \/ DeliverConfig(i) \/ MissConfig(i) PROVE Honest'
  BY <1>3, <1>e DEF Timer, TimerFires, DeliverConfig, MissConfig, StoreConfig
<1>4. ASSUME NEW i \in Instances, Crash(i) PROVE Honest'
  BY <1>4, CrashHonest
<1>5. CASE EditConfig \/ EditPlatformSecret \/ Platform \/ Revoke \/ UNCHANGED vars
  BY <1>5, <1>e DEF EditConfig, EditPlatformSecret, Platform, Revoke, spVars, vars, mcpVars,
                    MCPUntouched
<1>6. CASE User
  BY <1>6, UserHonest
<1>7. CASE ControlPlaneUser
  BY <1>7, ControlPlaneUserHonest
<1> QED
  BY <1>1, <1>2, <1>3, <1>4, <1>5, <1>6, <1>7 DEF Next

\* A live service object that says Ready for its generation has a Deployment with what its
\* spec sets, in the namespace it asks for, and a Service (CreateOrUpdate of the domain,
\* the status patch of Reconcile): for any specs, configs and contents, and whatever
\* fails, crashes or is edited between two calls.
THEOREM ReadyIsDeployed ==
    ASSUME OneInstance, "drift" \notin Disturbances
    PROVE  Spec => []ReadyMeansDeployed
<1>1. Init => Inv
  <2>1. Init => Honest
    <3>1. NoObject.status.phase # "Ready" /\ \A s : NewObject(s).status.phase # "Ready"
      BY DEF NewObject, NoObject, NoStatus
    <3> QED
      BY <3>1 DEF Init, SPInit, Honest, StatusHonest, WorkerHonest, CreatePcs, DeletePcs
  <2> QED
    BY <2>1, InitTypes, InitGuarded, InitAgreed DEF Inv
<1>2. Inv /\ [Next]_vars => Inv'
  BY NextTypes, NextGuarded, NextAgreed, NextHonest DEF Inv
<1>3. Inv => ReadyMeansDeployed
  BY DEF Inv, Honest, StatusHonest, Built, BuiltWith, FitsAs, ReadyMeansDeployed
<1> QED
  BY <1>1, <1>2, <1>3, PTL DEF Spec
===============================================================================
