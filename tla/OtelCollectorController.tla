------------------------ MODULE OtelCollectorController ------------------------
(***************************************************************************)
(* OtelCollectorServiceReconciler, internal/controller: CreateOrUpdate and *)
(* Delete of the domain, one step per call on the MCP or the platform, in  *)
(* the order of the code.  It runs inside the generic loop: entered at pc  *)
(* "namespace" or "deleteDeployment", left to "status" or "terminating".   *)
(***************************************************************************)
EXTENDS SPReconciler, ManagedControlPlane

\* resolveNamespace, at every reconcile anew, from the copies the job holds
Target(i) == Resolve("namespace", job[i].obj.spec, job[i].cfg)

Local == UNCHANGED <<obj, fresh, queued, access>>
MCPUntouched == UNCHANGED <<namespaces, configMap, secrets, collector, frontend>>

-----------------------------------------------------------------------------
(* CreateOrUpdate.                                                         *)

\* Past the namespace and past each pull secret: the next one, if any is left
AfterPull(pull) == IF pull = <<>> THEN "configMap" ELSE "readPull"

EnsureNamespace(i) ==
    /\ pc[i] = "namespace"
    /\ CreateNamespace(Target(i))
    /\ Goto(i, AfterPull(job[i].pull), job[i])
    /\ Local

\* The secret in the provider's own namespace; it is an error if it is missing
ReadPullSecret(i) ==
    /\ pc[i] = "readPull"
    /\ LET data == platformSecrets[Head(job[i].pull)]
       IN  IF data = NoData THEN Fail(i)
           ELSE Goto(i, "writePull", [job[i] EXCEPT !.src = data])
    /\ MCPUntouched /\ Local

\* Under its own name, whatever is there
WritePullSecret(i) ==
    /\ pc[i] = "writePull"
    /\ CopyPullSecret(Target(i), Head(job[i].pull), job[i].src)
    /\ LET rest == Tail(job[i].pull)
       IN  Goto(i, AfterPull(rest), [job[i] EXCEPT !.pull = rest, !.src = NoData])
    /\ Local

\* CheckPrerequisites reads the two objects one after the other
ReadConfigMap(i) ==
    /\ pc[i] = "configMap"
    /\ Goto(i, "secret", [job[i] EXCEPT !.conf = configMap[Target(i)]])
    /\ MCPUntouched /\ Local

Missing(conf, secret) ==
    CASE conf = NoData /\ secret = NoData -> "WaitingForBoth"
      [] conf = NoData /\ secret # NoData -> "WaitingForConfigMap"
      [] OTHER                            -> "WaitingForSecret"

ReadSecret(i) ==
    /\ pc[i] = "secret"
    /\ LET secret == secrets[Target(i)][CollectorSecret]
           conf   == job[i].conf
       IN  IF conf # NoData /\ secret # NoData
           THEN Goto(i, "deployment", [job[i] EXCEPT !.hash = ConfigHashOf(conf, secret),
                                                     !.conf = NoData])
           ELSE Goto(i, "status",
                     [job[i] EXCEPT !.obj = StatusProgressing(@, Missing(conf, secret)),
                                    !.result = "requeue"])
    /\ MCPUntouched /\ Local

WriteDeployment(i) ==
    /\ pc[i] = "deployment"
    /\ ReconcileDeployment(Target(i),
                           DesiredDeployment(job[i].obj.spec, job[i].cfg, job[i].hash))
    /\ Goto(i, "service", job[i])
    /\ Local

WriteService(i) ==
    /\ pc[i] = "service"
    /\ ReconcileService(Target(i))
    /\ Goto(i, "status", [job[i] EXCEPT !.obj = StatusReady(@)])
    /\ Local

-----------------------------------------------------------------------------
(* Delete.                                                                 *)

\* Mutated: the Service is left behind
RemoveDeploymentOnly(i) ==
    /\ pc[i] = "deleteDeployment"
    /\ DeleteDeployment(Target(i))
    /\ Goto(i, "terminating", job[i])
    /\ Local

RemoveDeployment(i) ==
    /\ pc[i] = "deleteDeployment"
    /\ DeleteDeployment(Target(i))
    /\ Goto(i, "deleteService", job[i])
    /\ Local

RemoveService(i) ==
    /\ pc[i] = "deleteService"
    /\ DeleteService(Target(i))
    /\ Goto(i, "terminating", job[i])
    /\ Local

-----------------------------------------------------------------------------

DomainStep(i) ==
    \/ EnsureNamespace(i) \/ ReadPullSecret(i) \/ WritePullSecret(i)
    \/ ReadConfigMap(i) \/ ReadSecret(i) \/ WriteDeployment(i) \/ WriteService(i)
    \/ RemoveDeployment(i) \/ RemoveService(i)

GenericStep(i) ==
    \/ ObjectGone(i) \/ BeginWithoutConfig(i) \/ Begin(i)
    \/ AddFinalizer(i) \/ AddFinalizerGone(i)
    \/ AccessReady(i) \/ AccessPending(i) \/ WriteStatus(i)
    \/ CheckAccess(i) \/ WriteTerminating(i) \/ Release(i) \/ Drop(i)

\* One step of the worker of instance i
WorkerStep(i) == DomainStep(i) \/ (GenericStep(i) /\ MCPUntouched)
=============================================================================
