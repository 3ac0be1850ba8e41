----------------------------- MODULE ClusterAccess -----------------------------
(***************************************************************************)
(* The access requests by which the provider gets credentials for the MCP  *)
(* (and, where it is used, a workload cluster).  The code is the cluster   *)
(* access reconciler of an openMCP library, so this is an external: it is  *)
(* modelled from the ClusterAccessProvider interface and from what         *)
(* SPReconciler expects of it.  Requests are made by the provider, granted *)
(* and removed by the platform.                                            *)
(***************************************************************************)
CONSTANT WithWorkloadCluster    \* SkipWorkloadCluster() in main.go: FALSE

ASSUME AccessAssumption == WithWorkloadCluster \in BOOLEAN

VARIABLE access     \* access request -> its state

Requests == IF WithWorkloadCluster THEN {"mcp", "workload"} ELSE {"mcp"}

AccessTypeOK == access \in [Requests -> {"absent", "pending", "granted", "deleting"}]

AccessInit == access = [r \in Requests |-> "absent"]

AllGranted == \A r \in Requests : access[r] = "granted"
AllAbsent  == \A r \in Requests : access[r] = "absent"

\* Mutated: a deletion timestamp is not looked at
OnlyAbsent == \E r \in Requests : access[r] = "absent"

\* areAccessRequestsInDeletion
InDeletion == \E r \in Requests : access[r] \in {"absent", "deleting"}

\* Reconcile of the library while not everything is granted: the first request
\* that is missing is made, the workload cluster's only behind a usable MCP
EnsureAccess ==
    access' = IF access["mcp"] = "absent"
              THEN [access EXCEPT !["mcp"] = "pending"]
              ELSE IF access["mcp"] # "granted" THEN access
              ELSE [r \in Requests |-> IF access[r] = "absent" THEN "pending" ELSE access[r]]

\* ReconcileDelete of the library: delete what exists, report what is left
ReleaseAccess ==
    access' = [r \in Requests |-> IF access[r] = "absent" THEN "absent" ELSE "deleting"]

\* The platform
AccessGranted(r) == access[r] = "pending"  /\ access' = [access EXCEPT ![r] = "granted"]
AccessGone(r)    == access[r] = "deleting" /\ access' = [access EXCEPT ![r] = "absent"]
\* somebody deletes a request the provider still uses
AccessRevoked(r) == access[r] \in {"pending", "granted"}
                        /\ access' = [access EXCEPT ![r] = "deleting"]
=============================================================================
