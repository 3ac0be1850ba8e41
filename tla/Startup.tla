-------------------------------- MODULE Startup --------------------------------
(***************************************************************************)
(* main.go: the init job, which installs the CRDs, and the run process,    *)
(* whose two controllers work once the cache of their type has synced.     *)
(* Each asks for access to the onboarding cluster under a name of its own  *)
(* and waits for it.  Kubernetes starts a job that failed and a process    *)
(* that ended again, and a job that succeeded never again.                 *)
(***************************************************************************)
EXTENDS Naturals

CONSTANTS
    Disturbances,   \* kinds of events that may happen
    MaxEvents       \* how many of them

ASSUME StartupAssumption == MaxEvents \in Nat

\* Service objects are on the onboarding cluster, the ProviderConfig is on the platform
Types == {"OtelCollectorService", "ProviderConfig"}
OnOnboarding == {"OtelCollectorService"}

VARIABLES
    access,     \* command -> its request for access to the onboarding cluster
    crd,        \* type -> its CRD: "absent", "old" or "new"
    job,        \* how far the init job is
    connected,  \* the init job has a client of the onboarding cluster
    todo,       \* types whose CRD it has not tried yet
    logged,     \* it has logged an error
    registered, \* the kind is registered at the ServiceProvider object
    run,        \* how far the run process is
    synced,     \* types whose controller works
    budget      \* events left

initVars == <<job, connected, todo, logged, registered>>
runVars == <<run, synced>>
vars == <<access, crd, initVars, runVars, budget>>

Ended == {"succeeded", "failed"}

TypeOK ==
    /\ access \in [{"init", "run"} -> {"none", "pending", "granted"}]
    /\ crd \in [Types -> {"absent", "old", "new"}]
    /\ job \in {"created", "waiting", "crds"} \cup Ended
    /\ {connected, logged, registered} \subseteq BOOLEAN
    /\ todo \subseteq Types /\ synced \subseteq Types
    /\ run \in {"down", "started", "waiting", "setup", "running"}
    /\ synced # {} => run = "running"
    /\ budget \in 0 .. MaxEvents

\* A first installation or an upgrade
Init ==
    /\ access = [c \in {"init", "run"} |-> "none"]
    /\ \E version \in {"absent", "old"} : crd = [t \in Types |-> version]
    /\ job = "created" /\ connected = FALSE /\ todo = {} /\ logged = FALSE
    /\ registered = FALSE
    /\ run = "down" /\ synced = {}
    /\ budget = MaxEvents

Disturb(kind) == kind \in Disturbances /\ budget > 0 /\ budget' = budget - 1

-----------------------------------------------------------------------------
(* CreateAndWaitForCluster: a request, polled for up to 30 minutes.        *)

Ask(c) == access' = [access EXCEPT ![c] = IF @ = "none" THEN "pending" ELSE @]

Grant ==
    /\ \E c \in DOMAIN access :
         access[c] = "pending" /\ access' = [access EXCEPT ![c] = "granted"]
    /\ UNCHANGED <<crd, initVars, runVars, budget>>

-----------------------------------------------------------------------------
(* init                                                                    *)

InitAsks ==
    /\ job = "created" /\ job' = "waiting"
    /\ Ask("init")
    /\ UNCHANGED <<crd, connected, todo, logged, registered, runVars, budget>>

\* Whether there is a client or the wait ended in an error: on to the CRDs
Proceed(client) ==
    /\ job' = "crds"
    /\ connected' = client
    /\ logged' = (logged \/ ~client)
    /\ todo' = Types
    /\ UNCHANGED <<access, crd, registered, runVars>>

InitConnects == job = "waiting" /\ access["init"] = "granted" /\ Proceed(TRUE) /\ UNCHANGED budget

\* Mutated: no time limit
InitWaitsOn == FALSE /\ UNCHANGED vars

InitTimesOut == job = "waiting" /\ access["init"] # "granted" /\ Proceed(FALSE) /\ UNCHANGED budget

InitAccessFails == Disturb("fault") /\ job = "waiting" /\ Proceed(FALSE)

\* CreateOrUpdateCRDs tries them all and returns the errors together
Tries(t) ==
    /\ job = "crds" /\ todo' = todo \ {t}
    /\ UNCHANGED <<access, job, connected, registered, runVars>>

Reachable(t) == t \in OnOnboarding => connected

InstallCRD ==
    /\ \E t \in todo : Tries(t) /\ Reachable(t) /\ crd' = [crd EXCEPT ![t] = "new"]
    /\ UNCHANGED <<logged, budget>>

\* Mutated: the error is dropped
InstallFailsQuietly ==
    /\ \E t \in todo :
         /\ Tries(t)
         /\ IF Reachable(t) THEN Disturb("fault") ELSE UNCHANGED budget
    /\ UNCHANGED <<crd, logged>>

\* The errors are logged, and that is all; how the library takes a cluster that is nil,
\* the code does not say: as an error,
InstallFails ==
    /\ \E t \in todo :
         /\ Tries(t)
         /\ IF Reachable(t) THEN Disturb("fault") ELSE UNCHANGED budget
    /\ logged' = TRUE
    /\ UNCHANGED crd

\* or by ending the process
InstallPanics ==
    /\ job = "crds" /\ \E t \in todo : ~Reachable(t)
    /\ job' = "failed"
    /\ UNCHANGED <<access, crd, connected, todo, logged, registered, runVars, budget>>

\* RegisterGVKsAtServiceProvider, whose error is logged as well
Register ==
    /\ job = "crds" /\ todo = {}
    /\ job' = "succeeded"
    /\ \/ registered' = TRUE /\ UNCHANGED <<logged, budget>>
       \/ Disturb("fault") /\ logged' = TRUE /\ UNCHANGED registered
    /\ UNCHANGED <<access, crd, connected, todo, runVars>>

\* No platform cluster or pod namespace, exit code 1; or the pod is lost
InitDies ==
    /\ \/ Disturb("fault") /\ job = "created"
       \/ Disturb("crash") /\ job \notin Ended
    /\ job' = "failed"
    /\ UNCHANGED <<access, crd, connected, todo, logged, registered, runVars>>

InitAgain ==
    /\ job = "failed" /\ job' = "created"
    /\ connected' = FALSE /\ todo' = {} /\ logged' = FALSE
    /\ UNCHANGED <<access, crd, registered, runVars, budget>>

InitJob ==
    \/ InitAsks \/ InitConnects \/ InitTimesOut
    \/ InstallCRD \/ InstallFails \/ InstallPanics
    \/ Register \/ InitAgain

-----------------------------------------------------------------------------
(* run                                                                     *)

RunStarts ==
    /\ run = "down" /\ run' = "started"
    /\ UNCHANGED <<access, crd, initVars, synced, budget>>

RunAsks ==
    /\ run = "started" /\ run' = "waiting"
    /\ Ask("run")
    /\ UNCHANGED <<crd, initVars, synced, budget>>

\* Mutated: waits for the request of the init job
RunConnectsWithInit ==
    /\ run = "waiting" /\ access["init"] = "granted" /\ run' = "setup"
    /\ UNCHANGED <<access, crd, initVars, synced, budget>>

RunConnects ==
    /\ run = "waiting" /\ access["run"] = "granted" /\ run' = "setup"
    /\ UNCHANGED <<access, crd, initVars, synced, budget>>

\* The manager with both controllers is set up and started
RunSetsUp ==
    /\ run = "setup" /\ run' = "running"
    /\ UNCHANGED <<access, crd, initVars, synced, budget>>

Sync(t) ==
    /\ run = "running" /\ t \notin synced /\ crd[t] # "absent"
    /\ synced' = synced \cup {t}
    /\ UNCHANGED <<access, crd, initVars, run, budget>>

\* Mutated: a controller goes on
RunEndsPartly == run' = "down" /\ UNCHANGED <<access, crd, initVars, synced>>

RunEnds == run' = "down" /\ synced' = {} /\ UNCHANGED <<access, crd, initVars>>

\* The error of the wait is only logged, but the cluster that is nil ends the process
RunTimesOut == run = "waiting" /\ access["run"] # "granted" /\ RunEnds /\ UNCHANGED budget

\* Without its CRD the cache does not sync within two minutes, and Start returns
SyncTimesOut ==
    /\ run = "running" /\ \E t \in Types \ synced : crd[t] = "absent"
    /\ RunEnds /\ UNCHANGED budget

\* A step that fails ends the process, each in its own way; a crash also
RunDies ==
    /\ \/ Disturb("fault") /\ run \in {"started", "waiting", "setup"}
       \/ Disturb("crash") /\ run # "down"
    /\ RunEnds

RunProcess ==
    \/ RunStarts \/ RunAsks \/ RunConnects \/ RunSetsUp
    \/ \E t \in Types : Sync(t)
    \/ RunTimesOut \/ SyncTimesOut

-----------------------------------------------------------------------------

Next == InitJob \/ InitAccessFails \/ InitDies \/ RunProcess \/ RunDies \/ Grant

Spec == Init /\ [][Next]_vars

\* Both commands go on; whether the platform grants anything is left open.  A cache
\* whose CRD is there syncs although another one may be about to time out.
FairSpec ==
    Spec /\ WF_vars(InitJob) /\ WF_vars(RunProcess) /\ \A t \in Types : SF_vars(Sync(t))

-----------------------------------------------------------------------------
(* Properties.                                                             *)

\* A job that succeeded may have failed at anything, since main.go goes on after an
\* error; but where it logged none, everything is in place.
SilentInitIsComplete ==
    job = "succeeded" /\ ~logged => registered /\ \A t \in Types : crd[t] = "new"

\* What makes it so: a CRD that was tried is installed, if nothing is logged
TriedIsInstalled == job = "crds" /\ ~logged => \A t \in Types \ todo : crd[t] = "new"

\* The init job ends, also if it is never granted access.
InitEnds == job = "created" ~> job \in Ended

Installed == \A t \in Types : crd[t] # "absent"

\* Once the CRDs are there and access is granted, both controllers work in the end,
\* whatever order job and process came in and however often they ended before.
ComesUp == <>[](Installed /\ access["run"] = "granted") => <>[](synced = Types)
=============================================================================
