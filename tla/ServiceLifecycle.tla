--------------------------- MODULE ServiceLifecycle ---------------------------
(***************************************************************************)
(* What the provider promises of one service, without how: the life of the *)
(* service object as its user sees it, the finalizer, the access requests  *)
(* held for it and what is deployed for it.  README, "Flow"; the comments  *)
(* of createOrUpdate and delete in pkg/spruntime/spreconciler.go.          *)
(*                                                                         *)
(* On the way up: object, finalizer, access, resources; on the way down    *)
(* the reverse, and no way back before the object is gone.  ServiceProvider*)
(* implements this.                                                        *)
(***************************************************************************)
CONSTANT Requests    \* the access requests of a service

VARIABLES
    stage,      \* of the service: "absent", "serving" or "draining"
    guarded,    \* the object has the finalizer
    held,       \* access requests that exist
    deployed    \* what is deployed: "Deployment", "Service"

vars == <<stage, guarded, held, deployed>>

Kinds == {"Deployment", "Service"}

Init ==
    /\ stage \in {"absent", "serving"}
    /\ guarded = FALSE
    /\ held = {}
    /\ deployed = {}

Create ==
    /\ stage = "absent" /\ stage' = "serving"
    /\ UNCHANGED <<guarded, held, deployed>>

Guard ==
    /\ stage = "serving" /\ ~guarded
    /\ guarded' = TRUE
    /\ UNCHANGED <<stage, held, deployed>>

\* Nothing is asked for without the finalizer, nothing anew once draining
Acquire ==
    /\ stage = "serving" /\ guarded
    /\ held' \in SUBSET Requests /\ held \subseteq held'
    /\ UNCHANGED <<stage, guarded, deployed>>

Deploy ==
    /\ stage = "serving" /\ guarded /\ held = Requests
    /\ \E k \in Kinds : deployed' = deployed \cup {k}
    /\ UNCHANGED <<stage, guarded, held>>

\* The user deletes the object: one without finalizer is gone at once
Leave ==
    /\ stage = "serving" /\ ~guarded
    /\ stage' = "absent"
    /\ UNCHANGED <<guarded, held, deployed>>

Drain ==
    /\ stage = "serving" /\ guarded
    /\ stage' = "draining"
    /\ UNCHANGED <<guarded, held, deployed>>

Undeploy ==
    /\ stage = "draining" /\ held = Requests
    /\ \E k \in Kinds : deployed' = deployed \ {k}
    /\ UNCHANGED <<stage, guarded, held>>

\* Access is given up only when nothing is left to remove with it
Release ==
    /\ stage = "draining" /\ deployed = {}
    /\ \E r \in held : held' = held \ {r}
    /\ UNCHANGED <<stage, guarded, deployed>>

Finish ==
    /\ stage = "draining" /\ deployed = {} /\ held = {}
    /\ stage' = "absent" /\ guarded' = FALSE
    /\ UNCHANGED <<held, deployed>>

Next ==
    \/ Create \/ Guard \/ Acquire \/ Deploy
    \/ Leave \/ Drain \/ Undeploy \/ Release \/ Finish

Spec == Init /\ [][Next]_vars
=============================================================================
