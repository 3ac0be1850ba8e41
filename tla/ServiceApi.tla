------------------------------ MODULE ServiceApi ------------------------------
(***************************************************************************)
(* The API objects of the provider and the pure functions over them: the   *)
(* settings of an OtelCollectorService and of the ProviderConfig, how one  *)
(* overrides the other, and the status a reconcile computes and patches.   *)
(*                                                                         *)
(* Covered: precedence of settings, the status setters and the JSON merge  *)
(* patch by which a status reaches the API server.  Left out: the wording  *)
(* of messages (a reason and its message are one tag, "why") and the value *)
(* of lastTransitionTime (only whether it moved matters, see MergePatch).  *)
(***************************************************************************)
EXTENDS Naturals, Sequences, FiniteSets

CONSTANTS
    Nil,            \* a setting that is not given, a nil pointer in the code
    NoConfig,       \* there is no ProviderConfig, a nil pointer in the cache
    NoData,         \* a ConfigMap or Secret that does not exist
    Data,           \* contents of a ConfigMap or Secret
    Namespaces,     \* namespaces of the managed control plane
    Settings,       \* values of the settings
    SecretNames,    \* names of image pull secrets
    Specs,          \* specs a user gives to the service object
    Configs,        \* ProviderConfigs an operator applies
    ConfigHashOf(_, _) \* digest of the two prerequisites, see module ConfigHash

Fields == {"namespace", "image", "version", "resources"}

MaybeData == Data \cup {NoData}
Hashes == {NoData} \cup {ConfigHashOf(c, s) : c \in Data, s \in Data}

Overrides == [Fields -> Settings \cup {Nil}]
ProviderConfigs == [defaults    : Overrides,
                    pullSecrets : Seq(SecretNames),
                    poll        : BOOLEAN]  \* PollInterval() > 0

ASSUME ApiAssumption ==
    /\ Nil \notin Settings
    /\ NoData \notin Data
    /\ NoConfig \notin Configs
    /\ Specs \subseteq Overrides
    /\ Configs \subseteq ProviderConfigs
    /\ Namespaces \subseteq Settings

-----------------------------------------------------------------------------
(* Settings: the object's own, else the operator's default, else built in. *)

BuiltIn == [namespace |-> "observability",
            image     |-> "otel/opentelemetry-collector-contrib",
            version   |-> "0.146.1",
            resources |-> Nil]

\* Mutated: the operator's default wins over the object's own setting
ResolveDefaultFirst(field, spec, cfg) ==
    IF cfg.defaults[field] # Nil THEN cfg.defaults[field]
    ELSE IF spec[field] # Nil THEN spec[field]
    ELSE BuiltIn[field]

Resolve(field, spec, cfg) ==
    IF spec[field] # Nil THEN spec[field]
    ELSE IF cfg.defaults[field] # Nil THEN cfg.defaults[field]
    ELSE BuiltIn[field]

ASSUME NamespaceAssumption ==
    \A s \in Specs, c \in Configs : Resolve("namespace", s, c) \in Namespaces

\* What a field of the Deployment can be set to
Values == Settings \cup {BuiltIn[f] : f \in Fields}

-----------------------------------------------------------------------------
(* Status of the service object.                                           *)

Whys == {"NoProviderConfig", "ClusterAccessError", "SettingUpAccess",
         "InProgress", "WaitingForConfigMap", "WaitingForSecret",
         "WaitingForBoth", "ReconcileSuccess", "Terminating", ""}

Status == [phase : {"", "Progressing", "Ready", "Terminating"},
           ready : [status : {"", "True", "False"}, why : Whys, observed : Nat],
           observed : Nat]

NoStatus == [phase |-> "",
             ready |-> [status |-> "", why |-> "", observed |-> 0],
             observed |-> 0]

\* The service object as the API server stores it; NoObject: there is none.
Objects == [life : {"absent", "live", "deleting"}, fin : BOOLEAN, gen : Nat,
            spec : Specs \cup {Nil}, status : Status]

NoObject == [life |-> "absent", fin |-> FALSE, gen |-> 0, spec |-> Nil, status |-> NoStatus]

Reported(o, phase, status, why) ==
    [o EXCEPT !.status =
        [phase    |-> phase,
         ready    |-> [status |-> status, why |-> why, observed |-> o.gen],
         observed |-> o.gen]]

\* Mutated: the phase is set, meta.SetStatusCondition is forgotten
StatusReadyPhaseOnly(o) == [o EXCEPT !.status.phase = "Ready", !.status.observed = o.gen]

\* Mutated: a phase that is none of the constants
StatusTerminatingMisspelt(o) == Reported(o, "Deleting", "False", "Terminating")

StatusProgressing(o, why) == Reported(o, "Progressing", "False", why)
StatusReady(o)            == Reported(o, "Ready", "True", "ReconcileSuccess")
StatusTerminating(o)      == Reported(o, "Terminating", "False", "Terminating")

(* client.MergeFrom(old): the patch names the fields that differ between   *)
(* the two copies, the list of conditions as a whole; the server keeps its *)
(* own value of the others.  A reconcile that found the condition True and *)
(* leaves it True passed through False, so its lastTransitionTime may have *)
(* moved to a later second: timeMoved puts the condition in the patch.     *)
Churned(old, new) == old.ready.status = "True" /\ new.ready.status = "True"

PatchNames(old, new, timeMoved) ==
    {f \in {"phase", "ready", "observed"} : old[f] # new[f]}
        \cup (IF timeMoved /\ Churned(old, new) THEN {"ready"} ELSE {})

MergePatch(server, old, new, timeMoved) ==
    LET Merged(f) == IF f \in PatchNames(old, new, timeMoved) THEN new[f] ELSE server[f]
    IN  [phase |-> Merged("phase"), ready |-> Merged("ready"), observed |-> Merged("observed")]

\* phase and observedGeneration are required by the CRD's schema: a patch that
\* leaves one of them out is refused on an object that has no status yet.
PatchValid(server, old, new, timeMoved) ==
    server = NoStatus => {"phase", "observed"} \subseteq PatchNames(old, new, timeMoved)
=============================================================================
