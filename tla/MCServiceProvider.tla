--------------------------- MODULE MCServiceProvider ---------------------------
(***************************************************************************)
(* Small instances of ServiceProvider for TLC.                             *)
(***************************************************************************)
EXTENDS ServiceProvider

CONSTANT nil

MCSettings == {"observability", "telemetry", "otel/opentelemetry-collector-contrib",
               "0.146.1", "0.150.0", "small"}

MCHash(c, s) == <<c, s>>

SpecOf(ns, version) == [namespace |-> ns, image |-> nil, version |-> version, resources |-> nil]

ConfigOf(version, pull, poll) ==
    [defaults |-> [namespace |-> "observability", image |-> "otel/opentelemetry-collector-contrib",
                   version |-> version, resources |-> "small"],
     pullSecrets |-> pull, poll |-> poll]

\* One namespace: the specs differ in the version only
FixedNamespaces == {"observability"}
FixedSpecs == {SpecOf(nil, nil), SpecOf(nil, "0.150.0")}
\* Two: the spec may move the collector
TwoNamespaces == {"observability", "telemetry"}
MovingSpecs == {SpecOf(nil, nil), SpecOf("telemetry", nil)}

OneConfig   == {ConfigOf("0.146.1", <<>>, TRUE)}
TwoConfigs  == {ConfigOf("0.146.1", <<>>, TRUE), ConfigOf("0.150.0", <<"pull">>, TRUE)}
NoPolling   == {ConfigOf("0.146.1", <<>>, FALSE), ConfigOf("0.150.0", <<>>, FALSE)}

\* Fewer initial states for the liveness run: the prerequisites are complete or the
\* namespace does not exist, and all contents start out the same
FewStarts ==
    /\ Init
    /\ LET d == CHOOSE x \in Data : TRUE
       IN  /\ \A n \in SecretNames : platformSecrets[n] = d
           /\ \A ns \in Namespaces : configMap[ns] = IF ns \in namespaces THEN d ELSE NoData

FewStartsFairSpec == FewStarts /\ [][Next]_vars /\ Fairness
=============================================================================
