-------------------------- MODULE MCProviderConfigSync --------------------------
(***************************************************************************)
(* Small instances of ProviderConfigSync for TLC.                          *)
(***************************************************************************)
EXTENDS ProviderConfigSync

\* The config changes between two that poll and one that does not
MCConfigs == {"first", "second", "still"}
MCPolling == {"first", "second"}
MCObjs == {"s1", "s2"}
=============================================================================
