---------------------------- MODULE StartupProofs ----------------------------
(***************************************************************************)
(* That no controller works in a process that is not up, and that an init  *)
(* job which ended without an error in its log has done all of its work,   *)
(* however many calls fail and pods are lost.                              *)
(***************************************************************************)
EXTENDS Startup, TLAPS

Commands == {"init", "run"}
Accesses == [Commands -> {"none", "pending", "granted"}]

USE DEF Ended

LEMMA AtFirstTypes == Init => TypeOK
<1> SUFFICES ASSUME Init PROVE TypeOK
  OBVIOUS
<1>1. access \in Accesses
  BY DEF Init, Accesses, Commands
<1>2. crd \in [Types -> {"absent", "old", "new"}] /\ budget \in 0 .. MaxEvents
  BY StartupAssumption DEF Init
<1> QED BY <1>1, <1>2 DEF Init, TypeOK, Accesses, Commands

LEMMA DisturbTypes ==
    ASSUME TypeOK, NEW kind, Disturb(kind)
    PROVE  budget' \in 0 .. MaxEvents
  BY StartupAssumption DEF Disturb, TypeOK

\* The init job, access for it, and what is left of the budget.
LEMMA InitTypes ==
    ASSUME TypeOK, InitJob \/ InitAccessFails \/ InitDies
    PROVE  TypeOK'
<1>1. CASE InitAsks
  <2>1. access' \in Accesses
    BY <1>1 DEF InitAsks, Ask, TypeOK, Accesses, Commands
  <2> QED BY <1>1, <2>1 DEF InitAsks, TypeOK, runVars, Accesses, Commands
<1>2. CASE InitConnects \/ InitTimesOut
  BY <1>2 DEF InitConnects, InitTimesOut, Proceed, TypeOK, runVars
<1>3. CASE InitAccessFails
  <2>1. budget' \in 0 .. MaxEvents BY <1>3, DisturbTypes DEF InitAccessFails
  <2> QED BY <1>3, <2>1 DEF InitAccessFails, Proceed, TypeOK, runVars
<1>4. CASE InstallCRD
  <2>1. PICK t \in todo : Tries(t) /\ crd' = [crd EXCEPT ![t] = "new"]
    BY <1>4 DEF InstallCRD
  <2>2. crd' \in [Types -> {"absent", "old", "new"}] BY <2>1 DEF TypeOK
  <2> QED BY <1>4, <2>1, <2>2 DEF InstallCRD, Tries, TypeOK, runVars
<1>5. CASE InstallFails
  <2>1. PICK t \in todo : Tries(t) /\ (Disturb("fault") \/ UNCHANGED budget)
    BY <1>5 DEF InstallFails
  <2>2. budget' \in 0 .. MaxEvents BY <2>1, DisturbTypes DEF TypeOK
  <2> QED BY <1>5, <2>1, <2>2 DEF InstallFails, Tries, TypeOK, runVars
<1>6. CASE InstallPanics \/ InitAgain
  BY <1>6 DEF InstallPanics, InitAgain, TypeOK, runVars
<1>7. CASE Register \/ InitDies
  <2>1. budget' \in 0 .. MaxEvents BY <1>7, DisturbTypes DEF Register, InitDies, TypeOK
  <2> QED BY <1>7, <2>1 DEF Register, InitDies, TypeOK, runVars
<1> QED BY <1>1, <1>2, <1>3, <1>4, <1>5, <1>6, <1>7 DEF InitJob

\* The process, and the platform.
LEMMA RunTypes ==
    ASSUME TypeOK, RunProcess \/ RunDies \/ Grant
    PROVE  TypeOK'
<1>0. TypeOK /\ UNCHANGED initVars /\ UNCHANGED crd
  BY DEF RunProcess, RunDies, Grant, RunStarts, RunAsks, RunConnects, RunSetsUp, Sync, RunTimesOut,
         SyncTimesOut, RunEnds
<1>1. CASE RunStarts \/ RunConnects \/ RunSetsUp
  BY <1>0, <1>1 DEF RunStarts, RunConnects, RunSetsUp, TypeOK, initVars
<1>2. CASE RunAsks
  <2>1. access' \in Accesses
    BY <1>2 DEF RunAsks, Ask, TypeOK, Accesses, Commands
  <2> QED BY <1>0, <1>2, <2>1 DEF RunAsks, TypeOK, initVars, Accesses, Commands
<1>3. ASSUME NEW t \in Types, Sync(t) PROVE TypeOK'
  BY <1>0, <1>3 DEF Sync, TypeOK, initVars
<1>4. CASE RunTimesOut \/ SyncTimesOut
  BY <1>0, <1>4 DEF RunTimesOut, SyncTimesOut, RunEnds, TypeOK, initVars
<1>5. CASE RunDies
  <2>1. budget' \in 0 .. MaxEvents BY <1>5, DisturbTypes DEF RunDies
  <2> QED BY <1>0, <1>5, <2>1 DEF RunDies, RunEnds, TypeOK, initVars
<1>6. CASE Grant
  <2>1. access' \in Accesses
    BY <1>6 DEF Grant, TypeOK, Accesses, Commands
  <2> QED BY <1>0, <1>6, <2>1 DEF Grant, TypeOK, initVars, runVars, Accesses, Commands
<1> QED BY <1>1, <1>2, <1>3, <1>4, <1>5, <1>6 DEF RunProcess

\* The variables keep their types, and a controller works only in a process that is up,
\* however it ends and is started again (main.go, run).
THEOREM StartupTypeCorrect == Spec => []TypeOK
<1>1. TypeOK /\ [Next]_vars => TypeOK'
  <2>1. ASSUME TypeOK, UNCHANGED vars PROVE TypeOK'
    BY <2>1 DEF vars, initVars, runVars, TypeOK
  <2> QED BY <2>1, InitTypes, RunTypes DEF Next
<1> QED BY <1>1, AtFirstTypes, PTL DEF Spec

-----------------------------------------------------------------------------

Silent ==
    /\ crd \in [Types -> {"absent", "old", "new"}]
    /\ todo \subseteq Types
    /\ TriedIsInstalled
    /\ SilentInitIsComplete

LEMMA SilentAtFirst == Init => Silent
  BY DEF Init, Silent, TriedIsInstalled, SilentInitIsComplete, Types

\* A CRD is tried: installed, or its error logged.
LEMMA SilentTries ==
    ASSUME Silent, InstallCRD \/ InstallFails
    PROVE  Silent'
<1>1. CASE InstallCRD
  <2>1. PICK t \in todo : Tries(t) /\ crd' = [crd EXCEPT ![t] = "new"] /\ UNCHANGED logged
    BY <1>1 DEF InstallCRD
  <2>2. job = "crds" /\ UNCHANGED <<job, registered>> /\ todo' = todo \ {t}
    BY <2>1 DEF Tries
  <2>3. TriedIsInstalled'
    BY <2>1, <2>2 DEF Silent, TriedIsInstalled
  <2> QED BY <2>1, <2>2, <2>3 DEF Silent, SilentInitIsComplete
<1>2. CASE InstallFails
  BY <1>2 DEF InstallFails, Tries, Silent, TriedIsInstalled, SilentInitIsComplete
<1> QED BY <1>1, <1>2

\* The job goes on to the CRDs with none of them tried, or with an error logged.
LEMMA SilentProceeds ==
    ASSUME Silent, NEW client, job = "waiting", Proceed(client)
    PROVE  Silent'
  BY DEF Proceed, Silent, TriedIsInstalled, SilentInitIsComplete

\* It succeeds after the last one, and whether it registers is logged.
LEMMA SilentRegisters ==
    ASSUME Silent, Register
    PROVE  Silent'
  BY DEF Register, Silent, TriedIsInstalled, SilentInitIsComplete

LEMMA SilentStep ==
    ASSUME Silent, [Next]_vars
    PROVE  Silent'
<1> DEFINE Kept == UNCHANGED <<crd, job, todo, logged, registered>>
<1>1. ASSUME Kept PROVE Silent'
  BY <1>1 DEF Silent, TriedIsInstalled, SilentInitIsComplete
<1>2. ASSUME crd' = crd, todo' \subseteq Types, job' \in {"created", "waiting", "failed"}
      PROVE  Silent'
  BY <1>2 DEF Silent, TriedIsInstalled, SilentInitIsComplete
<1>3. CASE InitAsks \/ InstallPanics \/ InitAgain \/ InitDies
  <2>1. todo \subseteq Types BY DEF Silent
  <2> QED BY <1>3, <1>2, <2>1 DEF InitAsks, InstallPanics, InitAgain, InitDies
<1>4. CASE InitConnects \/ InitTimesOut \/ InitAccessFails
  BY <1>4, SilentProceeds DEF InitConnects, InitTimesOut, InitAccessFails
<1>5. CASE InstallCRD \/ InstallFails
  BY <1>5, SilentTries
<1>6. CASE Register
  BY <1>6, SilentRegisters
<1>7. CASE RunProcess \/ RunDies \/ Grant
  BY <1>7, <1>1 DEF RunProcess, RunDies, Grant, RunStarts, RunAsks, RunConnects, RunSetsUp, Sync,
                    RunTimesOut, SyncTimesOut, RunEnds, initVars
<1>8. CASE UNCHANGED vars
  BY <1>8, <1>1 DEF vars, initVars
<1> QED BY <1>3, <1>4, <1>5, <1>6, <1>7, <1>8 DEF Next, InitJob

\* Where the init job succeeded and logged no error, both CRDs are those of this version
\* and the kind is registered, for any number of failures and crashes (main.go, init).
THEOREM SilentInitDidItAll == Spec => []SilentInitIsComplete
<1>1. Silent => SilentInitIsComplete BY DEF Silent
<1> QED BY <1>1, SilentAtFirst, SilentStep, PTL DEF Spec
==============================================================================
