---------------------------- MODULE ConfigRegister ----------------------------
(***************************************************************************)
(* What the delivery of the ProviderConfig promises: a register, the       *)
(* pointer that reconciles read, that never goes back to an older config   *)
(* while the process runs and ends up with the newest one.  A read that    *)
(* fails and a restart empty it for a while.  ProviderConfigSync           *)
(* implements this.                                                        *)
(***************************************************************************)
EXTENDS Naturals, Sequences

CONSTANTS Configs, NoConfig

VARIABLES
    history,    \* the configs there have been, the last one is current
    register    \* a config and its place in the history

vars == <<history, register>>

Empty == [rv |-> 0, cfg |-> NoConfig]
Newest == history[Len(history)]

Init ==
    /\ history \in {<<c>> : c \in Configs \cup {NoConfig}}
    /\ register = Empty

Change ==
    /\ \E c \in Configs \cup {NoConfig} : history' = Append(history, c)
    /\ UNCHANGED register

Publish ==
    /\ \E k \in 1 .. Len(history) :
         /\ register.rv <= k
         /\ register' \in {[rv |-> k, cfg |-> history[k]], [rv |-> k, cfg |-> NoConfig]}
    /\ UNCHANGED history

Forget ==
    /\ register' = Empty
    /\ UNCHANGED history

Next == Change \/ Publish \/ Forget

Spec == Init /\ [][Next]_vars

\* The newest config, when it is not the one in the register, gets there
Learn ==
    /\ register.cfg # Newest
    /\ register' = [rv |-> Len(history), cfg |-> Newest]
    /\ UNCHANGED history

FairSpec == Spec /\ WF_vars(Learn)
=============================================================================
