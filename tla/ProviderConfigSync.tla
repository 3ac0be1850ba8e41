-------------------------- MODULE ProviderConfigSync --------------------------
(***************************************************************************)
(* How a ProviderConfig reaches the reconciles of one process, step by     *)
(* step: PCReconciler reads it and sends it over the unbuffered channel;   *)
(* the channel source of controller-runtime takes it into a buffer; the    *)
(* map function of SPReconciler stores it and then enqueues the service    *)
(* objects; their worker copies the pointer when a reconcile begins.       *)
(* ServiceProvider has all this in one step, DeliverConfig; here a         *)
(* reconcile is one step to begin and one to end.                          *)
(*                                                                         *)
(* The process may be told to stop at any time, also while the sender is   *)
(* blocked, and may crash; it is started again.                            *)
(***************************************************************************)
EXTENDS Naturals, Sequences, FiniteSets

CONSTANTS
    Configs,       \* ProviderConfigs
    Polling,       \* those with a poll interval
    NoConfig,      \* there is none, or it is marked for deletion
    Objs,          \* service objects
    BufferSize,    \* of the channel source (1024)
    Disturbances,  \* kinds of events that may happen
    MaxEvents      \* how many of them

ASSUME SyncAssumption ==
    /\ NoConfig \notin Configs
    /\ Polling \subseteq Configs
    /\ BufferSize \in Nat \ {0}
    /\ MaxEvents \in Nat

VARIABLES
    hasKind,   \* emptyObj() sets its TypeMeta, which main.go's does not; never changes
    history,   \* what the ProviderConfig has been; the last one is on the cluster
    notified,  \* the queue of the ProviderConfig controller holds the name
    retry,     \* and its delayed requeue does
    sending,   \* the event that PCReconciler is sending, if any
    buffer,    \* events the channel source has taken
    taken,     \* the event the map function is working on, if any
    cached,    \* the atomic pointer, with its place in the history
    dropped,   \* the map function has dropped the error of its last list
    objs,      \* service objects that exist
    queued,    \* the work queue of the service objects
    timer,     \* their delayed requeues
    working,   \* the reconcile under way, if any
    applied,   \* object -> the config of its last complete reconcile
    mode,      \* of the process: "running" or "stopping"
    budget     \* events left

pcVars == <<notified, retry, sending>>
spVars == <<queued, timer, working, applied>>
vars == <<hasKind, history, pcVars, buffer, taken, cached, dropped, objs, spVars, mode, budget>>

MaybeConfig == Configs \cup {NoConfig}
Events == [rv : Nat, cfg : MaybeConfig, failed : BOOLEAN]
Jobs == [obj : Objs, cfg : MaybeConfig]

TypeOK ==
    /\ hasKind \in BOOLEAN
    /\ history \in Seq(MaybeConfig) /\ history # <<>>
    /\ notified \in BOOLEAN /\ retry \in BOOLEAN
    /\ sending \subseteq Events
    /\ buffer \in Seq(Events) /\ Len(buffer) <= BufferSize
    /\ taken \subseteq Events
    /\ cached \in [rv : Nat, cfg : MaybeConfig] /\ dropped \in BOOLEAN
    /\ objs \subseteq Objs /\ queued \subseteq Objs /\ timer \subseteq Objs
    /\ working \subseteq Jobs
    /\ applied \in [Objs -> MaybeConfig]
    /\ mode \in {"running", "stopping"}
    /\ budget \in 0 .. MaxEvents

Current == history[Len(history)]
Empty == [rv |-> 0, cfg |-> NoConfig]

Init ==
    /\ hasKind \in BOOLEAN
    /\ history \in {<<c>> : c \in MaybeConfig}
    /\ notified = (Current # NoConfig)
    /\ retry = FALSE /\ sending = {} /\ buffer = <<>> /\ taken = {}
    /\ cached = Empty /\ dropped = FALSE
    /\ objs \in SUBSET Objs
    /\ queued = objs /\ timer = {} /\ working = {}
    /\ applied = [o \in Objs |-> NoConfig]
    /\ mode = "running"
    /\ budget = MaxEvents

Disturb(kind) == kind \in Disturbances /\ budget > 0 /\ budget' = budget - 1

-----------------------------------------------------------------------------
(* PCReconciler.Reconcile: one worker, one name.                           *)

Reads(cfg, failed) ==
    /\ mode = "running" /\ notified /\ sending = {}
    /\ notified' = FALSE
    /\ sending' = {[rv |-> Len(history), cfg |-> cfg, failed |-> failed]}
    /\ UNCHANGED <<hasKind, history, retry, buffer, taken, cached, dropped, objs, spVars, mode>>

\* Mutated: the event is sent by a goroutine of its own
ReadAndSendInBackground ==
    /\ mode = "running" /\ notified
    /\ notified' = FALSE
    /\ sending' = sending \cup {[rv |-> Len(history), cfg |-> Current, failed |-> FALSE]}
    /\ UNCHANGED <<hasKind, history, retry, buffer, taken, cached, dropped, objs, spVars, mode, budget>>

\* nil for a config that is not there or is marked for deletion
Read == Reads(Current, FALSE) /\ UNCHANGED budget

\* Mutated: the error is not returned
ReadFailsQuietly == Disturb("miss") /\ Reads(NoConfig, FALSE)

\* nil for a Get that fails as well, which is then tried again
ReadFails == Disturb("miss") /\ Reads(NoConfig, TRUE)

\* Mutated: the buffer has no limit
SendUnbounded ==
    /\ mode = "running"
    /\ \E e \in sending :
         /\ buffer' = Append(buffer, e)
         /\ retry' = (retry \/ e.failed)
         /\ sending' = sending \ {e}
    /\ UNCHANGED <<hasKind, history, notified, taken, cached, dropped, objs, spVars, mode, budget>>

\* The rendezvous with the channel source, which stops with the process; it takes
\* nothing while its buffer is full.  Then Reconcile returns.
Send ==
    /\ mode = "running" /\ Len(buffer) < BufferSize
    /\ \E e \in sending :
         /\ buffer' = Append(buffer, e)
         /\ retry' = (retry \/ e.failed)
         /\ sending' = sending \ {e}
    /\ UNCHANGED <<hasKind, history, notified, taken, cached, dropped, objs, spVars, mode, budget>>

Retry ==
    /\ retry /\ retry' = FALSE
    /\ notified' = TRUE
    /\ UNCHANGED <<hasKind, history, sending, buffer, taken, cached, dropped, objs, spVars, mode, budget>>

-----------------------------------------------------------------------------
(* The map function of SPReconciler.SetupWithManager, called for one event *)
(* after the other.                                                        *)

Takes ==
    /\ mode = "running" /\ taken = {} /\ buffer # <<>>
    /\ taken' = {Head(buffer)}
    /\ buffer' = Tail(buffer)
    /\ UNCHANGED <<hasKind, history, pcVars, objs, timer, working, applied, mode, budget>>

Completes ==
    /\ mode = "running" /\ taken # {}
    /\ taken' = {}
    /\ UNCHANGED <<hasKind, history, pcVars, buffer, objs, timer, working, applied, mode>>

Store(e) == cached' = [rv |-> e.rv, cfg |-> e.cfg]

\* The list fails without a kind
Enqueue ==
    /\ queued' = IF hasKind THEN queued \cup objs ELSE queued
    /\ dropped' = ~hasKind

\* Mutated: the objects are enqueued first, then the config is stored
MapFunctionEnqueuesFirst ==
    \/ Takes /\ Enqueue /\ UNCHANGED cached
    \/ Completes /\ (\E e \in taken : Store(e)) /\ UNCHANGED <<dropped, queued, budget>>

\* The pointer is stored, then the objects are listed and enqueued
MapFunction ==
    \/ Takes /\ Store(Head(buffer)) /\ UNCHANGED <<dropped, queued>>
    \/ Completes /\ Enqueue /\ UNCHANGED <<cached, budget>>

ListFails == Disturb("list") /\ Completes /\ dropped' = TRUE /\ UNCHANGED <<cached, queued>>

-----------------------------------------------------------------------------
(* The worker of the service objects, SPReconciler.Reconcile.              *)

\* The pointer is copied when the reconcile begins
Begin(o) ==
    /\ mode = "running" /\ working = {} /\ o \in queued
    /\ queued' = queued \ {o}
    /\ working' = {[obj |-> o, cfg |-> cached.cfg]}
    /\ UNCHANGED <<hasKind, history, pcVars, buffer, taken, cached, dropped, objs, timer, applied, mode, budget>>

\* Mutated: no poll interval after a success
EndWithoutPolling ==
    /\ \E w \in working :
         /\ applied' = IF w.cfg = NoConfig THEN applied ELSE [applied EXCEPT ![w.obj] = w.cfg]
         /\ timer' = IF w.cfg = NoConfig THEN timer \cup {w.obj} ELSE timer
    /\ working' = {}
    /\ UNCHANGED <<hasKind, history, pcVars, buffer, taken, cached, dropped, objs, queued, mode, budget>>

\* An error without a config, retried; else the poll interval, if there is one.  A
\* reconcile under way ends although the process is stopping.
End ==
    /\ \E w \in working :
         /\ applied' = IF w.cfg = NoConfig THEN applied ELSE [applied EXCEPT ![w.obj] = w.cfg]
         /\ timer' = IF w.cfg \in Polling \cup {NoConfig} THEN timer \cup {w.obj} ELSE timer
    /\ working' = {}
    /\ UNCHANGED <<hasKind, history, pcVars, buffer, taken, cached, dropped, objs, queued, mode, budget>>

TimerFires(o) ==
    /\ o \in timer
    /\ timer' = timer \ {o}
    /\ queued' = queued \cup {o}
    /\ UNCHANGED <<hasKind, history, pcVars, buffer, taken, cached, dropped, objs, working, applied, mode, budget>>

-----------------------------------------------------------------------------
(* The operator, the users and the process.                                *)

Change ==
    /\ Disturb("config")
    /\ \E c \in MaybeConfig \ {Current} : history' = Append(history, c)
    /\ notified' = TRUE
    /\ UNCHANGED <<hasKind, retry, sending, buffer, taken, cached, dropped, objs, spVars, mode>>

Create ==
    /\ Disturb("create")
    /\ \E o \in Objs \ objs : objs' = objs \cup {o} /\ queued' = queued \cup {o}
    /\ UNCHANGED <<hasKind, history, pcVars, buffer, taken, cached, dropped, timer, working, applied, mode>>

Stop ==
    /\ Disturb("stop")
    /\ mode = "running" /\ mode' = "stopping"
    /\ UNCHANGED <<hasKind, history, pcVars, buffer, taken, cached, dropped, objs, spVars>>

\* A new process: its caches list the objects and the config, which may be there
\* although it is marked for deletion
Reboot ==
    /\ mode' = "running"
    /\ notified' \in IF Current = NoConfig THEN BOOLEAN ELSE {TRUE}
    /\ retry' = FALSE /\ sending' = {} /\ buffer' = <<>> /\ taken' = {}
    /\ cached' = Empty /\ dropped' = FALSE
    /\ queued' = objs /\ timer' = {} /\ working' = {}
    /\ UNCHANGED <<hasKind, history, objs, applied>>

\* Mutated: the manager waits for its workers without a limit
ExitWhenDrained ==
    /\ mode = "stopping" /\ sending = {} /\ working = {}
    /\ Reboot
    /\ UNCHANGED budget

\* The manager waits for its workers, but not longer than its graceful shutdown
\* timeout, which main.go leaves at 30 s
Exit ==
    /\ mode = "stopping"
    /\ Reboot
    /\ UNCHANGED budget

Crash == Disturb("crash") /\ Reboot

-----------------------------------------------------------------------------

Next ==
    \/ Read \/ ReadFails \/ Send \/ Retry
    \/ MapFunction \/ ListFails
    \/ \E o \in Objs : Begin(o) \/ TimerFires(o)
    \/ End
    \/ Change \/ Create \/ Stop \/ Exit \/ Crash

Spec == Init /\ [][Next]_vars

\* Calls return, delayed requeues come due, a stopping process ends.  The work queue is
\* fair to each of its objects although the worker is busy with others in between.
Fairness ==
    /\ WF_vars(Read) /\ WF_vars(Send) /\ WF_vars(Retry) /\ WF_vars(MapFunction)
    /\ \A o \in Objs : SF_vars(Begin(o)) /\ WF_vars(TimerFires(o))
    /\ WF_vars(End) /\ WF_vars(Exit)

FairSpec == Spec /\ Fairness

-----------------------------------------------------------------------------
(* Properties.                                                             *)

Register == INSTANCE ConfigRegister WITH register <- cached

\* Events arrive in the order of the reads: the pointer never goes back to an older
\* config, whatever is in flight when the config changes (PCReconciler.Reconcile).
ImplementsRegister == Register!Spec

\* And the newest config gets there, in spite of reads that fail and send nil, of a full
\* buffer, stops and crashes.
RegisterLearns == Register!FairSpec

\* Why it never goes back: what is in flight is in order, and what it carries was the
\* config when it was read, or nil for a read that failed.
Carried(e) == e.rv \in 1 .. Len(history) /\ e.cfg \in {history[e.rv], NoConfig}

InOrder ==
    /\ \A e \in sending : Carried(e)
    /\ \A m \in DOMAIN buffer :
         /\ cached.rv <= buffer[m].rv
         /\ Carried(buffer[m])
         /\ \A n \in DOMAIN buffer : m < n => buffer[m].rv <= buffer[n].rv
         /\ \A e \in sending : buffer[m].rv <= e.rv
    /\ \A e \in sending : cached.rv <= e.rv
    /\ cached.rv <= Len(history)

\* Why the newest config gets there: no change is forgotten.  As long as the pointer does
\* not hold the config on the cluster, PCReconciler has it to read, or reads it again
\* after a Get that failed, or it is the last one in flight (PCReconciler.Reconcile).
NewestOnItsWay ==
    \/ notified \/ retry
    \/ \E e \in sending : e.failed \/ e.cfg = Current
    \/ sending = {} /\ buffer # <<>> /\ buffer[Len(buffer)].cfg = Current
    \/ sending = {} /\ buffer = <<>> /\ cached.cfg = Current

\* No list is needed where every config until now had a poll interval
AllPolled == \A k \in DOMAIN history : history[k] \in Polling \cup {NoConfig}

Going(o) == o \in queued \cup timer \cup {w.obj : w \in working}

\* Why the objects follow: one that was not reconciled with what the pointer holds is
\* about to be, or the map function has yet to list it or has failed to; and while every
\* config polls, an object keeps going without a list (the map function, Reconcile).
NoObjectForgotten ==
    \A o \in objs :
        /\ \/ o \in queued \cup timer \/ [obj |-> o, cfg |-> cached.cfg] \in working
           \/ applied[o] = cached.cfg
           \/ taken # {} \/ dropped
        /\ AllPolled => Going(o)

\* "Any provider config change results in a reconcile request for every existing service
\* provider api object" (pcreconciler.go): each object is reconciled with the newest
\* config in the end, by that request or, where the list has failed, at its next poll.
EveryObjectLearns ==
    <>[](Current # NoConfig /\ (dropped => AllPolled)) => <>[](\A o \in objs : applied[o] = Current)
=============================================================================
