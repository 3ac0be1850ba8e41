--------------------------- MODULE ConfigSyncProofs ---------------------------
(***************************************************************************)
(* Theorems about ProviderConfigSync, for any configs, objects, buffer and *)
(* number of events: what is in flight is in order, so the pointer never   *)
(* goes back to an older config; and neither a change of the config nor an *)
(* object is forgotten.                                                    *)
(***************************************************************************)
EXTENDS ProviderConfigSync, TLAPS

\* What the order is about has the types; the rest of TypeOK is not needed for it.
FlightType ==
    /\ history \in Seq(MaybeConfig) /\ history # <<>>
    /\ sending \subseteq Events
    /\ buffer \in Seq(Events)
    /\ cached \in [rv : Nat, cfg : MaybeConfig]

FlightInv == FlightType /\ InOrder /\ \A d, e \in sending : d = e

RegisterStep == [Register!Next]_Register!vars

\* A step that leaves configs, events in flight and the pointer alone.
LEMMA QuietFlight ==
    ASSUME FlightInv, UNCHANGED <<history, sending, buffer, cached>>
    PROVE  FlightInv' /\ RegisterStep
BY DEF FlightInv, FlightType, InOrder, Carried, RegisterStep, Register!vars

\* PCReconciler reads the newest config, or fails to: it is not older than what is in
\* flight, because it sends one event before it reads again.
LEMMA ReadFlight ==
    ASSUME FlightInv, NEW cfg \in {Current, NoConfig}, NEW failed \in BOOLEAN, Reads(cfg, failed)
    PROVE  FlightInv' /\ RegisterStep
<1>1. /\ history' = history /\ buffer' = buffer /\ cached' = cached
      /\ sending' = {[rv |-> Len(history), cfg |-> cfg, failed |-> failed]}
  BY DEF Reads
<1>2. Len(history) \in 1 .. Len(history) /\ Current \in MaybeConfig /\ cfg \in MaybeConfig
  BY DEF FlightInv, FlightType, Current, MaybeConfig
<1>3. FlightType'
  BY <1>1, <1>2 DEF FlightInv, FlightType, Events
<1>4. ASSUME NEW m \in DOMAIN buffer PROVE buffer[m].rv <= Len(history)
  BY DEF FlightInv, InOrder, Carried
<1>5. InOrder'
  BY <1>1, <1>2, <1>4 DEF FlightInv, InOrder, Carried, Current
<1>6. RegisterStep
  BY <1>1 DEF RegisterStep, Register!vars
<1> QED
  BY <1>1, <1>3, <1>5, <1>6 DEF FlightInv

\* The event joins the end of the buffer.
LEMMA SendFlight ==
    ASSUME FlightInv, Send
    PROVE  FlightInv' /\ RegisterStep
<1>1. PICK e \in sending : buffer' = Append(buffer, e) /\ sending' = sending \ {e}
  BY DEF Send
<1>2. sending' = {} /\ UNCHANGED <<history, cached>> /\ e \in Events
  BY <1>1 DEF FlightInv, FlightType, Send
<1>3. FlightType'
  BY <1>1, <1>2 DEF FlightInv, FlightType
<1>4. /\ buffer \in Seq(Events)
      /\ DOMAIN buffer' = 1 .. (Len(buffer) + 1)
      /\ \A m \in DOMAIN buffer' : buffer'[m] = IF m = Len(buffer) + 1 THEN e ELSE buffer[m]
  BY <1>1, <1>2 DEF FlightInv, FlightType
<1>5. Carried(e) /\ cached.rv <= e.rv /\ (\A m \in DOMAIN buffer : buffer[m].rv <= e.rv)
  BY DEF FlightInv, InOrder
<1>6. ASSUME NEW m \in DOMAIN buffer', NEW n \in DOMAIN buffer', m < n
      PROVE  buffer'[m].rv <= buffer'[n].rv
  BY <1>4, <1>5, <1>6 DEF FlightInv, InOrder
<1>7. ASSUME NEW m \in DOMAIN buffer'
      PROVE  cached.rv <= buffer'[m].rv /\ Carried(buffer'[m])
  BY <1>4, <1>5 DEF FlightInv, InOrder
<1>8. InOrder'
  BY <1>2, <1>6, <1>7 DEF FlightInv, InOrder, Carried
<1>9. RegisterStep
  BY <1>2 DEF RegisterStep, Register!vars
<1> QED
  BY <1>2, <1>3, <1>8, <1>9 DEF FlightInv

\* The map function stores the event at the head, the oldest one in flight.
LEMMA StoreFlight ==
    ASSUME FlightInv, Takes, Store(Head(buffer))
    PROVE  FlightInv' /\ RegisterStep
<1> DEFINE e == Head(buffer)
<1>1. /\ buffer # <<>> /\ buffer' = Tail(buffer) /\ UNCHANGED <<history, sending>>
      /\ cached' = [rv |-> e.rv, cfg |-> e.cfg]
  BY DEF Takes, Store, pcVars
<1>2. /\ buffer \in Seq(Events) /\ 1 \in DOMAIN buffer /\ e = buffer[1]
      /\ DOMAIN buffer' = 1 .. (Len(buffer) - 1)
      /\ \A m \in DOMAIN buffer' : m + 1 \in DOMAIN buffer /\ buffer'[m] = buffer[m + 1]
  BY <1>1 DEF FlightInv, FlightType
<1>3. e \in Events /\ Carried(e) /\ cached.rv <= e.rv
  BY <1>2 DEF FlightInv, InOrder
<1>4. FlightType'
  BY <1>1, <1>2, <1>3 DEF FlightInv, FlightType, Events
<1>5. ASSUME NEW m \in DOMAIN buffer'
      PROVE  /\ e.rv <= buffer'[m].rv /\ Carried(buffer'[m])
             /\ \A n \in DOMAIN buffer' : m < n => buffer'[m].rv <= buffer'[n].rv
             /\ \A d \in sending : buffer'[m].rv <= d.rv
  BY <1>2 DEF FlightInv, InOrder
<1>6. (\A d \in sending : e.rv <= d.rv) /\ e.rv <= Len(history) /\ cached'.rv = e.rv
  BY <1>1, <1>2, <1>3 DEF FlightInv, InOrder, Carried
<1>7. InOrder'
  <2>1. \A d \in sending' : Carried(d) /\ cached'.rv <= d.rv
    BY <1>1, <1>6 DEF FlightInv, InOrder
  <2> HIDE DEF e
  <2> QED
    BY <2>1, <1>1, <1>5, <1>6 DEF InOrder, Carried
<1>8. Register!Publish
  <2>1. /\ e.rv \in 1 .. Len(history) /\ cached.rv <= e.rv
        /\ cached' \in {[rv |-> e.rv, cfg |-> history[e.rv]], [rv |-> e.rv, cfg |-> NoConfig]}
    BY <1>1, <1>3 DEF Carried
  <2> QED
    BY <2>1, <1>1 DEF Register!Publish
<1> QED
  BY <1>1, <1>4, <1>7, <1>8 DEF FlightInv, RegisterStep, Register!Next

\* The config changes: what is in flight was the config, once.
LEMMA ChangeFlight ==
    ASSUME FlightInv, Change
    PROVE  FlightInv' /\ RegisterStep
<1>1. PICK c \in MaybeConfig : history' = Append(history, c)
  BY DEF Change
<1>2. UNCHANGED <<sending, buffer, cached>>
  BY DEF Change
<1>3. /\ history' \in Seq(MaybeConfig) /\ Len(history') = Len(history) + 1 /\ Len(history) \in Nat
      /\ \A k \in 1 .. Len(history) : history'[k] = history[k]
  BY <1>1 DEF FlightInv, FlightType
<1>4. \A e \in Events : Carried(e) =>
        e.rv \in 1 .. Len(history') /\ e.cfg \in {history'[e.rv], NoConfig}
  BY <1>3 DEF Carried, Events
<1>5. FlightType'
  BY <1>2, <1>3 DEF FlightInv, FlightType
<1>6. InOrder'
  <2>1. \A e \in sending :
          e.rv \in 1 .. Len(history') /\ e.cfg \in {history'[e.rv], NoConfig}
    BY <1>4 DEF FlightInv, FlightType, InOrder
  <2>2. \A m \in DOMAIN buffer :
          /\ buffer[m].rv \in 1 .. Len(history')
          /\ buffer[m].cfg \in {history'[buffer[m].rv], NoConfig}
    BY <1>4 DEF FlightInv, FlightType, InOrder
  <2>3. cached.rv <= Len(history')
    BY <1>3 DEF FlightInv, FlightType, InOrder
  <2> QED
    BY <2>1, <2>2, <2>3, <1>2 DEF FlightInv, InOrder, Carried
<1>7. Register!Change
  BY <1>1, <1>2 DEF Register!Change, MaybeConfig
<1> QED
  BY <1>2, <1>5, <1>6, <1>7 DEF FlightInv, RegisterStep, Register!Next

\* A new process: nothing in flight, nothing known.
LEMMA RebootFlight ==
    ASSUME FlightInv, Reboot
    PROVE  FlightInv' /\ RegisterStep
<1>1. sending' = {} /\ buffer' = <<>> /\ cached' = Empty /\ history' = history
  BY DEF Reboot
<1>2. Len(history) \in Nat /\ Empty.rv = 0 /\ Empty \in [rv : Nat, cfg : MaybeConfig]
  BY DEF FlightInv, FlightType, Empty, MaybeConfig
<1>3. FlightInv'
  BY <1>1, <1>2 DEF FlightInv, FlightType, InOrder
<1>4. Register!Forget
  BY <1>1 DEF Register!Forget, Empty, Register!Empty
<1> QED
  BY <1>3, <1>4 DEF RegisterStep, Register!Next

\* Every step keeps the order and is a step of the register.
LEMMA NextFlight == FlightInv /\ [Next]_vars => FlightInv' /\ RegisterStep
<1> SUFFICES ASSUME FlightInv, [Next]_vars PROVE FlightInv' /\ RegisterStep
  OBVIOUS
<1>q. ASSUME UNCHANGED <<history, sending, buffer, cached>> PROVE FlightInv' /\ RegisterStep
  BY <1>q, QuietFlight
<1>1. CASE Read \/ ReadFails
  BY <1>1, ReadFlight DEF Read, ReadFails
<1>2. CASE Send
  BY <1>2, SendFlight
<1>3. CASE Retry
  BY <1>3, <1>q DEF Retry
<1>4. CASE MapFunction
  BY <1>4, <1>q, StoreFlight DEF MapFunction, Completes, pcVars
<1>5. CASE ListFails
  BY <1>5, <1>q DEF ListFails, Completes, pcVars
<1>6. ASSUME NEW o \in Objs, Begin(o) \/ TimerFires(o) PROVE FlightInv' /\ RegisterStep
  BY <1>6, <1>q DEF Begin, TimerFires, pcVars
<1>7. CASE End
  BY <1>7, <1>q DEF End, pcVars
<1>8. CASE Change
  BY <1>8, ChangeFlight
<1>9. CASE Create \/ Stop
  BY <1>9, <1>q DEF Create, Stop, pcVars
<1>10. CASE Exit \/ Crash
  BY <1>10, RebootFlight DEF Exit, Crash
<1>11. CASE UNCHANGED vars
  BY <1>11, <1>q DEF vars, pcVars
<1> QED
  BY <1>1, <1>2, <1>3, <1>4, <1>5, <1>6, <1>7, <1>8, <1>9, <1>10, <1>11 DEF Next

\* In the beginning nothing is in flight.
LEMMA InitFlight == Init => FlightInv /\ Register!Init
<1> SUFFICES ASSUME Init PROVE FlightInv /\ Register!Init
  OBVIOUS
<1>1. PICK c \in MaybeConfig : history = <<c>>
  BY DEF Init
<1>2. history \in Seq(MaybeConfig) /\ history # <<>> /\ Len(history) = 1
  BY <1>1
<1>3. cached = [rv |-> 0, cfg |-> NoConfig] /\ NoConfig \in MaybeConfig
  BY DEF Init, Empty, MaybeConfig
<1>4. FlightInv
  BY <1>2, <1>3 DEF Init, FlightInv, FlightType, InOrder
<1>5. Register!Init
  BY <1>1, <1>3 DEF Register!Init, Register!Empty, MaybeConfig
<1> QED
  BY <1>4, <1>5

\* What PCReconciler has read arrives in the order of the reads.
THEOREM ConfigsInOrder == Spec => []InOrder
<1>1. FlightInv => InOrder
  BY DEF FlightInv
<1> QED
  BY <1>1, InitFlight, NextFlight, PTL DEF Spec

\* The pointer of SPReconciler never goes back to an older config while the process
\* runs, and holds nothing that was not the ProviderConfig once: the delivery implements
\* the register of module ConfigRegister.
THEOREM RegisterImplemented == Spec => ImplementsRegister
<1>1. FlightInv /\ [Next]_vars => FlightInv' /\ [Register!Next]_Register!vars
  BY NextFlight DEF RegisterStep
<1> QED
  BY <1>1, InitFlight, PTL DEF Spec, ImplementsRegister, Register!Spec

-----------------------------------------------------------------------------
(* Types.                                                                  *)

\* In the beginning.
LEMMA InitTypes == Init => TypeOK
<1> SUFFICES ASSUME Init PROVE TypeOK
  OBVIOUS
<1>1. PICK c \in MaybeConfig : history = <<c>>
  BY DEF Init
<1>2. history \in Seq(MaybeConfig) /\ history # <<>> /\ NoConfig \in MaybeConfig
  BY <1>1 DEF MaybeConfig
<1>3. cached \in [rv : Nat, cfg : MaybeConfig] /\ applied \in [Objs -> MaybeConfig]
  BY <1>2 DEF Init, Empty
<1>4. buffer \in Seq(Events) /\ Len(buffer) <= BufferSize /\ budget \in 0 .. MaxEvents
  BY SyncAssumption DEF Init
<1> QED
  BY <1>2, <1>3, <1>4 DEF Init, TypeOK

\* An event of the environment leaves one event fewer.
LEMMA DisturbTypes ==
    ASSUME budget \in 0 .. MaxEvents
    PROVE  /\ \A kind : Disturb(kind) => budget' \in 0 .. MaxEvents
           /\ UNCHANGED budget => budget' \in 0 .. MaxEvents
BY SyncAssumption DEF Disturb

\* Sender, channel and map function.
LEMMA DeliveryTypes ==
    ASSUME TypeOK, budget' \in 0 .. MaxEvents,
           \/ \E cfg \in {Current, NoConfig}, failed \in BOOLEAN : Reads(cfg, failed)
           \/ Send \/ Retry
           \/ Takes /\ Store(Head(buffer)) /\ UNCHANGED <<dropped, queued>>
           \/ Completes /\ UNCHANGED cached /\ dropped' \in BOOLEAN /\ queued' \in {queued, queued \cup objs}
    PROVE  TypeOK'
<1> USE DEF TypeOK
<1>1. ASSUME NEW cfg \in {Current, NoConfig}, NEW failed \in BOOLEAN, Reads(cfg, failed) PROVE TypeOK'
  <2>1. Len(history) \in Nat /\ cfg \in MaybeConfig
    BY DEF Current, MaybeConfig
  <2>2. sending' \subseteq Events
    BY <1>1, <2>1 DEF Reads, Events
  <2> QED
    BY <1>1, <2>2 DEF Reads, spVars
<1>2. CASE Send
  <2>1. PICK e \in sending : /\ buffer' = Append(buffer, e) /\ retry' = (retry \/ e.failed)
                             /\ sending' = sending \ {e}
    BY <1>2 DEF Send
  <2>2. e \in Events /\ e.failed \in BOOLEAN
    BY DEF Events
  <2>3. buffer' \in Seq(Events) /\ Len(buffer') = Len(buffer) + 1 /\ Len(buffer) < BufferSize
    BY <1>2, <2>1, <2>2 DEF Send
  <2>4. Len(buffer') <= BufferSize
    BY <2>3, SyncAssumption
  <2>5. retry' \in BOOLEAN /\ sending' \subseteq Events
    BY <2>1, <2>2
  <2> QED
    BY <1>2, <2>3, <2>4, <2>5 DEF Send, spVars
<1>3. CASE Retry
  BY <1>3 DEF Retry, spVars
<1>4. CASE Takes /\ Store(Head(buffer)) /\ UNCHANGED <<dropped, queued>>
  <2>1. buffer \in Seq(Events) /\ buffer # <<>> /\ buffer' = Tail(buffer) /\ Len(buffer) <= BufferSize
    BY <1>4 DEF Takes
  <2>2. Head(buffer) \in Events /\ buffer' \in Seq(Events) /\ Len(buffer') = Len(buffer) - 1
    BY <2>1
  <2>3. Len(buffer') <= BufferSize
    BY <2>1, <2>2, SyncAssumption
  <2>4. cached' \in [rv : Nat, cfg : MaybeConfig] /\ taken' \subseteq Events
    BY <1>4, <2>2 DEF Takes, Store, Events
  <2> QED
    BY <1>4, <2>2, <2>3, <2>4 DEF Takes, pcVars
<1>5. CASE Completes /\ UNCHANGED cached /\ dropped' \in BOOLEAN /\ queued' \in {queued, queued \cup objs}
  BY <1>5 DEF Completes, pcVars
<1> QED
  BY <1>1, <1>2, <1>3, <1>4, <1>5

\* The worker of the objects.
LEMMA WorkerTypes ==
    ASSUME TypeOK, End \/ \E o \in Objs : Begin(o) \/ TimerFires(o)
    PROVE  TypeOK'
<1> USE DEF TypeOK
<1>1. CASE End
  <2>1. PICK w \in working :
          /\ applied' = IF w.cfg = NoConfig THEN applied ELSE [applied EXCEPT ![w.obj] = w.cfg]
          /\ timer' = IF w.cfg \in Polling \cup {NoConfig} THEN timer \cup {w.obj} ELSE timer
    BY <1>1 DEF End
  <2>2. w.obj \in Objs /\ w.cfg \in MaybeConfig
    BY DEF Jobs
  <2>3. applied' \in [Objs -> MaybeConfig] /\ timer' \subseteq Objs
    BY <2>1, <2>2
  <2> QED
    BY <1>1, <2>3 DEF End, pcVars
<1>2. ASSUME NEW o \in Objs, Begin(o) PROVE TypeOK'
  <2>1. working' \subseteq Jobs
    BY <1>2 DEF Begin, Jobs
  <2> QED
    BY <1>2, <2>1 DEF Begin, pcVars
<1>3. ASSUME NEW o \in Objs, TimerFires(o) PROVE TypeOK'
  BY <1>3 DEF TimerFires, pcVars
<1> QED
  BY <1>1, <1>2, <1>3

\* The end of a process and what the new one begins with.
LEMMA RebootTypes ==
    ASSUME TypeOK, Reboot, budget' \in 0 .. MaxEvents
    PROVE  TypeOK'
<1>1. cached' = [rv |-> 0, cfg |-> NoConfig] /\ NoConfig \in MaybeConfig
  BY DEF Reboot, Empty, MaybeConfig
<1>2. cached' \in [rv : Nat, cfg : MaybeConfig] /\ buffer' \in Seq(Events) /\ Len(buffer') <= BufferSize
  BY <1>1, SyncAssumption DEF Reboot
<1>3. notified' \in BOOLEAN
  BY DEF Reboot
<1> QED
  BY <1>2, <1>3 DEF Reboot, TypeOK

\* Every step.
LEMMA NextTypes == TypeOK /\ [Next]_vars => TypeOK'
<1> SUFFICES ASSUME TypeOK, [Next]_vars PROVE TypeOK'
  OBVIOUS
<1>b. /\ \A kind : Disturb(kind) => budget' \in 0 .. MaxEvents
      /\ UNCHANGED budget => budget' \in 0 .. MaxEvents
  BY DisturbTypes DEF TypeOK
<1>1. CASE Read \/ ReadFails
  BY <1>1, <1>b, DeliveryTypes DEF Read, ReadFails
<1>2. CASE Send \/ Retry
  BY <1>2, <1>b, DeliveryTypes DEF Send, Retry
<1>3. CASE MapFunction \/ ListFails
  <2>1. hasKind \in BOOLEAN
    BY DEF TypeOK
  <2>2. CASE Takes /\ Store(Head(buffer)) /\ UNCHANGED <<dropped, queued>>
    BY <2>2, <1>b, DeliveryTypes DEF Takes
  <2>3. CASE Completes /\ Enqueue /\ UNCHANGED <<cached, budget>>
    <3>1. dropped' \in BOOLEAN /\ queued' \in {queued, queued \cup objs}
      BY <2>1, <2>3 DEF Enqueue
    <3> QED
      BY <3>1, <2>3, <1>b, DeliveryTypes
  <2>4. CASE ListFails
    BY <2>4, <1>b, DeliveryTypes DEF ListFails
  <2> QED
    BY <1>3, <2>2, <2>3, <2>4 DEF MapFunction
<1>4. CASE End \/ \E o \in Objs : Begin(o) \/ TimerFires(o)
  BY <1>4, WorkerTypes
<1>5. CASE Change
  <2>1. PICK c \in MaybeConfig : history' = Append(history, c)
    BY <1>5 DEF Change
  <2>2. history' \in Seq(MaybeConfig) /\ history' # <<>>
    BY <2>1 DEF TypeOK
  <2> QED
    BY <1>5, <2>2, <1>b DEF Change, TypeOK, spVars
<1>6. CASE Create \/ Stop
  BY <1>6, <1>b DEF Create, Stop, TypeOK, pcVars, spVars
<1>7. CASE Exit \/ Crash
  BY <1>7, <1>b, RebootTypes DEF Exit, Crash
<1>8. CASE UNCHANGED vars
  BY <1>8 DEF vars, TypeOK, pcVars, spVars
<1> QED
  BY <1>1, <1>2, <1>3, <1>4, <1>5, <1>6, <1>7, <1>8 DEF Next

\* The variables keep their types; the buffer of the channel source never holds more
\* than it has room for.
THEOREM SyncTypeCorrect == Spec => []TypeOK
BY InitTypes, NextTypes, PTL DEF Spec

-----------------------------------------------------------------------------
(* No change of the config is forgotten.                                   *)

LEMMA NewestStep ==
    ASSUME TypeOK, \A d, e \in sending : d = e, NewestOnItsWay, [Next]_vars
    PROVE  NewestOnItsWay'
<1>q. ASSUME UNCHANGED <<history, sending, buffer, cached>>, notified => notified', retry => retry'
      PROVE  NewestOnItsWay'
  BY <1>q DEF NewestOnItsWay, Current
<1>1. CASE Read \/ ReadFails
  <2>1. PICK cfg \in {Current, NoConfig}, failed \in BOOLEAN :
          Reads(cfg, failed) /\ (failed \/ cfg = Current)
    BY <1>1 DEF Read, ReadFails
  <2>2. history' = history /\ sending' = {[rv |-> Len(history), cfg |-> cfg, failed |-> failed]}
    BY <2>1 DEF Reads
  <2> QED
    BY <2>1, <2>2 DEF NewestOnItsWay, Current
<1>2. CASE Send
  <2>1. PICK e \in sending : /\ buffer' = Append(buffer, e) /\ retry' = (retry \/ e.failed)
                             /\ sending' = sending \ {e}
    BY <1>2 DEF Send
  <2>2. sending' = {} /\ UNCHANGED <<history, notified>> /\ e \in Events
    BY <1>2, <2>1 DEF Send, TypeOK
  <2>3. buffer' # <<>> /\ buffer'[Len(buffer')] = e
    BY <2>1, <2>2 DEF TypeOK
  <2>4. CASE notified \/ retry \/ e.failed
    BY <2>4, <2>1, <2>2 DEF NewestOnItsWay
  <2>5. CASE e.cfg = Current
    BY <2>5, <2>2, <2>3 DEF NewestOnItsWay, Current
  <2>6. notified \/ retry \/ e.failed \/ e.cfg = Current
    BY <2>1 DEF NewestOnItsWay
  <2> QED
    BY <2>4, <2>5, <2>6
<1>3. CASE Retry
  BY <1>3 DEF Retry, NewestOnItsWay
<1>4. CASE MapFunction
  <2>1. CASE Takes /\ Store(Head(buffer))
    <3>1. /\ UNCHANGED <<history, notified, retry, sending>>
          /\ buffer # <<>> /\ buffer' = Tail(buffer) /\ cached'.cfg = Head(buffer).cfg
      BY <2>1 DEF Takes, Store, pcVars
    <3>2. CASE Len(buffer) = 1
      <4>1. buffer' = <<>> /\ cached'.cfg = buffer[Len(buffer)].cfg
        BY <3>1, <3>2 DEF TypeOK
      <4> QED
        BY <3>1, <4>1 DEF NewestOnItsWay, Current
    <3>3. CASE Len(buffer) # 1
      <4>0. buffer \in Seq(Events) /\ buffer # <<>>
        BY <3>1 DEF TypeOK
      <4>n. Len(buffer) \in Nat /\ Len(buffer) # 0
        BY <4>0
      <4>1. Len(buffer) \in Nat /\ Len(buffer) > 1
        BY <4>n, <3>3
      <4>2. /\ Len(buffer') = Len(buffer) - 1
            /\ \A m \in 1 .. (Len(buffer) - 1) : buffer'[m] = buffer[m + 1]
        BY <3>1, <4>0, <4>1
      <4>3. buffer' # <<>> /\ buffer'[Len(buffer')] = buffer[Len(buffer)]
        BY <4>0, <4>1, <4>2
      <4> QED
        BY <3>1, <4>3 DEF NewestOnItsWay, Current
    <3> QED
      BY <3>2, <3>3
  <2>2. CASE Completes /\ UNCHANGED cached
    BY <2>2, <1>q DEF Completes, pcVars
  <2> QED
    BY <1>4, <2>1, <2>2 DEF MapFunction
<1>5. CASE ListFails \/ End \/ \E o \in Objs : Begin(o) \/ TimerFires(o)
  BY <1>5, <1>q DEF ListFails, Completes, End, Begin, TimerFires, pcVars
<1>6. CASE Change
  BY <1>6 DEF Change, NewestOnItsWay
<1>7. CASE Create \/ Stop
  BY <1>7, <1>q DEF Create, Stop, pcVars
<1>8. CASE Exit \/ Crash
  <2>1. /\ history' = history /\ sending' = {} /\ buffer' = <<>> /\ cached' = Empty
        /\ notified' \in IF Current = NoConfig THEN BOOLEAN ELSE {TRUE}
    BY <1>8 DEF Exit, Crash, Reboot
  <2>2. CASE Current = NoConfig
    BY <2>1, <2>2 DEF NewestOnItsWay, Current, Empty
  <2>3. CASE Current # NoConfig
    BY <2>1, <2>3 DEF NewestOnItsWay
  <2> QED
    BY <2>2, <2>3
<1>9. CASE UNCHANGED vars
  BY <1>9, <1>q DEF vars, pcVars
<1> QED
  BY <1>1, <1>2, <1>3, <1>4, <1>5, <1>6, <1>7, <1>8, <1>9 DEF Next

\* While the pointer does not hold the config on the cluster, that one is to be read,
\* or is the last in flight: whatever fails, stops or crashes, nothing is lost for good.
THEOREM NewestComes == Spec => []NewestOnItsWay
<1>1. Init => NewestOnItsWay
  <2> SUFFICES ASSUME Init PROVE NewestOnItsWay
    OBVIOUS
  <2> QED
    BY DEF Init, NewestOnItsWay, Empty
<1>2. TypeOK /\ FlightInv /\ NewestOnItsWay /\ [Next]_vars => NewestOnItsWay'
  BY NewestStep DEF FlightInv
<1> QED
  BY <1>1, <1>2, InitTypes, NextTypes, InitFlight, NextFlight, PTL DEF Spec

-----------------------------------------------------------------------------
(* No object is forgotten.  What is known of a config carries over from    *)
(* the events in flight to the pointer and on to the reconcile under way.  *)

MayPoll(c) == AllPolled => c \in Polling \cup {NoConfig}

Awake(o) ==
    \/ o \in queued \cup timer \/ [obj |-> o, cfg |-> cached.cfg] \in working
    \/ applied[o] = cached.cfg
    \/ taken # {} \/ dropped

ObjectInv ==
    /\ NoObjectForgotten
    /\ \A v, w \in working : v = w
    /\ queued \cup timer \subseteq objs
    /\ MayPoll(cached.cfg)
    /\ \A w \in working :
         /\ w.obj \in objs /\ MayPoll(w.cfg)
         /\ w.cfg = cached.cfg \/ taken # {} \/ dropped \/ w.obj \in queued

\* An event that carries what was the config once may be polled as that was.
LEMMA CarriedPolls ==
    ASSUME NEW e, Carried(e)
    PROVE  MayPoll(e.cfg)
BY DEF Carried, MayPoll, AllPolled

LEMMA ForgottenParts == NoObjectForgotten <=> \A o \in objs : Awake(o) /\ (AllPolled => Going(o))
BY DEF NoObjectForgotten, Awake

\* Steps of others than the worker: objects stay queued, timers set, and a list that is
\* complete has put all objects in the queue.
LEMMA QueueGrows ==
    ASSUME ObjectInv, AllPolled' => AllPolled, UNCHANGED <<working, applied>>,
           queued \subseteq queued', timer \ timer' \subseteq queued', objs' \subseteq objs \cup queued',
           objs \subseteq objs', queued' \cup timer' \subseteq objs',
           \/ cached'.cfg = cached.cfg \/ taken' # {}
           \/ objs' \subseteq queued',
           (taken # {} \/ dropped) => taken' # {} \/ dropped' \/ objs' \subseteq queued',
           MayPoll(cached.cfg)'
    PROVE  ObjectInv'
<1>1. ASSUME NEW o \in objs' PROVE Awake(o)' /\ (AllPolled' => Going(o)')
  <2>1. CASE o \in queued'
    BY <2>1 DEF Awake, Going
  <2>2. CASE o \notin queued'
    <3>1. o \in objs /\ Awake(o) /\ (AllPolled => Going(o))
      BY <2>2, ForgottenParts DEF ObjectInv
    <3>2. AllPolled' => Going(o)'
      BY <2>2, <3>1 DEF Going
    <3>3. Awake(o)'
      BY <2>2, <3>1 DEF Awake
    <3> QED
      BY <3>2, <3>3
  <2> QED
    BY <2>1, <2>2
<1>2. NoObjectForgotten'
  BY <1>1, ForgottenParts DEF NoObjectForgotten, Awake
<1>3. ASSUME NEW w \in working
      PROVE  /\ w.obj \in objs' /\ MayPoll(w.cfg)'
             /\ w.cfg = cached'.cfg \/ taken' # {} \/ dropped' \/ w.obj \in queued'
  BY DEF ObjectInv, MayPoll
<1> QED
  BY <1>2, <1>3 DEF ObjectInv

\* The worker begins: the object leaves the queue for a reconcile with the pointer's config.
LEMMA BeginObject ==
    ASSUME TypeOK, ObjectInv, NEW o \in Objs, Begin(o)
    PROVE  ObjectInv'
<1>1. /\ working = {} /\ working' = {[obj |-> o, cfg |-> cached.cfg]} /\ queued' = queued \ {o}
      /\ UNCHANGED <<history, taken, cached, dropped, objs, timer, applied>>
  BY DEF Begin
<1>2. AllPolled' <=> AllPolled
  BY <1>1 DEF AllPolled
<1>3. ASSUME NEW p \in objs PROVE Awake(p)' /\ (AllPolled => Going(p)')
  <2>1. Awake(p) /\ (AllPolled => Going(p))
    BY ForgottenParts DEF ObjectInv
  <2>2. CASE p = o
    BY <1>1, <2>2 DEF Awake, Going
  <2>3. CASE p # o
    BY <1>1, <2>1, <2>3 DEF Awake, Going
  <2> QED
    BY <2>2, <2>3
<1>4. NoObjectForgotten'
  BY <1>1, <1>2, <1>3 DEF NoObjectForgotten, Awake
<1>5. MayPoll(cached.cfg)' /\ \A w \in working' : MayPoll(w.cfg)'
  BY <1>1, <1>2 DEF ObjectInv, MayPoll
<1>6. /\ queued' \cup timer' \subseteq objs' /\ \A v, w \in working' : v = w
      /\ \A w \in working' : w.obj \in objs' /\ w.cfg = cached'.cfg
  BY <1>1 DEF Begin, ObjectInv
<1> QED
  BY <1>4, <1>5, <1>6 DEF ObjectInv

\* It ends: the object has the config it was reconciled with, or a timer without one.
LEMMA EndObject ==
    ASSUME TypeOK, ObjectInv, End
    PROVE  ObjectInv'
<1>1. PICK w \in working :
        /\ applied' = IF w.cfg = NoConfig THEN applied ELSE [applied EXCEPT ![w.obj] = w.cfg]
        /\ timer' = IF w.cfg \in Polling \cup {NoConfig} THEN timer \cup {w.obj} ELSE timer
  BY DEF End
<1>2. working' = {} /\ UNCHANGED <<history, taken, cached, dropped, objs, queued>>
  BY DEF End
<1>3. AllPolled' <=> AllPolled
  BY <1>2 DEF AllPolled
<1>4. working = {w} /\ w \in Jobs /\ MayPoll(w.cfg) /\ applied \in [Objs -> MaybeConfig] /\ objs \subseteq Objs
  BY DEF ObjectInv, TypeOK
<1>5. ASSUME NEW p \in objs PROVE Awake(p)' /\ (AllPolled => Going(p)')
  <2>1. Awake(p) /\ (AllPolled => Going(p))
    BY ForgottenParts DEF ObjectInv
  <2>2. CASE p = w.obj
    <3>1. p \in queued' \cup timer' \/ taken' # {} \/ dropped' \/ w.cfg = cached'.cfg
      BY <1>2, <2>2 DEF ObjectInv
    <3>2. w.cfg = NoConfig => p \in timer'
      BY <1>1, <2>2
    <3>3. w.cfg # NoConfig => applied'[p] = w.cfg
      BY <1>1, <1>4, <2>2
    <3>4. AllPolled => Going(p)'
      BY <1>1, <1>4, <2>2 DEF Going, MayPoll
    <3> QED
      BY <3>1, <3>2, <3>3, <3>4 DEF Awake
  <2>3. CASE p # w.obj
    <3>1. applied'[p] = applied[p] /\ timer \subseteq timer'
      BY <1>1, <1>4, <2>3
    <3>2. [obj |-> p, cfg |-> cached.cfg] \notin working
      BY <1>4, <2>3
    <3> QED
      BY <1>2, <1>4, <2>1, <2>3, <3>1, <3>2 DEF Awake, Going
  <2> QED
    BY <2>2, <2>3
<1>6. NoObjectForgotten'
  BY <1>2, <1>3, <1>5 DEF NoObjectForgotten, Awake
<1>7. MayPoll(cached.cfg)'
  BY <1>2, <1>3 DEF ObjectInv, MayPoll
<1>8. queued' \cup timer' \subseteq objs'
  BY <1>1, <1>2 DEF ObjectInv
<1> QED
  BY <1>2, <1>6, <1>7, <1>8 DEF ObjectInv

\* The pointer is stored, the objects are listed, or the list fails.
LEMMA MapFunctionObject ==
    ASSUME TypeOK, FlightInv, ObjectInv, MapFunction \/ ListFails
    PROVE  ObjectInv'
<1>1. UNCHANGED <<history, objs, timer, working, applied>>
  BY DEF MapFunction, ListFails, Takes, Completes, pcVars
<1>2. AllPolled' <=> AllPolled
  BY <1>1 DEF AllPolled
<1>3. CASE Takes /\ Store(Head(buffer)) /\ UNCHANGED <<dropped, queued>>
  <2>1. taken' # {} /\ cached'.cfg = Head(buffer).cfg /\ Head(buffer) = buffer[1] /\ 1 \in DOMAIN buffer
    BY <1>3 DEF Takes, Store, TypeOK
  <2>2. MayPoll(cached'.cfg)
    BY <2>1, CarriedPolls DEF FlightInv, InOrder
  <2>3. MayPoll(cached.cfg)'
    BY <1>2, <2>2 DEF MayPoll
  <2>4. queued' \cup timer' \subseteq objs'
    BY <1>1, <1>3 DEF ObjectInv
  <2> QED
    BY <1>1, <1>2, <1>3, <2>1, <2>3, <2>4, QueueGrows
<1>4. CASE Completes /\ UNCHANGED cached /\ (Enqueue \/ (dropped' = TRUE /\ UNCHANGED queued))
  <2>1. dropped' \/ objs \subseteq queued'
    BY <1>4 DEF Enqueue, TypeOK
  <2>2. queued \subseteq queued'
    BY <1>4 DEF Enqueue
  <2>3. MayPoll(cached.cfg)'
    BY <1>2, <1>4 DEF ObjectInv, MayPoll
  <2>4. queued' \cup timer' \subseteq objs'
    BY <1>1, <1>4 DEF Enqueue, ObjectInv
  <2> QED
    BY <1>1, <1>2, <1>4, <2>1, <2>2, <2>3, <2>4, QueueGrows
<1> QED
  BY <1>3, <1>4 DEF MapFunction, ListFails

LEMMA RebootObject ==
    ASSUME TypeOK, Reboot
    PROVE  ObjectInv'
<1>1. cached'.cfg = NoConfig /\ working' = {} /\ timer' = {} /\ queued' = objs'
  BY DEF Reboot, Empty
<1>2. MayPoll(cached.cfg)'
  BY <1>1 DEF MayPoll
<1> QED
  BY <1>1, <1>2 DEF ObjectInv, NoObjectForgotten, Going

LEMMA NextObject ==
    ASSUME TypeOK, FlightInv, ObjectInv, [Next]_vars
    PROVE  ObjectInv'
<1>q. ASSUME UNCHANGED <<history, taken, cached, dropped, objs, spVars>> PROVE ObjectInv'
  <2>1. AllPolled' <=> AllPolled
    BY <1>q DEF AllPolled
  <2>2. MayPoll(cached.cfg)'
    BY <1>q, <2>1 DEF ObjectInv, MayPoll
  <2>3. queued' \cup timer' \subseteq objs'
    BY <1>q DEF ObjectInv, spVars
  <2> QED
    BY <1>q, <2>1, <2>2, <2>3, QueueGrows DEF spVars
<1>1. CASE Read \/ ReadFails \/ Send \/ Retry \/ Stop
  BY <1>1, <1>q DEF Read, ReadFails, Reads, Send, Retry, Stop
<1>2. CASE MapFunction \/ ListFails
  BY <1>2, MapFunctionObject
<1>3. CASE End
  BY <1>3, EndObject
<1>4. ASSUME NEW o \in Objs, Begin(o) PROVE ObjectInv'
  BY <1>4, BeginObject
<1>5. ASSUME NEW o \in Objs, TimerFires(o) PROVE ObjectInv'
  <2>1. /\ queued' = queued \cup {o} /\ timer' = timer \ {o}
        /\ UNCHANGED <<history, taken, cached, dropped, objs, working, applied>>
    BY <1>5 DEF TimerFires
  <2>2. AllPolled' <=> AllPolled
    BY <2>1 DEF AllPolled
  <2>3. MayPoll(cached.cfg)'
    BY <2>1, <2>2 DEF ObjectInv, MayPoll
  <2>4. queued' \cup timer' \subseteq objs'
    BY <1>5, <2>1 DEF ObjectInv, TimerFires
  <2> QED
    BY <2>1, <2>2, <2>3, <2>4, QueueGrows
<1>6. CASE Change
  <2>1. PICK c \in MaybeConfig : history' = Append(history, c)
    BY <1>6 DEF Change
  <2>2. AllPolled' => AllPolled
    BY <2>1 DEF AllPolled, TypeOK
  <2>3. UNCHANGED <<taken, cached, dropped, objs, spVars>>
    BY <1>6 DEF Change
  <2>4. MayPoll(cached.cfg)'
    BY <2>2, <2>3 DEF ObjectInv, MayPoll
  <2>5. queued' \cup timer' \subseteq objs'
    BY <2>3 DEF ObjectInv, spVars
  <2> QED
    BY <2>2, <2>3, <2>4, <2>5, QueueGrows DEF spVars
<1>7. CASE Create
  <2>1. PICK o \in Objs \ objs : objs' = objs \cup {o} /\ queued' = queued \cup {o}
    BY <1>7 DEF Create
  <2>2. UNCHANGED <<history, taken, cached, dropped, timer, working, applied>>
    BY <1>7 DEF Create
  <2>3. AllPolled' <=> AllPolled
    BY <2>2 DEF AllPolled
  <2>4. MayPoll(cached.cfg)'
    BY <2>2, <2>3 DEF ObjectInv, MayPoll
  <2>5. queued' \cup timer' \subseteq objs'
    BY <2>1, <2>2 DEF ObjectInv
  <2> QED
    BY <2>1, <2>2, <2>3, <2>4, <2>5, QueueGrows
<1>8. CASE Exit \/ Crash
  BY <1>8, RebootObject DEF Exit, Crash
<1>9. CASE UNCHANGED vars
  BY <1>9, <1>q DEF vars
<1> QED
  BY <1>1, <1>2, <1>3, <1>4, <1>5, <1>6, <1>7, <1>8, <1>9 DEF Next

\* No object keeps an older config than the pointer's without something that will change
\* it, unless its list failed; and with a poll interval in every config each object goes
\* on being reconciled, whatever lists fail (the map function and Reconcile).
THEOREM ObjectsAreServed == Spec => []NoObjectForgotten
<1>1. Init => ObjectInv
  <2> SUFFICES ASSUME Init PROVE ObjectInv
    OBVIOUS
  <2> QED
    BY DEF Init, ObjectInv, NoObjectForgotten, Going, MayPoll, Empty
<1>2. TypeOK /\ FlightInv /\ ObjectInv /\ [Next]_vars => ObjectInv'
  BY NextObject
<1>3. ObjectInv => NoObjectForgotten
  BY DEF ObjectInv
<1> QED
  BY <1>1, <1>2, <1>3, InitTypes, NextTypes, InitFlight, NextFlight, PTL DEF Spec
=============================================================================
