-------------------- MODULE RealtimeSimulatorImplProofs --------------------
(***************************************************************************)
(* What holds of RealtimeSimulatorImpl for every set of events, contexts   *)
(* and delays, every resolution of the clock and every limit.              *)
(***************************************************************************)
EXTENDS RealtimeSimulatorImpl, TLAPS

-----------------------------------------------------------------------------
(* Types.                                                                  *)

\* The real time is a natural number, and so is what is left of a delay.
LEMMA RealtimeType == TimesTyped => Realtime \in Nat
BY DEF TimesTyped, Realtime

LEMMA DriftCorrectType == TimesTyped => DriftCorrect \in Nat
BY RealtimeType DEF TimesTyped, DriftCorrect

\* The time at which SleepWait gives up.
LEMMA SleepUntilType ==
  ASSUME TimesTyped, DriftCorrect \div Jiffy > SpareJiffies
  PROVE  wall + (DriftCorrect \div Jiffy - SpareJiffies) * Jiffy \in Nat
<1> DEFINE n == DriftCorrect \div Jiffy
           k == n - SpareJiffies
<1>1. n \in Int
  BY DriftCorrectType, TimeAssumption
<1>2. k \in Nat
  BY <1>1, TimeAssumption
<1> HIDE DEF n, k
<1>3. k * Jiffy \in Nat
  BY <1>2, TimeAssumption
<1>4. wall + k * Jiffy \in Nat
  BY <1>3 DEF TimesTyped
<1> QED
  BY <1>4 DEF k, n

\* The time stamps that events are inserted with.
LEMMA StampTypes ==
  ASSUME TimesTyped, NEW d \in Delays
  PROVE  /\ m_currentTs + d \in Nat /\ Realtime + d \in Nat
         /\ ThreadNow + d \in Nat
BY RealtimeType, TimeAssumption DEF TimesTyped, ThreadNow

\* Whatever inserts an event inserts one of these.
Inserts == \E e \in Events, ts \in Nat, c \in AllContexts : Insert(e, ts, c)

LEMMA ScheduleInserts ==
  ASSUME TypeOK,
         NEW e \in Events, NEW d \in Delays, NEW c \in AllContexts,
         \/ Schedule(e, d) \/ ScheduleWithContext(e, d, c)
         \/ Post(e, d, c) \/ PostRealtime(e, d)
  PROVE  Inserts
<1>1. CASE Schedule(e, d)
  BY <1>1, StampTypes DEF Schedule, Inserts, TypeOK, ListTyped
<1>2. CASE ScheduleWithContext(e, d, c)
  BY <1>2, StampTypes DEF ScheduleWithContext, Inserts, TypeOK, AllContexts
<1>3. CASE Post(e, d, c)
  BY <1>3, StampTypes DEF Post, Inserts, TypeOK, AllContexts
<1>4. CASE PostRealtime(e, d)
  BY <1>4, StampTypes DEF PostRealtime, Inserts, TypeOK, AllContexts
<1> QED
  BY <1>1, <1>2, <1>3, <1>4

\* An inserted event is listed, and nothing else changes in the list.
LEMMA InsertTypes ==
  ASSUME TypeOK, Inserts
  PROVE  /\ m_events' \subseteq Listed /\ m_events \subseteq m_events'
         /\ m_uid' \in Nat /\ unused' \subseteq Events /\ m_condition' = TRUE
<1> PICK e \in Events, ts \in Nat, c \in AllContexts : Insert(e, ts, c)
  BY DEF Inserts
<1>1. [impl |-> e, ts |-> ts, uid |-> m_uid, context |-> c] \in Listed
  BY DEF TypeOK, TimesTyped, Listed
<1>2. m_events' \subseteq Listed
  BY <1>1 DEF TypeOK, ListTyped, Insert
<1>3. m_uid' \in Nat
  BY DEF TypeOK, TimesTyped, Insert
<1>4. /\ m_events \subseteq m_events'
      /\ unused' \subseteq Events /\ m_condition' = TRUE
  BY DEF TypeOK, ListTyped, Insert
<1> QED
  BY <1>2, <1>3, <1>4

LEMMA TypeInit == Init => TypeOK
<1> SUFFICES ASSUME Init PROVE TypeOK
  OBVIOUS
<1>1. TimesTyped
  <2>1. /\ m_uid = VALID /\ m_currentTs = 0 /\ m_currentUid = INVALID
        /\ m_realtimeOriginNano = 0 /\ wall = Epoch
        /\ tsNow = 0 /\ tsDelay = 0 /\ sleepUntil = 0 /\ runs = 0
    BY Zenon DEF Init
  <2> QED
    BY <2>1, TimeAssumption DEF TimesTyped, VALID, INVALID
<1>2. ListTyped
  BY DEF Init, ListTyped, AllContexts
<1>3. ControlTyped
  BY Zenon DEF Init, ControlTyped, Pcs
<1> QED
  BY <1>1, <1>2, <1>3 DEF TypeOK

\* What Returns leaves behind.
LEMMA ReturnsTypes ==
  ASSUME NEW result \in BOOLEAN, Returns(result)
  PROVE  /\ pc' \in Pcs /\ waitingFor' = "idle"
         /\ tsNow' = 0 /\ tsDelay' = 0 /\ sleepUntil' = 0
BY DEF Returns, Pcs

\* The steps that insert an event, and the others in three groups.
LEMMA TypeInsert ==
  ASSUME TypeOK,
         NEW e \in Events, NEW d \in Delays, NEW c \in AllContexts,
         \/ Schedule(e, d) \/ ScheduleWithContext(e, d, c)
         \/ Post(e, d, c) \/ PostRealtime(e, d)
  PROVE  TypeOK'
<1>1. /\ m_events' \subseteq Listed
      /\ m_uid' \in Nat /\ unused' \subseteq Events /\ m_condition' = TRUE
  BY ScheduleInserts, InsertTypes
<1> USE DEF Schedule, ScheduleWithContext, Post, PostRealtime, PostVars,
            timeVars, runVars, clockVars, waitVars
<1>2. TimesTyped'
  BY <1>1 DEF TypeOK, TimesTyped
<1>3. ListTyped'
  <2>1. ids' \subseteq Listed
    BY <1>1 DEF TypeOK, ListTyped, AllContexts
  <2> QED
    BY <1>1, <2>1 DEF TypeOK, ListTyped
<1>4. ControlTyped'
  BY <1>1 DEF TypeOK, ControlTyped
<1> QED
  BY <1>2, <1>3, <1>4 DEF TypeOK

LEMMA TypeCall == ASSUME TypeOK, Call PROVE TypeOK'
<1>1. ASSUME NEW id \in ids, Cancel(id) \/ Remove(id)
      PROVE  TypeOK'
  <2> USE DEF Cancel, Remove, listVars, timeVars, runVars, clockVars, waitVars,
              progVars
  <2>1. TimesTyped'
    BY <1>1 DEF TypeOK, TimesTyped
  <2>2. ListTyped'
    BY <1>1 DEF TypeOK, ListTyped, Listed
  <2>3. ControlTyped'
    BY <1>1 DEF TypeOK, ControlTyped
  <2> QED
    BY <2>1, <2>2, <2>3 DEF TypeOK
<1>2. ASSUME Stop PROVE TypeOK'
  <2> USE DEF Stop, listVars, timeVars, clockVars, waitVars, progVars
  <2>1. TimesTyped' /\ ListTyped'
    BY <1>2 DEF TypeOK, TimesTyped, ListTyped
  <2>2. ControlTyped'
    BY <1>2 DEF TypeOK, ControlTyped
  <2> QED
    BY <2>1, <2>2 DEF TypeOK
<1>3. ASSUME NEW e \in Events, NEW d \in Delays, Schedule(e, d)
      PROVE  TypeOK'
  BY <1>3, NoContext \in AllContexts, TypeInsert DEF AllContexts
<1>4. ASSUME NEW e \in Events, NEW d \in Delays, NEW c \in Contexts,
             ScheduleWithContext(e, d, c)
      PROVE  TypeOK'
  BY <1>4, TypeInsert DEF AllContexts
<1> QED
  BY <1>1, <1>2, <1>3, <1>4 DEF Call

LEMMA TypeOtherThread == ASSUME TypeOK, OtherThread PROVE TypeOK'
<1> PICK e \in Events, d \in Delays, c \in Contexts :
           Post(e, d, c) \/ PostRealtime(e, d)
  BY DEF OtherThread
<1> QED
  BY TypeInsert DEF AllContexts

LEMMA TypeEngine == ASSUME TypeOK, Engine PROVE TypeOK'
<1>1. ASSUME \/ SetOrigin \/ SeesEvent \/ LoopEnds \/ RunEnds \/ HandlerEnds
      PROVE  TypeOK'
  <2> USE DEF SetOrigin, SeesEvent, LoopEnds, RunEnds, HandlerEnds, listVars,
              timeVars, runVars, clockVars, waitVars, progVars
  <2>1. TimesTyped'
    <3>1. /\ UNCHANGED <<m_uid, m_currentTs, m_currentUid, wall, tsNow, tsDelay,
                         sleepUntil, runs>>
          /\ m_realtimeOriginNano' \in {m_realtimeOriginNano, wall}
      BY <1>1, Zenon
    <3> QED
      BY <3>1 DEF TypeOK, TimesTyped
  <2>2. ListTyped'
    BY <1>1 DEF TypeOK, ListTyped
  <2>3. ControlTyped'
    BY <1>1, Zenon DEF TypeOK, ControlTyped, Pcs
  <2> QED
    BY <2>1, <2>2, <2>3 DEF TypeOK
<1>2. ASSUME SeesEmptyList PROVE TypeOK'
  <2> USE DEF SeesEmptyList, listVars, timeVars, runVars, clockVars, progVars
  <2>1. TimesTyped'
    BY <1>2, RealtimeType, TimeAssumption DEF TypeOK, TimesTyped
  <2>2. ListTyped'
    BY <1>2 DEF TypeOK, ListTyped
  <2>3. ControlTyped'
    BY <1>2 DEF TypeOK, ControlTyped, Pcs
  <2> QED
    BY <2>1, <2>2, <2>3 DEF TypeOK
<1>3. ASSUME ProcessOneEvent PROVE TypeOK'
  <2> USE DEF ProcessOneEvent, listVars, timeVars, runVars, clockVars, progVars
  <2>1. tsNow' \in Nat /\ tsDelay' \in Nat
    <3> PICK next \in m_events :
          tsDelay' = IF next.ts <= Realtime THEN 0 ELSE next.ts - Realtime
      BY <1>3
    <3>1. next.ts \in Nat
      BY DEF TypeOK, ListTyped, Listed
    <3> QED
      BY <1>3, <3>1, RealtimeType DEF TypeOK
  <2>2. TimesTyped'
    BY <1>3, <2>1 DEF TypeOK, TimesTyped
  <2>3. ListTyped'
    BY <1>3 DEF TypeOK, ListTyped
  <2>4. ControlTyped'
    BY <1>3 DEF TypeOK, ControlTyped, Pcs
  <2> QED
    BY <2>2, <2>3, <2>4 DEF TypeOK
<1>4. ASSUME RemoveNext PROVE TypeOK'
  <2> USE DEF RemoveNext, runVars, clockVars, waitVars, progVars
  <2> PICK next \in m_events :
        /\ m_events' = m_events \ {next}
        /\ m_currentTs' = next.ts /\ m_currentUid' = next.uid
        /\ m_currentContext' = next.context
        /\ pc' \in {"fatal", "loop", "handler"}
    BY <1>4
  <2>1. next.ts \in Nat /\ next.uid \in Nat /\ next.context \in AllContexts
    BY DEF TypeOK, ListTyped, Listed
  <2>2. TimesTyped'
    BY <1>4, <2>1 DEF TypeOK, TimesTyped
  <2>3. ListTyped'
    BY <1>4, <2>1 DEF TypeOK, ListTyped
  <2>4. ControlTyped'
    BY <1>4 DEF TypeOK, ControlTyped, Pcs
  <2> QED
    BY <2>2, <2>3, <2>4 DEF TypeOK
<1>5. ASSUME Synchronize PROVE TypeOK'
  <2> USE DEF Synchronize, listVars, timeVars, runVars, clockVars, progVars
  <2>1. sleepUntil' \in Nat /\ pc' \in {"sleep", "check"}
    BY <1>5, SleepUntilType DEF TypeOK, TimesTyped
  <2>2. TimesTyped'
    BY <1>5, <2>1 DEF TypeOK, TimesTyped
  <2>3. ListTyped'
    BY <1>5 DEF TypeOK, ListTyped
  <2>4. ControlTyped'
    BY <1>5, <2>1 DEF TypeOK, ControlTyped, Pcs
  <2> QED
    BY <2>2, <2>3, <2>4 DEF TypeOK
<1>6. ASSUME SleepWait \/ MeasureDrift \/ SpinWait PROVE TypeOK'
  <2> USE DEF SleepWait, MeasureDrift, SpinWait, listVars, timeVars, runVars,
              clockVars, progVars
  <2>1. \/ \E result \in BOOLEAN : Returns(result)
        \/ pc' \in Pcs /\ UNCHANGED waitVars
    BY <1>6 DEF Pcs
  <2>2. TimesTyped'
    <3>1. /\ UNCHANGED <<m_uid, m_currentTs, m_currentUid, wall, runs,
                         m_realtimeOriginNano>>
          /\ tsNow' \in {tsNow, 0} /\ tsDelay' \in {tsDelay, 0}
          /\ sleepUntil' \in {sleepUntil, 0}
      BY <1>6, <2>1, ReturnsTypes, Zenon DEF waitVars
    <3> QED
      BY <3>1 DEF TypeOK, TimesTyped
  <2>3. ListTyped'
    BY <1>6 DEF TypeOK, ListTyped
  <2>4. ControlTyped'
    <3>1. pc' \in Pcs /\ waitingFor' \in {"event", "idle"}
      BY <2>1, ReturnsTypes DEF TypeOK, ControlTyped, waitVars
    <3> QED
      BY <1>6, <3>1, Zenon DEF TypeOK, ControlTyped
  <2> QED
    BY <2>2, <2>3, <2>4 DEF TypeOK
<1> QED
  BY <1>1, <1>2, <1>3, <1>4, <1>5, <1>6 DEF Engine

LEMMA TypeStep == TypeOK /\ [Next]_vars => TypeOK'
<1> SUFFICES ASSUME TypeOK, [Next]_vars PROVE TypeOK'
  OBVIOUS
<1> USE DEF RunBegins, Tick, vars, listVars, timeVars, runVars, clockVars,
            waitVars, progVars
<1>1. ASSUME RunBegins \/ Tick \/ UNCHANGED vars PROVE TypeOK'
  <2>1. TimesTyped'
    <3>1. /\ UNCHANGED <<m_uid, m_currentTs, m_currentUid, tsNow, tsDelay,
                         sleepUntil, m_realtimeOriginNano>>
          /\ wall' \in {wall, wall + 1} /\ runs' \in {runs, runs + 1}
      BY <1>1, Zenon
    <3> QED
      BY <3>1 DEF TypeOK, TimesTyped
  <2>2. ListTyped'
    BY <1>1 DEF TypeOK, ListTyped
  <2>3. ControlTyped'
    BY <1>1 DEF TypeOK, ControlTyped, Pcs
  <2> QED
    BY <2>1, <2>2, <2>3 DEF TypeOK
<1> QED
  BY <1>1, TypeCall, TypeOtherThread, TypeEngine DEF Next

\* The variables keep their types.
THEOREM TypeCorrect == Spec => []TypeOK
BY TypeInit, TypeStep, PTL DEF Spec

-----------------------------------------------------------------------------
(* What another step can do to a wait.                                     *)

\* A call of the program on the main thread is made outside any wait.
LEMMA CallOutsideWait ==
  ASSUME Call
  PROVE  /\ InProgram
         /\ UNCHANGED <<pc, m_currentTs, wall, m_realtimeOriginNano, waitVars,
                        runs>>
BY DEF Call, Schedule, ScheduleWithContext, Cancel, Remove, Stop, PostVars,
   timeVars, clockVars

\* Another thread inserts an event and leaves the signal, and nothing else.
LEMMA OtherThreadInserts ==
  ASSUME TypeOK, OtherThread
  PROVE  /\ m_condition' = TRUE
         /\ m_events \subseteq m_events' /\ m_events' # {}
         /\ UNCHANGED <<pc, m_currentTs, wall, m_realtimeOriginNano, waitVars,
                        runs>>
<1> PICK e \in Events, d \in Delays, c \in Contexts :
           Post(e, d, c) \/ PostRealtime(e, d)
  BY DEF OtherThread
<1>1. \E ts, context : Insert(e, ts, context)
  BY DEF Post, PostRealtime
<1>2. m_condition' = TRUE /\ m_events \subseteq m_events' /\ m_events' # {}
  BY <1>1 DEF Insert
<1> QED
  BY <1>2 DEF Post, PostRealtime, PostVars, timeVars, clockVars

-----------------------------------------------------------------------------
(* No signal is lost.                                                      *)

LEMMA NoSignalIsLostStep ==
  ASSUME TypeOK, NoSignalIsLost, [Next]_vars
  PROVE  NoSignalIsLost'
<1> USE DEF NoSignalIsLost, Waiting, Target
<1>1. CASE Call
  BY <1>1, CallOutsideWait DEF InProgram
<1>2. CASE OtherThread
  BY <1>2, OtherThreadInserts
<1>3. CASE RunBegins
  BY <1>3 DEF RunBegins
<1>4. CASE Tick
  BY <1>4, Zenon DEF Tick, listVars, waitVars
<1>5. CASE UNCHANGED vars
  BY <1>5, Zenon DEF vars, listVars, waitVars
<1>6. CASE \/ SetOrigin \/ SeesEvent \/ LoopEnds \/ RunEnds \/ RemoveNext
           \/ HandlerEnds
  <2>1. pc' \notin {"synchronize", "sleep", "check", "spin"}
    BY <1>6 DEF SetOrigin, SeesEvent, LoopEnds, RunEnds, RemoveNext,
       HandlerEnds
  <2> QED
    BY <2>1
<1>7. CASE SeesEmptyList
  BY <1>7 DEF SeesEmptyList, listVars
<1>8. CASE ProcessOneEvent
  <2> PICK next \in m_events :
        /\ IsEarliest(next, m_events)
        /\ tsDelay' = IF next.ts <= Realtime THEN 0 ELSE next.ts - Realtime
    BY <1>8 DEF ProcessOneEvent
  <2>1. /\ tsNow' = Realtime /\ waitingFor' = "event" /\ m_events' = m_events
    BY <1>8 DEF ProcessOneEvent, listVars
  <2>2. /\ \A ev \in m_events : ev.ts \in Nat
        /\ Realtime \in Nat
    BY RealtimeType DEF TypeOK, ListTyped, Listed
  <2>3. ASSUME tsDelay' > 0, NEW ev \in m_events
        PROVE  ~(ev.ts < tsNow' + tsDelay')
    <3>1. tsNow' + tsDelay' = next.ts
      BY <2>1, <2>2, <2>3
    <3>2. ev = next \/ ev.ts >= next.ts
      BY <2>2 DEF IsEarliest, KeyLess
    <3> QED
      BY <2>2, <3>1, <3>2
  <2> QED
    BY <2>1, <2>3
<1>9. CASE Synchronize
  BY <1>9, Zenon DEF Synchronize, listVars
<1>10. CASE SleepWait \/ MeasureDrift \/ SpinWait
  <2>1. \/ \E result \in BOOLEAN : Returns(result)
        \/ UNCHANGED waitVars /\ Waiting
    BY <1>10 DEF SleepWait, MeasureDrift, SpinWait
  <2>2. UNCHANGED <<m_events, m_condition>>
    BY <1>10 DEF SleepWait, MeasureDrift, SpinWait, listVars
  <2>3. CASE \E result \in BOOLEAN : Returns(result)
    BY <2>3 DEF Returns
  <2>4. CASE UNCHANGED waitVars /\ Waiting
    BY <2>2, <2>4, Zenon DEF waitVars
  <2> QED
    BY <2>1, <2>3, <2>4
<1> QED
  BY <1>1, <1>2, <1>3, <1>4, <1>5, <1>6, <1>7, <1>8, <1>9, <1>10
     DEF Next, Engine

\* While the main thread waits, an event that is due before the wait ends has
\* left its signal.
THEOREM NoSignalIsLostCorrect == Spec => []NoSignalIsLost
<1>1. Init => NoSignalIsLost
  BY DEF Init, NoSignalIsLost, Waiting
<1>2. TypeOK /\ NoSignalIsLost /\ [Next]_vars => NoSignalIsLost'
  BY NoSignalIsLostStep
<1> QED
  BY <1>1, <1>2, TypeCorrect, PTL DEF Spec

-----------------------------------------------------------------------------
(* What is waited for is listed and, when the wait is over, due.           *)

\* Some listed event is due when the clock shows time.
ListedBy(time) == \E ev \in m_events : ev.ts <= time

\* The strengthening of EventToRun and NeverEarly: the wait for an event lasts
\* until the time of one that is listed, and after it one is due.
WaitsForEvent == /\ pc = "process" => m_events # {}
                 /\ Waiting /\ waitingFor = "event" => ListedBy(Target)
                 /\ pc = "remove" => ListedBy(Realtime)
                 /\ pc = "handler" => m_currentTs <= Realtime

LEMMA WaitsForEventStep ==
  ASSUME TypeOK, WaitsForEvent, [Next]_vars
  PROVE  WaitsForEvent'
<1> USE DEF WaitsForEvent, Waiting, Target, ListedBy
<1>1. CASE Call
  BY <1>1, CallOutsideWait DEF InProgram, Realtime
<1>2. CASE OtherThread
  BY <1>2, OtherThreadInserts DEF Realtime, waitVars
<1>3. CASE Tick
  <2>1. /\ UNCHANGED <<pc, m_events, m_currentTs, waitingFor, tsNow, tsDelay>>
        /\ wall' = wall + 1 /\ m_realtimeOriginNano' = m_realtimeOriginNano
    BY <1>3, Zenon DEF Tick, listVars, timeVars, waitVars
  <2>2. /\ Realtime \in Nat /\ Realtime' = Realtime + 1
        /\ m_currentTs \in Nat /\ \A ev \in m_events : ev.ts \in Nat
    BY <2>1, RealtimeType DEF TypeOK, TimesTyped, ListTyped, Listed, Realtime
  <2>3. \A t \in Nat : t <= Realtime => t <= Realtime'
    BY <2>2
  <2> HIDE DEF Realtime
  <2> QED
    BY <2>1, <2>2, <2>3
<1>4. CASE UNCHANGED vars
  BY <1>4, Zenon DEF vars, listVars, timeVars, clockVars, waitVars, Realtime
<1>5. CASE RunBegins \/ SetOrigin \/ SeesEmptyList \/ LoopEnds \/ RunEnds
           \/ HandlerEnds
  <2>1. /\ pc' \in {"setOrigin", "loop", "synchronize", "runEnds", "user"}
        /\ pc' = "synchronize" => waitingFor' = "idle"
    BY <1>5 DEF RunBegins, SetOrigin, SeesEmptyList, LoopEnds, RunEnds,
       HandlerEnds
  <2> QED
    BY <2>1
<1>6. CASE SeesEvent
  BY <1>6 DEF SeesEvent, listVars
<1>7. CASE ProcessOneEvent
  <2> PICK next \in m_events :
        tsDelay' = IF next.ts <= Realtime THEN 0 ELSE next.ts - Realtime
    BY <1>7 DEF ProcessOneEvent
  <2>1. /\ tsNow' = Realtime /\ m_events' = m_events
        /\ pc' = "synchronize"
    BY <1>7 DEF ProcessOneEvent, listVars
  <2>2. next.ts \in Nat /\ Realtime \in Nat
    BY RealtimeType DEF TypeOK, ListTyped, Listed
  <2>3. next.ts <= tsNow' + tsDelay'
    BY <2>1, <2>2
  <2> QED
    BY <2>1, <2>3
<1>8. CASE RemoveNext
  <2> PICK next \in m_events :
        /\ IsEarliest(next, m_events)
        /\ m_currentTs' = next.ts
        /\ pc' \in {"fatal", "loop", "handler"}
    BY <1>8 DEF RemoveNext
  <2> PICK ev \in m_events : ev.ts <= Realtime
    BY <1>8 DEF RemoveNext
  <2>1. next.ts \in Nat /\ ev.ts \in Nat /\ Realtime \in Nat
    BY RealtimeType DEF TypeOK, ListTyped, Listed
  <2>2. next.ts <= ev.ts
    BY <2>1 DEF IsEarliest, KeyLess
  <2>3. Realtime' = Realtime
    BY <1>8 DEF RemoveNext, clockVars, Realtime
  <2> QED
    BY <2>1, <2>2, <2>3
<1>9. CASE Synchronize
  <2>1. /\ pc = "synchronize" /\ pc' \in {"sleep", "check"}
        /\ UNCHANGED <<m_events, waitingFor, tsNow, tsDelay>>
    BY <1>9 DEF Synchronize, listVars
  <2> QED
    BY <2>1
<1>10. CASE SleepWait \/ MeasureDrift \/ SpinWait
  <2>1. UNCHANGED m_events /\ Realtime' = Realtime /\ Waiting
    BY <1>10 DEF SleepWait, MeasureDrift, SpinWait, listVars, clockVars,
       Realtime
  <2>2. \/ Returns(FALSE)
        \/ Realtime >= Target /\ Returns(TRUE)
        \/ UNCHANGED waitVars /\ pc' \in {"check", "spin"}
    BY <1>10 DEF SleepWait, MeasureDrift, SpinWait
  <2>3. CASE Returns(FALSE)
    <3>1. /\ pc' \in {"loop", "process"}
          /\ pc' = "process" => waitingFor = "event"
      BY <2>3 DEF Returns, TypeOK, ControlTyped
    <3>2. waitingFor = "event" => m_events' # {}
      BY <2>1
    <3> QED
      BY <3>1, <3>2
  <2>4. CASE Realtime >= Target /\ Returns(TRUE)
    <3>1. /\ pc' \in {"loop", "remove"}
          /\ pc' = "remove" => waitingFor = "event"
      BY <2>4 DEF Returns, TypeOK, ControlTyped
    <3>2. ASSUME waitingFor = "event"
          PROVE  \E ev \in m_events : ev.ts <= Realtime
      <4> PICK ev \in m_events : ev.ts <= Target
        BY <2>1, <3>2
      <4>1. ev.ts \in Nat /\ Target \in Nat /\ Realtime \in Nat
        BY RealtimeType DEF TypeOK, TimesTyped, ListTyped, Listed
      <4> QED
        BY <2>4, <4>1
    <3> QED
      BY <2>1, <3>1, <3>2
  <2>5. CASE UNCHANGED waitVars /\ pc' \in {"check", "spin"}
    BY <2>1, <2>5 DEF waitVars
  <2> QED
    BY <2>2, <2>3, <2>4, <2>5
<1> QED
  BY <1>1, <1>2, <1>3, <1>4, <1>5, <1>6, <1>7, <1>8, <1>9, <1>10
     DEF Next, Engine

THEOREM WaitsForEventCorrect == Spec => []WaitsForEvent
<1>1. Init => WaitsForEvent
  BY DEF Init, WaitsForEvent, Waiting
<1>2. TypeOK /\ WaitsForEvent /\ [Next]_vars => WaitsForEvent'
  BY WaitsForEventStep
<1> QED
  BY <1>1, <1>2, TypeCorrect, PTL DEF Spec

\* No handler runs before the real time of its event.
THEOREM NeverEarlyCorrect == Spec => []NeverEarly
<1>1. WaitsForEvent => NeverEarly
  BY DEF WaitsForEvent, NeverEarly
<1> QED
  BY <1>1, WaitsForEventCorrect, PTL

\* From the test of the list to RemoveNext there is an event to run.
THEOREM EventToRunCorrect == Spec => []EventToRun
<1>1. WaitsForEvent => EventToRun
  BY DEF WaitsForEvent, EventToRun, ListedBy
<1> QED
  BY <1>1, WaitsForEventCorrect, PTL

-----------------------------------------------------------------------------
(* In the first Run no event is inserted in the past.                      *)

\* The strengthening of NeverInPast: in the first Run the simulation time is
\* behind the real time; before the clock has its origin it is 0.
ClockAhead == /\ runs = 0 => pc = "user"
              /\ runs = 0 \/ (runs = 1 /\ pc = "setOrigin")
                   => m_currentTs = 0
              /\ runs <= 1 => m_currentTs <= Realtime
              /\ NeverInPast

\* Events inserted from the current time on leave none in the past.
LEMMA InsertNotInPast ==
  ASSUME NeverInPast, NEW e \in Events, NEW ts \in Nat, NEW c,
         Insert(e, ts, c), runs <= 1 => ts >= m_currentTs,
         UNCHANGED <<runs, m_currentTs>>
  PROVE  NeverInPast'
<1>1. \A ev \in m_events' : ev \in m_events \/ ev.ts = ts
  BY DEF Insert
<1> QED
  BY <1>1 DEF NeverInPast

LEMMA NeverInPastStep ==
  ASSUME TypeOK, NeverInPast, Call \/ OtherThread,
         runs <= 1 => m_currentTs <= Realtime
  PROVE  NeverInPast'
<1>1. UNCHANGED <<runs, m_currentTs>>
  BY CallOutsideWait, OtherThreadInserts
<1>2. /\ m_currentTs \in Nat /\ Realtime \in Nat
      /\ \A d \in Delays : d \in Nat
  BY RealtimeType, TimeAssumption DEF TypeOK, TimesTyped
<1>3. ASSUME NEW e \in Events, NEW d \in Delays,
             \/ Schedule(e, d)
             \/ \E c \in Contexts : ScheduleWithContext(e, d, c)
      PROVE  NeverInPast'
  <2>1. \E c : Insert(e, m_currentTs + d, c)
    BY <1>3 DEF Schedule, ScheduleWithContext
  <2>2. m_currentTs + d \in Nat /\ m_currentTs + d >= m_currentTs
    BY <1>2
  <2> QED
    BY <1>1, <2>1, <2>2, InsertNotInPast
<1>4. ASSUME NEW e \in Events, NEW d \in Delays, NEW c \in Contexts,
             Post(e, d, c) \/ PostRealtime(e, d)
      PROVE  NeverInPast'
  <2>1. PICK ts \in {ThreadNow + d, Realtime + d} :
          \E context : Insert(e, ts, context)
    BY <1>4 DEF Post, PostRealtime
  <2>2. ThreadNow = Realtime \/ ThreadNow = m_currentTs
    BY DEF ThreadNow
  <2>3. ts \in Nat /\ (runs <= 1 => ts >= m_currentTs)
    BY <1>2, <2>1, <2>2
  <2> QED
    BY <1>1, <2>1, <2>3, InsertNotInPast
<1>5. ASSUME (\E id \in ids : Cancel(id) \/ Remove(id)) \/ Stop
      PROVE  NeverInPast'
  <2>1. m_events' \subseteq m_events
    BY <1>5 DEF Cancel, Remove, Stop, listVars
  <2> QED
    BY <1>1, <2>1 DEF NeverInPast
<1> QED
  BY <1>3, <1>4, <1>5 DEF Call, OtherThread

LEMMA ClockAheadStep ==
  ASSUME TypeOK, WaitsForEvent, ClockAhead, [Next]_vars
  PROVE  ClockAhead'
<1>1. /\ runs \in Nat /\ m_currentTs \in Nat /\ wall \in Nat
      /\ m_realtimeOriginNano \in Nat /\ Realtime \in Nat
  BY RealtimeType DEF TypeOK, TimesTyped
<1>2. \A ev \in m_events : ev.ts \in Nat
  BY DEF TypeOK, ListTyped, Listed
<1>3. CASE Call \/ OtherThread
  <2>1. UNCHANGED <<pc, m_currentTs, wall, m_realtimeOriginNano, runs>>
    BY <1>3, CallOutsideWait, OtherThreadInserts
  <2>2. NeverInPast'
    BY <1>3, NeverInPastStep DEF ClockAhead
  <2> QED
    BY <2>1, <2>2 DEF Realtime, ClockAhead
<1>4. CASE RunBegins
  <2>1. /\ UNCHANGED <<m_events, m_currentTs, wall, m_realtimeOriginNano>>
        /\ runs' = runs + 1 /\ pc' = "setOrigin"
    BY <1>4 DEF RunBegins, listVars, timeVars, clockVars
  <2>2. runs' # 0 /\ (runs' <= 1 => runs = 0)
    BY <1>1, <2>1
  <2>3. runs' <= 1 => m_currentTs = 0 /\ m_events' = m_events /\ runs <= 1
    BY <2>1, <2>2 DEF ClockAhead
  <2>4. Realtime' = Realtime
    BY <2>1 DEF Realtime
  <2>5. NeverInPast'
    BY <2>1, <2>3 DEF ClockAhead, NeverInPast
  <2>6. runs' = 1 => runs' <= 1
    OBVIOUS
  <2> QED
    BY <1>1, <2>1, <2>2, <2>3, <2>4, <2>5, <2>6 DEF ClockAhead
<1>5. CASE SetOrigin
  <2>1. /\ UNCHANGED <<m_events, m_currentTs, wall, runs>>
        /\ m_realtimeOriginNano' = wall /\ pc = "setOrigin" /\ pc' = "loop"
    BY <1>5 DEF SetOrigin, listVars, timeVars
  <2>2. runs # 0
    BY <2>1 DEF ClockAhead
  <2>3. runs <= 1 => m_currentTs = 0
    BY <1>1, <2>1, <2>2 DEF ClockAhead
  <2>4. Realtime' = 0
    <3>1. wall \in Nat /\ wall' = wall /\ m_realtimeOriginNano' = wall
      BY <1>1, <2>1
    <3> QED
      BY <3>1 DEF Realtime
  <2>5. NeverInPast'
    BY <2>1 DEF ClockAhead, NeverInPast
  <2> QED
    BY <2>1, <2>2, <2>3, <2>4, <2>5 DEF ClockAhead
<1>6. CASE Tick
  <2>1. /\ UNCHANGED <<pc, m_events, m_currentTs, runs, m_realtimeOriginNano>>
        /\ wall' = wall + 1
    BY <1>6, Zenon DEF Tick, listVars, timeVars
  <2>2. Realtime' = Realtime + 1
    BY <1>1, <2>1 DEF Realtime
  <2>3. runs <= 1 => m_currentTs <= Realtime'
    BY <1>1, <2>2 DEF ClockAhead
  <2>4. NeverInPast'
    BY <2>1 DEF ClockAhead, NeverInPast
  <2> QED
    BY <2>1, <2>3, <2>4 DEF ClockAhead
<1>7. CASE RemoveNext
  <2> PICK next \in m_events :
        /\ IsEarliest(next, m_events)
        /\ m_events' = m_events \ {next}
        /\ m_currentTs' = next.ts
    BY <1>7 DEF RemoveNext
  <2>1. /\ UNCHANGED <<wall, m_realtimeOriginNano, runs>>
        /\ pc = "remove" /\ pc' \in {"fatal", "loop", "handler"}
    BY <1>7 DEF RemoveNext, clockVars
  <2>2. \A ev \in m_events : ev.ts >= next.ts
    BY <1>2 DEF IsEarliest, KeyLess
  <2>3. next.ts <= Realtime
    <3> PICK ev \in m_events : ev.ts <= Realtime
      BY <2>1 DEF WaitsForEvent, ListedBy
    <3> QED
      BY <1>1, <1>2, <2>2
  <2>4. Realtime' = Realtime
    BY <2>1 DEF Realtime
  <2>5. runs # 0
    BY <2>1 DEF ClockAhead
  <2> QED
    BY <1>1, <2>1, <2>2, <2>3, <2>4, <2>5 DEF ClockAhead, NeverInPast
<1>8. CASE \/ SeesEvent \/ SeesEmptyList \/ LoopEnds \/ RunEnds
           \/ ProcessOneEvent \/ HandlerEnds
           \/ Synchronize \/ SleepWait \/ MeasureDrift \/ SpinWait
           \/ UNCHANGED vars
  <2>1. UNCHANGED <<m_events, m_currentTs, wall, m_realtimeOriginNano, runs>>
    BY <1>8, Zenon DEF SeesEvent, SeesEmptyList, LoopEnds, RunEnds,
       ProcessOneEvent, HandlerEnds, Synchronize, SleepWait, MeasureDrift,
       SpinWait, vars, listVars, timeVars, clockVars
  <2>2. pc' = pc \/ (pc # "user" /\ pc' # "setOrigin")
    BY <1>8 DEF SeesEvent, SeesEmptyList, LoopEnds, RunEnds, ProcessOneEvent,
       HandlerEnds, Synchronize, SleepWait, MeasureDrift, SpinWait, Returns,
       vars
  <2>3. Realtime' = Realtime
    BY <2>1 DEF Realtime
  <2> QED
    BY <1>1, <2>1, <2>2, <2>3 DEF ClockAhead, NeverInPast
<1> QED
  BY <1>3, <1>4, <1>5, <1>6, <1>7, <1>8 DEF Next, Engine

\* In the first Run no thread inserts an event before the current time.
THEOREM NeverInPastCorrect == Spec => []NeverInPast
<1>1. Init => ClockAhead
  <2> SUFFICES ASSUME Init PROVE ClockAhead
    OBVIOUS
  <2>1. /\ runs = 0 /\ pc = "user" /\ m_currentTs = 0 /\ m_events = {}
        /\ wall = Epoch /\ m_realtimeOriginNano = 0
    BY Zenon DEF Init
  <2> QED
    BY <2>1, TimeAssumption DEF ClockAhead, NeverInPast, Realtime
<1>2. TypeOK /\ WaitsForEvent /\ ClockAhead /\ [Next]_vars => ClockAhead'
  BY ClockAheadStep
<1>3. ClockAhead => NeverInPast
  BY DEF ClockAhead
<1> QED
  BY <1>1, <1>2, <1>3, TypeCorrect, WaitsForEventCorrect, PTL DEF Spec

=============================================================================
