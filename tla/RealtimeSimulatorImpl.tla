----------------------- MODULE RealtimeSimulatorImpl -----------------------
(***************************************************************************)
(* The real-time simulation engine, class RealtimeSimulatorImpl of         *)
(* src/core/model/realtime-simulator-impl.cc, with the clock it waits on,  *)
(* class WallClockSynchronizer of wall-clock-synchronizer.cc.              *)
(*                                                                         *)
(* The main thread waits until the wall clock reaches the time of the next *)
(* event; other threads insert events directly in the list, under m_mutex, *)
(* and signal the synchronizer to interrupt the wait.  Each block of code  *)
(* under m_mutex is one step; so is every unlocked access that another     *)
(* thread can see.                                                         *)
(*                                                                         *)
(* Abstracted: the wrap of m_uid at 2^32, m_unscheduledEvents and the      *)
(* events to run at Destroy, all as in DefaultSimulatorImpl.               *)
(***************************************************************************)
EXTENDS EventKey, Integers, FiniteSets

CONSTANTS Events,        \* the EventImpl objects the program creates
          Contexts,      \* the contexts (node numbers) events are given
          NoContext,     \* Simulator::NO_CONTEXT
          Delays,        \* the delays events are scheduled with
          Epoch,         \* the wall clock when the program starts
          MaxWall,       \* bound of the model: the clock stops here
          MaxRuns,       \* bound of the model: how often Run is called
          Jiffy,         \* m_jiffy, the resolution of the clock
          SpareJiffies,  \* the jiffies SleepWait leaves to SpinWait: 3
          IdleDelay,     \* the wait on an empty list: one second
          HardLimit      \* m_hardLimit

ASSUME TimeAssumption ==
  /\ Delays \subseteq Nat /\ Epoch \in Nat /\ MaxWall \in Nat
  /\ MaxRuns \in Nat /\ Jiffy \in Nat \ {0} /\ SpareJiffies \in Nat
  /\ IdleDelay \in Nat \ {0} /\ HardLimit \in Nat

VARIABLES
  pc,                    \* what the main thread does next
  m_events,              \* the future event list
  m_uid,
  m_currentTs,           \* time stamp, uid and context of the current event
  m_currentUid,
  m_currentContext,
  m_stop,
  m_running,
  m_synchronizationMode, \* "bestEffort" or "hardLimit"
  m_condition,           \* the synchronizer was signalled
  m_realtimeOriginNano,  \* what the wall clock showed when Run began
  wall,                  \* the wall clock
  waitingFor,            \* who called Synchronize: "event" or "idle"
  tsNow, tsDelay,        \* the arguments of Synchronize
  sleepUntil,            \* when SleepWait times out
  m_cancel,              \* the EventImpls whose m_cancel flag is set
  ids,                   \* environment: the EventIds the program holds
  unused,                \* environment: EventImpls not yet created
  runs                   \* history: how often Run was called

listVars  == <<m_events, m_uid>>
timeVars  == <<m_currentTs, m_currentUid, m_currentContext>>
runVars   == <<m_stop, m_running, m_synchronizationMode>>
clockVars == <<m_realtimeOriginNano, wall>>
waitVars  == <<waitingFor, tsNow, tsDelay, sleepUntil>>
progVars  == <<ids, unused>>
vars == <<pc, listVars, timeVars, runVars, m_condition, clockVars, waitVars,
          m_cancel, progVars, runs>>

-----------------------------------------------------------------------------
AllContexts == Contexts \cup {NoContext}
Listed == [impl : Events, ts : Nat, uid : Nat, context : AllContexts]

\* GetNormalizedRealtime: before the first Run the origin is 0.
Realtime == wall - m_realtimeOriginNano

\* The main thread is in code of the program.
InProgram == pc \in {"user", "handler"}

\* The constructor of the synchronizer does not set m_condition.
Init == /\ pc = "user"
        /\ m_events = {} /\ m_uid = VALID
        /\ m_currentTs = 0 /\ m_currentUid = INVALID
        /\ m_currentContext = NoContext
        /\ m_stop = FALSE /\ m_running = FALSE
        /\ m_synchronizationMode \in {"bestEffort", "hardLimit"}
        /\ m_condition \in BOOLEAN
        /\ m_realtimeOriginNano = 0 /\ wall = Epoch
        /\ waitingFor = "idle" /\ tsNow = 0 /\ tsDelay = 0 /\ sleepUntil = 0
        /\ m_cancel = {} /\ ids = {} /\ unused = Events
        /\ runs = 0

-----------------------------------------------------------------------------
(* Scheduling, by the main thread and by the others.                       *)

\* A new event e goes into the list and Signal interrupts the wait.
Insert(e, ts, context) ==
  /\ e \in unused /\ unused' = unused \ {e}
  /\ m_events' = m_events \cup {[impl |-> e, ts |-> ts, uid |-> m_uid,
                                 context |-> context]}
  /\ m_uid' = m_uid + 1
  /\ m_condition' = TRUE

\* Schedule, ScheduleNow (delay 0) and Stop(delay), of which the event is Stop.
Schedule(e, delay) ==
  /\ InProgram
  /\ Insert(e, m_currentTs + delay, m_currentContext)
  /\ ids' = ids \cup (m_events' \ m_events)
  /\ UNCHANGED <<pc, timeVars, runVars, clockVars, waitVars, m_cancel, runs>>

\* What every other scheduling operation leaves alone: it returns no EventId.
PostVars == <<pc, timeVars, runVars, clockVars, waitVars, m_cancel, ids, runs>>

\* ScheduleWithContext on the main thread.
ScheduleWithContext(e, delay, context) ==
  /\ InProgram
  /\ Insert(e, m_currentTs + delay, context)
  /\ UNCHANGED PostVars

\* The time stamp an event of another thread counts from.
ThreadNow == IF m_running THEN Realtime ELSE m_currentTs

\* ScheduleWithContext on another thread, at any moment; with delay 0 also
\* ScheduleRealtimeNowWithContext, on any thread.
Post(e, delay, context) ==
  /\ Insert(e, ThreadNow + delay, context)
  /\ UNCHANGED PostVars

\* ScheduleRealtimeWithContext, on any thread of a program that asked Running
\* first.  Its argument context is dropped: that of the inserted event is never
\* assigned.
PostRealtime(e, delay) ==
  /\ m_running
  /\ \E garbage \in Contexts : Insert(e, Realtime + delay, garbage)
  /\ UNCHANGED PostVars

-----------------------------------------------------------------------------
(* The other operations of the program, on the main thread.                *)

IsExpired(id) == \/ id.ts < m_currentTs
                 \/ id.ts = m_currentTs /\ id.uid <= m_currentUid
                 \/ id.impl \in m_cancel

Cancel(id) ==
  /\ InProgram
  /\ ~IsExpired(id)
  /\ m_cancel' = m_cancel \cup {id.impl}
  /\ UNCHANGED <<pc, listVars, timeVars, runVars, m_condition, clockVars,
                 waitVars, progVars, runs>>

\* Remove does not signal: the wait, if there is one, is not interrupted.
Remove(id) ==
  /\ InProgram
  /\ ~IsExpired(id)
  /\ m_events' = m_events \ {id}
  /\ m_cancel' = m_cancel \cup {id.impl}
  /\ UNCHANGED <<pc, m_uid, timeVars, runVars, m_condition, clockVars,
                 waitVars, progVars, runs>>

Stop == /\ InProgram
        /\ m_stop' = TRUE
        /\ UNCHANGED <<pc, listVars, timeVars, m_running,
                       m_synchronizationMode, m_condition, clockVars,
                       waitVars, m_cancel, progVars, runs>>

Call == \/ \E e \in Events, d \in Delays : Schedule(e, d)
        \/ \E e \in Events, d \in Delays, c \in Contexts :
             ScheduleWithContext(e, d, c)
        \/ \E id \in ids : Cancel(id) \/ Remove(id)
        \/ Stop

OtherThread == \E e \in Events, d \in Delays, c \in Contexts :
                 Post(e, d, c) \/ PostRealtime(e, d)

-----------------------------------------------------------------------------
(* Run.                                                                    *)

\* m_running is set before the clock has its origin.
RunBegins ==
  /\ pc = "user" /\ runs < MaxRuns
  /\ m_stop' = FALSE /\ m_running' = TRUE
  /\ pc' = "setOrigin"
  /\ runs' = runs + 1
  /\ UNCHANGED <<listVars, timeVars, m_synchronizationMode, m_condition,
                 clockVars, waitVars, m_cancel, progVars>>

\* SetOrigin ignores the simulation time it is given.
SetOrigin ==
  /\ pc = "setOrigin"
  /\ m_realtimeOriginNano' = wall
  /\ pc' = "loop"
  /\ UNCHANGED <<listVars, timeVars, runVars, m_condition, wall, waitVars,
                 m_cancel, progVars, runs>>

\* A listed event is to be processed.
SeesEvent ==
  /\ pc = "loop" /\ ~m_stop
  /\ m_events # {}
  /\ pc' = "process"
  /\ UNCHANGED <<listVars, timeVars, runVars, m_condition, clockVars,
                 waitVars, m_cancel, progVars, runs>>

\* Nothing is listed; the signal is not cleared.
SeesEmptyList ==
  /\ pc = "loop" /\ ~m_stop
  /\ m_events = {}
  /\ tsNow' = Realtime /\ tsDelay' = IdleDelay /\ waitingFor' = "idle"
  /\ pc' = "synchronize"
  /\ UNCHANGED <<listVars, timeVars, runVars, m_condition, clockVars,
                 sleepUntil, m_cancel, progVars, runs>>

LoopEnds ==
  /\ pc = "loop" /\ m_stop
  /\ pc' = "runEnds"
  /\ UNCHANGED <<listVars, timeVars, runVars, m_condition, clockVars,
                 waitVars, m_cancel, progVars, runs>>

RunEnds ==
  /\ pc = "runEnds"
  /\ m_running' = FALSE
  /\ pc' = "user"
  /\ UNCHANGED <<listVars, timeVars, m_stop, m_synchronizationMode,
                 m_condition, clockVars, waitVars, m_cancel, progVars, runs>>

-----------------------------------------------------------------------------
(* ProcessOneEvent.                                                        *)


\* Mutant: a late event has no case of its own, and its delay is negative.
ProcessLateEvent ==
  /\ pc = "process"
  /\ tsNow' = Realtime
  /\ \E next \in m_events : /\ IsEarliest(next, m_events)
                           /\ tsDelay' = next.ts - Realtime
  /\ waitingFor' = "event"
  /\ m_condition' = FALSE
  /\ pc' = "synchronize"
  /\ UNCHANGED <<listVars, timeVars, runVars, clockVars, sleepUntil, m_cancel,
                 progVars, runs>>

\* What Synchronize is to wait for, with the signal cleared in the same
\* critical section.
ProcessOneEvent ==
  /\ pc = "process"
  /\ tsNow' = Realtime
  /\ \E next \in m_events :
       /\ IsEarliest(next, m_events)
       /\ tsDelay' = IF next.ts <= Realtime THEN 0 ELSE next.ts - Realtime
  /\ waitingFor' = "event"
  /\ m_condition' = FALSE
  /\ pc' = "synchronize"
  /\ UNCHANGED <<listVars, timeVars, runVars, clockVars, sleepUntil, m_cancel,
                 progVars, runs>>

\* The wait is over: the earliest event, which need not be the one waited for,
\* becomes the current one, and its handler runs unless it was cancelled.  In
\* the hard limit mode the program ends when the clock is too far from it.
RemoveNext ==
  /\ pc = "remove"
  /\ \E next \in m_events :
       /\ IsEarliest(next, m_events)
       /\ m_events' = m_events \ {next}
       /\ m_currentTs' = next.ts
       /\ m_currentUid' = next.uid
       /\ m_currentContext' = next.context
       /\ pc' = IF /\ m_synchronizationMode = "hardLimit"
                   /\ \/ Realtime - next.ts > HardLimit
                      \/ next.ts - Realtime > HardLimit
                THEN "fatal"
                ELSE IF next.impl \in m_cancel THEN "loop" ELSE "handler"
  /\ UNCHANGED <<m_uid, runVars, m_condition, clockVars, waitVars, m_cancel,
                 progVars, runs>>

HandlerEnds ==
  /\ pc = "handler"
  /\ pc' = "loop"
  /\ UNCHANGED <<listVars, timeVars, runVars, m_condition, clockVars,
                 waitVars, m_cancel, progVars, runs>>

-----------------------------------------------------------------------------
(* WallClockSynchronizer::Synchronize.                                     *)

Target == tsNow + tsDelay

\* DriftCorrect: what is left of the delay.
DriftCorrect == IF Realtime - tsNow < 0 THEN tsDelay
                ELSE IF Realtime - tsNow <= tsDelay
                     THEN tsDelay - (Realtime - tsNow)
                     ELSE 0

\* Mutant: after the wait on an empty list Run does not look again.
ReturnsToProcess(result) ==
  /\ pc' = IF result THEN "remove" ELSE "process"
  /\ waitingFor' = "idle" /\ tsNow' = 0 /\ tsDelay' = 0 /\ sleepUntil' = 0

\* What the caller does when Synchronize returns: its locals end their life.
Returns(result) ==
  /\ pc' = IF waitingFor = "idle" THEN "loop"
           ELSE IF result THEN "remove" ELSE "process"
  /\ waitingFor' = "idle" /\ tsNow' = 0 /\ tsDelay' = 0 /\ sleepUntil' = 0

\* Mutant: the signal is cleared when the wait begins, without m_mutex.
SynchronizeClears ==
  /\ pc = "synchronize"
  /\ LET numberJiffies == DriftCorrect \div Jiffy
     IN IF numberJiffies > SpareJiffies
        THEN /\ pc' = "sleep"
             /\ sleepUntil' = wall + (numberJiffies - SpareJiffies) * Jiffy
        ELSE pc' = "check" /\ UNCHANGED sleepUntil
  /\ m_condition' = FALSE
  /\ UNCHANGED <<listVars, timeVars, runVars, clockVars, waitingFor, tsNow,
                 tsDelay, m_cancel, progVars, runs>>

\* Sleep through all but a few jiffies of the delay, if there are more.
Synchronize ==
  /\ pc = "synchronize"
  /\ LET numberJiffies == DriftCorrect \div Jiffy
     IN IF numberJiffies > SpareJiffies
        THEN /\ pc' = "sleep"
             /\ sleepUntil' = wall + (numberJiffies - SpareJiffies) * Jiffy
        ELSE pc' = "check" /\ UNCHANGED sleepUntil
  /\ UNCHANGED <<listVars, timeVars, runVars, m_condition, clockVars,
                 waitingFor, tsNow, tsDelay, m_cancel, progVars, runs>>

\* Mutant: the wait has no time limit.
SleepWaitForever ==
  /\ pc = "sleep"
  /\ m_condition
  /\ pc' = "check"
  /\ UNCHANGED <<listVars, timeVars, runVars, m_condition, clockVars, waitVars,
                 m_cancel, progVars, runs>>

\* SleepWait returns what wait_for does: TRUE if it was signalled, and then
\* Synchronize goes on; FALSE if the time ran out, and then it returns.
SleepWait ==
  /\ pc = "sleep"
  /\ \/ /\ m_condition
        /\ pc' = "check"
        /\ UNCHANGED waitVars
     \/ /\ ~m_condition /\ wall >= sleepUntil
        /\ Returns(FALSE)
  /\ UNCHANGED <<listVars, timeVars, runVars, m_condition, clockVars,
                 m_cancel, progVars, runs>>

\* Mutant: the sign of the drift is wrong.
MeasureDriftBackwards ==
  /\ pc = "check"
  /\ \/ Realtime <= Target /\ Returns(TRUE)
     \/ Realtime > Target /\ pc' = "spin" /\ UNCHANGED waitVars
  /\ UNCHANGED <<listVars, timeVars, runVars, m_condition, clockVars,
                 m_cancel, progVars, runs>>

\* Synchronize measures the drift from the target.
MeasureDrift ==
  /\ pc = "check"
  /\ \/ Realtime >= Target /\ Returns(TRUE)
     \/ Realtime < Target /\ pc' = "spin" /\ UNCHANGED waitVars
  /\ UNCHANGED <<listVars, timeVars, runVars, m_condition, clockVars,
                 m_cancel, progVars, runs>>

\* Mutant: a signal ends the wait as if the time had come.
SpinWaitTrue ==
  /\ pc = "spin"
  /\ Realtime >= Target \/ m_condition
  /\ Returns(TRUE)
  /\ UNCHANGED <<listVars, timeVars, runVars, m_condition, clockVars,
                 m_cancel, progVars, runs>>

\* SpinWait looks at the clock, then at the signal, which may come after the
\* clock was read and before the target is reached.
SpinWait ==
  /\ pc = "spin"
  /\ \/ Realtime >= Target /\ Returns(TRUE)
     \/ m_condition /\ Returns(FALSE)
  /\ UNCHANGED <<listVars, timeVars, runVars, m_condition, clockVars,
                 m_cancel, progVars, runs>>

-----------------------------------------------------------------------------
Tick == /\ wall < MaxWall
        /\ wall' = wall + 1
        /\ UNCHANGED <<pc, listVars, timeVars, runVars, m_condition,
                       m_realtimeOriginNano, waitVars, m_cancel, progVars,
                       runs>>

\* The engine's own steps, and the return of a handler.
Engine == \/ SetOrigin \/ SeesEvent \/ SeesEmptyList \/ LoopEnds \/ RunEnds
          \/ ProcessOneEvent \/ RemoveNext \/ HandlerEnds
          \/ Synchronize \/ SleepWait \/ MeasureDrift \/ SpinWait

Next == Call \/ OtherThread \/ RunBegins \/ Engine \/ Tick

Spec == Init /\ [][Next]_vars

\* The main thread is scheduled and the clock runs.
FairSpec == Spec /\ WF_vars(Engine) /\ WF_vars(Tick)

-----------------------------------------------------------------------------
(* Properties.                                                             *)

Pcs == {"user", "setOrigin", "loop", "process", "synchronize", "sleep",
        "check", "spin", "remove", "handler", "runEnds", "fatal"}

\* Every variable has its type: the times, the sets of events, the control.
TimesTyped == /\ m_uid \in Nat /\ m_currentTs \in Nat /\ m_currentUid \in Nat
              /\ m_realtimeOriginNano \in Nat /\ wall \in Nat
              /\ m_realtimeOriginNano <= wall
              /\ tsNow \in Nat /\ tsDelay \in Nat /\ sleepUntil \in Nat
              /\ runs \in Nat
ListTyped == /\ m_events \subseteq Listed /\ ids \subseteq Listed
             /\ m_cancel \subseteq Events /\ unused \subseteq Events
             /\ m_currentContext \in AllContexts
ControlTyped == /\ pc \in Pcs /\ waitingFor \in {"event", "idle"}
                /\ m_stop \in BOOLEAN /\ m_running \in BOOLEAN
                /\ m_condition \in BOOLEAN
                /\ m_synchronizationMode \in {"bestEffort", "hardLimit"}
TypeOK == TimesTyped /\ ListTyped /\ ControlTyped

\* The main thread is waiting for the time of an event or for a first event.
Waiting == pc \in {"synchronize", "sleep", "check", "spin"}

\* No event is overslept: while the main thread waits for the time of the
\* earliest event, or on an empty list, an event inserted since then that is
\* due before the end of the wait has left the signal that interrupts it
\* (realtime-simulator-impl.cc:245-270).
NoSignalIsLost ==
  Waiting /\ tsDelay > 0
    => \A ev \in m_events :
         waitingFor = "idle" \/ ev.ts < Target => m_condition

\* A handler never runs before the real time of its event, whatever wakes the
\* main thread and whatever is inserted between the end of the wait and
\* RemoveNext (realtime-simulator-impl.cc:297-303).
NeverEarly == pc = "handler" => m_currentTs <= Realtime

\* From the moment Run sees an event until RemoveNext, with m_mutex released
\* three times, there is an event to run: the assertions of
\* realtime-simulator-impl.cc:315 and 405.
EventToRun ==
  \/ pc \in {"process", "remove"}
  \/ Waiting /\ waitingFor = "event"
  => m_events # {}

\* In the first Run no event, of whatever thread, is inserted before the
\* current time: the assertions of realtime-simulator-impl.cc:329, 552, 593
\* and 625.
NeverInPast ==
  runs <= 1 => \A ev \in m_events : ev.ts >= m_currentTs

\* A due event does not stay listed for ever: it is run or removed, or Run
\* ends.
DueEventsRun ==
  \A e \in Events :
    (/\ m_running /\ pc # "setOrigin"
     /\ \E ev \in m_events :
          ev.impl = e /\ ev.ts <= MaxWall - m_realtimeOriginNano)
    ~> \/ \A ev \in m_events : ev.impl # e
       \/ ~m_running
       \/ pc = "fatal"

=============================================================================
