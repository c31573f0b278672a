------------------------ MODULE DefaultSimulatorImpl ------------------------
(***************************************************************************)
(* The sequential simulation engine, class DefaultSimulatorImpl of         *)
(* src/core/model/default-simulator-impl.cc, as the main thread, which     *)
(* runs the events, and other threads, which post events to it with        *)
(* ScheduleWithContext, interleave in it.                                  *)
(*                                                                         *)
(* The program around the engine is the environment: outside Run, inside   *)
(* the handler of an event and inside a destroy handler it may call any    *)
(* operation of the engine, on any EventId it was ever given.              *)
(*                                                                         *)
(* Abstracted: the context of an event and the count of executed events    *)
(* (nothing in the engine reads them), and the data structure behind       *)
(* m_events (a set here; see Scheduler, HeapScheduler, CalendarScheduler), *)
(* so that SetScheduler, which moves every event to another structure,     *)
(* changes nothing.                                                        *)
(***************************************************************************)
EXTENDS EventKey, Integers, FiniteSets, SequencesExt

CONSTANTS Events,     \* the EventImpl objects the program creates
          Threads,    \* the threads other than the main one
          Delays,     \* the delays (time steps) events are scheduled with
          UidModulus  \* m_uid is a uint32_t: 2^32 in the code

ASSUME DelaysAssumption == Delays \subseteq Nat
ASSUME UidAssumption == UidModulus \in Nat /\ UidModulus > VALID
ASSUME EventsAssumption == {} \notin Events  \* a null pointer is no event
ASSUME MainAssumption == {"free", "main"} \cap Threads = {}

VARIABLES
  pc,                      \* what the main thread does next
  after,                   \* what follows ProcessEventsWithContext
  m_events,                \* the future event list
  m_uid,                   \* the uid of the next event
  m_currentTs,             \* time stamp and ...
  m_currentUid,            \* ... uid of the event being executed
  m_unscheduledEvents,     \* "events inserted but not yet run or removed"
  m_stop,
  m_destroyEvents,         \* ids of the events to run at Destroy, in order
  m_cancel,                \* the EventImpls whose m_cancel flag is set
  stopEvents,              \* the EventImpls whose handler is Simulator::Stop
  m_eventsWithContext,     \* events posted by other threads
  m_eventsWithContextEmpty,
  mutex,                   \* who holds m_eventsWithContextMutex
  eventsWithContext,       \* main thread's local: the queue it swapped out
  tpc,                     \* what each other thread does next
  posting,                 \* the event each other thread is posting
  ids,                     \* environment: the EventIds the program holds
  fate,                    \* history: what became of each event
  revoked,                 \* history: events passed to Cancel or Remove
  posted                   \* history: the posted events, in queue order

mainVars    == <<pc, after>>
eventVars   == <<m_events, m_uid, m_unscheduledEvents>>
timeVars    == <<m_currentTs, m_currentUid>>
destroyVars == <<m_destroyEvents, m_cancel>>
queueVars   == <<m_eventsWithContext, m_eventsWithContextEmpty, mutex,
                 eventsWithContext>>
threadVars  == <<tpc, posting>>
idVars      == <<ids, stopEvents>>
historyVars == <<fate, revoked, posted>>
vars == <<mainVars, eventVars, timeVars, m_stop, destroyVars, queueVars,
          threadVars, idVars, historyVars>>

-----------------------------------------------------------------------------
Listed == [impl : Events, ts : Nat, uid : 0 .. UidModulus - 1]
Posts  == [event : Events, timestamp : Delays]
Fates  == {"unused", "pending", "ran", "skipped", "removed", "discarded"}
NoPost == [event |-> {}, timestamp |-> 0]

\* m_currentTs and m_currentUid as one key.
CurrentKey == [ts |-> m_currentTs, uid |-> m_currentUid]

\* The main thread is in code of the program, which may call the engine.
InProgram == pc \in {"user", "handler", "destroyHandler"}

Init == /\ pc = "user" /\ after = "start"
        /\ m_events = {}
        /\ m_uid = VALID
        /\ m_currentTs = 0 /\ m_currentUid = INVALID
        /\ m_unscheduledEvents = 0
        /\ m_stop = FALSE
        /\ m_destroyEvents = <<>>
        /\ m_cancel = {} /\ stopEvents = {}
        /\ m_eventsWithContext = <<>> /\ m_eventsWithContextEmpty = TRUE
        /\ mutex = "free"
        /\ eventsWithContext = <<>>
        /\ tpc = [t \in Threads |-> "idle"]
        /\ posting = [t \in Threads |-> NoPost]
        /\ ids = {}
        /\ fate = [e \in Events |-> "unused"]
        /\ revoked = {}
        /\ posted = <<>>

-----------------------------------------------------------------------------
(* Operations of the program, on the main thread.                          *)

\* The next value of m_uid: the C++ counter wraps.
NextUid == (m_uid + 1) % UidModulus

\* The event an insertion of e at time ts makes, and the insertion.
NewEvent(e, ts) == [impl |-> e, ts |-> ts, uid |-> m_uid]
\* Mutant: the insertion is not counted.
InsertUncounted(e, ts) == /\ m_events' = m_events \cup {NewEvent(e, ts)}
                          /\ m_uid' = NextUid
                          /\ UNCHANGED m_unscheduledEvents
InsertEvent(e, ts) == /\ m_events' = m_events \cup {NewEvent(e, ts)}
                      /\ m_uid' = NextUid
                      /\ m_unscheduledEvents' = m_unscheduledEvents + 1

\* The program makes a new EventImpl to hand to the engine.
Create(e) == fate[e] = "unused" /\ fate' = [fate EXCEPT ![e] = "pending"]

\* Mutants: the running event has not expired; every event of now has expired.
ExpiresAfterRunning(id) ==
  IF id.uid = DESTROY
  THEN id.impl \in m_cancel \/ id \notin ToSet(m_destroyEvents)
  ELSE \/ id.ts < m_currentTs
       \/ id.ts = m_currentTs /\ id.uid < m_currentUid
       \/ id.impl \in m_cancel
ExpiresWithItsTime(id) ==
  IF id.uid = DESTROY
  THEN id.impl \in m_cancel \/ id \notin ToSet(m_destroyEvents)
  ELSE id.ts <= m_currentTs \/ id.impl \in m_cancel

IsExpired(id) ==
  IF id.uid = DESTROY
  THEN id.impl \in m_cancel \/ id \notin ToSet(m_destroyEvents)
  ELSE \/ id.ts < m_currentTs
       \/ id.ts = m_currentTs /\ id.uid <= m_currentUid
       \/ id.impl \in m_cancel

\* Schedule, ScheduleNow (delay 0), and Stop(delay): the event is Stop itself.
Schedule(e, delay) ==
  /\ InProgram
  /\ Create(e)
  /\ InsertEvent(e, m_currentTs + delay)
  /\ ids' = ids \cup {NewEvent(e, m_currentTs + delay)}
  /\ stopEvents' \in {stopEvents, stopEvents \cup {e}}
  /\ UNCHANGED <<mainVars, timeVars, m_stop, destroyVars, queueVars,
                 threadVars, revoked, posted>>

\* ScheduleWithContext on the main thread: the program gets no EventId.
ScheduleWithContext(e, delay) ==
  /\ InProgram
  /\ Create(e)
  /\ InsertEvent(e, m_currentTs + delay)
  /\ UNCHANGED <<mainVars, timeVars, m_stop, destroyVars, queueVars,
                 threadVars, idVars, revoked, posted>>

ScheduleDestroy(e) ==
  LET id == [impl |-> e, ts |-> m_currentTs, uid |-> DESTROY]
  IN /\ InProgram
     /\ Create(e)
     /\ m_destroyEvents' = Append(m_destroyEvents, id)
     /\ m_uid' = NextUid
     /\ ids' = ids \cup {id}
     /\ UNCHANGED <<mainVars, m_events, m_unscheduledEvents, timeVars, m_stop,
                    m_cancel, queueVars, threadVars, stopEvents, revoked,
                    posted>>

Cancel(id) ==
  /\ InProgram
  /\ m_cancel' = IF IsExpired(id) THEN m_cancel ELSE m_cancel \cup {id.impl}
  /\ revoked' = revoked \cup {id.impl}
  /\ UNCHANGED <<mainVars, eventVars, timeVars, m_stop, m_destroyEvents,
                 queueVars, threadVars, idVars, fate, posted>>

\* Remove of a destroy event erases the first id equal to it, if any.
RemoveDestroy(id) ==
  /\ InProgram /\ id.uid = DESTROY
  /\ \/ /\ id \notin ToSet(m_destroyEvents)
        /\ UNCHANGED <<m_destroyEvents, fate>>
     \/ \E i \in DOMAIN m_destroyEvents :
          /\ m_destroyEvents[i] = id
          /\ \A j \in 1 .. i - 1 : m_destroyEvents[j] # id
          /\ m_destroyEvents' = RemoveAt(m_destroyEvents, i)
          /\ fate' = [fate EXCEPT ![id.impl] = "removed"]
  /\ revoked' = revoked \cup {id.impl}
  /\ UNCHANGED <<mainVars, eventVars, timeVars, m_stop, m_cancel, queueVars,
                 threadVars, idVars, posted>>

\* Remove of any other event.  The data structure looks it up by its key and
\* asserts that the event found is this one: see RemoveFindsEvent.
RemoveListed(id) ==
  /\ InProgram /\ id.uid # DESTROY
  /\ \/ IsExpired(id) /\ UNCHANGED <<m_events, m_unscheduledEvents, m_cancel,
                                     fate>>
     \/ /\ ~IsExpired(id)
        /\ m_events' = m_events \ {id}
        /\ m_cancel' = m_cancel \cup {id.impl}
        /\ m_unscheduledEvents' = m_unscheduledEvents - 1
        /\ fate' = [fate EXCEPT ![id.impl] = "removed"]
  /\ revoked' = revoked \cup {id.impl}
  /\ UNCHANGED <<mainVars, m_uid, timeVars, m_stop, m_destroyEvents, queueVars,
                 threadVars, idVars, posted>>

Stop == /\ InProgram
        /\ m_stop' = TRUE
        /\ UNCHANGED <<mainVars, eventVars, timeVars, destroyVars, queueVars,
                       threadVars, idVars, historyVars>>

\* What the program may ask of the engine wherever its own code runs.
Call == \/ \E e \in Events, d \in Delays : \/ Schedule(e, d)
                                       \/ ScheduleWithContext(e, d)
        \/ \E e \in Events : ScheduleDestroy(e)
        \/ \E id \in ids : Cancel(id) \/ RemoveDestroy(id) \/ RemoveListed(id)
        \/ Stop

-----------------------------------------------------------------------------
(* ProcessEventsWithContext, which Run, ProcessOneEvent and DoDispose call. *)

\* The unlocked test of m_eventsWithContextEmpty.  It races with the store of
\* a posting thread: the main thread may still see TRUE after that store,
\* unless it joined the threads, as the program does before Destroy.
ReadFlag ==
  /\ pc = "poll"
  /\ \/ m_eventsWithContextEmpty /\ pc' = after
     \/ ~m_eventsWithContextEmpty /\ after # "dispose" /\ pc' = after
     \/ ~m_eventsWithContextEmpty /\ pc' = "lock"
  /\ UNCHANGED <<after, eventVars, timeVars, m_stop, destroyVars, queueVars,
                 threadVars, idVars, historyVars>>

\* Mutants: the queue is copied, not swapped; the mutex is held for the swap
\* only, and not while the flag is set.
SwapCopies ==
  /\ pc = "lock" /\ mutex = "free"
  /\ mutex' = "main"
  /\ eventsWithContext' = m_eventsWithContext
  /\ pc' = "swapped"
  /\ UNCHANGED <<after, eventVars, timeVars, m_stop, destroyVars,
                 m_eventsWithContext, m_eventsWithContextEmpty, threadVars,
                 idVars, historyVars>>
SwapReleases ==
  /\ pc = "lock" /\ mutex = "free"
  /\ eventsWithContext' = m_eventsWithContext
  /\ m_eventsWithContext' = <<>>
  /\ pc' = "swapped"
  /\ UNCHANGED <<after, eventVars, timeVars, m_stop, destroyVars,
                 m_eventsWithContextEmpty, mutex, threadVars, idVars,
                 historyVars>>

\* Take the mutex and swap the queues.
SwapQueues ==
  /\ pc = "lock" /\ mutex = "free"
  /\ mutex' = "main"
  /\ eventsWithContext' = m_eventsWithContext
  /\ m_eventsWithContext' = <<>>
  /\ pc' = "swapped"
  /\ UNCHANGED <<after, eventVars, timeVars, m_stop, destroyVars,
                 m_eventsWithContextEmpty, threadVars, idVars, historyVars>>

\* Note that the shared queue is empty and release the mutex.
ReleaseQueue ==
  /\ pc = "swapped"
  /\ m_eventsWithContextEmpty' = TRUE
  /\ mutex' = "free"
  /\ pc' = "insert"
  /\ UNCHANGED <<after, eventVars, timeVars, m_stop, destroyVars,
                 m_eventsWithContext, eventsWithContext, threadVars, idVars,
                 historyVars>>

\* Mutants: the queue is emptied from the back; the current time is not added.
InsertPostedLast ==
  /\ pc = "insert" /\ eventsWithContext # <<>>
  /\ LET event == Last(eventsWithContext)
     IN InsertEvent(event.event, m_currentTs + event.timestamp)
  /\ eventsWithContext' = Front(eventsWithContext)
  /\ UNCHANGED <<mainVars, timeVars, m_stop, destroyVars, m_eventsWithContext,
                 m_eventsWithContextEmpty, mutex, threadVars, idVars,
                 historyVars>>
InsertPostedRelative ==
  /\ pc = "insert" /\ eventsWithContext # <<>>
  /\ LET event == Head(eventsWithContext)
     IN InsertEvent(event.event, event.timestamp)
  /\ eventsWithContext' = Tail(eventsWithContext)
  /\ UNCHANGED <<mainVars, timeVars, m_stop, destroyVars, m_eventsWithContext,
                 m_eventsWithContextEmpty, mutex, threadVars, idVars,
                 historyVars>>

\* One iteration of the loop that lists the swapped events.
InsertPosted ==
  /\ pc = "insert" /\ eventsWithContext # <<>>
  /\ LET event == Head(eventsWithContext)
     IN InsertEvent(event.event, m_currentTs + event.timestamp)
  /\ eventsWithContext' = Tail(eventsWithContext)
  /\ UNCHANGED <<mainVars, timeVars, m_stop, destroyVars, m_eventsWithContext,
                 m_eventsWithContextEmpty, mutex, threadVars, idVars,
                 historyVars>>

AllInserted ==
  /\ pc = "insert" /\ eventsWithContext = <<>>
  /\ pc' = after
  /\ UNCHANGED <<after, eventVars, timeVars, m_stop, destroyVars, queueVars,
                 threadVars, idVars, historyVars>>

ProcessEventsWithContext == \/ ReadFlag \/ SwapQueues \/ ReleaseQueue
                            \/ InsertPosted \/ AllInserted

-----------------------------------------------------------------------------
(* Run.                                                                    *)

RunBegins ==
  /\ pc = "user"
  /\ pc' = "poll" /\ after' = "start"
  /\ UNCHANGED <<eventVars, timeVars, m_stop, destroyVars, queueVars,
                 threadVars, idVars, historyVars>>

\* Only now is a Stop that was called before Run forgotten.
ResetStop ==
  /\ pc = "start"
  /\ m_stop' = FALSE
  /\ pc' = "loop"
  /\ UNCHANGED <<after, eventVars, timeVars, destroyVars, queueVars,
                 threadVars, idVars, historyVars>>

\* ProcessOneEvent up to next.impl->Invoke(), which calls the handler unless
\* the event was cancelled; Simulator::Stop as the handler is done here.
ProcessOneEvent ==
  /\ pc = "loop" /\ ~m_stop
  /\ after' = "loop"
  /\ \E next \in m_events :
       /\ IsEarliest(next, m_events)
       /\ m_events' = m_events \ {next}
       /\ m_unscheduledEvents' = m_unscheduledEvents - 1
       /\ m_currentTs' = next.ts
       /\ m_currentUid' = next.uid
       /\ \/ /\ next.impl \in m_cancel
             /\ fate' = [fate EXCEPT ![next.impl] = "skipped"]
             /\ pc' = "poll"
             /\ UNCHANGED m_stop
          \/ /\ next.impl \notin m_cancel
             /\ fate' = [fate EXCEPT ![next.impl] = "ran"]
             /\ IF next.impl \in stopEvents
                THEN m_stop' = TRUE /\ pc' = "poll"
                ELSE UNCHANGED m_stop /\ pc' = "handler"
  /\ UNCHANGED <<m_uid, destroyVars, queueVars, threadVars, idVars, revoked,
                 posted>>

\* ProcessOneEvent ends with ProcessEventsWithContext.
HandlerReturns ==
  /\ pc = "handler"
  /\ pc' = "poll"
  /\ UNCHANGED <<after, eventVars, timeVars, m_stop, destroyVars, queueVars,
                 threadVars, idVars, historyVars>>

RunReturns ==
  /\ pc = "loop" /\ (m_events = {} \/ m_stop)
  /\ pc' = "user"
  /\ UNCHANGED <<after, eventVars, timeVars, m_stop, destroyVars, queueVars,
                 threadVars, idVars, historyVars>>

-----------------------------------------------------------------------------
(* Destroy, then DoDispose: the program joined its threads before.         *)

DestroyBegins ==
  /\ pc = "user"
  /\ \A t \in Threads : tpc[t] = "idle"
  /\ pc' = "destroying"
  /\ UNCHANGED <<after, eventVars, timeVars, m_stop, destroyVars, queueVars,
                 threadVars, idVars, historyVars>>

DestroyNext ==
  /\ pc = "destroying" /\ m_destroyEvents # <<>>
  /\ m_destroyEvents' = Tail(m_destroyEvents)
  /\ LET e == Head(m_destroyEvents).impl
     IN \/ /\ e \in m_cancel
           /\ fate' = [fate EXCEPT ![e] = "skipped"]
           /\ UNCHANGED pc
        \/ /\ e \notin m_cancel
           /\ fate' = [fate EXCEPT ![e] = "ran"]
           /\ pc' = "destroyHandler"
  /\ UNCHANGED <<after, eventVars, timeVars, m_stop, m_cancel, queueVars,
                 threadVars, idVars, revoked, posted>>

DestroyHandlerReturns ==
  /\ pc = "destroyHandler"
  /\ pc' = "destroying"
  /\ UNCHANGED <<after, eventVars, timeVars, m_stop, destroyVars, queueVars,
                 threadVars, idVars, historyVars>>

\* DoDispose lists what the threads posted last, ...
DisposeBegins ==
  /\ pc = "destroying" /\ m_destroyEvents = <<>>
  /\ pc' = "poll" /\ after' = "dispose"
  /\ UNCHANGED <<eventVars, timeVars, m_stop, destroyVars, queueVars,
                 threadVars, idVars, historyVars>>

\* ... and frees every listed event without running it.
Dispose ==
  /\ pc = "dispose"
  /\ m_events' = {}
  /\ fate' = [e \in Events |-> IF \E ev \in m_events : ev.impl = e
                               THEN "discarded" ELSE fate[e]]
  /\ pc' = "disposed"
  /\ UNCHANGED <<after, m_uid, m_unscheduledEvents, timeVars, m_stop,
                 destroyVars, queueVars, threadVars, idVars, revoked, posted>>

-----------------------------------------------------------------------------
(* ScheduleWithContext on another thread.                                  *)

Running == /\ pc \notin {"destroying", "destroyHandler", "dispose", "disposed"}
           /\ (pc \in {"poll", "lock", "swapped", "insert"} => after # "dispose")

PostBegins(t, e, delay) ==
  /\ tpc[t] = "idle" /\ Running
  /\ Create(e)
  /\ posting' = [posting EXCEPT ![t] = [event |-> e, timestamp |-> delay]]
  /\ tpc' = [tpc EXCEPT ![t] = "lock"]
  /\ UNCHANGED <<mainVars, eventVars, timeVars, m_stop, destroyVars, queueVars,
                 idVars, revoked, posted>>

\* Take the mutex and queue the event; its time is added by the main thread.
PostPush(t) ==
  /\ tpc[t] = "lock" /\ mutex = "free"
  /\ mutex' = t
  /\ m_eventsWithContext' = Append(m_eventsWithContext, posting[t])
  /\ posted' = Append(posted, posting[t])
  /\ posting' = [posting EXCEPT ![t] = NoPost]
  /\ tpc' = [tpc EXCEPT ![t] = "pushed"]
  /\ UNCHANGED <<mainVars, eventVars, timeVars, m_stop, destroyVars,
                 m_eventsWithContextEmpty, eventsWithContext, idVars, fate,
                 revoked>>

\* Mutant: the main thread is not told.
PostUntold(t) ==
  /\ tpc[t] = "pushed"
  /\ mutex' = "free"
  /\ tpc' = [tpc EXCEPT ![t] = "idle"]
  /\ UNCHANGED <<mainVars, eventVars, timeVars, m_stop, destroyVars,
                 m_eventsWithContext, m_eventsWithContextEmpty,
                 eventsWithContext, posting, idVars, historyVars>>

PostRelease(t) ==
  /\ tpc[t] = "pushed"
  /\ m_eventsWithContextEmpty' = FALSE
  /\ mutex' = "free"
  /\ tpc' = [tpc EXCEPT ![t] = "idle"]
  /\ UNCHANGED <<mainVars, eventVars, timeVars, m_stop, destroyVars,
                 m_eventsWithContext, eventsWithContext, posting, idVars,
                 historyVars>>

-----------------------------------------------------------------------------
\* The end of the program.
Disposed == pc = "disposed" /\ UNCHANGED vars

MainStep == \/ ProcessEventsWithContext
            \/ ResetStop \/ ProcessOneEvent \/ HandlerReturns \/ RunReturns
            \/ DestroyNext \/ DestroyHandlerReturns \/ DisposeBegins \/ Dispose

ThreadStep(t) == PostPush(t) \/ PostRelease(t)

Next == \/ Call \/ RunBegins \/ DestroyBegins
        \/ MainStep
        \/ \E t \in Threads, e \in Events, d \in Delays : PostBegins(t, e, d)
        \/ \E t \in Threads : ThreadStep(t)
        \/ Disposed

Spec == Init /\ [][Next]_vars

\* Every thread that is in the engine gets on, a handler returns, and the
\* program ends in Simulator::Destroy however often it calls Run.
Fairness == /\ WF_vars(MainStep)
            /\ \A t \in Threads : WF_vars(ThreadStep(t))
            /\ SF_vars(DestroyBegins)

FairSpec == Spec /\ Fairness

-----------------------------------------------------------------------------
(* Types.                                                                  *)

TypeOK ==
  /\ pc \in {"user", "poll", "lock", "swapped", "insert", "start", "loop",
             "handler", "destroying", "destroyHandler", "dispose", "disposed"}
  /\ after \in {"start", "loop", "dispose"}
  /\ m_events \in SUBSET Listed
  /\ m_uid \in 0 .. UidModulus - 1
  /\ m_currentTs \in Nat /\ m_currentUid \in 0 .. UidModulus - 1
  /\ m_unscheduledEvents \in Int
  /\ m_stop \in BOOLEAN
  /\ m_destroyEvents \in Seq([impl : Events, ts : Nat, uid : {DESTROY}])
  /\ m_cancel \in SUBSET Events
  /\ stopEvents \in SUBSET Events
  /\ m_eventsWithContext \in Seq(Posts)
  /\ m_eventsWithContextEmpty \in BOOLEAN
  /\ mutex \in {"free", "main"} \cup Threads
  /\ eventsWithContext \in Seq(Posts)
  /\ tpc \in [Threads -> {"idle", "lock", "pushed"}]
  /\ posting \in [Threads -> Posts \cup {NoPost}]
  /\ ids \in SUBSET Listed
  /\ fate \in [Events -> Fates]
  /\ revoked \in SUBSET Events
  /\ posted \in Seq(Posts)

-----------------------------------------------------------------------------
(* Safety.                                                                 *)

\* IsExpired tells the truth about every EventId the program holds, however
\* long ago it got it: an event is unexpired exactly while it still waits in
\* the engine and is not cancelled.  (IsExpired compares the key of the id
\* with the key of the current event; it never looks into the event list.)
ExpiredExact ==
  pc # "disposed" =>
    \A id \in ids :
      ~IsExpired(id) <=> /\ id \in m_events \cup ToSet(m_destroyEvents)
                         /\ id.impl \notin m_cancel

\* What the program called Cancel or Remove for never has its handler called
\* afterwards: no call is ignored because the event looked expired, and no
\* revoked event is invoked from either queue.
RevokedNeverRuns ==
  [][\A e \in revoked : fate'[e] = "ran" => fate[e] = "ran"]_vars

\* Every event that is neither run, skipped, removed nor freed waits in exactly
\* one place, on its way from the posting thread, through the shared queue and
\* the swapped one, to the event list, or in the queue of destroy events; and
\* an event whose story is over waits nowhere.
In(e, queue) == Cardinality({i \in DOMAIN queue : queue[i].event = e})
Waiting(e) == Cardinality({t \in Threads : posting[t].event = e})
              + In(e, m_eventsWithContext) + In(e, eventsWithContext)
              + Cardinality({ev \in m_events : ev.impl = e})
              + Cardinality({i \in DOMAIN m_destroyEvents :
                               m_destroyEvents[i].impl = e})
NoEventLost ==
  \A e \in Events : Waiting(e) = IF fate[e] = "pending" THEN 1 ELSE 0

\* m_unscheduledEvents counts the listed events wherever the program or Run
\* can look: the consistency test that ends Run ("that we didn't lose any
\* events along the way") never fails.
AccountingOK == pc # "disposed" => m_unscheduledEvents = Cardinality(m_events)

\* When nobody holds the mutex, the flag that is read without it is TRUE only if
\* the shared queue is empty: the next look at the flag misses no post.
FlagHonest ==
  mutex = "free" /\ m_eventsWithContextEmpty => m_eventsWithContext = <<>>

\* Posts take effect in the order in which they were queued: an event does not
\* run while one that was queued before it, for no later a delay, still waits,
\* although both get their time and uid only when the main thread finds them.
PostingOrderKept ==
  \A i, j \in DOMAIN posted :
    /\ i < j
    /\ posted[i].timestamp <= posted[j].timestamp
    /\ fate[posted[j].event] = "ran"
    => fate[posted[i].event] # "pending"

\* The clock: the keys of the events that are executed strictly increase, over
\* all calls of Run, so that time never goes back and no event runs twice.
KeysIncrease == 
  [][CurrentKey' # CurrentKey => KeyLess(CurrentKey, CurrentKey')]_vars

\* The engine keeps its side of the contract of the event list: it inserts no
\* event in the past, never reuses a uid that is listed, and removes as the
\* next event only the earliest one.
EventList == INSTANCE Scheduler WITH
               list <- {[ts |-> ev.ts, uid |-> ev.uid] : ev \in m_events},
               last <- CurrentKey
SchedulerContract == EventList!Spec

-----------------------------------------------------------------------------
(* Liveness.                                                               *)

\* No event is forgotten: whatever was scheduled or posted, even while the main
\* thread was looking at the flag, is at some time run, skipped, removed or
\* freed by DoDispose.
EveryEventSettles ==
  \A e \in Events :
    (fate[e] = "pending") ~> (fate[e] \notin {"unused", "pending"})

=============================================================================
