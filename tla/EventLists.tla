----------------------------- MODULE EventLists -----------------------------
(***************************************************************************)
(* The event lists under a simulator engine: every implementation of       *)
(* Scheduler behind m_events, and DefaultSimulatorImpl::SetScheduler,      *)
(* which replaces one by another while events are listed.                  *)
(*                                                                         *)
(* The engine keeps its side of the contract of Scheduler: it gives every  *)
(* event the next uid, inserts none in the past of the event it took last, *)
(* and removes none that is overdue.                                       *)
(***************************************************************************)
EXTENDS EventKey, Naturals, SequencesExt, FiniteSetsExt

CONSTANTS Kinds,       \* the implementations a program chooses from
          MaxEvents,   \* bound: how many events the program schedules
          Times        \* the time stamps it gives them

ASSUME EventListsAssumption ==
  /\ Kinds # {} /\ Kinds \subseteq {"list", "map", "heap", "calendar"}
  /\ MaxEvents \in Nat /\ Times \subseteq Nat

VARIABLES kind,        \* the class of m_events
          m_events,    \* its members
          last,        \* history: the event that RemoveNext returned last
          uid,         \* the uid of the next event
          removed      \* history: this list has seen a Remove

vars == <<kind, m_events, last, uid, removed>>

List == INSTANCE ListScheduler
Map == INSTANCE MapScheduler
Heap == INSTANCE HeapScheduler
Calendar == INSTANCE CalendarScheduler

-----------------------------------------------------------------------------
(* The virtual functions of Scheduler.                                     *)

Empty(k) == CASE k = "list" -> List!EmptyList
              [] k = "map" -> Map!EmptyMap
              [] k = "heap" -> Heap!EmptyHeap
              [] k = "calendar" -> Calendar!EmptyCalendar

InsertInto(k, events, ev) ==
  CASE k = "list" -> List!Insert(events, ev)
    [] k = "map" -> Map!Insert(events, ev)
    [] k = "heap" -> Heap!Insert(events, ev)
    [] k = "calendar" -> Calendar!Insert(events, ev)

PeekIn(k, events) ==
  CASE k = "list" -> List!PeekNext(events)
    [] k = "map" -> Map!PeekNext(events)
    [] k = "heap" -> Heap!PeekNext(events)
    [] k = "calendar" -> Calendar!PeekNext(events)

RemoveNextFrom(k, events) ==
  CASE k = "list" -> List!RemoveNext(events)
    [] k = "map" -> Map!RemoveNext(events)
    [] k = "heap" -> Heap!RemoveNext(events)
    [] k = "calendar" -> Calendar!RemoveNext(events)

RemoveFrom(k, events, ev) ==
  CASE k = "list" -> List!RemoveEvent(events, ev)
    [] k = "map" -> Map!RemoveEvent(events, ev)
    [] k = "heap" -> Heap!RemoveEvent(events, ev)
    [] k = "calendar" -> Calendar!RemoveEvent(events, ev)

\* The events that are listed.
Listed(k, events) == CASE k \in {"list", "heap"} -> ToSet(events)
                       [] k = "map" -> events
                       [] k = "calendar" -> Calendar!Keys(events)

IsEmpty(k, events) == Listed(k, events) = {}

-----------------------------------------------------------------------------
Init == /\ kind \in Kinds
        /\ m_events = Empty(kind)
        /\ last = [ts |-> 0, uid |-> INVALID]
        /\ uid = VALID
        /\ removed = FALSE

Insert(ts) ==
  LET ev == [ts |-> ts, uid |-> uid]
  IN /\ uid < VALID + MaxEvents /\ KeyLess(last, ev)
     /\ m_events' = InsertInto(kind, m_events, ev)
     /\ uid' = uid + 1
     /\ UNCHANGED <<kind, last, removed>>

RemoveNext ==
  /\ ~IsEmpty(kind, m_events)
  /\ LET r == RemoveNextFrom(kind, m_events)
     IN last' = r.event /\ m_events' = r.list
  /\ UNCHANGED <<kind, uid, removed>>

\* The events with which the engine calls Remove are listed and not overdue.
RemoveAny ==
  /\ \E ev \in Listed(kind, m_events) :
       KeyLess(last, ev) /\ m_events' = RemoveFrom(kind, m_events, ev)
  /\ removed' = TRUE
  /\ UNCHANGED <<kind, last, uid>>

\* One round of the loop of SetScheduler, on the old list and the new one.
MoveNext(from, to, s) ==
  IF IsEmpty(from, s.old) THEN s
  ELSE LET next == RemoveNextFrom(from, s.old)
       IN [old |-> next.list, new |-> InsertInto(to, s.new, next.event)]

\* The lists after that many rounds.
MovedIn(rounds, from, events, to) ==
  LET moved[k \in 0 .. rounds] ==
        IF k = 0 THEN [old |-> events, new |-> Empty(to)]
        ELSE MoveNext(from, to, moved[k - 1])
  IN moved[rounds]

\* Mutant of Moved: the loop ends one event early.
MovedButOne(from, events, to) ==
  IF IsEmpty(from, events) THEN Empty(to)
  ELSE MovedIn(Cardinality(Listed(from, events)) - 1, from, events, to).new

\* The new list, when the old one is empty.
Moved(from, events, to) ==
  MovedIn(Cardinality(Listed(from, events)), from, events, to).new

SetScheduler(to) ==
  /\ m_events' = Moved(kind, m_events, to)
  /\ kind' = to
  /\ removed' = FALSE
  /\ UNCHANGED <<last, uid>>

Next == \/ \E ts \in Times : Insert(ts)
        \/ RemoveNext
        \/ RemoveAny
        \/ \E to \in Kinds : SetScheduler(to)

Spec == Init /\ [][Next]_vars

-----------------------------------------------------------------------------
\* Every event of a calendar is in the bucket of its time stamp under the
\* present width and number of buckets, so that Remove finds it; the number
\* that triggers the resizing is right; and the scan starts on the day of the
\* last event, with no event on an earlier day, which it would reach only a
\* year later.
FiledAndInScan ==
  kind = "calendar" =>
    LET c == m_events
    IN /\ c.qSize = Cardinality(Calendar!Slots(c))
       /\ \A b \in DOMAIN c.buckets : \A ev \in ToSet(c.buckets[b]) :
            b = Calendar!Hash(c, ev.ts)
       /\ c.lastBucket = Calendar!Hash(c, c.lastPrio)
       /\ c.bucketTop = (c.lastPrio \div c.width + 1) * c.width
       /\ \A ev \in Calendar!Keys(c) : ev.ts >= c.lastPrio

\* Every list keeps its side of the contract, a heap until its first Remove:
\* RemoveNext returns the earliest event, which PeekNext has shown before, the
\* operations lose and double none, and SetScheduler changes none.
EventList == INSTANCE Scheduler WITH list <- Listed(kind, m_events)
InOrder == ~(kind = "heap" /\ removed)
PeekIsEarliest ==
  IsEmpty(kind, m_events) \/
    IsEarliest(PeekIn(kind, m_events), Listed(kind, m_events))
SetSchedulerKeeps ==
  UNCHANGED <<uid, last>> /\ ~removed' => UNCHANGED Listed(kind, m_events)
SchedulerContract ==
  /\ EventList!Init
  /\ [][InOrder' => EventList!Next \/ UNCHANGED EventList!vars]_vars
  /\ [](InOrder => PeekIsEarliest)
  /\ [][SetSchedulerKeeps]_vars

\* scheduler.h:203: RemoveNext is to "remove the earliest event from the event
\* list"; it takes the event that PeekNext shows.
RootEarliest == PeekIsEarliest

=============================================================================
