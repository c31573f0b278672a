---------------------------- MODULE ListScheduler ----------------------------
(***************************************************************************)
(* The event list as a sorted list: class ListScheduler of                 *)
(* src/core/model/list-scheduler.cc.  A list is the sequence of the keys   *)
(* in m_events.  EventLists drives the operations.                         *)
(***************************************************************************)
EXTENDS EventKey, Naturals, SequencesExt, FiniteSetsExt

EmptyList == <<>>

\* Before the first later event.
Insert(events, ev) ==
  LET later == {i \in DOMAIN events : KeyLess(ev, events[i])}
  IN InsertAt(events, IF later = {} THEN Len(events) + 1 ELSE Min(later), ev)

PeekNext(events) == Head(events)
RemoveNext(events) == [event |-> Head(events), list |-> Tail(events)]

\* Remove the event, which is found by its uid.
RemoveEvent(events, ev) ==
  RemoveAt(events, CHOOSE i \in DOMAIN events : events[i].uid = ev.uid)

=============================================================================
