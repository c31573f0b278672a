---------------------------- MODULE MapScheduler ----------------------------
(***************************************************************************)
(* The event list in a container that the standard library keeps ordered:  *)
(* class MapScheduler of src/core/model/map-scheduler.cc, the default, on  *)
(* a std::map, and PriorityQueueScheduler of priority-queue-scheduler.cc,  *)
(* on a std::priority_queue with a remove that builds the heap anew.  Both *)
(* are the set of their keys, whose first the container finds by           *)
(* operator<.  EventLists drives the operations.                           *)
(***************************************************************************)
EXTENDS EventKey

EmptyMap == {}
Insert(events, ev) == events \cup {ev}
PeekNext(events) == CHOOSE e \in events : IsEarliest(e, events)
RemoveNext(events) ==
  [event |-> PeekNext(events), list |-> events \ {PeekNext(events)}]
RemoveEvent(events, ev) == events \ {ev}

=============================================================================
