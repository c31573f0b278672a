------------------------------- MODULE Scheduler -------------------------------
(***************************************************************************)
(* The contract of the future event list (class Scheduler,                 *)
(* src/core/model/scheduler.h) between the simulator engines, which call   *)
(* it, and the data structures that implement it.                          *)
(*                                                                         *)
(* The callers promise never to insert an event that precedes the last one *)
(* they removed as the next event (an event scheduled in the past); the    *)
(* implementers promise that RemoveNext returns the earliest event.        *)
(* The engines and the data structures are each checked against this       *)
(* specification from their own side.                                      *)
(***************************************************************************)
EXTENDS EventKey

VARIABLES list,      \* the keys of the events that are scheduled
          last       \* the key that the last RemoveNext returned

vars == <<list, last>>

Init == /\ list = {}
        /\ last = [ts |-> 0, uid |-> INVALID]

\* virtual void Insert(const Event& ev): the uid is not in use, and the event
\* is not in the past of the event being executed.
Insert(k) == /\ \A l \in list : l.uid # k.uid
             /\ KeyLess(last, k)
             /\ list' = list \cup {k}
             /\ UNCHANGED last

\* virtual Event RemoveNext(): "Remove the earliest event from the event list."
RemoveNext(k) == /\ IsEarliest(k, list)
                 /\ list' = list \ {k}
                 /\ last' = k

\* virtual void Remove(const Event& ev): a specific event, wherever it is.
Remove(k) == /\ list' = list \ {k}
             /\ UNCHANGED last

\* DoDispose of the engine empties the list without running anything.
Clear == /\ list' = {}
         /\ UNCHANGED last

Next == \/ \E k \in list' \ list : Insert(k)
        \/ \E k \in list : RemoveNext(k) \/ Remove(k)
        \/ Clear

Spec == Init /\ [][Next]_vars

===============================================================================
