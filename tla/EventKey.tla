------------------------------- MODULE EventKey -------------------------------
(***************************************************************************)
(* The keys by which the future event list is ordered: struct EventKey and *)
(* the comparison operators of src/core/model/scheduler.h, with the        *)
(* reserved values of the event uid (enum UID of event-id.h).              *)
(*                                                                         *)
(* A key is any record with the fields ts and uid.  The third field of the *)
(* C++ structure, m_context, takes no part in any comparison.              *)
(***************************************************************************)
EXTENDS Naturals

\* EventId::UID: what the uid of an event that was never scheduled, of an
\* event to run at Simulator::Destroy, and of the first scheduled event is.
INVALID == 0
DESTROY == 2
VALID   == 4

\* operator< on EventKey: the earlier time stamp, then the older uid.
KeyLess(a, b) == \/ a.ts < b.ts
                 \/ a.ts = b.ts /\ a.uid < b.uid

\* The event that RemoveNext promises: no other listed event precedes it.
IsEarliest(e, list) == \A f \in list : f = e \/ KeyLess(e, f)

===============================================================================
