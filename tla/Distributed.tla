----------------------------- MODULE Distributed -----------------------------
(***************************************************************************)
(* A distributed simulation: what NullMessageSimulatorImpl and             *)
(* DistributedSimulatorImpl of src/mpi/model have in common.               *)
(*                                                                         *)
(* The network is divided among ranks, each of which simulates the nodes   *)
(* of its part with an event list and a time of its own.  Where it is      *)
(* divided there are point-to-point links, and a packet sent over one of   *)
(* them becomes an MPI message with the time at which it arrives.          *)
(***************************************************************************)
EXTENDS EventKey, FiniteSets

CONSTANTS Ranks, Links,
          From, To,      \* the ranks a link leads from and to
          Delay,         \* the delay of its channel
          TxTime         \* how long a packet takes to be sent on it

\* Channels are two-way; a link has its opposite, of the same delay.
ASSUME DistributedAssumption ==
  /\ IsFiniteSet(Ranks) /\ From \in [Links -> Ranks] /\ To \in [Links -> Ranks]
  /\ Delay \in [Links -> Nat] /\ TxTime \in [Links -> Nat]
  /\ \A l \in Links : /\ From[l] # To[l] /\ Delay[l] > 0
                      /\ \E k \in Links : /\ From[k] = To[l] /\ To[k] = From[l]
                                          /\ Delay[k] = Delay[l]

Event(ts, uid, what, arg) ==
  [ts |-> ts, uid |-> uid, what |-> what, arg |-> arg]

\* PeekNext of the event list: no other event precedes it.
First(events) == CHOOSE e \in events : \A f \in events : ~KeyLess(f, e)
NextTime(events) == First(events).ts

\* When a packet sent now over the link l arrives at the other rank.
Arrival(l, now) == now + TxTime[l] + Delay[l]

=============================================================================
