---------------------------- MODULE NullMessage ----------------------------
(***************************************************************************)
(* Distributed simulation with null messages: NullMessageSimulatorImpl,    *)
(* NullMessageMpiInterface and RemoteChannelBundle of src/mpi/model.       *)
(*                                                                         *)
(* Each rank simulates the nodes of its part of the network and runs its   *)
(* own events up to its safe time, before which its neighbours have        *)
(* guaranteed that no packet of theirs arrives.  Every packet carries such *)
(* a guarantee, and where there is none a null message does.               *)
(*                                                                         *)
(* Point-to-point links lead from rank to rank.  A handler may send over   *)
(* the idle ones and schedule events, as often as the bounds allow; the    *)
(* first half of PointToPointNetDevice::Send is modelled for the events it *)
(* lists before the packet leaves.  MPI keeps the order of the messages    *)
(* between two ranks, and delivers them in its own time.                   *)
(*                                                                         *)
(* Abstracted: contents of packets, completion of sends, Destroy.  The     *)
(* model begins when each rank has scheduled its events and is in Run,     *)
(* having sent its first null messages.                                    *)
(***************************************************************************)
EXTENDS Distributed, Sequences

CONSTANTS Tune,          \* m_schedulerTune, in percent
          FlowControl,   \* the devices have a NetDeviceQueueInterface
          StopTime,      \* when the program stops each rank
          Starts,        \* when the first event of a rank may be
          Delays,        \* for how long handlers schedule events
          MaxSends,      \* bound of the model: packets sent in all
          MaxScheds      \* bound of the model: events scheduled in all

\* No rank is without links.
ASSUME NullMessageAssumption ==
  /\ \A r \in Ranks : \E l \in Links : From[l] = r
  /\ Tune \in 1 .. 100 /\ FlowControl \in BOOLEAN
  /\ StopTime \in Nat /\ Starts \subseteq Nat /\ Delays \subseteq Nat
  /\ MaxSends \in Nat /\ MaxScheds \in Nat

VARIABLES
  m_currentTs,     \* the time of each rank
  m_uid,           \* the uid of the next event of each rank
  m_events,        \* the event list of each rank
  m_safeTime,      \* up to when a rank may run events
  m_guaranteeTime, \* of each bundle: what the neighbour guaranteed last
  m_stop,          \* Stop was called
  pc,              \* "loop" of Run, "handler", "receive" or "done"
  busy,            \* the links on which a packet is being transmitted
  channel,         \* the MPI messages from one rank to another
  nSends, nScheds  \* what the bounds count

vars == <<m_currentTs, m_uid, m_events, m_safeTime, m_guaranteeTime, m_stop,
          pc, busy, channel, nSends, nScheds>>

-----------------------------------------------------------------------------
(* The bundles of channels between two ranks.                              *)

LinksTo(r, s) == {l \in Links : From[l] = r /\ To[l] = s}
Neighbours(r) == {s \in Ranks : LinksTo(r, s) # {}}
Bundles == {rs \in Ranks \X Ranks : LinksTo(rs[1], rs[2]) # {}}

Smaller(a, b) == IF a <= b THEN a ELSE b
Least(times) == CHOOSE t \in times : \A u \in times : t <= u

\* m_delay of the bundle, the least of its channels.
BundleDelay(r, s) == Least({Delay[l] : l \in LinksTo(r, s)})

\* Mutant: null messages come more rarely than the look-ahead asks for.
RareNullDelay(r, s) == (Tune * BundleDelay(r, s)) \div 100 + 1

\* The delay of ScheduleNullMessageEvent, cut to whole time steps.
NullDelay(r, s) == (Tune * BundleDelay(r, s)) \div 100

\* A message on its way: rx 0 marks a null message.
Message(rx, guarantee) == [rx |-> rx, guarantee |-> guarantee]
NullMessageMark == 0

-----------------------------------------------------------------------------
\* The events of the program, one at a time in Starts and Stop at StopTime, and
\* those of InitializeNullMessageEvents, which also sends a first null message.
NullUid == CHOOSE f \in [Ranks -> VALID + 2 .. VALID + 1 + Cardinality(Ranks)] :
             \A r, s \in Ranks : r # s => f[r] # f[s]

Init ==
  /\ m_currentTs = [r \in Ranks |-> 0]
  /\ m_uid = [r \in Ranks |-> VALID + 2 + Cardinality(Ranks)]
  /\ \E start \in [Ranks -> Starts] :
       m_events = [r \in Ranks |->
         {Event(StopTime, VALID, "stop", r),
          Event(start[r], VALID + 1, "app", r)}
           \cup {Event(NullDelay(r, s), NullUid[s], "null", s)
                 : s \in Neighbours(r)}]
  /\ m_safeTime = [r \in Ranks |-> 0]
  /\ m_guaranteeTime = [b \in Bundles |-> 0]
  /\ m_stop = [r \in Ranks |-> FALSE]
  /\ pc = [r \in Ranks |-> "loop"]
  /\ busy = {}
  /\ channel = [b \in Bundles |->
                  <<Message(NullMessageMark, BundleDelay(b[1], b[2]))>>]
  /\ nSends = 0 /\ nScheds = 0

-----------------------------------------------------------------------------
(* Run.                                                                    *)

\* Mutant: events are run without regard to the safe time.
MayRunUnsafe(r) == /\ pc[r] = "loop" /\ ~m_stop[r]
                   /\ NextTime(m_events[r]) <= StopTime

\* The test in the loop of Run.
MayRun(r) == /\ pc[r] = "loop" /\ ~m_stop[r]
             /\ NextTime(m_events[r]) <= m_safeTime[r]

\* Mutant: a guarantee that forgets that packets may still arrive here.
GuaranteeOfNext(r, s, events) == NextTime(events) + BundleDelay(r, s)

\* CalculateGuaranteeTime: before this time nothing arrives from here.
Guarantee(r, s, events) ==
  Smaller(NextTime(events), m_safeTime[r]) + BundleDelay(r, s)

\* ProcessOneEvent, up to the handler; what each kind of handler begins with.
TakeNext(r, e) ==
  /\ MayRun(r) /\ e = First(m_events[r])
  /\ m_currentTs' = [m_currentTs EXCEPT ![r] = e.ts]

\* The handler of a packet, of an application or of TransmitComplete.
RunHandler(r) ==
  /\ \E e \in m_events[r] :
       /\ TakeNext(r, e) /\ e.what \in {"app", "complete"}
       /\ m_events' = [m_events EXCEPT ![r] = @ \ {e}]
       /\ busy' = busy \ {e.arg}
  /\ pc' = [pc EXCEPT ![r] = "handler"]
  /\ UNCHANGED <<m_uid, m_safeTime, m_guaranteeTime, m_stop, channel, nSends,
                 nScheds>>

\* NullMessageEventHandler: a null message, and the next event of its kind.
RunNullMessageEvent(r) ==
  /\ \E e \in m_events[r] :
       LET s == e.arg
           rest == m_events[r] \ {e}
       IN /\ TakeNext(r, e) /\ e.what = "null"
          /\ channel' = [channel EXCEPT ![<<r, s>>] =
               Append(@, Message(NullMessageMark, Guarantee(r, s, rest)))]
          /\ m_events' = [m_events EXCEPT ![r] = rest \cup
               {Event(e.ts + NullDelay(r, s), m_uid[r], "null", s)}]
  /\ m_uid' = [m_uid EXCEPT ![r] = @ + 1]
  /\ pc' = [pc EXCEPT ![r] = "receive"]
  /\ UNCHANGED <<m_safeTime, m_guaranteeTime, m_stop, busy, nSends, nScheds>>

\* Stop, and events that were cancelled, whose handler does nothing.
RunStopOrCancelled(r) ==
  /\ \E e \in m_events[r] :
       /\ TakeNext(r, e) /\ e.what \in {"stop", "cancelled"}
       /\ m_events' = [m_events EXCEPT ![r] = @ \ {e}]
       /\ m_stop' = [m_stop EXCEPT ![r] = e.what = "stop"]
  /\ pc' = [pc EXCEPT ![r] = "receive"]
  /\ UNCHANGED <<m_uid, m_safeTime, m_guaranteeTime, busy, channel, nSends,
                 nScheds>>

RunReturns(r) ==
  /\ pc[r] = "loop" /\ m_stop[r]
  /\ pc' = [pc EXCEPT ![r] = "done"]
  /\ UNCHANGED <<m_currentTs, m_uid, m_events, m_safeTime, m_guaranteeTime,
                 m_stop, busy, channel, nSends, nScheds>>

-----------------------------------------------------------------------------
(* Handlers.                                                               *)

\* Mutant: the event that is pending is not cancelled.
ScheduledToo(events, s, event) == events \cup {event}

\* RescheduleNullMessageEvent: the event of the bundle starts anew.
Rescheduled(events, s, event) ==
  {IF e.what = "null" /\ e.arg = s THEN [e EXCEPT !.what = "cancelled"] ELSE e
     : e \in events} \cup {event}

\* What PointToPointNetDevice lists before the packet goes to the channel: the
\* event of NetDeviceQueue::PacketDequeued, and TransmitComplete.
ListedBySend(r, l) ==
  LET now == m_currentTs[r]
  IN (IF FlowControl THEN {Event(now, m_uid[r], "app", r)} ELSE {})
       \cup {Event(now + TxTime[l], m_uid[r] + 1, "complete", l)}

\* SendPacket, for a packet that a handler gives to an idle device.
SendPacket(r, l) ==
  LET s == To[l]
      now == m_currentTs[r]
      events == m_events[r] \cup ListedBySend(r, l)
      null == Event(now + NullDelay(r, s), m_uid[r] + 2, "null", s)
  IN /\ pc[r] = "handler" /\ From[l] = r /\ l \notin busy
     /\ nSends < MaxSends
     /\ channel' = [channel EXCEPT ![<<r, s>>] =
          Append(@, Message(Arrival(l, now),
                            Guarantee(r, s, events)))]
     /\ m_events' = [m_events EXCEPT ![r] = Rescheduled(events, s, null)]
     /\ m_uid' = [m_uid EXCEPT ![r] = @ + 3]
     /\ busy' = busy \cup {l}
     /\ nSends' = nSends + 1
     /\ UNCHANGED <<m_currentTs, m_safeTime, m_guaranteeTime, m_stop, pc,
                    nScheds>>

Schedule(r, delay) ==
  /\ pc[r] = "handler" /\ nScheds < MaxScheds
  /\ m_events' = [m_events EXCEPT ![r] = @ \cup
                    {Event(m_currentTs[r] + delay, m_uid[r], "app", r)}]
  /\ m_uid' = [m_uid EXCEPT ![r] = @ + 1]
  /\ nScheds' = nScheds + 1
  /\ UNCHANGED <<m_currentTs, m_safeTime, m_guaranteeTime, m_stop, pc, busy,
                 channel, nSends>>

HandlerReturns(r) ==
  /\ pc[r] = "handler"
  /\ pc' = [pc EXCEPT ![r] = "receive"]
  /\ UNCHANGED <<m_currentTs, m_uid, m_events, m_safeTime, m_guaranteeTime,
                 m_stop, busy, channel, nSends, nScheds>>

-----------------------------------------------------------------------------
(* Messages.                                                               *)

\* ReceiveMessages, for one message of the neighbour s.
TakeMessage(r, s) ==
  /\ <<s, r>> \in Bundles /\ channel[<<s, r>>] # <<>>
  /\ LET m == Head(channel[<<s, r>>])
     IN /\ m_guaranteeTime' = [m_guaranteeTime EXCEPT ![<<s, r>>] = m.guarantee]
        /\ IF m.rx = NullMessageMark THEN UNCHANGED <<m_events, m_uid>>
           ELSE /\ m_events' = [m_events EXCEPT ![r] = @ \cup
                                  {Event(m.rx, m_uid[r], "app", r)}]
                /\ m_uid' = [m_uid EXCEPT ![r] = @ + 1]
  /\ channel' = [channel EXCEPT ![<<s, r>>] = Tail(@)]

\* CalculateSafeTime, from the guarantees as they are then.
SafeTime(r, guarantees) == Least({guarantees[<<s, r>>] : s \in Neighbours(r)})

\* HandleArrivingMessagesNonBlocking takes what has arrived ...
ReceiveNonBlocking(r, s) ==
  /\ pc[r] = "receive" /\ TakeMessage(r, s)
  /\ UNCHANGED <<m_currentTs, m_safeTime, m_stop, pc, busy, nSends, nScheds>>

\* ... until there is nothing more, as far as this rank can tell.
NothingArrived(r) ==
  /\ pc[r] = "receive"
  /\ m_safeTime' = [m_safeTime EXCEPT ![r] = SafeTime(r, m_guaranteeTime)]
  /\ pc' = [pc EXCEPT ![r] = "loop"]
  /\ UNCHANGED <<m_currentTs, m_uid, m_events, m_guaranteeTime, m_stop, busy,
                 channel, nSends, nScheds>>

\* HandleArrivingMessagesBlocking: the next event is not safe; wait for one
\* message.
ReceiveBlocking(r, s) ==
  /\ pc[r] = "loop" /\ ~m_stop[r] /\ ~MayRun(r) /\ TakeMessage(r, s)
  /\ m_safeTime' = [m_safeTime EXCEPT ![r] = SafeTime(r, m_guaranteeTime')]
  /\ UNCHANGED <<m_currentTs, m_stop, pc, busy, nSends, nScheds>>

-----------------------------------------------------------------------------
RunStep(r) ==
  \/ RunHandler(r) \/ RunNullMessageEvent(r) \/ RunStopOrCancelled(r)
  \/ HandlerReturns(r) \/ NothingArrived(r) \/ RunReturns(r)
  \/ \E s \in Ranks : ReceiveBlocking(r, s)

HandlerStep(r) == \/ \E l \in Links : SendPacket(r, l)
                  \/ \E delay \in Delays : Schedule(r, delay)

Next == \E r \in Ranks : \/ RunStep(r) \/ HandlerStep(r)
                         \/ \E s \in Ranks : ReceiveNonBlocking(r, s)

Spec == Init /\ [][Next]_vars

\* Every rank runs, its handlers return, and a message that is sent is received
\* by a rank that waits for it.
Fairness == \A r \in Ranks : WF_vars(RunStep(r))

FairSpec == Spec /\ Fairness

-----------------------------------------------------------------------------
Events == [ts : Nat, uid : Nat, what : {"app", "complete", "null", "stop",
           "cancelled"}, arg : Ranks \cup Links]

\* Every variable has its type, and every bundle has one null message event.
NullMessageEvents(r, s) == {e \in m_events[r] : e.what = "null" /\ e.arg = s}

TypeOK ==
  /\ m_currentTs \in [Ranks -> Nat] /\ m_uid \in [Ranks -> Nat]
  /\ m_events \in [Ranks -> SUBSET Events]
  /\ m_safeTime \in [Ranks -> Nat] /\ m_guaranteeTime \in [Bundles -> Nat]
  /\ m_stop \in [Ranks -> BOOLEAN]
  /\ pc \in [Ranks -> {"loop", "handler", "receive", "done"}]
  /\ busy \subseteq Links
  /\ channel \in [Bundles -> Seq([rx : Nat, guarantee : Nat])]
  /\ nSends \in 0 .. MaxSends /\ nScheds \in 0 .. MaxScheds
  /\ \A r \in Ranks : \A s \in Neighbours(r) :
       \E e \in m_events[r] : NullMessageEvents(r, s) = {e}

\* No packet comes too late: whatever is listed, and whatever is still on its
\* way, is due at a time to which the rank that is to run it has not come yet
\* (null-message-simulator-impl.cc:415-416), and no rank is beyond its safe time
\* (:351).
NeverInPast ==
  \A r \in Ranks :
    /\ m_currentTs[r] <= m_safeTime[r]
    /\ \A e \in m_events[r] : e.ts >= m_currentTs[r]
    /\ \A s \in Neighbours(r) : \A i \in 1 .. Len(channel[<<s, r>>]) :
         LET m == channel[<<s, r>>][i]
         IN m.rx # NullMessageMark => m.rx >= m_currentTs[r]

\* A guarantee is kept: no packet sent after it is due before it, and it is not
\* taken back by a later one.
GuaranteeKept ==
  \A b \in Bundles :
    LET messages == <<Message(NullMessageMark, m_guaranteeTime[b])>>
                      \o channel[b]
    IN \A i, j \in 1 .. Len(messages) :
         i < j => /\ messages[i].guarantee <= messages[j].guarantee
                  /\ messages[j].rx # NullMessageMark
                       => messages[i].guarantee <= messages[j].rx

\* No rank waits for ever: each comes to its own Stop, although its neighbours
\* send nothing more once they have come to theirs.
EveryRankStops == \A r \in Ranks : <>(pc[r] = "done")

=============================================================================
