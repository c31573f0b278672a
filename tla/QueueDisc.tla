----------------------------- MODULE QueueDisc -----------------------------
(***************************************************************************)
(* Traffic control above a network device: class QueueDisc of              *)
(* src/traffic-control/model/queue-disc.cc with a FIFO queue disc, the     *)
(* TrafficControlLayer that feeds it, and the NetDeviceQueue objects with  *)
(* which the device stops it and wakes it up (src/network/utils).          *)
(*                                                                         *)
(* The device is the environment: it takes packets out of its transmission *)
(* queues whenever it likes, also at once when it is handed one.  Several  *)
(* transmission queues are those of a Wi-Fi device.  PointToPoint adds the   *)
(* device of a link, which has one.                                        *)
(*                                                                         *)
(* Run is a step for each packet; nothing else happens while it lasts.     *)
(* Abstracted: statistics and marking; priorities, filters, the choice of  *)
(* other disciplines and Peek, which FIFO does not use; and how            *)
(* DynamicQueueLimits adapts its limit, which may become any of Limits.    *)
(***************************************************************************)
EXTENDS Integers, FiniteSets, SequencesExt

CONSTANTS NTxQueues,   \* how many transmission queues a device may have
          Sizes,       \* the sizes of packets, as the device queues them
          MaxPackets,  \* bound of the model: how many packets are sent
          DiscSize,    \* MaxSize of a queue disc, in packets
          QueueSizes,  \* MaxSize of a device queue: unit and value
          Mtu,         \* GetMtu of the device
          Quota,       \* m_quota
          Limits       \* the limits DynamicQueueLimits may come to

\* A device queue that has no room for one packet would stay stopped for ever.
ASSUME QueueAssumption ==
  /\ NTxQueues \subseteq Nat \ {0} /\ Sizes \subseteq Nat \ {0}
  /\ MaxPackets \in Nat /\ DiscSize \in Nat /\ Mtu \in Nat
  /\ QueueSizes \subseteq [unit : {"packets", "bytes"}, value : Nat]
  /\ \A s \in QueueSizes : s.value >= IF s.unit = "bytes" THEN Mtu ELSE 1
  /\ Quota \in Nat \ {0} /\ Limits \subseteq Nat

VARIABLES
  nTxQueues,     \* GetNTxQueues of the device
  m_maxSize,     \* MaxSize of its queues
  hasLimits,     \* m_queueLimits is set
  wakeMode,      \* GetWakeMode of the root queue disc
  discQueue,     \* the packets in each queue disc
  m_requeued,    \* the requeued packet of each queue disc, if any
  txQueue,       \* each transmission queue with its NetDeviceQueue
  wakeEvents,    \* the events scheduled by PacketDequeued, in order
  pc,            \* "event" between events, or what the event does next
  disc,          \* the queue disc that runs, or 0
  quota,         \* how many packets it may still send
  after,         \* where Run returns to
  nSent,         \* history: how many packets were sent
  outOfQuota,    \* history: the discs whose last Run used up its quota
  discarded      \* history: the packets a device queue had no room for

configVars == <<nTxQueues, m_maxSize, hasLimits, wakeMode>>
runVars    == <<disc, quota, after>>
queueVars  == <<configVars, discQueue, m_requeued, txQueue, wakeEvents, pc,
                runVars, nSent, outOfQuota, discarded>>

-----------------------------------------------------------------------------
(* The queues.                                                             *)

TxQueues == 1 .. nTxQueues
Items == [id : 1 .. MaxPackets, txq : TxQueues, size : Sizes]

\* m_queueDiscsToWake: with WAKE_ROOT there is one queue disc for all queues.
DiscOf(q) == IF wakeMode = "root" THEN 1 ELSE q

\* WouldOverflow(1, nBytes), and the test of DoEnqueue.
WouldOverflow(t, nBytes) ==
  IF m_maxSize.unit = "packets" THEN Len(t.packets) + 1 > m_maxSize.value
                                ELSE t.m_nBytes + nBytes > m_maxSize.value

IsStopped(t) == t.stoppedByDevice \/ t.stoppedByQueueLimits
Stopped(q) == IsStopped(txQueue[q])

\* NotifyQueuedBytes, with Queued.
NotifyQueuedBytes(t, nBytes) ==
  IF ~hasLimits THEN t
  ELSE [t EXCEPT !.uncompleted = @ + nBytes,
                 !.available = @ - nBytes,
                 !.stoppedByQueueLimits = @ \/ t.available < nBytes]

\* Mutant: the bytes completed do not leave the count.
NeverCompleted(t, nBytes, limit) ==
  IF ~hasLimits THEN t
  ELSE [t EXCEPT !.available = limit - (t.uncompleted - nBytes),
                 !.stoppedByQueueLimits = @ /\ limit < t.uncompleted - nBytes]

\* Completed, which adapts the limit, and the new m_stoppedByQueueLimits.
Completed(t, nBytes, limit) ==
  IF ~hasLimits THEN t
  ELSE LET inprogress == t.uncompleted - nBytes
       IN [t EXCEPT !.uncompleted = inprogress,
                    !.available = limit - inprogress,
                    !.stoppedByQueueLimits = @ /\ limit < inprogress]

\* What DoEnqueue and DoDequeue do to the queue itself.
Appended(t, item) ==
  [t EXCEPT !.packets = Append(@, item), !.m_nBytes = @ + item.size]

Dequeued(t) ==
  [t EXCEPT !.packets = Tail(@), !.m_nBytes = @ - Head(t.packets).size]

\* Mutant: the queue is stopped only when a packet finds no room.
EnqueueWithoutStop(t, item) ==
  IF WouldOverflow(t, item.size)
  THEN [t EXCEPT !.stoppedByDevice = TRUE]
  ELSE NotifyQueuedBytes(Appended(t, item), item.size)

\* Enqueue of the device queue, with PacketEnqueued or PacketDiscarded.
Enqueue(t, item) ==
  IF WouldOverflow(t, item.size)
  THEN [t EXCEPT !.stoppedByDevice = TRUE]
  ELSE [NotifyQueuedBytes(Appended(t, item), item.size) EXCEPT
          !.stoppedByDevice = @ \/ WouldOverflow(Appended(t, item), Mtu)]

\* The event that PacketDequeued schedules.
WakeEvent(q, item) == [txq |-> q, size |-> item.size]

QueueInit ==
  /\ nTxQueues \in NTxQueues /\ m_maxSize \in QueueSizes
  /\ hasLimits \in BOOLEAN
  /\ wakeMode \in IF nTxQueues = 1 THEN {"root"} ELSE {"root", "child"}
  /\ discQueue = [d \in TxQueues |-> <<>>]
  /\ m_requeued = [d \in TxQueues |-> {}]
  /\ txQueue = [q \in TxQueues |->
                  [packets |-> <<>>, m_nBytes |-> 0, stoppedByDevice |-> FALSE,
                   stoppedByQueueLimits |-> FALSE,
                   uncompleted |-> 0, available |-> 0]]
  /\ wakeEvents = <<>>
  /\ pc = "event" /\ disc = 0 /\ quota = 0 /\ after = "event"
  /\ nSent = 0 /\ outOfQuota = {} /\ discarded = {}

-----------------------------------------------------------------------------
(* Run of a queue disc.                                                    *)

RunBegin(d, return) ==
  pc' = "run" /\ disc' = d /\ quota' = Quota /\ after' = return

RunEnd == pc' = after /\ disc' = 0 /\ quota' = 0 /\ after' = "event"

\* TrafficControlLayer::Send: enqueue, or drop for want of room, and run.
Send(q, size) ==
  /\ pc = "event" /\ nSent < MaxPackets
  /\ nSent' = nSent + 1
  /\ LET d == DiscOf(q)
         item == [id |-> nSent + 1, txq |-> q, size |-> size]
     IN /\ discQueue' = IF Len(discQueue[d]) + 1 > DiscSize THEN discQueue
                        ELSE [discQueue EXCEPT ![d] = Append(@, item)]
        /\ RunBegin(d, "event")
  /\ UNCHANGED <<configVars, m_requeued, txQueue, wakeEvents, outOfQuota,
                 discarded>>

\* The packet DequeuePacket returns, if any: the requeued one, unless its queue
\* is stopped, or the first of the disc, unless the only queue is stopped.
Dequeuable ==
  IF m_requeued[disc] # {}
  THEN {item \in m_requeued[disc] : ~Stopped(item.txq)}
  ELSE {discQueue[disc][i] : i \in
          {j \in DOMAIN discQueue[disc] :
             j = 1 /\ (nTxQueues > 1 \/ ~Stopped(1))}}

\* Mutant: a requeued packet goes to the end of the queue disc.
RequeueAtEnd(item) ==
  /\ discQueue' = [discQueue EXCEPT ![disc] = Append(Tail(@), item)]
  /\ UNCHANGED m_requeued

\* DequeuePacket followed by Requeue.
RequeueItem(item) ==
  /\ discQueue' = [discQueue EXCEPT ![disc] = Tail(@)]
  /\ m_requeued' = [m_requeued EXCEPT ![disc] = {item}]

DequeuePacket ==
  IF m_requeued[disc] # {}
  THEN m_requeued' = [m_requeued EXCEPT ![disc] = {}] /\ UNCHANGED discQueue
  ELSE discQueue' = [discQueue EXCEPT ![disc] = Tail(@)] /\ UNCHANGED m_requeued

\* Restart finds no packet it may dequeue.
NoPacketToSend ==
  /\ pc = "run" /\ Dequeuable = {}
  /\ RunEnd /\ outOfQuota' = outOfQuota \ {disc}
  /\ UNCHANGED <<configVars, discQueue, m_requeued, txQueue, wakeEvents, nSent,
                 discarded>>

\* Transmit finds the queue stopped.
Requeue ==
  /\ pc = "run"
  /\ \E item \in Dequeuable : Stopped(item.txq) /\ RequeueItem(item)
  /\ RunEnd /\ outOfQuota' = outOfQuota \ {disc}
  /\ UNCHANGED <<configVars, txQueue, wakeEvents, nSent, discarded>>

\* What Run does after the device was handed a packet for queue q: Transmit
\* returns false if the disc is empty or the queue is stopped now.
RunGoesOn(q) ==
  LET done == discQueue'[disc] = <<>> \/ IsStopped(txQueue'[q])
  IN IF done \/ quota = 1
     THEN /\ RunEnd
          /\ outOfQuota' = IF done THEN outOfQuota \ {disc}
                           ELSE outOfQuota \cup {disc}
     ELSE quota' = quota - 1 /\ UNCHANGED <<pc, disc, after, outOfQuota>>

\* Transmit hands the packet to the device, which enqueues it and, if it is
\* ready to take one, dequeues the first of its queue.
Transmit(item, takes) ==
  /\ pc = "run" /\ item \in Dequeuable /\ ~Stopped(item.txq)
  /\ DequeuePacket
  /\ LET q == item.txq
         t == Enqueue(txQueue[q], item)
         overflow == WouldOverflow(txQueue[q], item.size)
     IN /\ IF takes /\ ~overflow
           THEN /\ txQueue' = [txQueue EXCEPT ![q] = Dequeued(t)]
                /\ wakeEvents' = Append(wakeEvents,
                                        WakeEvent(q, Head(t.packets)))
           ELSE txQueue' = [txQueue EXCEPT ![q] = t] /\ UNCHANGED wakeEvents
        /\ discarded' = IF overflow THEN discarded \cup {item} ELSE discarded
        /\ RunGoesOn(q)
  /\ UNCHANGED <<configVars, nSent>>

-----------------------------------------------------------------------------
(* The device, and the events that follow when it dequeues a packet.       *)

\* The device takes a packet to transmit it, or drops it.
Dequeue(q) ==
  /\ pc = "event" /\ txQueue[q].packets # <<>>
  /\ txQueue' = [txQueue EXCEPT ![q] = Dequeued(@)]
  /\ wakeEvents' = Append(wakeEvents, WakeEvent(q, Head(txQueue[q].packets)))
  /\ UNCHANGED <<configVars, discQueue, m_requeued, pc, runVars, nSent,
                 outOfQuota, discarded>>

\* The first half of the event of PacketDequeued: the queue disc runs if the
\* limits had stopped the queue and do so no more.
NotifyTransmittedBytes ==
  /\ pc = "event" /\ wakeEvents # <<>>
  /\ \E limit \in Limits :
       LET w == Head(wakeEvents)
           t == Completed(txQueue[w.txq], w.size, limit)
       IN /\ txQueue' = [txQueue EXCEPT ![w.txq] = t]
          /\ IF txQueue[w.txq].stoppedByQueueLimits /\ ~t.stoppedByQueueLimits
             THEN RunBegin(DiscOf(w.txq), "wake")
             ELSE pc' = "wake" /\ UNCHANGED runVars
  /\ UNCHANGED <<configVars, discQueue, m_requeued, wakeEvents, nSent,
                 outOfQuota, discarded>>

\* Mutant: the queue is started, and the queue disc is not run.
StartsSilently ==
  /\ pc = "wake" /\ pc' = "event"
  /\ LET q == Head(wakeEvents).txq
     IN txQueue' = [txQueue EXCEPT ![q].stoppedByDevice =
                      @ /\ WouldOverflow(txQueue[q], Mtu)]
  /\ wakeEvents' = Tail(wakeEvents)
  /\ UNCHANGED <<configVars, discQueue, m_requeued, runVars, nSent, outOfQuota,
                 discarded>>

\* The second half: if there is room for another packet, Wake, which runs the
\* queue disc if the device had stopped the queue.
Wake ==
  /\ pc = "wake"
  /\ LET q == Head(wakeEvents).txq IN
     IF ~txQueue[q].stoppedByDevice \/ WouldOverflow(txQueue[q], Mtu)
     THEN pc' = "event" /\ UNCHANGED <<txQueue, runVars>>
     ELSE /\ txQueue' = [txQueue EXCEPT ![q].stoppedByDevice = FALSE]
          /\ RunBegin(DiscOf(q), "event")
  /\ wakeEvents' = Tail(wakeEvents)
  /\ UNCHANGED <<configVars, discQueue, m_requeued, nSent, outOfQuota,
                 discarded>>

-----------------------------------------------------------------------------
\* What follows of itself once an event has begun or is scheduled.
RunStep == NoPacketToSend \/ Requeue
WakeStep == NotifyTransmittedBytes \/ Wake

QueueNext == \/ \E q \in TxQueues, size \in Sizes : Send(q, size)
             \/ \E item \in Items, takes \in BOOLEAN : Transmit(item, takes)
             \/ \E q \in TxQueues : Dequeue(q)
             \/ RunStep \/ WakeStep

QueueSpec == QueueInit /\ [][QueueNext]_queueVars

-----------------------------------------------------------------------------
TxQueue == [packets : Seq(Items), m_nBytes : Int, stoppedByDevice : BOOLEAN,
            stoppedByQueueLimits : BOOLEAN, uncompleted : Int, available : Int]

\* Every variable has its type; a Run has its queue disc, and some quota left.
QueueTypeOK ==
  /\ nTxQueues \in NTxQueues /\ m_maxSize \in QueueSizes
  /\ hasLimits \in BOOLEAN /\ wakeMode \in {"root", "child"}
  /\ discQueue \in [TxQueues -> Seq(Items)]
  /\ m_requeued \in [TxQueues -> SUBSET Items]
  /\ txQueue \in [TxQueues -> TxQueue]
  /\ wakeEvents \in Seq([txq : TxQueues, size : Sizes])
  /\ pc \in {"event", "run", "wake"} /\ disc \in 0 .. nTxQueues
  /\ (pc = "run" => disc # 0 /\ quota # 0)
  /\ quota \in 0 .. Quota /\ after \in {"event", "wake"}
  /\ nSent \in 0 .. MaxPackets /\ outOfQuota \subseteq TxQueues
  /\ discarded \subseteq Items

\* The device is never handed a packet it has no room for, because it stops its
\* queue in time (net-device-queue-interface.h:378-380): a queue counted in
\* packets never discards one, and one counted in bytes only packets larger than
\* the MTU for which it keeps room.
NeverDiscards ==
  \A item \in discarded : m_maxSize.unit = "bytes" /\ item.size > Mtu

\* A packet larger than the whole queue, which finds no room in an empty one
\* either and shuts it for good: no packet leaves it any more that could wake it.
TooLarge(item) == m_maxSize.unit = "bytes" /\ item.size > m_maxSize.value

ShutBy(q) == \E item \in discarded : item.txq = q /\ TooLarge(item)

\* The wake-up of a queue is scheduled, or will be as its next packet leaves.
WakeUpComes(q) ==
  \/ txQueue[q].packets # <<>>
  \/ \E i \in DOMAIN wakeEvents : wakeEvents[i].txq = q

\* What netif_schedule would be for (queue-disc.cc:946): the last Run of a queue
\* disc used up its quota, and no queue below it is stopped whose wake-up would
\* run it; only the next packet that is sent does.
LeftBehind(d) ==
  /\ pc = "event" /\ d \in outOfQuota
  /\ \A q \in TxQueues : DiscOf(q) = d => ~Stopped(q)

\* No packet is stranded: between events, a queue disc that holds packets has a
\* stopped transmission queue, whose wake-up, which runs it, is still to come;
\* or a Run left it behind with every queue open, or the stopped queue was shut
\* by a packet larger than itself.
NoneStranded ==
  pc = "event" =>
    \A d \in TxQueues :
      discQueue[d] # <<>> \/ m_requeued[d] # {}
        => \/ LeftBehind(d)
           \/ \E q \in TxQueues : /\ DiscOf(q) = d /\ Stopped(q)
                                  /\ WakeUpComes(q) \/ ShutBy(q)

\* The packets in front of what is sent next to a transmission queue, first
\* things first: those in it, the requeued one, and those in the queue disc.
Line(q) ==
  LET d == DiscOf(q)
  IN txQueue[q].packets \o SetToSeq(m_requeued[d]) \o discQueue[d]

Ascending(packets) ==
  \A i, j \in 1 .. Len(packets) : i < j => packets[i].id < packets[j].id

=============================================================================
