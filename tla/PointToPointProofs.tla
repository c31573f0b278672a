------------------------- MODULE PointToPointProofs -------------------------
(***************************************************************************)
(* What holds of QueueDisc and of PointToPoint for any number of           *)
(* transmission queues and packets, of any sizes.  First what holds of     *)
(* every device: the types and limits, that it stops its queues in time,   *)
(* and that what stops them ends, so that no packet is stranded; then of   *)
(* the link: it implements QueueDisc, from which it has all that, and it   *)
(* never sleeps over a packet of its own queue.                            *)
(***************************************************************************)
EXTENDS PointToPoint, FiniteSetTheorems, TLAPS

LEMMA ConstantsTyped ==
  /\ NTxQueues \subseteq Nat \ {0} /\ Sizes \subseteq Nat \ {0}
  /\ MaxPackets \in Nat /\ DiscSize \in Nat /\ Mtu \in Nat
  /\ QueueSizes \subseteq [unit : {"packets", "bytes"}, value : Nat]
  /\ Quota \in Nat \ {0} /\ Limits \subseteq Nat
BY QueueAssumption

LEMMA ItemTyped ==
  ASSUME NEW item \in Items
  PROVE  item.txq \in TxQueues /\ item.size \in Sizes /\ item.size \in Nat
BY ConstantsTyped DEF Items

-----------------------------------------------------------------------------
(* Types.                                                                  *)

LEMMA PacketsSet ==
  ASSUME NEW t \in TxQueue, NEW p \in Seq(Items), NEW n \in Int,
         NEW u, u = [t EXCEPT !.packets = p, !.m_nBytes = n]
  PROVE  u \in TxQueue
BY DEF TxQueue

LEMMA StoppedSet ==
  ASSUME NEW t \in TxQueue, NEW stopped \in BOOLEAN,
         NEW u, u = [t EXCEPT !.stoppedByDevice = stopped]
  PROVE  /\ u \in TxQueue /\ u.packets = t.packets
         /\ u.m_nBytes = t.m_nBytes /\ u.stoppedByDevice = stopped
         /\ u.stoppedByQueueLimits = t.stoppedByQueueLimits
BY DEF TxQueue

\* What is done to a device queue leaves a device queue.
LEMMA AppendedType ==
  ASSUME NEW t \in TxQueue, NEW item \in Items
  PROVE  /\ Appended(t, item) \in TxQueue
         /\ Appended(t, item).packets = Append(t.packets, item)
         /\ Appended(t, item).m_nBytes = t.m_nBytes + item.size
         /\ Appended(t, item).stoppedByDevice = t.stoppedByDevice
         /\ Appended(t, item).stoppedByQueueLimits = t.stoppedByQueueLimits
<1>1. Append(t.packets, item) \in Seq(Items) /\ t.m_nBytes + item.size \in Int
  BY ItemTyped DEF TxQueue
<1>2. Appended(t, item) \in TxQueue
  BY <1>1, PacketsSet, Zenon DEF Appended
<1> QED
  BY <1>2 DEF Appended, TxQueue

LEMMA DequeuedType ==
  ASSUME NEW t \in TxQueue, t.packets # <<>>
  PROVE  /\ Dequeued(t) \in TxQueue
         /\ Dequeued(t).packets = Tail(t.packets)
         /\ Dequeued(t).m_nBytes = t.m_nBytes - Head(t.packets).size
         /\ Dequeued(t).stoppedByDevice = t.stoppedByDevice
         /\ Dequeued(t).stoppedByQueueLimits = t.stoppedByQueueLimits
         /\ Head(t.packets) \in Items
<1>1. Tail(t.packets) \in Seq(Items) /\ Head(t.packets) \in Items
  BY DEF TxQueue
<1>2. t.m_nBytes - Head(t.packets).size \in Int
  BY <1>1, ItemTyped DEF TxQueue
<1>3. Dequeued(t) \in TxQueue
  BY <1>1, <1>2, PacketsSet, Zenon DEF Dequeued
<1> QED
  BY <1>1, <1>3 DEF Dequeued, TxQueue

LEMMA QueuedType ==
  ASSUME NEW t \in TxQueue, NEW n \in Nat
  PROVE  /\ NotifyQueuedBytes(t, n) \in TxQueue
         /\ NotifyQueuedBytes(t, n).packets = t.packets
         /\ NotifyQueuedBytes(t, n).m_nBytes = t.m_nBytes
         /\ NotifyQueuedBytes(t, n).stoppedByDevice = t.stoppedByDevice
         /\ t.stoppedByQueueLimits
              => NotifyQueuedBytes(t, n).stoppedByQueueLimits
<1>1. /\ t.uncompleted + n \in Int /\ t.available - n \in Int
      /\ (t.stoppedByQueueLimits \/ t.available < n) \in BOOLEAN
  BY DEF TxQueue
<1> QED
  BY <1>1 DEF NotifyQueuedBytes, TxQueue

LEMMA CompletedType ==
  ASSUME NEW t \in TxQueue, NEW n \in Nat, NEW limit \in Nat
  PROVE  /\ Completed(t, n, limit) \in TxQueue
         /\ Completed(t, n, limit).packets = t.packets
         /\ Completed(t, n, limit).m_nBytes = t.m_nBytes
         /\ Completed(t, n, limit).stoppedByDevice = t.stoppedByDevice
<1>1. /\ t.uncompleted - n \in Int /\ limit - (t.uncompleted - n) \in Int
      /\ (t.stoppedByQueueLimits /\ limit < t.uncompleted - n) \in BOOLEAN
  BY DEF TxQueue
<1> QED
  BY <1>1 DEF Completed, TxQueue

\* A packet is either discarded, or enqueued and perhaps the last one for which
\* there is room; stops only begin.
LEMMA EnqueueType ==
  ASSUME NEW t \in TxQueue, NEW item \in Items,
         m_maxSize \in [unit : {"packets", "bytes"}, value : Nat]
  PROVE  /\ Enqueue(t, item) \in TxQueue
         /\ IsStopped(t) => IsStopped(Enqueue(t, item))
         /\ WouldOverflow(t, item.size)
              => /\ Enqueue(t, item).stoppedByDevice
                 /\ Enqueue(t, item).packets = t.packets
         /\ ~WouldOverflow(t, item.size)
              => /\ Enqueue(t, item).packets = Append(t.packets, item)
                 /\ Enqueue(t, item).m_nBytes = t.m_nBytes + item.size
                 /\ Enqueue(t, item).stoppedByDevice
                      \/ ~WouldOverflow(Enqueue(t, item), Mtu)
<1>1. item.size \in Nat
  BY ItemTyped
<1>2. CASE WouldOverflow(t, item.size)
  <2>1. Enqueue(t, item) = [t EXCEPT !.stoppedByDevice = TRUE]
    BY <1>2 DEF Enqueue
  <2> QED
    BY <1>2, <2>1, StoppedSet DEF IsStopped
<1>3. CASE ~WouldOverflow(t, item.size)
  <2> DEFINE a == Appended(t, item)
             n == NotifyQueuedBytes(a, item.size)
  <2>1. a \in TxQueue /\ n \in TxQueue
    BY <1>1, AppendedType, QueuedType
  <2>2. Enqueue(t, item) = [n EXCEPT !.stoppedByDevice =
                              n.stoppedByDevice \/ WouldOverflow(a, Mtu)]
    BY <1>3 DEF Enqueue
  <2>4. (n.stoppedByDevice \/ WouldOverflow(a, Mtu)) \in BOOLEAN
    OBVIOUS
  <2>5. /\ Enqueue(t, item) \in TxQueue
        /\ Enqueue(t, item).stoppedByDevice
             = (n.stoppedByDevice \/ WouldOverflow(a, Mtu))
        /\ Enqueue(t, item).packets = n.packets
        /\ Enqueue(t, item).m_nBytes = n.m_nBytes
        /\ Enqueue(t, item).stoppedByQueueLimits = n.stoppedByQueueLimits
    <3> HIDE DEF a, n
    <3>1. PICK stopped \in BOOLEAN :
            stopped = (n.stoppedByDevice \/ WouldOverflow(a, Mtu))
      BY <2>4
    <3>2. PICK u : u = Enqueue(t, item)
      OBVIOUS
    <3>3. u = [n EXCEPT !.stoppedByDevice = stopped]
      BY <2>2, <3>1, <3>2
    <3>4. /\ u \in TxQueue /\ u.packets = n.packets
          /\ u.m_nBytes = n.m_nBytes /\ u.stoppedByDevice = stopped
          /\ u.stoppedByQueueLimits = n.stoppedByQueueLimits
      BY <2>1, <3>3, StoppedSet
    <3> QED
      BY <3>1, <3>2, <3>4
  <2>6. /\ n.packets = Append(t.packets, item)
        /\ n.m_nBytes = t.m_nBytes + item.size
        /\ n.stoppedByDevice = t.stoppedByDevice
        /\ a.packets = n.packets /\ a.m_nBytes = n.m_nBytes
        /\ t.stoppedByQueueLimits => n.stoppedByQueueLimits
    <3>1. /\ a.packets = Append(t.packets, item)
          /\ a.m_nBytes = t.m_nBytes + item.size
          /\ a.stoppedByDevice = t.stoppedByDevice
          /\ a.stoppedByQueueLimits = t.stoppedByQueueLimits
      BY AppendedType
    <3> HIDE DEF a
    <3> QED
      BY <1>1, <2>1, <3>1, QueuedType
  <2>7. WouldOverflow(a, Mtu) = WouldOverflow(Enqueue(t, item), Mtu)
    BY <2>5, <2>6 DEF WouldOverflow
  <2> HIDE DEF a, n
  <2> QED
    BY <1>3, <2>5, <2>6, <2>7 DEF IsStopped
<1> QED
  BY <1>2, <1>3

\* What the types come to, part by part.
QueuesTyped ==
  /\ discQueue \in [TxQueues -> Seq(Items)]
  /\ m_requeued \in [TxQueues -> SUBSET Items]
  /\ txQueue \in [TxQueues -> TxQueue]
  /\ wakeEvents \in Seq([txq : TxQueues, size : Sizes])
RunTyped ==
  /\ pc \in {"event", "run", "wake"} /\ disc \in 0 .. nTxQueues
  /\ (pc = "run" => disc # 0 /\ quota # 0)
  /\ quota \in 0 .. Quota /\ after \in {"event", "wake"}
HistoryTyped ==
  /\ nSent \in 0 .. MaxPackets /\ outOfQuota \subseteq TxQueues
  /\ discarded \subseteq Items

LEMMA TypeParts ==
  ASSUME QueueTypeOK
  PROVE  /\ QueuesTyped /\ RunTyped /\ HistoryTyped
         /\ nTxQueues \in Nat \ {0} /\ TxQueues = 1 .. nTxQueues
         /\ m_maxSize \in QueueSizes
         /\ m_maxSize \in [unit : {"packets", "bytes"}, value : Nat]
BY ConstantsTyped
   DEF QueueTypeOK, QueuesTyped, RunTyped, HistoryTyped, TxQueues

LEMMA TypeNext ==
  ASSUME QueueTypeOK, UNCHANGED configVars,
         QueuesTyped', RunTyped', HistoryTyped'
  PROVE  QueueTypeOK'
BY DEF QueueTypeOK, QueuesTyped, RunTyped, HistoryTyped, configVars

\* The sets behind the types do not change.
LEMMA SetsKept ==
  ASSUME UNCHANGED configVars
  PROVE  /\ TxQueues' = TxQueues /\ Items' = Items /\ TxQueue' = TxQueue
         /\ \A q : DiscOf(q)' = DiscOf(q)
         /\ \A t, n : WouldOverflow(t, n)' = WouldOverflow(t, n)
BY DEF configVars, TxQueues, Items, TxQueue, DiscOf, WouldOverflow

LEMMA RunBeginTyped ==
  ASSUME nTxQueues \in Nat \ {0}, nTxQueues' = nTxQueues,
         NEW d \in TxQueues, NEW return \in {"event", "wake"},
         RunBegin(d, return)
  PROVE  RunTyped'
BY ConstantsTyped DEF RunBegin, RunTyped, TxQueues

LEMMA RunEndTyped ==
  ASSUME RunTyped, nTxQueues \in Nat \ {0}, nTxQueues' = nTxQueues, RunEnd
  PROVE  RunTyped'
BY ConstantsTyped DEF RunEnd, RunTyped

LEMMA DiscOfTyped ==
  ASSUME nTxQueues \in Nat \ {0}, NEW q \in TxQueues
  PROVE  DiscOf(q) \in TxQueues
BY DEF DiscOf, TxQueues

\* The packets that Run may go on with come from its queue disc.
LEMMA DequeuableTyped ==
  ASSUME QueueTypeOK, disc \in TxQueues, NEW item \in Dequeuable
  PROVE  /\ item \in Items
         /\ \/ m_requeued[disc] # {} /\ item \in m_requeued[disc]
            \/ /\ m_requeued[disc] = {} /\ discQueue[disc] # <<>>
               /\ item = Head(discQueue[disc])
               /\ Tail(discQueue[disc]) \in Seq(Items)
<1>1. /\ m_requeued[disc] \subseteq Items
      /\ discQueue[disc] \in Seq(Items)
  BY TypeParts DEF QueuesTyped
<1> QED
  BY <1>1 DEF Dequeuable

\* Only a packet of the disc is found to be for a stopped queue.
LEMMA RequeuedTyped ==
  ASSUME QueueTypeOK, disc \in TxQueues, NEW item \in Dequeuable,
         Stopped(item.txq)
  PROVE  /\ item \in Items /\ m_requeued[disc] = {}
         /\ discQueue[disc] # <<>> /\ item = Head(discQueue[disc])
         /\ Tail(discQueue[disc]) \in Seq(Items)
BY DequeuableTyped DEF Dequeuable

LEMMA DequeuePacketTyped ==
  ASSUME QueueTypeOK, disc \in TxQueues, NEW item \in Dequeuable,
         DequeuePacket
  PROVE  /\ discQueue' \in [TxQueues -> Seq(Items)]
         /\ m_requeued' \in [TxQueues -> SUBSET Items]
<1>1. CASE m_requeued[disc] # {}
  BY <1>1, TypeParts DEF DequeuePacket, QueuesTyped
<1>2. CASE m_requeued[disc] = {}
  <2>1. Tail(discQueue[disc]) \in Seq(Items)
    BY <1>2, DequeuableTyped
  <2> QED
    BY <1>2, <2>1, TypeParts DEF DequeuePacket, QueuesTyped
<1> QED
  BY <1>1, <1>2

LEMMA RunGoesOnTyped ==
  ASSUME QueueTypeOK, pc = "run", nTxQueues' = nTxQueues,
         NEW q, RunGoesOn(q)
  PROVE  RunTyped' /\ outOfQuota' \subseteq TxQueues
<1>1. RunTyped /\ nTxQueues \in Nat \ {0} /\ disc \in TxQueues
      /\ outOfQuota \subseteq TxQueues
  BY TypeParts DEF RunTyped, TxQueues, HistoryTyped
<1>2. CASE RunEnd /\ outOfQuota' \in {outOfQuota \ {disc},
                                      outOfQuota \cup {disc}}
  BY <1>1, <1>2, RunEndTyped
<1>3. CASE quota # 1 /\ quota' = quota - 1
           /\ UNCHANGED <<pc, disc, after, outOfQuota>>
  BY <1>1, <1>3, ConstantsTyped DEF RunTyped
<1> QED
  BY <1>2, <1>3 DEF RunGoesOn

\* A wake-up that has begun is the first of those to come.
WakePending == pc = "wake" \/ after = "wake" => wakeEvents # <<>>
OnlyInRun == pc # "run" => disc = 0 /\ after = "event"

LEMMA InitTyped == QueueInit => QueueTypeOK
<1> SUFFICES ASSUME QueueInit PROVE QueueTypeOK
  OBVIOUS
<1>1. nTxQueues \in Nat \ {0}
  BY ConstantsTyped DEF QueueInit
<1>2. QueuesTyped
  BY DEF QueueInit, QueuesTyped, TxQueue
<1>3. RunTyped /\ HistoryTyped
  BY <1>1, ConstantsTyped DEF QueueInit, RunTyped, HistoryTyped
<1> QED
  BY <1>2, <1>3 DEF QueueInit, QueueTypeOK, QueuesTyped, RunTyped,
                    HistoryTyped

LEMMA HeadTail ==
  ASSUME NEW S, NEW s \in Seq(S), s # <<>>
  PROVE  /\ Head(s) \in S /\ Tail(s) \in Seq(S)
         /\ Len(s) \in Nat /\ Len(Tail(s)) = Len(s) - 1
OBVIOUS

LEMMA ExceptAt ==
  ASSUME NEW S, NEW T, NEW f \in [S -> T], NEW a, NEW b, NEW q \in S,
         NEW g, g = [f EXCEPT ![a] = b]
  PROVE  g[q] = f[q] \/ (q = a /\ g[q] = b)
OBVIOUS

\* The first wake-up.
LEMMA WakeTyped ==
  ASSUME QueueTypeOK, wakeEvents # <<>>
  PROVE  LET w == Head(wakeEvents)
         IN /\ w.txq \in TxQueues /\ w.size \in Nat
            /\ DiscOf(w.txq) \in TxQueues
            /\ Tail(wakeEvents) \in Seq([txq : TxQueues, size : Sizes])
<1>1. wakeEvents \in Seq([txq : TxQueues, size : Sizes])
  BY TypeParts DEF QueuesTyped
<1>2. /\ Head(wakeEvents) \in [txq : TxQueues, size : Sizes]
      /\ Tail(wakeEvents) \in Seq([txq : TxQueues, size : Sizes])
  BY <1>1, HeadTail, Zenon
<1>3. /\ Head(wakeEvents).txq \in TxQueues
      /\ Head(wakeEvents).size \in Sizes
  BY <1>2
<1> QED
  BY <1>2, <1>3, ConstantsTyped, DiscOfTyped, TypeParts

LEMMA WakeEventTyped ==
  ASSUME NEW q \in TxQueues, NEW item \in Items
  PROVE  WakeEvent(q, item) \in [txq : TxQueues, size : Sizes]
BY ItemTyped DEF WakeEvent

\* What Transmit does to the queue that gets the packet.
LEMMA TransmitTyped ==
  ASSUME QueueTypeOK, NEW item, NEW takes \in BOOLEAN, Transmit(item, takes)
  PROVE  /\ disc \in TxQueues /\ item \in Items /\ item.txq \in TxQueues
         /\ \/ /\ takes /\ ~WouldOverflow(txQueue[item.txq], item.size)
               /\ txQueue' = [txQueue EXCEPT ![item.txq] =
                                Dequeued(Enqueue(txQueue[item.txq], item))]
               /\ Enqueue(txQueue[item.txq], item).packets # <<>>
            \/ txQueue' = [txQueue EXCEPT ![item.txq] =
                             Enqueue(txQueue[item.txq], item)]
         /\ txQueue' \in [TxQueues -> TxQueue]
         /\ wakeEvents' \in Seq([txq : TxQueues, size : Sizes])
<1> DEFINE q == item.txq
           t == Enqueue(txQueue[q], item)
<1>1. disc \in TxQueues /\ item \in Items /\ q \in TxQueues
  BY TypeParts, DequeuableTyped, ItemTyped
     DEF Transmit, RunTyped, TxQueues
<1>2. /\ txQueue \in [TxQueues -> TxQueue]
      /\ wakeEvents \in Seq([txq : TxQueues, size : Sizes])
      /\ t \in TxQueue
  BY <1>1, TypeParts, EnqueueType DEF QueuesTyped
<1>3. CASE takes /\ ~WouldOverflow(txQueue[q], item.size)
  <2>1. t.packets = Append(txQueue[q].packets, item)
    BY <1>1, <1>2, <1>3, TypeParts, EnqueueType
  <2>2. t.packets # <<>>
    <3>1. txQueue[q].packets \in Seq(Items)
      BY <1>1, <1>2 DEF TxQueue
    <3>2. Append(txQueue[q].packets, item) # <<>>
      BY <3>1, <1>1
    <3> QED
      BY <2>1, <3>2
  <2>3. /\ txQueue' = [txQueue EXCEPT ![q] = Dequeued(t)]
        /\ wakeEvents' = Append(wakeEvents, WakeEvent(q, Head(t.packets)))
    BY <1>3, Zenon DEF Transmit
  <2>4. Dequeued(t) \in TxQueue /\ Head(t.packets) \in Items
    BY <1>2, <2>2, DequeuedType
  <2>5. WakeEvent(q, Head(t.packets)) \in [txq : TxQueues, size : Sizes]
    BY <1>1, <2>4, WakeEventTyped
  <2> HIDE DEF t, q
  <2>6. /\ txQueue' \in [TxQueues -> TxQueue]
        /\ wakeEvents' \in Seq([txq : TxQueues, size : Sizes])
    BY <1>1, <1>2, <2>3, <2>4, <2>5
  <2> QED
    BY <1>1, <1>3, <2>2, <2>3, <2>6 DEF q, t
<1>4. CASE ~(takes /\ ~WouldOverflow(txQueue[q], item.size))
  <2>1. txQueue' = [txQueue EXCEPT ![q] = t] /\ UNCHANGED wakeEvents
    BY <1>4, Zenon DEF Transmit
  <2>2. /\ txQueue' \in [TxQueues -> TxQueue]
        /\ wakeEvents' \in Seq([txq : TxQueues, size : Sizes])
    <3> HIDE DEF t
    <3> QED
      BY <1>2, <2>1
  <2> QED
    BY <1>1, <2>1, <2>2
<1> QED
  BY <1>3, <1>4

LEMMA TransmitQueue ==
  ASSUME QueueTypeOK, NEW item, NEW takes \in BOOLEAN, Transmit(item, takes),
         NEW q \in TxQueues
  PROVE  \/ txQueue'[q] = txQueue[q]
         \/ /\ q = item.txq
            /\ \/ txQueue'[q] = Enqueue(txQueue[q], item)
               \/ /\ Enqueue(txQueue[q], item).packets # <<>>
                  /\ txQueue'[q] = Dequeued(Enqueue(txQueue[q], item))
<1>1. txQueue \in [TxQueues -> TxQueue]
  BY TypeParts DEF QueuesTyped
<1> DEFINE e == Enqueue(txQueue[item.txq], item)
<1>2. \/ e.packets # <<>>
         /\ txQueue' = [txQueue EXCEPT ![item.txq] = Dequeued(e)]
      \/ txQueue' = [txQueue EXCEPT ![item.txq] = e]
  BY TransmitTyped, Zenon
<1>3. \/ txQueue'[q] = txQueue[q]
      \/ q = item.txq /\ txQueue'[q] = e
      \/ q = item.txq /\ e.packets # <<>> /\ txQueue'[q] = Dequeued(e)
  <2> HIDE DEF e
  <2> QED
    BY <1>1, <1>2, ExceptAt, Zenon
<1> QED
  BY <1>3, Zenon

LEMMA ConfigKept ==
  ASSUME [QueueNext]_queueVars
  PROVE  UNCHANGED configVars
BY DEF QueueNext, Send, Transmit, Dequeue, RunStep, WakeStep, NoPacketToSend,
       Requeue, NotifyTransmittedBytes, Wake, queueVars

LEMMA TypeKept ==
  ASSUME QueueTypeOK, WakePending, [QueueNext]_queueVars
  PROVE  QueueTypeOK'
<1> USE TypeParts
<1>1. UNCHANGED configVars /\ nTxQueues' = nTxQueues
  BY ConfigKept DEF configVars
<1>2. /\ TxQueues' = TxQueues /\ Items' = Items /\ TxQueue' = TxQueue
  BY <1>1, SetsKept
<1> SUFFICES QueuesTyped' /\ RunTyped' /\ HistoryTyped'
  BY <1>1, TypeNext
<1>3. ASSUME NEW q \in TxQueues, NEW size \in Sizes, Send(q, size)
      PROVE  QueuesTyped' /\ RunTyped' /\ HistoryTyped'
  <2> DEFINE item == [id |-> nSent + 1, txq |-> q, size |-> size]
  <2>1. DiscOf(q) \in TxQueues /\ item \in Items /\ nSent' \in 0 .. MaxPackets
    BY <1>3, DiscOfTyped, ConstantsTyped DEF Send, Items, HistoryTyped
  <2>2. discQueue' \in [TxQueues -> Seq(Items)]
    <3>1. \/ discQueue' = discQueue
          \/ discQueue' = [discQueue EXCEPT ![DiscOf(q)] = Append(@, item)]
      BY <1>3, Zenon DEF Send
    <3>2. Append(discQueue[DiscOf(q)], item) \in Seq(Items)
      <4>1. discQueue[DiscOf(q)] \in Seq(Items)
        BY <2>1 DEF QueuesTyped
      <4> HIDE DEF item
      <4> QED
        BY <2>1, <4>1
    <3> HIDE DEF item
    <3> QED
      BY <2>1, <3>1, <3>2 DEF QueuesTyped
  <2>3. RunTyped'
    BY <1>1, <1>3, <2>1, RunBeginTyped DEF Send
  <2> QED
    BY <1>2, <1>3, <2>1, <2>2, <2>3 DEF Send, QueuesTyped, HistoryTyped
<1>4. ASSUME NEW item \in Items, NEW takes \in BOOLEAN, Transmit(item, takes)
      PROVE  QueuesTyped' /\ RunTyped' /\ HistoryTyped'
  <2>1. /\ disc \in TxQueues /\ item \in Dequeuable /\ pc = "run"
        /\ DequeuePacket /\ RunGoesOn(item.txq) /\ UNCHANGED nSent
        /\ discarded' \in {discarded, discarded \cup {item}}
    BY <1>4, TransmitTyped DEF Transmit
  <2>2. QueuesTyped'
    <3>1. /\ txQueue' \in [TxQueues -> TxQueue]
          /\ wakeEvents' \in Seq([txq : TxQueues, size : Sizes])
      BY <1>4, TransmitTyped
    <3>2. /\ discQueue' \in [TxQueues -> Seq(Items)]
          /\ m_requeued' \in [TxQueues -> SUBSET Items]
      BY <2>1, DequeuePacketTyped
    <3> QED
      BY <1>2, <3>1, <3>2 DEF QueuesTyped
  <2>3. RunTyped' /\ outOfQuota' \subseteq TxQueues
    BY <1>1, <2>1, RunGoesOnTyped
  <2> QED
    BY <1>2, <1>4, <2>1, <2>2, <2>3 DEF HistoryTyped
<1>5. ASSUME NEW q \in TxQueues, Dequeue(q)
      PROVE  QueuesTyped' /\ RunTyped' /\ HistoryTyped'
  <2> DEFINE w == WakeEvent(q, Head(txQueue[q].packets))
  <2>1. Dequeued(txQueue[q]) \in TxQueue
        /\ w \in [txq : TxQueues, size : Sizes]
    BY <1>5, DequeuedType, WakeEventTyped DEF Dequeue, QueuesTyped
  <2>2. /\ txQueue' = [txQueue EXCEPT ![q] = Dequeued(txQueue[q])]
        /\ wakeEvents' = Append(wakeEvents, w)
        /\ UNCHANGED <<discQueue, m_requeued, pc, disc, quota, after, nSent,
                       outOfQuota, discarded>>
    BY <1>5 DEF Dequeue, runVars
  <2> HIDE DEF w
  <2> QED
    BY <1>1, <1>2, <2>1, <2>2 DEF QueuesTyped, RunTyped, HistoryTyped
<1>6. CASE NoPacketToSend
  BY <1>1, <1>2, <1>6, RunEndTyped
     DEF NoPacketToSend, QueuesTyped, HistoryTyped
<1>7. CASE Requeue
  <2>1. disc \in TxQueues /\ pc = "run"
    BY <1>7 DEF Requeue, RunTyped
  <2>2. PICK item \in Dequeuable : Stopped(item.txq) /\ RequeueItem(item)
    BY <1>7 DEF Requeue
  <2>3. item \in Items /\ Tail(discQueue[disc]) \in Seq(Items)
    BY <2>1, <2>2, RequeuedTyped
  <2>4. /\ discQueue' \in [TxQueues -> Seq(Items)]
        /\ m_requeued' \in [TxQueues -> SUBSET Items]
    BY <2>2, <2>3 DEF RequeueItem, QueuesTyped
  <2>5. RunTyped'
    BY <1>1, <1>7, RunEndTyped DEF Requeue
  <2> QED
    BY <1>2, <1>7, <2>4, <2>5 DEF Requeue, QueuesTyped, HistoryTyped
<1>8. CASE NotifyTransmittedBytes
  <2> DEFINE w == Head(wakeEvents)
  <2>1. w.txq \in TxQueues /\ w.size \in Nat /\ DiscOf(w.txq) \in TxQueues
    BY <1>8, WakeTyped DEF NotifyTransmittedBytes
  <2>2. PICK limit \in Limits :
          /\ txQueue' = [txQueue EXCEPT ![w.txq] =
                           Completed(txQueue[w.txq], w.size, limit)]
          /\ \/ RunBegin(DiscOf(w.txq), "wake")
             \/ pc' = "wake" /\ UNCHANGED runVars
    BY <1>8 DEF NotifyTransmittedBytes
  <2>3. txQueue' \in [TxQueues -> TxQueue]
    BY <2>1, <2>2, ConstantsTyped, CompletedType DEF QueuesTyped
  <2>4. RunTyped'
    BY <1>1, <2>1, <2>2, RunBeginTyped DEF RunTyped, runVars
  <2> QED
    BY <1>2, <1>8, <2>3, <2>4
       DEF NotifyTransmittedBytes, QueuesTyped, HistoryTyped
<1>9. CASE Wake
  <2> DEFINE q == Head(wakeEvents).txq
  <2>1. wakeEvents # <<>>
    BY <1>9 DEF Wake, WakePending
  <2>2. /\ q \in TxQueues /\ DiscOf(q) \in TxQueues
        /\ Tail(wakeEvents) \in Seq([txq : TxQueues, size : Sizes])
    BY <2>1, WakeTyped
  <2>3. \/ pc' = "event" /\ UNCHANGED <<txQueue, runVars>>
        \/ /\ txQueue' = [txQueue EXCEPT ![q] =
                            [@ EXCEPT !.stoppedByDevice = FALSE]]
           /\ RunBegin(DiscOf(q), "event")
    BY <1>9, Zenon DEF Wake
  <2>4. txQueue' \in [TxQueues -> TxQueue]
    BY <2>2, <2>3, StoppedSet DEF QueuesTyped
  <2>5. RunTyped'
    BY <1>1, <2>2, <2>3, RunBeginTyped DEF RunTyped, runVars
  <2> QED
    BY <1>2, <1>9, <2>2, <2>4, <2>5 DEF Wake, QueuesTyped, HistoryTyped
<1>10. CASE UNCHANGED queueVars
  <2>1. UNCHANGED <<discQueue, m_requeued, txQueue, wakeEvents, pc, disc,
                    quota, after, nSent, outOfQuota, discarded>>
    BY <1>10 DEF queueVars, runVars
  <2> QED
    BY <1>1, <1>2, <2>1 DEF QueuesTyped, RunTyped, HistoryTyped
<1> QED
  BY <1>3, <1>4, <1>5, <1>6, <1>7, <1>8, <1>9, <1>10
     DEF QueueNext, RunStep, WakeStep

LEMMA RunEnds ==
  ASSUME NEW q, RunGoesOn(q)
  PROVE  RunEnd \/ UNCHANGED <<pc, disc, after>>
BY DEF RunGoesOn

LEMMA WakeKept ==
  ASSUME QueueTypeOK, WakePending, OnlyInRun, [QueueNext]_queueVars
  PROVE  WakePending' /\ OnlyInRun'
<1> USE DEF WakePending, OnlyInRun
<1>1. ASSUME NEW q \in TxQueues, NEW size \in Sizes, Send(q, size)
      PROVE  WakePending' /\ OnlyInRun'
  BY <1>1 DEF Send, RunBegin
<1>2. ASSUME NEW item \in Items, NEW takes \in BOOLEAN, Transmit(item, takes)
      PROVE  WakePending' /\ OnlyInRun'
  <2>1. pc = "run" /\ (RunEnd \/ UNCHANGED <<pc, disc, after>>)
    BY <1>2, RunEnds DEF Transmit
  <2>2. wakeEvents # <<>> => wakeEvents' # <<>>
    <3>1. \/ UNCHANGED wakeEvents
          \/ \E w : wakeEvents' = Append(wakeEvents, w)
      BY <1>2, Zenon DEF Transmit
    <3> QED
      BY <3>1, TypeParts DEF QueuesTyped
  <2> QED
    BY <2>1, <2>2 DEF RunEnd
<1>3. ASSUME NEW q \in TxQueues, Dequeue(q)
      PROVE  WakePending' /\ OnlyInRun'
  BY <1>3 DEF Dequeue, runVars
<1>4. CASE NoPacketToSend
  BY <1>4 DEF NoPacketToSend, RunEnd
<1>5. CASE Requeue
  BY <1>5 DEF Requeue, RunEnd
<1>6. CASE NotifyTransmittedBytes
  BY <1>6 DEF NotifyTransmittedBytes, RunBegin, runVars
<1>7. CASE Wake
  BY <1>7 DEF Wake, RunBegin, runVars
<1>8. CASE UNCHANGED queueVars
  BY <1>8 DEF queueVars, runVars
<1> QED
  BY <1>1, <1>2, <1>3, <1>4, <1>5, <1>6, <1>7, <1>8
     DEF QueueNext, RunStep, WakeStep

TypeInv == QueueTypeOK /\ WakePending /\ OnlyInRun

\* Every variable of the traffic control has its type, whatever the device
\* does: RunBegin is told an existing queue disc, and a wake-up that goes on
\* after a Run is still the first.
THEOREM QueueTypeCorrect == QueueSpec => []TypeInv
<1>1. QueueInit => TypeInv
  BY InitTyped DEF QueueInit, TypeInv, WakePending, OnlyInRun
<1>2. TypeInv /\ [QueueNext]_queueVars => TypeInv'
  BY TypeKept, WakeKept DEF TypeInv
<1> QED
  BY <1>1, <1>2, PTL DEF QueueSpec

-----------------------------------------------------------------------------
(* No packet is discarded for want of room: a queue that is not stopped by *)
(* its device has room for a packet of the size of the MTU.                *)

Room == \A q \in TxQueues : ~txQueue[q].stoppedByDevice
                              => ~WouldOverflow(txQueue[q], Mtu)

LEMMA EmptyHasRoom ==
  ASSUME QueueInit
  PROVE  Room
<1>1. \A q \in TxQueues : Len(txQueue[q].packets) = 0 /\ txQueue[q].m_nBytes = 0
  BY DEF QueueInit
<1>2. /\ m_maxSize.value \in Nat /\ Mtu \in Nat
      /\ m_maxSize.value >= IF m_maxSize.unit = "bytes" THEN Mtu ELSE 1
      /\ m_maxSize.unit \in {"packets", "bytes"}
  BY QueueAssumption DEF QueueInit
<1> QED
  BY <1>1, <1>2 DEF Room, WouldOverflow

LEMMA DequeuedHasRoom ==
  ASSUME QueueTypeOK, NEW t \in TxQueue, t.packets # <<>>,
         ~WouldOverflow(t, Mtu)
  PROVE  ~WouldOverflow(Dequeued(t), Mtu)
<1>1. /\ t.packets \in Seq(Items) /\ t.m_nBytes \in Int
      /\ Head(t.packets).size \in Nat
  BY DequeuedType, ItemTyped DEF TxQueue
<1>2. Len(Dequeued(t).packets) = Len(t.packets) - 1
  BY <1>1, DequeuedType, HeadTail
<1>3. Dequeued(t).m_nBytes = t.m_nBytes - Head(t.packets).size
  BY DequeuedType
<1>4. m_maxSize.value \in Nat /\ Mtu \in Nat /\ Len(t.packets) \in Nat
  BY <1>1, TypeParts, ConstantsTyped
<1>5. PICK d : d = Dequeued(t)
  OBVIOUS
<1>6. CASE m_maxSize.unit = "packets"
  BY <1>2, <1>4, <1>5, <1>6 DEF WouldOverflow
<1>7. CASE m_maxSize.unit # "packets"
  BY <1>1, <1>3, <1>4, <1>5, <1>7 DEF WouldOverflow
<1> QED
  BY <1>6, <1>7

\* What a queue becomes in a step with its stops and its room.
LEMMA RoomKept ==
  ASSUME TypeInv, Room, [QueueNext]_queueVars
  PROVE  Room'
<1> USE TypeParts DEF TypeInv
<1>1. /\ TxQueues' = TxQueues
      /\ \A t, n : WouldOverflow(t, n)' = WouldOverflow(t, n)
  BY ConfigKept, SetsKept
<1> SUFFICES ASSUME NEW q \in TxQueues, ~txQueue'[q].stoppedByDevice
             PROVE  ~WouldOverflow(txQueue'[q], Mtu)
  BY <1>1 DEF Room
<1>2. txQueue[q] \in TxQueue
  BY DEF QueuesTyped
<1>3. CASE txQueue'[q] = txQueue[q]
  BY <1>3 DEF Room
<1>4. ASSUME NEW item \in Items, NEW takes \in BOOLEAN, Transmit(item, takes),
             txQueue'[q] # txQueue[q]
      PROVE  ~WouldOverflow(txQueue'[q], Mtu)
  <2> DEFINE t == Enqueue(txQueue[q], item)
  <2>1. txQueue'[q] = t \/ (t.packets # <<>> /\ txQueue'[q] = Dequeued(t))
    BY <1>4, TransmitQueue
  <2>2. /\ t \in TxQueue
        /\ t.stoppedByDevice \/ ~WouldOverflow(t, Mtu)
    BY <1>2, EnqueueType
  <2>3. CASE txQueue'[q] = t
    BY <2>2, <2>3
  <2>4. CASE txQueue'[q] = Dequeued(t) /\ t.packets # <<>>
    BY <2>2, <2>4, DequeuedType, DequeuedHasRoom
  <2> QED
    BY <2>1, <2>3, <2>4
<1>5. ASSUME NEW p \in TxQueues, Dequeue(p), txQueue'[q] # txQueue[q]
      PROVE  ~WouldOverflow(txQueue'[q], Mtu)
  <2>1. /\ q = p /\ txQueue[q].packets # <<>>
        /\ txQueue'[q] = Dequeued(txQueue[q])
    BY <1>5 DEF Dequeue, QueuesTyped
  <2> QED
    BY <1>2, <2>1, DequeuedType, DequeuedHasRoom DEF Room
<1>6. CASE NotifyTransmittedBytes
  <2>1. PICK limit \in Limits :
          LET w == Head(wakeEvents) IN
          txQueue' = [txQueue EXCEPT ![w.txq] =
                        Completed(txQueue[w.txq], w.size, limit)]
    BY <1>6 DEF NotifyTransmittedBytes
  <2>2. Head(wakeEvents).size \in Nat
    BY <1>6, WakeTyped DEF NotifyTransmittedBytes
  <2>3. /\ txQueue'[q].packets = txQueue[q].packets
        /\ txQueue'[q].m_nBytes = txQueue[q].m_nBytes
        /\ txQueue'[q].stoppedByDevice = txQueue[q].stoppedByDevice
    <3> DEFINE w == Head(wakeEvents)
               t == Completed(txQueue[w.txq], w.size, limit)
    <3>1. txQueue'[q] = txQueue[q] \/ (q = w.txq /\ txQueue'[q] = t)
      BY <2>1, ExceptAt, Zenon DEF QueuesTyped
    <3>2. limit \in Nat
      BY ConstantsTyped
    <3>3. CASE q = w.txq
      <4>1. t = Completed(txQueue[q], w.size, limit)
        BY <3>3
      <4>2. /\ t.packets = txQueue[q].packets
            /\ t.m_nBytes = txQueue[q].m_nBytes
            /\ t.stoppedByDevice = txQueue[q].stoppedByDevice
        <5>1. PICK n \in Nat : n = w.size
          BY <2>2
        <5>2. PICK u \in TxQueue : u = txQueue[q]
          BY <1>2
        <5>3. t = Completed(u, n, limit)
          BY <4>1, <5>1, <5>2
        <5>4. PICK c : c = Completed(u, n, limit)
          OBVIOUS
        <5>5. /\ c.packets = u.packets /\ c.m_nBytes = u.m_nBytes
              /\ c.stoppedByDevice = u.stoppedByDevice
          BY <3>2, <5>4, CompletedType
        <5> HIDE DEF t, w
        <5> QED
          BY <5>2, <5>3, <5>4, <5>5
      <4> QED
        BY <3>1, <4>2
    <3> QED
      BY <3>1, <3>3
  <2> QED
    BY <2>3 DEF Room, WouldOverflow
<1>7. CASE Wake /\ txQueue'[q] # txQueue[q]
  <2>1. /\ ~WouldOverflow(txQueue[q], Mtu)
        /\ txQueue'[q] = [txQueue[q] EXCEPT !.stoppedByDevice = FALSE]
    BY <1>7 DEF Wake, QueuesTyped
  <2>2. /\ txQueue'[q].packets = txQueue[q].packets
        /\ txQueue'[q].m_nBytes = txQueue[q].m_nBytes
    BY <1>2, <2>1, StoppedSet
  <2> QED
    BY <2>1, <2>2 DEF WouldOverflow
<1>8. (\E p \in TxQueues, size \in Sizes : Send(p, size)) \/ NoPacketToSend
        \/ Requeue \/ UNCHANGED queueVars => txQueue' = txQueue
  BY DEF Send, NoPacketToSend, Requeue, queueVars
<1> QED
  BY <1>3, <1>4, <1>5, <1>6, <1>7, <1>8 DEF QueueNext, RunStep, WakeStep

\* A packet that a queue with room for the MTU discards is larger, and counted
\* in bytes: a queue counted in packets has room for any.
LEMMA DiscardKept ==
  ASSUME TypeInv, Room, NeverDiscards, [QueueNext]_queueVars
  PROVE  NeverDiscards'
<1> USE TypeParts DEF TypeInv
<1>1. ASSUME NEW item \in Items, NEW takes \in BOOLEAN, Transmit(item, takes),
             WouldOverflow(txQueue[item.txq], item.size)
      PROVE  m_maxSize.unit = "bytes" /\ item.size > Mtu
  <2>1. /\ ~txQueue[item.txq].stoppedByDevice /\ item.txq \in TxQueues
        /\ txQueue[item.txq] \in TxQueue /\ item.size \in Nat
    BY <1>1, ItemTyped DEF Transmit, Stopped, IsStopped, QueuesTyped
  <2>2. ~WouldOverflow(txQueue[item.txq], Mtu)
    BY <2>1 DEF Room
  <2>3. txQueue[item.txq].m_nBytes \in Int /\ Mtu \in Nat
        /\ m_maxSize.value \in Nat /\ m_maxSize.unit \in {"packets", "bytes"}
    BY <2>1, ConstantsTyped DEF TxQueue
  <2> QED
    BY <1>1, <2>1, <2>2, <2>3 DEF WouldOverflow
<1> m_maxSize' = m_maxSize
  BY ConfigKept DEF configVars
<1>2. ASSUME NEW item \in Items, NEW takes \in BOOLEAN, Transmit(item, takes)
      PROVE  NeverDiscards'
  <2>1. \/ discarded' = discarded
        \/ /\ discarded' = discarded \cup {item}
           /\ WouldOverflow(txQueue[item.txq], item.size)
    BY <1>2 DEF Transmit
  <2> QED
    BY <1>1, <1>2, <2>1 DEF NeverDiscards
<1>3. \/ discarded' = discarded
      \/ \E item \in Items, takes \in BOOLEAN : Transmit(item, takes)
  BY DEF QueueNext, Send, Dequeue, RunStep, WakeStep, NoPacketToSend, Requeue,
         NotifyTransmittedBytes, Wake, queueVars
<1> QED
  BY <1>2, <1>3 DEF NeverDiscards

\* A device queue counted in packets is never handed a packet it has no room
\* for, nor is one counted in bytes, but for packets larger than the MTU, for
\* any number and sizes of queues and any Limits.
THEOREM NeverDiscardsCorrect == QueueSpec => []NeverDiscards
<1>1. QueueInit => Room /\ NeverDiscards
  BY EmptyHasRoom DEF QueueInit, NeverDiscards
<1>2. TypeInv /\ Room /\ NeverDiscards /\ [QueueNext]_queueVars
        => Room' /\ NeverDiscards'
  BY RoomKept, DiscardKept
<1> QED
  BY <1>1, <1>2, QueueTypeCorrect, PTL DEF QueueSpec

-----------------------------------------------------------------------------
(* A queue counts what it holds: m_nBytes the bytes of its packets, and    *)
(* the byte limits those and the ones whose wake-up is still to come.      *)

Wakes == [txq : TxQueues, size : Sizes]
ItemsOf(q) == {item \in Items : item.txq = q}

\* What x adds to the bytes of queue q; x is a packet or a wake-up.
Share(q, x) == IF x.txq = q THEN x.size ELSE 0

\* n is the sum of the shares of s, for which c has those of what is left of s:
\* nothing is left of it only where no share of q is to come.
SumsTo(q, s, n) ==
  \E c \in [0 .. Len(s) -> Nat] :
    /\ c[0] = n /\ c[Len(s)] = 0
    /\ \A i \in 1 .. Len(s) : c[i - 1] = c[i] + Share(q, s[i])
    /\ \A i \in 0 .. Len(s) :
         c[i] > 0 => \E j \in i + 1 .. Len(s) : s[j].txq = q

LEMMA SumOfNone ==
  ASSUME NEW q
  PROVE  SumsTo(q, <<>>, 0) /\ \A n : SumsTo(q, <<>>, n) => n = 0
<1>1. Len(<<>>) = 0 /\ 1 .. 0 = {} /\ 0 .. 0 = {0}
  OBVIOUS
<1>2. SumsTo(q, <<>>, 0)
  <2> DEFINE c == [i \in 0 .. 0 |-> 0]
  <2>1. c \in [0 .. 0 -> Nat] /\ c[0] = 0
    OBVIOUS
  <2> HIDE DEF c
  <2> QED
    BY <1>1, <2>1 DEF SumsTo
<1>3. ASSUME NEW n, SumsTo(q, <<>>, n) PROVE n = 0
  BY <1>1, <1>3 DEF SumsTo
<1> QED
  BY <1>2, <1>3

LEMMA SumIsNumber ==
  ASSUME NEW q, NEW S, NEW s \in Seq(S), NEW n, SumsTo(q, s, n)
  PROVE  n \in Nat
BY DEF SumsTo

\* A sum that is not zero has something to come of q.
LEMMA SumHasShare ==
  ASSUME NEW q, NEW S, NEW s \in Seq(S), NEW n, SumsTo(q, s, n), n > 0
  PROVE  \E j \in 1 .. Len(s) : s[j].txq = q
<1>1. Len(s) \in Nat /\ 0 \in 0 .. Len(s) /\ 0 + 1 = 1
  OBVIOUS
<1> QED
  BY <1>1 DEF SumsTo

LEMMA ShareIsNumber ==
  ASSUME NEW q, NEW x, x.size \in Nat
  PROVE  Share(q, x) \in Nat /\ (Share(q, x) > 0 => x.txq = q)
BY DEF Share

LEMMA SumAppend ==
  ASSUME NEW q, NEW S, NEW s \in Seq(S), NEW x \in S, NEW n \in Nat,
         \A y \in S : y.size \in Nat, SumsTo(q, s, n)
  PROVE  SumsTo(q, Append(s, x), n + Share(q, x))
<1>1. PICK c \in [0 .. Len(s) -> Nat] :
        /\ c[0] = n /\ c[Len(s)] = 0
        /\ \A i \in 1 .. Len(s) : c[i - 1] = c[i] + Share(q, s[i])
        /\ \A i \in 0 .. Len(s) :
             c[i] > 0 => \E j \in i + 1 .. Len(s) : s[j].txq = q
  BY DEF SumsTo
<1> DEFINE t == Append(s, x)
           z == Share(q, x)
           b == [i \in 0 .. Len(s) + 1 |->
                   IF i = Len(s) + 1 THEN 0 ELSE c[i] + z]
<1>2. /\ Len(s) \in Nat /\ Len(t) = Len(s) + 1
      /\ \A i \in 1 .. Len(s) : t[i] = s[i]
      /\ t[Len(s) + 1] = x
  OBVIOUS
<1>3. z \in Nat /\ (z > 0 => x.txq = q) /\ Share(q, t[Len(s) + 1]) = z
  BY <1>2, ShareIsNumber
<1> HIDE DEF t, z
<1>4. b \in [0 .. Len(s) + 1 -> Nat]
  BY <1>2, <1>3
<1>5. /\ b[0] = n + z /\ b[Len(s) + 1] = 0 /\ b[Len(s)] = z
      /\ \A i \in 0 .. Len(s) : b[i] = c[i] + z
  BY <1>1, <1>2, <1>3
<1> HIDE DEF b
<1>6. ASSUME NEW i \in 1 .. Len(s) + 1
      PROVE  b[i - 1] = b[i] + Share(q, t[i])
  <2>1. CASE i \in 1 .. Len(s)
    <3>1. i - 1 \in 0 .. Len(s) /\ i \in 0 .. Len(s) /\ t[i] = s[i]
      BY <1>2, <2>1
    <3>2. Share(q, s[i]) \in Nat
      BY <2>1, ShareIsNumber
    <3>3. PICK v, w, y \in Nat :
            v = c[i - 1] /\ w = c[i] /\ y = Share(q, s[i])
      BY <1>1, <3>1, <3>2
    <3>4. v = w + y
      BY <1>1, <2>1, <3>3
    <3>5. b[i - 1] = v + z /\ b[i] = w + z /\ Share(q, t[i]) = y
      BY <1>5, <3>1, <3>3
    <3> QED
      BY <1>3, <3>4, <3>5
  <2>2. CASE i = Len(s) + 1
    <3>1. i - 1 = Len(s)
      BY <1>2, <2>2
    <3> QED
      BY <1>3, <1>5, <2>2, <3>1
  <2> QED
    BY <1>2, <2>1, <2>2
<1>7. ASSUME NEW i \in 0 .. Len(s) + 1, b[i] > 0
      PROVE  \E j \in i + 1 .. Len(s) + 1 : t[j].txq = q
  <2>1. i \in 0 .. Len(s) /\ b[i] = c[i] + z /\ c[i] \in Nat
    <3>1. i # Len(s) + 1
      BY <1>5, <1>7
    <3>2. i \in 0 .. Len(s)
      BY <1>2, <3>1
    <3> QED
      BY <1>5, <3>2
  <2>2. CASE z > 0
    <3>1. Len(s) + 1 \in i + 1 .. Len(s) + 1
      BY <1>2, <2>1
    <3> QED
      BY <1>2, <1>3, <2>2, <3>1
  <2>3. CASE c[i] > 0
    <3>1. PICK j \in i + 1 .. Len(s) : s[j].txq = q
      BY <1>1, <2>1, <2>3
    <3>2. j \in 1 .. Len(s) /\ j \in i + 1 .. Len(s) + 1
      BY <1>2, <2>1
    <3> QED
      BY <1>2, <3>1, <3>2
  <2> QED
    BY <1>3, <1>7, <2>1, <2>2, <2>3
<1>8. b[Len(t)] = 0 /\ b \in [0 .. Len(t) -> Nat] /\ b[0] = n + z
  BY <1>2, <1>4, <1>5
<1>9. /\ \A i \in 1 .. Len(t) : b[i - 1] = b[i] + Share(q, t[i])
      /\ \A i \in 0 .. Len(t) :
           b[i] > 0 => \E j \in i + 1 .. Len(t) : t[j].txq = q
  BY <1>2, <1>6, <1>7
<1>10. SumsTo(q, t, n + z)
  BY <1>8, <1>9 DEF SumsTo
<1> QED
  BY <1>10 DEF t, z

LEMMA SumTail ==
  ASSUME NEW q, NEW S, NEW s \in Seq(S), s # <<>>, Head(s).size \in Nat,
         NEW n \in Nat, SumsTo(q, s, n)
  PROVE  SumsTo(q, Tail(s), n - Share(q, Head(s)))
<1>1. PICK c \in [0 .. Len(s) -> Nat] :
        /\ c[0] = n /\ c[Len(s)] = 0
        /\ \A i \in 1 .. Len(s) : c[i - 1] = c[i] + Share(q, s[i])
        /\ \A i \in 0 .. Len(s) :
             c[i] > 0 => \E j \in i + 1 .. Len(s) : s[j].txq = q
  BY DEF SumsTo
<1> DEFINE t == Tail(s)
           z == Share(q, Head(s))
           b == [i \in 0 .. Len(s) - 1 |-> c[i + 1]]
<1>2. /\ Len(s) \in Nat \ {0} /\ Len(t) = Len(s) - 1
      /\ \A i \in 1 .. Len(s) - 1 : t[i] = s[i + 1]
  OBVIOUS
<1>3. z \in Nat /\ Share(q, s[1]) = z
  <2>1. s[1] = Head(s)
    OBVIOUS
  <2> QED
    BY <2>1, ShareIsNumber
<1> HIDE DEF t, z
<1>4. b \in [0 .. Len(s) - 1 -> Nat]
  BY <1>2
<1>5. b[Len(s) - 1] = 0 /\ \A i \in 0 .. Len(s) - 1 : b[i] = c[i + 1]
  BY <1>1, <1>2
<1>6. b[0] = n - z
  <2>1. 1 \in 1 .. Len(s) /\ 1 \in 0 .. Len(s)
    BY <1>2
  <2>2. c[1 - 1] = c[1] + Share(q, s[1])
    BY <1>1, <2>1
  <2>3. c[1] \in Nat /\ b[0] = c[1] /\ c[0] = c[1] + z
    BY <1>2, <1>3, <1>5, <2>1, <2>2
  <2> QED
    BY <1>1, <1>3, <2>3
<1> HIDE DEF b
<1>7. ASSUME NEW i \in 1 .. Len(s) - 1
      PROVE  b[i - 1] = b[i] + Share(q, t[i])
  <2>1. /\ i - 1 \in 0 .. Len(s) - 1 /\ i \in 0 .. Len(s) - 1
        /\ i + 1 \in 1 .. Len(s) /\ (i - 1) + 1 = i /\ (i + 1) - 1 = i
    BY <1>2
  <2>2. c[(i + 1) - 1] = c[i + 1] + Share(q, s[i + 1])
    BY <1>1, <2>1
  <2>3. b[i - 1] = c[i] /\ b[i] = c[i + 1] /\ t[i] = s[i + 1]
    BY <1>2, <1>5, <2>1
  <2> QED
    BY <2>1, <2>2, <2>3
<1>8. ASSUME NEW i \in 0 .. Len(s) - 1, b[i] > 0
      PROVE  \E j \in i + 1 .. Len(s) - 1 : t[j].txq = q
  <2>1. i + 1 \in 0 .. Len(s) /\ c[i + 1] > 0
    BY <1>2, <1>5, <1>8
  <2>2. PICK j \in (i + 1) + 1 .. Len(s) : s[j].txq = q
    BY <1>1, <2>1
  <2>3. /\ j - 1 \in i + 1 .. Len(s) - 1 /\ j - 1 \in 1 .. Len(s) - 1
        /\ (j - 1) + 1 = j
    BY <1>2
  <2> QED
    BY <1>2, <2>2, <2>3
<1>9. b[Len(t)] = 0 /\ b \in [0 .. Len(t) -> Nat] /\ b[0] = n - z
  BY <1>2, <1>4, <1>5, <1>6
<1>10. /\ \A i \in 1 .. Len(t) : b[i - 1] = b[i] + Share(q, t[i])
       /\ \A i \in 0 .. Len(t) :
            b[i] > 0 => \E j \in i + 1 .. Len(t) : t[j].txq = q
  BY <1>2, <1>7, <1>8
<1>11. SumsTo(q, t, n - z)
  BY <1>9, <1>10 DEF SumsTo
<1> QED
  BY <1>11 DEF t, z

\* What is done to a device queue, as far as its limits count.
LEMMA EnqueueCounts ==
  ASSUME NEW t \in TxQueue, NEW item \in Items
  PROVE  LET e == Enqueue(t, item) IN
         /\ WouldOverflow(t, item.size)
              => /\ e.uncompleted = t.uncompleted /\ e.m_nBytes = t.m_nBytes
                 /\ e.packets = t.packets
                 /\ e.stoppedByQueueLimits = t.stoppedByQueueLimits
         /\ ~WouldOverflow(t, item.size)
              => /\ hasLimits => e.uncompleted = t.uncompleted + item.size
                 /\ ~hasLimits => e.stoppedByQueueLimits
                                    = t.stoppedByQueueLimits
<1> DEFINE e == Enqueue(t, item)
<1>1. item.size \in Nat
  BY ItemTyped
<1>2. CASE WouldOverflow(t, item.size)
  <2>1. e = [t EXCEPT !.stoppedByDevice = TRUE]
    BY <1>2 DEF Enqueue
  <2> QED
    BY <1>2, <2>1 DEF TxQueue
<1>3. CASE ~WouldOverflow(t, item.size)
  <2> DEFINE a == Appended(t, item)
             n == NotifyQueuedBytes(a, item.size)
  <2>1. /\ a \in TxQueue /\ a.stoppedByQueueLimits = t.stoppedByQueueLimits
        /\ a.uncompleted = t.uncompleted
    <3>1. a \in TxQueue /\ a.stoppedByQueueLimits = t.stoppedByQueueLimits
      BY AppendedType
    <3>2. a.uncompleted = t.uncompleted
      BY DEF Appended, TxQueue
    <3> QED
      BY <3>1, <3>2
  <2>2. n \in TxQueue
    BY <1>1, <2>1, QueuedType
  <2>3. /\ hasLimits => n.uncompleted = t.uncompleted + item.size
        /\ ~hasLimits => n.stoppedByQueueLimits = t.stoppedByQueueLimits
    <3> HIDE DEF a
    <3> QED
      BY <1>1, <2>1 DEF NotifyQueuedBytes, TxQueue
  <2>4. e = [n EXCEPT !.stoppedByDevice = @ \/ WouldOverflow(a, Mtu)]
    BY <1>3 DEF Enqueue
  <2>5. e.uncompleted = n.uncompleted
        /\ e.stoppedByQueueLimits = n.stoppedByQueueLimits
    <3> HIDE DEF a, n, e
    <3> QED
      BY <2>2, <2>4 DEF TxQueue
  <2> HIDE DEF a, n, e
  <2> QED
    BY <1>3, <2>3, <2>5 DEF e
<1> QED
  BY <1>2, <1>3

LEMMA CompletedCounts ==
  ASSUME NEW t \in TxQueue, NEW n \in Nat, NEW limit \in Nat
  PROVE  LET c == Completed(t, n, limit) IN
         /\ ~hasLimits => c = t
         /\ hasLimits => /\ c.uncompleted = t.uncompleted - n
                         /\ c.stoppedByQueueLimits => limit < c.uncompleted
BY DEF Completed, TxQueue

LEMMA DequeuedCounts ==
  ASSUME NEW t \in TxQueue
  PROVE  Dequeued(t).uncompleted = t.uncompleted
BY DEF Dequeued, TxQueue

\* The wake-ups whose bytes are still to be reported as transmitted.
Half == pc = "wake" \/ after = "wake"
WakesLeft == IF Half THEN Tail(wakeEvents) ELSE wakeEvents

QueueOf(q, t, wakes) ==
  /\ t.packets \in Seq(ItemsOf(q))
  /\ SumsTo(q, t.packets, t.m_nBytes)
  /\ hasLimits => SumsTo(q, wakes, t.uncompleted - t.m_nBytes)
  /\ t.stoppedByQueueLimits => hasLimits /\ t.uncompleted > 0
Counted == \A q \in TxQueues : QueueOf(q, txQueue[q], WakesLeft)

LEMMA Sized ==
  /\ \A item \in Items : item.size \in Nat \ {0}
  /\ \A q : \A item \in ItemsOf(q) :
       item \in Items /\ item.size \in Nat /\ Share(q, item) = item.size
  /\ \A w \in Wakes : w.size \in Nat \ {0}
BY ConstantsTyped DEF Items, ItemsOf, Wakes, Share

LEMMA WakesLeftTyped ==
  ASSUME TypeInv
  PROVE  /\ wakeEvents \in Seq(Wakes) /\ WakesLeft \in Seq(Wakes)
         /\ Half => wakeEvents # <<>>
<1>1. wakeEvents \in Seq(Wakes)
  BY TypeParts DEF TypeInv, QueuesTyped, Wakes
<1>2. Half => wakeEvents # <<>>
  BY DEF TypeInv, WakePending, Half
<1> QED
  BY <1>1, <1>2, HeadTail DEF WakesLeft

\* A packet that is enqueued adds to both counts, and one that is taken out
\* goes over to the wake-ups.
LEMMA EnqueueKeepsCount ==
  ASSUME NEW q, NEW t \in TxQueue, NEW item \in ItemsOf(q),
         NEW wakes \in Seq(Wakes),
         m_maxSize \in [unit : {"packets", "bytes"}, value : Nat],
         QueueOf(q, t, wakes)
  PROVE  QueueOf(q, Enqueue(t, item), wakes)
<1> DEFINE e == Enqueue(t, item)
<1>1. /\ item \in Items /\ e \in TxQueue /\ item.size \in Nat \ {0}
      /\ Share(q, item) = item.size
  BY EnqueueType, Sized
<1>2. CASE WouldOverflow(t, item.size)
  BY <1>1, <1>2, EnqueueCounts DEF QueueOf
<1>3. CASE ~WouldOverflow(t, item.size)
  <2>1. /\ e.packets = Append(t.packets, item)
        /\ e.m_nBytes = t.m_nBytes + item.size
        /\ hasLimits => e.uncompleted = t.uncompleted + item.size
        /\ ~hasLimits => e.stoppedByQueueLimits = t.stoppedByQueueLimits
    BY <1>1, <1>3, EnqueueType, EnqueueCounts
  <2>2. /\ t.packets \in Seq(ItemsOf(q)) /\ t.m_nBytes \in Nat
        /\ t.uncompleted \in Int
    BY SumIsNumber DEF TxQueue, QueueOf
  <2> HIDE DEF e
  <2>3. e.packets \in Seq(ItemsOf(q)) /\ SumsTo(q, e.packets, e.m_nBytes)
    <3>1. SumsTo(q, Append(t.packets, item), t.m_nBytes + Share(q, item))
      BY <2>2, SumAppend, Sized DEF QueueOf
    <3> QED
      BY <1>1, <2>1, <2>2, <3>1
  <2>4. ASSUME hasLimits
        PROVE  /\ SumsTo(q, wakes, e.uncompleted - e.m_nBytes)
               /\ e.uncompleted > 0
    <3>1. e.uncompleted - e.m_nBytes = t.uncompleted - t.m_nBytes
      BY <1>1, <2>1, <2>2, <2>4
    <3>2. SumsTo(q, wakes, t.uncompleted - t.m_nBytes)
      BY <2>4 DEF QueueOf
    <3>3. t.uncompleted - t.m_nBytes \in Nat
      BY <3>2, SumIsNumber
    <3> QED
      BY <1>1, <2>1, <2>2, <2>4, <3>1, <3>2, <3>3
  <2> QED
    BY <2>1, <2>3, <2>4 DEF QueueOf, e
<1> QED
  BY <1>2, <1>3

\* A wake-up of another queue adds nothing to the count.
LEMMA OtherWakesCount ==
  ASSUME NEW q, NEW t \in TxQueue, NEW wakes \in Seq(Wakes), NEW w \in Wakes,
         w.txq # q, QueueOf(q, t, wakes)
  PROVE  QueueOf(q, t, Append(wakes, w))
<1>1. Share(q, w) = 0
  BY DEF Share
<1>2. ASSUME hasLimits
      PROVE  SumsTo(q, Append(wakes, w), t.uncompleted - t.m_nBytes)
  <2>1. SumsTo(q, wakes, t.uncompleted - t.m_nBytes)
    BY <1>2 DEF QueueOf
  <2>2. PICK n \in Nat : n = t.uncompleted - t.m_nBytes
    BY <2>1, SumIsNumber
  <2>3. SumsTo(q, Append(wakes, w), n + Share(q, w))
    BY <2>1, <2>2, SumAppend, Sized
  <2>4. n + Share(q, w) = n
    BY <1>1
  <2> QED
    BY <2>2, <2>3, <2>4
<1> QED
  BY <1>2 DEF QueueOf

LEMMA DequeueKeepsCount ==
  ASSUME NEW q \in TxQueues, NEW t \in TxQueue, NEW wakes \in Seq(Wakes),
         t.packets # <<>>, QueueOf(q, t, wakes)
  PROVE  QueueOf(q, Dequeued(t),
                 Append(wakes, WakeEvent(q, Head(t.packets))))
<1> DEFINE u == Dequeued(t)
           w == WakeEvent(q, Head(t.packets))
           z == Head(t.packets).size
<1>1. /\ u \in TxQueue /\ u.packets = Tail(t.packets)
      /\ u.m_nBytes = t.m_nBytes - z
      /\ u.stoppedByQueueLimits = t.stoppedByQueueLimits
      /\ u.uncompleted = t.uncompleted /\ Head(t.packets) \in Items
  BY DequeuedType, DequeuedCounts
<1>2. /\ t.packets \in Seq(ItemsOf(q)) /\ t.m_nBytes \in Nat
      /\ t.uncompleted \in Int
  BY SumIsNumber DEF TxQueue, QueueOf
<1>3. /\ Head(t.packets) \in ItemsOf(q) /\ Tail(t.packets) \in Seq(ItemsOf(q))
  BY <1>2, HeadTail
<1>4. /\ z \in Nat /\ Share(q, Head(t.packets)) = z
      /\ w \in Wakes /\ Share(q, w) = z
  BY <1>1, <1>3, WakeEventTyped, Sized DEF Wakes, WakeEvent, Share
<1> HIDE DEF u, w, z
<1>5. u.packets \in Seq(ItemsOf(q)) /\ SumsTo(q, u.packets, u.m_nBytes)
  <2>1. SumsTo(q, Tail(t.packets), t.m_nBytes - Share(q, Head(t.packets)))
    BY <1>2, <1>4, SumTail DEF QueueOf, z
  <2> QED
    BY <1>1, <1>3, <1>4, <2>1
<1>6. ASSUME hasLimits
      PROVE  SumsTo(q, Append(wakes, w), u.uncompleted - u.m_nBytes)
  <2>1. SumsTo(q, wakes, t.uncompleted - t.m_nBytes)
    BY <1>6 DEF QueueOf
  <2>2. PICK n \in Nat : n = t.uncompleted - t.m_nBytes
    BY <2>1, SumIsNumber
  <2>3. SumsTo(q, Append(wakes, w), n + Share(q, w))
    BY <1>4, <2>1, <2>2, SumAppend, Sized
  <2>4. u.uncompleted - u.m_nBytes = n + Share(q, w)
    BY <1>1, <1>2, <1>4, <2>2
  <2> QED
    BY <2>3, <2>4
<1> QED
  BY <1>1, <1>5, <1>6 DEF QueueOf, u, w

LEMMA CompletedKeepsCount ==
  ASSUME NEW q, NEW t \in TxQueue, NEW wakes \in Seq(Wakes), wakes # <<>>,
         Head(wakes).txq = q, NEW limit \in Nat, QueueOf(q, t, wakes)
  PROVE  QueueOf(q, Completed(t, Head(wakes).size, limit), Tail(wakes))
<1> DEFINE z == Head(wakes).size
           u == Completed(t, z, limit)
<1>1. /\ z \in Nat /\ Tail(wakes) \in Seq(Wakes) /\ Head(wakes) \in Wakes
      /\ Share(q, Head(wakes)) = z
  BY HeadTail, Sized DEF Share
<1>2. /\ t.m_nBytes \in Nat /\ t.uncompleted \in Int
      /\ t.packets \in Seq(ItemsOf(q))
  BY SumIsNumber DEF TxQueue, QueueOf
<1> HIDE DEF z
<1>3. /\ u \in TxQueue /\ u.packets = t.packets /\ u.m_nBytes = t.m_nBytes
      /\ ~hasLimits => u = t
      /\ hasLimits => /\ u.uncompleted = t.uncompleted - z
                      /\ u.stoppedByQueueLimits => limit < u.uncompleted
  <2>1. u \in TxQueue /\ u.packets = t.packets /\ u.m_nBytes = t.m_nBytes
    BY <1>1, CompletedType
  <2> QED
    BY <1>1, <2>1, CompletedCounts
<1> HIDE DEF u
<1>4. ASSUME hasLimits
      PROVE  SumsTo(q, Tail(wakes), u.uncompleted - u.m_nBytes)
  <2>1. SumsTo(q, wakes, t.uncompleted - t.m_nBytes)
    BY <1>4 DEF QueueOf
  <2>2. PICK n \in Nat : n = t.uncompleted - t.m_nBytes
    BY <2>1, SumIsNumber
  <2>3. SumsTo(q, Tail(wakes), n - Share(q, Head(wakes)))
    BY <1>1, <2>1, <2>2, SumTail DEF z
  <2>4. u.uncompleted - u.m_nBytes = n - Share(q, Head(wakes))
    BY <1>1, <1>2, <1>3, <1>4, <2>2
  <2> QED
    BY <2>3, <2>4
<1>5. u.uncompleted \in Int
  BY <1>3 DEF TxQueue
<1>6. u.stoppedByQueueLimits => hasLimits /\ u.uncompleted > 0
  BY <1>3, <1>5 DEF QueueOf
<1> QED
  BY <1>2, <1>3, <1>4, <1>6 DEF QueueOf, u, z

LEMMA OtherCompletesCount ==
  ASSUME NEW q, NEW t \in TxQueue, NEW wakes \in Seq(Wakes), wakes # <<>>,
         Head(wakes).txq # q, QueueOf(q, t, wakes)
  PROVE  QueueOf(q, t, Tail(wakes))
<1>1. Share(q, Head(wakes)) = 0 /\ Head(wakes).size \in Nat
  BY HeadTail, Sized DEF Share
<1>2. ASSUME hasLimits
      PROVE  SumsTo(q, Tail(wakes), t.uncompleted - t.m_nBytes)
  <2>1. SumsTo(q, wakes, t.uncompleted - t.m_nBytes)
    BY <1>2 DEF QueueOf
  <2>2. PICK n \in Nat : n = t.uncompleted - t.m_nBytes
    BY <2>1, SumIsNumber
  <2>3. SumsTo(q, Tail(wakes), n - Share(q, Head(wakes)))
    BY <1>1, <2>1, <2>2, SumTail
  <2>4. n - Share(q, Head(wakes)) = n
    BY <1>1
  <2> QED
    BY <2>2, <2>3, <2>4
<1> QED
  BY <1>2 DEF QueueOf

\* What a step does to a queue and to the wake-ups.
Stays(q) == /\ txQueue'[q] = txQueue[q] /\ UNCHANGED wakeEvents
            /\ Half' = Half
OtherWakes(q) ==
  /\ txQueue'[q] = txQueue[q] /\ Half' = Half
  /\ \E w \in Wakes : w.txq # q /\ wakeEvents' = Append(wakeEvents, w)
Enqueues(q, item) ==
  /\ txQueue'[q] = Enqueue(txQueue[q], item) /\ UNCHANGED wakeEvents
  /\ WouldOverflow(txQueue[q], item.size) => item \in discarded'
  /\ Half' = Half
PassesOn(q, item) ==
  LET e == Enqueue(txQueue[q], item) IN
  /\ e.packets # <<>> /\ txQueue'[q] = Dequeued(e)
  /\ wakeEvents' = Append(wakeEvents, WakeEvent(q, Head(e.packets)))
  /\ Half' = Half
Dequeues(q) ==
  /\ txQueue[q].packets # <<>> /\ txQueue'[q] = Dequeued(txQueue[q])
  /\ wakeEvents' = Append(wakeEvents, WakeEvent(q, Head(txQueue[q].packets)))
  /\ Half' = Half
Completes(q, limit) ==
  /\ txQueue'[q] = IF Head(wakeEvents).txq = q
                   THEN Completed(txQueue[q], Head(wakeEvents).size, limit)
                   ELSE txQueue[q]
  /\ wakeEvents # <<>> /\ UNCHANGED wakeEvents
  /\ ~Half /\ Half'
Wakens(q) ==
  /\ IF Head(wakeEvents).txq = q /\ txQueue[q].stoppedByDevice
          /\ ~WouldOverflow(txQueue[q], Mtu)
     THEN txQueue'[q] = [txQueue[q] EXCEPT !.stoppedByDevice = FALSE]
     ELSE txQueue'[q] = txQueue[q]
  /\ wakeEvents # <<>> /\ wakeEvents' = Tail(wakeEvents)
  /\ Half /\ ~Half'

LEMMA TransmitEffects ==
  ASSUME TypeInv, NEW q \in TxQueues, NEW item \in Items,
         NEW takes \in BOOLEAN, Transmit(item, takes)
  PROVE  \/ Stays(q) \/ OtherWakes(q)
         \/ item \in ItemsOf(q) /\ (Enqueues(q, item) \/ PassesOn(q, item))
<1> DEFINE p == item.txq
           e == Enqueue(txQueue[p], item)
           overflow == WouldOverflow(txQueue[p], item.size)
<1>1. /\ p \in TxQueues /\ e \in TxQueue /\ txQueue[p] \in TxQueue
      /\ txQueue \in [TxQueues -> TxQueue]
      /\ ~overflow => e.packets = Append(txQueue[p].packets, item)
  BY ItemTyped, TypeParts, EnqueueType DEF TypeInv, QueuesTyped
<1>2. Half' = Half
  <2>1. pc = "run" /\ (RunEnd \/ UNCHANGED <<pc, disc, after>>)
    BY RunEnds DEF Transmit
  <2> QED
    BY <2>1 DEF RunEnd, Half
<1>3. ~overflow => e.packets # <<>> /\ Head(e.packets) \in Items
  <2>1. txQueue[p].packets \in Seq(Items) /\ e.packets \in Seq(Items)
    BY <1>1 DEF TxQueue
  <2>2. Append(txQueue[p].packets, item) # <<>>
    BY <2>1
  <2> QED
    BY <1>1, <2>1, <2>2, HeadTail
<1>4. overflow => item \in discarded'
  BY DEF Transmit
<1>5. CASE takes /\ ~overflow
  <2> DEFINE w == WakeEvent(p, Head(e.packets))
  <2>1. /\ txQueue' = [txQueue EXCEPT ![p] = Dequeued(e)]
        /\ wakeEvents' = Append(wakeEvents, w)
    BY <1>5, Zenon DEF Transmit
  <2>2. w \in Wakes /\ w.txq = p
    BY <1>1, <1>3, <1>5, WakeEventTyped DEF Wakes, WakeEvent
  <2>3. CASE p = q
    <3>1. txQueue'[q] = Dequeued(e) /\ item \in ItemsOf(q)
      BY <1>1, <2>1, <2>3 DEF ItemsOf
    <3> QED
      BY <1>2, <1>3, <1>5, <2>1, <2>3, <3>1, Zenon DEF PassesOn
  <2>4. CASE p # q
    <3>1. txQueue'[q] = txQueue[q]
      <4> HIDE DEF e, p
      <4> QED
        BY <1>1, <2>1, <2>4
    <3> HIDE DEF w
    <3> QED
      BY <1>2, <2>1, <2>2, <2>4, <3>1 DEF OtherWakes
  <2> QED
    BY <2>3, <2>4
<1>6. CASE ~(takes /\ ~overflow)
  <2>1. txQueue' = [txQueue EXCEPT ![p] = e] /\ UNCHANGED wakeEvents
    BY <1>6, Zenon DEF Transmit
  <2>2. CASE p = q
    <3>1. txQueue'[q] = e /\ item \in ItemsOf(q)
      BY <1>1, <2>1, <2>2 DEF ItemsOf
    <3> QED
      BY <1>2, <1>4, <2>1, <2>2, <3>1, Zenon DEF Enqueues
  <2>3. CASE p # q
    <3>1. txQueue'[q] = txQueue[q]
      <4> HIDE DEF e, p
      <4> QED
        BY <1>1, <2>1, <2>3
    <3> QED
      BY <1>2, <2>1, <3>1 DEF Stays
  <2> QED
    BY <2>2, <2>3
<1> QED
  BY <1>5, <1>6

LEMMA QueueEffects ==
  ASSUME TypeInv, NEW q \in TxQueues, [QueueNext]_queueVars
  PROVE  \/ Stays(q) \/ OtherWakes(q) \/ Dequeues(q) \/ Wakens(q)
         \/ \E item \in ItemsOf(q) : Enqueues(q, item) \/ PassesOn(q, item)
         \/ \E limit \in Limits : Completes(q, limit)
<1>1. /\ txQueue \in [TxQueues -> TxQueue] /\ wakeEvents \in Seq(Wakes)
  BY TypeParts, WakesLeftTyped DEF TypeInv, QueuesTyped
<1>2. pc # "run" => disc = 0 /\ after = "event"
  BY DEF TypeInv, OnlyInRun
<1>3. ASSUME NEW p \in TxQueues, NEW size \in Sizes, Send(p, size)
      PROVE  Stays(q)
  BY <1>2, <1>3 DEF Send, RunBegin, Stays, Half
<1>4. ASSUME NEW p \in TxQueues, Dequeue(p)
      PROVE  Dequeues(q) \/ OtherWakes(q)
  <2> DEFINE w == WakeEvent(p, Head(txQueue[p].packets))
  <2>1. /\ pc = "event" /\ after = "event" /\ UNCHANGED <<pc, after>>
        /\ txQueue[p].packets # <<>> /\ wakeEvents' = Append(wakeEvents, w)
        /\ txQueue' = [txQueue EXCEPT ![p] = Dequeued(txQueue[p])]
    BY <1>2, <1>4 DEF Dequeue, runVars
  <2>2. Half' = Half
    BY <2>1 DEF Half
  <2>3. CASE p = q
    <3>1. txQueue'[q] = Dequeued(txQueue[q])
      BY <1>1, <2>1, <2>3
    <3> QED
      BY <2>1, <2>2, <2>3, <3>1 DEF Dequeues
  <2>4. CASE p # q
    <3>1. txQueue'[q] = txQueue[q]
      BY <1>1, <2>1, <2>4
    <3>2. w \in Wakes /\ w.txq = p
      <4>1. Head(txQueue[p].packets) \in Items
        BY <1>1, <2>1, DequeuedType
      <4> QED
        BY <4>1, WakeEventTyped DEF Wakes, WakeEvent
    <3> HIDE DEF w
    <3> QED
      BY <2>1, <2>2, <2>4, <3>1, <3>2 DEF OtherWakes
  <2> QED
    BY <2>3, <2>4
<1>5. CASE NoPacketToSend \/ Requeue
  BY <1>5 DEF NoPacketToSend, Requeue, RunEnd, Stays, Half
<1>6. CASE NotifyTransmittedBytes
  <2> DEFINE h == Head(wakeEvents)
  <2>1. PICK limit \in Limits :
          /\ txQueue' = [txQueue EXCEPT ![h.txq] =
                           Completed(txQueue[h.txq], h.size, limit)]
          /\ \/ RunBegin(DiscOf(h.txq), "wake")
             \/ pc' = "wake" /\ UNCHANGED runVars
    BY <1>6, Zenon DEF NotifyTransmittedBytes
  <2>2. Half' /\ ~Half
    BY <1>2, <1>6, <2>1 DEF NotifyTransmittedBytes, RunBegin, Half
  <2> HIDE DEF h
  <2>3. txQueue'[q] = IF h.txq = q THEN Completed(txQueue[q], h.size, limit)
                      ELSE txQueue[q]
    BY <1>1, <2>1
  <2> QED
    BY <1>6, <2>2, <2>3 DEF NotifyTransmittedBytes, Completes, h
<1>7. CASE Wake
  <2> DEFINE p == Head(wakeEvents).txq
  <2>1. wakeEvents # <<>> /\ wakeEvents' = Tail(wakeEvents)
    BY <1>7 DEF Wake, TypeInv, WakePending
  <2>2. Half /\ ~Half'
    BY <1>2, <1>7 DEF Wake, RunBegin, runVars, Half
  <2>3. CASE ~txQueue[p].stoppedByDevice \/ WouldOverflow(txQueue[p], Mtu)
    <3>1. UNCHANGED txQueue
      BY <1>7, <2>3 DEF Wake
    <3> QED
      BY <2>1, <2>2, <2>3, <3>1 DEF Wakens
  <2>4. CASE ~(~txQueue[p].stoppedByDevice \/ WouldOverflow(txQueue[p], Mtu))
    <3>1. txQueue' = [txQueue EXCEPT ![p] =
                        [txQueue[p] EXCEPT !.stoppedByDevice = FALSE]]
      BY <1>7, <2>4 DEF Wake
    <3>2. \/ p = q
             /\ txQueue'[q] = [txQueue[q] EXCEPT !.stoppedByDevice = FALSE]
          \/ p # q /\ txQueue'[q] = txQueue[q]
      BY <1>1, <3>1
    <3> QED
      BY <2>1, <2>2, <2>4, <3>2 DEF Wakens
  <2> QED
    BY <2>3, <2>4
<1>8. CASE UNCHANGED queueVars
  BY <1>8 DEF queueVars, runVars, Stays, Half
<1> QED
  BY <1>3, <1>4, <1>5, <1>6, <1>7, <1>8, TransmitEffects
     DEF QueueNext, RunStep, WakeStep

LEMMA CountedKept ==
  ASSUME TypeInv, Counted, [QueueNext]_queueVars
  PROVE  Counted'
<1>1. /\ UNCHANGED configVars /\ TxQueues' = TxQueues /\ hasLimits' = hasLimits
      /\ \A q : ItemsOf(q)' = ItemsOf(q)
  BY ConfigKept, SetsKept DEF configVars, ItemsOf
<1> SUFFICES ASSUME NEW q \in TxQueues
             PROVE  QueueOf(q, txQueue'[q], WakesLeft')
  BY <1>1 DEF Counted, QueueOf
<1> DEFINE t == txQueue[q]
<1>2. /\ QueueOf(q, t, WakesLeft) /\ t \in TxQueue
      /\ m_maxSize \in [unit : {"packets", "bytes"}, value : Nat]
      /\ WakesLeft \in Seq(Wakes) /\ wakeEvents \in Seq(Wakes)
      /\ Half => wakeEvents # <<>>
  BY TypeParts, WakesLeftTyped DEF Counted, TypeInv, QueuesTyped
<1>3. CASE Stays(q)
  BY <1>2, <1>3 DEF Stays, WakesLeft
<1>4. ASSUME NEW w \in Wakes, wakeEvents' = Append(wakeEvents, w),
             Half' = Half
      PROVE  WakesLeft' = Append(WakesLeft, w)
  <2>1. Half => Tail(Append(wakeEvents, w)) = Append(Tail(wakeEvents), w)
    BY <1>2
  <2> QED
    BY <1>4, <2>1 DEF WakesLeft
<1>5. CASE OtherWakes(q)
  BY <1>2, <1>4, <1>5, OtherWakesCount DEF OtherWakes
<1>6. ASSUME NEW item \in ItemsOf(q), Enqueues(q, item)
      PROVE  QueueOf(q, txQueue'[q], WakesLeft')
  <2>1. WakesLeft' = WakesLeft
    BY <1>6 DEF Enqueues, WakesLeft
  <2> QED
    BY <1>2, <1>6, <2>1, EnqueueKeepsCount DEF Enqueues
<1>7. ASSUME NEW u \in TxQueue, u.packets # <<>>, QueueOf(q, u, WakesLeft),
             txQueue'[q] = Dequeued(u), Half' = Half,
             wakeEvents' = Append(wakeEvents, WakeEvent(q, Head(u.packets)))
      PROVE  QueueOf(q, txQueue'[q], WakesLeft')
  <2> DEFINE w == WakeEvent(q, Head(u.packets))
  <2>1. QueueOf(q, Dequeued(u), Append(WakesLeft, w))
    BY <1>2, <1>7, DequeueKeepsCount
  <2>2. w \in Wakes
    BY <1>7, DequeuedType, WakeEventTyped DEF Wakes
  <2> HIDE DEF w
  <2>3. WakesLeft' = Append(WakesLeft, w)
    BY <1>4, <1>7, <2>2 DEF w
  <2> QED
    BY <1>7, <2>1, <2>3
<1>8. ASSUME NEW item \in ItemsOf(q), PassesOn(q, item)
      PROVE  QueueOf(q, txQueue'[q], WakesLeft')
  <2> DEFINE e == Enqueue(t, item)
  <2>1. QueueOf(q, e, WakesLeft) /\ e \in TxQueue
    BY <1>2, EnqueueKeepsCount, EnqueueType, Sized
  <2>2. /\ e.packets # <<>> /\ txQueue'[q] = Dequeued(e) /\ Half' = Half
        /\ wakeEvents' = Append(wakeEvents, WakeEvent(q, Head(e.packets)))
    BY <1>8, Zenon DEF PassesOn
  <2> HIDE DEF e
  <2> QED
    BY <1>7, <2>1, <2>2
<1>9. CASE Dequeues(q)
  BY <1>2, <1>7, <1>9 DEF Dequeues
<1>10. ASSUME NEW limit \in Limits, Completes(q, limit)
       PROVE  QueueOf(q, txQueue'[q], WakesLeft')
  <2>1. /\ WakesLeft = wakeEvents /\ WakesLeft' = Tail(wakeEvents)
        /\ wakeEvents # <<>>
    BY <1>10 DEF Completes, WakesLeft
  <2>2. limit \in Nat
    BY ConstantsTyped
  <2>3. CASE Head(wakeEvents).txq = q
    BY <1>2, <1>10, <2>1, <2>2, <2>3, CompletedKeepsCount DEF Completes
  <2>4. CASE Head(wakeEvents).txq # q
    BY <1>2, <1>10, <2>1, <2>4, OtherCompletesCount DEF Completes
  <2> QED
    BY <2>3, <2>4
<1>11. CASE Wakens(q)
  <2>1. WakesLeft' = WakesLeft
    BY <1>11 DEF Wakens, WakesLeft
  <2>2. /\ txQueue'[q].packets = t.packets
        /\ txQueue'[q].m_nBytes = t.m_nBytes
        /\ txQueue'[q].uncompleted = t.uncompleted
        /\ txQueue'[q].stoppedByQueueLimits = t.stoppedByQueueLimits
    BY <1>2, <1>11 DEF Wakens, TxQueue
  <2> QED
    BY <1>2, <2>1, <2>2 DEF QueueOf
<1> QED
  BY <1>3, <1>5, <1>6, <1>8, <1>9, <1>10, <1>11, QueueEffects

\* A queue that is stopped by its device has its wake-up to come, unless a
\* packet larger than itself shut it.
Waking == \A q \in TxQueues : txQueue[q].stoppedByDevice
                                => WakeUpComes(q) \/ ShutBy(q)

\* An empty queue has room for the MTU, and for all but too large packets.
LEMMA EmptyIsNotFull ==
  ASSUME TypeInv, Counted, NEW q \in TxQueues, txQueue[q].packets = <<>>
  PROVE  /\ txQueue[q].m_nBytes = 0 /\ ~WouldOverflow(txQueue[q], Mtu)
         /\ \A item : WouldOverflow(txQueue[q], item.size) /\ item.size \in Nat
                        => TooLarge(item)
<1>1. txQueue[q].m_nBytes = 0 /\ Len(txQueue[q].packets) = 0
  BY SumOfNone DEF Counted, QueueOf
<1>2. /\ m_maxSize \in QueueSizes /\ m_maxSize.value \in Nat /\ Mtu \in Nat
      /\ m_maxSize.value >= IF m_maxSize.unit = "bytes" THEN Mtu ELSE 1
      /\ m_maxSize.unit \in {"packets", "bytes"}
  BY QueueAssumption, TypeParts DEF TypeInv
<1> QED
  BY <1>1, <1>2 DEF WouldOverflow, TooLarge

Has(s, q) == \E i \in DOMAIN s : s[i].txq = q

LEMMA HasAppended ==
  ASSUME NEW S, NEW s \in Seq(S), NEW q, NEW w \in S, Has(s, q) \/ w.txq = q
  PROVE  Has(Append(s, w), q)
<1> DEFINE u == Append(s, w)
<1>1. /\ Len(s) \in Nat /\ DOMAIN s = 1 .. Len(s)
      /\ DOMAIN u = 1 .. Len(s) + 1
      /\ \A i \in 1 .. Len(s) : u[i] = s[i]
      /\ u[Len(s) + 1] = w
  OBVIOUS
<1> HIDE DEF u
<1>2. Len(s) + 1 \in 1 .. Len(s) + 1
      /\ \A i \in 1 .. Len(s) : i \in 1 .. Len(s) + 1
  BY <1>1
<1>3. Has(u, q)
  BY <1>1, <1>2 DEF Has
<1> QED
  BY <1>3 DEF u

LEMMA HasTail ==
  ASSUME NEW S, NEW s \in Seq(S), NEW q, s # <<>>
  PROVE  /\ Has(s, q) /\ Head(s).txq # q => Has(Tail(s), q)
         /\ Has(Tail(s), q) => Has(s, q)
<1> DEFINE u == Tail(s)
<1>1. /\ Len(s) \in Nat \ {0} /\ DOMAIN s = 1 .. Len(s)
      /\ DOMAIN u = 1 .. Len(s) - 1 /\ Head(s) = s[1]
      /\ \A i \in 1 .. Len(s) - 1 : u[i] = s[i + 1]
  OBVIOUS
<1> HIDE DEF u
<1>2. ASSUME NEW i \in 1 .. Len(s), s[i].txq = q, Head(s).txq # q
      PROVE  Has(u, q)
  <2>1. i # 1
    BY <1>1, <1>2
  <2>2. i - 1 \in 1 .. Len(s) - 1 /\ (i - 1) + 1 = i
    BY <1>1, <2>1
  <2>3. u[i - 1] = s[i]
    BY <1>1, <2>2
  <2> QED
    BY <1>1, <1>2, <2>2, <2>3 DEF Has
<1>3. ASSUME NEW i \in 1 .. Len(s) - 1, u[i].txq = q
      PROVE  Has(s, q)
  <2>1. i + 1 \in 1 .. Len(s)
    BY <1>1
  <2> QED
    BY <1>1, <1>3, <2>1 DEF Has
<1>4. Has(s, q) /\ Head(s).txq # q => Has(u, q)
  BY <1>1, <1>2 DEF Has
<1>5. Has(u, q) => Has(s, q)
  BY <1>1, <1>3 DEF Has
<1> QED
  BY <1>4, <1>5 DEF u

LEMMA WakeUpIsListed ==
  ASSUME NEW q
  PROVE  /\ WakeUpComes(q) <=> txQueue[q].packets # <<>> \/ Has(wakeEvents, q)
         /\ WakeUpComes(q)'
              <=> txQueue'[q].packets # <<>> \/ Has(wakeEvents', q)
BY DEF WakeUpComes, Has

LEMMA WakingKept ==
  ASSUME TypeInv, Counted, Waking, [QueueNext]_queueVars
  PROVE  Waking'
<1>1. /\ TxQueues' = TxQueues /\ m_maxSize' = m_maxSize
      /\ \A item : TooLarge(item)' = TooLarge(item)
  BY ConfigKept, SetsKept DEF configVars, TooLarge
<1>2. discarded \subseteq discarded'
  BY DEF QueueNext, Send, Transmit, Dequeue, RunStep, WakeStep, NoPacketToSend,
         Requeue, NotifyTransmittedBytes, Wake, queueVars
<1> SUFFICES ASSUME NEW q \in TxQueues, txQueue'[q].stoppedByDevice
             PROVE  WakeUpComes(q)' \/ ShutBy(q)'
  BY <1>1 DEF Waking
<1> DEFINE t == txQueue[q]
<1>3. /\ t \in TxQueue /\ wakeEvents \in Seq(Wakes) /\ t.packets \in Seq(Items)
      /\ m_maxSize \in [unit : {"packets", "bytes"}, value : Nat]
  BY TypeParts, WakesLeftTyped DEF TypeInv, QueuesTyped, TxQueue
<1>4. ShutBy(q) => ShutBy(q)'
  BY <1>1, <1>2 DEF ShutBy
<1>5. CASE Stays(q)
  BY <1>4, <1>5 DEF Stays, Waking, WakeUpComes
<1>6. CASE OtherWakes(q)
  <2>1. PICK w \in Wakes : wakeEvents' = Append(wakeEvents, w)
    BY <1>6 DEF OtherWakes
  <2>2. txQueue'[q] = t
    BY <1>6 DEF OtherWakes
  <2>3. Has(wakeEvents, q) => Has(wakeEvents', q)
    BY <1>3, <2>1, HasAppended
  <2>4. WakeUpComes(q) => WakeUpComes(q)'
    BY <2>2, <2>3, WakeUpIsListed
  <2> QED
    BY <1>4, <2>2, <2>4 DEF Waking
<1>7. ASSUME NEW item \in ItemsOf(q), Enqueues(q, item)
      PROVE  WakeUpComes(q)' \/ ShutBy(q)'
  <2>1. item \in Items /\ item.txq = q /\ item.size \in Nat
    BY ItemTyped DEF ItemsOf
  <2>2. txQueue'[q] = Enqueue(t, item)
    BY <1>7 DEF Enqueues
  <2>3. CASE WouldOverflow(t, item.size)
    <3>1. txQueue'[q].packets = t.packets
      BY <1>3, <2>1, <2>2, <2>3, EnqueueType
    <3>2. CASE t.packets = <<>>
      <4>1. TooLarge(item)'
        BY <1>1, <2>1, <2>3, <3>2, EmptyIsNotFull
      <4>2. item \in discarded'
        BY <1>7, <2>3 DEF Enqueues
      <4> QED
        BY <2>1, <4>1, <4>2 DEF ShutBy
    <3> QED
      BY <3>1, <3>2 DEF WakeUpComes
  <2>4. CASE ~WouldOverflow(t, item.size)
    <3>1. txQueue'[q].packets = Append(t.packets, item)
      <4>1. Enqueue(t, item).packets = Append(t.packets, item)
        <5> HIDE DEF t
        <5> QED
          BY <1>3, <2>1, <2>4, EnqueueType, Zenon
      <4> QED
        BY <2>2, <4>1
    <3>2. Append(t.packets, item) # <<>>
      BY <1>3
    <3> QED
      BY <3>1, <3>2 DEF WakeUpComes
  <2> QED
    BY <2>3, <2>4
<1>8. ASSUME NEW u \in TxQueue, u.packets # <<>>,
             wakeEvents' = Append(wakeEvents, WakeEvent(q, Head(u.packets)))
      PROVE  WakeUpComes(q)'
  <2> DEFINE w == WakeEvent(q, Head(u.packets))
  <2>1. w \in Wakes /\ w.txq = q
    BY <1>8, DequeuedType, WakeEventTyped DEF Wakes, WakeEvent
  <2> HIDE DEF w
  <2>2. wakeEvents' = Append(wakeEvents, w)
    BY <1>8 DEF w
  <2>3. Has(wakeEvents', q)
    BY <1>3, <2>1, <2>2, HasAppended
  <2> QED
    BY <2>3, WakeUpIsListed
<1>9. ASSUME NEW item \in ItemsOf(q), PassesOn(q, item)
      PROVE  WakeUpComes(q)'
  <2> DEFINE e == Enqueue(t, item)
  <2>1. e \in TxQueue
    BY <1>3, EnqueueType DEF ItemsOf
  <2>2. e.packets # <<>>
        /\ wakeEvents' = Append(wakeEvents, WakeEvent(q, Head(e.packets)))
    BY <1>9, Zenon DEF PassesOn
  <2> HIDE DEF e
  <2> QED
    BY <1>8, <2>1, <2>2
<1>10. CASE Dequeues(q)
  BY <1>3, <1>8, <1>10 DEF Dequeues
<1>11. ASSUME NEW limit \in Limits, Completes(q, limit)
       PROVE  WakeUpComes(q)' \/ ShutBy(q)'
  <2> DEFINE z == Head(wakeEvents).size
  <2>1. z \in Nat /\ limit \in Nat
    BY <1>3, <1>11, HeadTail, Sized, ConstantsTyped DEF Completes
  <2>2. /\ txQueue'[q] \in {t, Completed(t, z, limit)} /\ UNCHANGED wakeEvents
    BY <1>11 DEF Completes
  <2>3. /\ txQueue'[q].packets = t.packets
        /\ txQueue'[q].stoppedByDevice = t.stoppedByDevice
    <3> HIDE DEF t, z
    <3>1. /\ Completed(t, z, limit).packets = t.packets
          /\ Completed(t, z, limit).stoppedByDevice = t.stoppedByDevice
      BY <1>3, <2>1, CompletedType
    <3> QED
      BY <2>2, <3>1
  <2> QED
    BY <1>4, <2>2, <2>3 DEF Waking, WakeUpComes
<1>12. CASE Wakens(q)
  <2>1. /\ txQueue'[q] = t
        /\ Head(wakeEvents).txq # q \/ WouldOverflow(t, Mtu)
    BY <1>3, <1>12, StoppedSet DEF Wakens
  <2>2. wakeEvents # <<>> /\ wakeEvents' = Tail(wakeEvents)
    BY <1>12 DEF Wakens
  <2>3. CASE WouldOverflow(t, Mtu)
    <3>1. t.packets # <<>>
      BY <2>3, EmptyIsNotFull
    <3> QED
      BY <2>1, <3>1 DEF WakeUpComes
  <2>4. CASE Head(wakeEvents).txq # q
    <3>1. WakeUpComes(q) \/ ShutBy(q)
      BY <2>1 DEF Waking
    <3>2. Has(wakeEvents, q) => Has(wakeEvents', q)
      BY <1>3, <2>2, <2>4, HasTail
    <3>3. WakeUpComes(q) => WakeUpComes(q)'
      BY <2>1, <3>2, WakeUpIsListed
    <3> QED
      BY <1>4, <3>1, <3>3
  <2> QED
    BY <2>1, <2>3, <2>4
<1> QED
  BY <1>5, <1>6, <1>7, <1>9, <1>10, <1>11, <1>12, QueueEffects

\* Whatever stops a queue, its wake-up is to come.
LEMMA StoppedWakes ==
  ASSUME TypeInv, Counted, Waking, NEW q \in TxQueues, Stopped(q)
  PROVE  WakeUpComes(q) \/ ShutBy(q)
<1> DEFINE t == txQueue[q]
<1>1. CASE t.stoppedByDevice
  BY <1>1 DEF Waking
<1>2. CASE t.stoppedByQueueLimits /\ t.packets = <<>>
  <2>1. /\ hasLimits /\ t.uncompleted > 0 /\ t.m_nBytes = 0
        /\ SumsTo(q, WakesLeft, t.uncompleted - t.m_nBytes)
    BY <1>2, EmptyIsNotFull DEF Counted, QueueOf
  <2>2. t.uncompleted - t.m_nBytes > 0
    <3>1. t.uncompleted \in Int
      BY TypeParts DEF TypeInv, QueuesTyped, TxQueue
    <3> QED
      BY <2>1, <3>1
  <2>3. \E j \in 1 .. Len(WakesLeft) : WakesLeft[j].txq = q
    BY <2>1, <2>2, WakesLeftTyped, SumHasShare
  <2>4. Has(WakesLeft, q)
    BY <2>3, WakesLeftTyped DEF Has
  <2>5. Has(wakeEvents, q)
    BY <2>4, WakesLeftTyped, HasTail DEF WakesLeft
  <2> QED
    BY <2>5, WakeUpIsListed
<1> QED
  BY <1>1, <1>2 DEF Stopped, IsStopped, WakeUpComes

LEMMA WakingInit ==
  ASSUME QueueInit
  PROVE  Counted /\ Waking
<1>1. /\ wakeEvents = <<>> /\ pc = "event" /\ after = "event"
      /\ \A q \in TxQueues :
           txQueue[q] = [packets |-> <<>>, m_nBytes |-> 0,
                         stoppedByDevice |-> FALSE,
                         stoppedByQueueLimits |-> FALSE,
                         uncompleted |-> 0, available |-> 0]
  BY DEF QueueInit
<1>2. WakesLeft = <<>>
  BY <1>1 DEF WakesLeft, Half
<1>3. 0 - 0 = 0 /\ \A S : <<>> \in Seq(S)
  OBVIOUS
<1>4. ASSUME NEW q \in TxQueues
      PROVE  QueueOf(q, txQueue[q], WakesLeft)
  <2>1. /\ txQueue[q].packets = <<>> /\ txQueue[q].m_nBytes = 0
        /\ txQueue[q].uncompleted = 0 /\ ~txQueue[q].stoppedByQueueLimits
    BY <1>1
  <2>2. SumsTo(q, <<>>, 0)
    BY SumOfNone
  <2>3. txQueue[q].uncompleted - txQueue[q].m_nBytes = 0
    BY <1>3, <2>1
  <2> QED
    BY <1>2, <1>3, <2>1, <2>2, <2>3, Zenon DEF QueueOf
<1>5. Waking
  BY <1>1 DEF Waking
<1> QED
  BY <1>4, <1>5 DEF Counted

-----------------------------------------------------------------------------
(* No packet is stranded: a queue disc that holds packets, and neither     *)
(* runs nor used up its quota, has a stopped queue that will run it.       *)

\* The packets of a queue disc are for its own transmission queues.
HomeItems(d) == {item \in Items : DiscOf(item.txq) = d}
Home == \A d \in TxQueues : /\ m_requeued[d] \subseteq HomeItems(d)
                            /\ discQueue[d] \in Seq(HomeItems(d))

Holds(d) == discQueue[d] # <<>> \/ m_requeued[d] # {}
HasStopped(d) == \E q \in TxQueues : DiscOf(q) = d /\ Stopped(q)
Served == \A d \in TxQueues \ outOfQuota :
            d # disc /\ Holds(d) => HasStopped(d)

\* What Run may go on with, and what is behind it in the disc.
LEMMA DequeuableHome ==
  ASSUME TypeInv, Home, disc \in TxQueues, NEW item \in Dequeuable
  PROVE  /\ item \in HomeItems(disc)
         /\ m_requeued[disc] = {} => Tail(discQueue[disc])
                                       \in Seq(HomeItems(disc))
<1>1. /\ discQueue[disc] \in Seq(HomeItems(disc))
      /\ m_requeued[disc] \subseteq HomeItems(disc)
  BY DEF Home
<1>2. \/ m_requeued[disc] # {} /\ item \in m_requeued[disc]
      \/ /\ m_requeued[disc] = {} /\ discQueue[disc] # <<>>
         /\ item = Head(discQueue[disc])
  BY DequeuableTyped DEF TypeInv
<1>3. CASE m_requeued[disc] # {}
  BY <1>1, <1>2, <1>3
<1>4. CASE m_requeued[disc] = {}
  <2>1. discQueue[disc] # <<>> /\ item = Head(discQueue[disc])
    BY <1>2, <1>4
  <2> QED
    BY <1>1, <2>1, HeadTail, Zenon
<1> QED
  BY <1>3, <1>4

LEMMA HomeKept ==
  ASSUME TypeInv, Home, [QueueNext]_queueVars
  PROVE  Home'
<1> USE TypeParts DEF TypeInv
<1>1. /\ TxQueues' = TxQueues /\ Items' = Items
      /\ \A q : DiscOf(q)' = DiscOf(q)
  BY ConfigKept, SetsKept
<1>2. \A d : HomeItems(d)' = HomeItems(d)
  BY <1>1 DEF HomeItems
<1> SUFFICES ASSUME NEW d \in TxQueues
             PROVE  /\ m_requeued'[d] \subseteq HomeItems(d)
                    /\ discQueue'[d] \in Seq(HomeItems(d))
  BY <1>1, <1>2 DEF Home
<1>3. /\ discQueue[d] \in Seq(HomeItems(d))
      /\ m_requeued[d] \subseteq HomeItems(d)
  BY DEF Home
<1>4. CASE UNCHANGED <<discQueue, m_requeued>>
  BY <1>3, <1>4
<1>5. ASSUME NEW q \in TxQueues, NEW size \in Sizes, Send(q, size)
      PROVE  /\ m_requeued'[d] \subseteq HomeItems(d)
             /\ discQueue'[d] \in Seq(HomeItems(d))
  <2> DEFINE item == [id |-> nSent + 1, txq |-> q, size |-> size]
  <2>1. item \in HomeItems(DiscOf(q))
    BY <1>5, ConstantsTyped DEF Send, Items, HistoryTyped, HomeItems
  <2>2. \/ discQueue' = discQueue
        \/ discQueue' = [discQueue EXCEPT ![DiscOf(q)] =
                           Append(discQueue[DiscOf(q)], item)]
    BY <1>5, Zenon DEF Send
  <2> HIDE DEF item
  <2>3. \/ discQueue'[d] = discQueue[d]
        \/ d = DiscOf(q) /\ discQueue'[d] = Append(discQueue[d], item)
    <3>1. discQueue \in [TxQueues -> Seq(Items)]
      BY DEF QueuesTyped
    <3>2. PICK s : s = Append(discQueue[DiscOf(q)], item)
      OBVIOUS
    <3>3. \/ discQueue' = discQueue
          \/ discQueue' = [discQueue EXCEPT ![DiscOf(q)] = s]
      BY <2>2, <3>2
    <3>4. \/ discQueue'[d] = discQueue[d]
          \/ d = DiscOf(q) /\ discQueue'[d] = s
      BY <3>1, <3>3, ExceptAt
    <3> QED
      BY <3>2, <3>4
  <2>4. discQueue'[d] \in Seq(HomeItems(d))
    <3>1. CASE d = DiscOf(q) /\ discQueue'[d] = Append(discQueue[d], item)
      <4>1. item \in HomeItems(d)
        BY <2>1, <3>1
      <4> QED
        BY <1>3, <3>1, <4>1
    <3> QED
      BY <1>3, <2>3, <3>1
  <2> QED
    BY <1>3, <1>5, <2>4 DEF Send
<1>6. ASSUME NEW item \in Items, NEW takes \in BOOLEAN, Transmit(item, takes)
      PROVE  /\ m_requeued'[d] \subseteq HomeItems(d)
             /\ discQueue'[d] \in Seq(HomeItems(d))
  <2>1. disc \in TxQueues /\ item \in Dequeuable /\ DequeuePacket
    BY <1>6, TransmitTyped DEF Transmit
  <2>2. CASE m_requeued[disc] # {}
    BY <1>3, <2>1, <2>2 DEF DequeuePacket, QueuesTyped
  <2>3. CASE m_requeued[disc] = {}
    <3>1. /\ discQueue' = [discQueue EXCEPT ![disc] = Tail(discQueue[disc])]
          /\ UNCHANGED m_requeued
      BY <2>1, <2>3 DEF DequeuePacket
    <3>2. \/ discQueue'[d] = discQueue[d]
          \/ d = disc /\ discQueue'[d] = Tail(discQueue[disc])
      BY <3>1, ExceptAt, Zenon DEF QueuesTyped
    <3> QED
      BY <1>3, <2>1, <2>3, <3>1, <3>2, DequeuableHome
  <2> QED
    BY <2>2, <2>3
<1>7. CASE Requeue
  <2>1. disc \in TxQueues
    BY <1>7 DEF Requeue, RunTyped, TxQueues
  <2>2. PICK item \in Dequeuable : Stopped(item.txq) /\ RequeueItem(item)
    BY <1>7 DEF Requeue
  <2>3. /\ item \in HomeItems(disc)
        /\ Tail(discQueue[disc]) \in Seq(HomeItems(disc))
    BY <2>1, <2>2, RequeuedTyped, DequeuableHome
  <2>4. \/ discQueue'[d] = discQueue[d] /\ m_requeued'[d] = m_requeued[d]
        \/ /\ d = disc
           /\ discQueue'[d] = Tail(discQueue[disc]) /\ m_requeued'[d] = {item}
    BY <2>2 DEF RequeueItem, QueuesTyped
  <2> QED
    BY <1>3, <2>3, <2>4
<1> QED
  BY <1>4, <1>5, <1>6, <1>7
     DEF QueueNext, RunStep, WakeStep, Dequeue, NoPacketToSend,
         NotifyTransmittedBytes, Wake, queueVars

\* Stops begin in a step, and end only where the queue disc runs.
LEMMA StopsKept ==
  ASSUME TypeInv, [QueueNext]_queueVars, NEW q \in TxQueues, Stopped(q)
  PROVE  IsStopped(txQueue'[q]) \/ disc' = DiscOf(q)
<1> USE TypeParts DEF TypeInv
<1>1. txQueue[q] \in TxQueue /\ IsStopped(txQueue[q])
  BY DEF QueuesTyped, Stopped
<1>2. CASE txQueue'[q] = txQueue[q]
  BY <1>1, <1>2
<1>3. ASSUME NEW item \in Items, NEW takes \in BOOLEAN, Transmit(item, takes),
             txQueue'[q] # txQueue[q]
      PROVE  IsStopped(txQueue'[q])
  <2> DEFINE t == Enqueue(txQueue[q], item)
  <2>1. txQueue'[q] = t \/ (t.packets # <<>> /\ txQueue'[q] = Dequeued(t))
    BY <1>3, TransmitQueue
  <2>2. t \in TxQueue /\ IsStopped(t)
    BY <1>1, EnqueueType
  <2> HIDE DEF t
  <2> QED
    BY <2>1, <2>2, DequeuedType DEF IsStopped
<1>4. ASSUME NEW p \in TxQueues, Dequeue(p), txQueue'[q] # txQueue[q]
      PROVE  IsStopped(txQueue'[q])
  <2>1. /\ txQueue[q].packets # <<>>
        /\ txQueue'[q] = Dequeued(txQueue[q])
    BY <1>4 DEF Dequeue, QueuesTyped
  <2> QED
    BY <1>1, <2>1, DequeuedType DEF IsStopped
<1>5. CASE NotifyTransmittedBytes /\ txQueue'[q] # txQueue[q]
  <2> DEFINE w == Head(wakeEvents)
  <2>1. PICK limit \in Limits :
          /\ txQueue' = [txQueue EXCEPT ![w.txq] =
                           Completed(txQueue[w.txq], w.size, limit)]
          /\ \/ RunBegin(DiscOf(w.txq), "wake")
             \/ ~(/\ txQueue[w.txq].stoppedByQueueLimits
                  /\ ~Completed(txQueue[w.txq], w.size, limit)
                        .stoppedByQueueLimits)
    BY <1>5, Zenon DEF NotifyTransmittedBytes
  <2>2. w.size \in Nat /\ limit \in Nat
    BY <1>5, WakeTyped, ConstantsTyped DEF NotifyTransmittedBytes
  <2>3. /\ q = w.txq
        /\ txQueue'[q] = Completed(txQueue[w.txq], w.size, limit)
    BY <1>5, <2>1, ExceptAt, Zenon DEF QueuesTyped
  <2> HIDE DEF w
  <2>4. txQueue'[q] = Completed(txQueue[q], w.size, limit)
    BY <2>3
  <2>5. CASE RunBegin(DiscOf(w.txq), "wake")
    BY <2>3, <2>5 DEF RunBegin
  <2>6. CASE txQueue[q].stoppedByQueueLimits
               => txQueue'[q].stoppedByQueueLimits
    <3>1. txQueue'[q].stoppedByDevice = txQueue[q].stoppedByDevice
      <4>1. Completed(txQueue[q], w.size, limit).stoppedByDevice
              = txQueue[q].stoppedByDevice
        BY <1>1, <2>2, CompletedType
      <4> QED
        BY <2>4, <4>1
    <3> QED
      BY <1>1, <2>6, <3>1 DEF IsStopped
  <2> QED
    BY <2>1, <2>3, <2>5, <2>6, Zenon
<1>6. CASE Wake /\ txQueue'[q] # txQueue[q]
  <2>1. q = Head(wakeEvents).txq
    BY <1>6 DEF Wake, QueuesTyped
  <2>2. RunBegin(DiscOf(Head(wakeEvents).txq), "event")
    BY <1>6 DEF Wake
  <2> QED
    BY <2>1, <2>2 DEF RunBegin
<1>7. (\E p \in TxQueues, size \in Sizes : Send(p, size)) \/ NoPacketToSend
        \/ Requeue \/ UNCHANGED queueVars => txQueue' = txQueue
  BY DEF Send, NoPacketToSend, Requeue, queueVars
<1> QED
  BY <1>2, <1>3, <1>4, <1>5, <1>6, <1>7 DEF QueueNext, RunStep, WakeStep

\* A Run ends with a queue that is stopped, with an empty disc, or with its
\* quota used up.
LEMMA ServedAtEnd ==
  ASSUME TypeInv, Home, disc \in TxQueues, pc = "run",
         QueueNext, disc' # disc, disc \notin outOfQuota'
  PROVE  \/ \E q \in TxQueues : DiscOf(q) = disc /\ IsStopped(txQueue'[q])
         \/ discQueue'[disc] = <<>> /\ m_requeued'[disc] = {}
<1> USE TypeParts DEF TypeInv
<1>1. ASSUME NEW item \in Items, NEW takes \in BOOLEAN, Transmit(item, takes)
      PROVE  \/ DiscOf(item.txq) = disc /\ IsStopped(txQueue'[item.txq])
             \/ discQueue'[disc] = <<>> /\ m_requeued'[disc] = {}
  <2>1. /\ item \in Dequeuable /\ DequeuePacket /\ RunGoesOn(item.txq)
    BY <1>1 DEF Transmit
  <2>2. discQueue'[disc] = <<>> \/ IsStopped(txQueue'[item.txq])
    BY <2>1 DEF RunGoesOn
  <2>3. m_requeued'[disc] = {}
    BY <2>1 DEF DequeuePacket, QueuesTyped
  <2>4. DiscOf(item.txq) = disc
    BY <2>1, DequeuableHome DEF HomeItems
  <2> QED
    BY <2>2, <2>3, <2>4
<1>2. CASE NoPacketToSend
  <2>1. Dequeuable = {} /\ UNCHANGED <<txQueue, discQueue, m_requeued>>
    BY <1>2 DEF NoPacketToSend
  <2>2. ASSUME NEW item \in m_requeued[disc]
        PROVE  item.txq \in TxQueues /\ DiscOf(item.txq) = disc
               /\ Stopped(item.txq)
    <3>1. item \in HomeItems(disc) /\ Stopped(item.txq)
      BY <2>1, <2>2 DEF Dequeuable, Home
    <3> QED
      BY <3>1, ItemTyped DEF HomeItems
  <2>3. ASSUME m_requeued[disc] = {}, discQueue[disc] # <<>>
        PROVE  Stopped(1) /\ 1 \in TxQueues /\ DiscOf(1) = disc
    <3>1. discQueue[disc] \in Seq(Items) /\ 1 \in DOMAIN discQueue[disc]
      <4>1. discQueue[disc] \in Seq(Items)
        BY DEF QueuesTyped
      <4> QED
        BY <2>3, <4>1
    <3>2. Stopped(1) /\ ~(nTxQueues > 1)
      <4>1. SUFFICES ASSUME nTxQueues > 1 \/ ~Stopped(1) PROVE FALSE
        BY Zenon
      <4>2. discQueue[disc][1] \in Dequeuable
        BY <2>3, <3>1, <4>1, Zenon DEF Dequeuable
      <4> QED
        BY <2>1, <4>2
    <3>3. nTxQueues = 1 /\ TxQueues = 1 .. 1
      BY <3>2
    <3> QED
      BY <3>2, <3>3 DEF DiscOf
  <2> QED
    BY <2>1, <2>2, <2>3 DEF Stopped
<1>3. CASE Requeue
  <2>1. PICK item \in Dequeuable : Stopped(item.txq)
    BY <1>3 DEF Requeue
  <2>2. item \in HomeItems(disc)
    BY <2>1, DequeuableHome
  <2> QED
    BY <1>3, <2>1, <2>2, ItemTyped DEF HomeItems, Requeue, Stopped
<1> QED
  BY <1>1, <1>2, <1>3, ItemTyped
     DEF QueueNext, RunStep, WakeStep, Send, Dequeue, NotifyTransmittedBytes,
         Wake

\* What other queue discs hold does not change in a step, nor whether they have
\* used up their quota.
LEMMA OthersKept ==
  ASSUME TypeInv, [QueueNext]_queueVars, NEW d \in TxQueues,
         d # disc, d # disc'
  PROVE  /\ discQueue'[d] = discQueue[d] /\ m_requeued'[d] = m_requeued[d]
         /\ d \in outOfQuota <=> d \in outOfQuota'
<1> USE TypeParts DEF TypeInv
<1>1. ASSUME NEW q \in TxQueues, NEW size \in Sizes, Send(q, size)
      PROVE  /\ discQueue'[d] = discQueue[d] /\ m_requeued'[d] = m_requeued[d]
             /\ d \in outOfQuota <=> d \in outOfQuota'
  <2>1. d # DiscOf(q) /\ UNCHANGED <<m_requeued, outOfQuota>>
    BY <1>1 DEF Send, RunBegin
  <2>2. discQueue'[d] = discQueue[d]
    BY <1>1, <2>1 DEF Send, QueuesTyped
  <2> QED
    BY <2>1, <2>2
<1>2. ASSUME NEW item \in Items, NEW takes \in BOOLEAN, Transmit(item, takes)
      PROVE  /\ discQueue'[d] = discQueue[d] /\ m_requeued'[d] = m_requeued[d]
             /\ d \in outOfQuota <=> d \in outOfQuota'
  BY <1>2 DEF Transmit, DequeuePacket, RunGoesOn, QueuesTyped
<1>3. CASE NoPacketToSend
  BY <1>3 DEF NoPacketToSend
<1>4. CASE Requeue
  BY <1>4 DEF Requeue, RequeueItem, QueuesTyped
<1> QED
  BY <1>1, <1>2, <1>3, <1>4
     DEF QueueNext, RunStep, WakeStep, Dequeue, NotifyTransmittedBytes, Wake,
         queueVars

LEMMA ServedKept ==
  ASSUME TypeInv, Home, Served, [QueueNext]_queueVars
  PROVE  Served'
<1> USE TypeParts DEF TypeInv
<1>1. TxQueues' = TxQueues /\ \A q : DiscOf(q)' = DiscOf(q)
  BY ConfigKept, SetsKept
<1> SUFFICES ASSUME NEW d \in TxQueues, d \notin outOfQuota', d # disc',
                    discQueue'[d] # <<>> \/ m_requeued'[d] # {}
             PROVE  \E q \in TxQueues :
                      DiscOf(q) = d /\ IsStopped(txQueue'[q])
  BY <1>1 DEF Served, Holds, HasStopped, Stopped
<1>2. CASE d # disc
  <2>1. PICK q \in TxQueues : DiscOf(q) = d /\ Stopped(q)
    BY <1>2, OthersKept DEF Served, Holds, HasStopped
  <2> QED
    BY <2>1, StopsKept
<1>3. CASE d = disc
  <2>1. pc = "run"
    BY <1>3 DEF OnlyInRun
  <2>2. QueueNext
    BY <1>3 DEF queueVars, runVars
  <2> QED
    BY <1>3, <2>1, <2>2, ServedAtEnd
<1> QED
  BY <1>2, <1>3

\* Between events, a queue disc that holds packets has a stopped queue whose
\* wake-up, which runs it, is still to come, for any number of queues and limits
\* that change at will; except for a disc whose last Run used up its quota with
\* all its queues open, and a queue shut by a packet larger than itself.
THEOREM NoneStrandedCorrect == QueueSpec => []NoneStranded
<1>1. QueueInit => Home /\ Served /\ Counted /\ Waking
  BY WakingInit DEF QueueInit, Home, Served, Holds
<1>2. TypeInv /\ Home /\ Served /\ Counted /\ Waking /\ [QueueNext]_queueVars
        => Home' /\ Served' /\ Counted' /\ Waking'
  BY HomeKept, ServedKept, CountedKept, WakingKept
<1>3. TypeInv /\ Served /\ Counted /\ Waking => NoneStranded
  <2> SUFFICES ASSUME TypeInv, Served, Counted, Waking, pc = "event",
                      NEW d \in TxQueues, Holds(d), ~LeftBehind(d)
               PROVE  \E q \in TxQueues : /\ DiscOf(q) = d /\ Stopped(q)
                                          /\ WakeUpComes(q) \/ ShutBy(q)
    BY DEF NoneStranded, Holds
  <2>1. d # disc
    BY TypeParts DEF TypeInv, OnlyInRun
  <2>2. PICK q \in TxQueues : DiscOf(q) = d /\ Stopped(q)
    BY <2>1 DEF Served, HasStopped, LeftBehind
  <2> QED
    BY <2>2, StoppedWakes
<1> QED
  BY <1>1, <1>2, <1>3, QueueTypeCorrect, PTL DEF QueueSpec

-----------------------------------------------------------------------------
(* Packets keep their order: those handed to the device before those that  *)
(* wait in the queue disc, the requeued one before the rest.               *)

Before(S, T) == \A x \in S, y \in T : x.id < y.id

\* What Append and Tail do to the packets of a sequence, and to their order.
LEMMA AppendedSet ==
  ASSUME NEW S, NEW s \in Seq(S), NEW x \in S
  PROVE  ToSet(Append(s, x)) = ToSet(s) \cup {x}
<1>1. /\ DOMAIN s = 1 .. Len(s) /\ Len(s) \in Nat
      /\ DOMAIN Append(s, x) = 1 .. Len(s) + 1
      /\ \A i \in 1 .. Len(s) : Append(s, x)[i] = s[i]
      /\ Append(s, x)[Len(s) + 1] = x
  OBVIOUS
<1>2. ASSUME NEW y \in ToSet(s) PROVE y \in ToSet(Append(s, x))
  BY <1>1 DEF ToSet
<1>3. x \in ToSet(Append(s, x))
  BY <1>1 DEF ToSet
<1>4. ASSUME NEW y \in ToSet(Append(s, x)) PROVE y \in ToSet(s) \/ y = x
  <2>1. PICK i \in 1 .. Len(s) + 1 : y = Append(s, x)[i]
    BY <1>1 DEF ToSet
  <2>2. CASE i \in 1 .. Len(s)
    BY <1>1, <2>1, <2>2 DEF ToSet
  <2>3. CASE i = Len(s) + 1
    BY <1>1, <2>1, <2>3
  <2> QED
    BY <1>1, <2>2, <2>3
<1> QED
  BY <1>2, <1>3, <1>4

LEMMA TailSet ==
  ASSUME NEW S, NEW s \in Seq(S), s # <<>>
  PROVE  ToSet(s) = {Head(s)} \cup ToSet(Tail(s))
<1>1. /\ DOMAIN s = 1 .. Len(s) /\ Len(s) \in Nat \ {0}
      /\ DOMAIN Tail(s) = 1 .. Len(s) - 1 /\ Head(s) = s[1]
      /\ \A i \in 1 .. Len(s) - 1 : Tail(s)[i] = s[i + 1]
  OBVIOUS
<1>2. ASSUME NEW y \in ToSet(Tail(s)) PROVE y \in ToSet(s)
  <2>1. PICK i \in 1 .. Len(s) - 1 : y = s[i + 1]
    BY <1>1 DEF ToSet
  <2>2. i + 1 \in 1 .. Len(s)
    BY <1>1
  <2> QED
    BY <1>1, <2>1, <2>2 DEF ToSet
<1>3. Head(s) \in ToSet(s)
  BY <1>1 DEF ToSet
<1>4. ASSUME NEW y \in ToSet(s), y # Head(s) PROVE y \in ToSet(Tail(s))
  <2>1. PICK i \in 1 .. Len(s) : y = s[i]
    BY <1>1 DEF ToSet
  <2>2. i - 1 \in 1 .. Len(s) - 1 /\ s[i] = Tail(s)[i - 1]
    BY <1>1, <1>4, <2>1
  <2> QED
    BY <1>1, <2>1, <2>2 DEF ToSet
<1> QED
  BY <1>2, <1>3, <1>4

LEMMA SetOfPackets ==
  ASSUME NEW S, NEW s \in Seq(S)
  PROVE  ToSet(s) \subseteq S
BY DEF ToSet

LEMMA AscendingAppend ==
  ASSUME NEW s \in Seq(Items), NEW x \in Items, Ascending(s),
         Before(ToSet(s), {x})
  PROVE  Ascending(Append(s, x))
<1>1. /\ DOMAIN s = 1 .. Len(s) /\ Len(s) \in Nat
      /\ Len(Append(s, x)) = Len(s) + 1
      /\ \A i \in 1 .. Len(s) : Append(s, x)[i] = s[i]
      /\ Append(s, x)[Len(s) + 1] = x
  OBVIOUS
<1> DEFINE t == Append(s, x)
<1> HIDE DEF t
<1> SUFFICES ASSUME NEW i \in 1 .. Len(s) + 1, NEW j \in 1 .. Len(s) + 1,
                    i < j
             PROVE  t[i].id < t[j].id
  BY <1>1 DEF Ascending, t
<1>2. i \in 1 .. Len(s) /\ t[i] = s[i]
  BY <1>1 DEF t
<1>3. CASE j \in 1 .. Len(s)
  BY <1>1, <1>2, <1>3 DEF Ascending, t
<1>4. CASE j = Len(s) + 1
  <2>1. s[i] \in ToSet(s)
    BY <1>1, <1>2 DEF ToSet
  <2> QED
    BY <1>1, <1>2, <1>4, <2>1 DEF Before, t
<1> QED
  BY <1>1, <1>3, <1>4

LEMMA AscendingTail ==
  ASSUME NEW s \in Seq(Items), s # <<>>, Ascending(s)
  PROVE  Ascending(Tail(s)) /\ Before({Head(s)}, ToSet(Tail(s)))
<1>1. /\ Len(s) \in Nat \ {0} /\ Len(Tail(s)) = Len(s) - 1
      /\ DOMAIN Tail(s) = 1 .. Len(s) - 1 /\ Head(s) = s[1]
      /\ \A i \in 1 .. Len(s) - 1 : Tail(s)[i] = s[i + 1]
  OBVIOUS
<1>2. ASSUME NEW i \in 1 .. Len(s) - 1, NEW j \in 1 .. Len(s) - 1, i < j
      PROVE  Tail(s)[i].id < Tail(s)[j].id
  <2>1. i + 1 \in 1 .. Len(s) /\ j + 1 \in 1 .. Len(s) /\ i + 1 < j + 1
    BY <1>1, <1>2
  <2>2. s[i + 1].id < s[j + 1].id
    BY <2>1 DEF Ascending
  <2> QED
    BY <1>1, <2>2
<1>3. ASSUME NEW y \in ToSet(Tail(s)) PROVE Head(s).id < y.id
  <2>1. PICK i \in 1 .. Len(s) - 1 : y = s[i + 1]
    BY <1>1 DEF ToSet
  <2>2. i + 1 \in 1 .. Len(s) /\ 1 \in 1 .. Len(s) /\ 1 < i + 1
    BY <1>1
  <2> QED
    BY <1>1, <2>1, <2>2 DEF Ascending
<1> QED
  BY <1>1, <1>2, <1>3 DEF Ascending, Before

LEMMA AscendingConcat ==
  ASSUME NEW s \in Seq(Items), NEW t \in Seq(Items),
         Ascending(s), Ascending(t), Before(ToSet(s), ToSet(t))
  PROVE  /\ s \o t \in Seq(Items) /\ Ascending(s \o t)
         /\ ToSet(s \o t) = ToSet(s) \cup ToSet(t)
<1> DEFINE u == s \o t
<1>1. /\ Len(s) \in Nat /\ Len(t) \in Nat /\ Len(u) = Len(s) + Len(t)
      /\ DOMAIN s = 1 .. Len(s) /\ DOMAIN t = 1 .. Len(t)
      /\ DOMAIN u = 1 .. Len(s) + Len(t) /\ u \in Seq(Items)
      /\ \A i \in 1 .. Len(s) : u[i] = s[i]
      /\ \A i \in 1 .. Len(s) + Len(t) : i > Len(s) => u[i] = t[i - Len(s)]
  OBVIOUS
<1> HIDE DEF u
<1>2. ASSUME NEW i \in 1 .. Len(u)
      PROVE  \/ i \in 1 .. Len(s) /\ u[i] = s[i] /\ s[i] \in ToSet(s)
             \/ /\ i > Len(s) /\ i - Len(s) \in 1 .. Len(t)
                /\ u[i] = t[i - Len(s)] /\ t[i - Len(s)] \in ToSet(t)
  <2>1. CASE i \in 1 .. Len(s)
    BY <1>1, <2>1 DEF ToSet
  <2>2. CASE i > Len(s)
    <3>1. i - Len(s) \in 1 .. Len(t) /\ u[i] = t[i - Len(s)]
      BY <1>1, <2>2
    <3> QED
      BY <1>1, <2>2, <3>1 DEF ToSet
  <2> QED
    BY <1>1, <2>1, <2>2
<1>3. ASSUME NEW i \in 1 .. Len(u), NEW j \in 1 .. Len(u), i < j
      PROVE  u[i].id < u[j].id
  <2>1. CASE i \in 1 .. Len(s) /\ j \in 1 .. Len(s)
    BY <1>1, <1>3, <2>1 DEF Ascending
  <2>2. CASE i \in 1 .. Len(s) /\ j > Len(s)
    BY <1>1, <1>2, <2>2 DEF Before
  <2>3. CASE i > Len(s) /\ j > Len(s)
    <3>1. /\ i - Len(s) \in 1 .. Len(t) /\ j - Len(s) \in 1 .. Len(t)
          /\ i - Len(s) < j - Len(s)
      BY <1>1, <1>3, <2>3
    <3>2. t[i - Len(s)].id < t[j - Len(s)].id
      BY <3>1 DEF Ascending
    <3> QED
      BY <1>1, <2>3, <3>2
  <2> QED
    BY <1>1, <1>3, <2>1, <2>2, <2>3
<1>4. ToSet(u) \subseteq ToSet(s) \cup ToSet(t)
  BY <1>1, <1>2 DEF ToSet
<1>5. ASSUME NEW x \in ToSet(s) PROVE x \in ToSet(u)
  BY <1>1 DEF ToSet
<1>6. ASSUME NEW x \in ToSet(t) PROVE x \in ToSet(u)
  <2>1. PICK i \in 1 .. Len(t) : x = t[i]
    BY <1>1 DEF ToSet
  <2>2. PICK j : j = Len(s) + i
    OBVIOUS
  <2>3. j \in 1 .. Len(s) + Len(t) /\ j > Len(s) /\ j - Len(s) = i
    BY <1>1, <2>2
  <2>4. u[j] = t[i]
    BY <1>1, <2>3
  <2> QED
    BY <1>1, <2>1, <2>3, <2>4 DEF ToSet
<1> QED
  BY <1>1, <1>3, <1>4, <1>5, <1>6 DEF Ascending, u

\* The sequence of a set with at most one packet.
LEMMA AtMostOne ==
  ASSUME NEW S \in SUBSET Items, \A x, y \in S : x = y
  PROVE  /\ SetToSeq(S) \in Seq(Items) /\ Ascending(SetToSeq(S))
         /\ ToSet(SetToSeq(S)) = S
<1>1. CASE S = {}
  <2>1. Cardinality(S) = 0
    BY <1>1, FS_EmptySet
  <2>2. <<>> \in [1 .. 0 -> S] /\ \A f \in [1 .. 0 -> S] : f = <<>>
    OBVIOUS
  <2>3. IsInjective(<<>>)
    BY DEF IsInjective
  <2>4. SetToSeq(S) = <<>>
    <3>1. SetToSeq(S) \in [1 .. 0 -> S]
      BY <2>1, <2>2, <2>3 DEF SetToSeq
    <3> QED
      BY <2>2, <3>1
  <2>5. ToSet(<<>>) = {}
    BY DEF ToSet
  <2>6. Ascending(<<>>)
    BY DEF Ascending
  <2>7. <<>> \in Seq(Items)
    OBVIOUS
  <2> QED
    BY <1>1, <2>4, <2>5, <2>6, <2>7, Zenon
<1>2. ASSUME NEW x \in S
      PROVE  /\ SetToSeq(S) \in Seq(Items) /\ Ascending(SetToSeq(S))
             /\ ToSet(SetToSeq(S)) = S
  <2>1. S = {x} /\ Cardinality(S) = 1
    BY <1>2, FS_Singleton
  <2>2. <<x>> \in [1 .. 1 -> S] /\ \A f \in [1 .. 1 -> S] : f = <<x>>
    BY <2>1
  <2>3. IsInjective(<<x>>)
    BY DEF IsInjective
  <2>4. SetToSeq(S) = <<x>>
    <3>1. SetToSeq(S) \in [1 .. 1 -> S]
      BY <2>1, <2>2, <2>3 DEF SetToSeq
    <3> QED
      BY <2>2, <3>1
  <2>5. ToSet(<<x>>) = {x}
    BY DEF ToSet
  <2>6. Ascending(<<x>>)
    BY DEF Ascending
  <2>7. <<x>> \in Seq(Items)
    OBVIOUS
  <2> QED
    BY <2>1, <2>4, <2>5, <2>6, <2>7
<1> QED
  BY <1>1, <1>2

\* The packets of a queue disc, and those of a transmission queue with them.
Behind(d) == m_requeued[d] \cup ToSet(discQueue[d])
Ahead(q) == ToSet(txQueue[q].packets) \cup Behind(DiscOf(q))

DiscInOrder(d) ==
  /\ Ascending(discQueue[d]) /\ Before(m_requeued[d], ToSet(discQueue[d]))
  /\ \A x, y \in m_requeued[d] : x = y
  /\ \A x \in Behind(d) : x.id <= nSent
QueueInOrder(q) ==
  /\ Ascending(txQueue[q].packets)
  /\ Before(ToSet(txQueue[q].packets), Behind(DiscOf(q)))
  /\ \A x \in ToSet(txQueue[q].packets) : x.id <= nSent
InOrder == (\A d \in TxQueues : DiscInOrder(d))
             /\ \A q \in TxQueues : QueueInOrder(q)

\* What is in the queues are packets.
LEMMA OrderTyped ==
  ASSUME TypeInv, NEW q \in TxQueues
  PROVE  /\ discQueue[q] \in Seq(Items) /\ m_requeued[q] \subseteq Items
         /\ ToSet(discQueue[q]) \subseteq Items
         /\ txQueue[q] \in TxQueue /\ txQueue[q].packets \in Seq(Items)
         /\ ToSet(txQueue[q].packets) \subseteq Items
         /\ Behind(q) \subseteq Items /\ DiscOf(q) \in TxQueues
         /\ Ahead(q) \subseteq Items
<1>1. \A p \in TxQueues :
        /\ discQueue[p] \in Seq(Items) /\ m_requeued[p] \subseteq Items
        /\ txQueue[p] \in TxQueue /\ txQueue[p].packets \in Seq(Items)
  BY TypeParts DEF TypeInv, QueuesTyped, TxQueue
<1>2. DiscOf(q) \in TxQueues
  BY TypeParts, DiscOfTyped DEF TypeInv
<1>3. \A p \in TxQueues : ToSet(discQueue[p]) \subseteq Items
  BY <1>1, SetOfPackets
<1>4. \A p \in TxQueues : ToSet(txQueue[p].packets) \subseteq Items
  BY <1>1, SetOfPackets
<1> QED
  BY <1>1, <1>2, <1>3, <1>4 DEF Behind, Ahead

LEMMA IdsNumbers ==
  ASSUME TypeInv
  PROVE  nSent \in Nat /\ \A x \in Items : x.id \in Nat \ {0}
BY ConstantsTyped, TypeParts DEF TypeInv, HistoryTyped, Items

\* The packet a Run goes on with is the first of its disc, which keeps its
\* order without it.
LEMMA FirstTaken ==
  ASSUME TypeInv, InOrder, disc \in TxQueues, NEW item \in Dequeuable,
         DequeuePacket, UNCHANGED nSent, NEW d \in TxQueues
  PROVE  /\ item \in Behind(disc)
         /\ m_requeued'[d] \cup ToSet(discQueue'[d]) \subseteq Behind(d)
         /\ Before({item}, m_requeued'[disc] \cup ToSet(discQueue'[disc]))
         /\ Ascending(discQueue'[d])
         /\ Before(m_requeued'[d], ToSet(discQueue'[d]))
         /\ \A x, y \in m_requeued'[d] : x = y
<1>1. DiscInOrder(d) /\ DiscInOrder(disc)
  BY DEF InOrder
<1>2. \/ m_requeued[disc] # {} /\ item \in m_requeued[disc]
      \/ /\ m_requeued[disc] = {} /\ discQueue[disc] # <<>>
         /\ item = Head(discQueue[disc])
  BY DequeuableTyped DEF TypeInv
<1>3. CASE m_requeued[disc] # {}
  <2>1. m_requeued' = [m_requeued EXCEPT ![disc] = {}] /\ UNCHANGED discQueue
    BY <1>3 DEF DequeuePacket
  <2>2. m_requeued \in [TxQueues -> SUBSET Items]
    BY TypeParts DEF TypeInv, QueuesTyped
  <2>3. /\ m_requeued'[disc] = {} /\ m_requeued'[d] \in {m_requeued[d], {}}
    BY <2>1, <2>2
  <2>4. item \in m_requeued[disc]
    BY <1>2, <1>3
  <2> QED
    BY <1>1, <2>1, <2>3, <2>4 DEF DiscInOrder, Behind, Before
<1>4. CASE m_requeued[disc] = {}
  <2>1. /\ discQueue' = [discQueue EXCEPT ![disc] = Tail(discQueue[disc])]
        /\ UNCHANGED m_requeued
    BY <1>4 DEF DequeuePacket
  <2>2. discQueue \in [TxQueues -> Seq(Items)]
    BY TypeParts DEF TypeInv, QueuesTyped
  <2>3. discQueue[disc] # <<>> /\ item = Head(discQueue[disc])
    BY <1>2, <1>4
  <2>4. discQueue[disc] \in Seq(Items)
    BY <2>2
  <2>5. /\ Ascending(Tail(discQueue[disc]))
        /\ Before({item}, ToSet(Tail(discQueue[disc])))
        /\ ToSet(discQueue[disc])
             = {item} \cup ToSet(Tail(discQueue[disc]))
    BY <1>1, <2>3, <2>4, AscendingTail, TailSet DEF DiscInOrder
  <2>6. discQueue'[disc] = Tail(discQueue[disc])
    BY <2>1, <2>2
  <2>7. d # disc => discQueue'[d] = discQueue[d]
    BY <2>1, <2>2
  <2>8. CASE d = disc
    BY <1>1, <1>4, <2>1, <2>5, <2>6, <2>8 DEF DiscInOrder, Behind, Before
  <2>9. CASE d # disc
    BY <1>1, <1>4, <2>1, <2>5, <2>6, <2>7, <2>9 DEF DiscInOrder, Behind, Before
  <2> QED
    BY <2>8, <2>9
<1> QED
  BY <1>3, <1>4

\* What Transmit does to the packets of a transmission queue: it adds the new
\* one, or discards it, and perhaps takes out the first.
LEMMA TransmitPackets ==
  ASSUME TypeInv, InOrder, NEW item, NEW takes \in BOOLEAN,
         Transmit(item, takes), NEW q \in TxQueues
  PROVE  /\ item \in Items /\ item.txq \in TxQueues
         /\ DiscOf(item.txq) = disc
              => Before(ToSet(txQueue[item.txq].packets), {item})
         /\ DiscOf(item.txq) = disc => Ascending(txQueue'[q].packets)
         /\ ToSet(txQueue'[q].packets)
              \subseteq ToSet(txQueue[q].packets)
                          \cup (IF q = item.txq THEN {item} ELSE {})
<1> USE TypeParts DEF TypeInv
<1>1. /\ disc \in TxQueues /\ item \in Items /\ item.txq \in TxQueues
      /\ item \in Dequeuable /\ DequeuePacket /\ UNCHANGED nSent
  BY TransmitTyped DEF Transmit
<1>2. item \in Behind(disc)
  BY <1>1, FirstTaken
<1>3. ASSUME DiscOf(item.txq) = disc
      PROVE  Before(ToSet(txQueue[item.txq].packets), {item})
  BY <1>1, <1>2, <1>3 DEF InOrder, QueueInOrder, Before
<1>4. CASE txQueue'[q] = txQueue[q]
  BY <1>1, <1>3, <1>4 DEF InOrder, QueueInOrder
<1>5. CASE txQueue'[q] # txQueue[q]
  <2> DEFINE t == Enqueue(txQueue[q], item)
  <2>1. /\ q = item.txq
        /\ txQueue'[q] = t \/ (t.packets # <<>> /\ txQueue'[q] = Dequeued(t))
    BY <1>5, TransmitQueue
  <2>2. /\ txQueue[q] \in TxQueue /\ txQueue[q].packets \in Seq(Items)
    BY OrderTyped
  <2>3. /\ t \in TxQueue
        /\ \/ t.packets = txQueue[q].packets
           \/ t.packets = Append(txQueue[q].packets, item)
    BY <1>1, <2>2, EnqueueType
  <2>4. t.packets \in Seq(Items)
    BY <2>3 DEF TxQueue
  <2>5. ToSet(t.packets) \subseteq ToSet(txQueue[q].packets) \cup {item}
    <3>1. ToSet(Append(txQueue[q].packets, item))
            = ToSet(txQueue[q].packets) \cup {item}
      BY <1>1, <2>2, AppendedSet
    <3> HIDE DEF t
    <3> QED
      BY <2>3, <3>1
  <2>6. ASSUME DiscOf(item.txq) = disc PROVE Ascending(t.packets)
    <3>1. Ascending(txQueue[q].packets)
      BY DEF InOrder, QueueInOrder
    <3>2. Ascending(Append(txQueue[q].packets, item))
      BY <1>1, <1>3, <2>1, <2>2, <2>6, <3>1, AscendingAppend
    <3> HIDE DEF t
    <3> QED
      BY <2>3, <3>1, <3>2
  <2>7. ASSUME t.packets # <<>>
        PROVE  /\ Dequeued(t).packets = Tail(t.packets)
               /\ ToSet(Tail(t.packets)) \subseteq ToSet(t.packets)
               /\ Ascending(t.packets) => Ascending(Tail(t.packets))
    <3> HIDE DEF t
    <3> QED
      BY <2>3, <2>4, <2>7, DequeuedType, TailSet, AscendingTail
  <2>8. \/ txQueue'[q].packets = t.packets
        \/ t.packets # <<>> /\ txQueue'[q].packets = Tail(t.packets)
    <3> HIDE DEF t
    <3> QED
      BY <2>1, <2>7
  <2> HIDE DEF t
  <2> QED
    BY <1>1, <1>3, <2>1, <2>5, <2>6, <2>7, <2>8
<1> QED
  BY <1>4, <1>5

\* The packets of a queue do not change when a stop of it ends.
LEMMA WakeKeepsPackets ==
  ASSUME TypeInv, WakeStep, NEW q \in TxQueues
  PROVE  txQueue'[q].packets = txQueue[q].packets
<1>1. txQueue \in [TxQueues -> TxQueue] /\ txQueue[q] \in TxQueue
  BY TypeParts DEF TypeInv, QueuesTyped
<1>2. CASE NotifyTransmittedBytes
  <2> DEFINE w == Head(wakeEvents)
  <2>1. PICK limit \in Limits :
          txQueue' = [txQueue EXCEPT ![w.txq] =
                        Completed(txQueue[w.txq], w.size, limit)]
    BY <1>2 DEF NotifyTransmittedBytes
  <2>2. w.size \in Nat /\ limit \in Nat
    BY <1>2, WakeTyped, ConstantsTyped DEF NotifyTransmittedBytes, TypeInv
  <2> HIDE DEF w
  <2>3. txQueue'[q] \in {txQueue[q], Completed(txQueue[q], w.size, limit)}
    BY <1>1, <2>1
  <2>4. Completed(txQueue[q], w.size, limit).packets = txQueue[q].packets
    BY <1>1, <2>2, CompletedType
  <2> QED
    BY <2>3, <2>4
<1>3. CASE Wake
  <2>1. \/ txQueue'[q] = txQueue[q]
        \/ txQueue'[q] = [txQueue[q] EXCEPT !.stoppedByDevice = FALSE]
    BY <1>1, <1>3 DEF Wake
  <2> QED
    BY <1>1, <2>1, StoppedSet
<1> QED
  BY <1>2, <1>3 DEF WakeStep

\* A sufficient condition: nothing moves but the packets of one disc.
LEMMA InOrderNext ==
  ASSUME TypeInv, InOrder, [QueueNext]_queueVars,
         \A d \in TxQueues :
           /\ Ascending(discQueue'[d])
           /\ Before(m_requeued'[d], ToSet(discQueue'[d]))
           /\ \A x, y \in m_requeued'[d] : x = y
           /\ \A x \in m_requeued'[d] \cup ToSet(discQueue'[d]) : x.id <= nSent',
         \A q \in TxQueues :
           /\ Ascending(txQueue'[q].packets)
           /\ Before(ToSet(txQueue'[q].packets),
                     m_requeued'[DiscOf(q)] \cup ToSet(discQueue'[DiscOf(q)]))
           /\ \A x \in ToSet(txQueue'[q].packets) : x.id <= nSent'
  PROVE  InOrder'
<1>1. TxQueues' = TxQueues /\ \A q : DiscOf(q)' = DiscOf(q)
  BY ConfigKept, SetsKept
<1> QED
  BY <1>1 DEF InOrder, DiscInOrder, QueueInOrder, Behind

LEMMA SendInOrder ==
  ASSUME TypeInv, InOrder, NEW p \in TxQueues, NEW size \in Sizes,
         Send(p, size)
  PROVE  InOrder' /\ \A q \in TxQueues : \A x \in Ahead(q)' :
           x \in Ahead(q) \/ x.id = nSent + 1
<1> DEFINE d == DiscOf(p)
           item == [id |-> nSent + 1, txq |-> p, size |-> size]
<1>1. /\ nSent \in Nat /\ nSent' = nSent + 1
      /\ UNCHANGED <<m_requeued, txQueue>>
      /\ UNCHANGED configVars
  BY IdsNumbers DEF Send
<1>2. d \in TxQueues /\ discQueue[d] \in Seq(Items)
  BY OrderTyped
<1>3. item \in Items /\ item.id = nSent + 1
  BY <1>1, ConstantsTyped DEF Send, Items
<1>4. \/ discQueue' = discQueue
      \/ discQueue' = [discQueue EXCEPT ![d] = Append(discQueue[d], item)]
  BY Zenon DEF Send
<1>5. discQueue \in [TxQueues -> Seq(Items)]
  BY TypeParts DEF TypeInv, QueuesTyped
<1> HIDE DEF item, d
<1>6. ASSUME NEW c \in TxQueues
      PROVE  /\ Ascending(discQueue'[c])
             /\ Before(m_requeued'[c], ToSet(discQueue'[c]))
             /\ \A x, y \in m_requeued'[c] : x = y
             /\ \A x \in m_requeued'[c] \cup ToSet(discQueue'[c]) :
                  x \in Behind(c) \/ x = item
             /\ \A x \in m_requeued'[c] \cup ToSet(discQueue'[c]) :
                  x.id <= nSent'
  <2>1. /\ DiscInOrder(c) /\ discQueue[c] \in Seq(Items)
        /\ \A x \in Behind(c) : x \in Items /\ x.id \in Nat /\ x.id <= nSent
    BY <1>1, OrderTyped, IdsNumbers DEF InOrder, DiscInOrder
  <2>2. CASE discQueue'[c] = discQueue[c]
    BY <1>1, <2>1, <2>2 DEF DiscInOrder, Behind
  <2>3. CASE discQueue'[c] = Append(discQueue[c], item)
    <3>1. ToSet(Append(discQueue[c], item)) = ToSet(discQueue[c]) \cup {item}
      BY <1>3, <2>1, AppendedSet
    <3>2. Before(Behind(c), {item})
      BY <1>1, <1>3, <2>1 DEF Before
    <3>3. Ascending(Append(discQueue[c], item))
      BY <1>3, <2>1, <3>2, AscendingAppend DEF DiscInOrder, Behind, Before
    <3> QED
      BY <1>1, <1>3, <2>1, <2>3, <3>1, <3>2, <3>3
         DEF DiscInOrder, Behind, Before
  <2>4. \/ discQueue'[c] = discQueue[c]
        \/ discQueue'[c] = Append(discQueue[c], item)
    BY <1>4, <1>5
  <2> QED
    BY <2>2, <2>3, <2>4
<1>7. ASSUME NEW q \in TxQueues
      PROVE  /\ Ascending(txQueue'[q].packets)
             /\ Before(ToSet(txQueue'[q].packets),
                       m_requeued'[DiscOf(q)] \cup ToSet(discQueue'[DiscOf(q)]))
             /\ \A x \in ToSet(txQueue'[q].packets) : x.id <= nSent'
  <2>1. /\ QueueInOrder(q) /\ DiscOf(q) \in TxQueues
        /\ \A x \in ToSet(txQueue[q].packets) : x.id \in Nat /\ x.id <= nSent
    BY OrderTyped, IdsNumbers DEF InOrder, QueueInOrder
  <2> QED
    BY <1>1, <1>3, <1>6, <2>1 DEF QueueInOrder, Before
<1>8. InOrder'
  <2>1. [QueueNext]_queueVars
    BY DEF QueueNext
  <2> QED
    BY <1>6, <1>7, <2>1, InOrderNext
<1>9. ASSUME NEW q \in TxQueues, NEW x \in Ahead(q)'
      PROVE  x \in Ahead(q) \/ x.id = nSent + 1
  <2>1. DiscOf(q)' = DiscOf(q) /\ DiscOf(q) \in TxQueues
    BY <1>1, SetsKept, OrderTyped
  <2> QED
    BY <1>1, <1>3, <1>6, <1>9, <2>1 DEF Ahead, Behind
<1> QED
  BY <1>8, <1>9

LEMMA TransmitInOrder ==
  ASSUME TypeInv, Home, InOrder, NEW item, NEW takes \in BOOLEAN,
         Transmit(item, takes)
  PROVE  InOrder' /\ \A q \in TxQueues : Ahead(q)' \subseteq Ahead(q)
<1>1. /\ disc \in TxQueues /\ item \in Items /\ item.txq \in TxQueues
      /\ item \in Dequeuable /\ DequeuePacket /\ UNCHANGED nSent
      /\ UNCHANGED configVars
  BY TransmitTyped DEF Transmit, TypeInv
<1>2. DiscOf(item.txq) = disc
  BY <1>1, DequeuableHome DEF HomeItems
<1>3. ASSUME NEW d \in TxQueues
      PROVE  /\ item \in Behind(disc)
             /\ m_requeued'[d] \cup ToSet(discQueue'[d]) \subseteq Behind(d)
             /\ Before({item}, m_requeued'[disc] \cup ToSet(discQueue'[disc]))
             /\ Ascending(discQueue'[d])
             /\ Before(m_requeued'[d], ToSet(discQueue'[d]))
             /\ \A x, y \in m_requeued'[d] : x = y
  BY <1>1, FirstTaken
<1>4. ASSUME NEW d \in TxQueues
      PROVE  \A x \in m_requeued'[d] \cup ToSet(discQueue'[d]) : x.id <= nSent'
  BY <1>1, <1>3 DEF InOrder, DiscInOrder
<1>5. ASSUME NEW q \in TxQueues
      PROVE  /\ Ascending(txQueue'[q].packets)
             /\ ToSet(txQueue'[q].packets)
                  \subseteq ToSet(txQueue[q].packets)
                              \cup (IF q = item.txq THEN {item} ELSE {})
  BY <1>2, TransmitPackets
<1>6. ASSUME NEW q \in TxQueues
      PROVE  Before(ToSet(txQueue'[q].packets),
                    m_requeued'[DiscOf(q)] \cup ToSet(discQueue'[DiscOf(q)]))
  <2>1. DiscOf(q) \in TxQueues
    BY OrderTyped
  <2>2. QueueInOrder(q)
    BY DEF InOrder
  <2>3. ASSUME NEW x \in ToSet(txQueue'[q].packets),
               NEW y \in m_requeued'[DiscOf(q)] \cup ToSet(discQueue'[DiscOf(q)])
        PROVE  x.id < y.id
    <3>1. y \in Behind(DiscOf(q))
      BY <1>3, <2>1, <2>3
    <3>2. CASE x \in ToSet(txQueue[q].packets)
      BY <2>2, <3>1, <3>2 DEF QueueInOrder, Before
    <3>3. CASE q = item.txq /\ x = item
      BY <1>2, <1>3, <2>3, <3>3, <2>1 DEF Before
    <3> QED
      BY <1>5, <3>2, <3>3
  <2> QED
    BY <2>3 DEF Before
<1>7. ASSUME NEW q \in TxQueues
      PROVE  \A x \in ToSet(txQueue'[q].packets) : x.id <= nSent'
  BY <1>1, <1>3, <1>5 DEF InOrder, DiscInOrder, QueueInOrder
<1>8. InOrder'
  <2>1. [QueueNext]_queueVars
    BY <1>1 DEF QueueNext
  <2> QED
    BY <1>3, <1>4, <1>5, <1>6, <1>7, <2>1, InOrderNext
<1>9. ASSUME NEW q \in TxQueues PROVE Ahead(q)' \subseteq Ahead(q)
  <2>1. DiscOf(q)' = DiscOf(q) /\ DiscOf(q) \in TxQueues
    BY <1>1, SetsKept, OrderTyped
  <2>2. m_requeued'[DiscOf(q)] \cup ToSet(discQueue'[DiscOf(q)])
          \subseteq Behind(DiscOf(q))
    BY <1>3, <2>1
  <2>3. Ahead(q)' = ToSet(txQueue'[q].packets)
                      \cup (m_requeued'[DiscOf(q)] \cup ToSet(discQueue'[DiscOf(q)]))
    BY <2>1 DEF Ahead, Behind
  <2>4. CASE q = item.txq
    BY <1>1, <1>2, <1>3, <1>5, <2>2, <2>3, <2>4 DEF Ahead
  <2>5. CASE q # item.txq
    BY <1>5, <2>2, <2>3, <2>5 DEF Ahead
  <2> QED
    BY <2>4, <2>5
<1> QED
  BY <1>8, <1>9

LEMMA RequeueInOrder ==
  ASSUME TypeInv, InOrder, Requeue
  PROVE  InOrder' /\ \A q \in TxQueues : Ahead(q)' \subseteq Ahead(q)
<1>1. /\ disc \in TxQueues /\ UNCHANGED <<txQueue, nSent>>
      /\ UNCHANGED configVars
  BY TypeParts DEF Requeue, RunTyped, TxQueues, TypeInv
<1>2. PICK item \in Dequeuable : Stopped(item.txq) /\ RequeueItem(item)
  BY DEF Requeue
<1>3. /\ item \in Items /\ m_requeued[disc] = {}
      /\ discQueue[disc] # <<>> /\ item = Head(discQueue[disc])
      /\ discQueue[disc] \in Seq(Items)
  BY <1>1, <1>2, RequeuedTyped, OrderTyped DEF TypeInv
<1>4. /\ discQueue' = [discQueue EXCEPT ![disc] = Tail(discQueue[disc])]
      /\ m_requeued' = [m_requeued EXCEPT ![disc] = {item}]
  BY <1>2 DEF RequeueItem
<1>5. /\ discQueue \in [TxQueues -> Seq(Items)]
      /\ m_requeued \in [TxQueues -> SUBSET Items]
  BY TypeParts DEF TypeInv, QueuesTyped
<1>6. DiscInOrder(disc)
  BY <1>1 DEF InOrder
<1>7. /\ Ascending(Tail(discQueue[disc]))
      /\ Before({item}, ToSet(Tail(discQueue[disc])))
      /\ ToSet(discQueue[disc]) = {item} \cup ToSet(Tail(discQueue[disc]))
  BY <1>3, <1>6, AscendingTail, TailSet DEF DiscInOrder
<1>8. discQueue'[disc] = Tail(discQueue[disc]) /\ m_requeued'[disc] = {item}
  BY <1>1, <1>4, <1>5
<1>9. ASSUME NEW d \in TxQueues
      PROVE  /\ Ascending(discQueue'[d])
             /\ Before(m_requeued'[d], ToSet(discQueue'[d]))
             /\ \A x, y \in m_requeued'[d] : x = y
             /\ m_requeued'[d] \cup ToSet(discQueue'[d]) = Behind(d)
  <2>1. CASE d = disc
    BY <1>3, <1>7, <1>8, <2>1 DEF Behind
  <2>2. CASE d # disc
    <3>1. discQueue'[d] = discQueue[d] /\ m_requeued'[d] = m_requeued[d]
      BY <1>4, <1>5, <2>2
    <3> QED
      BY <3>1 DEF InOrder, DiscInOrder, Behind
  <2> QED
    BY <2>1, <2>2
<1>10. ASSUME NEW q \in TxQueues
       PROVE  DiscOf(q)' = DiscOf(q) /\ DiscOf(q) \in TxQueues
                /\ QueueInOrder(q) /\ DiscInOrder(q)
  BY <1>1, SetsKept, OrderTyped DEF InOrder
<1>11. InOrder'
  <2>1. [QueueNext]_queueVars
    BY DEF QueueNext, RunStep
  <2> QED
    BY <1>1, <1>9, <1>10, <2>1, InOrderNext DEF QueueInOrder, DiscInOrder
<1> QED
  BY <1>1, <1>9, <1>10, <1>11 DEF Ahead, Behind

LEMMA DequeueInOrder ==
  ASSUME TypeInv, InOrder, NEW p \in TxQueues, Dequeue(p)
  PROVE  /\ InOrder' /\ \A q \in TxQueues : Ahead(q)' \subseteq Ahead(q)
         /\ Head(txQueue[p].packets) \in Ahead(p)
         /\ Before({Head(txQueue[p].packets)}, Ahead(p)')
<1> DEFINE s == txQueue[p].packets
<1>1. /\ s # <<>> /\ UNCHANGED <<discQueue, m_requeued, nSent>>
      /\ txQueue' = [txQueue EXCEPT ![p] = Dequeued(txQueue[p])]
      /\ UNCHANGED configVars
  BY DEF Dequeue
<1>2. /\ txQueue[p] \in TxQueue /\ s \in Seq(Items)
      /\ txQueue \in [TxQueues -> TxQueue]
  BY OrderTyped, TypeParts DEF TypeInv, QueuesTyped
<1>3. txQueue'[p].packets = Tail(s)
  BY <1>1, <1>2, DequeuedType
<1>4. QueueInOrder(p)
  BY DEF InOrder
<1>5. /\ Ascending(Tail(s)) /\ Before({Head(s)}, ToSet(Tail(s)))
      /\ ToSet(s) = {Head(s)} \cup ToSet(Tail(s))
  BY <1>1, <1>2, <1>4, AscendingTail, TailSet DEF QueueInOrder
<1>6. ASSUME NEW q \in TxQueues
      PROVE  /\ Ascending(txQueue'[q].packets)
             /\ ToSet(txQueue'[q].packets) \subseteq ToSet(txQueue[q].packets)
  <2>1. CASE q = p
    BY <1>3, <1>5, <2>1
  <2>2. CASE q # p
    <3>1. txQueue'[q] = txQueue[q]
      BY <1>1, <1>2, <2>2
    <3> QED
      BY <3>1 DEF InOrder, QueueInOrder
  <2> QED
    BY <2>1, <2>2
<1>7. ASSUME NEW q \in TxQueues
      PROVE  DiscOf(q)' = DiscOf(q) /\ DiscOf(q) \in TxQueues
               /\ QueueInOrder(q) /\ DiscInOrder(q)
  BY <1>1, SetsKept, OrderTyped DEF InOrder
<1>8. InOrder'
  <2>1. [QueueNext]_queueVars
    BY DEF QueueNext
  <2>2. ASSUME NEW d \in TxQueues
        PROVE  /\ Ascending(discQueue'[d])
               /\ Before(m_requeued'[d], ToSet(discQueue'[d]))
               /\ \A x, y \in m_requeued'[d] : x = y
               /\ \A x \in m_requeued'[d] \cup ToSet(discQueue'[d]) :
                    x.id <= nSent'
    BY <1>1, <1>7 DEF DiscInOrder, Behind
  <2>3. ASSUME NEW q \in TxQueues
        PROVE  /\ Ascending(txQueue'[q].packets)
               /\ Before(ToSet(txQueue'[q].packets),
                         m_requeued'[DiscOf(q)] \cup ToSet(discQueue'[DiscOf(q)]))
               /\ \A x \in ToSet(txQueue'[q].packets) : x.id <= nSent'
    BY <1>1, <1>6, <1>7 DEF QueueInOrder, Behind, Before
  <2> QED
    BY <2>1, <2>2, <2>3, InOrderNext
<1>9. ASSUME NEW q \in TxQueues PROVE Ahead(q)' \subseteq Ahead(q)
  BY <1>1, <1>6, <1>7 DEF Ahead, Behind
<1>10. Head(s) \in Ahead(p)
  BY <1>5 DEF Ahead
<1>11. Before({Head(s)}, Ahead(p)')
  <2>1. Ahead(p)' = ToSet(Tail(s)) \cup Behind(DiscOf(p))
    BY <1>1, <1>3, <1>7 DEF Ahead, Behind
  <2> QED
    BY <1>4, <1>5, <2>1 DEF QueueInOrder, Before
<1> QED
  BY <1>8, <1>9, <1>10, <1>11

\* In every step the packets keep their order, and those of a transmission
\* queue, with those behind it, are some of those there were, and perhaps a new
\* one.
LEMMA InOrderKept ==
  ASSUME TypeInv, Home, InOrder, [QueueNext]_queueVars
  PROVE  InOrder' /\ \A q \in TxQueues : \A x \in Ahead(q)' :
           x \in Ahead(q) \/ (nSent' = nSent + 1 /\ x.id = nSent + 1)
<1>1. ASSUME NEW p \in TxQueues, NEW size \in Sizes, Send(p, size)
      PROVE  InOrder' /\ \A q \in TxQueues : \A x \in Ahead(q)' :
               x \in Ahead(q) \/ (nSent' = nSent + 1 /\ x.id = nSent + 1)
  <2>1. nSent' = nSent + 1
    BY <1>1 DEF Send
  <2> QED
    BY <1>1, <2>1, SendInOrder
<1>2. ASSUME NEW item \in Items, NEW takes \in BOOLEAN, Transmit(item, takes)
      PROVE  InOrder' /\ \A q \in TxQueues : Ahead(q)' \subseteq Ahead(q)
  BY <1>2, TransmitInOrder
<1>3. CASE Requeue
  BY <1>3, RequeueInOrder
<1>4. ASSUME NEW p \in TxQueues, Dequeue(p)
      PROVE  InOrder' /\ \A q \in TxQueues : Ahead(q)' \subseteq Ahead(q)
  BY <1>4, DequeueInOrder
<1>5. CASE NoPacketToSend \/ WakeStep \/ UNCHANGED queueVars
  <2>1. UNCHANGED <<discQueue, m_requeued, nSent>> /\ UNCHANGED configVars
    BY <1>5 DEF NoPacketToSend, WakeStep, NotifyTransmittedBytes, Wake,
                queueVars
  <2>2. \A q \in TxQueues : txQueue'[q].packets = txQueue[q].packets
    BY <1>5, WakeKeepsPackets DEF NoPacketToSend, queueVars
  <2>3. \A q \in TxQueues : DiscOf(q)' = DiscOf(q) /\ DiscOf(q) \in TxQueues
    BY <2>1, SetsKept, OrderTyped
  <2>4. TxQueues' = TxQueues
    BY <2>1, SetsKept
  <2> QED
    BY <2>1, <2>2, <2>3, <2>4
       DEF InOrder, DiscInOrder, QueueInOrder, Ahead, Behind
<1> QED
  BY <1>1, <1>2, <1>3, <1>4, <1>5 DEF QueueNext, RunStep

-----------------------------------------------------------------------------
(* PointToPoint.  The refinement.                                          *)

LEMMA HandDownTransmits ==
  ASSUME TypeInv, HandDown
  PROVE  \E item \in Items, takes \in BOOLEAN :
           /\ Transmit(item, takes) /\ disc \in TxQueues
           /\ \/ /\ IsLink /\ LinkSend(item) /\ UNCHANGED lastReceived
                 /\ takes = (m_txMachineState = "READY")
              \/ ~IsLink /\ UNCHANGED linkVars
<1>1. PICK item \in Dequeuable :
        /\ disc \in TxQueues
        /\ IF IsLink THEN LinkSend(item) /\ UNCHANGED lastReceived
           ELSE \E takes \in BOOLEAN :
                  Transmit(item, takes) /\ UNCHANGED linkVars
  BY DEF HandDown
<1>2. item \in Items
  BY <1>1, DequeuableTyped DEF TypeInv
<1>3. CASE IsLink
  <2>1. LinkSend(item) /\ UNCHANGED lastReceived
    BY <1>1, <1>3
  <2>2. Transmit(item, m_txMachineState = "READY")
    BY <2>1 DEF LinkSend
  <2>3. (m_txMachineState = "READY") \in BOOLEAN
    OBVIOUS
  <2> QED
    BY <1>1, <1>2, <1>3, <2>1, <2>2, <2>3, Zenon
<1>4. CASE ~IsLink
  BY <1>1, <1>2, <1>4, Zenon
<1> QED
  BY <1>3, <1>4

LEMMA StepImplements ==
  ASSUME TypeInv, [Next]_vars
  PROVE  [QueueNext]_queueVars
<1>1. CASE \E q \in TxQueues, size \in Sizes : SendStep(q, size)
  BY <1>1 DEF SendStep, QueueNext
<1>2. CASE RunOrWake
  BY <1>2 DEF RunOrWake, QueueNext
<1>3. CASE HandDown
  BY <1>3, HandDownTransmits DEF QueueNext
<1>4. CASE TransmitComplete
  <2>1. 1 \in TxQueues
    BY TypeParts DEF TypeInv
  <2> QED
    BY <1>4, <2>1, Zenon DEF TransmitComplete, QueueNext
<1>5. CASE Receive
  BY <1>5 DEF Receive
<1>6. CASE \E q \in TxQueues : FreeDequeue(q)
  BY <1>6 DEF FreeDequeue, QueueNext
<1>7. CASE UNCHANGED vars
  BY <1>7 DEF vars
<1> QED
  BY <1>1, <1>2, <1>3, <1>4, <1>5, <1>6, <1>7 DEF Next

\* The link does to its queue, and to the queue disc above it, only what
\* traffic control grants to every device: TransmitComplete dequeues with the
\* trace that schedules the wake-up, Send enqueues and takes at once.
THEOREM ImplementsQueueSpec == Spec => QueueSpec
<1>1. Init => QueueInit /\ TypeInv
  BY InitTyped
     DEF Init, QueueInit, TypeInv, WakePending, OnlyInRun
<1>2. TypeInv /\ [Next]_vars => TypeInv' /\ [QueueNext]_queueVars
  BY StepImplements, TypeKept, WakeKept DEF TypeInv
<1> QED
  BY <1>1, <1>2, PTL DEF Spec, QueueSpec

\* Below any number of queue discs of any size, no link and no device with
\* several queues is handed a packet it has no room for, and none strands one.
COROLLARY LinkKeepsPackets == Spec => [](NeverDiscards /\ NoneStranded)
BY ImplementsQueueSpec, NeverDiscardsCorrect, NoneStrandedCorrect, PTL

-----------------------------------------------------------------------------
(* The link.                                                               *)

LinkTyped == /\ m_txMachineState \in {"READY", "BUSY"}
             /\ wire \in Seq(Items)
             /\ lastReceived \in 0 .. MaxPackets

\* A device that is ready has nothing to send, and nothing waits aside.
ReadyIsEmpty ==
  IsLink => /\ m_requeued[1] = {}
            /\ m_txMachineState = "READY" => txQueue[1].packets = <<>>

\* The link enqueues the packet, or discards it; if it is ready, it sends the
\* first of its queue.
LEMMA LinkSendTyped ==
  ASSUME TypeInv, IsLink, NEW item \in Items, LinkSend(item),
         disc \in TxQueues
  PROVE  LET t == Enqueue(txQueue[1], item) IN
         /\ item.txq = 1 /\ 1 \in TxQueues /\ t \in TxQueue
         /\ \/ t.packets = txQueue[1].packets
            \/ /\ t.packets = Append(txQueue[1].packets, item)
               /\ t.packets # <<>> /\ Head(t.packets) \in Items
<1> DEFINE t == Enqueue(txQueue[1], item)
<1>1. nTxQueues = 1 /\ TxQueues = {1} /\ item.txq = 1
  BY TypeParts, ItemTyped DEF TypeInv, IsLink
<1>2. txQueue[1] \in TxQueue /\ t \in TxQueue
  BY <1>1, TypeParts, EnqueueType DEF TypeInv, QueuesTyped
<1>3. \/ t.packets = txQueue[1].packets
      \/ t.packets = Append(txQueue[1].packets, item)
  BY <1>2, TypeParts, EnqueueType DEF TypeInv
<1>4. txQueue[1].packets \in Seq(Items)
  BY <1>2 DEF TxQueue
<1>5. Append(txQueue[1].packets, item) # <<>>
        /\ Head(Append(txQueue[1].packets, item)) \in Items
  <2>1. Append(txQueue[1].packets, item) \in Seq(Items)
        /\ Append(txQueue[1].packets, item) # <<>>
    BY <1>4
  <2> QED
    BY <2>1, HeadTail
<1> HIDE DEF t
<1> QED
  BY <1>1, <1>2, <1>3, <1>5 DEF t

LEMMA LinkTypeKept ==
  ASSUME TypeInv, LinkTyped, [Next]_vars
  PROVE  LinkTyped'
<1>1. Items' = Items
  BY StepImplements, ConfigKept, SetsKept
<1> SUFFICES /\ m_txMachineState' \in {"READY", "BUSY"}
             /\ wire' \in Seq(Items) /\ lastReceived' \in 0 .. MaxPackets
  BY <1>1 DEF LinkTyped
<1>2. CASE UNCHANGED linkVars
  BY <1>2 DEF linkVars, LinkTyped
<1>3. CASE HandDown
  <2>1. PICK item \in Items :
          /\ disc \in TxQueues
          /\ \/ IsLink /\ LinkSend(item) /\ UNCHANGED lastReceived
             \/ UNCHANGED linkVars
    BY <1>3, HandDownTransmits
  <2>2. CASE IsLink /\ LinkSend(item) /\ UNCHANGED lastReceived
    <3> DEFINE t == Enqueue(txQueue[1], item)
    <3>1. \/ t.packets = txQueue[1].packets
          \/ t.packets # <<>> /\ Head(t.packets) \in Items
      BY <2>1, <2>2, LinkSendTyped
    <3>2. \/ UNCHANGED <<m_txMachineState, wire>>
          \/ /\ t.packets # txQueue[1].packets
             /\ TransmitStart(Head(t.packets))
      BY <2>2, Zenon DEF LinkSend
    <3> HIDE DEF t
    <3> QED
      BY <2>2, <3>1, <3>2 DEF TransmitStart, LinkTyped
  <2> QED
    BY <1>2, <2>1, <2>2
<1>4. CASE TransmitComplete
  <2>1. txQueue[1].packets \in Seq(Items)
    <3>1. 1 \in TxQueues /\ txQueue \in [TxQueues -> TxQueue]
      BY TypeParts DEF TypeInv, QueuesTyped
    <3>2. PICK t \in TxQueue : t = txQueue[1]
      BY <3>1
    <3> QED
      BY <3>2 DEF TxQueue
  <2>2. txQueue[1].packets # <<>> => Head(txQueue[1].packets) \in Items
    BY <2>1, HeadTail
  <2> QED
    BY <1>4, <2>2 DEF TransmitComplete, TransmitStart, LinkTyped
<1>5. CASE Receive
  <2>1. Head(wire) \in Items /\ Tail(wire) \in Seq(Items)
    BY <1>5, HeadTail DEF Receive, LinkTyped
  <2>2. Head(wire).id \in 0 .. MaxPackets
    BY <2>1, ConstantsTyped DEF Items
  <2> QED
    BY <1>5, <2>1, <2>2 DEF Receive, LinkTyped
<1> QED
  BY <1>2, <1>3, <1>4, <1>5
     DEF Next, SendStep, RunOrWake, FreeDequeue, vars

\* Every variable has its type: the wire carries packets, and a device that is
\* told to send the first of its queue finds one there.
THEOREM TypeCorrect == Spec => []TypeOK
<1>1. Init => LinkTyped
  BY ConstantsTyped DEF Init, LinkTyped
<1>2. TypeInv /\ LinkTyped /\ [Next]_vars => LinkTyped'
  BY LinkTypeKept
<1>3. TypeInv /\ LinkTyped => TypeOK
  BY DEF TypeInv, LinkTyped, TypeOK
<1> QED
  BY <1>1, <1>2, <1>3, ImplementsQueueSpec, QueueTypeCorrect, PTL DEF Spec

\* What the types come to on a link.
LEMMA LinkTypes ==
  ASSUME TypeInv, IsLink
  PROVE  /\ TxQueues = {1} /\ txQueue[1] \in TxQueue
         /\ txQueue \in [TxQueues -> TxQueue]
         /\ wakeEvents \in Seq(Wakes)
         /\ m_maxSize \in [unit : {"packets", "bytes"}, value : Nat]
         /\ discQueue \in [TxQueues -> Seq(Items)]
         /\ m_requeued \in [TxQueues -> SUBSET Items]
         /\ disc \in {0, 1} /\ DiscOf(1) = 1
         /\ \A item \in Items : item.txq = 1
         /\ \A w \in Wakes : w.txq = 1
<1>1. /\ nTxQueues = 1 /\ TxQueues = {1}
      /\ txQueue \in [TxQueues -> TxQueue] /\ wakeEvents \in Seq(Wakes)
      /\ m_maxSize \in [unit : {"packets", "bytes"}, value : Nat]
      /\ discQueue \in [TxQueues -> Seq(Items)]
      /\ m_requeued \in [TxQueues -> SUBSET Items]
      /\ disc \in 0 .. 1
  BY TypeParts DEF IsLink, TypeInv, QueuesTyped, RunTyped, Wakes
<1>2. DiscOf(1) = 1
  BY <1>1, OrderTyped
<1> QED
  BY <1>1, <1>2 DEF Items, Wakes

\* On a link nothing is requeued: a Run takes nothing out for a stopped queue.
LEMMA LinkRequeuesNothing ==
  ASSUME TypeInv, IsLink, ReadyIsEmpty
  PROVE  /\ ~Requeue
         /\ pc = "run" => disc = 1
         /\ pc = "run" => \A item \in Dequeuable :
              /\ discQueue[1] # <<>> /\ item = Head(discQueue[1])
              /\ item \in Items
         /\ pc = "run" /\ Dequeuable = {}
              => discQueue[1] = <<>> \/ Stopped(1)
<1>1. /\ TxQueues = {1} /\ m_requeued[1] = {}
      /\ discQueue[1] \in Seq(Items) /\ nTxQueues = 1
      /\ \A item \in Items : item.txq = 1
  BY LinkTypes DEF IsLink, ReadyIsEmpty
<1>2. pc = "run" => disc = 1
  BY LinkTypes, TypeParts DEF TypeInv, RunTyped
<1>3. ASSUME pc = "run", NEW item \in Dequeuable
      PROVE  /\ discQueue[1] # <<>> /\ item = Head(discQueue[1])
             /\ item \in Items /\ ~Stopped(1)
  <2>1. disc \in TxQueues
    BY <1>1, <1>2, <1>3
  <2> QED
    BY <1>1, <1>2, <1>3, <2>1, DequeuableTyped DEF Dequeuable, TypeInv
<1>4. ~Requeue
  BY <1>1, <1>3 DEF Requeue
<1>5. ASSUME pc = "run", discQueue[1] # <<>>, ~Stopped(1)
      PROVE  Dequeuable # {}
  <2>1. 1 \in DOMAIN discQueue[1]
    BY <1>1, <1>5
  <2>2. discQueue[1][1] \in Dequeuable
    BY <1>1, <1>2, <1>5, <2>1, Zenon DEF Dequeuable
  <2> QED
    BY <2>2
<1> QED
  BY <1>2, <1>3, <1>4, <1>5

LEMMA ReadyKept ==
  ASSUME TypeInv, ReadyIsEmpty, [Next]_vars
  PROVE  ReadyIsEmpty'
<1>1. IsLink' = IsLink
  BY StepImplements, ConfigKept DEF configVars, IsLink
<1> SUFFICES ASSUME IsLink
             PROVE  /\ m_requeued'[1] = {}
                    /\ m_txMachineState' = "READY"
                         => txQueue'[1].packets = <<>>
  BY <1>1 DEF ReadyIsEmpty
<1>2. /\ 1 \in TxQueues /\ TxQueues = {1} /\ m_requeued[1] = {}
      /\ m_txMachineState = "READY" => txQueue[1].packets = <<>>
  BY TypeParts DEF TypeInv, IsLink, ReadyIsEmpty
<1>3. CASE \/ \E q \in TxQueues, size \in Sizes : SendStep(q, size)
           \/ RunOrWake /\ NoPacketToSend
           \/ Receive \/ UNCHANGED vars
  BY <1>2, <1>3
     DEF SendStep, Send, RunOrWake, NoPacketToSend, Receive, linkVars, vars,
         queueVars
<1>4. CASE RunOrWake /\ WakeStep
  <2>1. UNCHANGED m_requeued /\ UNCHANGED m_txMachineState
    BY <1>4
       DEF RunOrWake, WakeStep, NotifyTransmittedBytes, Wake, linkVars
  <2> QED
    BY <1>2, <1>4, <2>1, WakeKeepsPackets
<1>5. ~Requeue
  BY LinkRequeuesNothing
<1>6. CASE HandDown
  <2>1. PICK item \in Items, takes \in BOOLEAN :
          /\ Transmit(item, takes) /\ disc \in TxQueues
          /\ LinkSend(item) /\ takes = (m_txMachineState = "READY")
    BY <1>6, HandDownTransmits
  <2>2. m_requeued'[1] = {}
    BY <1>2, <2>1, TypeParts
       DEF Transmit, DequeuePacket, TypeInv, QueuesTyped
  <2>3. ASSUME m_txMachineState' = "READY"
        PROVE  txQueue'[1].packets = <<>>
    <3> DEFINE t == Enqueue(txQueue[1], item)
    <3>1. m_txMachineState = "READY" /\ t.packets = txQueue[1].packets
      BY <2>1, <2>3, Zenon DEF LinkSend, TransmitStart
    <3>2. \/ txQueue'[1] = txQueue[1] \/ txQueue'[1] = t
          \/ t.packets # <<>>
      BY <1>2, <2>1, TransmitQueue DEF TypeInv
    <3> QED
      BY <1>2, <3>1, <3>2
  <2> QED
    BY <2>2, <2>3
<1>7. CASE TransmitComplete
  BY <1>2, <1>7
     DEF TransmitComplete, TransmitStart, Dequeue, queueVars
<1>8. ~\E q \in TxQueues : FreeDequeue(q)
  BY DEF FreeDequeue
<1> QED
  BY <1>3, <1>4, <1>5, <1>6, <1>7, <1>8 DEF Next, RunOrWake, RunStep

\* A link never sleeps over a packet of its queue, which Send and
\* TransmitComplete both start, and nothing is ever requeued above it, whatever
\* stops and wakes its queue.
THEOREM ReadyIsEmptyCorrect == Spec => []ReadyIsEmpty
<1>1. Init => ReadyIsEmpty
  BY DEF Init, QueueInit, ReadyIsEmpty, IsLink, TxQueues
<1>2. TypeInv /\ ReadyIsEmpty /\ [Next]_vars => ReadyIsEmpty'
  BY ReadyKept
<1> QED
  BY <1>1, <1>2, ImplementsQueueSpec, QueueTypeCorrect, PTL DEF Spec

-----------------------------------------------------------------------------
(* Packets arrive in the order in which they were sent.                    *)

SentInOrder ==
  /\ Ascending(wire) /\ lastReceived <= nSent
  /\ ~IsLink => wire = <<>> /\ lastReceived = 0 /\ m_txMachineState = "READY"
  /\ \A x \in ToSet(wire) : lastReceived < x.id /\ x.id <= nSent
  /\ \A q \in TxQueues : /\ Before(ToSet(wire), Ahead(q))
                         /\ \A x \in Ahead(q) : lastReceived < x.id

OrderInv == TypeInv /\ LinkTyped /\ Home /\ InOrder /\ ReadyIsEmpty

LEMMA WireTyped ==
  ASSUME OrderInv
  PROVE  /\ wire \in Seq(Items) /\ ToSet(wire) \subseteq Items
         /\ lastReceived \in Nat /\ nSent \in Nat
         /\ \A q \in TxQueues : Ahead(q) \subseteq Items
         /\ \A x \in Items : x.id \in Nat \ {0}
BY SetOfPackets, OrderTyped, IdsNumbers, ConstantsTyped
   DEF OrderInv, LinkTyped

\* What stays on the wire stays before what comes.
LEMMA WireStays ==
  ASSUME OrderInv, SentInOrder, UNCHANGED <<wire, lastReceived>>,
         UNCHANGED configVars, nSent' \in {nSent, nSent + 1},
         IsLink \/ m_txMachineState' = "READY",
         \A q \in TxQueues : \A x \in Ahead(q)' :
           x \in Ahead(q) \/ (nSent' = nSent + 1 /\ x.id = nSent + 1)
  PROVE  SentInOrder'
<1>1. TxQueues' = TxQueues /\ IsLink' = IsLink
  BY SetsKept DEF IsLink, configVars
<1>2. lastReceived' <= nSent' /\ \A x \in ToSet(wire) :
          lastReceived < x.id /\ x.id <= nSent'
  BY WireTyped DEF SentInOrder
<1>3. ASSUME NEW q \in TxQueues, NEW x \in Ahead(q)'
      PROVE  lastReceived < x.id /\ \A w \in ToSet(wire) : w.id < x.id
  <2>1. CASE x \in Ahead(q)
    BY <2>1 DEF SentInOrder, Before
  <2>2. CASE x.id = nSent + 1
    BY <2>2, WireTyped DEF SentInOrder
  <2> QED
    BY <1>3, <2>1, <2>2
<1> QED
  BY <1>1, <1>2, <1>3 DEF SentInOrder, Before

\* The device sends the first packet ahead of its queue.
LEMMA WireGrows ==
  ASSUME OrderInv, SentInOrder, IsLink, NEW x \in Items, x \in Ahead(1),
         wire' = Append(wire, x), UNCHANGED <<lastReceived, nSent>>,
         UNCHANGED configVars, x.id <= nSent,
         Ahead(1)' \subseteq Ahead(1), Before({x}, Ahead(1)')
  PROVE  SentInOrder'
<1>1. TxQueues' = TxQueues /\ IsLink' = IsLink /\ TxQueues = {1}
  BY SetsKept, TypeParts DEF IsLink, configVars, OrderInv, TypeInv
<1>2. /\ Before(ToSet(wire), Ahead(1)) /\ Ascending(wire)
      /\ \A y \in Ahead(1) : lastReceived < y.id
      /\ \A y \in ToSet(wire) : lastReceived < y.id /\ y.id <= nSent
      /\ lastReceived <= nSent
  BY <1>1 DEF SentInOrder
<1>3. Before(ToSet(wire), {x}) /\ wire \in Seq(Items)
  BY <1>2, WireTyped DEF Before
<1>4. Ascending(wire') /\ ToSet(wire') = ToSet(wire) \cup {x}
  BY <1>2, <1>3, AscendingAppend, AppendedSet
<1>5. Before(ToSet(wire'), Ahead(1)')
  BY <1>2, <1>4 DEF Before
<1> QED
  BY <1>1, <1>2, <1>4, <1>5 DEF SentInOrder

LEMMA ReceiveInOrder ==
  ASSUME OrderInv, SentInOrder, Receive
  PROVE  SentInOrder'
<1>1. /\ wire # <<>> /\ wire' = Tail(wire) /\ lastReceived' = Head(wire).id
      /\ UNCHANGED queueVars /\ UNCHANGED m_txMachineState
      /\ wire \in Seq(Items)
  BY WireTyped DEF Receive
<1>2. /\ TxQueues' = TxQueues /\ IsLink' = IsLink /\ nSent' = nSent
      /\ \A q : Ahead(q)' = Ahead(q)
  BY <1>1 DEF queueVars, configVars, TxQueues, IsLink, Ahead, Behind, DiscOf
<1>3. /\ Ascending(Tail(wire)) /\ Before({Head(wire)}, ToSet(Tail(wire)))
      /\ ToSet(wire) = {Head(wire)} \cup ToSet(Tail(wire))
  BY <1>1, AscendingTail, TailSet DEF SentInOrder
<1>4. IsLink
  BY <1>1 DEF SentInOrder
<1> QED
  BY <1>1, <1>2, <1>3, <1>4 DEF SentInOrder, Before

\* The packet that a ready link is handed is sent at once.
LEMMA LinkSendInOrder ==
  ASSUME OrderInv, SentInOrder, IsLink, NEW item \in Items, LinkSend(item),
         disc \in TxQueues, UNCHANGED lastReceived
  PROVE  SentInOrder'
<1> DEFINE t == Enqueue(txQueue[1], item)
           takes == m_txMachineState = "READY"
<1>1. /\ TxQueues = {1} /\ disc = 1 /\ item.txq = 1
      /\ TypeInv /\ Home /\ InOrder
  BY LinkSendTyped, TypeParts DEF OrderInv, TypeInv, IsLink
<1>2. /\ takes \in BOOLEAN /\ Transmit(item, takes)
      /\ UNCHANGED configVars /\ UNCHANGED nSent
  BY DEF LinkSend, Transmit
<1>3. \A q \in TxQueues : Ahead(q)' \subseteq Ahead(q)
  BY <1>1, <1>2, TransmitInOrder
<1>4. \/ UNCHANGED <<m_txMachineState, wire>>
      \/ /\ takes /\ t.packets # txQueue[1].packets
         /\ TransmitStart(Head(t.packets))
  BY Zenon DEF LinkSend
<1>5. CASE UNCHANGED wire
  BY <1>2, <1>3, <1>5, WireStays
<1>6. CASE /\ takes /\ t.packets # txQueue[1].packets
           /\ TransmitStart(Head(t.packets))
  <2>1. txQueue[1] \in TxQueue /\ txQueue[1].packets = <<>>
    BY <1>1, <1>6, OrderTyped DEF OrderInv, ReadyIsEmpty
  <2>2. t.packets = <<item>>
    <3>1. t.packets = Append(txQueue[1].packets, item)
      BY <1>6, LinkSendTyped DEF OrderInv
    <3> HIDE DEF t
    <3> QED
      BY <2>1, <3>1
  <2>3. ~WouldOverflow(txQueue[1], item.size)
    BY <1>1, <1>6, <2>1, EnqueueType, TypeParts DEF TypeInv
  <2>4. txQueue' = [txQueue EXCEPT ![1] = Dequeued(t)]
    BY <1>1, <1>2, <1>6, <2>3, Zenon DEF Transmit
  <2>5. txQueue'[1].packets = <<>>
    <3>1. t \in TxQueue /\ txQueue \in [TxQueues -> TxQueue]
      BY <1>1, <2>1, EnqueueType, TypeParts DEF TypeInv, QueuesTyped
    <3>2. Tail(<<item>>) = <<>> /\ <<item>> # <<>>
      OBVIOUS
    <3>3. Dequeued(t).packets = Tail(t.packets)
      <4>1. t.packets # <<>>
        BY <2>2, <3>2
      <4> HIDE DEF t
      <4> QED
        BY <3>1, <4>1, DequeuedType
    <3> HIDE DEF t
    <3> QED
      BY <1>1, <2>2, <2>4, <3>1, <3>2, <3>3
  <2>6. item \in Dequeuable /\ DequeuePacket
    BY <1>2 DEF Transmit
  <2>7. /\ item \in Behind(1)
        /\ Before({item}, m_requeued'[1] \cup ToSet(discQueue'[1]))
    BY <1>1, <1>2, <2>6, FirstTaken
  <2>8. DiscOf(1) = 1 /\ DiscOf(1)' = 1
    BY <1>1, <1>2, SetsKept, OrderTyped
  <2>9. item \in Ahead(1) /\ Before({item}, Ahead(1)') /\ item.id <= nSent
    <3>1. ToSet(txQueue'[1].packets) = {}
      BY <2>5 DEF ToSet
    <3> QED
      BY <1>1, <2>7, <2>8, <3>1 DEF Ahead, Behind, InOrder, DiscInOrder, Before
  <2>10. wire' = Append(wire, item)
    <3>1. Head(<<item>>) = item
      OBVIOUS
    <3> QED
      BY <1>6, <2>2, <3>1 DEF TransmitStart
  <2> QED
    BY <1>1, <1>2, <1>3, <2>9, <2>10, WireGrows
<1> QED
  BY <1>4, <1>5, <1>6

LEMMA SentKept ==
  ASSUME OrderInv, SentInOrder, [Next]_vars
  PROVE  SentInOrder'
<1>1. /\ [QueueNext]_queueVars /\ UNCHANGED configVars
      /\ TypeInv /\ Home /\ InOrder
  BY StepImplements, ConfigKept DEF OrderInv
<1>2. \A q \in TxQueues : \A x \in Ahead(q)' :
        x \in Ahead(q) \/ (nSent' = nSent + 1 /\ x.id = nSent + 1)
  BY <1>1, InOrderKept
<1>3. nSent' \in {nSent, nSent + 1}
  BY <1>1 DEF QueueNext, Send, Transmit, Dequeue, RunStep, WakeStep,
              NoPacketToSend, Requeue, NotifyTransmittedBytes, Wake, queueVars
<1>4. CASE UNCHANGED linkVars
  BY <1>1, <1>2, <1>3, <1>4, WireStays DEF linkVars, SentInOrder
<1>5. CASE HandDown
  <2>1. PICK item \in Items :
          /\ disc \in TxQueues
          /\ \/ IsLink /\ LinkSend(item) /\ UNCHANGED lastReceived
             \/ UNCHANGED linkVars
    BY <1>1, <1>5, HandDownTransmits
  <2> QED
    BY <1>4, <2>1, LinkSendInOrder
<1>6. CASE TransmitComplete
  <2>1. IsLink
    BY <1>6 DEF TransmitComplete, SentInOrder
  <2>2. UNCHANGED lastReceived
    BY <1>6 DEF TransmitComplete
  <2>3. CASE UNCHANGED wire
    BY <1>1, <1>2, <1>3, <2>1, <2>2, <2>3, WireStays
  <2>4. CASE ~UNCHANGED wire
    <3> DEFINE x == Head(txQueue[1].packets)
    <3>1. Dequeue(1) /\ wire' = Append(wire, x) /\ 1 \in TxQueues
      BY <1>1, <1>6, <2>4, TypeParts
         DEF TransmitComplete, TransmitStart, TypeInv
    <3>2. /\ x \in Ahead(1) /\ Before({x}, Ahead(1)')
          /\ Ahead(1)' \subseteq Ahead(1) /\ UNCHANGED nSent
      BY <1>1, <3>1, DequeueInOrder DEF Dequeue
    <3>3. x \in Items /\ x.id <= nSent
      <4>1. Ahead(1) \subseteq Items /\ DiscOf(1) \in TxQueues
        BY <1>1, <3>1, OrderTyped
      <4> HIDE DEF x
      <4> QED
        BY <1>1, <3>1, <3>2, <4>1
           DEF InOrder, DiscInOrder, QueueInOrder, Ahead
    <3> HIDE DEF x
    <3> QED
      BY <1>1, <2>1, <2>2, <3>1, <3>2, <3>3, WireGrows
  <2> QED
    BY <2>3, <2>4
<1>7. CASE Receive
  BY <1>7, ReceiveInOrder
<1> QED
  BY <1>4, <1>5, <1>6, <1>7
     DEF Next, SendStep, RunOrWake, FreeDequeue, vars, linkVars

\* On the way to the device and on the wire, packets are in order.
LEMMA OrderFollows ==
  ASSUME OrderInv, SentInOrder
  PROVE  OrderKept
<1> SUFFICES ASSUME NEW q \in TxQueues
             PROVE  LET s == wire \o Line(q)
                    IN /\ Ascending(s)
                       /\ \A i \in 1 .. Len(s) : lastReceived < s[i].id
  BY DEF OrderKept
<1> DEFINE d == DiscOf(q)
           p == txQueue[q].packets
           r == SetToSeq(m_requeued[d])
<1>1. /\ d \in TxQueues /\ p \in Seq(Items) /\ discQueue[d] \in Seq(Items)
      /\ m_requeued[d] \in SUBSET Items /\ wire \in Seq(Items)
  <2>1. DiscOf(q) \in TxQueues
    BY OrderTyped DEF OrderInv
  <2> QED
    BY <2>1, OrderTyped, WireTyped DEF OrderInv
<1>2. DiscInOrder(d) /\ QueueInOrder(q)
  BY <1>1 DEF OrderInv, InOrder
<1>3. r \in Seq(Items) /\ Ascending(r) /\ ToSet(r) = m_requeued[d]
  BY <1>1, <1>2, AtMostOne DEF DiscInOrder
<1>4. /\ Ascending(p) /\ Ascending(discQueue[d]) /\ Ascending(wire)
      /\ Before(ToSet(p), ToSet(r))
      /\ Before(ToSet(p) \cup ToSet(r), ToSet(discQueue[d]))
      /\ Before(ToSet(wire),
                (ToSet(p) \cup ToSet(r)) \cup ToSet(discQueue[d]))
  BY <1>2, <1>3
     DEF DiscInOrder, QueueInOrder, SentInOrder, Ahead, Behind, Before
<1>5. ASSUME NEW x \in ToSet(wire)
                         \cup ((ToSet(p) \cup ToSet(r)) \cup ToSet(discQueue[d]))
      PROVE  lastReceived < x.id
  BY <1>3, <1>5 DEF SentInOrder, Ahead, Behind
<1> HIDE DEF p, r, d
<1>6. /\ p \o r \in Seq(Items) /\ Ascending(p \o r)
      /\ ToSet(p \o r) = ToSet(p) \cup ToSet(r)
  BY <1>1, <1>3, <1>4, AscendingConcat
<1> DEFINE u == p \o r
           l == u \o discQueue[d]
           s == wire \o l
<1> HIDE DEF u
<1>7. /\ u \in Seq(Items) /\ Ascending(u)
      /\ Before(ToSet(u), ToSet(discQueue[d]))
      /\ ToSet(u) = ToSet(p) \cup ToSet(r)
  BY <1>4, <1>6 DEF u
<1>8. /\ l \in Seq(Items) /\ Ascending(l)
      /\ ToSet(l) = (ToSet(p) \cup ToSet(r)) \cup ToSet(discQueue[d])
  BY <1>1, <1>4, <1>7, AscendingConcat
<1> HIDE DEF l
<1>9. /\ s \in Seq(Items) /\ Ascending(s)
      /\ ToSet(s) = ToSet(wire) \cup ToSet(l)
  BY <1>1, <1>4, <1>8, AscendingConcat
<1>10. s = wire \o Line(q)
  BY DEF Line, l, u, p, r, d
<1> HIDE DEF s
<1>11. \A i \in 1 .. Len(s) : s[i] \in ToSet(s)
  BY <1>9 DEF ToSet
<1> QED
  BY <1>5, <1>8, <1>9, <1>10, <1>11

LEMMA OrderInit ==
  ASSUME Init
  PROVE  InOrder /\ SentInOrder /\ Home /\ ReadyIsEmpty
<1>1. /\ \A q \in TxQueues : /\ discQueue[q] = <<>> /\ m_requeued[q] = {}
                              /\ txQueue[q].packets = <<>>
      /\ nSent = 0 /\ wire = <<>> /\ lastReceived = 0
      /\ m_txMachineState = "READY"
  BY DEF Init, QueueInit
<1>2. ToSet(<<>>) = {} /\ Ascending(<<>>)
  BY DEF ToSet, Ascending
<1>3. nTxQueues \in Nat \ {0}
  BY ConstantsTyped DEF Init, QueueInit
<1>4. \A q \in TxQueues : DiscOf(q) \in TxQueues
  BY <1>3, DiscOfTyped
<1>5. \A q \in TxQueues : Behind(q) = {} /\ Ahead(q) = {}
  BY <1>1, <1>2, <1>4 DEF Behind, Ahead
<1>6. InOrder
  BY <1>1, <1>2, <1>4, <1>5
     DEF InOrder, DiscInOrder, QueueInOrder, Before
<1>7. SentInOrder
  BY <1>1, <1>2, <1>5 DEF SentInOrder, Before
<1>8. Home
  <2>1. \A S : <<>> \in Seq(S) /\ {} \subseteq S
    OBVIOUS
  <2> QED
    BY <1>1, <2>1, Zenon DEF Home
<1>9. IsLink => 1 \in TxQueues
  BY DEF IsLink, TxQueues
<1> QED
  BY <1>1, <1>6, <1>7, <1>8, <1>9 DEF ReadyIsEmpty

\* Packets go down to the transmission queues, are sent and arrive in the order
\* in which the node sent them, for any number of queues, queue discs and
\* packets, however often a queue is stopped and a packet requeued.
THEOREM OrderKeptCorrect == Spec => []OrderKept
<1>1. Init => InOrder /\ SentInOrder /\ Home /\ ReadyIsEmpty /\ LinkTyped
  BY OrderInit, ConstantsTyped DEF Init, LinkTyped
<1>2. OrderInv /\ SentInOrder /\ [Next]_vars => SentInOrder'
  BY SentKept
<1>3. TypeInv /\ LinkTyped /\ Home /\ InOrder /\ ReadyIsEmpty /\ [Next]_vars
        => LinkTyped' /\ Home' /\ InOrder' /\ ReadyIsEmpty'
  BY LinkTypeKept, StepImplements, HomeKept, InOrderKept, ReadyKept
<1>4. OrderInv /\ SentInOrder => OrderKept
  BY OrderFollows
<1> QED
  BY <1>1, <1>2, <1>3, <1>4, ImplementsQueueSpec, QueueTypeCorrect, PTL
     DEF Spec, OrderInv

-----------------------------------------------------------------------------
(* A link that is idle has nothing to send.                                *)

\* Without limits, a queue counted in packets is stopped when it is full, and
\* room for one packet is made at a time: a Run finds it stopped, or hands down
\* all there is, or fills it.
Simple == IsLink /\ ~hasLimits /\ m_maxSize.unit = "packets"
OneLess == Len(txQueue[1].packets) = m_maxSize.value - 1

FilledUp ==
  Simple =>
    /\ txQueue[1].stoppedByDevice
         => \/ Len(txQueue[1].packets) = m_maxSize.value
            \/ OneLess /\ wakeEvents # <<>>
    /\ pc # "run" /\ discQueue[1] # <<>> => txQueue[1].stoppedByDevice
    /\ pc = "run" /\ ~txQueue[1].stoppedByDevice
         => Len(discQueue[1]) <= 1 \/ OneLess

LEMMA SmallSequences ==
  ASSUME NEW S, NEW s \in Seq(S)
  PROVE  /\ \A x : Append(s, x) # <<>>
         /\ \A x \in S : s = <<>> => Len(Append(s, x)) = 1
         /\ Len(s) <= 1 /\ s # <<>> => Tail(s) = <<>>
         /\ Len(s) = 0 <=> s = <<>>
<1>1. Len(s) <= 1 /\ s # <<>> => Tail(s) = <<>>
  <2> SUFFICES ASSUME Len(s) <= 1, s # <<>> PROVE Tail(s) = <<>>
    OBVIOUS
  <2>1. Len(s) \in Nat /\ Len(s) # 0
    OBVIOUS
  <2>2. Tail(s) \in Seq(S) /\ Len(Tail(s)) = Len(s) - 1
    BY HeadTail
  <2>3. Len(Tail(s)) = 0
    BY <2>1, <2>2
  <2>4. \A t \in Seq(S) : Len(t) = 0 => t = <<>>
    OBVIOUS
  <2> QED
    BY <2>2, <2>3, <2>4
<1>2. ASSUME NEW x PROVE Append(s, x) # <<>>
  <2>1. s \in Seq(S \cup {x}) /\ x \in S \cup {x}
    OBVIOUS
  <2> QED
    BY <2>1
<1>3. \A x \in S : s = <<>> => Len(Append(s, x)) = 1
  OBVIOUS
<1>4. Len(s) = 0 <=> s = <<>>
  OBVIOUS
<1> QED
  BY <1>1, <1>2, <1>3, <1>4

LEMMA EnqueueStops ==
  ASSUME NEW t \in TxQueue, NEW item \in Items, m_maxSize.unit = "packets",
         ~t.stoppedByDevice, ~WouldOverflow(t, item.size)
  PROVE  Enqueue(t, item).stoppedByDevice
           <=> Len(t.packets) + 2 > m_maxSize.value
<1> DEFINE a == Appended(t, item)
           n == NotifyQueuedBytes(a, item.size)
           e == Enqueue(t, item)
<1>1. /\ a \in TxQueue /\ a.packets = Append(t.packets, item)
      /\ ~a.stoppedByDevice
  BY AppendedType
<1>2. Len(a.packets) = Len(t.packets) + 1 /\ Len(t.packets) \in Nat
  <2>1. t.packets \in Seq(Items)
    BY DEF TxQueue
  <2> HIDE DEF a
  <2> QED
    BY <1>1, <2>1
<1>3. n \in TxQueue /\ ~n.stoppedByDevice
  <2> HIDE DEF a
  <2> QED
    BY <1>1, QueuedType, ItemTyped
<1>4. e = [n EXCEPT !.stoppedByDevice =
             n.stoppedByDevice \/ WouldOverflow(a, Mtu)]
  BY DEF Enqueue
<1>5. WouldOverflow(a, Mtu) <=> Len(t.packets) + 2 > m_maxSize.value
  <2>1. PICK l \in Nat : l = Len(t.packets)
    BY <1>2
  <2>2. Len(a.packets) + 1 = l + 2
    BY <1>2, <2>1
  <2> HIDE DEF a
  <2> QED
    BY <2>1, <2>2 DEF WouldOverflow
<1>6. e.stoppedByDevice = (n.stoppedByDevice \/ WouldOverflow(a, Mtu))
  <2>1. (n.stoppedByDevice \/ WouldOverflow(a, Mtu)) \in BOOLEAN
    OBVIOUS
  <2> HIDE DEF a, n, e
  <2> QED
    BY <1>3, <1>4, <2>1, StoppedSet
<1> HIDE DEF a, n, e
<1> QED
  BY <1>3, <1>5, <1>6 DEF e

LEMMA LengthOfAppend ==
  ASSUME NEW S, NEW s \in Seq(S), NEW x \in S
  PROVE  Len(Append(s, x)) = Len(s) + 1 /\ Append(s, x) # <<>>
<1>1. Len(Append(s, x)) = Len(s) + 1 /\ Len(s) \in Nat
  OBVIOUS
<1>2. Len(<<>>) = 0
  OBVIOUS
<1> QED
  BY <1>1, <1>2

\* A Run of a simple link hands down one packet, and is done.
LEMMA SimpleHandsDown ==
  ASSUME TypeInv, Counted, Room, ReadyIsEmpty, FilledUp, Simple,
         NEW item \in Items, LinkSend(item)
  PROVE  /\ pc' # "run" /\ (discQueue'[1] # <<>> => txQueue'[1].stoppedByDevice)
         /\ txQueue'[1].stoppedByDevice
              => \/ Len(txQueue'[1].packets) = m_maxSize.value
                 \/ /\ Len(txQueue'[1].packets) = m_maxSize.value - 1
                    /\ wakeEvents' # <<>>
<1> DEFINE t == txQueue[1]
           e == Enqueue(t, item)
           V == m_maxSize.value
           ready == m_txMachineState = "READY"
<1>1. /\ IsLink /\ ~hasLimits /\ m_maxSize.unit = "packets"
      /\ ready \in BOOLEAN /\ Transmit(item, ready)
  BY DEF Simple, LinkSend
<1>2. /\ TxQueues = {1} /\ t \in TxQueue /\ t.packets \in Seq(Items)
      /\ txQueue \in [TxQueues -> TxQueue] /\ wakeEvents \in Seq(Wakes)
      /\ m_maxSize \in [unit : {"packets", "bytes"}, value : Nat]
      /\ discQueue \in [TxQueues -> Seq(Items)] /\ item.txq = 1
      /\ Len(t.packets) \in Nat /\ V \in Nat
  BY <1>1, LinkTypes DEF TxQueue
<1>3. /\ pc = "run" /\ disc = 1 /\ item \in Dequeuable /\ DequeuePacket
      /\ ~Stopped(1) /\ RunGoesOn(1)
      /\ discQueue[1] # <<>>
  BY <1>1, <1>2, LinkRequeuesNothing, Zenon DEF Transmit
<1>4. /\ ~t.stoppedByDevice /\ ~WouldOverflow(t, Mtu)
      /\ Len(discQueue[1]) <= 1 \/ Len(t.packets) = V - 1
  BY <1>1, <1>2, <1>3 DEF Stopped, IsStopped, Room, FilledUp, OneLess
<1>5. ~WouldOverflow(t, item.size) /\ Len(t.packets) + 1 <= V
  BY <1>1, <1>2, <1>4 DEF WouldOverflow
<1>6. /\ e \in TxQueue /\ e.packets = Append(t.packets, item)
      /\ e.stoppedByDevice <=> Len(t.packets) + 2 > V
  BY <1>1, <1>2, <1>4, <1>5, EnqueueType, EnqueueStops
<1>7. Len(e.packets) = Len(t.packets) + 1 /\ e.packets # <<>>
  <2>1. PICK s \in Seq(Items) : s = t.packets
    BY <1>2 DEF TxQueue
  <2>2. Len(Append(s, item)) = Len(s) + 1 /\ Append(s, item) # <<>>
    BY LengthOfAppend
  <2>3. e.packets = Append(s, item)
    BY <1>6, <2>1
  <2> QED
    BY <2>1, <2>2, <2>3
<1>8. /\ txQueue'[1].stoppedByDevice = e.stoppedByDevice
      /\ \/ ~ready /\ Len(txQueue'[1].packets) = Len(t.packets) + 1
         \/ /\ ready /\ Len(t.packets) = 0 /\ wakeEvents' # <<>>
            /\ Len(txQueue'[1].packets) = 0
  <2>1. CASE ready
    <3>1. /\ txQueue' = [txQueue EXCEPT ![1] = Dequeued(e)]
          /\ wakeEvents' = Append(wakeEvents, WakeEvent(1, Head(e.packets)))
      BY <1>1, <1>2, <1>5, <2>1, Zenon DEF Transmit
    <3>2. Len(t.packets) = 0
      BY <1>1, <2>1 DEF ReadyIsEmpty
    <3> HIDE DEF e
    <3>3. Dequeued(e).packets = Tail(e.packets)
          /\ Dequeued(e).stoppedByDevice = e.stoppedByDevice
          /\ e.packets \in Seq(Items)
      BY <1>6, <1>7, DequeuedType DEF TxQueue
    <3>4. Len(Tail(e.packets)) = 0
      BY <1>7, <3>2, <3>3, HeadTail
    <3>5. txQueue'[1] = Dequeued(e)
      BY <1>2, <3>1
    <3>6. \A w : Append(wakeEvents, w) # <<>>
      BY <1>2, SmallSequences
    <3> QED
      BY <2>1, <3>1, <3>2, <3>3, <3>4, <3>5, <3>6
  <2>2. CASE ~ready
    <3>1. txQueue' = [txQueue EXCEPT ![1] = e]
      BY <1>1, <1>2, <2>2, Zenon DEF Transmit
    <3> HIDE DEF e
    <3>2. txQueue'[1] = e
      BY <1>2, <3>1
    <3> QED
      BY <1>7, <2>2, <3>2
  <2> QED
    BY <2>1, <2>2
<1>9. discQueue'[1] = Tail(discQueue[1])
  BY <1>1, <1>2, <1>3 DEF DequeuePacket, ReadyIsEmpty
<1>10. discQueue'[1] = <<>> \/ txQueue'[1].stoppedByDevice
  <2>1. CASE Len(discQueue[1]) <= 1
    <3>1. discQueue[1] \in Seq(Items)
      BY <1>2
    <3>2. Tail(discQueue[1]) = <<>>
      BY <1>3, <2>1, <3>1, SmallSequences
    <3> QED
      BY <1>9, <3>2
  <2>2. CASE Len(t.packets) = V - 1
    BY <1>2, <1>6, <1>8, <2>2
  <2> QED
    BY <1>4, <2>1, <2>2
<1>11. RunEnd
  BY <1>3, <1>10 DEF RunGoesOn, IsStopped
<1>12. pc' # "run"
  BY <1>11, TypeParts DEF RunEnd, TypeInv, RunTyped
<1> HIDE DEF e, V, ready
<1>13. ASSUME txQueue'[1].stoppedByDevice
       PROVE  \/ Len(txQueue'[1].packets) = V
              \/ Len(txQueue'[1].packets) = V - 1 /\ wakeEvents' # <<>>
  <2>1. PICK n \in Nat : n = Len(t.packets)
    BY <1>2
  <2>2. n + 1 <= V /\ n + 2 > V /\ V \in Nat
    BY <1>2, <1>5, <1>6, <1>8, <1>13, <2>1
  <2>3. n + 1 = V
    BY <2>2
  <2> QED
    BY <1>8, <2>1, <2>2, <2>3
<1> QED
  BY <1>10, <1>12, <1>13 DEF V

LEMMA FilledKept ==
  ASSUME TypeInv, Counted, Room, ReadyIsEmpty, FilledUp, [Next]_vars
  PROVE  FilledUp'
<1>1. [QueueNext]_queueVars /\ UNCHANGED configVars
  BY StepImplements, ConfigKept
<1>2. /\ Simple' = Simple /\ m_maxSize' = m_maxSize
  BY <1>1 DEF configVars, Simple, IsLink
<1> DEFINE t == txQueue[1]
           V == m_maxSize.value
           N == Len(t.packets)
<1> SUFFICES
      ASSUME Simple
      PROVE  /\ txQueue'[1].stoppedByDevice
                  => \/ Len(txQueue'[1].packets) = V
                     \/ /\ Len(txQueue'[1].packets) = V - 1
                        /\ wakeEvents' # <<>>
             /\ pc' # "run" /\ discQueue'[1] # <<>>
                  => txQueue'[1].stoppedByDevice
             /\ pc' = "run" /\ ~txQueue'[1].stoppedByDevice
                  => \/ Len(discQueue'[1]) <= 1
                     \/ Len(txQueue'[1].packets) = V - 1
  BY <1>2 DEF FilledUp, OneLess
<1>3. /\ IsLink /\ ~hasLimits /\ m_maxSize.unit = "packets"
      /\ TxQueues = {1} /\ t \in TxQueue /\ t.packets \in Seq(Items)
      /\ txQueue \in [TxQueues -> TxQueue] /\ wakeEvents \in Seq(Wakes)
      /\ discQueue \in [TxQueues -> Seq(Items)] /\ discQueue[1] \in Seq(Items)
      /\ N \in Nat /\ V \in Nat /\ DiscOf(1) = 1
      /\ ~t.stoppedByQueueLimits
      /\ Len(discQueue[1]) \in Nat
  BY LinkTypes DEF Simple, TxQueue, Counted, QueueOf
<1>4. /\ t.stoppedByDevice => N = V \/ (N = V - 1 /\ wakeEvents # <<>>)
      /\ pc # "run" /\ discQueue[1] # <<>> => t.stoppedByDevice
      /\ pc = "run" /\ ~t.stoppedByDevice
           => Len(discQueue[1]) <= 1 \/ N = V - 1
  BY DEF FilledUp, OneLess
<1>5. ASSUME NEW q \in TxQueues, NEW size \in Sizes, SendStep(q, size)
      PROVE  FilledUp'
  <2> DEFINE item == [id |-> nSent + 1, txq |-> q, size |-> size]
  <2>1. /\ q = 1 /\ pc = "event" /\ pc' = "run"
        /\ UNCHANGED <<txQueue, wakeEvents>>
        /\ \/ discQueue' = discQueue
           \/ discQueue' = [discQueue EXCEPT ![1] = Append(discQueue[1], item)]
    BY <1>3, <1>5, Zenon DEF SendStep, Send, RunBegin
  <2>2. item \in Items
    BY <1>5, IdsNumbers, ConstantsTyped DEF SendStep, Send, Items
  <2> HIDE DEF item
  <2>3. discQueue'[1] \in {discQueue[1], Append(discQueue[1], item)}
    BY <1>3, <2>1
  <2>4. ASSUME ~t.stoppedByDevice PROVE Len(discQueue'[1]) <= 1
    <3>1. discQueue[1] = <<>>
      BY <1>4, <2>1, <2>4
    <3>2. Len(Append(discQueue[1], item)) = 1 /\ Len(discQueue[1]) = 0
      BY <1>3, <2>2, <3>1, SmallSequences
    <3> QED
      BY <2>3, <3>2
  <2> QED
    BY <1>2, <1>4, <2>1, <2>4 DEF FilledUp, OneLess
<1>6. CASE RunOrWake /\ NoPacketToSend
  <2>1. /\ pc = "run" /\ Dequeuable = {} /\ pc' # "run"
        /\ UNCHANGED <<txQueue, discQueue, wakeEvents>>
    BY <1>6, TypeParts DEF NoPacketToSend, RunEnd, TypeInv, RunTyped
  <2>2. discQueue[1] = <<>> \/ t.stoppedByDevice
    BY <1>3, <2>1, LinkRequeuesNothing DEF Stopped, IsStopped
  <2> QED
    BY <1>4, <2>1, <2>2
<1>7. ~Requeue
  BY <1>3, LinkRequeuesNothing
<1>8. CASE RunOrWake /\ NotifyTransmittedBytes
  <2> DEFINE w == Head(wakeEvents)
  <2>1. w.txq = 1 /\ w.size \in Nat
    BY <1>3, <1>8, WakeTyped DEF NotifyTransmittedBytes, TypeInv
  <2>2. PICK limit \in Limits :
          LET c == Completed(txQueue[w.txq], w.size, limit) IN
          /\ txQueue' = [txQueue EXCEPT ![w.txq] = c]
          /\ IF txQueue[w.txq].stoppedByQueueLimits /\ ~c.stoppedByQueueLimits
             THEN RunBegin(DiscOf(w.txq), "wake")
             ELSE pc' = "wake" /\ UNCHANGED runVars
    BY <1>8, Zenon DEF NotifyTransmittedBytes
  <2>3. Completed(txQueue[w.txq], w.size, limit) = t
    BY <1>3, <2>1 DEF Completed
  <2>4. txQueue'[1] = t /\ pc' = "wake"
    BY <1>3, <2>1, <2>2, <2>3
  <2>5. UNCHANGED <<discQueue, wakeEvents>> /\ pc = "event"
    BY <1>8 DEF NotifyTransmittedBytes
  <2> QED
    BY <1>4, <2>4, <2>5
<1>9. CASE RunOrWake /\ Wake
  <2>1. Head(wakeEvents).txq = 1 /\ UNCHANGED discQueue /\ pc = "wake"
    BY <1>3, <1>9, WakeTyped DEF Wake, TypeInv, WakePending
  <2>2. WouldOverflow(t, Mtu) <=> N + 1 > V
    BY <1>3 DEF WouldOverflow
  <2>3. CASE ~t.stoppedByDevice \/ WouldOverflow(t, Mtu)
    <3>1. pc' = "event" /\ UNCHANGED txQueue
      BY <1>9, <2>1, <2>3 DEF Wake
    <3> HIDE DEF N, V
    <3>2. t.stoppedByDevice => N = V
      BY <1>3, <1>4, <2>2, <2>3
    <3> QED
      BY <1>4, <2>1, <3>1, <3>2 DEF N
  <2>4. CASE ~(~t.stoppedByDevice \/ WouldOverflow(t, Mtu))
    <3>1. /\ pc' = "run"
          /\ txQueue' = [txQueue EXCEPT ![1] =
                           [t EXCEPT !.stoppedByDevice = FALSE]]
      BY <1>9, <2>1, <2>4 DEF Wake, RunBegin
    <3>2. txQueue'[1] = [t EXCEPT !.stoppedByDevice = FALSE]
      BY <1>3, <3>1
    <3>3. ~txQueue'[1].stoppedByDevice /\ txQueue'[1].packets = t.packets
      BY <1>3, <3>2, StoppedSet
    <3>4. N = V - 1
      <4> HIDE DEF N, V
      <4> QED
        BY <1>3, <1>4, <2>2, <2>4
    <3> QED
      BY <3>1, <3>3, <3>4
  <2> QED
    BY <2>3, <2>4
<1>10. CASE HandDown
  <2>1. PICK item \in Items : LinkSend(item)
    BY <1>3, <1>10, HandDownTransmits
  <2> QED
    BY <2>1, SimpleHandsDown
<1>11. CASE TransmitComplete
  <2>1. UNCHANGED <<discQueue, pc>> /\ pc = "event" /\ wakeEvents = <<>>
    BY <1>11 DEF TransmitComplete, Dequeue, queueVars
  <2>2. CASE UNCHANGED queueVars
    <3>1. UNCHANGED <<txQueue, wakeEvents>>
      BY <2>2 DEF queueVars
    <3> QED
      BY <1>4, <2>1, <3>1
  <2>3. CASE Dequeue(1)
    <3>1. /\ t.packets # <<>> /\ txQueue'[1] = Dequeued(t)
          /\ \E w : wakeEvents' = Append(wakeEvents, w)
      BY <1>3, <2>3 DEF Dequeue
    <3>2. wakeEvents' # <<>>
      BY <1>3, <3>1
    <3>3. /\ txQueue'[1].stoppedByDevice = t.stoppedByDevice
          /\ Len(txQueue'[1].packets) = N - 1
      BY <1>3, <3>1, DequeuedType, HeadTail
    <3> QED
      BY <1>3, <1>4, <2>1, <3>2, <3>3
  <2> QED
    BY <1>11, <2>2, <2>3 DEF TransmitComplete
<1>12. CASE Receive \/ UNCHANGED vars
  <2>1. UNCHANGED <<txQueue, wakeEvents, discQueue, pc>>
    BY <1>12 DEF Receive, vars, queueVars
  <2> QED
    BY <1>4, <2>1
<1>13. ~\E q \in TxQueues : FreeDequeue(q)
  BY <1>3 DEF FreeDequeue
<1> QED
  BY <1>2, <1>5, <1>6, <1>7, <1>8, <1>9, <1>10, <1>11, <1>12, <1>13
     DEF Next, RunOrWake, RunStep, WakeStep, FilledUp, OneLess

\* What is known of a link and of the queue disc above it.
IdleInv == TypeInv /\ Counted /\ Waking /\ Room /\ ReadyIsEmpty /\ FilledUp

LEMMA IdleInit ==
  ASSUME Init
  PROVE  Counted /\ Waking /\ Room /\ FilledUp
<1>1. Counted /\ Waking /\ Room
  BY WakingInit, EmptyHasRoom DEF Init
<1>2. /\ pc = "event"
      /\ \A q \in TxQueues :
           discQueue[q] = <<>> /\ ~txQueue[q].stoppedByDevice
  BY DEF Init, QueueInit
<1>3. IsLink => 1 \in TxQueues
  BY DEF IsLink, TxQueues
<1> QED
  BY <1>1, <1>2, <1>3 DEF FilledUp, Simple

LEMMA IdleHasNothing ==
  ASSUME IdleInv, NoneStranded
  PROVE  WorkConserving
<1> SUFFICES
      ASSUME IsLink
      PROVE  /\ m_requeued[1] = {}
             /\ IsIdle =>
                  /\ txQueue[1].packets = <<>>
                  /\ \/ discQueue[1] = <<>> \/ ShutBy(1)
                     \/ LeftBehind(1)
                          /\ (hasLimits \/ m_maxSize.unit = "bytes")
  BY DEF WorkConserving
<1>1. m_requeued[1] = {}
  BY DEF IdleInv, ReadyIsEmpty
<1>2. ASSUME IsIdle
      PROVE  /\ txQueue[1].packets = <<>> /\ wakeEvents = <<>> /\ pc = "event"
             /\ TxQueues = {1} /\ m_maxSize.unit \in {"packets", "bytes"}
  BY <1>2, LinkTypes DEF IsIdle, IdleInv, ReadyIsEmpty
<1>3. ASSUME IsIdle PROVE ~WakeUpComes(1)
  <2>1. \A i \in DOMAIN <<>> : FALSE
    OBVIOUS
  <2> QED
    BY <1>2, <1>3, <2>1 DEF WakeUpComes
<1>4. ASSUME IsIdle, discQueue[1] # <<>>, ~LeftBehind(1)
      PROVE  ShutBy(1)
  BY <1>2, <1>3, <1>4 DEF NoneStranded
<1>5. ASSUME IsIdle, discQueue[1] # <<>>,
             ~(hasLimits \/ m_maxSize.unit = "bytes")
      PROVE  ShutBy(1)
  <2>1. txQueue[1].stoppedByDevice
    BY <1>2, <1>5 DEF IdleInv, FilledUp, Simple
  <2> QED
    BY <1>2, <1>3, <1>5, <2>1 DEF IdleInv, Waking
<1> QED
  BY <1>1, <1>2, <1>4, <1>5

\* A link is idle only if there is nothing to send, for any packets, sizes and
\* limits, but for the two ways in which packets stay that nothing fetches: a
\* Run leaves them behind at its quota, or a packet larger than the queue shut it.
THEOREM WorkConservingCorrect == Spec => []WorkConserving
<1>1. Init => Counted /\ Waking /\ Room /\ FilledUp
  BY IdleInit
<1>2. IdleInv /\ [Next]_vars => Counted' /\ Waking' /\ Room' /\ FilledUp'
  BY StepImplements, CountedKept, WakingKept, RoomKept, FilledKept
     DEF IdleInv
<1>3. IdleInv /\ NoneStranded => WorkConserving
  BY IdleHasNothing
<1> QED
  BY <1>1, <1>2, <1>3, ImplementsQueueSpec, QueueTypeCorrect,
     ReadyIsEmptyCorrect, LinkKeepsPackets, PTL DEF Spec, IdleInv

=============================================================================
