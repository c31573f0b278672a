---------------------------- MODULE PointToPoint ----------------------------
(***************************************************************************)
(* The devices under traffic control.  A device with one transmission queue*)
(* is the PointToPointNetDevice of                                         *)
(* src/point-to-point/model/point-to-point-net-device.cc, one end of the   *)
(* links that are the stadium's backhaul, with its channel; a device with  *)
(* several queues is left as free as QueueDisc has it.                     *)
(*                                                                         *)
(* Times are left out: a transmission may take as long as it likes, but the*)
(* events of one moment come in the order in which they were scheduled, so *)
(* that a TransmitComplete finds no wake-up of an earlier packet pending.  *)
(* Abstracted: addresses, headers (Sizes include the one of PPP), Attach;  *)
(* the link is up.                                                         *)
(***************************************************************************)
EXTENDS QueueDisc

VARIABLES
  m_txMachineState,  \* READY or BUSY
  wire,              \* the packets whose Receive is scheduled, in order
  lastReceived       \* history: the last packet Receive was called for, or 0

linkVars == <<m_txMachineState, wire, lastReceived>>
vars     == <<queueVars, linkVars>>

IsLink == nTxQueues = 1

Init == /\ QueueInit
        /\ m_txMachineState = "READY" /\ wire = <<>> /\ lastReceived = 0

-----------------------------------------------------------------------------
\* TransmitStart of the device and of the channel.
TransmitStart(item) ==
  /\ m_txMachineState' = "BUSY"
  /\ wire' = Append(wire, item)

\* Send of the device: the packet goes into the queue, and the first one out of
\* it if the device is ready.
LinkSend(item) ==
  LET t == Enqueue(txQueue[1], item)
  IN /\ Transmit(item, m_txMachineState = "READY")
     /\ IF m_txMachineState = "READY" /\ t.packets # txQueue[1].packets
        THEN TransmitStart(Head(t.packets))
        ELSE UNCHANGED <<m_txMachineState, wire>>

\* Mutant: the packet is taken out without the trace that wakes the queue.
TransmitCompleteUntraced ==
  /\ m_txMachineState = "BUSY" /\ pc = "event" /\ wakeEvents = <<>>
  /\ IF txQueue[1].packets = <<>>
     THEN m_txMachineState' = "READY" /\ UNCHANGED <<wire, queueVars>>
     ELSE /\ TransmitStart(Head(txQueue[1].packets))
          /\ txQueue' = [txQueue EXCEPT ![1] = Dequeued(@)]
          /\ UNCHANGED <<configVars, discQueue, m_requeued, wakeEvents, pc,
                         runVars, nSent, outOfQuota, discarded>>
  /\ UNCHANGED lastReceived

\* Mutant: the next packet is left for the next Send.
TransmitCompleteIdles ==
  /\ m_txMachineState = "BUSY" /\ pc = "event" /\ wakeEvents = <<>>
  /\ m_txMachineState' = "READY" /\ UNCHANGED <<queueVars, wire, lastReceived>>

\* The next packet, if there is one, is taken out of the queue and sent.
TransmitComplete ==
  /\ m_txMachineState = "BUSY" /\ pc = "event" /\ wakeEvents = <<>>
  /\ IF txQueue[1].packets = <<>>
     THEN m_txMachineState' = "READY" /\ UNCHANGED <<queueVars, wire>>
     ELSE TransmitStart(Head(txQueue[1].packets)) /\ Dequeue(1)
  /\ UNCHANGED lastReceived

\* Receive of the device at the other end, whether its error model lets the
\* packet pass or not.
Receive ==
  /\ pc = "event" /\ wire # <<>>
  /\ wire' = Tail(wire)
  /\ lastReceived' = Head(wire).id
  /\ UNCHANGED <<queueVars, m_txMachineState>>

-----------------------------------------------------------------------------
SendStep(q, size) == Send(q, size) /\ UNCHANGED linkVars

RunOrWake == (RunStep \/ WakeStep) /\ UNCHANGED linkVars

\* The packet Run goes on with is handed to the device.
HandDown == \E d \in TxQueues : disc = d /\ \E item \in Dequeuable :
              IF IsLink THEN LinkSend(item) /\ UNCHANGED lastReceived
              ELSE \E takes \in BOOLEAN :
                     Transmit(item, takes) /\ UNCHANGED linkVars

FreeDequeue(q) == ~IsLink /\ Dequeue(q) /\ UNCHANGED linkVars

Next == \/ \E q \in TxQueues, size \in Sizes : SendStep(q, size)
        \/ RunOrWake \/ HandDown
        \/ TransmitComplete \/ Receive
        \/ \E q \in TxQueues : FreeDequeue(q)

Spec == Init /\ [][Next]_vars

\* Events that are scheduled run, handlers return, and a device with several
\* queues serves each of them.
Fairness ==
  /\ WF_vars(RunOrWake \/ HandDown)
  /\ WF_vars(TransmitComplete) /\ WF_vars(Receive)
  /\ \A q \in UNION {1 .. n : n \in NTxQueues} :
       WF_vars(q \in TxQueues /\ FreeDequeue(q))

FairSpec == Spec /\ Fairness

-----------------------------------------------------------------------------
\* Every variable has its type.
TypeOK == /\ QueueTypeOK
          /\ m_txMachineState \in {"READY", "BUSY"}
          /\ wire \in Seq(Items)
          /\ lastReceived \in 0 .. MaxPackets

\* Packets go down to the transmission queues one after the other, and are sent,
\* and on a link also arrive, in the order in which the node sent them, requeued
\* ones too.
OrderKept ==
  \A q \in TxQueues :
    LET onTheWay == wire \o Line(q)
    IN /\ Ascending(onTheWay)
       /\ \A i \in 1 .. Len(onTheWay) : lastReceived < onTheWay[i].id

\* A link is idle only if there is nothing to send: once the wake-ups have run,
\* a device that is READY has nothing in its queue, nor has the queue disc; nor is
\* anything ever requeued above it (queue-discs.rst:364-368).  Packets may stay
\* behind only where a Run has used up its quota and left the queue open (one with
\* queue limits, or counted in bytes), or where a packet larger than the
\* whole queue has shut it.
IsIdle == m_txMachineState = "READY" /\ pc = "event" /\ wakeEvents = <<>>

WorkConserving ==
  IsLink =>
    /\ m_requeued[1] = {}
    /\ IsIdle =>
         /\ txQueue[1].packets = <<>>
         /\ \/ discQueue[1] = <<>> \/ ShutBy(1)
            \/ LeftBehind(1) /\ (hasLimits \/ m_maxSize.unit = "bytes")

HasPackets(d) == d \in TxQueues /\ (discQueue[d] # <<>> \/ m_requeued[d] # {})

Shut(d) == \E q \in TxQueues : DiscOf(q) = d /\ ShutBy(q)

\* Every packet that entered a queue disc leaves it, unless a Run of the disc
\* uses up its quota and leaves every queue below it open, or a packet larger
\* than a whole queue below it shuts that one.
EveryPacketLeaves ==
  \A d \in UNION {1 .. n : n \in NTxQueues} :
    HasPackets(d) ~> ~HasPackets(d) \/ LeftBehind(d) \/ Shut(d)

=============================================================================
