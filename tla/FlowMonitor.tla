---------------------------- MODULE FlowMonitor ----------------------------
(***************************************************************************)
(* The flow monitor, class FlowMonitor of src/flow-monitor/model, with the *)
(* probes that report to it what happens to the packets on every node      *)
(* (Ipv4FlowProbe) and the classifier that numbers them                    *)
(* (Ipv4FlowClassifier).                                                   *)
(*                                                                         *)
(* The network is the environment: a packet crosses a number of routers,   *)
(* each of which may forward it, drop it and say so, or lose it without a  *)
(* word (a radio that gives up does), and takes its time about it.         *)
(*                                                                         *)
(* Abstracted: byte counts and histograms, which follow the packet counts; *)
(* the statistics each probe keeps for itself; broadcasts, fragments and   *)
(* protocols other than TCP and UDP, which the probes do not report; the   *)
(* wrap of packet numbers at 2^32.  The record of a flow exists from the   *)
(* start, with zeros.                                                      *)
(***************************************************************************)
EXTENDS Integers, FiniteSets, FiniteSetsExt, Functions

CONSTANTS Flows,           \* the flow ids
          MaxPackets,      \* bound of the model: packets of a flow
          Hops,            \* the routers between source and destination
          MaxPerHopDelay,  \* m_maxPerHopDelay
          CheckInterval,   \* PERIODIC_CHECK_INTERVAL
          Step,            \* the resolution of the model's clock
          PromptNetwork,   \* no packet stays anywhere for MaxPerHopDelay
          StartDelays,     \* the arguments of Start
          StopDelays,      \* the arguments of Stop
          MaxTime          \* bound of the model: the clock stops here

ASSUME MonitorAssumption ==
  /\ MaxPackets \in Nat /\ Hops \in Nat /\ MaxTime \in Nat
  /\ MaxPerHopDelay \in Nat \ {0} /\ CheckInterval \in Nat \ {0}
  /\ Step \in Nat \ {0} /\ PromptNetwork \in BOOLEAN
  /\ StartDelays \subseteq Nat /\ StopDelays \subseteq Nat

VARIABLES
  now,               \* Simulator::Now
  m_enabled,
  m_startEvent,      \* when StartRightNow runs, or Never
  m_stopEvent,       \* when StopRightNow runs, or Never
  checkEvent,        \* when PeriodicCheckForLostPackets runs next
  m_trackedPackets,  \* the packets believed to be on their way
  m_flowStats,       \* the statistics of each flow
  m_flowPktIdMap,    \* how many packets of each flow were numbered
  network,           \* environment: the packets on their way
  losses             \* history: how often each packet was counted as lost

eventVars == <<m_startEvent, m_stopEvent, checkEvent>>
statVars  == <<m_trackedPackets, m_flowStats, losses>>
netVars   == <<m_flowPktIdMap, network>>
monitorVars == <<now, m_enabled, eventVars, statVars, netVars>>

-----------------------------------------------------------------------------
Never == -1

\* A key of m_trackedPackets: flow id and packet id.
Keys    == [flow : Flows, id : 0 .. MaxPackets - 1]
Transit == [flow : Flows, id : 0 .. MaxPackets - 1, hops : 0 .. Hops,
            since : Nat]
Key(p)  == [flow |-> p.flow, id |-> p.id]

FlowStats == [txPackets : Nat, rxPackets : Nat, lostPackets : Nat,
              delaySum : Nat, timeFirstTxPacket : Nat, timeLastRxPacket : Nat]
NoStats == [txPackets |-> 0, rxPackets |-> 0, lostPackets |-> 0,
            delaySum |-> 0, timeFirstTxPacket |-> 0, timeLastRxPacket |-> 0]

\* The constructed monitor, which has scheduled its first periodic check and,
\* at the time its StartTime attribute says, its start.
MonitorInit(start) ==
  /\ now = 0 /\ m_enabled = FALSE
  /\ m_startEvent = start /\ m_stopEvent = Never
  /\ checkEvent = CheckInterval
  /\ m_trackedPackets = [k \in {} |-> 0]
  /\ m_flowStats = [f \in Flows |-> NoStats]
  /\ m_flowPktIdMap = [f \in Flows |-> 0]
  /\ network = {}
  /\ losses = [k \in Keys |-> 0]

\* Everything that forgets the packets K.
Untracked(K) == Restrict(m_trackedPackets, DOMAIN m_trackedPackets \ K)

-----------------------------------------------------------------------------
(* What the probes report.                                                 *)

\* Mutant: every packet is taken for the first one of its flow.
FirstTxOverwritten(k) ==
  /\ m_trackedPackets' =
       [j \in DOMAIN m_trackedPackets \cup {k} |->
          IF j = k THEN [firstSeenTime |-> now, lastSeenTime |-> now]
                   ELSE m_trackedPackets[j]]
  /\ m_flowStats' = [m_flowStats EXCEPT ![k.flow].txPackets = @ + 1,
                                        ![k.flow].timeFirstTxPacket = now]
  /\ UNCHANGED losses

ReportFirstTx(k) ==
  /\ m_trackedPackets' =
       [j \in DOMAIN m_trackedPackets \cup {k} |->
          IF j = k THEN [firstSeenTime |-> now, lastSeenTime |-> now]
                   ELSE m_trackedPackets[j]]
  /\ m_flowStats' =
       [m_flowStats EXCEPT
          ![k.flow].txPackets = @ + 1,
          ![k.flow].timeFirstTxPacket =
             IF m_flowStats[k.flow].txPackets = 0 THEN now ELSE @]
  /\ UNCHANGED losses

ReportForwarding(k) ==
  /\ m_trackedPackets' = [m_trackedPackets EXCEPT ![k].lastSeenTime = now]
  /\ UNCHANGED <<m_flowStats, losses>>

\* Mutant: a packet that has arrived stays tracked.
ReceivedStaysTracked(k) ==
  /\ m_flowStats' =
       [m_flowStats EXCEPT
          ![k.flow].delaySum = @ + now - m_trackedPackets[k].firstSeenTime,
          ![k.flow].rxPackets = @ + 1,
          ![k.flow].timeLastRxPacket = now]
  /\ UNCHANGED <<m_trackedPackets, losses>>

ReportLastRx(k) ==
  /\ m_flowStats' =
       [m_flowStats EXCEPT
          ![k.flow].delaySum = @ + now - m_trackedPackets[k].firstSeenTime,
          ![k.flow].rxPackets = @ + 1,
          ![k.flow].timeLastRxPacket = now]
  /\ m_trackedPackets' = Untracked({k})
  /\ UNCHANGED losses

\* A drop is counted whether or not the packet is still tracked.
ReportDrop(k) ==
  /\ m_flowStats' = [m_flowStats EXCEPT ![k.flow].lostPackets = @ + 1]
  /\ losses' = [losses EXCEPT ![k] = @ + 1]
  /\ m_trackedPackets' = Untracked({k})

\* Mutant: a packet is overdue only after MaxPerHopDelay.
OverdueStrictly == {k \in DOMAIN m_trackedPackets :
                      now - m_trackedPackets[k].lastSeenTime > MaxPerHopDelay}

\* The packets nobody has seen for MaxPerHopDelay.
Overdue == {k \in DOMAIN m_trackedPackets :
              now - m_trackedPackets[k].lastSeenTime >= MaxPerHopDelay}

CheckForLostPackets ==
  /\ m_flowStats' =
       [f \in Flows |->
          [m_flowStats[f] EXCEPT !.lostPackets =
             @ + Cardinality({k \in Overdue : k.flow = f})]]
  /\ losses' = [k \in Keys |-> losses[k] + IF k \in Overdue THEN 1 ELSE 0]
  /\ m_trackedPackets' = Untracked(Overdue)

\* Reports to a monitor that is not enabled change nothing.
IfEnabled(Report) == IF m_enabled THEN Report ELSE UNCHANGED statVars

\* Nor do those of a packet that is not tracked.
IfTracked(k, Report) ==
  IfEnabled(IF k \in DOMAIN m_trackedPackets THEN Report
                                             ELSE UNCHANGED statVars)

-----------------------------------------------------------------------------
(* What happens to a packet.                                               *)

\* Ipv4L3Protocol sends a new packet: the probe has it classified, which
\* numbers it, reports it, and tags it with both numbers.
SendOutgoing(f) ==
  LET k == [flow |-> f, id |-> m_flowPktIdMap[f]] IN
  /\ m_flowPktIdMap[f] < MaxPackets
  /\ m_flowPktIdMap' = [m_flowPktIdMap EXCEPT ![f] = @ + 1]
  /\ network' = network \cup
       {[flow |-> f, id |-> k.id, hops |-> Hops, since |-> now]}
  /\ IfEnabled(ReportFirstTx(k))
  /\ UNCHANGED <<now, m_enabled, eventVars>>

UnicastForward(p) ==
  /\ p.hops > 0
  /\ network' = (network \ {p}) \cup
       {[p EXCEPT !.hops = @ - 1, !.since = now]}
  /\ IfTracked(Key(p), ReportForwarding(Key(p)))
  /\ UNCHANGED <<now, m_enabled, eventVars, m_flowPktIdMap>>

LocalDeliver(p) ==
  /\ p.hops = 0
  /\ network' = network \ {p}
  /\ IfTracked(Key(p), ReportLastRx(Key(p)))
  /\ UNCHANGED <<now, m_enabled, eventVars, m_flowPktIdMap>>

\* A queue, a queue disc or the IP layer drops the packet.
Drop(p) ==
  /\ network' = network \ {p}
  /\ IfEnabled(ReportDrop(Key(p)))
  /\ UNCHANGED <<now, m_enabled, eventVars, m_flowPktIdMap>>

\* The packet is lost where no probe looks, in a radio for example.
LoseUnseen(p) ==
  /\ network' = network \ {p}
  /\ UNCHANGED <<now, m_enabled, eventVars, statVars, m_flowPktIdMap>>

PacketMoves(p) == \/ UnicastForward(p) \/ LocalDeliver(p)
                  \/ Drop(p) \/ LoseUnseen(p)

-----------------------------------------------------------------------------
(* The monitor's own events and operations.                                *)

\* The check reschedules itself for ever, also while not enabled.
PeriodicCheckForLostPackets ==
  /\ checkEvent = now
  /\ CheckForLostPackets
  /\ checkEvent' = now + CheckInterval
  /\ UNCHANGED <<now, m_enabled, m_startEvent, m_stopEvent, netVars>>

\* CheckForLostPackets as an operation, and what SerializeToXmlStream does first.
CheckNow == /\ CheckForLostPackets
            /\ UNCHANGED <<now, m_enabled, eventVars, netVars>>

Start(d) ==
  /\ ~m_enabled
  /\ m_startEvent' = now + d
  /\ UNCHANGED <<now, m_enabled, m_stopEvent, checkEvent, statVars, netVars>>

Stop(d) ==
  /\ m_stopEvent' = now + d
  /\ UNCHANGED <<now, m_enabled, m_startEvent, checkEvent, statVars, netVars>>

StartRightNow ==
  /\ m_startEvent = now
  /\ m_startEvent' = Never
  /\ m_enabled' = TRUE
  /\ UNCHANGED <<now, m_stopEvent, checkEvent, statVars, netVars>>

StopRightNow ==
  /\ m_stopEvent = now
  /\ m_stopEvent' = Never
  /\ m_enabled' = FALSE
  /\ IfEnabled(CheckForLostPackets)
  /\ UNCHANGED <<now, m_startEvent, checkEvent, netVars>>

\* The tracked packets and the times are kept.
ResetAllStats ==
  /\ m_flowStats' =
       [f \in Flows |->
          [m_flowStats[f] EXCEPT !.txPackets = 0, !.rxPackets = 0,
                                 !.lostPackets = 0, !.delaySum = 0]]
  /\ UNCHANGED <<now, m_enabled, eventVars, m_trackedPackets, losses, netVars>>

\* Time goes on when every event of this instant has run, and does not pass
\* over an event.
Passes ==
  /\ now < MaxTime
  /\ \A e \in {m_startEvent, m_stopEvent, checkEvent} :
       e = Never \/ now + Step <= e
  /\ PromptNetwork => \A p \in network : now + Step - p.since < MaxPerHopDelay
  /\ now' = now + Step
  /\ UNCHANGED <<m_enabled, eventVars, statVars, netVars>>

-----------------------------------------------------------------------------
Init == MonitorInit(0)

Next == \/ \E f \in Flows : SendOutgoing(f)
        \/ \E p \in network : PacketMoves(p)
        \/ \E d \in StartDelays : Start(d)
        \/ \E d \in StopDelays : Stop(d)
        \/ StartRightNow \/ StopRightNow \/ PeriodicCheckForLostPackets
        \/ CheckNow \/ ResetAllStats \/ Passes

Spec == Init /\ [][Next]_monitorVars

-----------------------------------------------------------------------------
\* The types, and what ties the two views of the packets together: a packet
\* that is tracked or on its way has been numbered.
ClockTyped == /\ now \in Nat /\ m_enabled \in BOOLEAN
              /\ m_startEvent \in Nat \cup {Never}
              /\ m_stopEvent \in Nat \cup {Never}
              /\ checkEvent \in Nat
StatsTyped ==
  /\ DOMAIN m_trackedPackets \subseteq Keys
  /\ \A k \in DOMAIN m_trackedPackets :
       m_trackedPackets[k] \in [firstSeenTime : Nat, lastSeenTime : Nat]
  /\ m_flowStats \in [Flows -> FlowStats]
  /\ losses \in [Keys -> Nat]
NetworkTyped == /\ m_flowPktIdMap \in [Flows -> 0 .. MaxPackets]
                /\ network \subseteq Transit
Numbered == \A k \in DOMAIN m_trackedPackets \cup {Key(p) : p \in network} :
              k.id < m_flowPktIdMap[k.flow]
TypeOK == ClockTyped /\ StatsTyped /\ NetworkTyped /\ Numbered

\* The books of every flow balance: each packet that was sent has been
\* received, or counted as lost, or is tracked, and only one of the three
\* (CheckForLostPackets against late ReportLastRx and ReportDrop).
BooksBalance ==
  \A f \in Flows :
    m_flowStats[f].txPackets =
      m_flowStats[f].rxPackets + m_flowStats[f].lostPackets
        + Cardinality({k \in DOMAIN m_trackedPackets : k.flow = f})

\* A packet that vanished is counted as lost at the latest one check after
\* MaxPerHopDelay, whatever happens to the rest.
LossDetectedInTime ==
  \A k \in DOMAIN m_trackedPackets :
    now - m_trackedPackets[k].lastSeenTime < MaxPerHopDelay + CheckInterval

\* The mean delay of a flow, delaySum / rxPackets, never exceeds the duration
\* timeLastRxPacket - timeFirstTxPacket its throughput is computed with.
DelayWithinDuration ==
  \A f \in Flows :
    LET fs == m_flowStats[f] IN
    fs.delaySum <= fs.rxPackets * (fs.timeLastRxPacket - fs.timeFirstTxPacket)

=============================================================================
