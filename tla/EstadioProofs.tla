--------------------------- MODULE EstadioProofs ---------------------------
(***************************************************************************)
(* What holds of FlowMonitor for every set of flows, any number of packets *)
(* and routers, and every delay; and what holds of Estadio, which uses it, *)
(* for every number of fans and packets, every simulation time the program *)
(* can run with, and any network.                                          *)
(***************************************************************************)
EXTENDS Estadio, FiniteSetTheorems, TLAPS

-----------------------------------------------------------------------------
(* The inductive invariant behind the types: delaySum stays a natural      *)
(* number because no packet was seen in the future, and the number of lost *)
(* packets because only finitely many are tracked.                         *)

SeenInPast ==
  \A k \in DOMAIN m_trackedPackets :
    /\ m_trackedPackets[k].firstSeenTime <= m_trackedPackets[k].lastSeenTime
    /\ m_trackedPackets[k].lastSeenTime <= now
TrackedFinite == IsFiniteSet(DOMAIN m_trackedPackets)

MonitorInv == TypeOK /\ SeenInPast /\ TrackedFinite

\* Everything the probes may report of the packet k, whatever it changes.
Report(k) ==
  \/ ReportFirstTx(k)
  \/ k \in DOMAIN m_trackedPackets /\ (ReportForwarding(k) \/ ReportLastRx(k))
  \/ ReportDrop(k)
  \/ UNCHANGED statVars

\* What is left of the tracked packets.
LEMMA UntrackedDomain ==
  ASSUME NEW K
  PROVE  /\ DOMAIN Untracked(K) = DOMAIN m_trackedPackets \ K
         /\ \A k \in DOMAIN m_trackedPackets \ K :
              Untracked(K)[k] = m_trackedPackets[k]
BY DEF Untracked, Restrict

\* A report of k affects no other tracked packet, and tracks no other.
LEMMA ReportTracks ==
  ASSUME StatsTyped, SeenInPast, TrackedFinite, now \in Nat,
         NEW k \in Keys, Report(k)
  PROVE  /\ DOMAIN m_trackedPackets' \subseteq DOMAIN m_trackedPackets \cup {k}
         /\ \A j \in DOMAIN m_trackedPackets' :
              /\ m_trackedPackets'[j] \in [firstSeenTime : Nat,
                                           lastSeenTime : Nat]
              /\ m_trackedPackets'[j].firstSeenTime
                   <= m_trackedPackets'[j].lastSeenTime
              /\ \/ /\ j \in DOMAIN m_trackedPackets
                    /\ m_trackedPackets'[j] = m_trackedPackets[j]
                 \/ j = k /\ m_trackedPackets'[j].lastSeenTime = now
              /\ m_trackedPackets'[j].lastSeenTime <= now
         /\ TrackedFinite'
<1>1. CASE ReportFirstTx(k)
  <2>1. DOMAIN m_trackedPackets' = DOMAIN m_trackedPackets \cup {k}
    BY <1>1 DEF ReportFirstTx
  <2>2. TrackedFinite'
    BY <2>1, FS_AddElement DEF TrackedFinite
  <2> QED
    BY <1>1, <2>1, <2>2 DEF ReportFirstTx, StatsTyped, SeenInPast
<1>2. CASE k \in DOMAIN m_trackedPackets /\ ReportForwarding(k)
  <2>1. DOMAIN m_trackedPackets' = DOMAIN m_trackedPackets
    BY <1>2 DEF ReportForwarding
  <2>2. /\ m_trackedPackets'[k] \in [firstSeenTime : Nat, lastSeenTime : Nat]
        /\ m_trackedPackets'[k].lastSeenTime = now
        /\ m_trackedPackets'[k].firstSeenTime
             = m_trackedPackets[k].firstSeenTime
    BY <1>2 DEF ReportForwarding, StatsTyped
  <2>3. \A j \in DOMAIN m_trackedPackets \ {k} :
          m_trackedPackets'[j] = m_trackedPackets[j]
    BY <1>2 DEF ReportForwarding
  <2>4. m_trackedPackets'[k].firstSeenTime <= now
    BY <1>2, <2>2 DEF SeenInPast, StatsTyped
  <2> QED
    BY <1>2, <2>1, <2>2, <2>3, <2>4 DEF StatsTyped, SeenInPast, TrackedFinite
<1>3. CASE \/ k \in DOMAIN m_trackedPackets /\ ReportLastRx(k)
           \/ ReportDrop(k)
  <2>1. m_trackedPackets' = Untracked({k})
    BY <1>3 DEF ReportLastRx, ReportDrop
  <2>2. DOMAIN m_trackedPackets' = DOMAIN m_trackedPackets \ {k}
    BY <2>1, UntrackedDomain
  <2>3. \A j \in DOMAIN m_trackedPackets' :
          m_trackedPackets'[j] = m_trackedPackets[j]
    BY <2>1, <2>2, UntrackedDomain
  <2>4. TrackedFinite'
    BY <2>2, FS_RemoveElement DEF TrackedFinite
  <2> QED
    BY <2>2, <2>3, <2>4 DEF StatsTyped, SeenInPast
<1>4. CASE UNCHANGED statVars
  BY <1>4 DEF statVars, StatsTyped, SeenInPast, TrackedFinite
<1> QED
  BY <1>1, <1>2, <1>3, <1>4 DEF Report

\* Statistics stay statistics when their fields are set to natural numbers.
LEMMA StatsSet ==
  ASSUME NEW fs \in FlowStats, NEW n \in Nat, NEW m \in Nat, NEW t \in Nat
  PROVE  /\ [fs EXCEPT !.txPackets = n, !.timeFirstTxPacket = t] \in FlowStats
         /\ [fs EXCEPT !.delaySum = m, !.rxPackets = n,
                       !.timeLastRxPacket = t] \in FlowStats
         /\ [fs EXCEPT !.lostPackets = n] \in FlowStats
BY DEF FlowStats

\* A report leaves statistics behind.
LEMMA ReportCounts ==
  ASSUME StatsTyped, SeenInPast, now \in Nat, NEW k \in Keys, Report(k)
  PROVE  m_flowStats' \in [Flows -> FlowStats] /\ losses' \in [Keys -> Nat]
<1> DEFINE fs == m_flowStats[k.flow]
<1>1. k.flow \in Flows /\ fs \in FlowStats
  BY DEF Keys, StatsTyped
<1>2. CASE ReportFirstTx(k)
  <2>1. [fs EXCEPT !.txPackets = @ + 1,
                   !.timeFirstTxPacket = IF fs.txPackets = 0 THEN now ELSE @]
          \in FlowStats
    <3>1. /\ fs.txPackets + 1 \in Nat
          /\ (IF fs.txPackets = 0 THEN now ELSE fs.timeFirstTxPacket) \in Nat
      BY <1>1 DEF FlowStats
    <3> QED
      BY <1>1, <3>1, StatsSet
  <2>2. m_flowStats' =
          [m_flowStats EXCEPT ![k.flow] =
             [fs EXCEPT !.txPackets = @ + 1,
                        !.timeFirstTxPacket =
                           IF fs.txPackets = 0 THEN now ELSE @]]
    BY <1>1, <1>2 DEF ReportFirstTx, StatsTyped
  <2> QED
    BY <1>1, <1>2, <2>1, <2>2 DEF ReportFirstTx, StatsTyped
<1>3. CASE k \in DOMAIN m_trackedPackets /\ ReportLastRx(k)
  <2> DEFINE delay == now - m_trackedPackets[k].firstSeenTime
  <2>1. delay \in Nat
    BY <1>3 DEF SeenInPast, StatsTyped
  <2>2. m_flowStats' =
          [m_flowStats EXCEPT ![k.flow] =
             [fs EXCEPT !.delaySum = @ + now - m_trackedPackets[k].firstSeenTime,
                        !.rxPackets = @ + 1, !.timeLastRxPacket = now]]
    BY <1>1, <1>3 DEF ReportLastRx, StatsTyped
  <2>3. fs.delaySum + now - m_trackedPackets[k].firstSeenTime
          = fs.delaySum + delay
    BY <1>1, <1>3 DEF FlowStats, StatsTyped
  <2> HIDE DEF delay
  <2>4. fs.delaySum + now - m_trackedPackets[k].firstSeenTime \in Nat
    BY <1>1, <2>1, <2>3 DEF FlowStats
  <2>5. [fs EXCEPT !.delaySum = @ + now - m_trackedPackets[k].firstSeenTime,
                   !.rxPackets = @ + 1, !.timeLastRxPacket = now]
          \in FlowStats
    <3>1. fs.rxPackets + 1 \in Nat
      BY <1>1 DEF FlowStats
    <3> QED
      BY <1>1, <2>4, <3>1, StatsSet
  <2> QED
    BY <1>1, <1>3, <2>2, <2>5 DEF ReportLastRx, StatsTyped
<1>4. CASE ReportDrop(k)
  <2>1. [fs EXCEPT !.lostPackets = @ + 1] \in FlowStats
    BY <1>1 DEF FlowStats
  <2>2. m_flowStats' =
          [m_flowStats EXCEPT ![k.flow] = [fs EXCEPT !.lostPackets = @ + 1]]
    BY <1>1, <1>4 DEF ReportDrop, StatsTyped
  <2>3. losses' \in [Keys -> Nat]
    BY <1>4 DEF ReportDrop, StatsTyped
  <2> QED
    BY <1>1, <2>1, <2>2, <2>3 DEF StatsTyped
<1>5. CASE \/ k \in DOMAIN m_trackedPackets /\ ReportForwarding(k)
           \/ UNCHANGED statVars
  BY <1>5 DEF ReportForwarding, statVars, StatsTyped
<1> QED
  BY <1>2, <1>3, <1>4, <1>5 DEF Report

\* So does a check for losses, which only forgets packets.
LEMMA LossesCounted ==
  ASSUME TrackedFinite, NEW f
  PROVE  /\ IsFiniteSet({k \in Overdue : k.flow = f})
         /\ Cardinality({k \in Overdue : k.flow = f}) \in Nat
<1>1. {k \in Overdue : k.flow = f} \in SUBSET DOMAIN m_trackedPackets
  BY DEF Overdue
<1> QED
  BY <1>1, FS_Subset, FS_CardinalityType DEF TrackedFinite

LEMMA CheckTracks ==
  ASSUME TrackedFinite, CheckForLostPackets
  PROVE  /\ DOMAIN m_trackedPackets' = DOMAIN m_trackedPackets \ Overdue
         /\ \A k \in DOMAIN m_trackedPackets' :
              m_trackedPackets'[k] = m_trackedPackets[k]
         /\ TrackedFinite'
<1>1. m_trackedPackets' = Untracked(Overdue)
  BY DEF CheckForLostPackets
<1>2. /\ DOMAIN m_trackedPackets' = DOMAIN m_trackedPackets \ Overdue
      /\ \A k \in DOMAIN m_trackedPackets' :
           m_trackedPackets'[k] = m_trackedPackets[k]
  BY <1>1, UntrackedDomain
<1>3. TrackedFinite'
  BY <1>2, FS_Difference DEF TrackedFinite
<1> QED
  BY <1>2, <1>3

LEMMA CheckCounts ==
  ASSUME StatsTyped, TrackedFinite, CheckForLostPackets
  PROVE  /\ m_flowStats' \in [Flows -> FlowStats] /\ losses' \in [Keys -> Nat]
<1>1. losses' \in [Keys -> Nat]
  BY DEF CheckForLostPackets, StatsTyped
<1>2. ASSUME NEW f \in Flows
      PROVE  [m_flowStats[f] EXCEPT !.lostPackets =
                @ + Cardinality({k \in Overdue : k.flow = f})] \in FlowStats
  <2> DEFINE n == Cardinality({k \in Overdue : k.flow = f})
  <2>1. n \in Nat
    BY LossesCounted
  <2> HIDE DEF n
  <2>2. m_flowStats[f] \in FlowStats
    BY DEF StatsTyped
  <2>3. m_flowStats[f].lostPackets + n \in Nat
    BY <2>1, <2>2 DEF FlowStats
  <2>4. [m_flowStats[f] EXCEPT !.lostPackets = @ + n] \in FlowStats
    BY <2>2, <2>3, StatsSet
  <2> QED
    BY <2>4 DEF n
<1>3. m_flowStats' \in [Flows -> FlowStats]
  BY <1>2 DEF CheckForLostPackets
<1> QED
  BY <1>1, <1>3

-----------------------------------------------------------------------------
(* The steps preserve it.                                                  *)

\* A report of a numbered packet.
LEMMA ReportInv ==
  ASSUME MonitorInv, NEW k \in Keys, Report(k), now' = now, ClockTyped',
         NetworkTyped',
         \A f \in Flows : m_flowPktIdMap[f] <= m_flowPktIdMap'[f],
         k.id < m_flowPktIdMap'[k.flow],
         \A p \in network' : Key(p).id < m_flowPktIdMap'[p.flow]
  PROVE  MonitorInv'
<1> USE DEF MonitorInv, TypeOK
<1>1. now \in Nat
  BY DEF ClockTyped
<1>2. StatsTyped'
  <2>1. DOMAIN m_trackedPackets' \subseteq Keys
    BY <1>1, ReportTracks DEF StatsTyped
  <2> QED
    BY <1>1, <2>1, ReportTracks, ReportCounts DEF StatsTyped
<1>3. SeenInPast' /\ TrackedFinite'
  BY <1>1, ReportTracks DEF SeenInPast
<1>4. Numbered'
  <2>1. ASSUME NEW j \in DOMAIN m_trackedPackets'
        PROVE  j.id < m_flowPktIdMap'[j.flow]
    <3>1. CASE j = k
      BY <3>1
    <3>2. CASE j \in DOMAIN m_trackedPackets
      <4>1. j.id < m_flowPktIdMap[j.flow] /\ j \in Keys
        BY <3>2 DEF Numbered, StatsTyped
      <4>2. j.flow \in Flows /\ j.id \in Int
        BY <4>1 DEF Keys
      <4>3. /\ m_flowPktIdMap[j.flow] \in Int
            /\ m_flowPktIdMap'[j.flow] \in Int
            /\ m_flowPktIdMap[j.flow] <= m_flowPktIdMap'[j.flow]
        BY <4>2, MonitorAssumption DEF NetworkTyped
      <4> QED
        BY <4>1, <4>2, <4>3
    <3> QED
      BY <1>1, <3>1, <3>2, ReportTracks
  <2>2. ASSUME NEW p \in network'
        PROVE  Key(p).id < m_flowPktIdMap'[Key(p).flow]
    BY DEF Key
  <2> QED
    BY <2>1, <2>2 DEF Numbered
<1> QED
  BY <1>2, <1>3, <1>4

\* A check for losses.
LEMMA CheckInv ==
  ASSUME MonitorInv, CheckForLostPackets, now' = now, ClockTyped',
         UNCHANGED netVars
  PROVE  MonitorInv'
<1> USE DEF MonitorInv, TypeOK, netVars
<1>1. StatsTyped'
  BY CheckTracks, CheckCounts DEF StatsTyped
<1>2. SeenInPast' /\ TrackedFinite'
  BY CheckTracks DEF SeenInPast
<1>3. NetworkTyped'
  BY DEF NetworkTyped
<1>4. Numbered'
  BY CheckTracks DEF Numbered
<1> QED
  BY <1>1, <1>2, <1>3, <1>4

LEMMA SendOutgoingInv ==
  ASSUME MonitorInv, NEW f \in Flows, SendOutgoing(f)
  PROVE  MonitorInv'
<1> DEFINE id == m_flowPktIdMap[f]
           k  == [flow |-> f, id |-> id]
           q  == [flow |-> f, id |-> id, hops |-> Hops, since |-> now]
<1> USE DEF MonitorInv, TypeOK
<1>1. id \in 0 .. MaxPackets - 1 /\ id \in Int /\ id + 1 \in 0 .. MaxPackets
  BY MonitorAssumption DEF SendOutgoing, NetworkTyped
<1>2. k \in Keys
  BY <1>1 DEF Keys
<1>3. q \in Transit
  <2>1. Hops \in 0 .. Hops /\ now \in Nat
    BY MonitorAssumption DEF ClockTyped
  <2> QED
    BY <1>1, <2>1 DEF Transit
<1>4. /\ m_flowPktIdMap' = [m_flowPktIdMap EXCEPT ![f] = @ + 1]
      /\ network' = network \cup {q}
      /\ UNCHANGED <<now, m_enabled, eventVars>>
  BY DEF SendOutgoing
<1>5. Report(k)
  <2>1. IfEnabled(ReportFirstTx(k))
    BY DEF SendOutgoing
  <2> QED
    BY <2>1 DEF IfEnabled, Report
<1>6. now' = now /\ ClockTyped'
  BY <1>4 DEF ClockTyped, eventVars
<1>7. /\ m_flowPktIdMap' \in [Flows -> 0 .. MaxPackets]
      /\ m_flowPktIdMap'[f] = id + 1
      /\ \A g \in Flows \ {f} : m_flowPktIdMap'[g] = m_flowPktIdMap[g]
  BY <1>1, <1>4 DEF NetworkTyped
<1>8. NetworkTyped'
  BY <1>3, <1>4, <1>7 DEF NetworkTyped
<1>9. \A g \in Flows : m_flowPktIdMap[g] <= m_flowPktIdMap'[g]
  BY <1>1, <1>7, MonitorAssumption DEF NetworkTyped
<1>10. k.id < m_flowPktIdMap'[k.flow]
  BY <1>1, <1>7
<1>11. \A p \in network' : Key(p).id < m_flowPktIdMap'[p.flow]
  <2>1. ASSUME NEW p \in network PROVE Key(p).id < m_flowPktIdMap'[p.flow]
    <3>1. Key(p).id < m_flowPktIdMap[p.flow]
      <4>1. Key(p).id < m_flowPktIdMap[Key(p).flow]
        BY DEF Numbered
      <4> QED
        BY <4>1 DEF Key
    <3>2. p.flow \in Flows /\ Key(p).id \in Int
      <4>1. p \in Transit
        BY DEF NetworkTyped
      <4> QED
        BY <4>1, MonitorAssumption DEF Transit, Key
    <3>3. m_flowPktIdMap[p.flow] \in Int /\ m_flowPktIdMap'[p.flow] \in Int
      BY <3>2, <1>7, MonitorAssumption DEF NetworkTyped
    <3> QED
      BY <3>1, <3>2, <3>3, <1>9
  <2>2. Key(q).id < m_flowPktIdMap'[q.flow]
    BY <1>10 DEF Key
  <2> QED
    BY <1>4, <2>1, <2>2
<1> QED
  BY <1>2, <1>5, <1>6, <1>8, <1>9, <1>10, <1>11, ReportInv

\* What a packet in transit leaves behind when it moves.
LEMMA PacketMovesTyped ==
  ASSUME NetworkTyped, now \in Nat, NEW p \in network, PacketMoves(p)
  PROVE  /\ NetworkTyped'
         /\ \A q \in network' : \E r \in network : Key(q) = Key(r)
<1>1. p \in Transit
  BY DEF NetworkTyped
<1>2. m_flowPktIdMap' = m_flowPktIdMap
  BY DEF PacketMoves, UnicastForward, LocalDeliver, Drop, LoseUnseen
<1>3. CASE UnicastForward(p)
  <2> DEFINE q == [p EXCEPT !.hops = @ - 1, !.since = now]
  <2>1. p.hops - 1 \in 0 .. Hops
    BY <1>1, <1>3, MonitorAssumption DEF Transit, UnicastForward
  <2>2. q \in Transit /\ Key(q) = Key(p)
    BY <1>1, <2>1 DEF Transit, Key
  <2>3. network' = (network \ {p}) \cup {q}
    BY <1>3 DEF UnicastForward
  <2> HIDE DEF q
  <2> QED
    BY <1>2, <2>2, <2>3 DEF NetworkTyped
<1>4. CASE LocalDeliver(p) \/ Drop(p) \/ LoseUnseen(p)
  <2>1. network' = network \ {p}
    BY <1>4 DEF LocalDeliver, Drop, LoseUnseen
  <2> QED
    BY <1>2, <2>1 DEF NetworkTyped
<1> QED
  BY <1>3, <1>4 DEF PacketMoves

\* What is reported of it.
LEMMA PacketMovesReport ==
  ASSUME NEW p \in network, PacketMoves(p)
  PROVE  Report(Key(p)) /\ UNCHANGED <<now, m_enabled, eventVars,
                                        m_flowPktIdMap>>
<1>1. CASE UnicastForward(p)
  BY <1>1 DEF UnicastForward, IfTracked, IfEnabled, Report
<1>2. CASE LocalDeliver(p)
  BY <1>2 DEF LocalDeliver, IfTracked, IfEnabled, Report
<1>3. CASE Drop(p)
  BY <1>3 DEF Drop, IfEnabled, Report
<1>4. CASE LoseUnseen(p)
  BY <1>4 DEF LoseUnseen, Report
<1> QED
  BY <1>1, <1>2, <1>3, <1>4 DEF PacketMoves

LEMMA PacketMovesInv ==
  ASSUME MonitorInv, NEW p \in network, PacketMoves(p)
  PROVE  MonitorInv'
<1> USE DEF MonitorInv, TypeOK
<1>1. /\ Report(Key(p))
      /\ now' = now /\ m_flowPktIdMap' = m_flowPktIdMap
      /\ UNCHANGED <<m_enabled, eventVars>>
  BY PacketMovesReport
<1>2. ClockTyped'
  BY <1>1 DEF ClockTyped, eventVars
<1>3. /\ NetworkTyped'
      /\ \A q \in network' : \E r \in network : Key(q) = Key(r)
  BY PacketMovesTyped DEF ClockTyped
<1>4. Key(p) \in Keys /\ Key(p).id < m_flowPktIdMap'[Key(p).flow]
  <2>1. p \in Transit
    BY DEF NetworkTyped
  <2> QED
    BY <1>1, <2>1 DEF Numbered, Key, Keys, Transit
<1>5. \A q \in network' : Key(q).id < m_flowPktIdMap'[q.flow]
  <2> TAKE q \in network'
  <2> PICK r \in network : Key(q) = Key(r)
    BY <1>3
  <2>1. Key(r).id < m_flowPktIdMap[Key(r).flow]
    BY DEF Numbered
  <2>2. Key(q).flow = q.flow
    BY DEF Key
  <2> QED
    BY <1>1, <2>1, <2>2
<1>6. \A f \in Flows : m_flowPktIdMap[f] <= m_flowPktIdMap'[f]
  BY <1>1, MonitorAssumption DEF NetworkTyped
<1> QED
  BY <1>1, <1>2, <1>3, <1>4, <1>5, <1>6, ReportInv

LEMMA PeriodicInv ==
  ASSUME MonitorInv, PeriodicCheckForLostPackets
  PROVE  MonitorInv'
<1>1. CheckForLostPackets /\ UNCHANGED <<now, m_enabled, netVars>>
  BY DEF PeriodicCheckForLostPackets
<1>2. ClockTyped'
  BY MonitorAssumption
  DEF PeriodicCheckForLostPackets, ClockTyped, MonitorInv, TypeOK
<1> QED
  BY <1>1, <1>2, CheckInv

LEMMA StopRightNowInv ==
  ASSUME MonitorInv, StopRightNow
  PROVE  MonitorInv'
<1>1. IfEnabled(CheckForLostPackets) /\ UNCHANGED <<now, netVars>>
  BY DEF StopRightNow
<1>2. ClockTyped'
  BY DEF StopRightNow, ClockTyped, MonitorInv, TypeOK
<1>3. CASE CheckForLostPackets
  BY <1>1, <1>2, <1>3, CheckInv
<1>4. CASE UNCHANGED statVars
  BY <1>1, <1>2, <1>4
  DEF MonitorInv, TypeOK, StatsTyped, NetworkTyped, Numbered, SeenInPast,
      TrackedFinite, statVars, netVars
<1> QED
  BY <1>1, <1>3, <1>4 DEF IfEnabled

LEMMA PassesInv ==
  ASSUME MonitorInv, Passes
  PROVE  MonitorInv'
<1> USE DEF MonitorInv, TypeOK, Passes, eventVars, statVars, netVars
<1>1. ClockTyped'
  BY MonitorAssumption DEF ClockTyped
<1>2. StatsTyped' /\ NetworkTyped' /\ Numbered' /\ TrackedFinite'
  BY DEF StatsTyped, NetworkTyped, Numbered, TrackedFinite
<1>3. SeenInPast'
  BY MonitorAssumption DEF SeenInPast, ClockTyped, StatsTyped
<1> QED
  BY <1>1, <1>2, <1>3

LEMMA CheckNowInv ==
  ASSUME MonitorInv, CheckNow
  PROVE  MonitorInv'
<1>1. ClockTyped'
  BY DEF CheckNow, ClockTyped, MonitorInv, TypeOK, eventVars
<1> QED
  BY <1>1, CheckInv DEF CheckNow

\* The operations that leave the tracked packets alone.
LEMMA CallInv ==
  ASSUME MonitorInv,
         \/ \E d \in StartDelays : Start(d)
         \/ \E d \in StopDelays : Stop(d)
         \/ StartRightNow \/ ResetAllStats
  PROVE  MonitorInv'
<1> USE DEF MonitorInv, TypeOK
<1>1. /\ UNCHANGED <<now, m_trackedPackets, losses, m_flowPktIdMap, network>>
      /\ m_flowStats' \in [Flows -> FlowStats]
  <2>1. CASE \/ \E d \in StartDelays : Start(d)
             \/ \E d \in StopDelays : Stop(d)
             \/ StartRightNow
    BY <2>1 DEF Start, Stop, StartRightNow, statVars, netVars, StatsTyped
  <2>2. CASE ResetAllStats
    <3>1. ASSUME NEW fs \in FlowStats
          PROVE  [fs EXCEPT !.txPackets = 0, !.rxPackets = 0,
                            !.lostPackets = 0, !.delaySum = 0] \in FlowStats
      BY <3>1 DEF FlowStats
    <3> QED
      BY <2>2, <3>1 DEF ResetAllStats, netVars, StatsTyped
  <2> QED
    BY <2>1, <2>2
<1>2. ClockTyped'
  <2>1. ASSUME NEW d \in StartDelays, Start(d) PROVE ClockTyped'
    BY <2>1, MonitorAssumption DEF ClockTyped, Start
  <2>2. ASSUME NEW d \in StopDelays, Stop(d) PROVE ClockTyped'
    BY <2>2, MonitorAssumption DEF ClockTyped, Stop
  <2>3. CASE StartRightNow \/ ResetAllStats
    BY <2>3 DEF ClockTyped, StartRightNow, ResetAllStats, eventVars
  <2> QED
    BY <2>1, <2>2, <2>3
<1> QED
  BY <1>1, <1>2
  DEF StatsTyped, NetworkTyped, Numbered, SeenInPast, TrackedFinite

LEMMA MonitorInitInv ==
  ASSUME NEW start \in Nat, MonitorInit(start)
  PROVE  MonitorInv
<1> USE DEF MonitorInit
<1>1. DOMAIN m_trackedPackets = {}
  OBVIOUS
<1>2. ClockTyped
  BY MonitorAssumption DEF ClockTyped
<1>3. StatsTyped
  <2>1. NoStats \in FlowStats
    BY DEF NoStats, FlowStats
  <2> QED
    BY <1>1, <2>1 DEF StatsTyped
<1>4. NetworkTyped /\ Numbered
  BY <1>1, MonitorAssumption DEF NetworkTyped, Numbered
<1>5. SeenInPast /\ TrackedFinite
  BY <1>1, FS_EmptySet DEF SeenInPast, TrackedFinite
<1> QED
  BY <1>2, <1>3, <1>4, <1>5 DEF MonitorInv, TypeOK

LEMMA MonitorUnchanged ==
  ASSUME MonitorInv, UNCHANGED monitorVars
  PROVE  MonitorInv'
BY DEF MonitorInv, TypeOK, ClockTyped, StatsTyped, NetworkTyped, Numbered,
       SeenInPast, TrackedFinite, monitorVars, eventVars, statVars, netVars

LEMMA MonitorStep == MonitorInv /\ [Next]_monitorVars => MonitorInv'
<1> SUFFICES ASSUME MonitorInv, [Next]_monitorVars PROVE MonitorInv'
  OBVIOUS
<1> QED
  BY SendOutgoingInv, PacketMovesInv, PeriodicInv, StopRightNowInv, CheckNowInv,
     PassesInv, CallInv, MonitorUnchanged DEF Next

\* The types of the flow monitor and of the network, for any number of flows
\* and packets: no sum of delays becomes negative, and no packet is known
\* before it was numbered.
THEOREM TypeCorrect == Spec => []TypeOK
<1>1. Init => MonitorInv
  BY MonitorInitInv DEF Init
<1>2. MonitorInv => TypeOK
  BY DEF MonitorInv
<1> QED
  BY <1>1, <1>2, MonitorStep, PTL DEF Spec

-----------------------------------------------------------------------------
(* Losses are detected in time.  The next check is never far away, and not *)
(* even then is any tracked packet overdue for as long as an interval.     *)

CheckComes ==
  /\ now <= checkEvent /\ checkEvent <= now + CheckInterval
  /\ \A k \in DOMAIN m_trackedPackets :
       checkEvent - m_trackedPackets[k].lastSeenTime
         < MaxPerHopDelay + CheckInterval

LEMMA ReportCheckComes ==
  ASSUME MonitorInv, CheckComes, NEW k \in Keys, Report(k),
         now' = now, checkEvent' = checkEvent
  PROVE  CheckComes'
<1>1. now \in Nat /\ checkEvent \in Nat
  BY DEF MonitorInv, TypeOK, ClockTyped
<1>2. ASSUME NEW j \in DOMAIN m_trackedPackets'
      PROVE  checkEvent - m_trackedPackets'[j].lastSeenTime
               < MaxPerHopDelay + CheckInterval
  <2>1. CASE m_trackedPackets'[j].lastSeenTime = now
    BY <1>1, <2>1, MonitorAssumption DEF CheckComes
  <2>2. CASE /\ j \in DOMAIN m_trackedPackets
             /\ m_trackedPackets'[j] = m_trackedPackets[j]
    BY <2>2 DEF CheckComes
  <2> QED
    BY <1>1, <2>1, <2>2, ReportTracks DEF MonitorInv, TypeOK
<1> QED
  BY <1>2 DEF CheckComes

LEMMA CheckCheckComes ==
  ASSUME MonitorInv, CheckComes, CheckForLostPackets, now' = now,
         \/ checkEvent' = checkEvent
         \/ checkEvent = now /\ checkEvent' = now + CheckInterval
  PROVE  CheckComes'
<1>1. now \in Nat /\ checkEvent \in Nat
  BY DEF MonitorInv, TypeOK, ClockTyped
<1>2. ASSUME NEW k \in DOMAIN m_trackedPackets'
      PROVE  checkEvent' - m_trackedPackets'[k].lastSeenTime
               < MaxPerHopDelay + CheckInterval
  <2>1. /\ k \in DOMAIN m_trackedPackets \ Overdue
        /\ m_trackedPackets'[k] = m_trackedPackets[k]
    BY CheckTracks DEF MonitorInv
  <2>2. m_trackedPackets[k].lastSeenTime \in Nat
    BY <2>1 DEF MonitorInv, TypeOK, StatsTyped
  <2>3. now - m_trackedPackets[k].lastSeenTime < MaxPerHopDelay
    BY <1>1, <2>1, <2>2, MonitorAssumption DEF Overdue
  <2>4. checkEvent - m_trackedPackets[k].lastSeenTime
          < MaxPerHopDelay + CheckInterval
    BY <2>1 DEF CheckComes
  <2> QED
    BY <1>1, <2>1, <2>2, <2>3, <2>4, MonitorAssumption
<1> QED
  BY <1>1, <1>2, MonitorAssumption DEF CheckComes

LEMMA PassesCheckComes ==
  ASSUME MonitorInv, CheckComes, Passes
  PROVE  CheckComes'
<1>1. now \in Nat /\ checkEvent \in Nat
  BY DEF MonitorInv, TypeOK, ClockTyped
<1>2. /\ now' = now + Step /\ checkEvent' = checkEvent
      /\ m_trackedPackets' = m_trackedPackets
      /\ checkEvent = Never \/ now + Step <= checkEvent
  BY DEF Passes, eventVars, statVars
<1> QED
  BY <1>1, <1>2, MonitorAssumption DEF CheckComes, Never

LEMMA CheckComesStep ==
  MonitorInv /\ CheckComes /\ [Next]_monitorVars => CheckComes'
<1> SUFFICES ASSUME MonitorInv, CheckComes, [Next]_monitorVars
             PROVE  CheckComes'
  OBVIOUS
<1>1. ASSUME NEW f \in Flows, SendOutgoing(f) PROVE CheckComes'
  <2> DEFINE k == [flow |-> f, id |-> m_flowPktIdMap[f]]
  <2>1. k \in Keys
    <3>1. m_flowPktIdMap[f] \in 0 .. MaxPackets - 1
      BY <1>1, MonitorAssumption
      DEF SendOutgoing, MonitorInv, TypeOK, NetworkTyped
    <3> QED
      BY <3>1 DEF Keys
  <2>2. Report(k)
    BY <1>1 DEF SendOutgoing, IfEnabled, Report
  <2>3. now' = now /\ checkEvent' = checkEvent
    BY <1>1 DEF SendOutgoing, eventVars
  <2> QED
    BY <2>1, <2>2, <2>3, ReportCheckComes
<1>2. ASSUME NEW p \in network, PacketMoves(p) PROVE CheckComes'
  <2>1. Key(p) \in Keys
    BY DEF MonitorInv, TypeOK, NetworkTyped, Transit, Key, Keys
  <2> QED
    BY <1>2, <2>1, PacketMovesReport, ReportCheckComes DEF eventVars
<1>3. CASE PeriodicCheckForLostPackets
  BY <1>3, CheckCheckComes DEF PeriodicCheckForLostPackets
<1>4. CASE StopRightNow
  BY <1>4, CheckCheckComes
  DEF StopRightNow, IfEnabled, statVars, CheckComes
<1>5. CASE Passes
  BY <1>5, PassesCheckComes
<1>6. CASE CheckNow
  BY <1>6, CheckCheckComes DEF CheckNow, eventVars
<1>7. CASE \/ \E d \in StartDelays : Start(d)
           \/ \E d \in StopDelays : Stop(d)
           \/ StartRightNow \/ ResetAllStats \/ UNCHANGED monitorVars
  BY <1>7
  DEF Start, Stop, StartRightNow, ResetAllStats, monitorVars, eventVars,
      statVars, CheckComes
<1> QED
  BY <1>1, <1>2, <1>3, <1>4, <1>5, <1>6, <1>7 DEF Next

LEMMA LossDetected == MonitorInv /\ CheckComes => LossDetectedInTime
<1> SUFFICES ASSUME MonitorInv, CheckComes, NEW k \in DOMAIN m_trackedPackets
             PROVE  now - m_trackedPackets[k].lastSeenTime
                      < MaxPerHopDelay + CheckInterval
  BY DEF LossDetectedInTime
<1>1. /\ now \in Nat /\ checkEvent \in Nat
      /\ m_trackedPackets[k].lastSeenTime \in Nat
  BY DEF MonitorInv, TypeOK, ClockTyped, StatsTyped
<1> QED
  BY <1>1, MonitorAssumption DEF CheckComes

LEMMA CheckComesInit ==
  ASSUME NEW start \in Nat, MonitorInit(start)
  PROVE  CheckComes
BY MonitorAssumption DEF MonitorInit, CheckComes

\* Whatever the network does, and whether or not the monitor is enabled, a
\* packet that vanished is given up at the latest one check after
\* MaxPerHopDelay.
THEOREM LossDetectedInTimeCorrect == Spec => []LossDetectedInTime
<1>1. Init => MonitorInv /\ CheckComes
  BY MonitorInitInv, CheckComesInit DEF Init
<1>2. MonitorInv /\ CheckComes /\ [Next]_monitorVars
        => (MonitorInv /\ CheckComes)'
  BY MonitorStep, CheckComesStep
<1> QED
  BY <1>1, <1>2, LossDetected, PTL DEF Spec

-----------------------------------------------------------------------------
(* The delays.  As long as nobody resets the statistics, the first packet  *)
(* of a flow was sent before every packet that is still tracked was first  *)
(* seen, so that no delay that is added exceeds the duration of the flow.  *)

TrackedOf(f) == {k \in DOMAIN m_trackedPackets : k.flow = f}

DelaysBounded(f) ==
  LET fs == m_flowStats[f] IN
  /\ fs.timeFirstTxPacket <= now /\ fs.timeLastRxPacket <= now
  /\ fs.rxPackets > 0 => /\ fs.txPackets > 0
                         /\ fs.timeFirstTxPacket <= fs.timeLastRxPacket
  /\ fs.rxPackets = 0 => fs.delaySum = 0
  /\ fs.delaySum
       <= fs.rxPackets * (fs.timeLastRxPacket - fs.timeFirstTxPacket)
  /\ \A k \in TrackedOf(f) :
       /\ fs.txPackets > 0
       /\ fs.timeFirstTxPacket <= m_trackedPackets[k].firstSeenTime

\* What the statistics of a flow must not lose when it is not reset.
SameDelays(fs, gs) ==
  /\ gs.txPackets = fs.txPackets /\ gs.rxPackets = fs.rxPackets
  /\ gs.delaySum = fs.delaySum
  /\ gs.timeFirstTxPacket = fs.timeFirstTxPacket
  /\ gs.timeLastRxPacket = fs.timeLastRxPacket

\* What delaySum gains by one more packet its bound gains by a later last one.
LEMMA OneMoreDelay ==
  ASSUME NEW sum \in Nat, NEW n \in Nat, NEW first \in Nat, NEW last \in Nat,
         NEW t \in Nat, NEW d \in Nat,
         sum <= n * (last - first), n > 0 => last <= t, n = 0 => sum = 0,
         d <= t - first
  PROVE  sum + d <= (n + 1) * (t - first)
<1> PICK a \in Int : a = last - first
  OBVIOUS
<1> PICK b \in Int : b = t - first
  OBVIOUS
<1>1. (n + 1) * b = n * b + b /\ n * b \in Int
  OBVIOUS
<1>2. sum <= n * b
  <2>1. CASE n = 0
    BY <2>1
  <2>2. CASE n > 0
    <3>1. a <= b
      BY <2>2
    <3>2. n * a <= n * b /\ n * a \in Int
      BY <3>1
    <3> QED
      BY <1>1, <3>2
  <2> QED
    BY <2>1, <2>2
<1> QED
  BY <1>1, <1>2

\* Time may pass, packets may be seen again or forgotten, and losses counted.
LEMMA DelaysKept ==
  ASSUME NEW f \in Flows, DelaysBounded(f), MonitorInv, now' \in Nat,
         now <= now', SameDelays(m_flowStats[f], m_flowStats'[f]),
         \A k \in DOMAIN m_trackedPackets' :
           /\ k \in DOMAIN m_trackedPackets
           /\ m_trackedPackets'[k].firstSeenTime
                = m_trackedPackets[k].firstSeenTime
  PROVE  DelaysBounded(f)'
<1>1. m_flowStats[f] \in FlowStats /\ now \in Nat
  BY DEF MonitorInv, TypeOK, StatsTyped, ClockTyped
<1>2. \A k \in TrackedOf(f)' :
        /\ k \in TrackedOf(f)
        /\ m_trackedPackets'[k].firstSeenTime
             = m_trackedPackets[k].firstSeenTime
  BY DEF TrackedOf
<1>3. /\ m_flowStats'[f].timeFirstTxPacket <= now'
      /\ m_flowStats'[f].timeLastRxPacket <= now'
  BY <1>1 DEF DelaysBounded, SameDelays, FlowStats
<1> QED
  BY <1>2, <1>3 DEF DelaysBounded, SameDelays

LEMMA FirstTxDelays ==
  ASSUME MonitorInv, NEW k \in Keys, ReportFirstTx(k), now' = now,
         \A f \in Flows : DelaysBounded(f), NEW f \in Flows
  PROVE  DelaysBounded(f)'
<1>1. /\ m_flowStats \in [Flows -> FlowStats] /\ now \in Nat
      /\ k.flow \in Flows
  BY DEF MonitorInv, TypeOK, StatsTyped, ClockTyped, Keys
<1>2. CASE f # k.flow
  <2>1. m_flowStats'[f] = m_flowStats[f]
    BY <1>1, <1>2 DEF ReportFirstTx
  <2>2. \A j \in TrackedOf(f)' :
          /\ j \in TrackedOf(f)
          /\ m_trackedPackets'[j] = m_trackedPackets[j]
    BY <1>2 DEF ReportFirstTx, TrackedOf
  <2> QED
    BY <2>1, <2>2 DEF DelaysBounded
<1>3. CASE f = k.flow
  <2> PICK fs \in FlowStats : fs = m_flowStats[f]
    BY <1>1
  <2> PICK gs : gs = m_flowStats'[f]
    OBVIOUS
  <2>1. /\ gs.txPackets = fs.txPackets + 1 /\ gs.rxPackets = fs.rxPackets
        /\ gs.delaySum = fs.delaySum
        /\ gs.timeLastRxPacket = fs.timeLastRxPacket
        /\ gs.timeFirstTxPacket =
             IF fs.txPackets = 0 THEN now ELSE fs.timeFirstTxPacket
    BY <1>1, <1>3 DEF ReportFirstTx, FlowStats
  <2>2. \A j \in TrackedOf(f)' :
          \/ m_trackedPackets'[j].firstSeenTime = now
          \/ /\ j \in TrackedOf(f)
             /\ m_trackedPackets'[j] = m_trackedPackets[j]
    BY DEF ReportFirstTx, TrackedOf
  <2>3. /\ fs.txPackets \in Nat /\ fs.rxPackets \in Nat /\ fs.delaySum \in Nat
        /\ fs.timeFirstTxPacket \in Nat /\ fs.timeLastRxPacket \in Nat
    BY DEF FlowStats
  <2>4. CASE fs.txPackets = 0
    <3>1. fs.rxPackets = 0 /\ fs.delaySum = 0 /\ TrackedOf(f) = {}
          /\ fs.timeLastRxPacket <= now
      BY <2>3, <2>4 DEF DelaysBounded
    <3>2. \A j \in TrackedOf(f)' : m_trackedPackets'[j].firstSeenTime = now
      BY <2>2, <3>1
    <3>3. gs.rxPackets * (gs.timeLastRxPacket - gs.timeFirstTxPacket) = 0
      BY <1>1, <2>1, <2>3, <2>4, <3>1
    <3> QED
      BY <1>1, <2>1, <2>3, <2>4, <3>1, <3>2, <3>3 DEF DelaysBounded
  <2>5. CASE fs.txPackets > 0
    <3>1. /\ gs.txPackets > 0
          /\ gs.timeFirstTxPacket = fs.timeFirstTxPacket
      BY <2>1, <2>3, <2>5
    <3>2. \A j \in TrackedOf(f)' :
            gs.timeFirstTxPacket <= m_trackedPackets'[j].firstSeenTime
      BY <2>2, <3>1 DEF DelaysBounded
    <3> QED
      BY <2>1, <3>1, <3>2 DEF DelaysBounded
  <2> QED
    BY <2>3, <2>4, <2>5
<1> QED
  BY <1>2, <1>3

LEMMA LastRxDelays ==
  ASSUME MonitorInv, NEW k \in DOMAIN m_trackedPackets, ReportLastRx(k),
         now' = now, \A f \in Flows : DelaysBounded(f), NEW f \in Flows
  PROVE  DelaysBounded(f)'
<1>1. /\ m_flowStats \in [Flows -> FlowStats] /\ now \in Nat
      /\ k.flow \in Flows
      /\ m_trackedPackets[k] \in [firstSeenTime : Nat, lastSeenTime : Nat]
  BY DEF MonitorInv, TypeOK, StatsTyped, ClockTyped, Keys
<1>2. \A j \in TrackedOf(f)' :
        /\ j \in TrackedOf(f)
        /\ m_trackedPackets'[j] = m_trackedPackets[j]
  BY UntrackedDomain DEF ReportLastRx, TrackedOf
<1>3. CASE f # k.flow
  <2>1. m_flowStats'[f] = m_flowStats[f]
    BY <1>1, <1>3 DEF ReportLastRx
  <2> QED
    BY <1>2, <2>1 DEF DelaysBounded
<1>4. CASE f = k.flow
  <2> PICK fs \in FlowStats : fs = m_flowStats[f]
    BY <1>1
  <2> PICK gs : gs = m_flowStats'[f]
    OBVIOUS
  <2> PICK seen \in Nat : seen = m_trackedPackets[k].firstSeenTime
    BY <1>1
  <2>1. /\ gs.txPackets = fs.txPackets /\ gs.rxPackets = fs.rxPackets + 1
        /\ gs.delaySum = fs.delaySum + now - seen
        /\ gs.timeLastRxPacket = now
        /\ gs.timeFirstTxPacket = fs.timeFirstTxPacket
    BY <1>1, <1>4 DEF ReportLastRx, FlowStats
  <2>2. /\ fs.txPackets \in Nat /\ fs.rxPackets \in Nat /\ fs.delaySum \in Nat
        /\ fs.timeFirstTxPacket \in Nat /\ fs.timeLastRxPacket \in Nat
    BY DEF FlowStats
  <2>3. k \in TrackedOf(f)
    BY <1>4 DEF TrackedOf
  <2>4. /\ fs.txPackets > 0 /\ fs.timeFirstTxPacket <= seen
        /\ fs.timeFirstTxPacket <= now /\ fs.timeLastRxPacket <= now
        /\ fs.rxPackets = 0 => fs.delaySum = 0
        /\ fs.delaySum
             <= fs.rxPackets * (fs.timeLastRxPacket - fs.timeFirstTxPacket)
    BY <2>3 DEF DelaysBounded
  <2>5. seen <= now
    <3>1. /\ m_trackedPackets[k].firstSeenTime
               <= m_trackedPackets[k].lastSeenTime
          /\ m_trackedPackets[k].lastSeenTime <= now
      BY DEF MonitorInv, SeenInPast
    <3> QED
      BY <1>1, <3>1
  <2>6. fs.delaySum + (now - seen)
          <= (fs.rxPackets + 1) * (now - fs.timeFirstTxPacket)
    <3>1. now - seen \in Nat /\ now - seen <= now - fs.timeFirstTxPacket
      BY <1>1, <2>2, <2>4, <2>5
    <3> QED
      BY <1>1, <2>2, <2>4, <3>1, OneMoreDelay
  <2>7. gs.delaySum = fs.delaySum + (now - seen)
    BY <1>1, <2>1, <2>2
  <2>8. gs.rxPackets > 0 /\ gs.rxPackets # 0
    BY <2>1, <2>2
  <2>9. \A j \in TrackedOf(f)' :
          gs.timeFirstTxPacket <= m_trackedPackets'[j].firstSeenTime
    BY <1>2, <2>1 DEF DelaysBounded
  <2> QED
    BY <1>1, <2>1, <2>2, <2>4, <2>6, <2>7, <2>8, <2>9 DEF DelaysBounded
<1> QED
  BY <1>3, <1>4

\* A report, of a packet that is tracked if it is not the first.
LEMMA ReportDelays ==
  ASSUME MonitorInv, NEW k \in Keys, Report(k), now' = now,
         \A f \in Flows : DelaysBounded(f)
  PROVE  \A f \in Flows : DelaysBounded(f)'
<1> SUFFICES ASSUME NEW f \in Flows PROVE DelaysBounded(f)'
  OBVIOUS
<1>1. /\ m_flowStats \in [Flows -> FlowStats] /\ now \in Nat
  BY DEF MonitorInv, TypeOK, StatsTyped, ClockTyped
<1>2. CASE ReportFirstTx(k)
  BY <1>2, FirstTxDelays
<1>3. CASE k \in DOMAIN m_trackedPackets /\ ReportLastRx(k)
  BY <1>3, LastRxDelays
<1>4. CASE \/ k \in DOMAIN m_trackedPackets /\ ReportForwarding(k)
           \/ ReportDrop(k) \/ UNCHANGED statVars
  <2>1. SameDelays(m_flowStats[f], m_flowStats'[f])
    <3>1. CASE ReportDrop(k)
      BY <1>1, <3>1 DEF ReportDrop, SameDelays, FlowStats
    <3>2. CASE m_flowStats' = m_flowStats
      BY <3>2 DEF SameDelays
    <3> QED
      BY <1>4, <3>1, <3>2 DEF ReportForwarding, statVars
  <2>2. \A j \in DOMAIN m_trackedPackets' :
          /\ j \in DOMAIN m_trackedPackets
          /\ m_trackedPackets'[j].firstSeenTime
               = m_trackedPackets[j].firstSeenTime
    <3>1. CASE k \in DOMAIN m_trackedPackets /\ ReportForwarding(k)
      BY <3>1 DEF ReportForwarding, MonitorInv, TypeOK, StatsTyped
    <3>2. CASE ReportDrop(k)
      BY <3>2, UntrackedDomain DEF ReportDrop
    <3>3. CASE UNCHANGED statVars
      BY <3>3 DEF statVars
    <3> QED
      BY <1>4, <3>1, <3>2, <3>3
  <2> QED
    BY <1>1, <2>1, <2>2, DelaysKept
<1> QED
  BY <1>2, <1>3, <1>4 DEF Report

LEMMA CheckDelays ==
  ASSUME MonitorInv, CheckForLostPackets, now' = now,
         NEW f \in Flows, DelaysBounded(f)
  PROVE  DelaysBounded(f)'
<1>1. m_flowStats \in [Flows -> FlowStats] /\ now \in Nat
  BY DEF MonitorInv, TypeOK, StatsTyped, ClockTyped
<1>2. SameDelays(m_flowStats[f], m_flowStats'[f])
  <2> PICK n : n = m_flowStats[f].lostPackets
                     + Cardinality({k \in Overdue : k.flow = f})
    OBVIOUS
  <2>1. m_flowStats'[f] = [m_flowStats[f] EXCEPT !.lostPackets = n]
    BY DEF CheckForLostPackets
  <2> QED
    BY <1>1, <2>1 DEF SameDelays, FlowStats
<1> QED
  BY <1>1, <1>2, CheckTracks, DelaysKept DEF MonitorInv

\* Every step of the monitor but ResetAllStats.
UnresetNext == \/ \E f \in Flows : SendOutgoing(f)
               \/ \E p \in network : PacketMoves(p)
               \/ \E d \in StartDelays : Start(d)
               \/ \E d \in StopDelays : Stop(d)
               \/ StartRightNow \/ StopRightNow \/ PeriodicCheckForLostPackets
               \/ CheckNow \/ Passes

LEMMA DelaysStep ==
  ASSUME MonitorInv, [UnresetNext]_monitorVars,
         \A f \in Flows : DelaysBounded(f)
  PROVE  \A f \in Flows : DelaysBounded(f)'
<1>0. now \in Nat
  BY DEF MonitorInv, TypeOK, ClockTyped
<1>1. ASSUME NEW g \in Flows, SendOutgoing(g)
      PROVE  \A f \in Flows : DelaysBounded(f)'
  <2> PICK k : k = [flow |-> g, id |-> m_flowPktIdMap[g]]
    OBVIOUS
  <2>1. k \in Keys
    <3>1. m_flowPktIdMap[g] \in 0 .. MaxPackets - 1
      BY <1>1, MonitorAssumption
      DEF SendOutgoing, MonitorInv, TypeOK, NetworkTyped
    <3> QED
      BY <3>1 DEF Keys
  <2>2. Report(k) /\ now' = now
    BY <1>1 DEF SendOutgoing, IfEnabled, Report
  <2> QED
    BY <2>1, <2>2, ReportDelays
<1>2. ASSUME NEW p \in network, PacketMoves(p)
      PROVE  \A f \in Flows : DelaysBounded(f)'
  <2>1. Key(p) \in Keys
    BY DEF MonitorInv, TypeOK, NetworkTyped, Transit, Key, Keys
  <2> QED
    BY <1>2, <2>1, PacketMovesReport, ReportDelays
<1>3. CASE PeriodicCheckForLostPackets \/ CheckNow
  BY <1>3, CheckDelays DEF PeriodicCheckForLostPackets, CheckNow
<1>4. CASE /\ UNCHANGED statVars /\ now' \in Nat /\ now <= now'
  <2>1. m_flowStats' = m_flowStats /\ m_trackedPackets' = m_trackedPackets
    BY <1>4 DEF statVars
  <2> QED
    BY <1>4, <2>1, DelaysKept DEF SameDelays
<1>5. CASE StopRightNow
  <2>1. now' = now /\ (CheckForLostPackets \/ UNCHANGED statVars)
    BY <1>5 DEF StopRightNow, IfEnabled
  <2> QED
    BY <1>0, <1>4, <2>1, CheckDelays
<1>6. CASE Passes
  <2>1. UNCHANGED statVars /\ now' \in Nat /\ now <= now'
    BY <1>0, <1>6, MonitorAssumption DEF Passes
  <2> QED
    BY <1>4, <2>1
<1>7. CASE \/ \E d \in StartDelays : Start(d)
           \/ \E d \in StopDelays : Stop(d)
           \/ StartRightNow \/ UNCHANGED monitorVars
  <2>1. UNCHANGED statVars /\ now' = now
    BY <1>7 DEF Start, Stop, StartRightNow, monitorVars
  <2> QED
    BY <1>0, <1>4, <2>1
<1> QED
  BY <1>1, <1>2, <1>3, <1>4, <1>5, <1>6, <1>7 DEF UnresetNext

LEMMA DelaysInit ==
  ASSUME NEW start, MonitorInit(start), NEW f \in Flows
  PROVE  DelaysBounded(f)
<1>1. /\ m_flowStats[f] = NoStats /\ DOMAIN m_trackedPackets = {} /\ now = 0
  BY DEF MonitorInit
<1>2. TrackedOf(f) = {}
  BY <1>1 DEF TrackedOf
<1> QED
  BY <1>1, <1>2 DEF DelaysBounded, NoStats

-----------------------------------------------------------------------------
(* The books.  They balance as long as the packets that are reported are   *)
(* tracked, which is what a program with a prompt network provides.        *)

LEMMA TrackedOfFinite ==
  ASSUME TrackedFinite, NEW f
  PROVE  IsFiniteSet(TrackedOf(f)) /\ Cardinality(TrackedOf(f)) \in Nat
<1>1. TrackedOf(f) \in SUBSET DOMAIN m_trackedPackets
  BY DEF TrackedOf
<1> QED
  BY <1>1, FS_Subset, FS_CardinalityType DEF TrackedFinite

\* The books of one flow.
Balance(f) ==
  m_flowStats[f].txPackets =
    m_flowStats[f].rxPackets + m_flowStats[f].lostPackets
      + Cardinality(TrackedOf(f))

LEMMA BooksBalanceIs == BooksBalance <=> \A f \in Flows : Balance(f)
BY DEF BooksBalance, Balance, TrackedOf

LEMMA CountsTyped ==
  ASSUME MonitorInv, NEW f \in Flows
  PROVE  /\ m_flowStats[f].txPackets \in Nat /\ m_flowStats[f].rxPackets \in Nat
         /\ m_flowStats[f].lostPackets \in Nat
         /\ Cardinality(TrackedOf(f)) \in Nat
<1>1. m_flowStats[f] \in FlowStats
  BY DEF MonitorInv, TypeOK, StatsTyped
<1> QED
  BY <1>1, TrackedOfFinite DEF FlowStats, MonitorInv

\* Where neither the counts nor the tracked packets of a flow change.
LEMMA BalanceKept ==
  ASSUME NEW f, Balance(f), TrackedOf(f)' = TrackedOf(f),
         m_flowStats'[f].txPackets = m_flowStats[f].txPackets,
         m_flowStats'[f].rxPackets = m_flowStats[f].rxPackets,
         m_flowStats'[f].lostPackets = m_flowStats[f].lostPackets
  PROVE  Balance(f)'
BY DEF Balance

LEMMA BooksFirstTx ==
  ASSUME MonitorInv, BooksBalance, NEW k \in Keys, ReportFirstTx(k),
         k \notin DOMAIN m_trackedPackets
  PROVE  BooksBalance'
<1>1. k.flow \in Flows /\ m_flowStats \in [Flows -> FlowStats]
  BY DEF Keys, MonitorInv, TypeOK, StatsTyped
<1>2. DOMAIN m_trackedPackets' = DOMAIN m_trackedPackets \cup {k}
  BY DEF ReportFirstTx
<1>3. ASSUME NEW f \in Flows, f # k.flow PROVE Balance(f)'
  <2>1. TrackedOf(f)' = TrackedOf(f) /\ m_flowStats'[f] = m_flowStats[f]
    BY <1>1, <1>2, <1>3 DEF TrackedOf, ReportFirstTx
  <2> QED
    BY <2>1, BalanceKept, BooksBalanceIs
<1>4. Balance(k.flow)'
  <2> DEFINE f == k.flow
  <2>1. TrackedOf(f)' = TrackedOf(f) \cup {k} /\ k \notin TrackedOf(f)
    BY <1>2 DEF TrackedOf
  <2>2. Cardinality(TrackedOf(f)') = Cardinality(TrackedOf(f)) + 1
    BY <2>1, FS_AddElement, TrackedOfFinite DEF MonitorInv
  <2>3. m_flowStats[f] \in FlowStats
    BY <1>1
  <2>4. /\ m_flowStats'[f].txPackets = m_flowStats[f].txPackets + 1
        /\ m_flowStats'[f].rxPackets = m_flowStats[f].rxPackets
        /\ m_flowStats'[f].lostPackets = m_flowStats[f].lostPackets
    BY <1>1, <2>3 DEF ReportFirstTx, FlowStats
  <2> QED
    BY <1>1, <2>2, <2>4, CountsTyped, BooksBalanceIs DEF Balance
<1> QED
  BY <1>3, <1>4, BooksBalanceIs DEF BooksBalance, Balance, TrackedOf

\* The end of a tracked packet.
LEMMA BooksEnd ==
  ASSUME MonitorInv, BooksBalance, NEW k \in DOMAIN m_trackedPackets,
         ReportLastRx(k) \/ ReportDrop(k)
  PROVE  BooksBalance'
<1>1. k.flow \in Flows /\ m_flowStats \in [Flows -> FlowStats]
  BY DEF Keys, MonitorInv, TypeOK, StatsTyped
<1>2. DOMAIN m_trackedPackets' = DOMAIN m_trackedPackets \ {k}
  BY UntrackedDomain DEF ReportLastRx, ReportDrop
<1>3. ASSUME NEW f \in Flows, f # k.flow PROVE Balance(f)'
  <2>1. TrackedOf(f)' = TrackedOf(f) /\ m_flowStats'[f] = m_flowStats[f]
    BY <1>1, <1>2, <1>3 DEF TrackedOf, ReportLastRx, ReportDrop
  <2> QED
    BY <2>1, BalanceKept, BooksBalanceIs
<1>4. Balance(k.flow)'
  <2> DEFINE f == k.flow
  <2>1. TrackedOf(f)' = TrackedOf(f) \ {k} /\ k \in TrackedOf(f)
    BY <1>2 DEF TrackedOf
  <2>2. Cardinality(TrackedOf(f)') = Cardinality(TrackedOf(f)) - 1
    BY <2>1, FS_RemoveElement, TrackedOfFinite DEF MonitorInv
  <2>3. m_flowStats[f] \in FlowStats
    BY <1>1
  <2>4. /\ m_flowStats'[f].txPackets = m_flowStats[f].txPackets
        /\ \/ /\ m_flowStats'[f].rxPackets = m_flowStats[f].rxPackets + 1
              /\ m_flowStats'[f].lostPackets = m_flowStats[f].lostPackets
           \/ /\ m_flowStats'[f].rxPackets = m_flowStats[f].rxPackets
              /\ m_flowStats'[f].lostPackets = m_flowStats[f].lostPackets + 1
    BY <1>1, <2>3 DEF ReportLastRx, ReportDrop, FlowStats
  <2>5. /\ m_flowStats[f].txPackets =
             m_flowStats[f].rxPackets + m_flowStats[f].lostPackets
               + Cardinality(TrackedOf(f))
        /\ m_flowStats[f].txPackets \in Nat /\ m_flowStats[f].rxPackets \in Nat
        /\ m_flowStats[f].lostPackets \in Nat
        /\ Cardinality(TrackedOf(f)) \in Nat
    BY <1>1, CountsTyped, BooksBalanceIs DEF Balance
  <2>6. m_flowStats'[f].txPackets =
          m_flowStats'[f].rxPackets + m_flowStats'[f].lostPackets
            + Cardinality(TrackedOf(f)')
    BY <2>2, <2>4, <2>5
  <2> QED
    BY <2>6 DEF Balance
<1> QED
  BY <1>3, <1>4, BooksBalanceIs DEF BooksBalance, Balance, TrackedOf

LEMMA BooksForward ==
  ASSUME BooksBalance, NEW k, ReportForwarding(k)
  PROVE  BooksBalance'
BY DEF ReportForwarding, BooksBalance

LEMMA BooksCheck ==
  ASSUME MonitorInv, BooksBalance, CheckForLostPackets
  PROVE  BooksBalance'
<1>1. DOMAIN m_trackedPackets' = DOMAIN m_trackedPackets \ Overdue
  BY CheckTracks DEF MonitorInv
<1>2. ASSUME NEW f \in Flows PROVE Balance(f)'
  <2> DEFINE given == {k \in Overdue : k.flow = f}
             n == Cardinality(given)
  <2>1. TrackedOf(f)' = TrackedOf(f) \ given
    BY <1>1 DEF TrackedOf
  <2>2. TrackedOf(f) \cap given = given
    BY DEF TrackedOf, Overdue
  <2>3. Cardinality(TrackedOf(f)') = Cardinality(TrackedOf(f)) - n /\ n \in Nat
    <3>1. IsFiniteSet(TrackedOf(f)) /\ n \in Nat
      BY TrackedOfFinite, LossesCounted DEF MonitorInv
    <3> HIDE DEF given
    <3> QED
      BY <2>1, <2>2, <3>1, FS_Difference
  <2> HIDE DEF n
  <2>4. m_flowStats[f] \in FlowStats
    BY DEF MonitorInv, TypeOK, StatsTyped
  <2>5. m_flowStats'[f] = [m_flowStats[f] EXCEPT !.lostPackets = @ + n]
    BY DEF CheckForLostPackets, n
  <2>6. /\ m_flowStats'[f].txPackets = m_flowStats[f].txPackets
        /\ m_flowStats'[f].rxPackets = m_flowStats[f].rxPackets
        /\ m_flowStats'[f].lostPackets = m_flowStats[f].lostPackets + n
    BY <2>4, <2>5 DEF FlowStats
  <2> QED
    BY <2>3, <2>6, CountsTyped, BooksBalanceIs DEF Balance
<1> QED
  BY <1>2 DEF BooksBalance, Balance, TrackedOf

-----------------------------------------------------------------------------
(* The program uses its flow monitor as FlowMonitor allows.                *)

\* Every step of the program is a step of the monitor or leaves it alone.
LEMMA EstadioUsesMonitor == [EstadioNext]_vars => [Next]_monitorVars
<1> SUFFICES ASSUME [EstadioNext]_vars PROVE [Next]_monitorVars
  OBVIOUS
<1>1. ASSUME NEW u \in Flows, Envia(u) PROVE Next
  BY <1>1 DEF Envia, Next
<1>2. CASE Rede \/ Verifica \/ ComecaMonitor \/ AmostraMetricas \/ Avanca
           \/ ColetaMetricas \/ SerializeToXmlFile
  BY <1>2 DEF Rede, Verifica, ComecaMonitor, AmostraMetricas, Avanca,
              ColetaMetricas, SerializeToXmlFile, Next
<1>3. CASE \/ \E u \in Flows : IniciaAplicacao(u) \/ ParaAplicacao(u)
           \/ Para \/ UNCHANGED vars
  BY <1>3 DEF IniciaAplicacao, ParaAplicacao, Para, vars
<1> QED
  BY <1>1, <1>2, <1>3 DEF EstadioNext

\* The stadium program implements the specification of the flow monitor, with
\* its generators, its samples and its reports for the monitor's callers.
THEOREM EstadioImplementsMonitor == EstadioSpec => Spec
<1>1. EstadioInit => Init
  BY DEF EstadioInit, Init
<1> QED
  BY <1>1, EstadioUsesMonitor, PTL DEF EstadioSpec, Spec

\* In the stadium, too, every packet that vanished is given up in time.
THEOREM EstadioLossDetected == EstadioSpec => []LossDetectedInTime
BY EstadioImplementsMonitor, LossDetectedInTimeCorrect, PTL

LEMMA EstadioMonitorInit == EstadioInit => MonitorInv
BY MonitorInitInv DEF EstadioInit

LEMMA EstadioMonitorStep == MonitorInv /\ [EstadioNext]_vars => MonitorInv'
BY EstadioUsesMonitor, MonitorStep

-----------------------------------------------------------------------------
(* When generators start.                                                  *)

LEMMA InicioBounds ==
  ASSUME simTime \in SimTimes, NEW u \in Flows
  PROVE  /\ Inicio(u) \in Nat /\ Inicio(u) >= Segundo
         /\ simTime > 300 => Inicio(u) <= simTime - 2 * Segundo
<1> DEFINE y == simTime - 3 * Segundo
           d == IF y < 0 THEN -y ELSE y
<1>1. simTime \in Nat /\ simTime # 300 /\ u \in Nat
  BY EstadioAssumption
<1>2. y \in Int /\ y # 0 /\ d \in Nat \ {0} /\ (simTime > 300 => d = y)
  BY <1>1 DEF Segundo
<1>3. Fmod(u, y) = u % d
  BY Zenon DEF Fmod
<1>4. Inicio(u) = IF Segundo + u > simTime - 2 * Segundo
                  THEN Segundo + Fmod(u, y)
                  ELSE Segundo + u
  BY Zenon DEF Inicio
<1> HIDE DEF d, y
<1>5. u % d \in 0 .. d - 1
  BY <1>1, <1>2
<1>6. Fmod(u, y) \in Nat /\ (simTime > 300 => Fmod(u, y) < simTime - 300)
  BY <1>1, <1>2, <1>3, <1>5 DEF y, Segundo
<1>7. CASE Segundo + u > simTime - 2 * Segundo
  <2>1. Inicio(u) = Segundo + Fmod(u, y)
    BY <1>4, <1>7
  <2> QED
    BY <1>1, <1>6, <2>1 DEF Segundo
<1>8. CASE ~(Segundo + u > simTime - 2 * Segundo)
  <2>1. Inicio(u) = Segundo + u
    BY <1>4, <1>8
  <2> QED
    BY <1>1, <1>8, <2>1 DEF Segundo
<1> QED
  BY <1>7, <1>8

-----------------------------------------------------------------------------
(* The generators: a start never comes after the stop, and neither is      *)
(* passed over.                                                            *)

Schedule ==
  /\ simTime \in SimTimes /\ now \in Nat /\ now <= simTime
  /\ fase # "run" => now = simTime
  /\ aIniciar \subseteq Flows /\ aIniciar \subseteq aParar
  /\ ligados \subseteq aParar
  /\ \A u \in aIniciar : now <= Inicio(u)
  /\ aParar # {} => now <= Fim

LEMMA ScheduleInit ==
  ASSUME \A s \in SimTimes : s > 300, EstadioInit
  PROVE  Schedule
<1>1. now = 0 /\ simTime \in SimTimes /\ simTime \in Nat /\ simTime > 300
  BY EstadioAssumption DEF EstadioInit, MonitorInit
<1>2. /\ fase = "run" /\ aIniciar = Flows /\ ligados = {}
      /\ aParar = IF Fim # 0 THEN Flows ELSE {}
  BY DEF EstadioInit
<1>3. Fim \in Nat /\ Fim > 0
  BY <1>1 DEF Fim
<1> QED
  BY <1>1, <1>2, <1>3, InicioBounds DEF Schedule, Segundo

LEMMA ScheduleStep ==
  ASSUME \A s \in SimTimes : s > 300, Schedule, [EstadioNext]_vars
  PROVE  Schedule'
<1>1. simTime \in Nat /\ simTime > 300
  BY EstadioAssumption DEF Schedule
<1>2. CASE Avanca
  <2>1. /\ now' = now + Step /\ now + Step <= simTime
        /\ fase = "run"
        /\ \A u \in aIniciar : now + Step <= Inicio(u)
        /\ aParar # {} => now + Step <= Fim
        /\ UNCHANGED <<simTime, fase, aIniciar, aParar, ligados>>
    BY <1>2 DEF Avanca, Passes, programVars
  <2> QED
    BY <2>1, MonitorAssumption DEF Schedule, Inicio, Fim
<1>3. ASSUME NEW u \in Flows, IniciaAplicacao(u) PROVE Schedule'
  <2>1. /\ u \in aIniciar
        /\ aIniciar' = aIniciar \ {u} /\ ligados' = ligados \cup {u}
        /\ UNCHANGED <<now, simTime, fase, aParar>>
    BY <1>3 DEF IniciaAplicacao, monitorVars
  <2> QED
    BY <2>1 DEF Schedule, Inicio, Fim
<1>4. ASSUME NEW u \in Flows, ParaAplicacao(u) PROVE Schedule'
  <2>1. /\ u \in aIniciar => Inicio(u) > Fim
        /\ aParar' = aParar \ {u} /\ ligados' = ligados \ {u}
        /\ UNCHANGED <<now, simTime, fase, aIniciar>>
    BY <1>4 DEF ParaAplicacao, monitorVars
  <2>2. u \notin aIniciar
    <3>1. Inicio(u) <= simTime - 2 * Segundo /\ Inicio(u) \in Nat
      BY <1>1, InicioBounds DEF Schedule
    <3> QED
      BY <1>1, <2>1, <3>1 DEF Fim, Segundo
  <2> QED
    BY <2>1, <2>2 DEF Schedule, Inicio, Fim
<1>5. CASE Para
  <2>1. /\ now = simTime /\ fase' = "metricas"
        /\ UNCHANGED <<now, simTime, aIniciar, aParar, ligados>>
    BY <1>5 DEF Para, monitorVars
  <2> QED
    BY <2>1 DEF Schedule, Inicio, Fim
<1>6. CASE ColetaMetricas \/ SerializeToXmlFile
  <2>1. /\ fase # "run"
        /\ UNCHANGED <<now, simTime, aIniciar, aParar, ligados>>
    BY <1>6 DEF ColetaMetricas, SerializeToXmlFile, CheckNow
  <2> QED
    BY <2>1 DEF Schedule, Inicio, Fim
<1>7. CASE \/ \E u \in Flows : Envia(u)
           \/ Rede \/ Verifica \/ ComecaMonitor \/ AmostraMetricas
           \/ UNCHANGED vars
  <2>1. UNCHANGED <<now, simTime, fase, aIniciar, aParar, ligados>>
    <3>1. CASE \E u \in Flows : Envia(u)
      BY <3>1 DEF Envia, SendOutgoing, programVars
    <3>2. CASE Rede
      BY <3>2, PacketMovesReport DEF Rede, programVars
    <3>3. CASE Verifica \/ ComecaMonitor \/ AmostraMetricas
      BY <3>3 DEF Verifica, PeriodicCheckForLostPackets, ComecaMonitor,
                  StartRightNow, AmostraMetricas, CheckNow, programVars
    <3>4. CASE UNCHANGED vars
      BY <3>4 DEF vars, monitorVars, programVars
    <3> QED
      BY <1>7, <3>1, <3>2, <3>3, <3>4
  <2> QED
    BY <2>1 DEF Schedule, Inicio, Fim
<1> QED
  BY <1>2, <1>3, <1>4, <1>5, <1>6, <1>7 DEF EstadioNext

\* With every simulation time above three seconds, whatever the number of
\* fans, each fan's generator is started before the run ends: the fmod of the
\* start times loses nobody.
THEOREM EveryFanServedCorrect ==
  ASSUME \A s \in SimTimes : s > 300
  PROVE  EstadioSpec => []EveryFanServed
<1>1. EstadioInit => Schedule
  BY ScheduleInit
<1>2. Schedule /\ [EstadioNext]_vars => Schedule'
  BY ScheduleStep
<1>3. Schedule => EveryFanServed
  <2> SUFFICES ASSUME Schedule, fase # "run", NEW u \in aIniciar PROVE FALSE
    BY DEF EveryFanServed
  <2>1. now = simTime /\ now <= Inicio(u) /\ u \in Flows
    BY DEF Schedule
  <2>2. simTime \in Nat /\ simTime > 300
    BY EstadioAssumption DEF Schedule
  <2>3. Inicio(u) <= simTime - 2 * Segundo /\ Inicio(u) \in Nat
    BY <2>1, <2>2, InicioBounds DEF Schedule
  <2> QED
    BY <2>1, <2>2, <2>3 DEF Segundo
<1> QED
  BY <1>1, <1>2, <1>3, PTL DEF EstadioSpec

\* With every simulation time above three seconds no generator has a socket
\* after the stop time: none was started too late for its own stop.
THEOREM GeneratorsStopCorrect ==
  ASSUME \A s \in SimTimes : s > 300
  PROVE  EstadioSpec => []GeneratorsStop
<1>1. EstadioInit => Schedule
  BY ScheduleInit
<1>2. Schedule /\ [EstadioNext]_vars => Schedule'
  BY ScheduleStep
<1>3. Schedule => GeneratorsStop
  <2> SUFFICES ASSUME Schedule, now > Fim PROVE ligados = {}
    BY DEF GeneratorsStop
  <2>1. simTime \in Nat /\ now \in Nat /\ Fim \in Int
    BY EstadioAssumption DEF Schedule, Fim
  <2> QED
    BY <2>1 DEF Schedule
<1> QED
  BY <1>1, <1>2, <1>3, PTL DEF EstadioSpec

-----------------------------------------------------------------------------
(* The chain of samples.  All full seconds before the next sample, or      *)
(* before simTime if there is none, have their line.                       *)

Sampled ==
  /\ amostra # Never => /\ amostra \in Nat /\ now <= amostra
                        /\ amostra < simTime
                        /\ \E n \in Nat \ {0} : amostra = n * Segundo
  /\ \A n \in Nat \ {0} :
       /\ n * Segundo < simTime
       /\ amostra = Never \/ n * Segundo < amostra
       => n * Segundo \in linhas
  /\ \A t \in linhas : /\ t < simTime
                       /\ \E n \in Nat \ {0} : t = n * Segundo

LEMMA SampledStep ==
  ASSUME \A s \in SimTimes : s > 300, Schedule, Sampled, [EstadioNext]_vars
  PROVE  Sampled'
<1>1. simTime \in Nat /\ simTime > 300 /\ now \in Nat /\ now <= simTime
  BY EstadioAssumption DEF Schedule
<1>2. CASE AmostraMetricas
  <2>1. /\ amostra = now /\ linhas' = linhas \cup {now}
        /\ amostra' = IF now + Segundo < simTime THEN now + Segundo ELSE Never
        /\ now' = now /\ simTime' = simTime
    BY <1>2 DEF AmostraMetricas, CheckNow
  <2>2. amostra # Never /\ now < simTime
    BY <1>1, <2>1 DEF Never, Sampled
  <2> PICK n \in Nat \ {0} : now = n * Segundo
    BY <2>1, <2>2 DEF Sampled
  <2>3. now + Segundo = (n + 1) * Segundo /\ n + 1 \in Nat \ {0}
    BY DEF Segundo
  <2>4. amostra' # Never => /\ amostra' \in Nat /\ now' <= amostra'
                            /\ amostra' < simTime'
                            /\ \E m \in Nat \ {0} : amostra' = m * Segundo
    <3> SUFFICES ASSUME amostra' # Never
                 PROVE  /\ amostra' \in Nat /\ now' <= amostra'
                        /\ amostra' < simTime'
                        /\ \E m \in Nat \ {0} : amostra' = m * Segundo
      OBVIOUS
    <3>1. amostra' = now + Segundo /\ now + Segundo < simTime
      BY <2>1
    <3>2. amostra' \in Nat /\ now' <= amostra' /\ amostra' < simTime'
      BY <1>1, <2>1, <3>1 DEF Segundo
    <3>3. amostra' = (n + 1) * Segundo
      BY <2>3, <3>1
    <3> QED
      BY <2>3, <3>2, <3>3
  <2>5. ASSUME NEW m \in Nat \ {0}, m * Segundo < simTime,
               amostra' = Never \/ m * Segundo < amostra'
        PROVE  m * Segundo \in linhas'
    <3>1. m * Segundo < now + Segundo
      BY <1>1, <2>1, <2>5 DEF Segundo, Never
    <3>2. m = n \/ m * Segundo < amostra
      BY <2>1, <3>1 DEF Segundo
    <3> QED
      BY <2>1, <2>5, <3>2 DEF Sampled
  <2>6. \A t \in linhas' : /\ t < simTime'
                           /\ \E m \in Nat \ {0} : t = m * Segundo
    BY <2>1, <2>2 DEF Sampled
  <2> QED
    BY <2>1, <2>4, <2>5, <2>6 DEF Sampled
<1>3. CASE Avanca
  <2>1. /\ amostra = Never \/ now' <= amostra
        /\ UNCHANGED <<simTime, amostra, linhas>>
    BY <1>3 DEF Avanca, Passes, programVars
  <2> QED
    BY <2>1 DEF Sampled
<1>4. CASE UNCHANGED <<now, simTime, amostra, linhas>>
  BY <1>4 DEF Sampled
<1>5. ASSUME NEW u \in Flows, IniciaAplicacao(u) \/ ParaAplicacao(u)
      PROVE  UNCHANGED <<now, simTime, amostra, linhas>>
  BY <1>5 DEF IniciaAplicacao, ParaAplicacao, monitorVars
<1>6. ASSUME NEW u \in Flows, Envia(u)
      PROVE  UNCHANGED <<now, simTime, amostra, linhas>>
  BY <1>6 DEF Envia, SendOutgoing, programVars
<1>7. Rede => UNCHANGED <<now, simTime, amostra, linhas>>
  BY PacketMovesReport DEF Rede, programVars
<1>8. Verifica \/ ComecaMonitor => UNCHANGED <<now, simTime, amostra, linhas>>
  BY DEF Verifica, PeriodicCheckForLostPackets, ComecaMonitor, StartRightNow,
         programVars
<1>9. Para \/ ColetaMetricas \/ SerializeToXmlFile
        => UNCHANGED <<now, simTime, amostra, linhas>>
  BY DEF Para, ColetaMetricas, SerializeToXmlFile, CheckNow, monitorVars
<1>10. UNCHANGED vars => UNCHANGED <<now, simTime, amostra, linhas>>
  BY DEF vars, monitorVars, programVars
<1> QED
  BY <1>2, <1>3, <1>4, <1>5, <1>6, <1>7, <1>8, <1>9, <1>10 DEF EstadioNext

LEMMA SampledInit ==
  ASSUME \A s \in SimTimes : s > 300, EstadioInit
  PROVE  Sampled
<1>1. /\ amostra = Segundo /\ linhas = {} /\ now = 0
      /\ simTime \in Nat /\ simTime > 300
  BY EstadioAssumption DEF EstadioInit, MonitorInit
<1>2. amostra = 1 * Segundo
  BY <1>1 DEF Segundo
<1>3. \A n \in Nat \ {0} : ~(n * Segundo < Segundo)
  BY DEF Segundo
<1> QED
  BY <1>1, <1>2, <1>3 DEF Sampled, Segundo, Never

LEMMA SampledLines ==
  ASSUME \A s \in SimTimes : s > 300, Schedule, Sampled
  PROVE  LineEverySecond
<1> DEFINE seconds == {s \in 1 .. simTime \div Segundo : s * Segundo < simTime}
<1>1. simTime \in Nat /\ now \in Nat /\ now <= simTime
  BY EstadioAssumption DEF Schedule
<1>2. ASSUME NEW t \in linhas
      PROVE  \E s \in seconds : t = s * Segundo
  <2> PICK n \in Nat \ {0} : t = n * Segundo
    BY DEF Sampled
  <2>1. n * Segundo < simTime
    BY DEF Sampled
  <2>2. n <= simTime \div Segundo /\ simTime \div Segundo \in Int
    BY <1>1, <2>1 DEF Segundo
  <2>3. n \in 1 .. simTime \div Segundo
    BY <2>2
  <2> QED
    BY <2>1, <2>3
<1>3. ASSUME NEW s \in seconds, s * Segundo < now
      PROVE  s * Segundo \in linhas
  <2>1. s \in Nat \ {0} /\ s * Segundo < simTime
    BY <1>1 DEF Segundo
  <2>2. amostra = Never \/ s * Segundo < amostra
    BY <1>1, <1>3, <2>1 DEF Sampled, Segundo
  <2> QED
    BY <2>1, <2>2 DEF Sampled
<1> QED
  BY <1>2, <1>3 DEF LineEverySecond

\* With every simulation time above three seconds, however long, there is a
\* line for every full second and only for those.
THEOREM LineEverySecondCorrect ==
  ASSUME \A s \in SimTimes : s > 300
  PROVE  EstadioSpec => []LineEverySecond
<1>1. EstadioInit => Schedule /\ Sampled
  BY ScheduleInit, SampledInit
<1>2. Schedule /\ Sampled /\ [EstadioNext]_vars => (Schedule /\ Sampled)'
  BY ScheduleStep, SampledStep
<1>3. Schedule /\ Sampled => LineEverySecond
  BY SampledLines
<1> QED
  BY <1>1, <1>2, <1>3, PTL DEF EstadioSpec

-----------------------------------------------------------------------------
(* The reports.  After one check for losses, another one at the same time  *)
(* finds none.                                                             *)

Reported == /\ fase = "xml" => metricas = Soma(m_flowStats) /\ Overdue = {}
            /\ fase = "fim" => xml = metricas

LEMMA NoneOverdue ==
  ASSUME MonitorInv, CheckNow
  PROVE  Overdue' = {}
<1>1. CheckForLostPackets /\ now' = now
  BY DEF CheckNow
<1>2. /\ DOMAIN m_trackedPackets' = DOMAIN m_trackedPackets \ Overdue
      /\ \A k \in DOMAIN m_trackedPackets' :
           m_trackedPackets'[k] = m_trackedPackets[k]
  BY <1>1, CheckTracks DEF MonitorInv
<1> QED
  BY <1>1, <1>2 DEF Overdue

LEMMA CheckFindsNone ==
  ASSUME MonitorInv, CheckForLostPackets, Overdue = {}
  PROVE  m_flowStats' = m_flowStats
<1>1. ASSUME NEW f \in Flows
      PROVE  [m_flowStats[f] EXCEPT !.lostPackets =
                @ + Cardinality({k \in Overdue : k.flow = f})] = m_flowStats[f]
  <2>1. Cardinality({k \in Overdue : k.flow = f}) = 0
    <3>1. {k \in Overdue : k.flow = f} = {}
      OBVIOUS
    <3> QED
      BY <3>1, FS_EmptySet
  <2>2. m_flowStats[f] \in FlowStats
    BY DEF MonitorInv, TypeOK, StatsTyped
  <2>3. [m_flowStats[f] EXCEPT !.lostPackets = @ + 0] = m_flowStats[f]
    BY <2>2 DEF FlowStats
  <2> QED
    BY <2>1, <2>3
<1>2. m_flowStats \in [Flows -> FlowStats]
  BY DEF MonitorInv, TypeOK, StatsTyped
<1>3. m_flowStats' =
        [f \in Flows |->
           [m_flowStats[f] EXCEPT !.lostPackets =
              @ + Cardinality({k \in Overdue : k.flow = f})]]
  BY DEF CheckForLostPackets
<1> QED
  BY <1>1, <1>2, <1>3

LEMMA ReportedStep ==
  ASSUME MonitorInv, Reported, [EstadioNext]_vars
  PROVE  Reported'
<1>1. CASE ColetaMetricas
  <2>1. fase' = "xml" /\ metricas' = Soma(m_flowStats')
    BY <1>1 DEF ColetaMetricas
  <2>2. Overdue' = {}
    BY <1>1, NoneOverdue DEF ColetaMetricas
  <2> QED
    BY <2>1, <2>2 DEF Reported
<1>2. CASE SerializeToXmlFile
  <2>1. /\ fase = "xml" /\ fase' = "fim" /\ xml' = Soma(m_flowStats')
        /\ metricas' = metricas /\ CheckForLostPackets
    BY <1>2 DEF SerializeToXmlFile, CheckNow
  <2>2. metricas = Soma(m_flowStats) /\ m_flowStats' = m_flowStats
    BY <2>1, CheckFindsNone DEF Reported
  <2> QED
    BY <2>1, <2>2 DEF Reported
<1>3. CASE fase' \in {"run", "metricas"}
  BY <1>3 DEF Reported
<1>4. CASE UNCHANGED vars
  BY <1>4 DEF vars, monitorVars, statVars, programVars, Reported, Overdue
<1>5. ASSUME NEW u \in Flows,
             IniciaAplicacao(u) \/ ParaAplicacao(u) \/ Envia(u)
      PROVE  fase' \in {"run", "metricas"}
  BY <1>5 DEF IniciaAplicacao, ParaAplicacao, Envia, programVars
<1>6. Rede \/ Verifica \/ ComecaMonitor \/ AmostraMetricas \/ Para \/ Avanca
        => fase' \in {"run", "metricas"}
  BY DEF Rede, Verifica, ComecaMonitor, AmostraMetricas, Para, Avanca,
         programVars
<1> QED
  BY <1>1, <1>2, <1>3, <1>4, <1>5, <1>6 DEF EstadioNext

\* For any number of fans, and whatever is still on its way at the end, the
\* XML file holds the totals that main printed before.
THEOREM ReportsAgreeCorrect == EstadioSpec => []ReportsAgree
<1>1. EstadioInit => MonitorInv /\ Reported
  BY EstadioMonitorInit DEF EstadioInit, Reported
<1>2. MonitorInv /\ Reported /\ [EstadioNext]_vars
        => (MonitorInv /\ Reported)'
  BY EstadioMonitorStep, ReportedStep
<1>3. MonitorInv /\ Reported => ReportsAgree
  BY DEF Reported, ReportsAgree
<1> QED
  BY <1>1, <1>2, <1>3, PTL DEF EstadioSpec

-----------------------------------------------------------------------------
(* The delays, which stay within the duration because the program never    *)
(* resets the statistics.                                                  *)

LEMMA EstadioNeverResets == [EstadioNext]_vars => [UnresetNext]_monitorVars
<1> SUFFICES ASSUME [EstadioNext]_vars PROVE [UnresetNext]_monitorVars
  OBVIOUS
<1>1. ASSUME NEW u \in Flows, Envia(u) PROVE UnresetNext
  BY <1>1 DEF Envia, UnresetNext
<1>2. CASE Rede \/ Verifica \/ ComecaMonitor \/ AmostraMetricas \/ Avanca
           \/ ColetaMetricas \/ SerializeToXmlFile
  BY <1>2 DEF Rede, Verifica, ComecaMonitor, AmostraMetricas, Avanca,
              ColetaMetricas, SerializeToXmlFile, UnresetNext
<1>3. CASE \/ \E u \in Flows : IniciaAplicacao(u) \/ ParaAplicacao(u)
           \/ Para \/ UNCHANGED vars
  BY <1>3 DEF IniciaAplicacao, ParaAplicacao, Para, vars
<1> QED
  BY <1>1, <1>2, <1>3 DEF EstadioNext

\* The mean delay of a fan's flow never exceeds the duration its throughput
\* is computed with, whatever the network loses, delays or reorders.
THEOREM DelayWithinDurationCorrect == EstadioSpec => []DelayWithinDuration
<1> DEFINE Bounded == \A f \in Flows : DelaysBounded(f)
<1>1. EstadioInit => MonitorInv /\ Bounded
  BY EstadioMonitorInit, DelaysInit DEF EstadioInit
<1>2. MonitorInv /\ Bounded /\ [EstadioNext]_vars => (MonitorInv /\ Bounded)'
  BY EstadioMonitorStep, EstadioNeverResets, DelaysStep
<1>3. Bounded => DelayWithinDuration
  BY DEF DelaysBounded, DelayWithinDuration
<1> QED
  BY <1>1, <1>2, <1>3, PTL DEF EstadioSpec

-----------------------------------------------------------------------------
(* The books.  Everything on its way was sent while the monitor listened,  *)
(* is tracked, and, where no packet is held for MaxPerHopDelay, was seen   *)
(* where it is now.                                                        *)

Listening ==
  /\ simTime \in SimTimes
  /\ ~m_enabled => /\ now = 0 /\ m_startEvent = 0
                   /\ ligados = {} /\ network = {}

Known(p) == /\ Key(p) \in DOMAIN m_trackedPackets
            /\ m_trackedPackets[Key(p)].lastSeenTime = p.since
            /\ now - p.since < MaxPerHopDelay
OnBooks == /\ \A p \in network : Known(p)
           /\ \A p, q \in network : Key(p) = Key(q) => p = q

LEMMA ListeningStep ==
  ASSUME MonitorInv, Listening, [EstadioNext]_vars
  PROVE  Listening'
<1>1. ASSUME NEW u \in Flows, IniciaAplicacao(u) PROVE Listening'
  <2>1. now = Inicio(u) /\ Inicio(u) >= Segundo /\ Inicio(u) \in Nat
    BY <1>1, InicioBounds DEF IniciaAplicacao, Listening
  <2>2. m_enabled
    BY <2>1 DEF Listening, Segundo
  <2> QED
    BY <1>1, <2>2 DEF IniciaAplicacao, monitorVars, Listening
<1>2. ASSUME NEW u \in Flows, ParaAplicacao(u) PROVE Listening'
  BY <1>2 DEF ParaAplicacao, monitorVars, eventVars, netVars, Listening
<1>3. ASSUME NEW u \in Flows, Envia(u) PROVE Listening'
  BY <1>3 DEF Envia, SendOutgoing, programVars, Listening
<1>4. CASE Rede
  <2>1. m_enabled /\ m_enabled' = m_enabled /\ simTime' = simTime
    BY <1>4 DEF Rede, PacketMoves, UnicastForward, LocalDeliver, Drop,
                LoseUnseen, programVars, Listening
  <2> QED
    BY <2>1 DEF Listening
<1>5. CASE Avanca
  <2>1. /\ m_startEvent = Never \/ now + Step <= m_startEvent
        /\ m_enabled' = m_enabled /\ simTime' = simTime
    BY <1>5 DEF Avanca, Passes, programVars
  <2>2. m_enabled
    BY <2>1, MonitorAssumption DEF Listening, Never
  <2> QED
    BY <2>1, <2>2 DEF Listening
<1>6. CASE ComecaMonitor
  BY <1>6 DEF ComecaMonitor, StartRightNow, programVars, Listening
<1>7. CASE \/ Verifica \/ AmostraMetricas \/ Para \/ ColetaMetricas
           \/ SerializeToXmlFile \/ UNCHANGED vars
  <2>1. UNCHANGED <<simTime, now, m_enabled, m_startEvent, ligados, network>>
    BY <1>7
    DEF Verifica, PeriodicCheckForLostPackets, AmostraMetricas, CheckNow, Para,
        ColetaMetricas, SerializeToXmlFile, vars, monitorVars, eventVars,
        netVars, programVars
  <2> QED
    BY <2>1 DEF Listening
<1> QED
  BY <1>1, <1>2, <1>3, <1>4, <1>5, <1>6, <1>7 DEF EstadioNext

\* What the types say of a packet on its way.
LEMMA InNetwork ==
  ASSUME MonitorInv, NEW p \in network
  PROVE  /\ Key(p) \in Keys /\ p.since \in Nat /\ p.flow \in Flows
         /\ p.id < m_flowPktIdMap[p.flow]
<1>1. p \in Transit
  BY DEF MonitorInv, TypeOK, NetworkTyped
<1>2. Key(p).id < m_flowPktIdMap[Key(p).flow]
  BY DEF MonitorInv, TypeOK, Numbered
<1> QED
  BY <1>1, <1>2 DEF Transit, Key, Keys

LEMMA BooksSend ==
  ASSUME MonitorInv, OnBooks, BooksBalance, m_enabled,
         NEW f \in Flows, SendOutgoing(f)
  PROVE  (OnBooks /\ BooksBalance)'
<1> PICK k : k = [flow |-> f, id |-> m_flowPktIdMap[f]]
  OBVIOUS
<1> PICK new : new = [flow |-> f, id |-> k.id, hops |-> Hops, since |-> now]
  OBVIOUS
<1>1. now \in Nat /\ m_flowPktIdMap[f] \in 0 .. MaxPackets - 1
  BY MonitorAssumption
  DEF SendOutgoing, MonitorInv, TypeOK, ClockTyped, NetworkTyped
<1>2. k \in Keys /\ k \notin DOMAIN m_trackedPackets
  BY <1>1 DEF Keys, MonitorInv, TypeOK, Numbered
<1>3. /\ ReportFirstTx(k) /\ now' = now
      /\ network' = network \cup {new}
  BY DEF SendOutgoing, IfEnabled
<1>4. Key(new) = k
  BY DEF Key
<1>5. BooksBalance'
  BY <1>2, <1>3, BooksFirstTx
<1>6. Known(new)'
  BY <1>1, <1>3, <1>4, MonitorAssumption DEF Known, Key, ReportFirstTx
<1>7. ASSUME NEW p \in network PROVE Known(p)' /\ Key(p) # k
  <2>1. Key(p) # k
    BY <1>1, InNetwork DEF Key
  <2> QED
    BY <1>3, <2>1 DEF OnBooks, Known, Key, ReportFirstTx
<1> QED
  <2>1. \A p \in network' : Known(p)'
    BY <1>3, <1>6, <1>7 DEF Known
  <2>2. \A p, q \in network' : Key(p) = Key(q) => p = q
    BY <1>3, <1>4, <1>7 DEF OnBooks
  <2> QED
    BY <1>5, <2>1, <2>2 DEF OnBooks, Known, Key

LEMMA BooksMove ==
  ASSUME MonitorInv, OnBooks, BooksBalance, m_enabled,
         NEW p \in network, PacketMoves(p)
  PROVE  (OnBooks /\ BooksBalance)'
<1> PICK k : k = Key(p)
  OBVIOUS
<1>1. /\ k \in Keys /\ k \in DOMAIN m_trackedPackets /\ now \in Nat
      /\ m_trackedPackets[k] \in [firstSeenTime : Nat, lastSeenTime : Nat]
  BY InNetwork DEF OnBooks, Known, MonitorInv, TypeOK, ClockTyped, StatsTyped
<1>2. \A q \in network \ {p} : Known(q) /\ Key(q) # k
  BY DEF OnBooks
<1>3. CASE UnicastForward(p)
  <2> PICK moved : moved = [p EXCEPT !.hops = @ - 1, !.since = now]
    OBVIOUS
  <2>1. /\ ReportForwarding(k) /\ now' = now
        /\ network' = (network \ {p}) \cup {moved}
    BY <1>1, <1>3 DEF UnicastForward, IfTracked, IfEnabled
  <2>2. moved.since = now /\ Key(moved) = k
    <3>1. p \in Transit
      BY DEF MonitorInv, TypeOK, NetworkTyped
    <3> QED
      BY <3>1 DEF Transit, Key
  <2>3. BooksBalance'
    BY <2>1, BooksForward
  <2>4. Known(moved)'
    <3>1. /\ DOMAIN m_trackedPackets' = DOMAIN m_trackedPackets
          /\ m_trackedPackets'[k].lastSeenTime = now
      BY <1>1, <2>1 DEF ReportForwarding
    <3>2. now - now < MaxPerHopDelay
      BY <1>1, MonitorAssumption
    <3> QED
      BY <1>1, <2>1, <2>2, <3>1, <3>2 DEF Known
  <2>5. \A q \in network \ {p} : Known(q)'
    BY <1>1, <1>2, <2>1 DEF Known, Key, ReportForwarding
  <2> QED
    <3>1. \A p1 \in network' : Known(p1)'
      BY <2>1, <2>4, <2>5 DEF Known
    <3>2. \A p1, q1 \in network' : Key(p1) = Key(q1) => p1 = q1
      BY <1>2, <2>1, <2>2 DEF OnBooks
    <3> QED
      BY <2>3, <3>1, <3>2 DEF OnBooks, Known, Key
<1>4. CASE LocalDeliver(p) \/ Drop(p)
  <2>1. /\ ReportLastRx(k) \/ ReportDrop(k)
        /\ network' = network \ {p} /\ now' = now
    BY <1>1, <1>4 DEF LocalDeliver, Drop, IfTracked, IfEnabled
  <2>2. BooksBalance'
    BY <1>1, <2>1, BooksEnd
  <2>3. m_trackedPackets' = Untracked({k})
    BY <2>1 DEF ReportLastRx, ReportDrop
  <2>4. \A q \in network \ {p} : Known(q)'
    <3>1. /\ DOMAIN m_trackedPackets' = DOMAIN m_trackedPackets \ {k}
          /\ \A j \in DOMAIN m_trackedPackets \ {k} :
               m_trackedPackets'[j] = m_trackedPackets[j]
      BY <2>3, UntrackedDomain
    <3> QED
      BY <1>2, <2>1, <3>1 DEF Known
  <2> QED
    BY <2>1, <2>2, <2>4 DEF OnBooks, Key
<1>5. CASE LoseUnseen(p)
  <2>1. network' = network \ {p} /\ UNCHANGED <<now, statVars>>
    BY <1>5 DEF LoseUnseen
  <2> QED
    BY <2>1 DEF OnBooks, Known, Key, BooksBalance, statVars
<1> QED
  BY <1>3, <1>4, <1>5 DEF PacketMoves

\* A check gives up nothing that is still on its way.
LEMMA BooksChecked ==
  ASSUME MonitorInv, OnBooks, BooksBalance, CheckForLostPackets,
         now' = now, network' = network
  PROVE  (OnBooks /\ BooksBalance)'
<1>1. /\ DOMAIN m_trackedPackets' = DOMAIN m_trackedPackets \ Overdue
      /\ \A k \in DOMAIN m_trackedPackets' :
           m_trackedPackets'[k] = m_trackedPackets[k]
  BY CheckTracks DEF MonitorInv
<1>2. ASSUME NEW p \in network PROVE Known(p)'
  <2>1. Known(p) /\ p.since \in Nat /\ now \in Nat
    BY InNetwork DEF OnBooks, MonitorInv, TypeOK, ClockTyped
  <2>2. Key(p) \notin Overdue
    BY <2>1, MonitorAssumption DEF Known, Overdue
  <2> QED
    BY <1>1, <2>1, <2>2 DEF Known, Key
<1> QED
  BY <1>2, BooksCheck DEF OnBooks, Key

LEMMA BooksStep ==
  ASSUME PromptNetwork, MonitorInv, Listening, OnBooks, BooksBalance,
         [EstadioNext]_vars
  PROVE  (OnBooks /\ BooksBalance)'
<1>1. ASSUME NEW u \in Flows, Envia(u) PROVE (OnBooks /\ BooksBalance)'
  <2>1. m_enabled
    BY <1>1 DEF Envia, Listening
  <2> QED
    BY <1>1, <2>1, BooksSend DEF Envia
<1>2. CASE Rede
  <2>1. m_enabled
    BY <1>2 DEF Rede, Listening
  <2> QED
    BY <1>2, <2>1, BooksMove DEF Rede
<1>3. CASE Verifica \/ AmostraMetricas \/ ColetaMetricas \/ SerializeToXmlFile
  <2>1. CheckForLostPackets /\ now' = now /\ network' = network
    BY <1>3 DEF Verifica, PeriodicCheckForLostPackets, AmostraMetricas,
                ColetaMetricas, SerializeToXmlFile, CheckNow, netVars
  <2> QED
    BY <2>1, BooksChecked
<1>4. CASE Avanca
  <2>1. /\ now' = now + Step /\ UNCHANGED <<statVars, network>>
        /\ \A p \in network : now + Step - p.since < MaxPerHopDelay
    BY <1>4 DEF Avanca, Passes, netVars
  <2>2. m_trackedPackets' = m_trackedPackets /\ m_flowStats' = m_flowStats
    BY <2>1 DEF statVars
  <2>3. ASSUME NEW p \in network PROVE Known(p)'
    <3>1. /\ Key(p) \in DOMAIN m_trackedPackets
          /\ m_trackedPackets[Key(p)].lastSeenTime = p.since
      BY DEF OnBooks, Known
    <3>2. now' - p.since < MaxPerHopDelay
      BY <2>1, InNetwork, MonitorAssumption
      DEF MonitorInv, TypeOK, ClockTyped
    <3> QED
      BY <2>2, <3>1, <3>2 DEF Known, Key
  <2>4. BooksBalance'
    BY <2>2 DEF BooksBalance
  <2> QED
    BY <2>1, <2>3, <2>4 DEF OnBooks, Known, Key
<1>5. CASE \/ \E u \in Flows : IniciaAplicacao(u) \/ ParaAplicacao(u)
           \/ ComecaMonitor \/ Para \/ UNCHANGED vars
  <2>1. UNCHANGED <<now, statVars, network>>
    BY <1>5 DEF IniciaAplicacao, ParaAplicacao, ComecaMonitor, StartRightNow,
                Para, vars, monitorVars, netVars
  <2> QED
    BY <2>1 DEF OnBooks, Known, Key, BooksBalance, statVars
<1> QED
  BY <1>1, <1>2, <1>3, <1>4, <1>5 DEF EstadioNext

LEMMA BooksInit ==
  ASSUME EstadioInit
  PROVE  Listening /\ OnBooks /\ BooksBalance
<1>1. /\ network = {} /\ now = 0 /\ m_startEvent = 0 /\ ligados = {}
      /\ simTime \in SimTimes /\ DOMAIN m_trackedPackets = {}
      /\ m_flowStats = [f \in Flows |-> NoStats]
  BY DEF EstadioInit, MonitorInit
<1>2. ASSUME NEW f \in Flows PROVE Balance(f)
  <2>1. TrackedOf(f) = {}
    BY <1>1 DEF TrackedOf
  <2>2. Cardinality(TrackedOf(f)) = 0
    BY <2>1, FS_EmptySet
  <2> QED
    BY <1>1, <2>2 DEF Balance, NoStats
<1> QED
  BY <1>1, <1>2, BooksBalanceIs DEF Listening, OnBooks

\* In a network that holds no packet for MaxPerHopDelay, whatever else it does
\* to packets, the books balance throughout the run and in the reports: every
\* packet a generator sent was received, counted as lost once, or is tracked.
THEOREM BooksBalanceCorrect ==
  ASSUME PromptNetwork
  PROVE  EstadioSpec => []BooksBalance
<1> DEFINE Books == Listening /\ OnBooks /\ BooksBalance
<1>1. EstadioInit => MonitorInv /\ Books
  BY EstadioMonitorInit, BooksInit
<1>2. MonitorInv /\ Books /\ [EstadioNext]_vars => (MonitorInv /\ Books)'
  BY EstadioMonitorStep, ListeningStep, BooksStep
<1> QED
  BY <1>1, <1>2, PTL DEF EstadioSpec

=============================================================================
