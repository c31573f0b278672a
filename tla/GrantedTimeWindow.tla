-------------------------- MODULE GrantedTimeWindow --------------------------
(***************************************************************************)
(* Distributed simulation with granted time windows:                       *)
(* DistributedSimulatorImpl and GrantedTimeWindowMpiInterface of           *)
(* src/mpi/model.                                                          *)
(*                                                                         *)
(* A rank runs the events of the window it was granted.  Then all ranks    *)
(* tell each other, in one MPI_Allgather, when their next events are and   *)
(* how many messages they have sent and received.  If none is on its way,  *)
(* the next window of a rank ends where a packet sent at the earliest of   *)
(* those times could reach it.  MPI delivers messages in its own time, and *)
(* MPI_Testany takes those that have come in any order.                    *)
(*                                                                         *)
(* Abstracted: contents of packets, completion of sends, Cancel, Remove    *)
(* and destroy events, which are as in DefaultSimulatorImpl.  A handler    *)
(* may send over its idle links and schedule events, as often as the       *)
(* bounds allow.                                                           *)
(***************************************************************************)
EXTENDS Distributed, FiniteSetsExt

CONSTANTS MaximumTime,    \* GetMaximumSimulationTime
          LookAheadBound, \* BoundLookAhead's, MaximumTime if it is not called
          Stops,          \* when a rank may be stopped; MaximumTime is never
          Starts,         \* when the first event of a rank may be
          Delays,         \* for how long handlers schedule events
          MaxCalls,       \* bound of the model: what handlers send and schedule
          MaxRuns         \* bound of the model: calls of Run

ASSUME GrantedTimeWindowAssumption ==
  /\ MaximumTime \in Nat /\ LookAheadBound \in 1 .. MaximumTime
  /\ \A l \in Links : Delay[l] < MaximumTime
  /\ Stops \subseteq 0 .. MaximumTime /\ Starts \subseteq 0 .. MaximumTime
  /\ Delays \subseteq Nat
  /\ MaxCalls \in Nat /\ MaxRuns \in Nat

VARIABLES
  m_currentTs,   \* the time of each rank
  m_uid,         \* the uid of the next event of each rank
  m_events,      \* the event list of each rank
  m_stop,        \* Stop was called
  m_grantedTime, \* the end of the window of each rank
  m_pLBTS,       \* what the last MPI_Allgather gave to all ranks
  g_rxCount,     \* messages received by each rank
  g_txCount,     \* messages sent by each rank
  pc,            \* "loop" of Run, "handler", "receive", "gather", "window", "done"
  inTransit,     \* MPI messages that have not been received
  stopTime,      \* history: when the program stops each rank
  nCalls, nRuns  \* what the bounds count

listVars == <<m_currentTs, m_uid, m_events, m_stop>>
countVars == <<g_rxCount, g_txCount, inTransit>>
boundVars == <<stopTime, nCalls, nRuns>>
vars == <<listVars, m_grantedTime, m_pLBTS, countVars, pc, boundVars>>

-----------------------------------------------------------------------------
(* CalculateLookAhead, at the beginning of Run.                            *)

\* The least delay of the links of a rank, unless BoundLookAhead is less.
OwnLookAhead(r) ==
  Min({Delay[l] : l \in {k \in Links : From[k] = r}} \cup {LookAheadBound})

\* A rank without links takes the greatest of the others, if there is one.
LookAhead(r) ==
  LET others == {OwnLookAhead(s) : s \in Ranks} \ {MaximumTime}
  IN IF OwnLookAhead(r) = MaximumTime /\ others # {} THEN Max(others)
     ELSE OwnLookAhead(r)

\* The program schedules an event of each rank, and its Stop.
Init ==
  /\ m_currentTs = [r \in Ranks |-> 0]
  /\ m_uid = [r \in Ranks |-> VALID + 2]
  /\ stopTime \in [Ranks -> Stops]
  /\ \E start \in [Ranks -> Starts] :
       m_events = [r \in Ranks |->
         {Event(start[r], VALID + 1, "app", r)} \cup
           IF stopTime[r] = MaximumTime THEN {}
           ELSE {Event(stopTime[r], VALID, "stop", r)}]
  /\ m_stop = [r \in Ranks |-> FALSE]
  /\ m_grantedTime = [r \in Ranks |-> LookAhead(r)]
  /\ m_pLBTS = <<>>
  /\ g_rxCount = [r \in Ranks |-> 0] /\ g_txCount = [r \in Ranks |-> 0]
  /\ pc = [r \in Ranks |-> "loop"]
  /\ inTransit = {}
  /\ nCalls = 0 /\ nRuns = 1

\* Run, called once more: MPI_Allreduce waits for all ranks.
RunAgain ==
  /\ \A r \in Ranks : pc[r] = "done"
  /\ nRuns < MaxRuns
  /\ m_grantedTime' = [r \in Ranks |-> LookAhead(r)]
  /\ m_stop' = [r \in Ranks |-> FALSE]
  /\ pc' = [r \in Ranks |-> "loop"]
  /\ nRuns' = nRuns + 1
  /\ UNCHANGED <<m_currentTs, m_uid, m_events, m_pLBTS, countVars, stopTime,
                 nCalls>>

-----------------------------------------------------------------------------
(* The window.                                                             *)

IsLocalFinished(r) == m_events[r] = {} \/ m_stop[r]
NextTs(r) ==
  IF IsLocalFinished(r) THEN MaximumTime ELSE NextTime(m_events[r])

\* Run finds an event that is safe to process.
MayRun(r) ==
  pc[r] = "loop" /\ ~IsLocalFinished(r) /\ NextTs(r) <= m_grantedTime[r]

\* ProcessOneEvent: a handler is called ...
RunHandler(r) ==
  /\ MayRun(r)
  /\ LET e == First(m_events[r])
     IN /\ e.what # "stop"
        /\ m_events' = [m_events EXCEPT ![r] = @ \ {e}]
        /\ m_currentTs' = [m_currentTs EXCEPT ![r] = e.ts]
  /\ pc' = [pc EXCEPT ![r] = "handler"]
  /\ UNCHANGED <<m_uid, m_stop, m_grantedTime, m_pLBTS, countVars, boundVars>>

\* ... or Stop.
RunStop(r) ==
  /\ MayRun(r)
  /\ LET e == First(m_events[r])
     IN /\ e.what = "stop"
        /\ m_events' = [m_events EXCEPT ![r] = @ \ {e}]
        /\ m_currentTs' = [m_currentTs EXCEPT ![r] = e.ts]
  /\ m_stop' = [m_stop EXCEPT ![r] = TRUE]
  /\ UNCHANGED <<m_uid, m_grantedTime, m_pLBTS, countVars, pc, boundVars>>

Schedule(r, delay) ==
  /\ pc[r] = "handler" /\ nCalls < MaxCalls
  /\ m_events' = [m_events EXCEPT ![r] = @ \cup
                    {Event(m_currentTs[r] + delay, m_uid[r], "app", r)}]
  /\ m_uid' = [m_uid EXCEPT ![r] = @ + 1]
  /\ nCalls' = nCalls + 1
  /\ UNCHANGED <<m_currentTs, m_stop, m_grantedTime, m_pLBTS, countVars, pc,
                 stopTime, nRuns>>

\* Handlers send over idle links; a device is busy until TransmitComplete.
Idle(l) == \A e \in m_events[From[l]] : ~(e.what = "complete" /\ e.arg = l)

\* SendPacket, for a packet that a handler gives to an idle device.
SendPacket(r, l) ==
  LET now == m_currentTs[r]
      complete == Event(now + TxTime[l], m_uid[r], "complete", l)
  IN /\ pc[r] = "handler" /\ From[l] = r /\ Idle(l) /\ nCalls < MaxCalls
     /\ m_events' = [m_events EXCEPT ![r] = @ \cup {complete}]
     /\ m_uid' = [m_uid EXCEPT ![r] = @ + 1]
     /\ inTransit' = inTransit \cup
          {[rx |-> Arrival(l, now), to |-> To[l], number |-> nCalls]}
     /\ g_txCount' = [g_txCount EXCEPT ![r] = @ + 1]
     /\ nCalls' = nCalls + 1
     /\ UNCHANGED <<m_currentTs, m_stop, m_grantedTime, m_pLBTS, g_rxCount, pc,
                    stopTime, nRuns>>

HandlerReturns(r) ==
  /\ pc[r] = "handler"
  /\ pc' = [pc EXCEPT ![r] = "loop"]
  /\ UNCHANGED <<listVars, m_grantedTime, m_pLBTS, countVars, boundVars>>

-----------------------------------------------------------------------------
(* The synchronization.                                                    *)

WindowEnds(r) ==
  /\ pc[r] = "loop" /\ ~MayRun(r)
  /\ pc' = [pc EXCEPT ![r] = "receive"]
  /\ UNCHANGED <<listVars, m_grantedTime, m_pLBTS, countVars, boundVars>>

\* ReceiveMessages takes what has come ...
ReceiveMessage(r) ==
  /\ pc[r] = "receive"
  /\ \E m \in inTransit :
       /\ m.to = r
       /\ inTransit' = inTransit \ {m}
       /\ m_events' = [m_events EXCEPT ![r] = @ \cup
                         {Event(m.rx, m_uid[r], "app", r)}]
  /\ m_uid' = [m_uid EXCEPT ![r] = @ + 1]
  /\ g_rxCount' = [g_rxCount EXCEPT ![r] = @ + 1]
  /\ UNCHANGED <<m_currentTs, m_stop, m_grantedTime, m_pLBTS, g_txCount, pc,
                 boundVars>>

\* ... until there is nothing more, as far as this rank can tell.
EnterAllgather(r) ==
  /\ pc[r] = "receive"
  /\ pc' = [pc EXCEPT ![r] = "gather"]
  /\ UNCHANGED <<listVars, m_grantedTime, m_pLBTS, countVars, boundVars>>

LbtsMessage(r) ==
  [rxCount |-> g_rxCount[r], txCount |-> g_txCount[r],
   isFinished |-> IsLocalFinished(r), smallestTime |-> NextTs(r)]

\* MPI_Allgather ends once every rank is in it, and gives the same to all.
Allgather ==
  /\ \A r \in Ranks : pc[r] = "gather"
  /\ m_pLBTS' = [r \in Ranks |-> LbtsMessage(r)]
  /\ pc' = [r \in Ranks |-> "window"]
  /\ UNCHANGED <<listVars, m_grantedTime, countVars, boundVars>>

\* The sum of the counts of all ranks, as the number of messages they count.
Counted(count) == UNION {{r} \X (1 .. count[r]) : r \in Ranks}
Total(count) == Cardinality(Counted(count))

TotRx == Total([r \in Ranks |-> m_pLBTS[r].rxCount])
TotTx == Total([r \in Ranks |-> m_pLBTS[r].txCount])
SmallestTime == Min({m_pLBTS[r].smallestTime : r \in Ranks})

\* Mutant: the window is moved on although messages are on their way.
WindowRegardless(r) ==
  IF LookAhead(r) = MaximumTime THEN MaximumTime ELSE SmallestTime + LookAhead(r)

\* The end of the next window.  If all ranks are finished the sum may overflow
\* in the code; Run returns then and nobody reads it.
Window(r) ==
  IF TotRx # TotTx THEN m_grantedTime[r]
  ELSE IF LookAhead(r) = MaximumTime THEN MaximumTime
  ELSE SmallestTime + LookAhead(r)

\* Mutant: a rank goes by itself.
FinishedHere(r) == m_pLBTS[r].isFinished /\ TotRx = TotTx

\* Whether rank r, like any other, finds that the simulation has ended.
GlobalFinished(r) == TotRx = TotTx /\ \A s \in Ranks : m_pLBTS[s].isFinished

NewWindow(r) ==
  /\ pc[r] = "window"
  /\ m_grantedTime' = [m_grantedTime EXCEPT ![r] = Window(r)]
  /\ pc' = [pc EXCEPT ![r] = IF GlobalFinished(r) THEN "done" ELSE "loop"]
  /\ UNCHANGED <<listVars, m_pLBTS, countVars, boundVars>>

-----------------------------------------------------------------------------
RunStep(r) == \/ RunHandler(r) \/ RunStop(r) \/ HandlerReturns(r)
              \/ WindowEnds(r) \/ EnterAllgather(r) \/ NewWindow(r)

HandlerStep(r) == \/ \E l \in Links : SendPacket(r, l)
                  \/ \E delay \in Delays : Schedule(r, delay)

Next == \/ \E r \in Ranks : RunStep(r) \/ HandlerStep(r) \/ ReceiveMessage(r)
        \/ Allgather \/ RunAgain

Spec == Init /\ [][Next]_vars

\* As long as a rank can go on, one does (a round ends only with all of them),
\* handlers return, and messages are received if ranks ask for them again and
\* again.
Fairness == /\ WF_vars(Allgather \/ \E r \in Ranks : RunStep(r))
            /\ SF_vars(\E r \in Ranks : ReceiveMessage(r))

FairSpec == Spec /\ Fairness

-----------------------------------------------------------------------------
\* No packet comes too late: whatever is listed, and whatever is still on its
\* way, is due at a time to which the rank that is to run it has not come yet.
NothingLate ==
  /\ \A r \in Ranks : \A e \in m_events[r] : e.ts >= m_currentTs[r]
  /\ \A m \in inTransit : m.rx >= m_currentTs[m.to]

\* The assertion of ProcessOneEvent (distributed-simulator-impl.cc:303) holds in
\* the first Run, and in another one if all ranks were stopped at the same time.
NeverInPast ==
  (nRuns = 1 \/ \A r, s \in Ranks : stopTime[r] = stopTime[s]
                                    /\ stopTime[r] # MaximumTime)
    => NothingLate

\* The ranks leave Run together: when one has, no other will enter another
\* MPI_Allgather, and no packet is left on its way to a rank that has gone.
LeaveTogether ==
  (\E r \in Ranks : pc[r] = "done")
    => (\A r \in Ranks : pc[r] \in {"window", "done"}) /\ inTransit = {}

\* All ranks leave Run: none waits for ever in an MPI_Allgather for one that
\* has left, and no packet is left on its way.
EveryRankFinishes ==
  \A r \in Ranks : pc[r] # "done" ~> pc[r] = "done" /\ inTransit = {}

=============================================================================
