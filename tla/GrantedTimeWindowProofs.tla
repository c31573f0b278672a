----------------------- MODULE GrantedTimeWindowProofs -----------------------
(***************************************************************************)
(* What holds of GrantedTimeWindow for any ranks, links, delays, programs  *)
(* and stop times, and however MPI delays and reorders messages.           *)
(***************************************************************************)
EXTENDS GrantedTimeWindow, FiniteSetTheorems, WellFoundedInduction, TLAPS

LEMMA ConstantsTyped ==
  /\ IsFiniteSet(Ranks)
  /\ From \in [Links -> Ranks] /\ To \in [Links -> Ranks]
  /\ Delay \in [Links -> Nat] /\ TxTime \in [Links -> Nat]
  /\ MaximumTime \in Nat /\ LookAheadBound \in 1 .. MaximumTime
  /\ \A l \in Links : Delay[l] < MaximumTime
  /\ Stops \subseteq Nat /\ Starts \subseteq Nat /\ Delays \subseteq Nat
BY GrantedTimeWindowAssumption, DistributedAssumption

-----------------------------------------------------------------------------
(* Least and greatest times.                                               *)

LEMMA NatMin ==
  ASSUME NEW T \in SUBSET Nat, T # {}
  PROVE  \E x \in T : \A y \in T : x <= y
<1>1. PICK R : R = {ss \in Nat \X Nat : ss[1] < ss[2]}
  OBVIOUS
<1>2. IsWellFoundedOn(R, Nat)
  BY <1>1, NatLessThanWellFounded DEF OpToRel
<1>3. PICK x \in T : \A y \in T : <<y, x>> \notin R
  BY <1>2, WFMin
<1>4. ASSUME NEW y \in T PROVE x <= y
  <2>1. <<y, x>> \in Nat \X Nat /\ <<y, x>> \notin R
    BY <1>3
  <2> QED
    BY <1>1, <2>1
<1> QED
  BY <1>4

LEMMA MinIs ==
  ASSUME NEW T \in SUBSET Nat, T # {}
  PROVE  Min(T) \in T /\ Min(T) \in Nat /\ \A u \in T : Min(T) <= u
BY NatMin DEF Min

LEMMA MaxIs ==
  ASSUME NEW n \in Nat, NEW T \in SUBSET (0 .. n), T # {}
  PROVE  Max(T) \in T
<1>1. PICK U : U = {n - t : t \in T}
  OBVIOUS
<1>2. U \in SUBSET Nat /\ U # {}
  <2>1. \A t \in T : t \in Nat /\ n - t \in Nat
    OBVIOUS
  <2> QED
    BY <1>1, <2>1
<1>3. PICK u \in U : \A v \in U : u <= v
  BY <1>2, NatMin
<1>4. PICK x \in T : u = n - x
  BY <1>1, <1>3
<1>5. ASSUME NEW y \in T PROVE x >= y
  <2>1. n - x <= n - y
    BY <1>1, <1>3, <1>4
  <2>2. x \in Nat /\ y \in Nat
    OBVIOUS
  <2> QED
    BY <2>1, <2>2
<1> QED
  BY <1>5 DEF Max

-----------------------------------------------------------------------------
(* Look-aheads: that of a rank to which a link leads is bounded by the     *)
(* delay of the link, which is also that of a link leading back.           *)

LEMMA OwnLookAheadIs ==
  ASSUME NEW r \in Ranks
  PROVE  /\ OwnLookAhead(r) \in Nat /\ OwnLookAhead(r) <= MaximumTime
         /\ \A l \in Links : From[l] = r => OwnLookAhead(r) <= Delay[l]
<1>1. PICK T : T = {Delay[l] : l \in {k \in Links : From[k] = r}}
                     \cup {LookAheadBound}
  OBVIOUS
<1>2. T \in SUBSET Nat /\ LookAheadBound \in T /\ OwnLookAhead(r) = Min(T)
  BY <1>1, ConstantsTyped DEF OwnLookAhead
<1>3. OwnLookAhead(r) \in Nat /\ \A u \in T : OwnLookAhead(r) <= u
  BY <1>2, MinIs
<1>4. OwnLookAhead(r) <= MaximumTime
  BY <1>2, <1>3, ConstantsTyped
<1> QED
  BY <1>1, <1>3, <1>4

LEMMA LookAheadTyped ==
  ASSUME NEW r \in Ranks
  PROVE  LookAhead(r) \in Nat
<1>1. PICK others : others = {OwnLookAhead(s) : s \in Ranks} \ {MaximumTime}
  OBVIOUS
<1>2. others \in SUBSET (0 .. MaximumTime)
  BY <1>1, OwnLookAheadIs, ConstantsTyped
<1>3. LookAhead(r) = IF OwnLookAhead(r) = MaximumTime /\ others # {}
                     THEN Max(others) ELSE OwnLookAhead(r)
  BY <1>1 DEF LookAhead
<1>4. others # {} => Max(others) \in Nat
  <2> HAVE others # {}
  <2> PICK x : x = Max(others)
    OBVIOUS
  <2>1. MaximumTime \in Nat
    BY ConstantsTyped
  <2>2. x \in others
    BY <1>2, <2>1, MaxIs
  <2>3. x \in Nat
    BY <1>2, <2>2
  <2> QED
    BY <2>3
<1> QED
  BY <1>3, <1>4, OwnLookAheadIs

LEMMA LookAheadIs ==
  ASSUME NEW l \in Links
  PROVE  LookAhead(To[l]) <= Delay[l] /\ LookAhead(To[l]) # MaximumTime
<1>1. PICK k \in Links : From[k] = To[l] /\ Delay[k] = Delay[l]
  BY DistributedAssumption
<1>2. /\ To[l] \in Ranks /\ Delay[l] \in Nat /\ Delay[l] < MaximumTime
      /\ MaximumTime \in Nat
  BY ConstantsTyped
<1>3. /\ OwnLookAhead(To[l]) <= Delay[l] /\ OwnLookAhead(To[l]) \in Nat
  BY <1>1, <1>2, OwnLookAheadIs
<1>4. OwnLookAhead(To[l]) # MaximumTime
  BY <1>2, <1>3
<1>5. LookAhead(To[l]) = OwnLookAhead(To[l])
  BY <1>4 DEF LookAhead
<1> QED
  BY <1>3, <1>4, <1>5

-----------------------------------------------------------------------------
(* Types.                                                                  *)

\* The ranks to which messages come.
Remote == {To[l] : l \in Links}

Events == [ts : Nat, uid : Nat, what : {"app", "complete", "stop"},
           arg : Ranks \cup Links]
Messages == [rx : Nat, to : Remote, number : Nat]
LbtsMessages == [rxCount : Nat, txCount : Nat, isFinished : BOOLEAN,
                 smallestTime : Nat]

Typed ==
  /\ m_currentTs \in [Ranks -> Nat] /\ m_uid \in [Ranks -> Nat]
  /\ m_events \in [Ranks -> SUBSET Events]
  /\ m_stop \in [Ranks -> BOOLEAN]
  /\ m_grantedTime \in [Ranks -> Nat]
  /\ g_rxCount \in [Ranks -> Nat] /\ g_txCount \in [Ranks -> Nat]
  /\ pc \in [Ranks -> {"loop", "handler", "receive", "gather", "window",
                       "done"}]
  /\ inTransit \subseteq Messages
  /\ stopTime \in [Ranks -> Stops] /\ nCalls \in Nat /\ nRuns \in Nat \ {0}
  /\ (\E r \in Ranks : pc[r] = "window")
       => m_pLBTS \in [Ranks -> LbtsMessages]

LEMMA RemoteRanks ==
  ASSUME NEW q \in Remote
  PROVE  /\ q \in Ranks /\ LookAhead(q) \in Nat
         /\ LookAhead(q) # MaximumTime
<1>1. PICK l \in Links : q = To[l]
  BY DEF Remote
<1> QED
  BY <1>1, LookAheadIs, LookAheadTyped, ConstantsTyped

LEMMA EventTyped ==
  ASSUME NEW ts \in Nat, NEW uid \in Nat,
         NEW what \in {"app", "complete", "stop"}, NEW arg \in Ranks \cup Links
  PROVE  /\ Event(ts, uid, what, arg) \in Events
         /\ Event(ts, uid, what, arg).ts = ts
         /\ Event(ts, uid, what, arg).what = what
BY DEF Event, Events

\* An event list has a first event.
LEMMA FirstIs ==
  ASSUME NEW E \in SUBSET Events, E # {}
  PROVE  /\ First(E) \in E /\ NextTime(E) \in Nat
         /\ \A f \in E : NextTime(E) <= f.ts
<1>0. \A e \in E : e.ts \in Nat /\ e.uid \in Nat
  BY DEF Events
<1>1. PICK t \in {e.ts : e \in E} : \A u \in {e.ts : e \in E} : t <= u
  <2>1. {e.ts : e \in E} \in SUBSET Nat /\ {e.ts : e \in E} # {}
    BY <1>0
  <2> QED
    BY <2>1, NatMin
<1>2. PICK F : F = {e \in E : e.ts = t}
  OBVIOUS
<1>3. PICK n \in {e.uid : e \in F} : \A m \in {e.uid : e \in F} : n <= m
  <2>1. {e.uid : e \in F} \in SUBSET Nat /\ {e.uid : e \in F} # {}
    BY <1>0, <1>1, <1>2
  <2> QED
    BY <2>1, NatMin
<1>4. PICK e \in F : e.uid = n
  BY <1>3
<1>5. ASSUME NEW f \in E PROVE ~KeyLess(f, e)
  <2>1. /\ f.ts \in Nat /\ f.uid \in Nat /\ e.ts = t /\ t \in Nat
        /\ e.uid \in Nat /\ t <= f.ts
    BY <1>0, <1>1, <1>2
  <2>2. f.ts = t => n <= f.uid
    BY <1>2, <1>3
  <2> QED
    BY <1>4, <2>1, <2>2 DEF KeyLess
<1>6. First(E) \in E /\ \A f \in E : ~KeyLess(f, First(E))
  BY <1>2, <1>5 DEF First
<1>7. ASSUME NEW f \in E PROVE First(E).ts <= f.ts
  <2>1. First(E).ts \in Nat /\ f.ts \in Nat
    BY <1>0, <1>6
  <2>2. ~(f.ts < First(E).ts)
    BY <1>6 DEF KeyLess
  <2> QED
    BY <2>1, <2>2
<1> QED
  BY <1>0, <1>6, <1>7 DEF NextTime

\* The event that Run takes: the first one, within the window.
LEMMA TakenIs ==
  ASSUME Typed, NEW r \in Ranks, MayRun(r), NEW e, e = First(m_events[r])
  PROVE  /\ e \in m_events[r] /\ e \in Events /\ e.ts \in Nat
         /\ \A f \in m_events[r] : e.ts <= f.ts
         /\ e.ts <= m_grantedTime[r]
         /\ pc[r] = "loop" /\ ~m_stop[r]
<1>1. /\ m_events[r] \in SUBSET Events /\ m_events[r] # {}
      /\ pc[r] = "loop" /\ ~m_stop[r] /\ NextTs(r) <= m_grantedTime[r]
  BY DEF MayRun, IsLocalFinished, Typed
<1>2. /\ e \in m_events[r] /\ NextTime(m_events[r]) = e.ts
      /\ \A f \in m_events[r] : NextTime(m_events[r]) <= f.ts
      /\ NextTime(m_events[r]) \in Nat
  BY <1>1, FirstIs DEF NextTime
<1>3. NextTs(r) = e.ts
  BY <1>1, <1>2 DEF NextTs, IsLocalFinished
<1> QED
  BY <1>1, <1>2, <1>3

\* What a rank tells of its next event bounds every event it may run.
LEMMA NextTsIs ==
  ASSUME Typed, NEW r \in Ranks
  PROVE  /\ NextTs(r) \in Nat
         /\ ~m_stop[r] => \A e \in m_events[r] : NextTs(r) <= e.ts
<1>1. m_events[r] \in SUBSET Events
  BY DEF Typed
<1>2. CASE IsLocalFinished(r)
  BY <1>2, ConstantsTyped DEF NextTs, IsLocalFinished
<1>3. CASE ~IsLocalFinished(r)
  <2>1. m_events[r] # {} /\ NextTs(r) = NextTime(m_events[r])
    BY <1>3 DEF IsLocalFinished, NextTs
  <2> QED
    BY <1>1, <2>1, FirstIs
<1> QED
  BY <1>2, <1>3

LEMMA LbtsTyped ==
  ASSUME Typed, NEW r \in Ranks
  PROVE  LbtsMessage(r) \in LbtsMessages
<1>1. IsLocalFinished(r) \in BOOLEAN
  BY DEF IsLocalFinished, Typed
<1>2. NextTs(r) \in Nat /\ g_rxCount[r] \in Nat /\ g_txCount[r] \in Nat
  BY NextTsIs DEF Typed
<1> QED
  BY <1>1, <1>2 DEF LbtsMessage, LbtsMessages

LEMMA SmallestTimeIs ==
  ASSUME m_pLBTS \in [Ranks -> LbtsMessages], NEW r \in Ranks
  PROVE  SmallestTime \in Nat /\ SmallestTime <= m_pLBTS[r].smallestTime
<1>1. PICK T : T = {m_pLBTS[s].smallestTime : s \in Ranks}
  OBVIOUS
<1>2. T \in SUBSET Nat /\ m_pLBTS[r].smallestTime \in T
  BY <1>1 DEF LbtsMessages
<1>3. SmallestTime = Min(T)
  BY <1>1 DEF SmallestTime
<1> QED
  BY <1>2, <1>3, MinIs

\* Where the window of a rank ends that messages can reach.
LEMMA WindowIs ==
  ASSUME NEW q \in Remote
  PROVE  Window(q) = IF TotRx # TotTx THEN m_grantedTime[q]
                     ELSE SmallestTime + LookAhead(q)
BY RemoteRanks DEF Window

\* Only the Allgather opens a round of windows, with what it gathered.
LEMMA WindowsOpen ==
  ASSUME Typed, Next, ~Allgather
  PROVE  /\ m_pLBTS' = m_pLBTS
         /\ \A r \in Ranks : pc'[r] = "window" => pc[r] = "window"
<1>1. ASSUME NEW r \in Ranks, NEW x, x # "window", m_pLBTS' = m_pLBTS,
             pc' = pc \/ pc' = [pc EXCEPT ![r] = x]
      PROVE  /\ m_pLBTS' = m_pLBTS
             /\ \A q \in Ranks : pc'[q] = "window" => pc[q] = "window"
  BY <1>1 DEF Typed
<1>2. ASSUME NEW r \in Ranks,
             RunStep(r) \/ HandlerStep(r) \/ ReceiveMessage(r)
      PROVE  \E x : /\ x # "window" /\ m_pLBTS' = m_pLBTS
                    /\ pc' = pc \/ pc' = [pc EXCEPT ![r] = x]
  <2>1. CASE RunHandler(r)
    BY <2>1 DEF RunHandler
  <2>2. CASE \/ RunStop(r) \/ HandlerStep(r) \/ ReceiveMessage(r)
    <3>1. m_pLBTS' = m_pLBTS /\ pc' = pc
      BY <2>2 DEF RunStop, HandlerStep, SendPacket, Schedule, ReceiveMessage
    <3>2. "loop" # "window"
      OBVIOUS
    <3> QED
      BY <3>1, <3>2
  <2>3. CASE HandlerReturns(r)
    BY <2>3 DEF HandlerReturns
  <2>4. CASE WindowEnds(r)
    BY <2>4 DEF WindowEnds
  <2>5. CASE EnterAllgather(r)
    BY <2>5 DEF EnterAllgather
  <2>6. CASE NewWindow(r)
    <3>1. CASE GlobalFinished(r)
      BY <2>6, <3>1 DEF NewWindow
    <3>2. CASE ~GlobalFinished(r)
      BY <2>6, <3>2 DEF NewWindow
    <3> QED
      BY <3>1, <3>2
  <2> QED
    BY <1>2, <2>1, <2>2, <2>3, <2>4, <2>5, <2>6 DEF RunStep
<1>3. CASE RunAgain
  BY <1>3 DEF RunAgain, Typed
<1> QED
  BY <1>1, <1>2, <1>3 DEF Next

LEMMA TypedInit == Init => Typed
<1> SUFFICES ASSUME Init PROVE Typed
  OBVIOUS
<1>1. PICK start \in [Ranks -> Starts] :
        m_events = [r \in Ranks |->
          {Event(start[r], VALID + 1, "app", r)} \cup
            IF stopTime[r] = MaximumTime THEN {}
            ELSE {Event(stopTime[r], VALID, "stop", r)}]
  BY DEF Init
<1>2. stopTime \in [Ranks -> Stops] /\ Stops \subseteq Nat /\ Starts \subseteq Nat
  BY ConstantsTyped DEF Init
<1>3. VALID \in Nat /\ VALID + 1 \in Nat /\ VALID + 2 \in Nat
  BY DEF VALID
<1>4. ASSUME NEW r \in Ranks
      PROVE  /\ Event(start[r], VALID + 1, "app", r) \in Events
             /\ Event(stopTime[r], VALID, "stop", r) \in Events
  <2>1. start[r] \in Nat /\ stopTime[r] \in Nat
    BY <1>2
  <2> QED
    BY <1>3, <2>1, EventTyped
<1>5. m_events \in [Ranks -> SUBSET Events]
  BY <1>1, <1>4
<1>6. \A r \in Ranks : LookAhead(r) \in Nat
  BY LookAheadTyped
<1>7. inTransit \subseteq Messages /\ nCalls \in Nat /\ nRuns \in Nat \ {0}
  BY DEF Init
<1> QED
  BY <1>2, <1>3, <1>5, <1>6, <1>7 DEF Init, Typed

LEMMA TypedStep ==
  ASSUME Typed, [Next]_vars
  PROVE  Typed'
<1>1. ASSUME NEW r \in Ranks, RunHandler(r) PROVE Typed'
  <2> PICK e : e = First(m_events[r])
    OBVIOUS
  <2>1. e.ts \in Nat
    BY <1>1, TakenIs DEF RunHandler
  <2>2. /\ m_events' = [m_events EXCEPT ![r] = @ \ {e}]
        /\ m_currentTs' = [m_currentTs EXCEPT ![r] = e.ts]
        /\ pc' = [pc EXCEPT ![r] = "handler"]
        /\ UNCHANGED <<m_uid, m_stop, m_grantedTime, m_pLBTS, countVars,
                       boundVars>>
    BY <1>1 DEF RunHandler
  <2> QED
    BY <2>1, <2>2 DEF Typed, countVars, boundVars
<1>2. ASSUME NEW r \in Ranks, RunStop(r) PROVE Typed'
  <2> PICK e : e = First(m_events[r])
    OBVIOUS
  <2>1. e.ts \in Nat
    BY <1>2, TakenIs DEF RunStop
  <2>2. /\ m_events' = [m_events EXCEPT ![r] = @ \ {e}]
        /\ m_currentTs' = [m_currentTs EXCEPT ![r] = e.ts]
        /\ m_stop' = [m_stop EXCEPT ![r] = TRUE]
        /\ UNCHANGED <<m_uid, m_grantedTime, m_pLBTS, countVars, pc,
                       boundVars>>
    BY <1>2 DEF RunStop
  <2> QED
    BY <2>1, <2>2 DEF Typed, countVars, boundVars
<1>3. ASSUME NEW r \in Ranks, NEW delay \in Delays, Schedule(r, delay)
      PROVE  Typed'
  <2> PICK e : e = Event(m_currentTs[r] + delay, m_uid[r], "app", r)
    OBVIOUS
  <2>1. e \in Events
    <3>1. m_currentTs[r] + delay \in Nat /\ m_uid[r] \in Nat
      BY ConstantsTyped DEF Typed
    <3> QED
      BY <3>1, EventTyped
  <2>2. /\ m_events' = [m_events EXCEPT ![r] = @ \cup {e}]
        /\ m_uid' = [m_uid EXCEPT ![r] = @ + 1]
        /\ nCalls' = nCalls + 1
        /\ UNCHANGED <<m_currentTs, m_stop, m_grantedTime, m_pLBTS, countVars,
                       pc, stopTime, nRuns>>
    BY <1>3 DEF Schedule
  <2> QED
    BY <2>1, <2>2 DEF Typed, countVars
<1>4. ASSUME NEW r \in Ranks, NEW l \in Links, SendPacket(r, l) PROVE Typed'
  <2> PICK now \in Nat : now = m_currentTs[r]
    BY DEF Typed
  <2> PICK e : e = Event(now + TxTime[l], m_uid[r], "complete", l)
    OBVIOUS
  <2> PICK m : m = [rx |-> Arrival(l, now), to |-> To[l], number |-> nCalls]
    OBVIOUS
  <2>1. e \in Events
    <3>1. now + TxTime[l] \in Nat /\ m_uid[r] \in Nat
      BY ConstantsTyped DEF Typed
    <3> QED
      BY <3>1, EventTyped
  <2>2. m \in Messages
    <3>1. Arrival(l, now) \in Nat /\ nCalls \in Nat /\ To[l] \in Remote
      BY ConstantsTyped DEF Arrival, Typed, Remote
    <3> QED
      BY <3>1 DEF Messages
  <2>3. /\ m_events' = [m_events EXCEPT ![r] = @ \cup {e}]
        /\ m_uid' = [m_uid EXCEPT ![r] = @ + 1]
        /\ inTransit' = inTransit \cup {m}
        /\ g_txCount' = [g_txCount EXCEPT ![r] = @ + 1]
        /\ nCalls' = nCalls + 1
        /\ UNCHANGED <<m_currentTs, m_stop, m_grantedTime, m_pLBTS, g_rxCount,
                       pc, stopTime, nRuns>>
    BY <1>4 DEF SendPacket
  <2> QED
    BY <2>1, <2>2, <2>3 DEF Typed
<1>5. ASSUME NEW r \in Ranks, ReceiveMessage(r) PROVE Typed'
  <2>1. PICK m \in inTransit :
          /\ m.to = r
          /\ inTransit' = inTransit \ {m}
          /\ m_events' = [m_events EXCEPT ![r] = @ \cup
                            {Event(m.rx, m_uid[r], "app", r)}]
    BY <1>5 DEF ReceiveMessage
  <2> PICK e : e = Event(m.rx, m_uid[r], "app", r)
    OBVIOUS
  <2>2. e \in Events
    <3>1. m.rx \in Nat /\ m_uid[r] \in Nat
      BY DEF Typed, Messages
    <3> QED
      BY <3>1, EventTyped
  <2>3. m_events' = [m_events EXCEPT ![r] = @ \cup {e}]
    BY <2>1
  <2>4. /\ m_uid' = [m_uid EXCEPT ![r] = @ + 1]
        /\ g_rxCount' = [g_rxCount EXCEPT ![r] = @ + 1]
        /\ UNCHANGED <<m_currentTs, m_stop, m_grantedTime, m_pLBTS, g_txCount,
                       pc, boundVars>>
    BY <1>5 DEF ReceiveMessage
  <2> QED
    BY <2>1, <2>2, <2>3, <2>4 DEF Typed, boundVars
<1>6. ASSUME NEW r \in Ranks,
             HandlerReturns(r) \/ WindowEnds(r) \/ EnterAllgather(r)
      PROVE  Typed'
  <2>1. /\ \E x \in {"loop", "receive", "gather"} :
             pc' = [pc EXCEPT ![r] = x]
        /\ UNCHANGED <<listVars, m_grantedTime, m_pLBTS, countVars, boundVars>>
    BY <1>6 DEF HandlerReturns, WindowEnds, EnterAllgather
  <2> QED
    BY <2>1 DEF Typed, listVars, countVars, boundVars
<1>7. CASE Allgather
  <2>1. \A r \in Ranks : LbtsMessage(r) \in LbtsMessages
    BY LbtsTyped
  <2> QED
    BY <1>7, <2>1 DEF Allgather, Typed, listVars, countVars, boundVars
<1>8. ASSUME NEW r \in Ranks, NewWindow(r) PROVE Typed'
  <2>1. pc[r] = "window" /\ m_pLBTS \in [Ranks -> LbtsMessages]
    BY <1>8 DEF NewWindow, Typed
  <2>2. Window(r) \in Nat
    <3>1. SmallestTime \in Nat /\ LookAhead(r) \in Nat
      BY <2>1, SmallestTimeIs, LookAheadTyped
    <3>2. m_grantedTime[r] \in Nat /\ MaximumTime \in Nat
      BY ConstantsTyped DEF Typed
    <3> QED
      BY <3>1, <3>2 DEF Window
  <2>3. /\ m_grantedTime' = [m_grantedTime EXCEPT ![r] = Window(r)]
        /\ \E x \in {"loop", "done"} : pc' = [pc EXCEPT ![r] = x]
        /\ UNCHANGED <<listVars, m_pLBTS, countVars, boundVars>>
    BY <1>8 DEF NewWindow
  <2> QED
    BY <2>1, <2>2, <2>3 DEF Typed, listVars, countVars, boundVars
<1>9. CASE RunAgain
  <2>1. \A r \in Ranks : LookAhead(r) \in Nat
    BY LookAheadTyped
  <2> QED
    BY <1>9, <2>1 DEF RunAgain, Typed, countVars
<1>10. CASE UNCHANGED vars
  BY <1>10 DEF Typed, vars, listVars, countVars, boundVars
<1> QED
  BY <1>1, <1>2, <1>3, <1>4, <1>5, <1>6, <1>7, <1>8, <1>9, <1>10
  DEF Next, RunStep, HandlerStep

-----------------------------------------------------------------------------
(* The counts.  What all ranks have sent, less what all ranks have         *)
(* received, is what is on its way.                                        *)

MessagesCounted ==
  /\ IsFiniteSet(Counted(g_rxCount)) /\ IsFiniteSet(Counted(g_txCount))
  /\ IsFiniteSet(inTransit)
  /\ Total(g_txCount) = Total(g_rxCount) + Cardinality(inTransit)
  /\ \A m \in inTransit : m.number < nCalls

LEMMA CountOneMore ==
  ASSUME NEW count \in [Ranks -> Nat], NEW r \in Ranks,
         IsFiniteSet(Counted(count)),
         NEW more, more = [count EXCEPT ![r] = @ + 1]
  PROVE  /\ IsFiniteSet(Counted(more)) /\ Total(count) \in Nat
         /\ Total(more) = Total(count) + 1
<1> PICK n \in Nat : n = count[r]
  OBVIOUS
<1>1. more[r] = n + 1 /\ \A q \in Ranks \ {r} : more[q] = count[q]
  OBVIOUS
<1>2. 1 .. n + 1 = (1 .. n) \cup {n + 1} /\ n + 1 \notin 1 .. n
  OBVIOUS
<1>3. Counted(more) = Counted(count) \cup {<<r, n + 1>>}
  <2>1. ASSUME NEW x \in Counted(more)
        PROVE  x \in Counted(count) \cup {<<r, n + 1>>}
    <3>1. PICK q \in Ranks : x \in {q} \X (1 .. more[q])
      BY DEF Counted
    <3>2. PICK i \in 1 .. more[q] : x = <<q, i>>
      BY <3>1
    <3>3. CASE q = r
      <4>1. i \in 1 .. n \/ i = n + 1
        BY <1>1, <1>2, <3>2, <3>3
      <4> QED
        BY <3>2, <3>3, <4>1 DEF Counted
    <3>4. CASE q # r
      BY <1>1, <3>2, <3>4 DEF Counted
    <3> QED
      BY <3>3, <3>4
  <2>2. ASSUME NEW x \in Counted(count)
        PROVE  x \in Counted(more)
    <3>1. PICK q \in Ranks : x \in {q} \X (1 .. count[q])
      BY DEF Counted
    <3>2. 1 .. count[q] \subseteq 1 .. more[q]
      BY <1>1, <1>2
    <3> QED
      BY <3>1, <3>2 DEF Counted
  <2>3. <<r, n + 1>> \in Counted(more)
    BY <1>1, <1>2 DEF Counted
  <2> QED
    BY <2>1, <2>2, <2>3
<1>4. <<r, n + 1>> \notin Counted(count)
  <2> SUFFICES ASSUME <<r, n + 1>> \in Counted(count) PROVE FALSE
    OBVIOUS
  <2>1. PICK q \in Ranks : <<r, n + 1>> \in {q} \X (1 .. count[q])
    BY DEF Counted
  <2>2. q = r /\ n + 1 \in 1 .. n
    BY <2>1
  <2> QED
    BY <1>2, <2>2
<1>5. /\ IsFiniteSet(Counted(more))
      /\ Cardinality(Counted(more)) = Cardinality(Counted(count)) + 1
  <2> PICK old : old = Counted(count)
    OBVIOUS
  <2> PICK x : x = <<r, n + 1>>
    OBVIOUS
  <2>1. IsFiniteSet(old) /\ x \notin old /\ Counted(more) = old \cup {x}
    BY <1>3, <1>4
  <2>2. /\ IsFiniteSet(old \cup {x})
        /\ Cardinality(old \cup {x}) = Cardinality(old) + 1
    BY <2>1, FS_AddElement
  <2> QED
    BY <2>1, <2>2
<1>6. Cardinality(Counted(count)) \in Nat
  BY FS_CardinalityType
<1> QED
  BY <1>5, <1>6 DEF Total

LEMMA MessagesCountedInit == Init => MessagesCounted
<1> SUFFICES ASSUME Init PROVE MessagesCounted
  OBVIOUS
<1>1. /\ g_rxCount = [r \in Ranks |-> 0] /\ g_txCount = [r \in Ranks |-> 0]
      /\ inTransit = {}
  BY DEF Init
<1>2. Counted(g_rxCount) = {} /\ Counted(g_txCount) = {}
  BY <1>1 DEF Counted
<1>3. IsFiniteSet({}) /\ Cardinality({}) = 0
  BY FS_EmptySet
<1> QED
  BY <1>1, <1>2, <1>3 DEF MessagesCounted, Total

LEMMA MessagesCountedStep ==
  ASSUME Typed, MessagesCounted, [Next]_vars
  PROVE  MessagesCounted'
<1>1. ASSUME NEW r \in Ranks, NEW l \in Links, SendPacket(r, l)
      PROVE  MessagesCounted'
  <2> PICK m : m = [rx |-> Arrival(l, m_currentTs[r]), to |-> To[l],
                    number |-> nCalls]
    OBVIOUS
  <2>1. /\ inTransit' = inTransit \cup {m} /\ g_rxCount' = g_rxCount
        /\ g_txCount' = [g_txCount EXCEPT ![r] = @ + 1]
        /\ nCalls' = nCalls + 1
    BY <1>1 DEF SendPacket
  <2>2. /\ IsFiniteSet(Counted(g_txCount')) /\ Total(g_txCount) \in Nat
        /\ Total(g_txCount') = Total(g_txCount) + 1
    BY <2>1, CountOneMore DEF Typed, MessagesCounted
  <2>3. nCalls \in Nat /\ \A k \in inTransit : k.number \in Nat
    BY DEF Typed, Messages
  <2>4. m \notin inTransit
    BY <2>3 DEF MessagesCounted
  <2>5. /\ IsFiniteSet(inTransit')
        /\ Cardinality(inTransit') = Cardinality(inTransit) + 1
    BY <2>1, <2>4, FS_AddElement DEF MessagesCounted
  <2>6. \A k \in inTransit' : k.number < nCalls'
    BY <2>1, <2>3 DEF MessagesCounted
  <2>7. Total(g_txCount') = Total(g_rxCount') + Cardinality(inTransit')
    <3> PICK t \in Nat : t = Total(g_txCount)
      BY <2>2
    <3> PICK x \in Nat : x = Total(g_rxCount)
      BY FS_CardinalityType DEF MessagesCounted, Total
    <3> PICK c \in Nat : c = Cardinality(inTransit)
      BY FS_CardinalityType DEF MessagesCounted
    <3>1. t = x + c
      BY DEF MessagesCounted
    <3>2. /\ Total(g_txCount') = t + 1 /\ Total(g_rxCount') = x
          /\ Cardinality(inTransit') = c + 1
      BY <2>1, <2>2, <2>5
    <3>3. t + 1 = x + (c + 1)
      BY <3>1
    <3> QED
      BY <3>2, <3>3
  <2> QED
    BY <2>1, <2>2, <2>5, <2>6, <2>7 DEF MessagesCounted
<1>2. ASSUME NEW r \in Ranks, ReceiveMessage(r) PROVE MessagesCounted'
  <2>1. PICK m \in inTransit : inTransit' = inTransit \ {m}
    BY <1>2 DEF ReceiveMessage
  <2>2. /\ g_txCount' = g_txCount /\ nCalls' = nCalls
        /\ g_rxCount' = [g_rxCount EXCEPT ![r] = @ + 1]
    BY <1>2 DEF ReceiveMessage, boundVars
  <2>3. /\ IsFiniteSet(Counted(g_rxCount')) /\ Total(g_rxCount) \in Nat
        /\ Total(g_rxCount') = Total(g_rxCount) + 1
    BY <2>2, CountOneMore DEF Typed, MessagesCounted
  <2>4. /\ IsFiniteSet(inTransit')
        /\ Cardinality(inTransit') = Cardinality(inTransit) - 1
    BY <2>1, FS_RemoveElement DEF MessagesCounted
  <2>5. Total(g_txCount') = Total(g_rxCount') + Cardinality(inTransit')
    <3> PICK x \in Nat : x = Total(g_rxCount)
      BY <2>3
    <3> PICK c \in Nat : c = Cardinality(inTransit)
      BY FS_CardinalityType DEF MessagesCounted
    <3>1. /\ Total(g_txCount') = x + c /\ Total(g_rxCount') = x + 1
          /\ Cardinality(inTransit') = c - 1
      BY <2>2, <2>3, <2>4 DEF MessagesCounted
    <3>2. x + c = (x + 1) + (c - 1)
      OBVIOUS
    <3> QED
      BY <3>1, <3>2
  <2>6. \A k \in inTransit' : k.number < nCalls'
    BY <2>1, <2>2 DEF MessagesCounted
  <2> QED
    BY <2>2, <2>3, <2>4, <2>5, <2>6 DEF MessagesCounted
<1>3. ASSUME UNCHANGED countVars, nCalls' = nCalls \/ nCalls' = nCalls + 1
      PROVE  MessagesCounted'
  <2>1. \A k \in inTransit : k.number \in Nat /\ nCalls \in Nat
    BY DEF Typed, Messages
  <2>2. \A k \in inTransit' : k.number < nCalls'
    BY <1>3, <2>1 DEF MessagesCounted, countVars
  <2>3. /\ g_rxCount' = g_rxCount /\ g_txCount' = g_txCount
        /\ inTransit' = inTransit
    BY <1>3 DEF countVars
  <2> QED
    BY <2>2, <2>3 DEF MessagesCounted
<1>4. ASSUME NEW r \in Ranks,
             RunStep(r) \/ \E delay \in Delays : Schedule(r, delay)
      PROVE  UNCHANGED countVars /\ (nCalls' = nCalls \/ nCalls' = nCalls + 1)
  BY <1>4 DEF RunStep, RunHandler, RunStop, HandlerReturns, WindowEnds,
              EnterAllgather, NewWindow, Schedule, boundVars
<1>5. CASE Allgather \/ RunAgain \/ UNCHANGED vars
  BY <1>3, <1>5 DEF Allgather, RunAgain, vars, boundVars
<1> QED
  BY <1>1, <1>2, <1>3, <1>4, <1>5 DEF Next, HandlerStep

\* Nothing is on its way when the totals agree.
LEMMA NothingOnItsWay ==
  ASSUME MessagesCounted, Total(g_txCount) = Total(g_rxCount)
  PROVE  inTransit = {}
<1> PICK x \in Nat : x = Total(g_rxCount)
  BY FS_CardinalityType DEF MessagesCounted, Total
<1> PICK c \in Nat : c = Cardinality(inTransit)
  BY FS_CardinalityType DEF MessagesCounted
<1>1. x = x + c
  BY DEF MessagesCounted
<1>2. c = 0
  BY <1>1
<1> QED
  BY <1>2, FS_EmptySet DEF MessagesCounted

\* What the Allgather gives to all ranks are the totals of the moment.
LEMMA Gathered ==
  ASSUME Typed, MessagesCounted, Allgather
  PROVE  /\ m_pLBTS' \in [Ranks -> LbtsMessages]
         /\ \A r \in Ranks : m_pLBTS'[r] = LbtsMessage(r)
         /\ (TotRx = TotTx)' => inTransit = {}
<1>1. m_pLBTS' = [r \in Ranks |-> LbtsMessage(r)]
  BY DEF Allgather
<1>2. /\ [r \in Ranks |-> m_pLBTS'[r].rxCount] = g_rxCount
      /\ [r \in Ranks |-> m_pLBTS'[r].txCount] = g_txCount
  BY <1>1 DEF LbtsMessage, Typed
<1>3. TotRx' = Total(g_rxCount) /\ TotTx' = Total(g_txCount)
  BY <1>2 DEF TotRx, TotTx, Total, Counted
<1>4. (TotRx = TotTx)' => inTransit = {}
  BY <1>3, NothingOnItsWay
<1> QED
  BY <1>1, <1>4, LbtsTyped

-----------------------------------------------------------------------------
(* The end.  Once the totals agree and every rank is finished, all ranks   *)
(* only leave, and stay finished.                                          *)

Ending(r) == pc[r] = "done" \/ (pc[r] = "window" /\ GlobalFinished(r))

LeavingTogether ==
  (\E r \in Ranks : Ending(r))
    => /\ inTransit = {}
       /\ \A s \in Ranks : /\ pc[s] \in {"window", "done"}
                           /\ GlobalFinished(s) /\ IsLocalFinished(s)

\* A rank that runs, receives or waits keeps all others from leaving.
LEMMA NoneEnding ==
  ASSUME Typed, LeavingTogether, NEW r \in Ranks, pc[r] \notin {"window", "done"},
         m_pLBTS' = m_pLBTS, NEW x, x \notin {"window", "done"},
         pc' = pc \/ pc' = [pc EXCEPT ![r] = x]
  PROVE  LeavingTogether'
<1>1. \A s \in Ranks : ~Ending(s)
  BY DEF LeavingTogether
<1>2. ASSUME NEW s \in Ranks PROVE ~Ending(s)'
  <2>1. pc'[s] = pc[s] \/ pc'[s] = x
    BY DEF Typed
  <2>2. GlobalFinished(s)' <=> GlobalFinished(s)
    BY DEF GlobalFinished, TotRx, TotTx, Total, Counted
  <2> QED
    BY <1>1, <2>1, <2>2 DEF Ending
<1> QED
  BY <1>2 DEF LeavingTogether

LEMMA LeavingTogetherStep ==
  ASSUME Typed, MessagesCounted, LeavingTogether, [Next]_vars
  PROVE  LeavingTogether'
<1>1. ASSUME NEW r \in Ranks,
             \/ RunHandler(r) \/ RunStop(r) \/ HandlerReturns(r)
             \/ WindowEnds(r) \/ EnterAllgather(r)
             \/ HandlerStep(r) \/ ReceiveMessage(r)
      PROVE  LeavingTogether'
  <2>1. /\ pc[r] \notin {"window", "done"} /\ m_pLBTS' = m_pLBTS
        /\ \E x \in {"loop", "handler", "receive", "gather"} :
             pc' = pc \/ pc' = [pc EXCEPT ![r] = x]
    BY <1>1 DEF RunHandler, RunStop, MayRun, HandlerReturns, WindowEnds,
                EnterAllgather, HandlerStep, SendPacket, Schedule,
                ReceiveMessage
  <2>2. PICK x \in {"loop", "handler", "receive", "gather"} :
          pc' = pc \/ pc' = [pc EXCEPT ![r] = x]
    BY <2>1
  <2>3. x \notin {"window", "done"}
    OBVIOUS
  <2> QED
    BY <2>1, <2>2, <2>3, NoneEnding
<1>2. CASE Allgather
  <2>1. /\ \A r \in Ranks : m_pLBTS'[r] = LbtsMessage(r)
        /\ (TotRx = TotTx)' => inTransit = {}
    BY <1>2, Gathered
  <2>2. /\ inTransit' = inTransit /\ UNCHANGED listVars
        /\ \A r \in Ranks : pc'[r] = "window"
    BY <1>2 DEF Allgather, countVars
  <2>3. ASSUME NEW r \in Ranks, Ending(r)' PROVE GlobalFinished(r)'
    BY <2>2, <2>3 DEF Ending
  <2>4. ASSUME NEW r \in Ranks, GlobalFinished(r)'
        PROVE  /\ inTransit' = {}
               /\ \A s \in Ranks : GlobalFinished(s)' /\ IsLocalFinished(s)'
    <3>1. (TotRx = TotTx)' /\ \A s \in Ranks : m_pLBTS'[s].isFinished
      BY <2>4 DEF GlobalFinished
    <3>2. ASSUME NEW s \in Ranks PROVE IsLocalFinished(s)
      <4>1. m_pLBTS'[s].isFinished /\ m_pLBTS'[s] = LbtsMessage(s)
        BY <2>1, <3>1
      <4>2. LbtsMessage(s).isFinished = IsLocalFinished(s)
        BY DEF LbtsMessage
      <4> QED
        BY <4>1, <4>2, Zenon
    <3>3. \A s \in Ranks : IsLocalFinished(s)'
      BY <2>2, <3>2 DEF IsLocalFinished, listVars
    <3> QED
      BY <2>1, <2>2, <3>1, <3>3 DEF GlobalFinished
  <2> QED
    BY <2>2, <2>3, <2>4 DEF LeavingTogether
<1>3. ASSUME NEW r \in Ranks, NewWindow(r) PROVE LeavingTogether'
  <2>1. /\ pc[r] = "window" /\ UNCHANGED <<listVars, m_pLBTS, countVars>>
        /\ pc' = [pc EXCEPT ![r] = IF GlobalFinished(r) THEN "done" ELSE "loop"]
    BY <1>3 DEF NewWindow
  <2>2. \A s \in Ranks : /\ GlobalFinished(s)' <=> GlobalFinished(s)
                         /\ IsLocalFinished(s)' <=> IsLocalFinished(s)
    BY <2>1 DEF GlobalFinished, TotRx, TotTx, Total, Counted, IsLocalFinished,
                listVars
  <2>3. ASSUME NEW s \in Ranks, Ending(s)'
        PROVE  \E q \in Ranks : Ending(q)
    <3>1. CASE s = r
      <4>1. pc'[r] = IF GlobalFinished(r) THEN "done" ELSE "loop"
        BY <2>1 DEF Typed
      <4>2. GlobalFinished(r)
        BY <2>2, <2>3, <3>1, <4>1 DEF Ending
      <4> QED
        BY <2>1, <4>2 DEF Ending
    <3>2. CASE s # r
      <4>1. pc'[s] = pc[s]
        BY <2>1, <3>2 DEF Typed
      <4> QED
        BY <2>2, <2>3, <4>1 DEF Ending
    <3> QED
      BY <3>1, <3>2
  <2>4. ASSUME \E q \in Ranks : Ending(q)
        PROVE  /\ inTransit' = {}
               /\ \A s \in Ranks :
                    /\ pc'[s] \in {"window", "done"}
                    /\ GlobalFinished(s)' /\ IsLocalFinished(s)'
    <3>1. /\ inTransit = {}
          /\ \A s \in Ranks : /\ pc[s] \in {"window", "done"}
                              /\ GlobalFinished(s) /\ IsLocalFinished(s)
      BY <2>4 DEF LeavingTogether
    <3>2. pc' = [pc EXCEPT ![r] = "done"]
      BY <2>1, <3>1
    <3>3. \A s \in Ranks : pc'[s] \in {"window", "done"}
      BY <3>1, <3>2 DEF Typed
    <3> QED
      BY <2>1, <2>2, <3>1, <3>3 DEF countVars
  <2> QED
    BY <2>3, <2>4 DEF LeavingTogether
<1>4. CASE RunAgain
  <2>1. \A r \in Ranks : pc'[r] = "loop"
    BY <1>4 DEF RunAgain
  <2> QED
    BY <2>1 DEF LeavingTogether, Ending
<1>5. CASE UNCHANGED vars
  BY <1>5 DEF vars, listVars, countVars, LeavingTogether, Ending,
     GlobalFinished, TotRx, TotTx, Total, Counted, IsLocalFinished
<1> QED
  BY <1>1, <1>2, <1>3, <1>4, <1>5 DEF Next, RunStep

-----------------------------------------------------------------------------
(* The event of Stop.  In the first Run it is listed until it has run, and *)
(* then the rank stays where it is; in a later one there is none.          *)

StopEvent(r) == Event(stopTime[r], VALID, "stop", r)

Stopping(r) ==
  /\ \A e \in m_events[r] : e.what = "stop" => e = StopEvent(r)
  /\ stopTime[r] # MaximumTime =>
       IF nRuns = 1
       THEN IF m_stop[r]
            THEN m_currentTs[r] = stopTime[r] /\ StopEvent(r) \notin m_events[r]
            ELSE StopEvent(r) \in m_events[r]
       ELSE ~m_stop[r] /\ StopEvent(r) \notin m_events[r]

LEMMA StoppingInit ==
  ASSUME Init, NEW r \in Ranks
  PROVE  Stopping(r)
<1>1. PICK start \in [Ranks -> Starts] :
        m_events = [s \in Ranks |->
          {Event(start[s], VALID + 1, "app", s)} \cup
            IF stopTime[s] = MaximumTime THEN {}
            ELSE {Event(stopTime[s], VALID, "stop", s)}]
  BY DEF Init
<1>2. m_events[r] = {Event(start[r], VALID + 1, "app", r)} \cup
                      IF stopTime[r] = MaximumTime THEN {} ELSE {StopEvent(r)}
  BY <1>1 DEF StopEvent
<1>3. Event(start[r], VALID + 1, "app", r).what = "app"
  BY DEF Event
<1>4. nRuns = 1 /\ ~m_stop[r]
  BY DEF Init
<1> QED
  BY <1>2, <1>3, <1>4 DEF Stopping

\* The list gains nothing but events that do not stop, and loses none that
\* does.
LEMMA StoppingKept ==
  ASSUME NEW r \in Ranks, Stopping(r),
         UNCHANGED <<stopTime, nRuns>>, m_stop'[r] = m_stop[r],
         m_stop[r] => m_currentTs'[r] = m_currentTs[r],
         \A e \in m_events'[r] : e \in m_events[r] \/ e.what # "stop",
         \A e \in m_events[r] : e \in m_events'[r] \/ e.what # "stop"
  PROVE  Stopping(r)'
<1>1. StopEvent(r)' = StopEvent(r) /\ StopEvent(r).what = "stop"
  BY DEF StopEvent, Event
<1>2. StopEvent(r) \in m_events'[r] <=> StopEvent(r) \in m_events[r]
  BY <1>1
<1> QED
  BY <1>1, <1>2 DEF Stopping

LEMMA StoppingStep ==
  ASSUME Typed, LeavingTogether, \A r \in Ranks : Stopping(r), [Next]_vars,
         NEW r \in Ranks
  PROVE  Stopping(r)'
<1>1. ASSUME NEW q \in Ranks, RunHandler(q) PROVE Stopping(r)'
  <2> PICK e : e = First(m_events[q])
    OBVIOUS
  <2>1. e.what # "stop" /\ ~m_stop[q]
    BY <1>1, TakenIs DEF RunHandler
  <2>2. /\ m_events' = [m_events EXCEPT ![q] = @ \ {e}]
        /\ m_currentTs' = [m_currentTs EXCEPT ![q] = e.ts]
        /\ UNCHANGED <<m_stop, stopTime, nRuns>>
    BY <1>1 DEF RunHandler, boundVars
  <2>3. /\ \A f \in m_events'[r] : f \in m_events[r]
        /\ \A f \in m_events[r] : f \in m_events'[r] \/ f = e
        /\ m_stop[r] => m_currentTs'[r] = m_currentTs[r]
    BY <2>1, <2>2 DEF Typed
  <2> QED
    BY <2>1, <2>2, <2>3, StoppingKept
<1>2. ASSUME NEW q \in Ranks, RunStop(q) PROVE Stopping(r)'
  <2> PICK e : e = First(m_events[q])
    OBVIOUS
  <2>1. e \in m_events[q] /\ e.what = "stop" /\ ~m_stop[q]
    BY <1>2, TakenIs DEF RunStop
  <2>2. /\ m_events' = [m_events EXCEPT ![q] = @ \ {e}]
        /\ m_currentTs' = [m_currentTs EXCEPT ![q] = e.ts]
        /\ m_stop' = [m_stop EXCEPT ![q] = TRUE]
        /\ UNCHANGED <<stopTime, nRuns>>
    BY <1>2 DEF RunStop, boundVars
  <2>3. CASE r = q
    <3>1. e = StopEvent(r) /\ StopEvent(r)' = StopEvent(r) /\ e.ts = stopTime[r]
      BY <2>1, <2>2, <2>3 DEF Stopping, StopEvent, Event
    <3>2. /\ m_events'[r] = m_events[r] \ {e} /\ m_currentTs'[r] = e.ts
          /\ m_stop'[r] = TRUE
      BY <2>2, <2>3 DEF Typed
    <3>3. stopTime[r] # MaximumTime => nRuns = 1
      BY <2>1, <2>3, <3>1 DEF Stopping
    <3> QED
      BY <2>2, <3>1, <3>2, <3>3 DEF Stopping
  <2>4. CASE r # q
    <3>1. /\ m_events'[r] = m_events[r] /\ m_currentTs'[r] = m_currentTs[r]
          /\ m_stop'[r] = m_stop[r]
      BY <2>2, <2>4 DEF Typed
    <3> QED
      BY <2>2, <3>1, StoppingKept
  <2> QED
    BY <2>3, <2>4
<1>3. ASSUME NEW q \in Ranks, HandlerStep(q) \/ ReceiveMessage(q)
      PROVE  Stopping(r)'
  <2>1. /\ \E e : /\ e.what # "stop"
                  /\ m_events' = [m_events EXCEPT ![q] = @ \cup {e}]
        /\ UNCHANGED <<m_currentTs, m_stop, stopTime, nRuns>>
    <3>1. \A ts, uid, arg : /\ Event(ts, uid, "app", arg).what # "stop"
                            /\ Event(ts, uid, "complete", arg).what # "stop"
      BY DEF Event
    <3> QED
      BY <1>3, <3>1
      DEF HandlerStep, SendPacket, Schedule, ReceiveMessage, boundVars
  <2>2. PICK e : /\ e.what # "stop"
                 /\ m_events' = [m_events EXCEPT ![q] = @ \cup {e}]
    BY <2>1
  <2>3. /\ \A f \in m_events'[r] : f \in m_events[r] \/ f = e
        /\ \A f \in m_events[r] : f \in m_events'[r]
    BY <2>2 DEF Typed
  <2> QED
    BY <2>1, <2>2, <2>3, StoppingKept
<1>4. CASE RunAgain
  <2>1. /\ \A s \in Ranks : pc[s] = "done"
        /\ UNCHANGED <<m_events, stopTime>> /\ nRuns' = nRuns + 1
        /\ m_stop'[r] = FALSE
    BY <1>4 DEF RunAgain
  <2>2. m_events[r] = {} \/ m_stop[r]
    BY <2>1 DEF LeavingTogether, Ending, IsLocalFinished
  <2>3. nRuns' # 1
    BY <2>1 DEF Typed
  <2>4. StopEvent(r)' = StopEvent(r)
    BY <2>1 DEF StopEvent
  <2>5. stopTime[r] # MaximumTime => StopEvent(r) \notin m_events[r]
    BY <2>2 DEF Stopping
  <2> QED
    BY <2>1, <2>3, <2>4, <2>5 DEF Stopping
<1>5. CASE \/ Allgather \/ UNCHANGED vars
           \/ \E q \in Ranks : \/ HandlerReturns(q) \/ WindowEnds(q)
                               \/ EnterAllgather(q) \/ NewWindow(q)
  <2>1. UNCHANGED <<m_events, m_currentTs, m_stop, stopTime, nRuns>>
    BY <1>5 DEF Allgather, vars, HandlerReturns, WindowEnds, EnterAllgather,
                NewWindow, listVars, boundVars
  <2> QED
    BY <2>1, StoppingKept
<1> QED
  BY <1>1, <1>2, <1>3, <1>4, <1>5 DEF Next, RunStep

-----------------------------------------------------------------------------
(* Windows.  There is a time S before which nothing will happen any more,  *)
(* on any rank that runs, and no window of a rank reaches farther than a   *)
(* message sent at S.  When the next windows are granted, S is the least   *)
(* of the times gathered: no message was on its way, and none that is sent *)
(* while other ranks have yet to compute their window is due in it.        *)

Above(S) ==
  /\ \A r \in Ranks :
       /\ ~m_stop[r] => \A e \in m_events[r] : e.ts >= S
       /\ pc[r] = "handler" => m_currentTs[r] >= S
  /\ \A m \in inTransit : m.rx >= S + LookAhead(m.to)

Within(S) == \A q \in Remote : /\ m_grantedTime[q] <= S + LookAhead(q)
                               /\ m_currentTs[q] <= S + LookAhead(q)

Horizon == \E S \in Nat : Above(S) /\ Within(S)

NextHorizon ==
  (\E r \in Ranks : pc[r] = "window") /\ TotRx = TotTx => Above(SmallestTime)

ListedInFuture ==
  \A r \in Ranks : \A e \in m_events[r] : e.ts >= m_currentTs[r]

\* Where NeverInPast promises something.
Coherent == nRuns = 1 \/ \A r, s \in Ranks : stopTime[r] = stopTime[s]
                                             /\ stopTime[r] # MaximumTime

Timely == Horizon /\ NextHorizon /\ ListedInFuture

LEMMA FieldsTyped ==
  ASSUME Typed, NEW r \in Ranks
  PROVE  /\ m_currentTs[r] \in Nat /\ m_grantedTime[r] \in Nat
         /\ m_events[r] \in SUBSET Events /\ m_uid[r] \in Nat
         /\ \A e \in m_events[r] : e \in Events /\ e.ts \in Nat
         /\ \A m \in inTransit : /\ m \in Messages /\ m.rx \in Nat
                                 /\ m.to \in Remote /\ LookAhead(m.to) \in Nat
<1>1. /\ m_currentTs[r] \in Nat /\ m_grantedTime[r] \in Nat
      /\ m_events[r] \in SUBSET Events /\ m_uid[r] \in Nat
  BY DEF Typed
<1>2. \A e \in m_events[r] : e \in Events /\ e.ts \in Nat
  BY <1>1 DEF Events
<1>3. \A m \in inTransit : /\ m \in Messages /\ m.rx \in Nat
                           /\ m.to \in Remote
  BY DEF Typed, Messages
<1> QED
  BY <1>1, <1>2, <1>3, RemoteRanks

\* Nothing happens before S once it will not.
LEMMA AboveKept ==
  ASSUME Typed, NEW S \in Nat, Above(S), [Next]_vars, ~RunAgain
  PROVE  Above(S)'
<1>1. ASSUME NEW r \in Ranks, RunHandler(r) PROVE Above(S)'
  <2> PICK e : e = First(m_events[r])
    OBVIOUS
  <2>1. e \in m_events[r] /\ e.ts >= S
    BY <1>1, TakenIs DEF RunHandler, Above
  <2>2. /\ m_events' = [m_events EXCEPT ![r] = @ \ {e}]
        /\ m_currentTs' = [m_currentTs EXCEPT ![r] = e.ts]
        /\ pc' = [pc EXCEPT ![r] = "handler"]
        /\ m_stop' = m_stop /\ inTransit' = inTransit
    BY <1>1 DEF RunHandler, countVars
  <2>3. ASSUME NEW q \in Ranks
        PROVE  /\ ~m_stop'[q] => \A f \in m_events'[q] : f.ts >= S
               /\ pc'[q] = "handler" => m_currentTs'[q] >= S
    <3>1. CASE q = r
      BY <2>1, <2>2, <3>1 DEF Above, Typed
    <3>2. CASE q # r
      BY <2>2, <3>2 DEF Above, Typed
    <3> QED
      BY <3>1, <3>2
  <2> QED
    BY <2>2, <2>3 DEF Above
<1>2. ASSUME NEW r \in Ranks, RunStop(r) PROVE Above(S)'
  <2> PICK e : e = First(m_events[r])
    OBVIOUS
  <2>1. /\ m_events' = [m_events EXCEPT ![r] = @ \ {e}]
        /\ m_currentTs' = [m_currentTs EXCEPT ![r] = e.ts]
        /\ m_stop' = [m_stop EXCEPT ![r] = TRUE]
        /\ pc' = pc /\ inTransit' = inTransit /\ pc[r] = "loop"
    BY <1>2 DEF RunStop, countVars, MayRun
  <2>2. ASSUME NEW q \in Ranks
        PROVE  /\ ~m_stop'[q] => \A f \in m_events'[q] : f.ts >= S
               /\ pc'[q] = "handler" => m_currentTs'[q] >= S
    <3>1. CASE q = r
      BY <2>1, <3>1 DEF Above, Typed
    <3>2. CASE q # r
      BY <2>1, <3>2 DEF Above, Typed
    <3> QED
      BY <3>1, <3>2
  <2> QED
    BY <2>1, <2>2 DEF Above
<1>3. ASSUME NEW r \in Ranks, NEW e, e.ts >= S,
             m_events' = [m_events EXCEPT ![r] = @ \cup {e}],
             UNCHANGED <<m_currentTs, m_stop, pc>>,
             \A m \in inTransit' : \/ m \in inTransit
                                   \/ m.rx >= S + LookAhead(m.to)
      PROVE  Above(S)'
  <2>1. ASSUME NEW q \in Ranks
        PROVE  /\ ~m_stop'[q] => \A f \in m_events'[q] : f.ts >= S
               /\ pc'[q] = "handler" => m_currentTs'[q] >= S
    <3>1. \A f \in m_events'[q] : f \in m_events[q] \/ f = e
      BY <1>3 DEF Typed
    <3> QED
      BY <1>3, <3>1 DEF Above
  <2> QED
    BY <1>3, <2>1 DEF Above
<1>4. ASSUME NEW r \in Ranks, NEW delay \in Delays, Schedule(r, delay)
      PROVE  Above(S)'
  <2> PICK now \in Nat : now = m_currentTs[r]
    BY DEF Typed
  <2> PICK e : e = Event(now + delay, m_uid[r], "app", r)
    OBVIOUS
  <2>1. e.ts = now + delay
    BY DEF Event
  <2>2. now >= S /\ delay \in Nat
    BY <1>4, ConstantsTyped DEF Schedule, Above
  <2>3. e.ts >= S
    BY <2>1, <2>2
  <2> QED
    BY <1>3, <1>4, <2>3 DEF Schedule, countVars
<1>5. ASSUME NEW r \in Ranks, NEW l \in Links, SendPacket(r, l)
      PROVE  Above(S)'
  <2> PICK now \in Nat : now = m_currentTs[r]
    BY DEF Typed
  <2> PICK e : e = Event(now + TxTime[l], m_uid[r], "complete", l)
    OBVIOUS
  <2> PICK m : m = [rx |-> Arrival(l, now), to |-> To[l], number |-> nCalls]
    OBVIOUS
  <2>1. /\ m_events' = [m_events EXCEPT ![r] = @ \cup {e}]
        /\ inTransit' = inTransit \cup {m}
        /\ UNCHANGED <<m_currentTs, m_stop, pc>> /\ now >= S
    BY <1>5 DEF SendPacket, Above
  <2>2. /\ TxTime[l] \in Nat /\ Delay[l] \in Nat /\ LookAhead(To[l]) \in Nat
        /\ LookAhead(To[l]) <= Delay[l]
    BY ConstantsTyped, LookAheadIs, LookAheadTyped
  <2>3. e.ts = now + TxTime[l] /\ m.rx = now + TxTime[l] + Delay[l]
        /\ m.to = To[l]
    BY DEF Event, Arrival
  <2>4. e.ts >= S /\ m.rx >= S + LookAhead(m.to)
    BY <2>1, <2>2, <2>3
  <2> QED
    BY <1>3, <2>1, <2>4
<1>6. ASSUME NEW r \in Ranks, ReceiveMessage(r) PROVE Above(S)'
  <2>1. PICK m \in inTransit :
          /\ m.to = r
          /\ inTransit' = inTransit \ {m}
          /\ m_events' = [m_events EXCEPT ![r] = @ \cup
                            {Event(m.rx, m_uid[r], "app", r)}]
    BY <1>6 DEF ReceiveMessage
  <2> PICK e : e = Event(m.rx, m_uid[r], "app", r)
    OBVIOUS
  <2>2. e.ts = m.rx /\ m_events' = [m_events EXCEPT ![r] = @ \cup {e}]
    BY <2>1 DEF Event
  <2>3. m.rx \in Nat /\ LookAhead(m.to) \in Nat /\ m.rx >= S + LookAhead(m.to)
    BY FieldsTyped DEF Above
  <2>4. e.ts >= S
    BY <2>2, <2>3
  <2>5. UNCHANGED <<m_currentTs, m_stop, pc>>
    BY <1>6 DEF ReceiveMessage
  <2> QED
    BY <1>3, <2>1, <2>2, <2>4, <2>5
<1>7. CASE \/ Allgather \/ UNCHANGED vars
           \/ \E r \in Ranks : \/ HandlerReturns(r) \/ WindowEnds(r)
                               \/ EnterAllgather(r) \/ NewWindow(r)
  <2>1. /\ UNCHANGED <<m_events, m_currentTs, m_stop, inTransit>>
        /\ \A q \in Ranks : pc'[q] = "handler" => pc[q] = "handler"
    <3>1. CASE Allgather \/ UNCHANGED vars
      BY <3>1 DEF Allgather, vars, listVars, countVars
    <3>2. ASSUME NEW r \in Ranks, \/ HandlerReturns(r) \/ WindowEnds(r)
                                  \/ EnterAllgather(r) \/ NewWindow(r)
          PROVE  /\ UNCHANGED <<m_events, m_currentTs, m_stop, inTransit>>
                 /\ \A q \in Ranks : pc'[q] = "handler" => pc[q] = "handler"
      <4>1. /\ UNCHANGED <<listVars, countVars>>
            /\ \E x \in {"loop", "receive", "gather", "done"} :
                 pc' = [pc EXCEPT ![r] = x]
        BY <3>2 DEF HandlerReturns, WindowEnds, EnterAllgather, NewWindow
      <4> QED
        BY <4>1 DEF Typed, listVars, countVars
    <3> QED
      BY <1>7, <3>1, <3>2
  <2> QED
    BY <2>1 DEF Above
<1> QED
  BY <1>1, <1>2, <1>4, <1>5, <1>6, <1>7 DEF Next, RunStep, HandlerStep

\* The least of the times gathered is such a time.
LEMMA SmallestTimeAbove ==
  ASSUME Typed, MessagesCounted, Allgather, (TotRx = TotTx)',
         NEW r0 \in Ranks
  PROVE  SmallestTime' \in Nat /\ Above(SmallestTime)'
<1> PICK S : S = SmallestTime'
  OBVIOUS
<1>1. /\ m_pLBTS' \in [Ranks -> LbtsMessages]
      /\ \A r \in Ranks : m_pLBTS'[r] = LbtsMessage(r)
      /\ inTransit = {}
  BY Gathered
<1>2. ASSUME NEW r \in Ranks PROVE S \in Nat /\ S <= NextTs(r)
  <2>1. S \in Nat /\ S <= m_pLBTS'[r].smallestTime
    <3>1. PICK T : T = {m_pLBTS'[s].smallestTime : s \in Ranks}
      OBVIOUS
    <3>2. T \in SUBSET Nat /\ m_pLBTS'[r].smallestTime \in T
      BY <1>1, <3>1 DEF LbtsMessages
    <3>3. S = Min(T)
      BY <3>1 DEF SmallestTime
    <3>4. Min(T) \in Nat /\ \A u \in T : Min(T) <= u
      BY <3>2, MinIs
    <3> QED
      BY <3>2, <3>3, <3>4, Zenon
  <2>2. m_pLBTS'[r].smallestTime = NextTs(r)
    BY <1>1 DEF LbtsMessage
  <2> QED
    BY <2>1, <2>2
<1>3. /\ UNCHANGED <<m_events, m_stop, inTransit>>
      /\ \A r \in Ranks : pc'[r] = "window"
  BY DEF Allgather, listVars, countVars
<1>4. ASSUME NEW r \in Ranks, ~m_stop'[r], NEW e \in m_events'[r]
      PROVE  e.ts >= S
  <2>1. NextTs(r) <= e.ts /\ NextTs(r) \in Nat /\ e.ts \in Nat
    BY <1>3, <1>4, NextTsIs, FieldsTyped
  <2> QED
    BY <1>2, <2>1
<1> QED
  BY <1>1, <1>2, <1>3, <1>4 DEF Above

LEMMA HorizonStep ==
  ASSUME Typed, Horizon, NextHorizon, [Next]_vars, ~RunAgain
  PROVE  Horizon'
<1>1. PICK S \in Nat : Above(S) /\ Within(S)
  BY DEF Horizon
<1>2. Above(S)'
  BY <1>1, AboveKept
<1>3. \A q \in Remote : /\ q \in Ranks /\ LookAhead(q) \in Nat
                        /\ m_grantedTime[q] \in Nat /\ m_currentTs[q] \in Nat
  BY RemoteRanks, FieldsTyped
<1>4. ASSUME NEW r \in Ranks, MayRun(r), m_grantedTime' = m_grantedTime,
             m_currentTs' = [m_currentTs EXCEPT ![r] = First(m_events[r]).ts]
      PROVE  Horizon'
  <2> PICK t \in Nat : t = First(m_events[r]).ts /\ t <= m_grantedTime[r]
    BY <1>4, TakenIs
  <2>1. m_currentTs' = [m_currentTs EXCEPT ![r] = t]
    BY <1>4
  <2>2. ASSUME NEW q \in Remote
        PROVE  m_currentTs'[q] <= S + LookAhead(q)
    <3>1. CASE q = r
      <4>1. m_currentTs'[q] = t /\ m_grantedTime[q] <= S + LookAhead(q)
        BY <1>1, <1>3, <2>1, <3>1 DEF Typed, Within
      <4> QED
        BY <1>3, <3>1, <4>1
    <3>2. CASE q # r
      BY <1>1, <1>3, <2>1, <3>2 DEF Typed, Within
    <3> QED
      BY <3>1, <3>2
  <2>3. Within(S)'
    BY <1>1, <1>4, <2>2 DEF Within
  <2> QED
    BY <1>2, <2>3 DEF Horizon
<1>5. ASSUME NEW r \in Ranks, NewWindow(r) PROVE Horizon'
  <2>1. /\ m_grantedTime' = [m_grantedTime EXCEPT ![r] = Window(r)]
        /\ m_currentTs' = m_currentTs /\ pc[r] = "window"
    BY <1>5 DEF NewWindow, listVars
  <2>2. \A q \in Remote \ {r} : m_grantedTime'[q] = m_grantedTime[q]
    BY <1>3, <2>1 DEF Typed
  <2>3. r \in Remote => m_grantedTime'[r] = Window(r)
    BY <2>1 DEF Typed
  <2>4. CASE TotRx # TotTx
    <3>1. \A q \in Remote : m_grantedTime'[q] = m_grantedTime[q]
      BY <2>2, <2>3, <2>4, WindowIs
    <3>2. Within(S)'
      BY <1>1, <2>1, <3>1 DEF Within
    <3> QED
      BY <1>2, <3>2 DEF Horizon
  <2>5. CASE TotRx = TotTx
    <3> PICK T : T = SmallestTime
      OBVIOUS
    <3>1. T \in Nat
      BY <2>1, SmallestTimeIs DEF Typed
    <3>2. Above(T)'
      <4>1. Above(T)
        BY <2>1, <2>5 DEF NextHorizon
      <4> QED
        BY <3>1, <4>1, AboveKept
    <3> PICK U \in Nat : /\ U = S \/ U = T
                         /\ S <= U /\ T <= U
      BY <3>1
    <3>3. Above(U)'
      BY <1>2, <3>2
    <3>4. ASSUME NEW q \in Remote
          PROVE  /\ m_grantedTime'[q] <= U + LookAhead(q)
                 /\ m_currentTs'[q] <= U + LookAhead(q)
      <4>1. /\ m_grantedTime[q] <= S + LookAhead(q)
            /\ m_currentTs[q] <= S + LookAhead(q)
        BY <1>1 DEF Within
      <4>2. m_currentTs'[q] <= U + LookAhead(q)
        BY <1>3, <2>1, <4>1
      <4>3. CASE q = r
        <5>1. m_grantedTime'[q] = T + LookAhead(q)
          BY <2>3, <2>5, <4>3, WindowIs
        <5> QED
          BY <1>3, <3>1, <4>2, <5>1
      <4>4. CASE q # r
        BY <1>3, <2>2, <4>1, <4>2, <4>4
      <4> QED
        BY <4>3, <4>4
    <3>5. Within(U)'
      BY <3>4 DEF Within
    <3> QED
      BY <3>3, <3>5 DEF Horizon
  <2> QED
    BY <2>4, <2>5
<1>6. ASSUME UNCHANGED <<m_grantedTime, m_currentTs>> PROVE Horizon'
  BY <1>1, <1>2, <1>6 DEF Within, Horizon
<1>7. ASSUME NEW r \in Ranks, RunHandler(r) \/ RunStop(r) PROVE Horizon'
  BY <1>4, <1>7 DEF RunHandler, RunStop
<1>8. ASSUME NEW r \in Ranks,
             \/ HandlerReturns(r) \/ WindowEnds(r) \/ EnterAllgather(r)
             \/ HandlerStep(r) \/ ReceiveMessage(r)
      PROVE  Horizon'
  BY <1>6, <1>8 DEF HandlerReturns, WindowEnds, EnterAllgather, HandlerStep,
                    SendPacket, Schedule, ReceiveMessage, listVars
<1>9. CASE Allgather \/ UNCHANGED vars
  BY <1>6, <1>9 DEF Allgather, vars, listVars
<1> QED
  BY <1>5, <1>7, <1>8, <1>9 DEF Next, RunStep

LEMMA NextHorizonStep ==
  ASSUME Typed, MessagesCounted, NextHorizon, [Next]_vars
  PROVE  NextHorizon'
<1>1. CASE Allgather
  <2> SUFFICES ASSUME (\E r \in Ranks : pc[r] = "window")', (TotRx = TotTx)'
               PROVE  Above(SmallestTime)'
    BY DEF NextHorizon
  <2> PICK r \in Ranks : TRUE
    OBVIOUS
  <2> QED
    BY <1>1, SmallestTimeAbove
<1>2. CASE Next /\ ~Allgather /\ ~RunAgain
  <2> SUFFICES ASSUME NEW r \in Ranks, pc'[r] = "window", (TotRx = TotTx)'
               PROVE  Above(SmallestTime)'
    BY DEF NextHorizon
  <2>1. m_pLBTS' = m_pLBTS /\ pc[r] = "window"
    BY <1>2, WindowsOpen
  <2>2. TotRx = TotTx /\ SmallestTime' = SmallestTime
    BY <2>1 DEF TotRx, TotTx, Total, Counted, SmallestTime
  <2> PICK T : T = SmallestTime
    OBVIOUS
  <2>3. T \in Nat /\ Above(T)
    BY <2>1, <2>2, SmallestTimeIs DEF Typed, NextHorizon
  <2>4. Above(T)'
    BY <1>2, <2>3, AboveKept
  <2> QED
    BY <2>2, <2>4
<1>3. CASE RunAgain
  <2>1. \A r \in Ranks : pc'[r] = "loop"
    BY <1>3 DEF RunAgain
  <2> QED
    BY <2>1 DEF NextHorizon
<1>4. CASE UNCHANGED vars
  BY <1>4 DEF vars, listVars, countVars, NextHorizon, Above, TotRx, TotTx,
              Total, Counted, SmallestTime
<1> QED
  BY <1>1, <1>2, <1>3, <1>4

\* A message that is received is due later than anything its rank has run.
LEMMA InTransitInFuture ==
  ASSUME Typed, Horizon, NEW m \in inTransit
  PROVE  m.rx >= m_currentTs[m.to]
<1>1. PICK S \in Nat : Above(S) /\ Within(S)
  BY DEF Horizon
<1>2. /\ m.rx \in Nat /\ m.to \in Remote /\ LookAhead(m.to) \in Nat
      /\ m_currentTs[m.to] \in Nat
  BY RemoteRanks, FieldsTyped DEF Typed, Messages
<1>3. m.rx >= S + LookAhead(m.to) /\ m_currentTs[m.to] <= S + LookAhead(m.to)
  BY <1>1, <1>2 DEF Above, Within
<1> QED
  BY <1>2, <1>3

LEMMA ListedInFutureStep ==
  ASSUME Typed, Horizon, ListedInFuture, [Next]_vars
  PROVE  ListedInFuture'
<1>1. ASSUME NEW r \in Ranks, RunHandler(r) \/ RunStop(r)
      PROVE  ListedInFuture'
  <2> PICK e : e = First(m_events[r])
    OBVIOUS
  <2>1. /\ m_events' = [m_events EXCEPT ![r] = @ \ {e}]
        /\ m_currentTs' = [m_currentTs EXCEPT ![r] = e.ts]
    BY <1>1 DEF RunHandler, RunStop
  <2>2. e.ts \in Nat /\ \A f \in m_events[r] : e.ts <= f.ts /\ f.ts \in Nat
    BY <1>1, TakenIs, FieldsTyped DEF RunHandler, RunStop
  <2>3. ASSUME NEW q \in Ranks, NEW f \in m_events'[q]
        PROVE  f.ts >= m_currentTs'[q]
    <3>1. CASE q = r
      BY <2>1, <2>2, <3>1 DEF Typed
    <3>2. CASE q # r
      BY <2>1, <3>2 DEF Typed, ListedInFuture
    <3> QED
      BY <3>1, <3>2
  <2> QED
    BY <2>3 DEF ListedInFuture
<1>2. ASSUME NEW r \in Ranks, NEW e, e.ts >= m_currentTs[r],
             m_events' = [m_events EXCEPT ![r] = @ \cup {e}],
             m_currentTs' = m_currentTs
      PROVE  ListedInFuture'
  <2>1. ASSUME NEW q \in Ranks, NEW f \in m_events'[q]
        PROVE  f.ts >= m_currentTs[q]
    <3>1. f \in m_events[q] \/ (q = r /\ f = e)
      BY <1>2 DEF Typed
    <3> QED
      BY <1>2, <3>1 DEF ListedInFuture
  <2> QED
    BY <1>2, <2>1 DEF ListedInFuture
<1>3. ASSUME NEW r \in Ranks, NEW delay \in Delays, Schedule(r, delay)
      PROVE  ListedInFuture'
  <2> PICK now \in Nat : now = m_currentTs[r]
    BY DEF Typed
  <2> PICK e : e = Event(now + delay, m_uid[r], "app", r)
    OBVIOUS
  <2>1. e.ts = now + delay /\ delay \in Nat
    BY ConstantsTyped DEF Event
  <2>2. e.ts >= m_currentTs[r]
    BY <2>1
  <2> QED
    BY <1>2, <1>3, <2>2 DEF Schedule
<1>4. ASSUME NEW r \in Ranks, NEW l \in Links, SendPacket(r, l)
      PROVE  ListedInFuture'
  <2> PICK now \in Nat : now = m_currentTs[r]
    BY DEF Typed
  <2> PICK e : e = Event(now + TxTime[l], m_uid[r], "complete", l)
    OBVIOUS
  <2>1. e.ts = now + TxTime[l] /\ TxTime[l] \in Nat
    BY ConstantsTyped DEF Event
  <2>2. e.ts >= m_currentTs[r]
    BY <2>1
  <2> QED
    BY <1>2, <1>4, <2>2 DEF SendPacket
<1>5. ASSUME NEW r \in Ranks, ReceiveMessage(r) PROVE ListedInFuture'
  <2>1. PICK m \in inTransit :
          /\ m.to = r
          /\ m_events' = [m_events EXCEPT ![r] = @ \cup
                            {Event(m.rx, m_uid[r], "app", r)}]
    BY <1>5 DEF ReceiveMessage
  <2> PICK e : e = Event(m.rx, m_uid[r], "app", r)
    OBVIOUS
  <2>2. e.ts >= m_currentTs[r]
    BY <2>1, InTransitInFuture DEF Event
  <2> QED
    BY <1>2, <1>5, <2>1, <2>2 DEF ReceiveMessage
<1>6. CASE \/ Allgather \/ RunAgain \/ UNCHANGED vars
           \/ \E r \in Ranks : \/ HandlerReturns(r) \/ WindowEnds(r)
                               \/ EnterAllgather(r) \/ NewWindow(r)
  <2>1. UNCHANGED <<m_events, m_currentTs>>
    BY <1>6 DEF Allgather, RunAgain, vars, HandlerReturns, WindowEnds,
                EnterAllgather, NewWindow, listVars
  <2> QED
    BY <2>1 DEF ListedInFuture
<1> QED
  BY <1>1, <1>3, <1>4, <1>5, <1>6 DEF Next, RunStep, HandlerStep

\* Run is called again.  All ranks have been stopped at one time, or have
\* nothing left to run.
LEMMA RunAgainTimely ==
  ASSUME Typed, LeavingTogether, \A r \in Ranks : Stopping(r),
         Coherent => Timely, RunAgain, Coherent'
  PROVE  Horizon'
<1>1. /\ \A r \in Ranks : pc[r] = "done" /\ pc'[r] = "loop"
      /\ \A q \in Remote : m_grantedTime'[q] = LookAhead(q)
      /\ UNCHANGED <<m_currentTs, m_events, inTransit, stopTime>>
      /\ nRuns' = nRuns + 1 /\ nRuns' # 1
  BY RemoteRanks DEF RunAgain, countVars, Typed
<1>2. Coherent /\ \A r, s \in Ranks : stopTime[r] = stopTime[s]
                                      /\ stopTime[r] # MaximumTime
  BY <1>1 DEF Coherent
<1>3. Horizon /\ ListedInFuture
  BY <1>2 DEF Timely
<1>4. \A r \in Ranks : inTransit = {} /\ (m_events[r] = {} \/ m_stop[r])
  BY <1>1 DEF LeavingTogether, Ending, IsLocalFinished
<1>5. \A q \in Remote : /\ q \in Ranks /\ LookAhead(q) \in Nat
                        /\ m_currentTs[q] \in Nat
  BY RemoteRanks, FieldsTyped
<1>6. inTransit = {}
  <2>1. \A m \in inTransit : m.to \in Ranks
    BY FieldsTyped, RemoteRanks DEF Typed, Messages
  <2> QED
    BY <1>4, <2>1
<1>7. ASSUME NEW S \in Nat,
             \A r \in Ranks : \A e \in m_events[r] : e.ts >= S,
             \A q \in Remote : m_currentTs[q] <= S + LookAhead(q)
      PROVE  Horizon'
  <2>1. Above(S)'
    BY <1>1, <1>6, <1>7 DEF Above
  <2>2. \A q \in Remote : LookAhead(q) <= S + LookAhead(q)
    BY <1>5
  <2>3. Within(S)'
    BY <1>1, <1>7, <2>2 DEF Within
  <2> QED
    BY <2>1, <2>3 DEF Horizon
<1>8. CASE nRuns = 1
  <2>1. \A r \in Ranks : m_stop[r] /\ m_currentTs[r] = stopTime[r]
    <3> TAKE r \in Ranks
    <3>1. IF m_stop[r] THEN m_currentTs[r] = stopTime[r]
                       ELSE StopEvent(r) \in m_events[r]
      BY <1>2, <1>8 DEF Stopping
    <3> QED
      BY <1>4, <3>1
  <2>2. CASE Ranks = {}
    BY <1>5, <1>7, <2>2
  <2>3. ASSUME NEW r \in Ranks PROVE Horizon'
    <3> PICK S \in Nat : S = stopTime[r]
      BY ConstantsTyped DEF Typed
    <3>1. \A q \in Ranks : m_currentTs[q] = S
      BY <1>2, <2>1
    <3>2. \A q \in Ranks : \A e \in m_events[q] : e.ts >= S
      BY <1>3, <3>1 DEF ListedInFuture
    <3>3. \A q \in Remote : m_currentTs[q] <= S + LookAhead(q)
      BY <1>5, <3>1
    <3> QED
      BY <1>7, <3>2, <3>3
  <2> QED
    BY <2>2, <2>3
<1>9. CASE nRuns # 1
  <2>1. \A r \in Ranks : m_events[r] = {}
    BY <1>2, <1>4, <1>9 DEF Stopping
  <2>2. PICK S \in Nat : \A q \in Remote : m_currentTs[q] <= S + LookAhead(q)
    BY <1>3 DEF Horizon, Within
  <2> QED
    BY <1>7, <2>1, <2>2
<1> QED
  BY <1>8, <1>9

-----------------------------------------------------------------------------
(* The theorems.                                                           *)

Inv == /\ Typed /\ MessagesCounted /\ LeavingTogether
       /\ \A r \in Ranks : Stopping(r)
       /\ Coherent => Timely

LEMMA InvInit == Init => Inv
<1> SUFFICES ASSUME Init PROVE Inv
  OBVIOUS
<1>1. Typed /\ MessagesCounted /\ \A r \in Ranks : Stopping(r)
  BY TypedInit, MessagesCountedInit, StoppingInit
<1>2. /\ \A r \in Ranks : pc[r] = "loop" /\ m_currentTs[r] = 0
      /\ \A q \in Remote : m_grantedTime[q] = LookAhead(q)
      /\ inTransit = {}
  BY RemoteRanks DEF Init
<1>3. LeavingTogether /\ NextHorizon
  BY <1>2 DEF LeavingTogether, Ending, NextHorizon
<1>4. \A r \in Ranks : \A e \in m_events[r] : e.ts >= 0
  BY <1>1, FieldsTyped
<1>5. Above(0)
  BY <1>2, <1>4 DEF Above
<1>6. Within(0)
  BY <1>2, RemoteRanks DEF Within
<1>7. Horizon /\ ListedInFuture
  BY <1>2, <1>4, <1>5, <1>6 DEF Horizon, ListedInFuture
<1> QED
  BY <1>1, <1>3, <1>7 DEF Inv, Timely

LEMMA CoherentKept ==
  ASSUME Typed, [Next]_vars, ~RunAgain
  PROVE  Coherent' = Coherent
<1>1. UNCHANGED <<stopTime, nRuns>>
  BY DEF Next, RunStep, HandlerStep, RunHandler, RunStop, HandlerReturns,
         WindowEnds, EnterAllgather, NewWindow, SendPacket, Schedule,
         ReceiveMessage, Allgather, boundVars, vars
<1> QED
  BY <1>1 DEF Coherent

LEMMA InvStep == Inv /\ [Next]_vars => Inv'
<1> SUFFICES ASSUME Inv, [Next]_vars PROVE Inv'
  OBVIOUS
<1> USE DEF Inv
<1>1. Typed' /\ MessagesCounted' /\ LeavingTogether'
  BY TypedStep, MessagesCountedStep, LeavingTogetherStep
<1>2. \A r \in Ranks : Stopping(r)'
  BY StoppingStep
<1>3. ASSUME Coherent' PROVE Timely'
  <2>1. CASE RunAgain
    <3>1. Coherent
      BY <1>3, <2>1 DEF RunAgain, Coherent, Typed
    <3>2. Horizon'
      BY <1>3, <2>1, RunAgainTimely
    <3> QED
      BY <3>1, <3>2, NextHorizonStep, ListedInFutureStep DEF Timely
  <2>2. CASE ~RunAgain
    <3>1. Timely
      BY <1>3, <2>2, CoherentKept
    <3> QED
      BY <2>2, <3>1, HorizonStep, NextHorizonStep, ListedInFutureStep
      DEF Timely
  <2> QED
    BY <2>1, <2>2
<1> QED
  BY <1>1, <1>2, <1>3

\* For any ranks and links, any delays, programs and stop times, and however
\* MPI delays and reorders messages, no packet comes to a rank that is past its
\* time, in the first Run and in the others after a common stop.
THEOREM NeverInPastCorrect == Spec => []NeverInPast
<1>1. Inv => NeverInPast
  <2> SUFFICES ASSUME Inv, Coherent PROVE NothingLate
    BY DEF NeverInPast, Coherent
  <2>1. Typed /\ Horizon /\ ListedInFuture
    BY DEF Inv, Timely
  <2> QED
    BY <2>1, InTransitInFuture DEF NothingLate, ListedInFuture
<1> QED
  BY <1>1, InvInit, InvStep, PTL DEF Spec

\* For any number of ranks, and as often as Run is called: when a rank has left
\* Run, all others only leave, too, and no message is on its way.
THEOREM LeaveTogetherCorrect == Spec => []LeaveTogether
<1>1. Inv => LeaveTogether
  BY DEF Inv, LeavingTogether, Ending, LeaveTogether
<1> QED
  BY <1>1, InvInit, InvStep, PTL DEF Spec

=============================================================================
