--------------------- MODULE DefaultSimulatorImplProofs ---------------------
(***************************************************************************)
(* What holds of DefaultSimulatorImpl for every set of events, of threads  *)
(* and of delays, and for every width of the uid counter.                  *)
(***************************************************************************)
EXTENDS DefaultSimulatorImpl, SequenceTheorems, FiniteSetTheorems, TLAPS

-----------------------------------------------------------------------------
(* The uid counter.                                                        *)

\* The next uid is again a uid.
LEMMA NextUidType == ASSUME m_uid \in 0 .. UidModulus - 1
                     PROVE  NextUid \in 0 .. UidModulus - 1
BY UidAssumption DEF NextUid, VALID

\* The counter can still be incremented.
NoWrap == m_uid + 1 < UidModulus

\* While the counter does not wrap, the next uid is a new one.
LEMMA NextUidNew == ASSUME m_uid \in 0 .. UidModulus - 1, NoWrap
                    PROVE  NextUid = m_uid + 1
BY UidAssumption DEF NextUid, NoWrap, VALID

-----------------------------------------------------------------------------
(* Sequences.                                                              *)

\* RemoveAt moves the elements behind position i one to the front.
LEMMA RemoveAtProperties ==
  ASSUME NEW S, NEW s \in Seq(S), NEW i \in 1 .. Len(s)
  PROVE  /\ RemoveAt(s, i) \in Seq(S)
         /\ Len(RemoveAt(s, i)) = Len(s) - 1
         /\ \A j \in 1 .. Len(s) - 1 :
              RemoveAt(s, i)[j] = IF j < i THEN s[j] ELSE s[j + 1]
<1> DEFINE front == SubSeq(s, 1, i - 1)
           back  == SubSeq(s, i + 1, Len(s))
<1>1. /\ front \in Seq(S) /\ Len(front) = i - 1
      /\ \A j \in 1 .. i - 1 : front[j] = s[j]
  <2>1. \A j \in 1 .. i - 1 : s[j] \in S
    BY ElementOfSeq
  <2> QED
    BY <2>1, SubSeqProperties
<1>2. /\ back \in Seq(S) /\ Len(back) = Len(s) - i
      /\ \A j \in 1 .. Len(s) - i : back[j] = s[i + j]
  <2>1. \A j \in i + 1 .. Len(s) : s[j] \in S
    BY ElementOfSeq
  <2>2. /\ back \in Seq(S)
        /\ Len(back) = IF i + 1 <= Len(s) THEN Len(s) - (i + 1) + 1 ELSE 0
        /\ \A j \in 1 .. Len(s) - (i + 1) + 1 : back[j] = s[i + 1 + j - 1]
    BY <2>1, SubSeqProperties
  <2> QED
    BY <2>2
<1>3. RemoveAt(s, i) = front \o back
  BY DEF RemoveAt
<1> HIDE DEF front, back
<1>4. /\ front \o back \in Seq(S)
      /\ Len(front \o back) = Len(s) - 1
  <2>1. Len(s) \in Nat
    BY LenProperties
  <2>2. /\ front \o back \in Seq(S)
        /\ Len(front \o back) = Len(front) + Len(back)
    BY <1>1, <1>2, ConcatProperties
  <2> QED
    BY <1>1, <1>2, <2>1, <2>2
<1>5. ASSUME NEW j \in 1 .. Len(s) - 1
      PROVE  (front \o back)[j] = IF j < i THEN s[j] ELSE s[j + 1]
  <2>1. (front \o back)[j] = IF j <= i - 1 THEN front[j] ELSE back[j - (i - 1)]
    <3>1. Len(s) \in Nat
      BY LenProperties
    <3>2. j \in 1 .. Len(front) + Len(back)
      BY <1>1, <1>2, <3>1
    <3>3. (front \o back)[j] = IF j <= Len(front) THEN front[j]
                               ELSE back[j - Len(front)]
      BY <1>1, <1>2, <3>2, ConcatProperties
    <3> QED
      BY <1>1, <3>3
  <2>2. CASE j < i
    BY <1>1, <2>1, <2>2
  <2>3. CASE ~(j < i)
    <3>1. j - (i - 1) \in 1 .. Len(s) - i
      BY <2>3, LenProperties
    <3>2. back[j - (i - 1)] = s[i + (j - (i - 1))]
      BY <1>2, <3>1
    <3>3. i + (j - (i - 1)) = j + 1
      OBVIOUS
    <3> QED
      BY <2>1, <2>3, <3>2, <3>3
  <2> QED
    BY <2>2, <2>3
<1> QED
  BY <1>3, <1>4, <1>5

-----------------------------------------------------------------------------
(* Types.                                                                  *)

\* A thread on its way to the mutex has an event to post.
TypeInv == /\ TypeOK
           /\ \A t \in Threads : tpc[t] = "lock" => posting[t] \in Posts

LEMMA TypeInit == Init => TypeInv
<1> SUFFICES ASSUME Init PROVE TypeInv
  OBVIOUS
<1> USE DEF Init, TypeInv
<1>1. m_uid \in 0 .. UidModulus - 1 /\ m_currentUid \in 0 .. UidModulus - 1
  BY UidAssumption DEF VALID, INVALID
<1>2. tpc \in [Threads -> {"idle", "lock", "pushed"}]
  OBVIOUS
<1>3. posting \in [Threads -> Posts \cup {NoPost}]
  OBVIOUS
<1>4. fate \in [Events -> Fates]
  BY DEF Fates
<1>5. m_events \in SUBSET Listed /\ ids \in SUBSET Listed
  OBVIOUS
<1>6. /\ m_destroyEvents \in Seq([impl : Events, ts : Nat, uid : {DESTROY}])
      /\ m_eventsWithContext \in Seq(Posts) /\ eventsWithContext \in Seq(Posts)
      /\ posted \in Seq(Posts)
  BY EmptySeq
<1>7. TypeOK
  <2>1. m_currentTs \in Nat /\ m_unscheduledEvents \in Int
    OBVIOUS
  <2>2. /\ m_cancel \in SUBSET Events /\ stopEvents \in SUBSET Events
        /\ revoked \in SUBSET Events
    OBVIOUS
  <2>3. /\ m_stop \in BOOLEAN /\ m_eventsWithContextEmpty \in BOOLEAN
        /\ mutex \in {"free", "main"} \cup Threads
    OBVIOUS
  <2> QED
    BY <1>1, <1>2, <1>3, <1>4, <1>5, <1>6, <2>1, <2>2, <2>3 DEF TypeOK
<1>8. \A t \in Threads : tpc[t] # "lock"
  OBVIOUS
<1> QED
  BY <1>7, <1>8

\* A new event is well typed, and so is its insertion.
LEMMA InsertType ==
  ASSUME TypeOK, NEW e \in Events, NEW ts \in Nat, InsertEvent(e, ts)
  PROVE  /\ NewEvent(e, ts) \in Listed
         /\ m_events' \in SUBSET Listed
         /\ m_uid' \in 0 .. UidModulus - 1
         /\ m_unscheduledEvents' \in Int
BY NextUidType DEF TypeOK, InsertEvent, NewEvent, Listed

\* Operations of the program preserve the types.
LEMMA TypeCall == TypeInv /\ Call => TypeInv'
<1> SUFFICES ASSUME TypeInv, Call PROVE TypeInv'
  OBVIOUS
<1> USE DelaysAssumption, UidAssumption
    DEF mainVars, eventVars, timeVars, destroyVars, queueVars, threadVars,
        idVars, historyVars
<1>1. ASSUME NEW e \in Events, NEW d \in Delays, Schedule(e, d)
      PROVE  TypeInv'
  <2>1. m_currentTs + d \in Nat
    BY DEF TypeInv, TypeOK
  <2> QED
    BY <1>1, <2>1, InsertType DEF TypeInv, TypeOK, Schedule, Create, Fates
<1>2. ASSUME NEW e \in Events, NEW d \in Delays, ScheduleWithContext(e, d)
      PROVE  TypeInv'
  <2>1. m_currentTs + d \in Nat
    BY DEF TypeInv, TypeOK
  <2> QED
    BY <1>2, <2>1, InsertType
    DEF TypeInv, TypeOK, ScheduleWithContext, Create, Fates
<1>3. ASSUME NEW e \in Events, ScheduleDestroy(e)
      PROVE  TypeInv'
  BY <1>3, NextUidType
  DEF TypeInv, TypeOK, ScheduleDestroy, Create, Fates, Listed, DESTROY, VALID
<1>4. ASSUME NEW id \in ids, Cancel(id)
      PROVE  TypeInv'
  BY <1>4 DEF TypeInv, TypeOK, Cancel, Listed
<1>5. ASSUME NEW id \in ids, RemoveDestroy(id)
      PROVE  TypeInv'
  <2>1. id.impl \in Events
    BY DEF TypeInv, TypeOK, Listed
  <2>2. fate' \in [Events -> Fates]
    BY <1>5, <2>1 DEF TypeInv, TypeOK, RemoveDestroy, Fates
  <2>3. m_destroyEvents' \in Seq([impl : Events, ts : Nat, uid : {DESTROY}])
    BY <1>5, RemoveAtProperties DEF TypeInv, TypeOK, RemoveDestroy
  <2> QED
    BY <1>5, <2>1, <2>2, <2>3 DEF TypeInv, TypeOK, RemoveDestroy
<1>6. ASSUME NEW id \in ids, RemoveListed(id)
      PROVE  TypeInv'
  <2>1. id.impl \in Events
    BY DEF TypeInv, TypeOK, Listed
  <2>2. fate' \in [Events -> Fates]
    BY <1>6, <2>1 DEF TypeInv, TypeOK, RemoveListed, Fates
  <2>3. m_unscheduledEvents' \in Int
    BY <1>6 DEF TypeInv, TypeOK, RemoveListed
  <2>4. m_events' \in SUBSET Listed /\ m_cancel' \in SUBSET Events
    BY <1>6, <2>1 DEF TypeInv, TypeOK, RemoveListed
  <2> QED
    BY <1>6, <2>1, <2>2, <2>3, <2>4 DEF TypeInv, TypeOK, RemoveListed
<1>7. ASSUME Stop
      PROVE  TypeInv'
  BY <1>7 DEF TypeInv, TypeOK, Stop
<1> QED
  BY <1>1, <1>2, <1>3, <1>4, <1>5, <1>6, <1>7 DEF Call

\* So do the steps of the engine on the main thread, ...
LEMMA TypeMain == TypeInv /\ (RunBegins \/ DestroyBegins \/ MainStep) => TypeInv'
<1> SUFFICES ASSUME TypeInv, RunBegins \/ DestroyBegins \/ MainStep
             PROVE  TypeInv'
  OBVIOUS
<1> USE DEF mainVars, eventVars, timeVars, destroyVars, queueVars, threadVars,
            idVars, historyVars
<1>1. CASE RunBegins \/ ResetStop \/ HandlerReturns \/ RunReturns
  BY <1>1
  DEF TypeInv, TypeOK, RunBegins, ResetStop, HandlerReturns, RunReturns
<1>2. CASE DestroyBegins \/ DestroyHandlerReturns \/ DisposeBegins
  BY <1>2
  DEF TypeInv, TypeOK, DestroyBegins, DestroyHandlerReturns, DisposeBegins
<1>3. CASE ReadFlag \/ ReleaseQueue \/ AllInserted
  BY <1>3 DEF TypeInv, TypeOK, ReadFlag, ReleaseQueue, AllInserted
<1>4. CASE SwapQueues
  BY <1>4, EmptySeq DEF TypeInv, TypeOK, SwapQueues
<1>5. CASE InsertPosted
  <2> DEFINE event == Head(eventsWithContext)
  <2>1. event \in Posts /\ Tail(eventsWithContext) \in Seq(Posts)
    BY <1>5, HeadTailProperties DEF TypeInv, TypeOK, InsertPosted
  <2>3. InsertEvent(event.event, m_currentTs + event.timestamp)
    BY <1>5 DEF InsertPosted
  <2> HIDE DEF event
  <2>2. event.event \in Events /\ m_currentTs + event.timestamp \in Nat
    <3>1. event.event \in Events /\ event.timestamp \in Delays
      BY <2>1 DEF Posts
    <3>2. event.timestamp \in Nat /\ m_currentTs \in Nat
      BY <3>1, DelaysAssumption DEF TypeInv, TypeOK
    <3> QED
      BY <3>1, <3>2
  <2>4. /\ m_events' \in SUBSET Listed
        /\ m_uid' \in 0 .. UidModulus - 1
        /\ m_unscheduledEvents' \in Int
    BY <2>2, <2>3, InsertType DEF TypeInv
  <2> QED
    BY <1>5, <2>1, <2>4 DEF TypeInv, TypeOK, InsertPosted
<1>6. CASE ProcessOneEvent
  <2>1. PICK next \in m_events :
          /\ m_events' = m_events \ {next}
          /\ m_unscheduledEvents' = m_unscheduledEvents - 1
          /\ m_currentTs' = next.ts
          /\ m_currentUid' = next.uid
          /\ \/ fate' = [fate EXCEPT ![next.impl] = "skipped"]
             \/ fate' = [fate EXCEPT ![next.impl] = "ran"]
          /\ pc' \in {"poll", "handler"}
    BY <1>6 DEF ProcessOneEvent
  <2>2. next.impl \in Events /\ next.ts \in Nat /\ next.uid \in 0 .. UidModulus - 1
    BY DEF TypeInv, TypeOK, Listed
  <2>3. fate' \in [Events -> Fates]
    BY <2>1, <2>2 DEF TypeInv, TypeOK, Fates
  <2>4. m_unscheduledEvents' \in Int
    BY <2>1 DEF TypeInv, TypeOK
  <2>5. m_stop' \in BOOLEAN
    BY <1>6 DEF TypeInv, TypeOK, ProcessOneEvent
  <2> QED
    BY <1>6, <2>1, <2>2, <2>3, <2>4, <2>5 DEF TypeInv, TypeOK, ProcessOneEvent
<1>7. CASE DestroyNext
  <2> DEFINE Ids == [impl : Events, ts : Nat, uid : {DESTROY}]
  <2>1. /\ Head(m_destroyEvents) \in Ids
        /\ Tail(m_destroyEvents) \in Seq(Ids)
    BY <1>7, HeadTailProperties DEF TypeInv, TypeOK, DestroyNext
  <2>2. Head(m_destroyEvents).impl \in Events
    BY <2>1
  <2>3. fate' \in [Events -> Fates]
    BY <1>7, <2>2 DEF TypeInv, TypeOK, DestroyNext, Fates
  <2> QED
    BY <1>7, <2>1, <2>3 DEF TypeInv, TypeOK, DestroyNext
<1>8. CASE Dispose
  <2>1. fate' \in [Events -> Fates]
    BY <1>8 DEF TypeInv, TypeOK, Dispose, Fates
  <2> QED
    BY <1>8, <2>1 DEF TypeInv, TypeOK, Dispose
<1> QED
  BY <1>1, <1>2, <1>3, <1>4, <1>5, <1>6, <1>7, <1>8
  DEF MainStep, ProcessEventsWithContext

\* ... and those of the posting threads.
LEMMA TypeThread ==
  ASSUME TypeInv, NEW t \in Threads,
         \/ ThreadStep(t)
         \/ \E e \in Events, d \in Delays : PostBegins(t, e, d)
  PROVE  TypeInv'
<1> USE DEF mainVars, eventVars, timeVars, destroyVars, queueVars, threadVars,
            idVars, historyVars
<1>1. ASSUME NEW e \in Events, NEW d \in Delays, PostBegins(t, e, d)
      PROVE  TypeInv'
  <2>1. fate' \in [Events -> Fates]
    BY <1>1 DEF TypeInv, TypeOK, PostBegins, Create, Fates
  <2> QED
    BY <1>1, <2>1 DEF TypeInv, TypeOK, PostBegins, Posts
<1>2. CASE PostPush(t)
  <2>1. posting[t] \in Posts
    BY <1>2 DEF TypeInv, PostPush
  <2>2. m_eventsWithContext' \in Seq(Posts) /\ posted' \in Seq(Posts)
    BY <1>2, <2>1, AppendProperties DEF TypeInv, TypeOK, PostPush
  <2> QED
    BY <1>2, <2>2 DEF TypeInv, TypeOK, PostPush
<1>3. CASE PostRelease(t)
  BY <1>3 DEF TypeInv, TypeOK, PostRelease
<1> QED
  BY <1>1, <1>2, <1>3 DEF ThreadStep

\* The types, with the posts on their way to the mutex.
LEMMA TypeInvariant == Spec => []TypeInv
<1>1. Init => TypeInv
  BY TypeInit
<1>2. TypeInv /\ [Next]_vars => TypeInv'
  <2> SUFFICES ASSUME TypeInv, [Next]_vars PROVE TypeInv'
    OBVIOUS
  <2>1. CASE Call
    BY <2>1, TypeCall
  <2>2. CASE RunBegins \/ DestroyBegins \/ MainStep
    BY <2>2, TypeMain
  <2>3. CASE \E t \in Threads : \/ ThreadStep(t)
                                \/ \E e \in Events, d \in Delays : PostBegins(t, e, d)
    BY <2>3, TypeThread
  <2>4. CASE UNCHANGED vars
    BY <2>4 DEF TypeInv, TypeOK, vars, mainVars, eventVars, timeVars,
                destroyVars, queueVars, threadVars, idVars, historyVars
  <2> QED
    BY <2>1, <2>2, <2>3, <2>4 DEF Next, Disposed
<1> QED
  BY <1>1, <1>2, PTL DEF Spec

\* Every variable of the engine always has its type: in particular the uid
\* counter, the unscheduled-events counter and all three queues.
THEOREM TypeCorrect == Spec => []TypeOK
<1>1. TypeInv => TypeOK
  BY DEF TypeInv
<1> QED
  BY <1>1, TypeInvariant, PTL

-----------------------------------------------------------------------------
(* Keys: the inductive invariant.                                          *)

\* Every listed event is later than the one being executed, its uid has been
\* given out and belongs to no other listed event.
ListOrdered ==
  /\ VALID <= m_uid /\ m_currentUid < m_uid
  /\ \A ev \in m_events : /\ VALID <= ev.uid /\ ev.uid < m_uid
                          /\ KeyLess(CurrentKey, ev)
  /\ \A a, b \in m_events : a.uid = b.uid => a = b

\* An EventId whose event is not listed any more is the key of an event that
\* is over, unless the event was removed, which also cancels it.
IdsKnown ==
  pc # "disposed" =>
    \A id \in ids : \/ id.uid = DESTROY
                    \/ id \in m_events
                    \/ ~KeyLess(CurrentKey, id)
                    \/ id.impl \in m_cancel

KeyInv == ListOrdered /\ IdsKnown

LEMMA KeyInit == Init => KeyInv
BY DEF Init, KeyInv, ListOrdered, IdsKnown, VALID, INVALID

\* What leaves the list, the clock and the ids alone preserves the invariant.
LEMMA KeyUnchanged ==
  ASSUME KeyInv, UNCHANGED <<m_events, m_uid, timeVars, ids>>,
         m_cancel \subseteq m_cancel', pc = "disposed" => pc' = "disposed"
  PROVE  KeyInv'
BY DEF KeyInv, ListOrdered, IdsKnown, CurrentKey, KeyLess, timeVars

\* An insertion with the next uid, not in the past, keeps the list ordered.
LEMMA InsertOrdered ==
  ASSUME TypeOK, ListOrdered, NoWrap,
         NEW e \in Events, NEW ts \in Nat, m_currentTs <= ts,
         InsertEvent(e, ts), UNCHANGED timeVars
  PROVE  ListOrdered'
<1>1. m_uid' = m_uid + 1
  BY NextUidNew DEF TypeOK, InsertEvent
<1>2. /\ m_uid \in Int /\ m_currentTs \in Nat /\ m_currentUid \in Int
      /\ \A ev \in m_events : ev.uid \in Int
  BY DEF TypeOK, Listed
<1>3. KeyLess(CurrentKey, NewEvent(e, ts))
  BY <1>2 DEF ListOrdered, CurrentKey, KeyLess, NewEvent
<1>4. \A ev \in m_events' : \/ ev \in m_events
                            \/ ev = NewEvent(e, ts) /\ ev.uid = m_uid
  BY DEF InsertEvent, NewEvent
<1>5. CurrentKey' = CurrentKey
  BY DEF CurrentKey, timeVars
<1>6. \A ev \in m_events' : /\ VALID <= ev.uid /\ ev.uid < m_uid'
                            /\ KeyLess(CurrentKey', ev)
  BY <1>1, <1>2, <1>3, <1>4, <1>5 DEF ListOrdered, VALID
<1>7. \A a, b \in m_events' : a.uid = b.uid => a = b
  BY <1>2, <1>4 DEF ListOrdered
<1>8. VALID <= m_uid' /\ m_currentUid' < m_uid'
  BY <1>1, <1>2 DEF ListOrdered, VALID, timeVars
<1> QED
  BY <1>6, <1>7, <1>8 DEF ListOrdered

\* The order of the keys is transitive.
LEMMA KeyLessTransitive ==
  ASSUME NEW a, NEW b, NEW c, KeyLess(a, b), KeyLess(b, c),
         a.ts \in Int, b.ts \in Int, c.ts \in Int,
         a.uid \in Int, b.uid \in Int, c.uid \in Int
  PROVE  KeyLess(a, c)
BY DEF KeyLess

-----------------------------------------------------------------------------
(* Keys: every step preserves the invariant.                               *)

LEMMA KeyCall == TypeInv /\ KeyInv /\ NoWrap /\ Call => KeyInv'
<1> SUFFICES ASSUME TypeInv, KeyInv, NoWrap, Call PROVE KeyInv'
  OBVIOUS
<1> USE DEF mainVars, eventVars, timeVars, destroyVars, queueVars, threadVars,
            idVars, historyVars
<1>0. /\ TypeOK /\ ListOrdered
      /\ m_currentTs \in Nat /\ m_uid \in Int
  BY DEF TypeInv, TypeOK, KeyInv
<1>1. ASSUME NEW e \in Events, NEW d \in Delays,
             InsertEvent(e, m_currentTs + d), UNCHANGED <<pc, timeVars, m_cancel>>,
             ids' \in {ids, ids \cup {NewEvent(e, m_currentTs + d)}}
      PROVE  KeyInv'
  <2>1. m_currentTs + d \in Nat /\ m_currentTs <= m_currentTs + d
    BY <1>0, DelaysAssumption
  <2>2. ListOrdered'
    BY <1>0, <1>1, <2>1, InsertOrdered
  <2>3. CurrentKey' = CurrentKey
    BY <1>1 DEF CurrentKey
  <2>4. m_events' = m_events \cup {NewEvent(e, m_currentTs + d)}
    BY <1>1 DEF InsertEvent
  <2>5. IdsKnown'
    BY <1>1, <2>3, <2>4 DEF KeyInv, IdsKnown
  <2> QED
    BY <2>2, <2>5 DEF KeyInv
<1>2. ASSUME NEW e \in Events, NEW d \in Delays,
             Schedule(e, d) \/ ScheduleWithContext(e, d)
      PROVE  KeyInv'
  BY <1>1, <1>2 DEF Schedule, ScheduleWithContext
<1>3. ASSUME NEW e \in Events, ScheduleDestroy(e)
      PROVE  KeyInv'
  <2>1. /\ m_uid' = m_uid + 1
        /\ UNCHANGED <<pc, m_events, timeVars, m_cancel>>
    BY <1>0, <1>3, NextUidNew DEF TypeOK, ScheduleDestroy
  <2>2. PICK id : id.uid = DESTROY /\ ids' = ids \cup {id}
    BY <1>3 DEF ScheduleDestroy
  <2>3. /\ m_currentUid \in Int
        /\ \A ev \in m_events : ev.uid \in Int
    BY DEF TypeInv, TypeOK, Listed
  <2>4. ListOrdered'
    BY <1>0, <2>1, <2>3 DEF KeyInv, ListOrdered, CurrentKey, KeyLess, VALID
  <2>5. IdsKnown'
    BY <2>1, <2>2 DEF KeyInv, IdsKnown, CurrentKey
  <2> QED
    BY <2>4, <2>5 DEF KeyInv
<1>4. ASSUME NEW id \in ids, Cancel(id)
      PROVE  KeyInv'
  BY <1>4, KeyUnchanged DEF Cancel
<1>5. ASSUME NEW id \in ids, RemoveDestroy(id)
      PROVE  KeyInv'
  BY <1>5, KeyUnchanged DEF RemoveDestroy
<1>6. ASSUME NEW id \in ids, RemoveListed(id)
      PROVE  KeyInv'
  <2>1. CASE UNCHANGED <<m_events, m_cancel>>
    BY <1>6, <2>1, KeyUnchanged DEF RemoveListed
  <2>2. CASE /\ m_events' = m_events \ {id}
             /\ m_cancel' = m_cancel \cup {id.impl}
    <3>1. UNCHANGED <<pc, m_uid, timeVars, ids>>
      BY <1>6 DEF RemoveListed
    <3>2. ListOrdered' /\ IdsKnown'
      BY <2>2, <3>1 DEF KeyInv, ListOrdered, IdsKnown, CurrentKey, KeyLess
    <3> QED
      BY <3>2 DEF KeyInv
  <2> QED
    BY <1>6, <2>1, <2>2 DEF RemoveListed
<1>7. ASSUME Stop
      PROVE  KeyInv'
  BY <1>7, KeyUnchanged DEF Stop
<1> QED
  BY <1>2, <1>3, <1>4, <1>5, <1>6, <1>7 DEF Call

LEMMA KeyMain ==
  TypeInv /\ KeyInv /\ NoWrap /\ (RunBegins \/ DestroyBegins \/ MainStep) => KeyInv'
<1> SUFFICES ASSUME TypeInv, KeyInv, NoWrap, RunBegins \/ DestroyBegins \/ MainStep
             PROVE  KeyInv'
  OBVIOUS
<1> USE DEF mainVars, eventVars, timeVars, destroyVars, queueVars, threadVars,
            idVars, historyVars
<1>1. CASE RunBegins \/ ResetStop \/ HandlerReturns \/ RunReturns \/ DestroyBegins
  BY <1>1, KeyUnchanged
  DEF RunBegins, ResetStop, HandlerReturns, RunReturns, DestroyBegins
<1>2. CASE DestroyNext \/ DestroyHandlerReturns \/ DisposeBegins
  BY <1>2, KeyUnchanged DEF DestroyNext, DestroyHandlerReturns, DisposeBegins
<1>3. CASE ReadFlag \/ SwapQueues \/ ReleaseQueue \/ AllInserted
  BY <1>3, KeyUnchanged DEF ReadFlag, SwapQueues, ReleaseQueue, AllInserted
<1>4. CASE InsertPosted
  <2> DEFINE event == Head(eventsWithContext)
             ts    == m_currentTs + event.timestamp
  <2>1. /\ InsertEvent(event.event, ts)
        /\ UNCHANGED <<pc, timeVars, m_cancel, ids>>
        /\ event \in Posts
    BY <1>4, HeadTailProperties DEF TypeInv, TypeOK, InsertPosted
  <2> HIDE DEF event
  <2>2. event.event \in Events /\ event.timestamp \in Nat
    BY <2>1, DelaysAssumption DEF Posts
  <2>3. ts \in Nat /\ m_currentTs <= ts
    BY <2>2 DEF TypeInv, TypeOK
  <2> HIDE DEF ts
  <2>4. ListOrdered'
    BY <2>1, <2>2, <2>3, InsertOrdered DEF TypeInv, KeyInv
  <2>5. CurrentKey' = CurrentKey /\ m_events \subseteq m_events'
    BY <2>1 DEF CurrentKey, InsertEvent
  <2>6. IdsKnown'
    BY <2>1, <2>5 DEF KeyInv, IdsKnown
  <2> QED
    BY <2>4, <2>6 DEF KeyInv
<1>5. CASE ProcessOneEvent
  <2>1. PICK next \in m_events :
          /\ IsEarliest(next, m_events)
          /\ m_events' = m_events \ {next}
          /\ m_currentTs' = next.ts
          /\ m_currentUid' = next.uid
          /\ UNCHANGED <<m_uid, m_cancel, ids>>
          /\ pc # "disposed"
    BY <1>5 DEF ProcessOneEvent
  <2>2. /\ CurrentKey'.ts = next.ts /\ CurrentKey'.uid = next.uid
        /\ CurrentKey.ts \in Int /\ CurrentKey.uid \in Int
        /\ next.ts \in Int /\ next.uid \in Int
        /\ \A ev \in m_events \cup ids : ev.ts \in Int /\ ev.uid \in Int
    BY <2>1 DEF TypeInv, TypeOK, Listed, CurrentKey
  <2>3. \A ev \in m_events' : ev \in m_events /\ KeyLess(next, ev)
    BY <2>1 DEF IsEarliest
  <2>4. \A ev \in m_events' : KeyLess(CurrentKey', ev)
    BY <2>2, <2>3 DEF KeyLess
  <2>5. ListOrdered'
    BY <2>1, <2>3, <2>4 DEF KeyInv, ListOrdered
  <2>6. ASSUME NEW id \in ids, ~KeyLess(CurrentKey, id)
        PROVE  ~KeyLess(CurrentKey', id)
    BY <2>1, <2>2, <2>6 DEF KeyInv, ListOrdered, KeyLess
  <2>7. ~KeyLess(CurrentKey', next)
    BY <2>2 DEF KeyLess
  <2>8. IdsKnown'
    BY <2>1, <2>6, <2>7 DEF KeyInv, IdsKnown
  <2> QED
    BY <2>5, <2>8 DEF KeyInv
<1>6. CASE Dispose
  BY <1>6 DEF Dispose, KeyInv, ListOrdered, IdsKnown, CurrentKey, KeyLess
<1> QED
  BY <1>1, <1>2, <1>3, <1>4, <1>5, <1>6 DEF MainStep, ProcessEventsWithContext

LEMMA KeyThread ==
  ASSUME KeyInv, NEW t \in Threads,
         \/ ThreadStep(t)
         \/ \E e \in Events, d \in Delays : PostBegins(t, e, d)
  PROVE  KeyInv'
BY KeyUnchanged
DEF ThreadStep, PostBegins, PostPush, PostRelease, mainVars, eventVars,
    timeVars, destroyVars, idVars

LEMMA KeyNext == TypeInv /\ KeyInv /\ NoWrap /\ [Next]_vars => KeyInv'
<1> SUFFICES ASSUME TypeInv, KeyInv, NoWrap, [Next]_vars PROVE KeyInv'
  OBVIOUS
<1>1. CASE Call
  BY <1>1, KeyCall
<1>2. CASE RunBegins \/ DestroyBegins \/ MainStep
  BY <1>2, KeyMain
<1>3. CASE \E t \in Threads : \/ ThreadStep(t)
                              \/ \E e \in Events, d \in Delays : PostBegins(t, e, d)
  BY <1>3, KeyThread
<1>4. CASE UNCHANGED vars
  BY <1>4, KeyUnchanged
  DEF vars, mainVars, eventVars, timeVars, destroyVars, idVars
<1> QED
  BY <1>1, <1>2, <1>3, <1>4 DEF Next, Disposed

-----------------------------------------------------------------------------
(* Keys: what follows.                                                     *)

LEMMA KeyInvariant == Spec /\ []NoWrap => []KeyInv
BY KeyInit, KeyNext, TypeInvariant, PTL DEF Spec

\* The clock changes only when the next event is taken from the list.
LEMMA ClockMoves ==
  ASSUME [Next]_vars, CurrentKey' # CurrentKey
  PROVE  ProcessOneEvent
<1>1. \/ timeVars' = timeVars
      \/ ProcessOneEvent
  BY DEF Next, Call, Schedule, ScheduleWithContext, ScheduleDestroy, Cancel,
         RemoveDestroy, RemoveListed, Stop, RunBegins, DestroyBegins, MainStep,
         ProcessEventsWithContext, ReadFlag, SwapQueues, ReleaseQueue,
         InsertPosted, AllInserted, ResetStop, HandlerReturns, RunReturns,
         DestroyNext, DestroyHandlerReturns, DisposeBegins, Dispose, PostBegins,
         ThreadStep, PostPush, PostRelease, Disposed, vars
<1> QED
  BY <1>1 DEF CurrentKey, timeVars

\* Time never goes back and no two events are executed under one key, as long
\* as the uid counter does not wrap.
THEOREM KeysIncreaseCorrect == Spec /\ []NoWrap => KeysIncrease
<1>1. TypeInv /\ KeyInv /\ [Next]_vars
      => [CurrentKey' # CurrentKey => KeyLess(CurrentKey, CurrentKey')]_vars
  <2> SUFFICES ASSUME TypeInv, KeyInv, [Next]_vars, CurrentKey' # CurrentKey
               PROVE  KeyLess(CurrentKey, CurrentKey')
    OBVIOUS
  <2>1. ProcessOneEvent
    BY ClockMoves
  <2>2. PICK next \in m_events : m_currentTs' = next.ts /\ m_currentUid' = next.uid
    BY <2>1 DEF ProcessOneEvent
  <2> QED
    BY <2>2 DEF KeyInv, ListOrdered, CurrentKey, KeyLess
<1> QED
  BY <1>1, TypeInvariant, KeyInvariant, PTL DEF Spec, KeysIncrease

\* IsExpired tells the truth about every EventId the program holds, as long as
\* the uid counter does not wrap.
THEOREM ExpiredExactCorrect == Spec /\ []NoWrap => []ExpiredExact
<1>1. TypeInv /\ KeyInv => ExpiredExact
  <2> SUFFICES ASSUME TypeInv, KeyInv, pc # "disposed", NEW id \in ids
               PROVE  ~IsExpired(id) <=>
                        /\ id \in m_events \cup ToSet(m_destroyEvents)
                        /\ id.impl \notin m_cancel
    BY DEF ExpiredExact
  <2>1. CASE id.uid = DESTROY
    <3>1. id \notin m_events
      BY <2>1 DEF KeyInv, ListOrdered, DESTROY, VALID, TypeInv, TypeOK, Listed
    <3> QED
      BY <2>1, <3>1 DEF IsExpired
  <2>2. CASE id.uid # DESTROY
    <3>1. id \notin ToSet(m_destroyEvents)
      <4>1. \A i \in DOMAIN m_destroyEvents : m_destroyEvents[i].uid = DESTROY
        <5> DEFINE Ids == [impl : Events, ts : Nat, uid : {DESTROY}]
        <5>1. m_destroyEvents \in Seq(Ids)
          BY DEF TypeInv, TypeOK
        <5> HIDE DEF Ids
        <5>2. \A i \in DOMAIN m_destroyEvents : m_destroyEvents[i] \in Ids
          BY <5>1, LenProperties, ElementOfSeq
        <5> QED
          BY <5>2 DEF Ids
      <4> QED
        BY <2>2, <4>1 DEF ToSet
    <3>2. IsExpired(id) <=> ~KeyLess(CurrentKey, id) \/ id.impl \in m_cancel
      BY <2>2 DEF IsExpired, KeyLess, CurrentKey, TypeInv, TypeOK, Listed
    <3>3. id \in m_events => KeyLess(CurrentKey, id)
      BY DEF KeyInv, ListOrdered
    <3>4. id \notin m_events => ~KeyLess(CurrentKey, id) \/ id.impl \in m_cancel
      BY <2>2 DEF KeyInv, IdsKnown
    <3> QED
      BY <3>1, <3>2, <3>3, <3>4
  <2> QED
    BY <2>1, <2>2
<1> QED
  BY <1>1, TypeInvariant, KeyInvariant, PTL

-----------------------------------------------------------------------------
(* The contract of the event list.                                         *)

\* What the abstract specification sees of an event: its key.
KeyOf(ev) == [ts |-> ev.ts, uid |-> ev.uid]
KeysOf(evs) == {KeyOf(ev) : ev \in evs}

LEMMA ContractInit == Init => EventList!Init
BY DEF Init, EventList!Init, CurrentKey, EventList!INVALID, INVALID

\* An insertion is the insertion of a new key that is not in the past.
LEMMA ContractInsert ==
  ASSUME TypeInv, KeyInv, NoWrap, NEW e \in Events, NEW ts \in Nat,
         m_currentTs <= ts, InsertEvent(e, ts), UNCHANGED timeVars
  PROVE  EventList!Next
<1>1. PICK k : k = KeyOf(NewEvent(e, ts))
  OBVIOUS
<1>2. k.uid = m_uid /\ k.ts = ts
  BY <1>1 DEF KeyOf, NewEvent
<1>3. KeysOf(m_events') = KeysOf(m_events) \cup {k}
  BY <1>1 DEF InsertEvent, KeysOf
<1>4. \A l \in KeysOf(m_events) : l.uid # m_uid
  <2>1. \A ev \in m_events : ev.uid \in Int /\ ev.uid < m_uid
    BY DEF TypeInv, TypeOK, Listed, KeyInv, ListOrdered
  <2> QED
    BY <2>1 DEF KeysOf, KeyOf, TypeInv, TypeOK
<1>5. k \notin KeysOf(m_events)
  BY <1>2, <1>4
<1>6. EventList!KeyLess(CurrentKey, k)
  BY <1>2 DEF EventList!KeyLess, CurrentKey, TypeInv, TypeOK, KeyInv, ListOrdered
<1>7. CurrentKey' = CurrentKey
  BY DEF CurrentKey, timeVars
<1>8. EventList!Insert(k)
  BY <1>2, <1>3, <1>4, <1>6, <1>7 DEF EventList!Insert, KeysOf, KeyOf
<1>9. k \in {[ts |-> ev.ts, uid |-> ev.uid] : ev \in m_events}'
            \ {[ts |-> ev.ts, uid |-> ev.uid] : ev \in m_events}
  BY <1>3, <1>5 DEF KeysOf, KeyOf
<1> QED
  BY <1>8, <1>9, Zenon DEF EventList!Next

\* The removal of a listed event is the removal of its key, since no other
\* listed event has that key.
LEMMA KeysOfRemoved ==
  ASSUME TypeInv, KeyInv, NEW ev \in m_events
  PROVE  KeysOf(m_events \ {ev}) = KeysOf(m_events) \ {KeyOf(ev)}
BY DEF KeysOf, KeyOf, KeyInv, ListOrdered

LEMMA ContractRemoveNext ==
  ASSUME TypeInv, KeyInv, ProcessOneEvent
  PROVE  EventList!Next
<1>1. PICK next \in m_events :
        /\ IsEarliest(next, m_events)
        /\ m_events' = m_events \ {next}
        /\ m_currentTs' = next.ts
        /\ m_currentUid' = next.uid
  BY DEF ProcessOneEvent
<1> DEFINE k == KeyOf(next)
<1>2. k \in {[ts |-> ev.ts, uid |-> ev.uid] : ev \in m_events}
  BY DEF KeyOf
<1>3. KeysOf(m_events') = KeysOf(m_events) \ {k}
  BY <1>1, KeysOfRemoved
<1>4. EventList!IsEarliest(k, KeysOf(m_events))
  BY <1>1 DEF EventList!IsEarliest, EventList!KeyLess, IsEarliest, KeyLess,
              KeysOf, KeyOf
<1>5. CurrentKey' = k
  BY <1>1 DEF CurrentKey, KeyOf
<1> HIDE DEF k
<1>6. EventList!RemoveNext(k)
  BY <1>3, <1>4, <1>5 DEF EventList!RemoveNext, KeysOf, KeyOf
<1> QED
  BY <1>2, <1>6, Zenon DEF EventList!Next

LEMMA ContractRemove ==
  ASSUME TypeInv, KeyInv, NEW id \in ids, RemoveListed(id)
  PROVE  EventList!Next \/ UNCHANGED EventList!vars
<1> USE DEF timeVars
<1>1. CurrentKey' = CurrentKey
  BY DEF RemoveListed, CurrentKey
<1>2. CASE UNCHANGED m_events
  BY <1>1, <1>2 DEF EventList!vars
<1>3. CASE ~IsExpired(id) /\ m_events' = m_events \ {id}
  <2>1. CASE id \notin m_events
    BY <1>1, <1>3, <2>1 DEF EventList!vars
  <2>2. CASE id \in m_events
    <3> DEFINE k == KeyOf(id)
    <3>1. k \in {[ts |-> ev.ts, uid |-> ev.uid] : ev \in m_events}
      BY <2>2 DEF KeyOf
    <3>2. KeysOf(m_events') = KeysOf(m_events) \ {k}
      BY <1>3, <2>2, KeysOfRemoved
    <3> HIDE DEF k
    <3>3. EventList!Remove(k)
      BY <1>1, <3>2 DEF EventList!Remove, KeysOf, KeyOf
    <3> QED
      BY <3>1, <3>3, Zenon DEF EventList!Next
  <2> QED
    BY <2>1, <2>2
<1> QED
  BY <1>2, <1>3 DEF RemoveListed

LEMMA ContractDispose ==
  ASSUME Dispose
  PROVE  EventList!Next
<1>1. m_events' = {} /\ CurrentKey' = CurrentKey
  BY DEF Dispose, CurrentKey, timeVars
<1>2. EventList!Clear
  BY <1>1 DEF EventList!Clear
<1> QED
  BY <1>2 DEF EventList!Next

\* The other steps leave the list and the clock alone.
LEMMA ContractStutter ==
  ASSUME UNCHANGED <<m_events, timeVars>>
  PROVE  UNCHANGED EventList!vars
BY DEF EventList!vars, CurrentKey, timeVars

LEMMA ContractCall ==
  TypeInv /\ KeyInv /\ NoWrap /\ Call => EventList!Next \/ UNCHANGED EventList!vars
<1> SUFFICES ASSUME TypeInv, KeyInv, NoWrap, Call
             PROVE  EventList!Next \/ UNCHANGED EventList!vars
  OBVIOUS
<1> USE DEF eventVars, timeVars
<1>1. ASSUME NEW e \in Events, NEW d \in Delays,
             Schedule(e, d) \/ ScheduleWithContext(e, d)
      PROVE  EventList!Next
  <2>1. m_currentTs + d \in Nat /\ m_currentTs <= m_currentTs + d
    BY DelaysAssumption DEF TypeInv, TypeOK
  <2>2. InsertEvent(e, m_currentTs + d) /\ UNCHANGED timeVars
    BY <1>1 DEF Schedule, ScheduleWithContext
  <2> QED
    BY <2>1, <2>2, ContractInsert
<1>2. ASSUME NEW id \in ids, RemoveListed(id)
      PROVE  EventList!Next \/ UNCHANGED EventList!vars
  BY <1>2, ContractRemove
<1>3. CASE \/ Stop
           \/ \E e \in Events : ScheduleDestroy(e)
           \/ \E id \in ids : Cancel(id) \/ RemoveDestroy(id)
  BY <1>3, ContractStutter DEF Stop, ScheduleDestroy, Cancel, RemoveDestroy
<1> QED
  BY <1>1, <1>2, <1>3 DEF Call

LEMMA ContractMain ==
  TypeInv /\ KeyInv /\ NoWrap /\ (RunBegins \/ DestroyBegins \/ MainStep)
  => EventList!Next \/ UNCHANGED EventList!vars
<1> SUFFICES ASSUME TypeInv, KeyInv, NoWrap, RunBegins \/ DestroyBegins \/ MainStep
             PROVE  EventList!Next \/ UNCHANGED EventList!vars
  OBVIOUS
<1> USE DEF eventVars, timeVars
<1>1. CASE \/ RunBegins \/ ResetStop \/ HandlerReturns \/ RunReturns
           \/ DestroyBegins \/ DestroyNext \/ DestroyHandlerReturns
           \/ DisposeBegins
           \/ ReadFlag \/ SwapQueues \/ ReleaseQueue \/ AllInserted
  BY <1>1, ContractStutter
  DEF RunBegins, ResetStop, HandlerReturns, RunReturns, DestroyBegins,
      DestroyNext, DestroyHandlerReturns, DisposeBegins, ReadFlag, SwapQueues,
      ReleaseQueue, AllInserted
<1>2. CASE InsertPosted
  <2> DEFINE event == Head(eventsWithContext)
             ts    == m_currentTs + event.timestamp
  <2>1. InsertEvent(event.event, ts) /\ UNCHANGED timeVars /\ event \in Posts
    BY <1>2, HeadTailProperties DEF TypeInv, TypeOK, InsertPosted
  <2> HIDE DEF event
  <2>2. event.event \in Events /\ event.timestamp \in Nat
    BY <2>1, DelaysAssumption DEF Posts
  <2>3. ts \in Nat /\ m_currentTs <= ts
    BY <2>2 DEF TypeInv, TypeOK
  <2>4. PICK e \in Events, time \in Nat : e = event.event /\ time = ts
    BY <2>2, <2>3
  <2>5. InsertEvent(e, time) /\ m_currentTs <= time
    BY <2>1, <2>3, <2>4 DEF InsertEvent, NewEvent
  <2> QED
    BY <2>1, <2>5, ContractInsert
<1>3. CASE ProcessOneEvent
  BY <1>3, ContractRemoveNext
<1>4. CASE Dispose
  BY <1>4, ContractDispose
<1> QED
  BY <1>1, <1>2, <1>3, <1>4 DEF MainStep, ProcessEventsWithContext

\* The engine uses the event list as the contract of the list asks, so that any
\* data structure that keeps the contract can stand behind it: nothing is
\* inserted in the past or under a uid that is listed, and the clock follows
\* the earliest event.
THEOREM SchedulerContractCorrect == Spec /\ []NoWrap => SchedulerContract
<1>1. TypeInv /\ KeyInv /\ NoWrap /\ [Next]_vars
      => [EventList!Next]_(EventList!vars)
  <2> SUFFICES ASSUME TypeInv, KeyInv, NoWrap, [Next]_vars
               PROVE  EventList!Next \/ UNCHANGED EventList!vars
    OBVIOUS
  <2>1. CASE Call
    BY <2>1, ContractCall
  <2>2. CASE RunBegins \/ DestroyBegins \/ MainStep
    BY <2>2, ContractMain
  <2>3. CASE \E t \in Threads : \/ ThreadStep(t)
                                \/ \E e \in Events, d \in Delays : PostBegins(t, e, d)
    BY <2>3, ContractStutter
    DEF ThreadStep, PostBegins, PostPush, PostRelease, eventVars, timeVars
  <2>4. CASE UNCHANGED vars
    BY <2>4, ContractStutter DEF vars, eventVars, timeVars
  <2> QED
    BY <2>1, <2>2, <2>3, <2>4 DEF Next, Disposed
<1> QED
  BY <1>1, ContractInit, TypeInvariant, KeyInvariant, PTL
  DEF Spec, SchedulerContract, EventList!Spec

-----------------------------------------------------------------------------
(* The queue of posted events.                                             *)

\* The strengthening of FlagHonest: who holds m_eventsWithContextMutex, and
\* what the main thread did with the shared queue while it does.
MutexInv == /\ mutex = "main" <=> pc = "swapped"
            /\ \A t \in Threads : mutex = t <=> tpc[t] = "pushed"
QueueInv == /\ MutexInv
            /\ pc = "swapped" => m_eventsWithContext = <<>>
            /\ FlagHonest

LEMMA QueueInit == Init => QueueInv
<1> SUFFICES ASSUME Init PROVE QueueInv
  OBVIOUS
<1>1. MutexInv
  BY MainAssumption DEF Init, MutexInv
<1>2. pc # "swapped" /\ FlagHonest
  BY DEF Init, FlagHonest
<1> QED
  BY <1>1, <1>2 DEF QueueInv

\* A step that leaves the queue alone and is not taken in the critical section.
LEMMA QueueUnchanged ==
  ASSUME QueueInv, UNCHANGED <<queueVars, tpc>>,
         pc' = pc \/ (pc # "swapped" /\ pc' # "swapped")
  PROVE  QueueInv'
BY Zenon DEF QueueInv, MutexInv, FlagHonest, queueVars

LEMMA QueueCall == ASSUME QueueInv, Call PROVE QueueInv'
<1>1. UNCHANGED <<queueVars, tpc, pc>>
  BY Zenon DEF Call, Schedule, ScheduleWithContext, ScheduleDestroy, Cancel,
     RemoveDestroy, RemoveListed, Stop, mainVars, threadVars
<1> QED
  BY <1>1, QueueUnchanged

LEMMA QueueMain ==
  ASSUME TypeInv, QueueInv, RunBegins \/ DestroyBegins \/ MainStep
  PROVE  QueueInv'
<1> USE DEF QueueInv, MutexInv
<1>1. CASE SwapQueues
  <2>1. /\ mutex = "free" /\ mutex' = "main" /\ pc' = "swapped"
        /\ m_eventsWithContext' = <<>> /\ UNCHANGED tpc
    BY <1>1 DEF SwapQueues, threadVars
  <2>2. MutexInv'
    BY <2>1, MainAssumption
  <2> QED
    BY <2>1, <2>2 DEF FlagHonest
<1>2. CASE ReleaseQueue
  <2>1. /\ pc = "swapped" /\ pc' = "insert" /\ mutex' = "free"
        /\ m_eventsWithContext' = m_eventsWithContext /\ UNCHANGED tpc
    BY <1>2 DEF ReleaseQueue, threadVars
  <2>2. MutexInv'
    BY <2>1, MainAssumption
  <2> QED
    BY <2>1, <2>2 DEF FlagHonest
<1>3. CASE InsertPosted \/ AllInserted
  <2>1. /\ UNCHANGED <<mutex, m_eventsWithContext, m_eventsWithContextEmpty,
                       tpc>>
        /\ pc = "insert" /\ (AllInserted => pc' = after)
        /\ (InsertPosted => pc' = pc)
    BY <1>3, Zenon DEF InsertPosted, AllInserted, mainVars, queueVars,
       threadVars
  <2>2. pc' # "swapped"
    BY <1>3, <2>1 DEF TypeInv, TypeOK
  <2> QED
    BY <2>1, <2>2, Zenon DEF FlagHonest
<1>4. ASSUME \/ RunBegins \/ DestroyBegins \/ ReadFlag \/ ResetStop
             \/ ProcessOneEvent \/ HandlerReturns \/ RunReturns \/ DestroyNext
             \/ DestroyHandlerReturns \/ DisposeBegins \/ Dispose
      PROVE  QueueInv'
  <2>1. UNCHANGED <<queueVars, tpc>>
    BY <1>4, Zenon DEF RunBegins, DestroyBegins, ReadFlag, ResetStop,
       ProcessOneEvent, HandlerReturns, RunReturns, DestroyNext,
       DestroyHandlerReturns, DisposeBegins, Dispose, threadVars
  <2>2. CASE ReadFlag
    <3>1. pc = "poll" /\ pc' \in {after, "lock"}
      BY <2>2 DEF ReadFlag
    <3>2. after # "swapped"
      BY DEF TypeInv, TypeOK
    <3> QED
      BY <2>1, <3>1, <3>2, QueueUnchanged
  <2>3. CASE ~ReadFlag
    <3>1. pc' = pc \/ (pc # "swapped" /\ pc' # "swapped")
      BY <1>4, <2>3 DEF RunBegins, DestroyBegins, ResetStop,
         ProcessOneEvent, HandlerReturns, RunReturns, DestroyNext,
         DestroyHandlerReturns, DisposeBegins, Dispose
    <3> QED
      BY <2>1, <3>1, QueueUnchanged
  <2> QED
    BY <2>2, <2>3
<1> QED
  BY <1>1, <1>2, <1>3, <1>4 DEF MainStep, ProcessEventsWithContext

LEMMA QueueThread ==
  ASSUME TypeInv, QueueInv, NEW t \in Threads,
         \/ ThreadStep(t)
         \/ \E e \in Events, d \in Delays : PostBegins(t, e, d)
  PROVE  QueueInv'
<1> USE DEF QueueInv, MutexInv
<1>1. tpc \in [Threads -> {"idle", "lock", "pushed"}] /\ t \notin {"free", "main"}
  BY MainAssumption DEF TypeInv, TypeOK
<1>2. CASE \E e \in Events, d \in Delays : PostBegins(t, e, d)
  <2>1. /\ tpc[t] = "idle" /\ tpc' = [tpc EXCEPT ![t] = "lock"]
        /\ UNCHANGED <<pc, queueVars>>
    BY <1>2 DEF PostBegins, mainVars
  <2>2. \A u \in Threads : tpc'[u] = "pushed" <=> tpc[u] = "pushed"
    BY <1>1, <2>1
  <2>3. UNCHANGED <<mutex, m_eventsWithContext, m_eventsWithContextEmpty>>
    BY <2>1, Zenon DEF queueVars
  <2> QED
    BY <2>1, <2>2, <2>3, Zenon DEF FlagHonest
<1>3. CASE PostPush(t)
  <2>1. /\ mutex = "free" /\ mutex' = t /\ UNCHANGED pc
        /\ tpc' = [tpc EXCEPT ![t] = "pushed"]
    BY <1>3 DEF PostPush, mainVars
  <2>2. MutexInv'
    BY <1>1, <2>1, MainAssumption
  <2> QED
    BY <1>1, <2>1, <2>2, MainAssumption DEF FlagHonest
<1>4. CASE PostRelease(t)
  <2>1. /\ mutex' = "free" /\ UNCHANGED <<pc, m_eventsWithContext>>
        /\ tpc[t] = "pushed" /\ tpc' = [tpc EXCEPT ![t] = "idle"]
    BY <1>4 DEF PostRelease, mainVars
  <2>2. m_eventsWithContextEmpty' = FALSE
    BY <1>4, Zenon DEF PostRelease
  <2>3. mutex = t
    BY <2>1
  <2>4. MutexInv'
    BY <1>1, <2>1, <2>3, MainAssumption
  <2>5. FlagHonest'
    BY <2>2, Zenon DEF FlagHonest
  <2> QED
    BY <2>1, <2>4, <2>5
<1> QED
  BY <1>2, <1>3, <1>4 DEF ThreadStep

\* The flag that the main thread reads without the mutex says "empty" only of
\* an empty queue, unless a thread is at work on the queue.
THEOREM FlagHonestCorrect == Spec => []FlagHonest
<1>1. ASSUME TypeInv, QueueInv, [Next]_vars PROVE QueueInv'
  <2>1. CASE UNCHANGED vars
    <3>1. UNCHANGED <<queueVars, tpc>> /\ pc' = pc
      BY <2>1, Zenon DEF vars, mainVars, threadVars
    <3> QED
      BY <1>1, <3>1, QueueUnchanged
  <2> QED
    BY <1>1, <2>1, QueueCall, QueueMain, QueueThread DEF Next, Disposed
<1>2. QueueInv => FlagHonest
  BY DEF QueueInv
<1> QED
  BY <1>1, <1>2, QueueInit, TypeInvariant, PTL DEF Spec

-----------------------------------------------------------------------------
(* Counting the positions of a sequence that hold a member of a set.       *)

Count(S, s) == Cardinality({i \in DOMAIN s : s[i] \in S})

LEMMA CountIsNat ==
  ASSUME NEW T, NEW s \in Seq(T), NEW S
  PROVE  IsFiniteSet({i \in DOMAIN s : s[i] \in S}) /\ Count(S, s) \in Nat
<1>1. DOMAIN s = 1 .. Len(s) /\ Len(s) \in Nat
  BY LenProperties
<1>2. IsFiniteSet(1 .. Len(s))
  BY <1>1, FS_Interval
<1>3. IsFiniteSet({i \in DOMAIN s : s[i] \in S})
  BY <1>1, <1>2, FS_Subset
<1> QED
  BY <1>3, FS_CardinalityType DEF Count

LEMMA CountEmpty == ASSUME NEW S PROVE Count(S, <<>>) = 0
<1>1. {i \in DOMAIN <<>> : <<>>[i] \in S} = {}
  OBVIOUS
<1> QED
  BY <1>1, FS_EmptySet DEF Count

\* A position that holds a member counts.
LEMMA CountPositive ==
  ASSUME NEW T, NEW s \in Seq(T), NEW S, NEW i \in DOMAIN s, s[i] \in S
  PROVE  Count(S, s) > 0
<1> DEFINE P == {k \in DOMAIN s : s[k] \in S}
<1>1. IsFiniteSet(P) /\ i \in P /\ Count(S, s) \in Nat
  BY CountIsNat
<1>2. Cardinality(P) # 0
  BY <1>1, FS_EmptySet
<1> QED
  BY <1>1, <1>2 DEF Count

LEMMA CountAppend ==
  ASSUME NEW T, NEW s \in Seq(T), NEW x \in T, NEW S
  PROVE  Count(S, Append(s, x)) = Count(S, s) + IF x \in S THEN 1 ELSE 0
<1> DEFINE t == Append(s, x)
           n == Len(s) + 1
           P == {i \in DOMAIN s : s[i] \in S}
           Q == {i \in DOMAIN t : t[i] \in S}
<1>1. /\ Len(s) \in Nat /\ DOMAIN s = 1 .. Len(s) /\ DOMAIN t = 1 .. n
      /\ \A i \in 1 .. Len(s) : t[i] = s[i]
      /\ t[n] = x
  BY AppendProperties, LenProperties
<1>2. IsFiniteSet(P) /\ Count(S, s) \in Nat
  BY CountIsNat
<1>3. n \notin P
  BY <1>1
<1>4. Count(S, s) = Cardinality(P) /\ Count(S, t) = Cardinality(Q)
  BY DEF Count
<1>5. Cardinality(P \cup {n}) = Cardinality(P) + 1
  BY <1>2, <1>3, FS_AddElement
<1>6. Q = IF x \in S THEN P \cup {n} ELSE P
  <2> HIDE DEF t
  <2> QED
    BY <1>1
<1> HIDE DEF t, P, Q, n
<1>7. Count(S, t) = Count(S, s) + IF x \in S THEN 1 ELSE 0
  BY <1>2, <1>4, <1>5, <1>6
<1> QED
  BY <1>7 DEF t

\* Leaving out position i takes away what it counted for.
LEMMA CountWithout ==
  ASSUME NEW T, NEW s \in Seq(T), NEW t \in Seq(T), NEW S,
         NEW i \in 1 .. Len(s), Len(t) = Len(s) - 1,
         \A j \in 1 .. Len(t) : t[j] = IF j < i THEN s[j] ELSE s[j + 1]
  PROVE  Count(S, s) = Count(S, t) + IF s[i] \in S THEN 1 ELSE 0
<1> DEFINE P == {j \in DOMAIN s : s[j] \in S}
           Q == {j \in DOMAIN t : t[j] \in S}
           f == [j \in Q |-> IF j < i THEN j ELSE j + 1]
<1>1. /\ Len(s) \in Nat /\ DOMAIN s = 1 .. Len(s)
      /\ Len(t) \in Nat /\ DOMAIN t = 1 .. Len(t)
  BY LenProperties
<1>2. /\ IsFiniteSet(P) /\ IsFiniteSet(Q)
      /\ Cardinality(P) \in Nat /\ Cardinality(Q) \in Nat
  BY CountIsNat, FS_CardinalityType
<1>3. f \in Bijection(Q, P \ {i})
  <2>1. f \in [Q -> P \ {i}]
    <3> SUFFICES ASSUME NEW j \in Q PROVE (IF j < i THEN j ELSE j + 1) \in P \ {i}
      OBVIOUS
    <3>1. j \in 1 .. Len(t) /\ t[j] \in S
      BY <1>1
    <3> QED
      BY <1>1, <3>1
  <2>2. \A j, k \in Q : f[j] = f[k] => j = k
    BY <1>1
  <2>3. \A k \in P \ {i} : \E j \in Q : f[j] = k
    <3> SUFFICES ASSUME NEW k \in P \ {i} PROVE \E j \in Q : f[j] = k
      OBVIOUS
    <3>1. CASE k < i
      <4>1. k \in Q /\ f[k] = k
        BY <1>1, <3>1
      <4> QED
        BY <4>1
    <3>2. CASE ~(k < i)
      <4>1. k - 1 \in 1 .. Len(t) /\ ~(k - 1 < i) /\ k - 1 + 1 = k
        BY <1>1, <3>2
      <4>2. t[k - 1] = s[k - 1 + 1]
        BY <4>1
      <4>3. k - 1 \in Q /\ f[k - 1] = k
        BY <1>1, <4>1, <4>2
      <4> QED
        BY <4>3
    <3> QED
      BY <3>1, <3>2
  <2> HIDE DEF f, P, Q
  <2> QED
    BY <2>1, <2>2, <2>3 DEF Bijection, Injection, Surjection, IsInjective
<1>4. Cardinality(P \ {i}) = Cardinality(Q)
  BY <1>2, <1>3, FS_Bijection DEF ExistsBijection
<1>5. Cardinality(P \ {i}) = IF i \in P THEN Cardinality(P) - 1 ELSE Cardinality(P)
  BY <1>2, FS_RemoveElement
<1>6. i \in P <=> s[i] \in S
  BY <1>1
<1> HIDE DEF P, Q
<1>7. Cardinality(P) = Cardinality(Q) + IF s[i] \in S THEN 1 ELSE 0
  BY <1>2, <1>4, <1>5, <1>6
<1> QED
  BY <1>7 DEF Count, P, Q

LEMMA CountTail ==
  ASSUME NEW T, NEW s \in Seq(T), s # <<>>, NEW S
  PROVE  Count(S, s) = Count(S, Tail(s)) + IF Head(s) \in S THEN 1 ELSE 0
<1>1. /\ Tail(s) \in Seq(T) /\ Len(Tail(s)) = Len(s) - 1
      /\ \A j \in 1 .. Len(Tail(s)) : Tail(s)[j] = s[j + 1]
  BY HeadTailProperties
<1>2. 1 \in 1 .. Len(s) /\ Head(s) = s[1]
  BY LenProperties, EmptySeq
<1>3. PICK i \in 1 .. Len(s) : i = 1
  BY <1>2
<1>4. PICK t \in Seq(T) : t = Tail(s)
  BY <1>1
<1>5. Len(t) = Len(s) - 1 /\ \A j \in 1 .. Len(t) : t[j] = s[j + 1]
  BY <1>1, <1>4
<1>6. \A j \in 1 .. Len(t) : t[j] = IF j < i THEN s[j] ELSE s[j + 1]
  BY <1>3, <1>5
<1>7. Count(S, s) = Count(S, t) + IF s[i] \in S THEN 1 ELSE 0
  BY <1>5, <1>6, CountWithout
<1> QED
  BY <1>2, <1>3, <1>4, <1>7

LEMMA CountRemoveAt ==
  ASSUME NEW T, NEW s \in Seq(T), NEW i \in 1 .. Len(s), NEW S
  PROVE  Count(S, s) = Count(S, RemoveAt(s, i)) + IF s[i] \in S THEN 1 ELSE 0
BY RemoveAtProperties, CountWithout

-----------------------------------------------------------------------------
(* Where an event waits.                                                   *)

DestroyIds == [impl : Events, ts : Nat, uid : {DESTROY}]
PostsOf(e) == {p \in Posts : p.event = e}
IdsOf(e)   == {id \in DestroyIds : id.impl = e}

\* How often e is in each of the five places.
PostedBy(e)  == {t \in Threads : posting[t].event = e}
InThreads(e) == Cardinality(PostedBy(e))
InShared(e)  == Count(PostsOf(e), m_eventsWithContext)
InSwapped(e) == Count(PostsOf(e), eventsWithContext)
InList(e)    == Cardinality({ev \in m_events : ev.impl = e})
InDestroy(e) == Count(IdsOf(e), m_destroyEvents)
At(e) == <<InThreads(e), InShared(e), InSwapped(e), InList(e), InDestroy(e)>>
Nowhere == <<0, 0, 0, 0, 0>>
Once == {<<1, 0, 0, 0, 0>>, <<0, 1, 0, 0, 0>>, <<0, 0, 1, 0, 0>>,
         <<0, 0, 0, 1, 0>>, <<0, 0, 0, 0, 1>>}

placeVars == <<posting, m_eventsWithContext, eventsWithContext, m_events,
               m_destroyEvents, fate>>

\* The strengthening of NoEventLost: what is counted is finite, a thread holds
\* an event only between its beginning and its push, and the swapped queue is
\* empty whenever the main thread swaps.
Finite == /\ IsFiniteSet(m_events)
          /\ \A e \in Events : IsFiniteSet(PostedBy(e))
Handed == /\ \A t \in Threads : tpc[t] # "lock" => posting[t] = NoPost
          /\ eventsWithContext # <<>> => pc \in {"swapped", "insert"}
Placed == \A e \in Events : IF fate[e] = "pending" THEN At(e) \in Once
                                                 ELSE At(e) = Nowhere
PlaceInv == Finite /\ Handed /\ Placed

\* In is counting in disguise.
LEMMA InIsCount ==
  ASSUME NEW q \in Seq(Posts), NEW e
  PROVE  In(e, q) = Count(PostsOf(e), q)
<1>1. \A i \in DOMAIN q : q[i] \in Posts
  BY LenProperties
<1>2. {i \in DOMAIN q : q[i].event = e} = {i \in DOMAIN q : q[i] \in PostsOf(e)}
  BY <1>1 DEF PostsOf
<1> QED
  BY <1>2 DEF In, Count

\* NoEventLost is what Placed says in sums.
LEMMA PlacedOnce == TypeOK /\ Placed => NoEventLost
<1> SUFFICES ASSUME TypeOK, Placed, NEW e \in Events
             PROVE  Waiting(e) = IF fate[e] = "pending" THEN 1 ELSE 0
  BY DEF NoEventLost
<1>1. m_destroyEvents \in Seq(DestroyIds)
  BY DEF TypeOK, DestroyIds
<1>2. \A i \in DOMAIN m_destroyEvents : m_destroyEvents[i] \in DestroyIds
  BY <1>1, LenProperties
<1>3. {i \in DOMAIN m_destroyEvents : m_destroyEvents[i].impl = e}
        = {i \in DOMAIN m_destroyEvents : m_destroyEvents[i] \in IdsOf(e)}
  BY <1>2 DEF IdsOf
<1>4. Cardinality({i \in DOMAIN m_destroyEvents : m_destroyEvents[i].impl = e})
        = InDestroy(e)
  BY <1>3 DEF InDestroy, Count
<1>5. /\ In(e, m_eventsWithContext) = InShared(e)
      /\ In(e, eventsWithContext) = InSwapped(e)
  BY InIsCount DEF TypeOK, InShared, InSwapped
<1>6. Waiting(e) = InThreads(e) + InShared(e) + InSwapped(e) + InList(e)
                     + InDestroy(e)
  BY <1>4, <1>5 DEF Waiting, InThreads, PostedBy, InList
<1>7. IF fate[e] = "pending" THEN At(e) \in Once ELSE At(e) = Nowhere
  BY DEF Placed
<1> QED
  BY <1>6, <1>7 DEF At, Once, Nowhere

\* What is listed counts, and so do insertion and removal.
LEMMA ListPositive ==
  ASSUME Finite, NEW ev \in m_events
  PROVE  InList(ev.impl) # 0
<1> DEFINE S == {x \in m_events : x.impl = ev.impl}
<1>1. IsFiniteSet(S) /\ ev \in S
  BY FS_Subset DEF Finite
<1> QED
  BY <1>1, FS_EmptySet DEF InList

LEMMA ListAdd ==
  ASSUME Finite, NEW ev, ev \notin m_events, m_events' = m_events \cup {ev},
         NEW e
  PROVE  InList(e)' = IF ev.impl = e THEN InList(e) + 1 ELSE InList(e)
<1> DEFINE S == {x \in m_events : x.impl = e}
<1>1. IsFiniteSet(S) /\ ev \notin S
  BY FS_Subset DEF Finite
<1>2. Cardinality(S \cup {ev}) = Cardinality(S) + 1
  BY <1>1, FS_AddElement
<1>3. {x \in m_events' : x.impl = e} = IF ev.impl = e THEN S \cup {ev} ELSE S
  OBVIOUS
<1> QED
  BY <1>2, <1>3 DEF InList

LEMMA ListRemove ==
  ASSUME Finite, NEW ev \in m_events, m_events' = m_events \ {ev}, NEW e
  PROVE  InList(e)' = IF ev.impl = e THEN InList(e) - 1 ELSE InList(e)
<1> DEFINE S == {x \in m_events : x.impl = e}
<1>1. IsFiniteSet(S)
  BY FS_Subset DEF Finite
<1>2. ev.impl = e => Cardinality(S \ {ev}) = Cardinality(S) - 1
  BY <1>1, FS_RemoveElement
<1>3. {x \in m_events' : x.impl = e} = IF ev.impl = e THEN S \ {ev} ELSE S
  OBVIOUS
<1> QED
  BY <1>2, <1>3 DEF InList

\* So do the two queues of posts ...
LEMMA PostCount ==
  ASSUME NEW q \in Seq(Posts), NEW p \in Posts, NEW e
  PROVE  Count(PostsOf(e), Append(q, p))
           = Count(PostsOf(e), q) + IF p.event = e THEN 1 ELSE 0
<1>1. p \in PostsOf(e) <=> p.event = e
  BY DEF PostsOf
<1> QED
  BY <1>1, CountAppend

LEMMA PostUncount ==
  ASSUME NEW q \in Seq(Posts), q # <<>>, NEW e
  PROVE  Count(PostsOf(e), q)
           = Count(PostsOf(e), Tail(q)) + IF Head(q).event = e THEN 1 ELSE 0
<1>1. Head(q) \in PostsOf(e) <=> Head(q).event = e
  BY HeadTailProperties DEF PostsOf
<1> QED
  BY <1>1, CountTail

\* ... and the queue of destroy events.
LEMMA DestroyCount ==
  ASSUME NEW q \in Seq(DestroyIds), NEW id \in DestroyIds, NEW e
  PROVE  Count(IdsOf(e), Append(q, id))
           = Count(IdsOf(e), q) + IF id.impl = e THEN 1 ELSE 0
<1>1. id \in IdsOf(e) <=> id.impl = e
  BY DEF IdsOf
<1> QED
  BY <1>1, CountAppend

LEMMA DestroyUncount ==
  ASSUME NEW q \in Seq(DestroyIds), q # <<>>, NEW e
  PROVE  Count(IdsOf(e), q)
           = Count(IdsOf(e), Tail(q)) + IF Head(q).impl = e THEN 1 ELSE 0
<1>1. Head(q) \in IdsOf(e) <=> Head(q).impl = e
  BY HeadTailProperties DEF IdsOf
<1> QED
  BY <1>1, CountTail

LEMMA DestroyUncountAt ==
  ASSUME NEW q \in Seq(DestroyIds), NEW i \in 1 .. Len(q), NEW e
  PROVE  Count(IdsOf(e), q)
           = Count(IdsOf(e), RemoveAt(q, i)) + IF q[i].impl = e THEN 1 ELSE 0
<1>1. q[i] \in IdsOf(e) <=> q[i].impl = e
  BY ElementOfSeq DEF IdsOf
<1> QED
  BY <1>1, CountRemoveAt

-----------------------------------------------------------------------------
(* Where an event waits: every step keeps it in one place.                 *)

LEMMA PlaceInit == Init => PlaceInv
<1> SUFFICES ASSUME Init PROVE PlaceInv
  OBVIOUS
<1>1. \A e \in Events : PostedBy(e) = {}
  BY EventsAssumption DEF Init, PostedBy, NoPost
<1>2. Finite
  BY <1>1, FS_EmptySet DEF Init, Finite
<1>3. Handed
  BY DEF Init, Handed
<1>4. ASSUME NEW e \in Events PROVE At(e) = Nowhere /\ fate[e] # "pending"
  <2>1. InShared(e) = 0 /\ InSwapped(e) = 0 /\ InDestroy(e) = 0
    BY CountEmpty DEF Init, InShared, InSwapped, InDestroy
  <2>2. {ev \in m_events : ev.impl = e} = {}
    BY DEF Init
  <2>3. InThreads(e) = 0 /\ InList(e) = 0
    BY <1>1, <2>2, FS_EmptySet DEF InThreads, InList
  <2> QED
    BY <2>1, <2>3 DEF At, Nowhere, Init
<1> QED
  BY <1>2, <1>3, <1>4 DEF PlaceInv, Placed

\* A step that leaves all places alone.
LEMMA PlaceUnchanged ==
  ASSUME PlaceInv, UNCHANGED <<placeVars, tpc>>,
         pc \in {"swapped", "insert"} => \/ pc' \in {"swapped", "insert"}
                                         \/ eventsWithContext = <<>>
  PROVE  PlaceInv'
<1>1. /\ UNCHANGED <<posting, m_eventsWithContext, eventsWithContext, m_events,
                     m_destroyEvents, fate, tpc>>
  BY DEF placeVars
<1>2. Finite'
  BY <1>1 DEF PlaceInv, Finite, PostedBy
<1>3. Handed'
  BY <1>1 DEF PlaceInv, Handed
<1>4. \A e \in Events : At(e)' = At(e)
  BY <1>1 DEF At, InThreads, PostedBy, InShared, InSwapped, InList, InDestroy
<1> QED
  BY <1>1, <1>2, <1>3, <1>4 DEF PlaceInv, Placed

\* The places other than the list, and those other than the destroy queue.
LEMMA OnlyList ==
  ASSUME UNCHANGED <<posting, m_eventsWithContext, eventsWithContext,
                     m_destroyEvents>>, NEW e
  PROVE  /\ InThreads(e)' = InThreads(e) /\ InShared(e)' = InShared(e)
         /\ InSwapped(e)' = InSwapped(e) /\ InDestroy(e)' = InDestroy(e)
BY DEF InThreads, PostedBy, InShared, InSwapped, InDestroy

LEMMA OnlyDestroy ==
  ASSUME UNCHANGED <<posting, m_eventsWithContext, eventsWithContext, m_events>>,
         NEW e
  PROVE  /\ InThreads(e)' = InThreads(e) /\ InShared(e)' = InShared(e)
         /\ InSwapped(e)' = InSwapped(e) /\ InList(e)' = InList(e)
BY DEF InThreads, PostedBy, InShared, InSwapped, InList

\* A new event was nowhere.
LEMMA Created ==
  ASSUME TypeOK, Placed, NEW e \in Events, Create(e)
  PROVE  /\ At(e) = Nowhere /\ fate'[e] = "pending"
         /\ \A f \in Events : f # e => fate'[f] = fate[f]
BY DEF Create, Placed, TypeOK

\* It is listed ...
LEMMA PlaceScheduled ==
  ASSUME TypeOK, PlaceInv, NEW e \in Events, NEW ts, Create(e), InsertEvent(e, ts),
         UNCHANGED <<pc, queueVars, threadVars, m_destroyEvents>>
  PROVE  PlaceInv'
<1> DEFINE ev == NewEvent(e, ts)
<1>1. UNCHANGED <<posting, m_eventsWithContext, eventsWithContext,
                  m_destroyEvents, tpc>>
  BY DEF queueVars, threadVars
<1>2. Finite /\ Placed
  BY DEF PlaceInv
<1>3. /\ At(e) = Nowhere /\ fate'[e] = "pending"
      /\ \A f \in Events : f # e => fate'[f] = fate[f]
  BY <1>2, Created
<1>4. ev.impl = e
  BY DEF NewEvent
<1>5. ev \notin m_events
  BY <1>2, <1>3, <1>4, ListPositive DEF At, Nowhere
<1>6. m_events' = m_events \cup {ev}
  BY DEF InsertEvent
<1> HIDE DEF ev
<1>7. Finite'
  BY <1>1, <1>2, <1>6, FS_AddElement DEF Finite, PostedBy
<1>8. Handed'
  BY <1>1 DEF PlaceInv, Handed
<1>9. ASSUME NEW f \in Events
      PROVE  IF fate'[f] = "pending" THEN At(f)' \in Once ELSE At(f)' = Nowhere
  <2>1. InList(f)' = IF e = f THEN InList(f) + 1 ELSE InList(f)
    BY <1>2, <1>4, <1>5, <1>6, ListAdd
  <2>2. /\ InThreads(f)' = InThreads(f) /\ InShared(f)' = InShared(f)
        /\ InSwapped(f)' = InSwapped(f) /\ InDestroy(f)' = InDestroy(f)
    BY <1>1, OnlyList
  <2>3. CASE f = e
    BY <1>3, <2>1, <2>2, <2>3 DEF At, Nowhere, Once
  <2>4. CASE f # e
    BY <1>2, <1>3, <2>1, <2>2, <2>4 DEF At, Placed
  <2> QED
    BY <2>3, <2>4
<1> QED
  BY <1>7, <1>8, <1>9 DEF PlaceInv, Placed

\* ... or queued for Destroy.
LEMMA PlaceDestroy ==
  ASSUME TypeOK, PlaceInv, NEW id \in DestroyIds, Create(id.impl),
         m_destroyEvents' = Append(m_destroyEvents, id),
         UNCHANGED <<pc, m_events, queueVars, threadVars>>
  PROVE  PlaceInv'
<1> DEFINE e == id.impl
<1>1. UNCHANGED <<posting, m_eventsWithContext, eventsWithContext, m_events, tpc>>
  BY DEF queueVars, threadVars
<1>2. Finite /\ Placed /\ e \in Events /\ m_destroyEvents \in Seq(DestroyIds)
  BY DEF PlaceInv, DestroyIds, TypeOK
<1>3. /\ At(e) = Nowhere /\ fate'[e] = "pending"
      /\ \A f \in Events : f # e => fate'[f] = fate[f]
  BY <1>2, Created
<1>4. Finite'
  BY <1>1, <1>2 DEF Finite, PostedBy
<1>5. Handed'
  BY <1>1 DEF PlaceInv, Handed
<1>6. ASSUME NEW f \in Events
      PROVE  IF fate'[f] = "pending" THEN At(f)' \in Once ELSE At(f)' = Nowhere
  <2>1. InDestroy(f)' = InDestroy(f) + IF e = f THEN 1 ELSE 0
    BY <1>2, DestroyCount DEF InDestroy
  <2>2. /\ InThreads(f)' = InThreads(f) /\ InShared(f)' = InShared(f)
        /\ InSwapped(f)' = InSwapped(f) /\ InList(f)' = InList(f)
    BY <1>1, OnlyDestroy
  <2>3. InDestroy(f) \in Nat
    BY <1>2, CountIsNat DEF InDestroy
  <2> HIDE DEF e
  <2>4. CASE f = e
    BY <1>3, <2>1, <2>2, <2>4 DEF At, Nowhere, Once
  <2>5. CASE f # e
    <3>1. InDestroy(f)' = InDestroy(f)
      BY <2>1, <2>3, <2>5
    <3> QED
      BY <1>2, <1>3, <2>2, <2>5, <3>1 DEF At, Placed
  <2> QED
    BY <2>4, <2>5
<1> QED
  BY <1>4, <1>5, <1>6 DEF PlaceInv, Placed

\* A listed event leaves the list, and its story ends.
LEMMA PlaceUnlisted ==
  ASSUME TypeOK, PlaceInv, NEW ev \in m_events, m_events' = m_events \ {ev},
         NEW end \in Fates \ {"pending"}, fate' = [fate EXCEPT ![ev.impl] = end],
         UNCHANGED <<queueVars, threadVars, m_destroyEvents>>,
         pc \notin {"swapped", "insert"}
  PROVE  PlaceInv'
<1> DEFINE e == ev.impl
<1>1. UNCHANGED <<posting, m_eventsWithContext, eventsWithContext,
                  m_destroyEvents, tpc>>
  BY DEF queueVars, threadVars
<1>2. Finite /\ Placed
  BY DEF PlaceInv
<1>3. e \in Events
  BY DEF TypeOK, Listed
<1>4. \A f : InList(f)' = IF e = f THEN InList(f) - 1 ELSE InList(f)
  BY <1>2, ListRemove
<1>5. InList(e) # 0
  BY <1>2, ListPositive
<1>6. fate' = [fate EXCEPT ![e] = end]
  OBVIOUS
<1> HIDE DEF e
<1>7. /\ fate'[e] # "pending"
      /\ \A f \in Events : f # e => fate'[f] = fate[f]
  BY <1>3, <1>6 DEF TypeOK
<1>8. Finite'
  BY <1>1, <1>2, FS_RemoveElement DEF Finite, PostedBy
<1>9. Handed'
  BY <1>1 DEF PlaceInv, Handed
<1>10. ASSUME NEW f \in Events
       PROVE  IF fate'[f] = "pending" THEN At(f)' \in Once ELSE At(f)' = Nowhere
  <2>1. /\ InThreads(f)' = InThreads(f) /\ InShared(f)' = InShared(f)
        /\ InSwapped(f)' = InSwapped(f) /\ InDestroy(f)' = InDestroy(f)
    BY <1>1, OnlyList
  <2>2. CASE f = e
    <3>1. /\ InThreads(e) = 0 /\ InShared(e) = 0 /\ InSwapped(e) = 0
          /\ InList(e) = 1 /\ InDestroy(e) = 0
      BY <1>2, <1>3, <1>5 DEF Placed, At, Nowhere, Once
    <3> QED
      BY <1>4, <1>7, <2>1, <2>2, <3>1 DEF At, Nowhere
  <2>3. CASE f # e
    BY <1>2, <1>4, <1>7, <2>1, <2>3 DEF At, Placed
  <2> QED
    BY <2>2, <2>3
<1> QED
  BY <1>8, <1>9, <1>10 DEF PlaceInv, Placed

\* A destroy event leaves its queue.
LEMMA PlaceUndestroyed ==
  ASSUME TypeOK, PlaceInv, NEW i \in 1 .. Len(m_destroyEvents),
         \A f : Count(IdsOf(f), m_destroyEvents)
                  = Count(IdsOf(f), m_destroyEvents')
                      + IF m_destroyEvents[i].impl = f THEN 1 ELSE 0,
         m_destroyEvents' \in Seq(DestroyIds),
         NEW end \in Fates \ {"pending"},
         fate' = [fate EXCEPT ![m_destroyEvents[i].impl] = end],
         UNCHANGED <<m_events, queueVars, threadVars>>,
         pc \notin {"swapped", "insert"}
  PROVE  PlaceInv'
<1> DEFINE e == m_destroyEvents[i].impl
<1>1. UNCHANGED <<posting, m_eventsWithContext, eventsWithContext, m_events, tpc>>
  BY DEF queueVars, threadVars
<1>2. Finite /\ Placed
  BY DEF PlaceInv
<1>3. e \in Events
  <2>1. m_destroyEvents \in Seq(DestroyIds)
    BY DEF TypeOK, DestroyIds
  <2>2. m_destroyEvents[i] \in DestroyIds
    BY <2>1, ElementOfSeq
  <2> QED
    BY <2>2 DEF DestroyIds
<1>4. fate' = [fate EXCEPT ![e] = end]
  OBVIOUS
<1>5. \A f : InDestroy(f) = InDestroy(f)' + IF e = f THEN 1 ELSE 0
  BY DEF InDestroy
<1> HIDE DEF e
<1>6. fate'[e] # "pending" /\ \A f \in Events : f # e => fate'[f] = fate[f]
  BY <1>3, <1>4 DEF TypeOK
<1>7. Finite'
  BY <1>1, <1>2 DEF Finite, PostedBy
<1>8. Handed'
  BY <1>1 DEF PlaceInv, Handed
<1>9. ASSUME NEW f \in Events
      PROVE  IF fate'[f] = "pending" THEN At(f)' \in Once ELSE At(f)' = Nowhere
  <2>1. PICK n \in Nat : n = InDestroy(f)'
    BY CountIsNat DEF InDestroy
  <2>2. /\ InThreads(f)' = InThreads(f) /\ InShared(f)' = InShared(f)
        /\ InSwapped(f)' = InSwapped(f) /\ InList(f)' = InList(f)
    BY <1>1, OnlyDestroy
  <2>3. CASE f = e
    <3>1. InDestroy(f) = n + 1 /\ n + 1 # 0
      BY <1>5, <2>1, <2>3
    <3>2. /\ InThreads(f) = 0 /\ InShared(f) = 0 /\ InSwapped(f) = 0
          /\ InList(f) = 0 /\ InDestroy(f) = 1
      BY <1>2, <3>1 DEF Placed, At, Nowhere, Once
    <3>3. n = 0
      BY <3>1, <3>2
    <3> QED
      BY <1>6, <2>1, <2>2, <2>3, <3>2, <3>3 DEF At, Nowhere
  <2>4. CASE f # e
    <3>1. InDestroy(f)' = InDestroy(f)
      BY <1>5, <2>1, <2>4
    <3> QED
      BY <1>2, <1>6, <2>2, <2>4, <3>1 DEF At, Placed
  <2> QED
    BY <2>3, <2>4
<1> QED
  BY <1>7, <1>8, <1>9 DEF PlaceInv, Placed

\* DoDispose empties the list.
LEMMA PlaceDispose == ASSUME TypeOK, PlaceInv, Dispose PROVE PlaceInv'
<1>1. /\ UNCHANGED <<posting, m_eventsWithContext, eventsWithContext,
                     m_destroyEvents, tpc>>
      /\ m_events' = {} /\ pc = "dispose"
      /\ fate' = [e \in Events |-> IF \E ev \in m_events : ev.impl = e
                                   THEN "discarded" ELSE fate[e]]
  BY DEF Dispose, queueVars, threadVars, destroyVars
<1>2. Finite /\ Placed
  BY DEF PlaceInv
<1>3. Finite'
  BY <1>1, <1>2, FS_EmptySet DEF Finite, PostedBy
<1>4. Handed'
  BY <1>1 DEF PlaceInv, Handed
<1>5. ASSUME NEW f \in Events
      PROVE  IF fate'[f] = "pending" THEN At(f)' \in Once ELSE At(f)' = Nowhere
  <2>1. /\ InThreads(f)' = InThreads(f) /\ InShared(f)' = InShared(f)
        /\ InSwapped(f)' = InSwapped(f) /\ InDestroy(f)' = InDestroy(f)
    BY <1>1, OnlyList
  <2>2. InList(f)' = 0
    <3>1. {ev \in m_events' : ev.impl = f} = {}
      BY <1>1
    <3> QED
      BY <3>1, FS_EmptySet DEF InList
  <2>3. CASE \E ev \in m_events : ev.impl = f
    <3>1. fate'[f] = "discarded" /\ InList(f) # 0
      BY <1>1, <1>2, <2>3, ListPositive
    <3>2. /\ InThreads(f) = 0 /\ InShared(f) = 0 /\ InSwapped(f) = 0
          /\ InDestroy(f) = 0
      BY <1>2, <3>1 DEF Placed, At, Nowhere, Once
    <3> QED
      BY <2>1, <2>2, <3>1, <3>2 DEF At, Nowhere
  <2>4. CASE ~\E ev \in m_events : ev.impl = f
    <3>1. fate'[f] = fate[f]
      BY <1>1, <2>4
    <3>2. {ev \in m_events : ev.impl = f} = {}
      BY <2>4
    <3>3. InList(f) = 0
      BY <3>2, FS_EmptySet DEF InList
    <3> QED
      BY <1>2, <2>1, <2>2, <3>1, <3>3 DEF At, Placed
  <2> QED
    BY <2>3, <2>4
<1> QED
  BY <1>3, <1>4, <1>5 DEF PlaceInv, Placed

-----------------------------------------------------------------------------
(* Where an event waits: from the posting thread to the list.              *)

LEMMA PlacePostBegins ==
  ASSUME TypeOK, PlaceInv, NEW t \in Threads, NEW e \in Events, NEW d \in Delays,
         PostBegins(t, e, d)
  PROVE  PlaceInv'
<1>1. /\ UNCHANGED <<pc, m_eventsWithContext, eventsWithContext, m_events,
                     m_destroyEvents>>
      /\ tpc[t] = "idle" /\ tpc' = [tpc EXCEPT ![t] = "lock"]
      /\ posting' = [posting EXCEPT ![t] = [event |-> e, timestamp |-> d]]
      /\ Create(e)
  BY DEF PostBegins, mainVars, eventVars, destroyVars, queueVars
<1>2. Finite /\ Handed /\ Placed
  BY DEF PlaceInv
<1>3. /\ At(e) = Nowhere /\ fate'[e] = "pending"
      /\ \A f \in Events : f # e => fate'[f] = fate[f]
  BY <1>1, <1>2, Created
<1>4. posting[t] = NoPost /\ posting \in [Threads -> Posts \cup {NoPost}]
      /\ tpc \in [Threads -> {"idle", "lock", "pushed"}]
  BY <1>1, <1>2 DEF Handed, TypeOK
<1>5. PostedBy(e) = {}
  <2>1. Cardinality(PostedBy(e)) = 0
    BY <1>3 DEF At, Nowhere, InThreads
  <2>2. IsFiniteSet(PostedBy(e))
    BY <1>2 DEF Finite
  <2> QED
    BY <2>1, <2>2, FS_EmptySet
<1>6. /\ posting'[t].event = e
      /\ \A u \in Threads : u # t => posting'[u] = posting[u]
  BY <1>1, <1>4
<1>7. PostedBy(e)' = {t}
  BY <1>5, <1>6 DEF PostedBy
<1>8. ASSUME NEW f \in Events, f # e PROVE PostedBy(f)' = PostedBy(f)
  <2>1. posting[t].event # f
    <3>1. posting[t].event = {}
      BY <1>4 DEF NoPost
    <3>2. f # {}
      BY EventsAssumption
    <3> QED
      BY <3>1, <3>2
  <2> QED
    BY <1>6, <1>8, <2>1 DEF PostedBy
<1>9. IsFiniteSet({t}) /\ Cardinality({t}) = 1
  BY FS_Singleton
<1>10. Finite'
  BY <1>1, <1>2, <1>7, <1>8, <1>9 DEF Finite
<1>11. Handed'
  BY <1>1, <1>2, <1>4, <1>6 DEF Handed
<1>12. ASSUME NEW f \in Events
       PROVE  IF fate'[f] = "pending" THEN At(f)' \in Once ELSE At(f)' = Nowhere
  <2>1. /\ InShared(f)' = InShared(f) /\ InSwapped(f)' = InSwapped(f)
        /\ InList(f)' = InList(f) /\ InDestroy(f)' = InDestroy(f)
    BY <1>1 DEF InShared, InSwapped, InList, InDestroy
  <2>2. CASE f = e
    <3>1. InThreads(f)' = 1
      BY <1>7, <1>9, <2>2 DEF InThreads
    <3> QED
      BY <1>3, <2>1, <2>2, <3>1 DEF At, Nowhere, Once
  <2>3. CASE f # e
    <3>1. InThreads(f)' = InThreads(f)
      BY <1>8, <2>3 DEF InThreads
    <3> QED
      BY <1>2, <1>3, <2>1, <2>3, <3>1 DEF At, Placed
  <2> QED
    BY <2>2, <2>3
<1> QED
  BY <1>10, <1>11, <1>12 DEF PlaceInv, Placed

LEMMA PlacePostPush ==
  ASSUME TypeInv, PlaceInv, NEW t \in Threads, PostPush(t)
  PROVE  PlaceInv'
<1>1. PICK p \in Posts : p = posting[t]
  BY DEF TypeInv, PostPush
<1> DEFINE e == p.event
<1>2. /\ UNCHANGED <<pc, eventsWithContext, m_events, m_destroyEvents, fate>>
      /\ tpc' = [tpc EXCEPT ![t] = "pushed"]
      /\ posting' = [posting EXCEPT ![t] = NoPost]
      /\ m_eventsWithContext' = Append(m_eventsWithContext, p)
  BY <1>1 DEF PostPush, mainVars, eventVars, destroyVars
<1>3. Finite /\ Handed /\ Placed
  BY DEF PlaceInv
<1>4. /\ e \in Events /\ posting[t].event = e
      /\ posting \in [Threads -> Posts \cup {NoPost}]
      /\ tpc \in [Threads -> {"idle", "lock", "pushed"}]
      /\ m_eventsWithContext \in Seq(Posts)
  BY <1>1 DEF Posts, TypeInv, TypeOK
<1>5. \A f : InShared(f)' = InShared(f) + IF e = f THEN 1 ELSE 0
  BY <1>2, <1>4, PostCount DEF InShared
<1> HIDE DEF e
<1>6. /\ posting'[t].event = {}
      /\ \A u \in Threads : u # t => posting'[u] = posting[u]
  BY <1>2, <1>4 DEF NoPost
<1>7. \A f \in Events : PostedBy(f)' = PostedBy(f) \ {t}
  BY <1>6, EventsAssumption DEF PostedBy
<1>8. \A f \in Events : f # e => t \notin PostedBy(f)
  BY <1>4 DEF PostedBy
<1>9. t \in PostedBy(e)
  BY <1>4 DEF PostedBy
<1>10. Finite'
  <2>1. IsFiniteSet(m_events)'
    BY <1>2, <1>3 DEF Finite
  <2>2. ASSUME NEW f \in Events PROVE IsFiniteSet(PostedBy(f)')
    <3>1. PICK S : S = PostedBy(f)
      OBVIOUS
    <3>2. IsFiniteSet(S \ {t})
      BY <1>3, <3>1, FS_RemoveElement DEF Finite
    <3> QED
      BY <1>7, <3>1, <3>2
  <2> QED
    BY <2>1, <2>2 DEF Finite
<1>11. Handed'
  BY <1>2, <1>3, <1>4, <1>6 DEF Handed
<1>12. ASSUME NEW f \in Events
       PROVE  IF fate'[f] = "pending" THEN At(f)' \in Once ELSE At(f)' = Nowhere
  <2>1. /\ InSwapped(f)' = InSwapped(f) /\ InList(f)' = InList(f)
        /\ InDestroy(f)' = InDestroy(f)
    BY <1>2 DEF InSwapped, InList, InDestroy
  <2>2. IsFiniteSet(PostedBy(f))
    BY <1>3 DEF Finite
  <2>3. CASE f = e
    <3>1. InThreads(f) # 0 /\ InThreads(f)' = InThreads(f) - 1
      BY <1>7, <1>9, <2>2, <2>3, FS_EmptySet, FS_RemoveElement DEF InThreads
    <3>2. /\ InThreads(f) = 1 /\ InShared(f) = 0 /\ InSwapped(f) = 0
          /\ InList(f) = 0 /\ InDestroy(f) = 0 /\ fate[f] = "pending"
      BY <1>3, <3>1 DEF Placed, At, Nowhere, Once
    <3>3. InThreads(f)' = 0 /\ InShared(f)' = 1
      BY <1>5, <2>3, <3>1, <3>2
    <3> QED
      BY <1>2, <2>1, <3>2, <3>3 DEF At, Once
  <2>4. CASE f # e
    <3>1. PostedBy(f)' = PostedBy(f)
      BY <1>7, <1>8, <2>4
    <3>2. InThreads(f)' = InThreads(f)
      BY <3>1 DEF InThreads
    <3>3. InShared(f) \in Nat
      BY <1>4, CountIsNat DEF InShared
    <3>4. InShared(f)' = InShared(f)
      BY <1>5, <2>4, <3>3
    <3> QED
      BY <1>2, <1>3, <2>1, <3>2, <3>4 DEF At, Placed
  <2> QED
    BY <2>3, <2>4
<1> QED
  BY <1>10, <1>11, <1>12 DEF PlaceInv, Placed

LEMMA PlaceSwap == ASSUME TypeOK, PlaceInv, SwapQueues PROVE PlaceInv'
<1>1. /\ UNCHANGED <<posting, m_events, m_destroyEvents, fate, tpc>>
      /\ pc = "lock" /\ pc' = "swapped"
      /\ eventsWithContext' = m_eventsWithContext /\ m_eventsWithContext' = <<>>
  BY DEF SwapQueues, eventVars, destroyVars, threadVars, historyVars
<1>2. Finite /\ Handed /\ Placed
  BY DEF PlaceInv
<1>3. eventsWithContext = <<>>
  BY <1>1, <1>2 DEF Handed
<1>4. Finite' /\ Handed'
  BY <1>1, <1>2 DEF Finite, PostedBy, Handed
<1>5. ASSUME NEW f \in Events
      PROVE  IF fate'[f] = "pending" THEN At(f)' \in Once ELSE At(f)' = Nowhere
  <2>1. /\ InThreads(f)' = InThreads(f) /\ InList(f)' = InList(f)
        /\ InDestroy(f)' = InDestroy(f)
    BY <1>1 DEF InThreads, PostedBy, InList, InDestroy
  <2>2. InSwapped(f) = 0 /\ InShared(f)' = 0 /\ InSwapped(f)' = InShared(f)
    BY <1>1, <1>3, CountEmpty DEF InSwapped, InShared
  <2> QED
    BY <1>1, <1>2, <2>1, <2>2 DEF At, Placed, Nowhere, Once
<1> QED
  BY <1>4, <1>5 DEF PlaceInv, Placed

LEMMA PlaceInserted ==
  ASSUME TypeOK, PlaceInv, InsertPosted
  PROVE  PlaceInv'
<1>1. eventsWithContext \in Seq(Posts) /\ eventsWithContext # <<>>
  BY DEF TypeOK, InsertPosted
<1>2. PICK p \in Posts : p = Head(eventsWithContext)
  BY <1>1, HeadTailProperties
<1> DEFINE e == p.event
           ev == NewEvent(e, m_currentTs + p.timestamp)
<1>3. /\ UNCHANGED <<pc, posting, m_eventsWithContext, m_destroyEvents, fate, tpc>>
      /\ eventsWithContext' = Tail(eventsWithContext) /\ pc = "insert"
      /\ m_events' = m_events \cup {ev}
  BY <1>2 DEF InsertPosted, InsertEvent, mainVars, destroyVars, threadVars,
     historyVars
<1>4. Finite /\ Handed /\ Placed
  BY DEF PlaceInv
<1>5. e \in Events /\ ev.impl = e
  BY DEF Posts, NewEvent
<1>6. \A f : InSwapped(f) = InSwapped(f)' + IF e = f THEN 1 ELSE 0
  BY <1>1, <1>2, <1>3, PostUncount DEF InSwapped
<1>7. \A f : InSwapped(f)' \in Nat
  BY <1>1, <1>3, HeadTailProperties, CountIsNat DEF InSwapped
<1> HIDE DEF e, ev
<1>8. PICK n \in Nat : n = InSwapped(e)'
  BY <1>7
<1>9. InSwapped(e) = n + 1 /\ n + 1 # 0
  BY <1>6, <1>8
<1>10. /\ InThreads(e) = 0 /\ InShared(e) = 0 /\ InSwapped(e) = 1
       /\ InList(e) = 0 /\ InDestroy(e) = 0 /\ fate[e] = "pending"
  BY <1>4, <1>5, <1>9 DEF Placed, At, Nowhere, Once
<1>11. InSwapped(e)' = 0
  BY <1>8, <1>9, <1>10
<1>12. ev \notin m_events
  BY <1>4, <1>5, <1>10, ListPositive
<1>13. Finite'
  BY <1>3, <1>4, FS_AddElement DEF Finite, PostedBy
<1>14. Handed'
  BY <1>3, <1>4 DEF Handed
<1>15. ASSUME NEW f \in Events
       PROVE  IF fate'[f] = "pending" THEN At(f)' \in Once ELSE At(f)' = Nowhere
  <2>1. InList(f)' = IF e = f THEN InList(f) + 1 ELSE InList(f)
    BY <1>3, <1>4, <1>5, <1>12, ListAdd
  <2>2. /\ InThreads(f)' = InThreads(f) /\ InShared(f)' = InShared(f)
        /\ InDestroy(f)' = InDestroy(f)
    BY <1>3 DEF InThreads, PostedBy, InShared, InDestroy
  <2>3. CASE f = e
    BY <1>3, <1>10, <1>11, <2>1, <2>2, <2>3 DEF At, Once
  <2>4. CASE f # e
    <3>1. InSwapped(f)' = InSwapped(f)
      BY <1>6, <1>7, <2>4
    <3> QED
      BY <1>3, <1>4, <2>1, <2>2, <2>4, <3>1 DEF At, Placed
  <2> QED
    BY <2>3, <2>4
<1> QED
  BY <1>13, <1>14, <1>15 DEF PlaceInv, Placed

-----------------------------------------------------------------------------
(* Where an event waits: the theorem.                                      *)

\* An unexpired EventId of an event that is not to run at Destroy is listed.
LEMMA Unexpired ==
  ASSUME TypeInv, KeyInv, pc # "disposed", NEW id \in ids, id.uid # DESTROY,
         ~IsExpired(id)
  PROVE  id \in m_events
<1>1. KeyLess(CurrentKey, id) /\ id.impl \notin m_cancel
  BY DEF IsExpired, KeyLess, CurrentKey, TypeInv, TypeOK, Listed
<1> QED
  BY <1>1 DEF KeyInv, IdsKnown

LEMMA PlaceCall ==
  ASSUME TypeInv, KeyInv, PlaceInv, Call
  PROVE  PlaceInv'
<1> USE DEF mainVars, eventVars, timeVars, destroyVars, idVars, historyVars
<1>0. TypeOK /\ m_destroyEvents \in Seq(DestroyIds)
  BY DEF TypeInv, TypeOK, DestroyIds
<1>1. ASSUME NEW e \in Events, NEW d \in Delays,
             Schedule(e, d) \/ ScheduleWithContext(e, d)
      PROVE  PlaceInv'
  BY <1>0, <1>1, PlaceScheduled DEF Schedule, ScheduleWithContext
<1>2. ASSUME NEW e \in Events, ScheduleDestroy(e)
      PROVE  PlaceInv'
  <2>1. PICK id \in DestroyIds :
          id.impl = e /\ m_destroyEvents' = Append(m_destroyEvents, id)
    BY <1>0, <1>2 DEF ScheduleDestroy, DestroyIds, TypeOK
  <2>2. /\ Create(id.impl)
        /\ UNCHANGED <<pc, m_events, queueVars, threadVars>>
    BY <1>2, <2>1 DEF ScheduleDestroy
  <2> QED
    BY <1>0, <2>1, <2>2, PlaceDestroy
<1>3. ASSUME NEW id \in ids, Cancel(id)
      PROVE  PlaceInv'
  BY <1>3, PlaceUnchanged DEF Cancel, placeVars, queueVars, threadVars
<1>4. ASSUME NEW id \in ids, RemoveDestroy(id)
      PROVE  PlaceInv'
  <2>1. CASE UNCHANGED <<m_destroyEvents, fate>>
    BY <1>4, <2>1, PlaceUnchanged DEF RemoveDestroy, placeVars, queueVars, threadVars
  <2>2. CASE \E i \in DOMAIN m_destroyEvents :
               /\ m_destroyEvents[i] = id
               /\ m_destroyEvents' = RemoveAt(m_destroyEvents, i)
               /\ fate' = [fate EXCEPT ![id.impl] = "removed"]
    <3>1. PICK i \in 1 .. Len(m_destroyEvents) :
               /\ m_destroyEvents[i] = id
               /\ m_destroyEvents' = RemoveAt(m_destroyEvents, i)
               /\ fate' = [fate EXCEPT ![m_destroyEvents[i].impl] = "removed"]
      BY <1>0, <2>2, LenProperties
    <3>2. \A f : Count(IdsOf(f), m_destroyEvents)
                  = Count(IdsOf(f), m_destroyEvents')
                      + IF m_destroyEvents[i].impl = f THEN 1 ELSE 0
      BY <1>0, <3>1, DestroyUncountAt
    <3>3. m_destroyEvents' \in Seq(DestroyIds)
      BY <1>0, <3>1, RemoveAtProperties
    <3>4. /\ UNCHANGED <<m_events, queueVars, threadVars>>
          /\ pc \notin {"swapped", "insert"}
      BY <1>4 DEF RemoveDestroy, InProgram
    <3>5. "removed" \in Fates \ {"pending"}
      BY DEF Fates
    <3> QED
      BY <1>0, <3>1, <3>2, <3>3, <3>4, <3>5, PlaceUndestroyed
  <2> QED
    BY <1>4, <2>1, <2>2 DEF RemoveDestroy
<1>5. ASSUME NEW id \in ids, RemoveListed(id)
      PROVE  PlaceInv'
  <2>1. CASE UNCHANGED <<m_events, fate>>
    BY <1>5, <2>1, PlaceUnchanged DEF RemoveListed, placeVars, queueVars, threadVars
  <2>2. CASE /\ ~IsExpired(id)
             /\ m_events' = m_events \ {id}
             /\ fate' = [fate EXCEPT ![id.impl] = "removed"]
    <3>1. /\ UNCHANGED <<queueVars, threadVars, m_destroyEvents>>
          /\ pc \notin {"swapped", "insert", "disposed"}
          /\ id.uid # DESTROY
      BY <1>5 DEF RemoveListed, InProgram
    <3>2. id \in m_events
      BY <2>2, <3>1, Unexpired
    <3>3. "removed" \in Fates \ {"pending"}
      BY DEF Fates
    <3> QED
      BY <1>0, <2>2, <3>1, <3>2, <3>3, PlaceUnlisted
  <2> QED
    BY <1>5, <2>1, <2>2 DEF RemoveListed
<1>6. ASSUME Stop
      PROVE  PlaceInv'
  BY <1>6, PlaceUnchanged DEF Stop, placeVars, queueVars, threadVars
<1> QED
  BY <1>1, <1>2, <1>3, <1>4, <1>5, <1>6 DEF Call

LEMMA PlaceMain ==
  ASSUME TypeInv, PlaceInv, RunBegins \/ DestroyBegins \/ MainStep
  PROVE  PlaceInv'
<1> USE DEF mainVars, eventVars, timeVars, destroyVars, idVars, historyVars
<1>0. TypeOK /\ m_destroyEvents \in Seq(DestroyIds)
  BY DEF TypeInv, TypeOK, DestroyIds
<1>1. CASE \/ RunBegins \/ DestroyBegins \/ ReadFlag \/ ReleaseQueue
           \/ AllInserted \/ ResetStop \/ HandlerReturns \/ RunReturns
           \/ DestroyHandlerReturns \/ DisposeBegins
  <2>1. UNCHANGED <<placeVars, tpc>>
    BY <1>1 DEF RunBegins, DestroyBegins, ReadFlag, ReleaseQueue, AllInserted,
       ResetStop, HandlerReturns, RunReturns, DestroyHandlerReturns,
       DisposeBegins, placeVars, queueVars, threadVars
  <2>2. pc \in {"swapped", "insert"}
          => pc' \in {"swapped", "insert"} \/ eventsWithContext = <<>>
    BY <1>1 DEF RunBegins, DestroyBegins, ReadFlag, ReleaseQueue, AllInserted,
       ResetStop, HandlerReturns, RunReturns, DestroyHandlerReturns,
       DisposeBegins
  <2> QED
    BY <2>1, <2>2, PlaceUnchanged
<1>2. CASE SwapQueues
  BY <1>0, <1>2, PlaceSwap
<1>3. CASE InsertPosted
  BY <1>0, <1>3, PlaceInserted
<1>4. CASE ProcessOneEvent
  <2>1. PICK next \in m_events, end \in {"skipped", "ran"} :
          /\ m_events' = m_events \ {next}
          /\ fate' = [fate EXCEPT ![next.impl] = end]
    BY <1>4 DEF ProcessOneEvent
  <2>2. /\ UNCHANGED <<queueVars, threadVars, m_destroyEvents>>
        /\ pc \notin {"swapped", "insert"}
    BY <1>4 DEF ProcessOneEvent
  <2>3. end \in Fates \ {"pending"}
    BY DEF Fates
  <2> QED
    BY <1>0, <2>1, <2>2, <2>3, PlaceUnlisted
<1>5. CASE DestroyNext
  <2>1. /\ m_destroyEvents # <<>> /\ m_destroyEvents' = Tail(m_destroyEvents)
        /\ UNCHANGED <<m_events, queueVars, threadVars>>
        /\ pc \notin {"swapped", "insert"}
    BY <1>5 DEF DestroyNext
  <2>2. 1 \in 1 .. Len(m_destroyEvents) /\ Head(m_destroyEvents) = m_destroyEvents[1]
    BY <1>0, <2>1, LenProperties, EmptySeq
  <2>3. PICK i \in 1 .. Len(m_destroyEvents) : Head(m_destroyEvents) = m_destroyEvents[i]
    BY <2>2
  <2>4. PICK end \in {"skipped", "ran"} :
          fate' = [fate EXCEPT ![m_destroyEvents[i].impl] = end]
    BY <1>5, <2>3 DEF DestroyNext
  <2>5. \A f : Count(IdsOf(f), m_destroyEvents)
                = Count(IdsOf(f), m_destroyEvents')
                    + IF m_destroyEvents[i].impl = f THEN 1 ELSE 0
    BY <1>0, <2>1, <2>3, DestroyUncount
  <2>6. m_destroyEvents' \in Seq(DestroyIds)
    BY <1>0, <2>1, HeadTailProperties
  <2>7. end \in Fates \ {"pending"}
    BY DEF Fates
  <2> QED
    BY <1>0, <2>1, <2>4, <2>5, <2>6, <2>7, PlaceUndestroyed
<1>6. CASE Dispose
  BY <1>0, <1>6, PlaceDispose
<1> QED
  BY <1>1, <1>2, <1>3, <1>4, <1>5, <1>6 DEF MainStep, ProcessEventsWithContext

LEMMA PlaceThread ==
  ASSUME TypeInv, PlaceInv, NEW t \in Threads,
         \/ ThreadStep(t)
         \/ \E e \in Events, d \in Delays : PostBegins(t, e, d)
  PROVE  PlaceInv'
<1>1. CASE \E e \in Events, d \in Delays : PostBegins(t, e, d)
  BY <1>1, PlacePostBegins DEF TypeInv
<1>2. CASE PostPush(t)
  BY <1>2, PlacePostPush
<1>3. CASE PostRelease(t)
  <2>1. /\ UNCHANGED <<pc, m_eventsWithContext, eventsWithContext, posting,
                       m_events, m_destroyEvents, fate>>
        /\ tpc[t] = "pushed" /\ tpc' = [tpc EXCEPT ![t] = "idle"]
    BY <1>3 DEF PostRelease, mainVars, eventVars, destroyVars, historyVars
  <2>2. \A u \in Threads : tpc'[u] = "lock" <=> tpc[u] = "lock"
    BY <2>1 DEF TypeInv, TypeOK
  <2>3. Finite' /\ Handed'
    BY <2>1, <2>2 DEF PlaceInv, Finite, PostedBy, Handed
  <2>4. \A e \in Events : At(e)' = At(e)
    BY <2>1 DEF At, InThreads, PostedBy, InShared, InSwapped, InList, InDestroy
  <2> QED
    BY <2>1, <2>3, <2>4 DEF PlaceInv, Placed
<1> QED
  BY <1>1, <1>2, <1>3 DEF ThreadStep

LEMMA PlaceNext == TypeInv /\ KeyInv /\ PlaceInv /\ [Next]_vars => PlaceInv'
<1> SUFFICES ASSUME TypeInv, KeyInv, PlaceInv, [Next]_vars PROVE PlaceInv'
  OBVIOUS
<1>1. CASE UNCHANGED vars
  BY <1>1, PlaceUnchanged
  DEF vars, mainVars, eventVars, destroyVars, queueVars, threadVars,
      historyVars, placeVars
<1> QED
  BY <1>1, PlaceCall, PlaceMain, PlaceThread DEF Next, Disposed

LEMMA PlaceInvariant == Spec /\ []NoWrap => []PlaceInv
BY PlaceInit, PlaceNext, TypeInvariant, KeyInvariant, PTL DEF Spec

\* Every pending event waits in exactly one place between the thread that posts
\* it and the lists of the engine, and no other event waits anywhere, as long
\* as the uid counter does not wrap.
THEOREM NoEventLostCorrect == Spec /\ []NoWrap => []NoEventLost
<1>1. TypeInv /\ PlaceInv => NoEventLost
  BY PlacedOnce DEF TypeInv, PlaceInv
<1> QED
  BY <1>1, TypeInvariant, PlaceInvariant, PTL

-----------------------------------------------------------------------------
(* The count of the listed events.                                         *)

\* An insertion adds one event: its uid is new.
LEMMA CountInserted ==
  ASSUME TypeInv, KeyInv, Finite, NEW e, NEW ts, InsertEvent(e, ts),
         AccountingOK, pc # "disposed"
  PROVE  AccountingOK'
<1> DEFINE ev == NewEvent(e, ts)
<1>1. ev.uid = m_uid /\ m_uid \in Int
  BY DEF NewEvent, TypeInv, TypeOK
<1>2. \A x \in m_events : x.uid < m_uid /\ x.uid \in Int
  BY DEF KeyInv, ListOrdered, TypeInv, TypeOK, Listed
<1>3. m_events' = m_events \cup {ev} /\ m_unscheduledEvents' = m_unscheduledEvents + 1
  BY DEF InsertEvent
<1> HIDE DEF ev
<1>4. ev \notin m_events
  BY <1>1, <1>2
<1>5. Cardinality(m_events') = Cardinality(m_events) + 1
  BY <1>3, <1>4, FS_AddElement DEF Finite
<1> QED
  BY <1>3, <1>5 DEF AccountingOK

LEMMA CountRemoved ==
  ASSUME Finite, NEW ev \in m_events, m_events' = m_events \ {ev},
         m_unscheduledEvents' = m_unscheduledEvents - 1,
         AccountingOK, pc # "disposed"
  PROVE  AccountingOK'
<1>1. Cardinality(m_events') = Cardinality(m_events) - 1
  BY FS_RemoveElement DEF Finite
<1> QED
  BY <1>1 DEF AccountingOK

LEMMA AccountingNext ==
  ASSUME TypeInv, KeyInv, PlaceInv, AccountingOK, [Next]_vars
  PROVE  AccountingOK'
<1> USE DEF mainVars, eventVars, timeVars, destroyVars, queueVars, threadVars,
            idVars, historyVars
<1>0. Finite
  BY DEF PlaceInv
<1>1. CASE Call
  <2>1. ASSUME NEW e \in Events, NEW d \in Delays,
               Schedule(e, d) \/ ScheduleWithContext(e, d)
        PROVE  AccountingOK'
    <3>1. InsertEvent(e, m_currentTs + d) /\ pc # "disposed"
      BY <2>1 DEF Schedule, ScheduleWithContext, InProgram
    <3> QED
      BY <1>0, <3>1, CountInserted
  <2>2. ASSUME NEW id \in ids, RemoveListed(id)
        PROVE  AccountingOK'
    <3>1. pc # "disposed" /\ id.uid # DESTROY /\ UNCHANGED pc
      BY <2>2 DEF RemoveListed, InProgram
    <3>2. CASE UNCHANGED <<m_events, m_unscheduledEvents>>
      BY <3>1, <3>2 DEF AccountingOK
    <3>3. CASE /\ ~IsExpired(id)
               /\ m_events' = m_events \ {id}
               /\ m_unscheduledEvents' = m_unscheduledEvents - 1
      BY <1>0, <3>1, <3>3, Unexpired, CountRemoved
    <3> QED
      BY <2>2, <3>2, <3>3 DEF RemoveListed
  <2>3. ASSUME \/ \E e \in Events : ScheduleDestroy(e)
               \/ \E id \in ids : Cancel(id) \/ RemoveDestroy(id)
               \/ Stop
        PROVE  AccountingOK'
    BY <2>3 DEF ScheduleDestroy, Cancel, RemoveDestroy, Stop, AccountingOK
  <2> QED
    BY <1>1, <2>1, <2>2, <2>3 DEF Call
<1>2. CASE ProcessOneEvent
  <2>1. /\ pc # "disposed" /\ m_unscheduledEvents' = m_unscheduledEvents - 1
        /\ \E next \in m_events : m_events' = m_events \ {next}
    BY <1>2 DEF ProcessOneEvent
  <2> QED
    BY <1>0, <2>1, CountRemoved
<1>3. CASE InsertPosted
  <2>1. PICK e, ts : InsertEvent(e, ts)
    BY <1>3 DEF InsertPosted
  <2>2. pc # "disposed"
    BY <1>3 DEF InsertPosted
  <2> QED
    BY <1>0, <2>1, <2>2, CountInserted
<1>4. CASE Dispose
  BY <1>4 DEF Dispose, AccountingOK
<1>5. ASSUME \/ RunBegins \/ DestroyBegins \/ ReadFlag \/ SwapQueues
             \/ ReleaseQueue \/ AllInserted \/ ResetStop \/ HandlerReturns
             \/ RunReturns \/ DestroyNext \/ DestroyHandlerReturns
             \/ DisposeBegins
             \/ \E t \in Threads : \/ PostPush(t) \/ PostRelease(t)
                                   \/ \E e \in Events, d \in Delays :
                                        PostBegins(t, e, d)
             \/ UNCHANGED vars
      PROVE  AccountingOK'
  <2>1. \/ UNCHANGED <<m_events, m_unscheduledEvents>> /\ pc # "disposed"
        \/ UNCHANGED <<m_events, m_unscheduledEvents, pc>>
    BY <1>5 DEF RunBegins, DestroyBegins, ReadFlag, SwapQueues, ReleaseQueue,
       AllInserted, ResetStop, HandlerReturns, RunReturns, DestroyNext,
       DestroyHandlerReturns, DisposeBegins, PostPush, PostRelease, PostBegins,
       vars
  <2> QED
    BY <2>1 DEF AccountingOK
<1> QED
  BY <1>1, <1>2, <1>3, <1>4, <1>5
  DEF Next, MainStep, ProcessEventsWithContext, ThreadStep, Disposed

\* The engine counts its listed events right, as long as the uid counter does
\* not wrap.
THEOREM AccountingCorrect == Spec /\ []NoWrap => []AccountingOK
<1>1. Init => AccountingOK
  BY FS_EmptySet DEF Init, AccountingOK
<1> QED
  BY <1>1, AccountingNext, TypeInvariant, KeyInvariant, PlaceInvariant, PTL
  DEF Spec

-----------------------------------------------------------------------------
(* What the program revoked.                                               *)

\* An EventId the program holds is one of an event that was created, and finds
\* it in the list or in the queue of destroy events while it is pending.
IdsFate ==
  \A id \in ids :
    /\ fate[id.impl] # "unused"
    /\ fate[id.impl] = "pending" => id \in m_events \cup ToSet(m_destroyEvents)

\* A revoked event is cancelled or its story is over.
RevokedInv ==
  \A e \in revoked : /\ fate[e] # "unused"
                     /\ e \in m_cancel \/ fate[e] # "pending"

\* What is listed or queued for Destroy is pending.
LEMMA ListedPending ==
  ASSUME TypeOK, PlaceInv, NEW ev \in m_events
  PROVE  ev.impl \in Events /\ fate[ev.impl] = "pending"
<1>1. ev.impl \in Events
  BY DEF TypeOK, Listed
<1>2. InList(ev.impl) # 0
  BY ListPositive DEF PlaceInv
<1> QED
  BY <1>1, <1>2 DEF PlaceInv, Placed, At, Nowhere

LEMMA QueuedPending ==
  ASSUME TypeOK, PlaceInv, NEW i \in DOMAIN m_destroyEvents
  PROVE  /\ m_destroyEvents[i].impl \in Events
         /\ fate[m_destroyEvents[i].impl] = "pending"
<1>1. m_destroyEvents \in Seq(DestroyIds)
  BY DEF TypeOK, DestroyIds
<1>2. PICK id \in DestroyIds : id = m_destroyEvents[i]
  BY <1>1, LenProperties
<1>3. id.impl \in Events /\ id \in IdsOf(id.impl)
  BY DEF DestroyIds, IdsOf
<1>4. Count(IdsOf(id.impl), m_destroyEvents) > 0
  BY <1>1, <1>2, <1>3, CountPositive
<1>5. InDestroy(id.impl) # 0
  BY <1>4 DEF InDestroy
<1>6. fate[id.impl] = "pending"
  BY <1>3, <1>5 DEF PlaceInv, Placed, At, Nowhere
<1> QED
  BY <1>2, <1>3, <1>6

\* A story begins once, and no cancellation is taken back.
LEMMA FateMoves ==
  ASSUME TypeOK, [Next]_vars
  PROVE  /\ \A e \in Events : /\ fate[e] # "unused" => fate'[e] # "unused"
                              /\ fate[e] \notin {"unused", "pending"}
                                   => fate'[e] # "pending"
         /\ m_cancel \subseteq m_cancel'
<1> USE DEF mainVars, eventVars, timeVars, destroyVars, queueVars, threadVars,
            idVars, historyVars
<1>1. fate \in [Events -> Fates]
  BY DEF TypeOK
<1>2. m_cancel \subseteq m_cancel'
  BY DEF Next, Call, Schedule, ScheduleWithContext, ScheduleDestroy, Cancel,
         RemoveDestroy, RemoveListed, Stop, RunBegins, DestroyBegins, MainStep,
         ProcessEventsWithContext, ReadFlag, SwapQueues, ReleaseQueue,
         InsertPosted, AllInserted, ResetStop, ProcessOneEvent, HandlerReturns,
         RunReturns, DestroyNext, DestroyHandlerReturns, DisposeBegins, Dispose,
         PostBegins, ThreadStep, PostPush, PostRelease, Disposed, vars
<1>3. \/ UNCHANGED fate
      \/ \E e \in Events : fate[e] = "unused" /\ fate' = [fate EXCEPT ![e] = "pending"]
      \/ \E e, end : /\ end \in {"ran", "skipped", "removed"}
                     /\ fate' = [fate EXCEPT ![e] = end]
      \/ fate' = [e \in Events |-> IF \E ev \in m_events : ev.impl = e
                                   THEN "discarded" ELSE fate[e]]
  <2>1. CASE Call
    BY <2>1, Zenon DEF Call, Create, Schedule, ScheduleWithContext, ScheduleDestroy,
       Cancel, RemoveDestroy, RemoveListed, Stop
  <2>2. CASE ProcessOneEvent \/ DestroyNext \/ Dispose
    BY <2>2, Zenon DEF ProcessOneEvent, DestroyNext, Dispose
  <2>3. CASE \E t \in Threads, e \in Events, d \in Delays : PostBegins(t, e, d)
    BY <2>3 DEF PostBegins, Create
  <2>4. ASSUME \/ RunBegins \/ DestroyBegins \/ ReadFlag \/ SwapQueues
               \/ ReleaseQueue \/ InsertPosted \/ AllInserted \/ ResetStop
               \/ HandlerReturns \/ RunReturns \/ DestroyHandlerReturns
               \/ DisposeBegins
               \/ \E t \in Threads : PostPush(t) \/ PostRelease(t)
               \/ UNCHANGED vars
        PROVE  UNCHANGED fate
    BY <2>4 DEF RunBegins, DestroyBegins, ReadFlag, SwapQueues, ReleaseQueue,
       InsertPosted, AllInserted, ResetStop, HandlerReturns, RunReturns,
       DestroyHandlerReturns, DisposeBegins, PostPush, PostRelease, vars
  <2> QED
    BY <2>1, <2>2, <2>3, <2>4
    DEF Next, MainStep, ProcessEventsWithContext, ThreadStep, Disposed
<1>4. ASSUME NEW e \in Events
      PROVE  /\ fate[e] # "unused" => fate'[e] # "unused"
             /\ fate[e] \notin {"unused", "pending"} => fate'[e] # "pending"
  BY <1>1, <1>3
<1> QED
  BY <1>2, <1>4

\* The EventIds: what leaves the list and the queue is over.
LEMMA IdsFateKept ==
  ASSUME TypeInv, IdsFate, [Next]_vars, ids' = ids,
         \A id \in ids : id \in m_events => \/ id \in m_events'
                                            \/ fate'[id.impl] # "pending",
         \A id \in ids : id \in ToSet(m_destroyEvents)
                           => \/ id \in ToSet(m_destroyEvents')
                              \/ fate'[id.impl] # "pending"
  PROVE  IdsFate'
<1>1. \A id \in ids : id.impl \in Events
  BY DEF TypeInv, TypeOK, Listed
<1>2. \A id \in ids : /\ fate'[id.impl] # "unused"
                      /\ fate'[id.impl] = "pending" => fate[id.impl] = "pending"
  BY <1>1, FateMoves DEF IdsFate, TypeInv
<1> QED
  BY <1>2, Zenon DEF IdsFate

LEMMA IdsFateAdded ==
  ASSUME TypeInv, IdsFate, [Next]_vars, NEW e \in Events, Create(e),
         ids' = ids \/ \E id : /\ ids' = ids \cup {id} /\ id.impl = e
                               /\ id \in m_events' \cup ToSet(m_destroyEvents'),
         m_events \subseteq m_events',
         ToSet(m_destroyEvents) \subseteq ToSet(m_destroyEvents')
  PROVE  IdsFate'
<1>1. \A id \in ids : id.impl \in Events
  BY DEF TypeInv, TypeOK, Listed
<1>2. \A id \in ids : /\ fate'[id.impl] # "unused"
                      /\ fate'[id.impl] = "pending" => fate[id.impl] = "pending"
  BY <1>1, FateMoves DEF IdsFate, TypeInv
<1>3. fate'[e] = "pending"
  BY DEF Create, TypeInv, TypeOK
<1> QED
  BY <1>2, <1>3 DEF IdsFate

\* An append keeps the members of a queue, an erasure all but one.
LEMMA AppendMembers ==
  ASSUME NEW T, NEW s \in Seq(T), NEW x \in T
  PROVE  ToSet(s) \subseteq ToSet(Append(s, x)) /\ x \in ToSet(Append(s, x))
<1> DEFINE t == Append(s, x)
<1>1. /\ Len(s) \in Nat /\ DOMAIN s = 1 .. Len(s) /\ DOMAIN t = 1 .. (Len(s) + 1)
      /\ \A i \in 1 .. Len(s) : t[i] = s[i]
      /\ t[Len(s) + 1] = x
  BY AppendProperties, LenProperties
<1> HIDE DEF t
<1>2. ToSet(s) \subseteq ToSet(t) /\ x \in ToSet(t)
  BY <1>1 DEF ToSet
<1> QED
  BY <1>2 DEF t

LEMMA ErasedMembers ==
  ASSUME NEW T, NEW s \in Seq(T), NEW t \in Seq(T), NEW i \in 1 .. Len(s),
         Len(t) = Len(s) - 1,
         \A j \in 1 .. Len(t) : t[j] = IF j < i THEN s[j] ELSE s[j + 1]
  PROVE  ToSet(s) \ {s[i]} \subseteq ToSet(t)
<1>1. /\ Len(s) \in Nat /\ DOMAIN s = 1 .. Len(s)
      /\ Len(t) \in Nat /\ DOMAIN t = 1 .. Len(t)
  BY LenProperties
<1>2. ASSUME NEW k \in 1 .. Len(s), k # i PROVE \E j \in 1 .. Len(t) : t[j] = s[k]
  <2>1. CASE k < i
    <3>1. k \in 1 .. Len(t) /\ t[k] = s[k]
      BY <1>1, <2>1
    <3> QED
      BY <3>1
  <2>2. CASE ~(k < i)
    <3>1. k - 1 \in 1 .. Len(t) /\ ~(k - 1 < i) /\ k - 1 + 1 = k
      BY <1>1, <1>2, <2>2
    <3>2. t[k - 1] = s[k - 1 + 1]
      BY <3>1
    <3> QED
      BY <3>1, <3>2
  <2> QED
    BY <2>1, <2>2
<1>3. ASSUME NEW x \in ToSet(s), x # s[i] PROVE x \in ToSet(t)
  <2>1. PICK k \in 1 .. Len(s) : x = s[k]
    BY <1>1 DEF ToSet
  <2>2. PICK j \in 1 .. Len(t) : t[j] = s[k]
    BY <1>2, <1>3, <2>1
  <2> QED
    BY <1>1, <2>1, <2>2 DEF ToSet
<1> QED
  BY <1>3

LEMMA IdsFateCall ==
  ASSUME TypeInv, KeyInv, PlaceInv, IdsFate, Call, [Next]_vars
  PROVE  IdsFate'
<1> USE DEF mainVars, eventVars, timeVars, destroyVars, idVars, historyVars
<1>0. /\ TypeOK /\ m_destroyEvents \in Seq(DestroyIds)
      /\ fate \in [Events -> Fates] /\ \A id \in ids : id.impl \in Events
  BY DEF TypeInv, TypeOK, DestroyIds, Listed
<1>1. ASSUME NEW e \in Events, NEW d \in Delays,
             Schedule(e, d) \/ ScheduleWithContext(e, d)
      PROVE  IdsFate'
  <2> DEFINE ev == NewEvent(e, m_currentTs + d)
  <2>1. /\ Create(e) /\ m_events' = m_events \cup {ev}
        /\ UNCHANGED m_destroyEvents
        /\ ids' = ids \/ ids' = ids \cup {ev}
        /\ ev.impl = e
    BY <1>1 DEF Schedule, ScheduleWithContext, InsertEvent, NewEvent
  <2> HIDE DEF ev
  <2> QED
    BY <2>1, IdsFateAdded
<1>2. ASSUME NEW e \in Events, ScheduleDestroy(e)
      PROVE  IdsFate'
  <2>1. PICK id \in DestroyIds : /\ id.impl = e
                                 /\ m_destroyEvents' = Append(m_destroyEvents, id)
                                 /\ ids' = ids \cup {id}
    BY <1>0, <1>2 DEF ScheduleDestroy, DestroyIds, TypeOK
  <2>2. Create(e) /\ UNCHANGED m_events
    BY <1>2 DEF ScheduleDestroy
  <2>3. /\ ToSet(m_destroyEvents) \subseteq ToSet(m_destroyEvents')
        /\ id \in ToSet(m_destroyEvents')
    BY <1>0, <2>1, AppendMembers
  <2> QED
    BY <2>1, <2>2, <2>3, IdsFateAdded
<1>3. ASSUME (\E id \in ids : Cancel(id)) \/ Stop
      PROVE  IdsFate'
  BY <1>3, IdsFateKept DEF Cancel, Stop
<1>4. ASSUME NEW id \in ids, RemoveDestroy(id)
      PROVE  IdsFate'
  <2>1. UNCHANGED <<m_events, ids>>
    BY <1>4 DEF RemoveDestroy
  <2>2. CASE UNCHANGED m_destroyEvents
    BY <2>1, <2>2, IdsFateKept
  <2>3. CASE \E i \in DOMAIN m_destroyEvents :
               /\ m_destroyEvents[i] = id
               /\ m_destroyEvents' = RemoveAt(m_destroyEvents, i)
               /\ fate' = [fate EXCEPT ![id.impl] = "removed"]
    <3>1. PICK i \in 1 .. Len(m_destroyEvents) :
            /\ m_destroyEvents[i] = id
            /\ m_destroyEvents' = RemoveAt(m_destroyEvents, i)
            /\ fate' = [fate EXCEPT ![id.impl] = "removed"]
      BY <1>0, <2>3, LenProperties
    <3>2. /\ m_destroyEvents' \in Seq(DestroyIds)
          /\ Len(m_destroyEvents') = Len(m_destroyEvents) - 1
          /\ \A j \in 1 .. Len(m_destroyEvents') : m_destroyEvents'[j] =
               IF j < i THEN m_destroyEvents[j] ELSE m_destroyEvents[j + 1]
      BY <1>0, <3>1, RemoveAtProperties
    <3>3. ToSet(m_destroyEvents) \ {id} \subseteq ToSet(m_destroyEvents')
      BY <1>0, <3>1, <3>2, ErasedMembers
    <3>4. fate'[id.impl] = "removed"
      BY <1>0, <3>1
    <3> QED
      BY <2>1, <3>3, <3>4, IdsFateKept
  <2> QED
    BY <1>4, <2>2, <2>3 DEF RemoveDestroy
<1>5. ASSUME NEW id \in ids, RemoveListed(id)
      PROVE  IdsFate'
  <2>1. UNCHANGED <<m_destroyEvents, ids>>
    BY <1>5 DEF RemoveListed
  <2>2. CASE UNCHANGED m_events
    BY <2>1, <2>2, IdsFateKept
  <2>3. CASE /\ m_events' = m_events \ {id}
             /\ fate' = [fate EXCEPT ![id.impl] = "removed"]
    <3>1. fate'[id.impl] = "removed"
      BY <1>0, <2>3
    <3> QED
      BY <2>1, <2>3, <3>1, IdsFateKept
  <2> QED
    BY <1>5, <2>2, <2>3 DEF RemoveListed
<1> QED
  BY <1>1, <1>2, <1>3, <1>4, <1>5 DEF Call

LEMMA IdsFateNext ==
  ASSUME TypeInv, KeyInv, PlaceInv, IdsFate, [Next]_vars
  PROVE  IdsFate'
<1> USE DEF mainVars, eventVars, timeVars, destroyVars, idVars
<1>0. /\ TypeOK /\ m_destroyEvents \in Seq(DestroyIds)
      /\ fate \in [Events -> Fates] /\ \A id \in ids : id.impl \in Events
  BY DEF TypeInv, TypeOK, DestroyIds, Listed
<1>1. CASE Call
  BY <1>1, IdsFateCall
<1>2. CASE ProcessOneEvent
  <2>1. PICK next \in m_events, end \in {"skipped", "ran"} :
          /\ m_events' = m_events \ {next}
          /\ fate' = [fate EXCEPT ![next.impl] = end]
          /\ UNCHANGED <<m_destroyEvents, ids>>
    BY <1>2 DEF ProcessOneEvent
  <2>2. next.impl \in Events => fate'[next.impl] # "pending"
    BY <1>0, <2>1
  <2> QED
    BY <1>0, <2>1, <2>2, IdsFateKept
<1>3. CASE DestroyNext
  <2>1. /\ m_destroyEvents # <<>> /\ m_destroyEvents' = Tail(m_destroyEvents)
        /\ UNCHANGED <<m_events, ids>>
    BY <1>3 DEF DestroyNext
  <2>2. /\ Tail(m_destroyEvents) \in Seq(DestroyIds)
        /\ Len(Tail(m_destroyEvents)) = Len(m_destroyEvents) - 1
        /\ \A j \in 1 .. Len(Tail(m_destroyEvents)) :
             Tail(m_destroyEvents)[j] = m_destroyEvents[j + 1]
    BY <1>0, <2>1, HeadTailProperties
  <2>3. 1 \in 1 .. Len(m_destroyEvents) /\ Head(m_destroyEvents) = m_destroyEvents[1]
    BY <1>0, <2>1, LenProperties, EmptySeq
  <2>4. PICK i \in 1 .. Len(m_destroyEvents) :
          i = 1 /\ Head(m_destroyEvents) = m_destroyEvents[i]
    BY <2>3
  <2>5. PICK t \in Seq(DestroyIds) : t = Tail(m_destroyEvents)
    BY <2>2
  <2>6. /\ Len(t) = Len(m_destroyEvents) - 1
        /\ \A j \in 1 .. Len(t) :
             t[j] = IF j < i THEN m_destroyEvents[j] ELSE m_destroyEvents[j + 1]
    BY <2>2, <2>4, <2>5
  <2>7. ToSet(m_destroyEvents) \ {m_destroyEvents[i]} \subseteq ToSet(t)
    BY <1>0, <2>6, ErasedMembers
  <2>8. fate'[m_destroyEvents[i].impl] # "pending"
    <3>1. m_destroyEvents[i].impl \in Events
      BY <1>0, QueuedPending, LenProperties
    <3> QED
      BY <1>0, <1>3, <2>4, <3>1 DEF DestroyNext
  <2> QED
    BY <2>1, <2>5, <2>7, <2>8, IdsFateKept
<1>4. CASE Dispose
  <2>1. UNCHANGED <<m_destroyEvents, ids>>
    BY <1>4 DEF Dispose
  <2>2. ASSUME NEW id \in ids, id \in m_events PROVE fate'[id.impl] # "pending"
    BY <1>0, <1>4, <2>2 DEF Dispose
  <2> QED
    BY <2>1, <2>2, IdsFateKept
<1>5. ASSUME \/ RunBegins \/ DestroyBegins \/ ReadFlag \/ SwapQueues
             \/ ReleaseQueue \/ InsertPosted \/ AllInserted \/ ResetStop
             \/ HandlerReturns \/ RunReturns \/ DestroyHandlerReturns
             \/ DisposeBegins
             \/ \E t \in Threads : \/ PostPush(t) \/ PostRelease(t)
                                   \/ \E e \in Events, d \in Delays :
                                        PostBegins(t, e, d)
             \/ UNCHANGED vars
      PROVE  IdsFate'
  <2>1. m_events \subseteq m_events' /\ UNCHANGED <<m_destroyEvents, ids>>
    BY <1>5 DEF RunBegins, DestroyBegins, ReadFlag, SwapQueues, ReleaseQueue,
       InsertPosted, InsertEvent, AllInserted, ResetStop, HandlerReturns,
       RunReturns, DestroyHandlerReturns, DisposeBegins, PostPush, PostRelease,
       PostBegins, vars
  <2> QED
    BY <2>1, IdsFateKept
<1> QED
  BY <1>1, <1>2, <1>3, <1>4, <1>5
  DEF Next, MainStep, ProcessEventsWithContext, ThreadStep, Disposed

\* Revocation: an event that is not cancelled by it was over.
LEMMA RevokedNext ==
  ASSUME TypeInv, PlaceInv, ExpiredExact, IdsFate, RevokedInv, [Next]_vars
  PROVE  RevokedInv'
<1>0. /\ revoked \subseteq Events /\ \A id \in ids : id.impl \in Events
      /\ fate \in [Events -> Fates]
  BY DEF TypeInv, TypeOK, Listed
<1>1. ASSUME NEW e \in revoked
      PROVE  fate'[e] # "unused" /\ (e \in m_cancel' \/ fate'[e] # "pending")
  BY <1>0, FateMoves DEF RevokedInv, TypeInv
<1>2. ASSUME NEW id \in ids, pc # "disposed", IsExpired(id)
      PROVE  fate[id.impl] # "unused" /\ (id.impl \in m_cancel \/ fate[id.impl] # "pending")
  BY <1>2 DEF ExpiredExact, IdsFate
<1>3. ASSUME NEW id \in ids,
             pc # "disposed", UNCHANGED fate,
             m_cancel' = IF IsExpired(id) THEN m_cancel ELSE m_cancel \cup {id.impl}
      PROVE  fate'[id.impl] # "unused" /\ (id.impl \in m_cancel' \/ fate'[id.impl] # "pending")
  BY <1>2, <1>3 DEF IdsFate
<1>4. ASSUME NEW id \in ids, Cancel(id) \/ RemoveDestroy(id) \/ RemoveListed(id)
      PROVE  /\ fate'[id.impl] # "unused"
             /\ id.impl \in m_cancel' \/ fate'[id.impl] # "pending"
  <2>1. pc # "disposed"
    BY <1>4 DEF Cancel, RemoveDestroy, RemoveListed, InProgram
  <2>2. CASE Cancel(id)
    BY <1>3, <2>1, <2>2 DEF Cancel, historyVars
  <2>3. CASE fate' = [fate EXCEPT ![id.impl] = "removed"]
    BY <1>0, <2>3
  <2>4. CASE IsExpired(id) /\ UNCHANGED <<fate, m_cancel>>
    BY <1>2, <2>1, <2>4
  <2>5. RemoveDestroy(id) => \/ fate' = [fate EXCEPT ![id.impl] = "removed"]
                             \/ IsExpired(id) /\ UNCHANGED <<fate, m_cancel>>
    BY DEF RemoveDestroy, IsExpired
  <2>6. RemoveListed(id) => \/ fate' = [fate EXCEPT ![id.impl] = "removed"]
                            \/ IsExpired(id) /\ UNCHANGED <<fate, m_cancel>>
    BY DEF RemoveListed
  <2> QED
    BY <1>4, <2>2, <2>3, <2>4, <2>5, <2>6
<1>5. \/ revoked' = revoked
      \/ \E id \in ids : /\ Cancel(id) \/ RemoveDestroy(id) \/ RemoveListed(id)
                         /\ revoked' = revoked \cup {id.impl}
  BY DEF Next, Call, Schedule, ScheduleWithContext, ScheduleDestroy, Cancel,
         RemoveDestroy, RemoveListed, Stop, RunBegins, DestroyBegins, MainStep,
         ProcessEventsWithContext, ReadFlag, SwapQueues, ReleaseQueue,
         InsertPosted, AllInserted, ResetStop, ProcessOneEvent, HandlerReturns,
         RunReturns, DestroyNext, DestroyHandlerReturns, DisposeBegins, Dispose,
         PostBegins, ThreadStep, PostPush, PostRelease, Disposed, vars,
         historyVars
<1> QED
  BY <1>1, <1>4, <1>5 DEF RevokedInv

\* Only two steps call a handler.
LEMMA RunsNow ==
  ASSUME TypeOK, [Next]_vars, NEW e \in Events, fate'[e] = "ran", fate[e] # "ran"
  PROVE  \/ \E next \in m_events :
              /\ ProcessOneEvent /\ IsEarliest(next, m_events)
              /\ m_events' = m_events \ {next}
              /\ next.impl = e /\ e \notin m_cancel
         \/ /\ m_destroyEvents # <<>> /\ Head(m_destroyEvents).impl = e
            /\ e \notin m_cancel
<1> USE DEF historyVars
<1>1. fate \in [Events -> Fates]
  BY DEF TypeOK
<1>2. CASE ProcessOneEvent
  <2>1. PICK next \in m_events :
          /\ IsEarliest(next, m_events)
          /\ m_events' = m_events \ {next}
          /\ \/ fate' = [fate EXCEPT ![next.impl] = "skipped"]
             \/ /\ next.impl \notin m_cancel
                /\ fate' = [fate EXCEPT ![next.impl] = "ran"]
    BY <1>2 DEF ProcessOneEvent
  <2>2. next.impl = e /\ e \notin m_cancel
    BY <1>1, <2>1
  <2> QED
    BY <1>2, <2>1, <2>2
<1>3. CASE DestroyNext
  <2>1. /\ m_destroyEvents # <<>>
        /\ \/ fate' = [fate EXCEPT ![Head(m_destroyEvents).impl] = "skipped"]
           \/ /\ Head(m_destroyEvents).impl \notin m_cancel
              /\ fate' = [fate EXCEPT ![Head(m_destroyEvents).impl] = "ran"]
    BY <1>3 DEF DestroyNext
  <2> QED
    BY <1>1, <2>1
<1>4. CASE Call
  <2>1. \/ UNCHANGED fate
        \/ \E f, end : /\ end \in {"pending", "removed"}
                       /\ fate' = [fate EXCEPT ![f] = end]
    BY <1>4, Zenon DEF Call, Create, Schedule, ScheduleWithContext,
       ScheduleDestroy, Cancel, RemoveDestroy, RemoveListed, Stop
  <2> QED
    BY <1>1, <2>1
<1>5. CASE \E t \in Threads, f \in Events, d \in Delays : PostBegins(t, f, d)
  BY <1>1, <1>5 DEF PostBegins, Create
<1>6. CASE Dispose
  BY <1>1, <1>6 DEF Dispose
<1>7. ASSUME \/ RunBegins \/ DestroyBegins \/ ReadFlag \/ SwapQueues
             \/ ReleaseQueue \/ InsertPosted \/ AllInserted \/ ResetStop
             \/ HandlerReturns \/ RunReturns \/ DestroyHandlerReturns
             \/ DisposeBegins
             \/ \E t \in Threads : PostPush(t) \/ PostRelease(t)
             \/ UNCHANGED vars
      PROVE  UNCHANGED fate
  BY <1>7 DEF RunBegins, DestroyBegins, ReadFlag, SwapQueues, ReleaseQueue,
     InsertPosted, AllInserted, ResetStop, HandlerReturns, RunReturns,
     DestroyHandlerReturns, DisposeBegins, PostPush, PostRelease, vars
<1> QED
  BY <1>2, <1>3, <1>4, <1>5, <1>6, <1>7
  DEF Next, MainStep, ProcessEventsWithContext, ThreadStep, Disposed

LEMMA RevokedInvariant == Spec /\ []NoWrap => [](IdsFate /\ RevokedInv)
<1>1. Init => IdsFate /\ RevokedInv
  BY DEF Init, IdsFate, RevokedInv
<1> QED
  BY <1>1, IdsFateNext, RevokedNext, TypeInvariant, KeyInvariant,
     PlaceInvariant, ExpiredExactCorrect, PTL DEF Spec

\* No handler is called of an event the program has revoked, as long as the uid
\* counter does not wrap.
THEOREM RevokedNeverRunsCorrect == Spec /\ []NoWrap => RevokedNeverRuns
<1>1. TypeInv /\ PlaceInv /\ RevokedInv /\ [Next]_vars
      => [\A e \in revoked : fate'[e] = "ran" => fate[e] = "ran"]_vars
  <2> SUFFICES ASSUME TypeInv, PlaceInv, RevokedInv, [Next]_vars,
                      NEW e \in revoked, fate'[e] = "ran", fate[e] # "ran"
               PROVE  FALSE
    OBVIOUS
  <2>1. TypeOK /\ e \in Events
    BY DEF TypeInv, TypeOK
  <2>2. /\ e \notin m_cancel
        /\ \/ \E next \in m_events : next.impl = e
           \/ m_destroyEvents # <<>> /\ Head(m_destroyEvents).impl = e
    BY <2>1, RunsNow
  <2>3. fate[e] = "pending"
    <3>1. CASE \E next \in m_events : next.impl = e
      BY <2>1, <3>1, ListedPending
    <3>2. CASE m_destroyEvents # <<>> /\ Head(m_destroyEvents).impl = e
      <4>1. m_destroyEvents \in Seq(DestroyIds)
        BY <2>1 DEF TypeOK, DestroyIds
      <4>2. 1 \in DOMAIN m_destroyEvents /\ Head(m_destroyEvents) = m_destroyEvents[1]
        BY <3>2, <4>1, LenProperties, EmptySeq
      <4>3. PICK i \in DOMAIN m_destroyEvents : m_destroyEvents[i].impl = e
        BY <3>2, <4>2
      <4> QED
        BY <2>1, <4>3, QueuedPending
    <3> QED
      BY <2>2, <3>1, <3>2
  <2> QED
    BY <2>2, <2>3 DEF RevokedInv
<1> QED
  BY <1>1, RevokedInvariant, TypeInvariant, PlaceInvariant, PTL
  DEF Spec, RevokedNeverRuns

-----------------------------------------------------------------------------
(* The order of the posted events: the inductive invariant.                *)

\* The history of the posts ends with the swapped queue and the shared one;
\* what comes before was inserted.
InsertedCount == Len(posted) - Len(eventsWithContext) - Len(m_eventsWithContext)
QueueIsPosted ==
  /\ InsertedCount >= 0
  /\ \A k \in 1 .. Len(eventsWithContext) :
       posted[InsertedCount + k] = eventsWithContext[k]
  /\ \A k \in 1 .. Len(m_eventsWithContext) :
       posted[InsertedCount + Len(eventsWithContext) + k] = m_eventsWithContext[k]

\* An inserted event is listed while it is pending, no later than its delay
\* from now.
Filed ==
  \A i \in 1 .. InsertedCount :
    /\ fate[posted[i].event] = "pending"
         => \E a \in m_events : a.impl = posted[i].event
    /\ \A a \in m_events : a.impl = posted[i].event
                             => a.ts <= m_currentTs + posted[i].timestamp

\* The list has the inserted events in the order of the posts.
Ordered ==
  \A i, j \in 1 .. InsertedCount :
    i < j /\ posted[i].timestamp <= posted[j].timestamp
      => \A a, b \in m_events :
           a.impl = posted[i].event /\ b.impl = posted[j].event => KeyLess(a, b)

PostedKnown == \A i \in DOMAIN posted : fate[posted[i].event] # "unused"

OrderInv == /\ QueueIsPosted /\ Filed /\ Ordered /\ PostedKnown
            /\ PostingOrderKept

LEMMA OrderInit == Init => OrderInv
<1> SUFFICES ASSUME Init PROVE OrderInv
  OBVIOUS
<1>1. /\ posted = <<>> /\ eventsWithContext = <<>> /\ m_eventsWithContext = <<>>
      /\ Len(<<>>) = 0 /\ DOMAIN <<>> = {}
  BY EmptySeq DEF Init
<1>2. InsertedCount = 0
  <2>1. /\ Len(posted) = 0 /\ Len(eventsWithContext) = 0
        /\ Len(m_eventsWithContext) = 0
    BY <1>1
  <2> QED
    BY <2>1 DEF InsertedCount
<1>3. /\ 1 .. InsertedCount = {} /\ DOMAIN posted = {}
      /\ 1 .. Len(eventsWithContext) = {} /\ 1 .. Len(m_eventsWithContext) = {}
  BY <1>1, <1>2
<1>4. InsertedCount >= 0
  BY <1>2
<1>5. QueueIsPosted
  BY <1>3, <1>4 DEF QueueIsPosted
<1>6. Filed /\ Ordered
  BY <1>3 DEF Filed, Ordered
<1>7. PostedKnown /\ PostingOrderKept
  BY <1>3 DEF PostedKnown, PostingOrderKept
<1> QED
  BY <1>5, <1>6, <1>7 DEF OrderInv

\* The lengths of the queues, and their members.
LEMMA QueueTypes ==
  ASSUME TypeOK
  PROVE  /\ Len(posted) \in Nat /\ DOMAIN posted = 1 .. Len(posted)
         /\ Len(eventsWithContext) \in Nat /\ Len(m_eventsWithContext) \in Nat
         /\ InsertedCount \in Int
         /\ \A i \in 1 .. Len(posted) : /\ posted[i] \in Posts
                                        /\ posted[i].event \in Events
                                        /\ posted[i].timestamp \in Nat
<1>1. /\ posted \in Seq(Posts) /\ eventsWithContext \in Seq(Posts)
      /\ m_eventsWithContext \in Seq(Posts)
  BY DEF TypeOK
<1>2. /\ Len(posted) \in Nat /\ DOMAIN posted = 1 .. Len(posted)
      /\ Len(eventsWithContext) \in Nat /\ Len(m_eventsWithContext) \in Nat
      /\ \A i \in 1 .. Len(posted) : posted[i] \in Posts
  BY <1>1, LenProperties
<1>3. ASSUME NEW i \in 1 .. Len(posted)
      PROVE  posted[i].event \in Events /\ posted[i].timestamp \in Nat
  BY <1>2, DelaysAssumption DEF Posts
<1>4. InsertedCount \in Int
  BY <1>2 DEF InsertedCount
<1> QED
  BY <1>2, <1>3, <1>4

\* A post that is not inserted waits in one of the queues, and nowhere else.
LEMMA StillQueued ==
  ASSUME TypeOK, PlaceInv, QueueIsPosted, NEW j \in 1 .. Len(posted),
         ~(j <= InsertedCount)
  PROVE  InList(posted[j].event) = 0 /\ InDestroy(posted[j].event) = 0
<1> DEFINE e == posted[j].event
           n == InsertedCount
<1>0. /\ eventsWithContext \in Seq(Posts) /\ m_eventsWithContext \in Seq(Posts)
      /\ DOMAIN eventsWithContext = 1 .. Len(eventsWithContext)
      /\ DOMAIN m_eventsWithContext = 1 .. Len(m_eventsWithContext)
  BY LenProperties DEF TypeOK
<1>1. e \in Events /\ posted[j] \in PostsOf(e)
  BY QueueTypes DEF PostsOf
<1>2. InSwapped(e) # 0 \/ InShared(e) # 0
  <2>1. CASE j <= n + Len(eventsWithContext)
    <3>1. j - n \in 1 .. Len(eventsWithContext) /\ n + (j - n) = j
      BY <2>1, QueueTypes
    <3>2. PICK k \in DOMAIN eventsWithContext : eventsWithContext[k] = posted[j]
      BY <1>0, <3>1 DEF QueueIsPosted
    <3>3. Count(PostsOf(e), eventsWithContext) > 0
      BY <1>0, <1>1, <3>2, CountPositive
    <3> QED
      BY <3>3 DEF InSwapped
  <2>2. CASE ~(j <= n + Len(eventsWithContext))
    <3> DEFINE m == n + Len(eventsWithContext)
    <3>1. j - m \in 1 .. Len(m_eventsWithContext) /\ m + (j - m) = j
      BY <2>2, QueueTypes DEF InsertedCount
    <3>2. PICK k \in DOMAIN m_eventsWithContext : m_eventsWithContext[k] = posted[j]
      BY <1>0, <3>1 DEF QueueIsPosted
    <3>3. Count(PostsOf(e), m_eventsWithContext) > 0
      BY <1>0, <1>1, <3>2, CountPositive
    <3> QED
      BY <3>3 DEF InShared
  <2> QED
    BY <2>1, <2>2
<1> HIDE DEF e
<1>3. InList(e) = 0 /\ InDestroy(e) = 0
  BY <1>1, <1>2 DEF PlaceInv, Placed, At, Nowhere, Once
<1> QED
  BY <1>3 DEF e

\* What a thread posts is pending.
LEMMA ThreadPending ==
  ASSUME TypeOK, PlaceInv, NEW t \in Threads, NEW p \in Posts, p = posting[t]
  PROVE  fate[p.event] = "pending"
<1>1. p.event \in Events /\ t \in PostedBy(p.event)
  BY DEF Posts, PostedBy
<1>2. IsFiniteSet(PostedBy(p.event))
  BY <1>1 DEF PlaceInv, Finite
<1>3. InThreads(p.event) # 0
  BY <1>1, <1>2, FS_EmptySet DEF InThreads
<1> QED
  BY <1>1, <1>3 DEF PlaceInv, Placed, At, Nowhere

-----------------------------------------------------------------------------
(* The order of the posted events: every step keeps it.                    *)

\* A step that queues nothing, lists only new events, takes from the list only
\* events whose story ends, and does not turn time back.
LEMMA OrderFrame ==
  ASSUME TypeInv, OrderInv, [Next]_vars,
         UNCHANGED <<posted, eventsWithContext, m_eventsWithContext>>,
         \A a \in m_events' : a \in m_events \/ fate[a.impl] = "unused",
         \A a \in m_events : a \in m_events' \/ fate'[a.impl] # "pending",
         m_currentTs' \in Nat, m_currentTs <= m_currentTs'
  PROVE  QueueIsPosted' /\ Filed' /\ Ordered' /\ PostedKnown'
<1>0. TypeOK /\ InsertedCount' = InsertedCount /\ InsertedCount \in Int
  BY QueueTypes DEF TypeInv, InsertedCount
<1>1. QueueIsPosted'
  BY <1>0 DEF OrderInv, QueueIsPosted
<1>2. \A i \in 1 .. Len(posted) :
        /\ fate[posted[i].event] # "unused" /\ fate'[posted[i].event] # "unused"
        /\ fate'[posted[i].event] = "pending" => fate[posted[i].event] = "pending"
  BY <1>0, QueueTypes, FateMoves DEF OrderInv, PostedKnown
<1>3. \A i \in 1 .. InsertedCount : i \in 1 .. Len(posted)
  BY <1>0, QueueTypes DEF InsertedCount
<1>4. PostedKnown'
  BY <1>0, <1>2, QueueTypes DEF PostedKnown
<1>5. \A i \in 1 .. InsertedCount : \A a \in m_events' :
        a.impl = posted[i].event => a \in m_events
  BY <1>2, <1>3
<1>6. ASSUME NEW i \in 1 .. InsertedCount
      PROVE  /\ fate'[posted[i].event] = "pending"
                  => \E a \in m_events' : a.impl = posted[i].event
             /\ \A a \in m_events' : a.impl = posted[i].event
                                      => a.ts <= m_currentTs' + posted[i].timestamp
  <2>1. fate'[posted[i].event] = "pending" => \E a \in m_events' : a.impl = posted[i].event
    BY <1>2, <1>3 DEF OrderInv, Filed
  <2>2. ASSUME NEW a \in m_events', a.impl = posted[i].event
        PROVE  a.ts <= m_currentTs' + posted[i].timestamp
    <3>1. a \in m_events /\ a.ts <= m_currentTs + posted[i].timestamp
      BY <1>5, <2>2 DEF OrderInv, Filed
    <3>2. a.ts \in Nat /\ m_currentTs \in Nat /\ posted[i].timestamp \in Nat
      BY <1>0, <1>3, <3>1, QueueTypes DEF TypeOK, Listed
    <3> QED
      BY <3>1, <3>2
  <2> QED
    BY <2>1, <2>2
<1>7. Filed'
  BY <1>0, <1>6 DEF Filed
<1>8. Ordered'
  BY <1>0, <1>5 DEF OrderInv, Ordered
<1> QED
  BY <1>1, <1>4, <1>7, <1>8

\* The main thread swaps the queues ...
LEMMA OrderSwap ==
  ASSUME TypeInv, PlaceInv, OrderInv, SwapQueues
  PROVE  QueueIsPosted' /\ Filed' /\ Ordered' /\ PostedKnown'
<1>1. /\ UNCHANGED <<posted, m_events, m_currentTs, fate>>
      /\ pc = "lock" /\ pc' = "swapped"
      /\ eventsWithContext' = m_eventsWithContext /\ m_eventsWithContext' = <<>>
  BY DEF SwapQueues, eventVars, timeVars, historyVars
<1>2. eventsWithContext = <<>> /\ Len(<<>>) = 0
  BY <1>1, EmptySeq DEF PlaceInv, Handed
<1>3. /\ Len(posted) \in Nat /\ Len(m_eventsWithContext) \in Nat
      /\ Len(eventsWithContext) = 0 /\ Len(m_eventsWithContext') = 0
      /\ Len(eventsWithContext') = Len(m_eventsWithContext)
  BY <1>1, <1>2, QueueTypes DEF TypeInv
<1>4. InsertedCount' = InsertedCount /\ InsertedCount \in Int
  BY <1>1, <1>3 DEF InsertedCount
<1>5. InsertedCount + Len(eventsWithContext) = InsertedCount
  BY <1>3, <1>4
<1>6. QueueIsPosted'
  BY <1>1, <1>3, <1>4, <1>5 DEF OrderInv, QueueIsPosted
<1>7. Filed' /\ Ordered' /\ PostedKnown'
  BY <1>1, <1>4 DEF OrderInv, Filed, Ordered, PostedKnown
<1> QED
  BY <1>6, <1>7

\* ... and inserts an event of the swapped queue, with the next uid.
LEMMA OrderInserted ==
  ASSUME TypeInv, KeyInv, PlaceInv, OrderInv, InsertPosted
  PROVE  QueueIsPosted' /\ Filed' /\ Ordered' /\ PostedKnown'
<1> DEFINE q == eventsWithContext
           n == InsertedCount
<1>0. TypeOK /\ q \in Seq(Posts) /\ q # <<>> /\ Finite /\ Placed
  BY DEF TypeInv, TypeOK, InsertPosted, PlaceInv
<1>1. /\ UNCHANGED <<posted, m_eventsWithContext, m_currentTs, fate>>
      /\ eventsWithContext' = Tail(q)
  BY DEF InsertPosted, timeVars, historyVars
<1>2. /\ Len(q) \in Nat /\ Len(q) > 0 /\ Tail(q) \in Seq(Posts)
      /\ Len(Tail(q)) = Len(q) - 1
      /\ \A k \in 1 .. Len(Tail(q)) : Tail(q)[k] = q[k + 1]
      /\ Head(q) = q[1]
  BY <1>0, HeadTailProperties, LenProperties, EmptySeq
<1>3. /\ Len(posted) \in Nat /\ Len(m_eventsWithContext) \in Nat /\ n \in Int
      /\ n >= 0
  BY <1>0, QueueTypes DEF OrderInv, QueueIsPosted
<1>4. InsertedCount' = n + 1
  BY <1>1, <1>2, <1>3 DEF InsertedCount
<1>5. n + 1 \in 1 .. Len(posted) /\ posted[n + 1] = Head(q)
  <2>1. 1 \in 1 .. Len(q)
    BY <1>2
  <2>2. posted[n + 1] = q[1]
    BY <2>1 DEF OrderInv, QueueIsPosted
  <2> QED
    BY <1>2, <1>3, <2>2 DEF InsertedCount
<1>6. PICK p \in Posts : p = Head(q) /\ p.event \in Events /\ p.timestamp \in Nat
  BY <1>0, <1>5, QueueTypes
<1> DEFINE e == p.event
           ev == NewEvent(e, m_currentTs + p.timestamp)
<1>7. m_events' = m_events \cup {ev}
  BY <1>6 DEF InsertPosted, InsertEvent
<1>8. ev.impl = e /\ ev.ts = m_currentTs + p.timestamp /\ ev.uid = m_uid
  BY DEF NewEvent
<1>9. QueueIsPosted'
  <2>1. ASSUME NEW k \in 1 .. Len(Tail(q)) PROVE posted[n + 1 + k] = Tail(q)[k]
    <3>1. k + 1 \in 1 .. Len(q) /\ n + (k + 1) = n + 1 + k
      BY <1>2, <1>3
    <3>2. posted[n + (k + 1)] = q[k + 1]
      BY <3>1 DEF OrderInv, QueueIsPosted
    <3> QED
      BY <1>2, <3>1, <3>2
  <2>2. n + 1 + Len(Tail(q)) = n + Len(q)
    BY <1>2, <1>3
  <2>3. InsertedCount' >= 0
    BY <1>3, <1>4
  <2> QED
    BY <1>1, <1>4, <2>1, <2>2, <2>3 DEF OrderInv, QueueIsPosted
<1>10. fate[e] = "pending" /\ InList(e) = 0
  <2>1. ~(n + 1 <= n)
    BY <1>3
  <2>2. InList(e) = 0
    BY <1>0, <1>5, <1>6, <2>1, StillQueued DEF OrderInv
  <2>3. PICK k \in DOMAIN q : q[k] = p
    BY <1>0, <1>2, <1>6, LenProperties
  <2>4. Count(PostsOf(e), q) > 0
    BY <1>0, <2>3, CountPositive DEF PostsOf
  <2>5. InSwapped(e) # 0
    BY <2>4 DEF InSwapped
  <2>6. e \in Events
    BY <1>6
  <2> HIDE DEF e
  <2>7. fate[e] = "pending"
    BY <1>0, <2>5, <2>6 DEF Placed, At, Nowhere
  <2> QED
    BY <2>2, <2>7
<1>11. \A a \in m_events : a.impl # e
  BY <1>0, <1>10, ListPositive
<1>12. \A i \in 1 .. n : posted[i].event # e
  BY <1>10, <1>11 DEF OrderInv, Filed
<1> HIDE DEF e, ev
<1>13. Filed'
  <2>1. ASSUME NEW i \in 1 .. n + 1
        PROVE  /\ fate[posted[i].event] = "pending"
                    => \E a \in m_events' : a.impl = posted[i].event
               /\ \A a \in m_events' : a.impl = posted[i].event
                                        => a.ts <= m_currentTs + posted[i].timestamp
    <3>1. CASE i = n + 1
      <4>1. posted[i] = p /\ posted[i].event = e
        BY <1>5, <1>6, <3>1 DEF e
      <4>2. ASSUME NEW a \in m_events', a.impl = e PROVE a = ev
        BY <1>7, <1>11, <4>2
      <4>3. ev.ts <= m_currentTs + p.timestamp
        BY <1>0, <1>6, <1>8 DEF TypeOK
      <4> QED
        BY <1>7, <1>8, <4>1, <4>2, <4>3
    <3>2. CASE i # n + 1
      <4>1. i \in 1 .. n
        BY <1>3, <3>2
      <4> QED
        BY <1>7, <1>8, <1>12, <4>1 DEF OrderInv, Filed
    <3> QED
      BY <3>1, <3>2
  <2> QED
    BY <1>1, <1>4, <2>1 DEF Filed
<1>14. Ordered'
  <2>1. ASSUME NEW i \in 1 .. n + 1, NEW j \in 1 .. n + 1, i < j,
               posted[i].timestamp <= posted[j].timestamp,
               NEW a \in m_events', NEW b \in m_events',
               a.impl = posted[i].event, b.impl = posted[j].event
        PROVE  KeyLess(a, b)
    <3>1. i \in 1 .. n /\ a \in m_events
      <4>1. i \in 1 .. n
        BY <1>3, <2>1
      <4> QED
        BY <1>7, <1>8, <1>12, <2>1, <4>1
    <3>2. CASE j = n + 1
      <4>1. posted[j] = p /\ posted[j].event = e
        BY <1>5, <1>6, <3>2 DEF e
      <4>2. b = ev
        BY <1>7, <1>11, <2>1, <4>1
      <4>3. a.ts <= m_currentTs + posted[i].timestamp
        BY <2>1, <3>1 DEF OrderInv, Filed
      <4>4. a.uid < m_uid /\ a.uid \in Int /\ m_uid \in Int /\ a.ts \in Nat
            /\ m_currentTs \in Nat
        BY <1>0, <3>1 DEF KeyInv, ListOrdered, TypeOK, Listed
      <4>5. posted[i].timestamp \in Nat
        BY <1>0, <1>3, <1>5, <3>1, QueueTypes
      <4>6. a.ts <= ev.ts
        BY <1>6, <1>8, <2>1, <4>1, <4>3, <4>4, <4>5
      <4> QED
        BY <1>6, <1>8, <4>2, <4>4, <4>6 DEF KeyLess
    <3>3. CASE j # n + 1
      <4>1. j \in 1 .. n
        BY <1>3, <3>3
      <4>2. b \in m_events
        BY <1>7, <1>8, <1>12, <2>1, <4>1
      <4> QED
        BY <2>1, <3>1, <4>1, <4>2 DEF OrderInv, Ordered
    <3> QED
      BY <3>2, <3>3
  <2> QED
    BY <1>1, <1>4, <2>1 DEF Ordered
<1>15. PostedKnown'
  BY <1>1 DEF OrderInv, PostedKnown
<1> QED
  BY <1>9, <1>13, <1>14, <1>15

\* A thread queues its event.
LEMMA OrderPushed ==
  ASSUME TypeInv, PlaceInv, OrderInv, NEW t \in Threads, PostPush(t)
  PROVE  QueueIsPosted' /\ Filed' /\ Ordered' /\ PostedKnown'
<1> DEFINE q == m_eventsWithContext
           n == InsertedCount
<1>0. /\ TypeOK /\ q \in Seq(Posts) /\ posted \in Seq(Posts)
      /\ eventsWithContext \in Seq(Posts)
  BY DEF TypeInv, TypeOK
<1>1. PICK p \in Posts : p = posting[t]
  BY DEF TypeInv, PostPush
<1>2. /\ UNCHANGED <<m_events, m_currentTs, fate, eventsWithContext>>
      /\ m_eventsWithContext' = Append(q, p) /\ posted' = Append(posted, p)
  BY <1>1 DEF PostPush, eventVars, timeVars
<1>3. /\ Len(Append(q, p)) = Len(q) + 1
      /\ \A k \in 1 .. Len(q) : Append(q, p)[k] = q[k]
      /\ Append(q, p)[Len(q) + 1] = p
      /\ Len(Append(posted, p)) = Len(posted) + 1
      /\ DOMAIN Append(posted, p) = 1 .. Len(posted) + 1
      /\ \A k \in 1 .. Len(posted) : Append(posted, p)[k] = posted[k]
      /\ Append(posted, p)[Len(posted) + 1] = p
  BY <1>0, AppendProperties, LenProperties
<1>4. /\ Len(posted) \in Nat /\ Len(q) \in Nat /\ n \in Int /\ n >= 0
      /\ Len(eventsWithContext) \in Nat /\ DOMAIN posted = 1 .. Len(posted)
      /\ n + Len(eventsWithContext) + Len(q) = Len(posted)
  BY <1>0, QueueTypes DEF OrderInv, QueueIsPosted, InsertedCount
<1>5. /\ Len(m_eventsWithContext') = Len(q) + 1 /\ Len(posted') = Len(posted) + 1
      /\ \A k \in 1 .. Len(q) : m_eventsWithContext'[k] = q[k]
      /\ m_eventsWithContext'[Len(q) + 1] = p
      /\ \A k \in 1 .. Len(posted) : posted'[k] = posted[k]
      /\ posted'[Len(posted) + 1] = p
      /\ DOMAIN posted' = 1 .. Len(posted) + 1
  BY <1>2, <1>3
<1>6. InsertedCount' = n
  BY <1>2, <1>4, <1>5 DEF InsertedCount
<1>7. QueueIsPosted'
  <2>1. ASSUME NEW k \in 1 .. Len(eventsWithContext)
        PROVE  posted'[n + k] = eventsWithContext[k]
    <3>1. n + k \in 1 .. Len(posted)
      BY <1>4
    <3> QED
      BY <1>5, <3>1 DEF OrderInv, QueueIsPosted
  <2>2. ASSUME NEW k \in 1 .. Len(q) + 1
        PROVE  posted'[n + Len(eventsWithContext) + k] = m_eventsWithContext'[k]
    <3>1. CASE k = Len(q) + 1
      <4>1. n + Len(eventsWithContext) + k = Len(posted) + 1
        BY <1>4, <3>1
      <4> QED
        BY <1>5, <3>1, <4>1
    <3>2. CASE k # Len(q) + 1
      <4>1. k \in 1 .. Len(q) /\ n + Len(eventsWithContext) + k \in 1 .. Len(posted)
        BY <1>4, <3>2
      <4> QED
        BY <1>5, <4>1 DEF OrderInv, QueueIsPosted
    <3> QED
      BY <3>1, <3>2
  <2> QED
    BY <1>2, <1>4, <1>5, <1>6, <2>1, <2>2 DEF QueueIsPosted
<1>8. \A i \in 1 .. n : posted'[i] = posted[i]
  BY <1>4, <1>5
<1>9. Filed'
  <2>1. ASSUME NEW i \in 1 .. n
        PROVE  /\ fate[posted'[i].event] = "pending"
                    => \E a \in m_events : a.impl = posted'[i].event
               /\ \A a \in m_events : a.impl = posted'[i].event
                     => a.ts <= m_currentTs + posted'[i].timestamp
    BY <1>8 DEF OrderInv, Filed
  <2> HIDE DEF n
  <2> QED
    BY <1>2, <1>6, <2>1 DEF Filed
<1>10. Ordered'
  <2>1. ASSUME NEW i \in 1 .. n, NEW j \in 1 .. n, i < j,
               posted'[i].timestamp <= posted'[j].timestamp,
               NEW a \in m_events, NEW b \in m_events,
               a.impl = posted'[i].event, b.impl = posted'[j].event
        PROVE  KeyLess(a, b)
    <3>1. posted'[i] = posted[i] /\ posted'[j] = posted[j]
      BY <1>8
    <3> QED
      BY <2>1, <3>1 DEF OrderInv, Ordered
  <2>2. m_events' = m_events
    BY <1>2
  <2> QED
    BY <1>6, <2>1, <2>2 DEF Ordered
<1>11. fate[p.event] = "pending"
  BY <1>0, <1>1, ThreadPending
<1>12. PostedKnown'
  <2>1. ASSUME NEW i \in 1 .. Len(posted) + 1 PROVE fate[posted'[i].event] # "unused"
    <3>1. CASE i = Len(posted) + 1
      BY <1>5, <1>11, <3>1
    <3>2. CASE i # Len(posted) + 1
      <4>1. i \in 1 .. Len(posted)
        BY <1>4, <3>2
      <4> QED
        BY <1>4, <1>5, <4>1 DEF OrderInv, PostedKnown
    <3> QED
      BY <3>1, <3>2
  <2> QED
    BY <1>2, <1>5, <2>1 DEF PostedKnown
<1> QED
  BY <1>7, <1>9, <1>10, <1>12

LEMMA OrderFiled ==
  ASSUME TypeInv, KeyInv, PlaceInv, OrderInv, [Next]_vars
  PROVE  QueueIsPosted' /\ Filed' /\ Ordered' /\ PostedKnown'
<1> USE DEF mainVars, eventVars, timeVars, destroyVars, queueVars, historyVars
<1>0. /\ TypeOK /\ m_currentTs \in Nat /\ m_currentTs <= m_currentTs
      /\ fate \in [Events -> Fates]
      /\ \A a \in m_events \cup ids : a.impl \in Events /\ a.ts \in Nat
  BY DEF TypeInv, TypeOK, Listed
<1>1. CASE SwapQueues
  BY <1>1, OrderSwap
<1>2. CASE InsertPosted
  BY <1>2, OrderInserted
<1>3. CASE \E t \in Threads : PostPush(t)
  BY <1>3, OrderPushed
<1>4. CASE \E e \in Events, d \in Delays :
             Schedule(e, d) \/ ScheduleWithContext(e, d)
  <2>1. PICK e \in Events, d \in Delays :
             Schedule(e, d) \/ ScheduleWithContext(e, d)
    BY <1>4
  <2> DEFINE ev == NewEvent(e, m_currentTs + d)
  <2>2. /\ fate[e] = "unused" /\ m_events' = m_events \cup {ev} /\ ev.impl = e
        /\ UNCHANGED <<posted, eventsWithContext, m_eventsWithContext, m_currentTs>>
    BY <2>1 DEF Schedule, ScheduleWithContext, Create, InsertEvent, NewEvent
  <2> HIDE DEF ev
  <2>3. /\ \A a \in m_events' : a \in m_events \/ fate[a.impl] = "unused"
        /\ \A a \in m_events : a \in m_events' \/ fate'[a.impl] # "pending"
        /\ m_currentTs' \in Nat /\ m_currentTs <= m_currentTs'
    BY <1>0, <2>2
  <2> QED
    BY <2>2, <2>3, OrderFrame
<1>5. CASE \E id \in ids : RemoveListed(id)
  <2>1. PICK id \in ids : RemoveListed(id)
    BY <1>5
  <2>2. UNCHANGED <<posted, eventsWithContext, m_eventsWithContext, m_currentTs>>
    BY <2>1 DEF RemoveListed
  <2>3. \/ m_events' = m_events
        \/ m_events' = m_events \ {id} /\ fate' = [fate EXCEPT ![id.impl] = "removed"]
    BY <2>1 DEF RemoveListed
  <2>4. /\ \A a \in m_events' : a \in m_events
        /\ \A a \in m_events : a \in m_events' \/ fate'[a.impl] # "pending"
        /\ m_currentTs' \in Nat /\ m_currentTs <= m_currentTs'
    BY <1>0, <2>2, <2>3
  <2> QED
    BY <2>2, <2>4, OrderFrame
<1>6. CASE ProcessOneEvent
  <2>1. PICK next \in m_events, end \in {"skipped", "ran"} :
          /\ m_events' = m_events \ {next}
          /\ fate' = [fate EXCEPT ![next.impl] = end]
          /\ m_currentTs' = next.ts
    BY <1>6 DEF ProcessOneEvent
  <2>2. UNCHANGED <<posted, eventsWithContext, m_eventsWithContext>>
    BY <1>6 DEF ProcessOneEvent
  <2>3. KeyLess(CurrentKey, next)
    BY DEF KeyInv, ListOrdered
  <2>4. m_currentTs' \in Nat /\ m_currentTs <= m_currentTs'
    BY <1>0, <2>1, <2>3 DEF KeyLess, CurrentKey
  <2>5. /\ \A a \in m_events' : a \in m_events
        /\ \A a \in m_events : a \in m_events' \/ fate'[a.impl] # "pending"
    BY <1>0, <2>1
  <2> QED
    BY <2>2, <2>4, <2>5, OrderFrame
<1>7. CASE Dispose
  <2>1. /\ UNCHANGED <<posted, eventsWithContext, m_eventsWithContext, m_currentTs>>
        /\ m_events' = {}
        /\ fate' = [e \in Events |-> IF \E ev \in m_events : ev.impl = e
                                     THEN "discarded" ELSE fate[e]]
    BY <1>7 DEF Dispose
  <2>2. /\ \A a \in m_events' : a \in m_events
        /\ \A a \in m_events : a \in m_events' \/ fate'[a.impl] # "pending"
        /\ m_currentTs' \in Nat /\ m_currentTs <= m_currentTs'
    BY <1>0, <2>1
  <2> QED
    BY <2>1, <2>2, OrderFrame
<1>8. ASSUME \/ \E e \in Events : ScheduleDestroy(e)
             \/ \E id \in ids : Cancel(id) \/ RemoveDestroy(id)
             \/ Stop
             \/ RunBegins \/ DestroyBegins \/ ReadFlag \/ ReleaseQueue
             \/ AllInserted \/ ResetStop \/ HandlerReturns \/ RunReturns
             \/ DestroyNext \/ DestroyHandlerReturns \/ DisposeBegins
             \/ \E t \in Threads : \/ PostRelease(t)
                                   \/ \E e \in Events, d \in Delays :
                                        PostBegins(t, e, d)
             \/ UNCHANGED vars
      PROVE  QueueIsPosted' /\ Filed' /\ Ordered' /\ PostedKnown'
  <2>1. UNCHANGED <<posted, eventsWithContext, m_eventsWithContext, m_events,
                    m_currentTs>>
    BY <1>8 DEF ScheduleDestroy, Cancel, RemoveDestroy, Stop, RunBegins,
       DestroyBegins, ReadFlag, ReleaseQueue, AllInserted, ResetStop,
       HandlerReturns, RunReturns, DestroyNext, DestroyHandlerReturns,
       DisposeBegins, PostRelease, PostBegins, vars
  <2>2. m_currentTs' \in Nat /\ m_currentTs <= m_currentTs'
    BY <1>0, <2>1
  <2> QED
    BY <2>1, <2>2, OrderFrame
<1> QED
  BY <1>1, <1>2, <1>3, <1>4, <1>5, <1>6, <1>7, <1>8
  DEF Next, Call, MainStep, ProcessEventsWithContext, ThreadStep, Disposed

\* Only PostPush adds to the history of the posts.
LEMMA PostedGrows ==
  ASSUME TypeInv, PlaceInv, [Next]_vars
  PROVE  \/ posted' = posted
         \/ \E p \in Posts : /\ posted' = Append(posted, p)
                             /\ fate'[p.event] = "pending"
<1>1. CASE \E t \in Threads : PostPush(t)
  <2>1. PICK t \in Threads : PostPush(t)
    BY <1>1
  <2>2. PICK p \in Posts : p = posting[t]
    BY <2>1 DEF TypeInv, PostPush
  <2>3. posted' = Append(posted, p) /\ UNCHANGED fate
    BY <2>1, <2>2 DEF PostPush
  <2>4. fate[p.event] = "pending"
    BY <2>2, ThreadPending DEF TypeInv
  <2> QED
    BY <2>3, <2>4
<1>2. CASE ~\E t \in Threads : PostPush(t)
  BY <1>2
  DEF Next, Call, Schedule, ScheduleWithContext, ScheduleDestroy, Cancel,
      RemoveDestroy, RemoveListed, Stop, RunBegins, DestroyBegins, MainStep,
      ProcessEventsWithContext, ReadFlag, SwapQueues, ReleaseQueue,
      InsertPosted, AllInserted, ResetStop, ProcessOneEvent, HandlerReturns,
      RunReturns, DestroyNext, DestroyHandlerReturns, DisposeBegins, Dispose,
      PostBegins, ThreadStep, PostRelease, Disposed, vars, historyVars
<1> QED
  BY <1>1, <1>2

\* The event that runs now has no earlier post of no later a delay behind it.
LEMMA OrderAtRun ==
  ASSUME TypeInv, KeyInv, PlaceInv, OrderInv, [Next]_vars,
         NEW i \in 1 .. Len(posted), NEW j \in 1 .. Len(posted), i < j,
         posted[i].timestamp <= posted[j].timestamp,
         fate[posted[j].event] # "ran", fate'[posted[j].event] = "ran",
         fate[posted[i].event] = "pending"
  PROVE  fate'[posted[i].event] # "pending"
<1> DEFINE e == posted[j].event
           f == posted[i].event
<1>0. TypeOK /\ e \in Events /\ f \in Events /\ InsertedCount \in Int
  BY QueueTypes DEF TypeInv
<1>1. CASE \E next \in m_events :
             /\ IsEarliest(next, m_events) /\ next.impl = e /\ e \notin m_cancel
             /\ ProcessOneEvent /\ m_events' = m_events \ {next}
  <2>1. PICK next \in m_events :
             /\ IsEarliest(next, m_events) /\ next.impl = e
             /\ ProcessOneEvent /\ m_events' = m_events \ {next}
    BY <1>1
  <2>2. InList(e) # 0
    BY <2>1, ListPositive DEF PlaceInv
  <2>3. j <= InsertedCount
    BY <1>0, <2>2, StillQueued DEF OrderInv
  <2>4. i \in 1 .. InsertedCount /\ j \in 1 .. InsertedCount
    BY <1>0, <2>3
  <2>5. PICK a \in m_events : a.impl = f
    BY <2>4 DEF OrderInv, Filed
  <2>6. KeyLess(a, next)
    BY <2>1, <2>4, <2>5 DEF OrderInv, Ordered
  <2>7. /\ a.ts \in Int /\ a.uid \in Int /\ next.ts \in Int /\ next.uid \in Int
    BY <1>0 DEF TypeOK, Listed
  <2>8. ~(a = next \/ KeyLess(next, a))
    BY <2>6, <2>7 DEF KeyLess
  <2> QED
    BY <2>1, <2>8 DEF IsEarliest
<1>2. CASE m_destroyEvents # <<>> /\ Head(m_destroyEvents).impl = e
  <2>1. m_destroyEvents \in Seq(DestroyIds)
    BY <1>0 DEF TypeOK, DestroyIds
  <2>2. 1 \in DOMAIN m_destroyEvents /\ Head(m_destroyEvents) = m_destroyEvents[1]
    BY <1>2, <2>1, LenProperties, EmptySeq
  <2>3. PICK k \in DOMAIN m_destroyEvents : m_destroyEvents[k].impl = e
    BY <1>2, <2>2
  <2>4. fate[e] = "pending"
    BY <1>0, <2>3, QueuedPending
  <2>5. m_destroyEvents[k] \in IdsOf(e)
    BY <2>1, <2>3, LenProperties DEF IdsOf
  <2>6. Count(IdsOf(e), m_destroyEvents) > 0
    BY <2>1, <2>3, <2>5, CountPositive
  <2>7. InDestroy(e) # 0
    BY <2>6 DEF InDestroy
  <2>8. j <= InsertedCount
    BY <1>0, <2>7, StillQueued DEF OrderInv
  <2>9. PICK a \in m_events : a.impl = e
    BY <1>0, <2>4, <2>8 DEF OrderInv, Filed
  <2>10. InList(e) # 0
    BY <2>9, ListPositive DEF PlaceInv
  <2> HIDE DEF e
  <2>11. FALSE
    BY <1>0, <2>7, <2>10 DEF PlaceInv, Placed, At, Nowhere, Once
  <2> QED
    BY <2>11
<1> HIDE DEF e, f
<1>3. fate[e] # "ran" /\ fate'[e] = "ran"
  BY DEF e
<1> QED
  BY <1>0, <1>1, <1>2, <1>3, RunsNow

LEMMA OrderNext ==
  ASSUME TypeInv, KeyInv, PlaceInv, OrderInv, [Next]_vars
  PROVE  OrderInv'
<1>0. TypeOK /\ posted \in Seq(Posts)
  BY DEF TypeInv, TypeOK
<1>1. \A i \in 1 .. Len(posted) :
        /\ fate[posted[i].event] # "unused"
        /\ fate'[posted[i].event] = "pending" => fate[posted[i].event] = "pending"
  BY <1>0, QueueTypes, FateMoves DEF OrderInv, PostedKnown
<1>2. ASSUME NEW i \in 1 .. Len(posted), NEW j \in 1 .. Len(posted), i < j,
             posted[i].timestamp <= posted[j].timestamp,
             fate'[posted[j].event] = "ran"
      PROVE  fate'[posted[i].event] # "pending"
  <2>1. CASE fate[posted[j].event] = "ran"
    BY <1>0, <1>1, <1>2, <2>1, QueueTypes DEF OrderInv, PostingOrderKept
  <2>2. CASE fate[posted[j].event] # "ran"
    BY <1>1, <1>2, <2>2, OrderAtRun
  <2> QED
    BY <2>1, <2>2
<1>3. CASE posted' = posted
  BY <1>0, <1>2, <1>3, QueueTypes, OrderFiled DEF OrderInv, PostingOrderKept
<1>4. CASE \E p \in Posts : posted' = Append(posted, p) /\ fate'[p.event] = "pending"
  <2>1. PICK p \in Posts : posted' = Append(posted, p) /\ fate'[p.event] = "pending"
    BY <1>4
  <2>2. /\ Len(posted) \in Nat /\ DOMAIN posted' = 1 .. Len(posted) + 1
        /\ \A k \in 1 .. Len(posted) : posted'[k] = posted[k]
        /\ posted'[Len(posted) + 1] = p
    BY <1>0, <2>1, AppendProperties, LenProperties
  <2>3. ASSUME NEW i \in DOMAIN posted', NEW j \in DOMAIN posted', i < j,
               posted'[i].timestamp <= posted'[j].timestamp,
               fate'[posted'[j].event] = "ran"
        PROVE  fate'[posted'[i].event] # "pending"
    <3>1. j # Len(posted) + 1
      BY <2>1, <2>2, <2>3
    <3>2. i \in 1 .. Len(posted) /\ j \in 1 .. Len(posted)
      BY <2>2, <2>3, <3>1
    <3> QED
      BY <1>2, <2>2, <2>3, <3>2
  <2>4. PostingOrderKept'
    BY <2>3 DEF PostingOrderKept
  <2> QED
    BY <2>4, OrderFiled DEF OrderInv
<1> QED
  BY <1>3, <1>4, PostedGrows

LEMMA OrderInvariant == Spec /\ []NoWrap => []OrderInv
BY OrderInit, OrderNext, TypeInvariant, KeyInvariant, PlaceInvariant, PTL DEF Spec

\* Posts take effect in the order in which they were queued, as long as the uid
\* counter does not wrap.
THEOREM PostingOrderCorrect == Spec /\ []NoWrap => []PostingOrderKept
<1>1. OrderInv => PostingOrderKept
  BY DEF OrderInv
<1> QED
  BY <1>1, OrderInvariant, PTL

=============================================================================
