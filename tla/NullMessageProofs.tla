------------------------- MODULE NullMessageProofs -------------------------
(***************************************************************************)
(* What holds of NullMessage for any ranks, links, delays and programs.    *)
(***************************************************************************)
EXTENDS NullMessage, FiniteSetTheorems, WellFoundedInduction, TLAPS

LEMMA ConstantsTyped ==
  /\ IsFiniteSet(Ranks)
  /\ From \in [Links -> Ranks] /\ To \in [Links -> Ranks]
  /\ Delay \in [Links -> Nat] /\ TxTime \in [Links -> Nat]
  /\ Tune \in Nat /\ FlowControl \in BOOLEAN
  /\ StopTime \in Nat /\ Starts \subseteq Nat /\ Delays \subseteq Nat
  /\ MaxSends \in Nat /\ MaxScheds \in Nat
BY NullMessageAssumption, DistributedAssumption

-----------------------------------------------------------------------------
(* Least times.                                                            *)

LEMMA NatMin ==
  ASSUME NEW T \in SUBSET Nat, T # {}
  PROVE  \E x \in T : \A y \in T : x <= y
<1>1. PICK R : R = {ss \in Nat \X Nat : ss[1] < ss[2]}
  OBVIOUS
<1>2. IsWellFoundedOn(R, Nat)
  BY <1>1, NatLessThanWellFounded DEF OpToRel
<1>3. PICK x \in T : \A y \in T : <<y, x>> \notin R
  BY <1>2, WFMin
<1>4. ASSUME NEW y \in T
      PROVE  x <= y
  <2>1. <<y, x>> \in Nat \X Nat /\ <<y, x>> \notin R
    BY <1>3
  <2>2. ~(y < x)
    BY <1>1, <2>1
  <2> QED
    BY <2>2
<1> QED
  BY <1>4

LEMMA LeastIs ==
  ASSUME NEW T \in SUBSET Nat, T # {}
  PROVE  Least(T) \in T /\ Least(T) \in Nat /\ \A u \in T : Least(T) <= u
BY NatMin DEF Least

\* Every rank has a neighbour.
LEMMA Neighbourly ==
  ASSUME NEW r \in Ranks
  PROVE  /\ Neighbours(r) # {} /\ Neighbours(r) \subseteq Ranks
         /\ \E s \in Ranks : <<s, r>> \in Bundles /\ r \in Neighbours(s)
         /\ \A s \in Ranks : <<r, s>> \in Bundles <=> s \in Neighbours(r)
         /\ \A s \in Ranks : <<s, r>> \in Bundles <=> s \in Neighbours(r)
<1>1. \A s \in Ranks : <<r, s>> \in Bundles <=> s \in Neighbours(r)
  BY DEF Bundles, Neighbours
<1>2. \A s \in Ranks : <<s, r>> \in Bundles <=> r \in Neighbours(s)
  BY DEF Bundles, Neighbours
<1>3. \A s \in Ranks : r \in Neighbours(s) <=> s \in Neighbours(r)
  BY NullMessageAssumption, DistributedAssumption DEF Neighbours, LinksTo
<1>4. Neighbours(r) # {} /\ Neighbours(r) \subseteq Ranks
  BY NullMessageAssumption, DistributedAssumption DEF Neighbours, LinksTo
<1> QED
  BY <1>1, <1>2, <1>3, <1>4

LEMMA DelayIs ==
  ASSUME NEW r \in Ranks, NEW s \in Ranks, <<r, s>> \in Bundles
  PROVE  /\ BundleDelay(r, s) \in Nat /\ NullDelay(r, s) \in Nat
         /\ \A l \in Links : From[l] = r /\ To[l] = s
                               => BundleDelay(r, s) <= Delay[l]
<1>1. LinksTo(r, s) # {} /\ LinksTo(r, s) \subseteq Links
  BY DEF Bundles, LinksTo
<1>2. PICK T : T = {Delay[l] : l \in LinksTo(r, s)}
  OBVIOUS
<1>3. T \in SUBSET Nat /\ T # {} /\ BundleDelay(r, s) = Least(T)
  BY <1>1, <1>2, ConstantsTyped DEF BundleDelay
<1>4. BundleDelay(r, s) \in Nat /\ \A u \in T : BundleDelay(r, s) <= u
  BY <1>3, LeastIs
<1>5. NullDelay(r, s) \in Nat
  <2>1. PICK n \in Nat : n = Tune * BundleDelay(r, s)
    BY <1>4, ConstantsTyped
  <2>2. n \div 100 \in Nat
    BY <2>1
  <2> QED
    BY <2>1, <2>2 DEF NullDelay
<1> QED
  BY <1>2, <1>4, <1>5 DEF LinksTo

-----------------------------------------------------------------------------
(* Events and guarantees.                                                  *)

LEMMA EventTyped ==
  ASSUME NEW ts \in Nat, NEW uid \in Nat,
         NEW what \in {"app", "complete", "null", "stop", "cancelled"},
         NEW arg \in Ranks \cup Links
  PROVE  /\ Event(ts, uid, what, arg) \in Events
         /\ Event(ts, uid, what, arg).ts = ts
         /\ Event(ts, uid, what, arg).uid = uid
         /\ Event(ts, uid, what, arg).what = what
         /\ Event(ts, uid, what, arg).arg = arg
BY DEF Event, Events

LEMMA FieldsTyped ==
  ASSUME NEW e \in Events
  PROVE  /\ e.ts \in Nat /\ e.uid \in Nat /\ e.arg \in Ranks \cup Links
         /\ e.what \in {"app", "complete", "null", "stop", "cancelled"}
BY DEF Events

\* An event list has a first event.
LEMMA FirstIs ==
  ASSUME NEW E \in SUBSET Events, E # {}
  PROVE  /\ First(E) \in E /\ NextTime(E) \in Nat
         /\ \A f \in E : NextTime(E) <= f.ts
<1>1. PICK t \in {e.ts : e \in E} : \A u \in {e.ts : e \in E} : t <= u
  <2>1. {e.ts : e \in E} \in SUBSET Nat /\ {e.ts : e \in E} # {}
    BY FieldsTyped
  <2> QED
    BY <2>1, NatMin
<1>2. PICK F : F = {e \in E : e.ts = t}
  OBVIOUS
<1>3. PICK n \in {e.uid : e \in F} : \A m \in {e.uid : e \in F} : n <= m
  <2>1. {e.uid : e \in F} \in SUBSET Nat /\ {e.uid : e \in F} # {}
    BY <1>1, <1>2, FieldsTyped
  <2> QED
    BY <2>1, NatMin
<1>4. PICK e \in F : e.uid = n
  BY <1>3
<1>5. ASSUME NEW f \in E
      PROVE  ~KeyLess(f, e)
  <2>1. /\ f.ts \in Nat /\ f.uid \in Nat /\ e.ts = t /\ t \in Nat
        /\ e.uid \in Nat /\ t <= f.ts
    BY <1>1, <1>2, FieldsTyped
  <2>2. f.ts = t => n <= f.uid
    BY <1>2, <1>3
  <2> QED
    BY <1>4, <2>1, <2>2 DEF KeyLess
<1>6. First(E) \in E /\ \A f \in E : ~KeyLess(f, First(E))
  BY <1>2, <1>5 DEF First
<1>7. ASSUME NEW f \in E
      PROVE  First(E).ts <= f.ts
  <2>1. First(E).ts \in Nat /\ f.ts \in Nat
    BY <1>6, FieldsTyped
  <2>2. ~(f.ts < First(E).ts)
    BY <1>6 DEF KeyLess
  <2> QED
    BY <2>1, <2>2
<1> QED
  BY <1>6, <1>7, FieldsTyped DEF NextTime

LEMMA GuaranteeIs ==
  ASSUME NEW r \in Ranks, NEW s \in Ranks, <<r, s>> \in Bundles,
         NEW E \in SUBSET Events, E # {}, m_safeTime[r] \in Nat,
         NEW g, g = Guarantee(r, s, E)
  PROVE  /\ g \in Nat /\ g <= m_safeTime[r] + BundleDelay(r, s)
         /\ \A e \in E : g <= e.ts + BundleDelay(r, s)
         /\ \A x \in Nat :
              /\ x <= m_safeTime[r] + BundleDelay(r, s)
              /\ \A e \in E : x <= e.ts + BundleDelay(r, s)
              => x <= g
<1>1. /\ First(E) \in E /\ NextTime(E) \in Nat
      /\ \A f \in E : NextTime(E) <= f.ts
  BY FirstIs
<1>2. BundleDelay(r, s) \in Nat
  BY DelayIs
<1>3. \A e \in E : e.ts \in Nat
  BY FieldsTyped
<1>4. g = (IF NextTime(E) <= m_safeTime[r] THEN NextTime(E)
           ELSE m_safeTime[r]) + BundleDelay(r, s)
  BY DEF Guarantee, Smaller
<1>5. /\ g \in Nat /\ g <= m_safeTime[r] + BundleDelay(r, s)
      /\ g <= NextTime(E) + BundleDelay(r, s)
      /\ \/ g = m_safeTime[r] + BundleDelay(r, s)
         \/ g = NextTime(E) + BundleDelay(r, s)
  BY <1>1, <1>2, <1>4
<1>6. ASSUME NEW e \in E
      PROVE  g <= e.ts + BundleDelay(r, s)
  <2>1. NextTime(E) <= e.ts /\ e.ts \in Nat
    BY <1>1, <1>3
  <2> QED
    BY <1>1, <1>2, <1>5, <2>1
<1>7. NextTime(E) = First(E).ts
  BY DEF NextTime
<1> QED
  BY <1>1, <1>5, <1>6, <1>7

-----------------------------------------------------------------------------
(* What a bundle has on its way.                                           *)

Messages == [rx : Nat, guarantee : Nat]

LEMMA MessageTyped ==
  ASSUME NEW rx \in Nat, NEW guarantee \in Nat
  PROVE  /\ Message(rx, guarantee) \in Messages
         /\ Message(rx, guarantee).rx = rx
         /\ Message(rx, guarantee).guarantee = guarantee
BY DEF Message, Messages

\* The time t is no later than m allows: the guarantee is not taken back, and
\* the packet not due before it.
NoLater(t, m) == /\ t <= m.guarantee
                 /\ m.rx # NullMessageMark => t <= m.rx

\* The guarantees given on a bundle, g first and those in ch to come.
Given(g, ch) == {g} \cup {ch[i].guarantee : i \in DOMAIN ch}

\* They are kept.
Kept(g, ch) ==
  /\ \A i \in DOMAIN ch : NoLater(g, ch[i])
  /\ \A i, j \in DOMAIN ch : i < j => NoLater(ch[i].guarantee, ch[j])

LEMMA GivenTyped ==
  ASSUME NEW g \in Nat, NEW ch \in Seq(Messages)
  PROVE  Given(g, ch) \subseteq Nat
<1>1. \A i \in DOMAIN ch : ch[i] \in Messages
  OBVIOUS
<1>2. \A m \in Messages : m.guarantee \in Nat
  BY DEF Messages
<1> QED
  BY <1>1, <1>2 DEF Given

\* The message m may follow them.
MayFollow(g, ch, m) == \A x \in Given(g, ch) : NoLater(x, m)

LEMMA KeptAppend ==
  ASSUME NEW g \in Nat, NEW ch \in Seq(Messages), Kept(g, ch),
         NEW m \in Messages, MayFollow(g, ch, m),
         NEW new, new = Append(ch, m)
  PROVE  /\ new \in Seq(Messages) /\ Kept(g, new)
         /\ \A x \in Given(g, new) : x \in Given(g, ch) \/ x = m.guarantee
<1>1. /\ new \in Seq(Messages) /\ Len(new) = Len(ch) + 1 /\ Len(ch) \in Nat
      /\ DOMAIN new = 1 .. Len(ch) + 1 /\ DOMAIN ch = 1 .. Len(ch)
      /\ new[Len(ch) + 1] = m
      /\ \A i \in 1 .. Len(ch) : new[i] = ch[i]
  OBVIOUS
<1>2. \A x \in Given(g, new) : x \in Given(g, ch) \/ x = m.guarantee
  BY <1>1 DEF Given
<1>3. ASSUME NEW i \in DOMAIN new
      PROVE  NoLater(g, new[i])
  <2>1. i \in 1 .. Len(ch) \/ i = Len(ch) + 1
    BY <1>1
  <2>2. NoLater(g, m)
    BY DEF Given, MayFollow
  <2> QED
    BY <1>1, <2>1, <2>2 DEF Kept
<1>4. ASSUME NEW i \in DOMAIN new, NEW j \in DOMAIN new, i < j
      PROVE  NoLater(new[i].guarantee, new[j])
  <2>1. i \in 1 .. Len(ch) /\ (j \in 1 .. Len(ch) \/ j = Len(ch) + 1)
    BY <1>1, <1>4
  <2>2. CASE j \in 1 .. Len(ch)
    BY <1>1, <1>4, <2>1, <2>2 DEF Kept
  <2>3. CASE j = Len(ch) + 1
    <3>1. ch[i].guarantee \in Given(g, ch)
      BY <1>1, <2>1 DEF Given
    <3> QED
      BY <1>1, <2>1, <2>3, <3>1 DEF MayFollow
  <2> QED
    BY <2>1, <2>2, <2>3
<1> QED
  BY <1>1, <1>2, <1>3, <1>4 DEF Kept

LEMMA KeptTail ==
  ASSUME NEW g \in Nat, NEW ch \in Seq(Messages), Kept(g, ch), ch # <<>>,
         NEW m, m = Head(ch), NEW new, new = Tail(ch)
  PROVE  /\ m \in Messages /\ new \in Seq(Messages)
         /\ NoLater(g, m) /\ Kept(m.guarantee, new)
         /\ Given(m.guarantee, new) \subseteq Given(g, ch)
<1>1. /\ new \in Seq(Messages) /\ Len(ch) \in Nat \ {0}
      /\ DOMAIN new = 1 .. Len(ch) - 1 /\ DOMAIN ch = 1 .. Len(ch)
      /\ m = ch[1] /\ m \in Messages
      /\ \A i \in 1 .. Len(ch) - 1 : new[i] = ch[i + 1]
  OBVIOUS
<1>2. NoLater(g, m)
  BY <1>1 DEF Kept
<1>3. ASSUME NEW i \in DOMAIN new
      PROVE  /\ i + 1 \in DOMAIN ch /\ 1 \in DOMAIN ch /\ 1 < i + 1
             /\ new[i] = ch[i + 1]
  BY <1>1
<1>4. \A i \in DOMAIN new : NoLater(m.guarantee, new[i])
  BY <1>1, <1>3 DEF Kept
<1>5. ASSUME NEW i \in DOMAIN new, NEW j \in DOMAIN new, i < j
      PROVE  NoLater(new[i].guarantee, new[j])
  <2>1. i + 1 < j + 1
    BY <1>1, <1>5
  <2> QED
    BY <1>3, <2>1 DEF Kept
<1>6. Given(m.guarantee, new) \subseteq Given(g, ch)
  BY <1>1, <1>3 DEF Given
<1> QED
  BY <1>1, <1>2, <1>4, <1>5, <1>6 DEF Kept

-----------------------------------------------------------------------------
(* The invariant.                                                          *)

Typed ==
  /\ m_currentTs \in [Ranks -> Nat] /\ m_uid \in [Ranks -> Nat]
  /\ m_events \in [Ranks -> SUBSET Events]
  /\ m_safeTime \in [Ranks -> Nat] /\ m_guaranteeTime \in [Bundles -> Nat]
  /\ m_stop \in [Ranks -> BOOLEAN]
  /\ pc \in [Ranks -> {"loop", "handler", "receive", "done"}]
  /\ busy \subseteq Links
  /\ channel \in [Bundles -> Seq(Messages)]
  /\ nSends \in 0 .. MaxSends /\ nScheds \in 0 .. MaxScheds

\* The events of a rank are not before its time, nor is its time beyond its
\* safe time; the event of Stop is there until it has run, and for each
\* neighbour, and no one else, the event of the next null message.
Local(r) ==
  /\ m_currentTs[r] <= m_safeTime[r]
  /\ \A e \in m_events[r] : m_currentTs[r] <= e.ts
  /\ m_stop[r] \/ \E e \in m_events[r] : e.what = "stop"
  /\ \A e \in m_events[r] : e.what = "null" => e.arg \in Neighbours(r)
  /\ \A s \in Neighbours(r) : \E e \in m_events[r] : NullMessageEvents(r, s) = {e}

KeptOn(r, s) == Kept(m_guaranteeTime[<<r, s>>], channel[<<r, s>>])

\* No guarantee reaches further than the delay of the bundle beyond what may
\* still make the rank send: its events but for the null messages to s itself,
\* packets that arrive after its safe time, and the handler that runs.
Promise(r, s, x) ==
  /\ x <= m_safeTime[r] + BundleDelay(r, s)
  /\ \A e \in m_events[r] :
       (e.what = "null" /\ e.arg = s) \/ x <= e.ts + BundleDelay(r, s)
  /\ pc[r] = "handler" => x <= m_currentTs[r] + BundleDelay(r, s)

Promised(r, s) ==
  \A x \in Given(m_guaranteeTime[<<r, s>>], channel[<<r, s>>]) : Promise(r, s, x)

Heeded(r, s) == m_safeTime[s] <= m_guaranteeTime[<<r, s>>]

Inv ==
  /\ Typed
  /\ \A r \in Ranks : Local(r)
  /\ \A r, s \in Ranks : <<r, s>> \in Bundles
                           => KeptOn(r, s) /\ Promised(r, s) /\ Heeded(r, s)

NoSelf == \A r \in Ranks : <<r, r>> \notin Bundles
LEMMA NotToItself == NoSelf
BY NullMessageAssumption, DistributedAssumption DEF NoSelf, Bundles, LinksTo

\* A step of the rank r concerns r, what it sends and what it receives.
OthersLeft(r) ==
  /\ \A q \in Ranks \ {r} :
       /\ m_currentTs'[q] = m_currentTs[q] /\ m_events'[q] = m_events[q]
       /\ m_safeTime'[q] = m_safeTime[q] /\ m_stop'[q] = m_stop[q]
       /\ pc'[q] = pc[q]
  /\ \A p, q \in Ranks \ {r} :
       <<p, q>> \in Bundles
         => /\ m_guaranteeTime'[<<p, q>>] = m_guaranteeTime[<<p, q>>]
            /\ channel'[<<p, q>>] = channel[<<p, q>>]

Outgoing(r) ==
  \A s \in Ranks :
    <<r, s>> \in Bundles
      => /\ m_guaranteeTime'[<<r, s>>] = m_guaranteeTime[<<r, s>>]
         /\ KeptOn(r, s)' /\ Promised(r, s)'

Incoming(r) ==
  \A s \in Ranks :
    <<s, r>> \in Bundles
      => /\ KeptOn(s, r)' /\ Heeded(s, r)'
         /\ Given(m_guaranteeTime'[<<s, r>>], channel'[<<s, r>>])
              \subseteq Given(m_guaranteeTime[<<s, r>>], channel[<<s, r>>])

LEMMA StepKeeps ==
  ASSUME Inv, Typed', NEW r \in Ranks, OthersLeft(r), Local(r)',
         Outgoing(r), Incoming(r)
  PROVE  Inv'
<1>1. ASSUME NEW q \in Ranks
      PROVE  Local(q)'
  <2>1. CASE q = r
    BY <2>1
  <2>2. CASE q # r
    <3>1. /\ m_currentTs'[q] = m_currentTs[q] /\ m_events'[q] = m_events[q]
          /\ m_safeTime'[q] = m_safeTime[q] /\ m_stop'[q] = m_stop[q]
      BY <2>2 DEF OthersLeft
    <3>2. Local(q)
      BY DEF Inv
    <3> QED
      BY <3>1, <3>2 DEF Local, NullMessageEvents
  <2> QED
    BY <2>1, <2>2
<1>2. ASSUME NEW p \in Ranks, NEW q \in Ranks, <<p, q>> \in Bundles
      PROVE  KeptOn(p, q)' /\ Promised(p, q)' /\ Heeded(p, q)'
  <2>1. p # q
    BY <1>2, NotToItself DEF NoSelf
  <2>2. KeptOn(p, q) /\ Promised(p, q) /\ Heeded(p, q)
    BY <1>2 DEF Inv
  <2>3. CASE p = r
    <3>1. /\ m_guaranteeTime'[<<p, q>>] = m_guaranteeTime[<<p, q>>]
          /\ m_safeTime'[q] = m_safeTime[q]
      BY <1>2, <2>1, <2>3 DEF OthersLeft, Outgoing
    <3> QED
      BY <1>2, <2>2, <2>3, <3>1 DEF Outgoing, Heeded
  <2>4. CASE q = r
    <3>1. /\ m_currentTs'[p] = m_currentTs[p] /\ m_events'[p] = m_events[p]
          /\ m_safeTime'[p] = m_safeTime[p] /\ pc'[p] = pc[p]
      BY <2>1, <2>4 DEF OthersLeft
    <3>2. \A x : Promise(p, q, x) => Promise(p, q, x)'
      BY <3>1 DEF Promise
    <3>3. /\ KeptOn(p, q)' /\ Heeded(p, q)'
          /\ Given(m_guaranteeTime'[<<p, q>>], channel'[<<p, q>>])
               \subseteq Given(m_guaranteeTime[<<p, q>>], channel[<<p, q>>])
      BY <1>2, <2>4 DEF Incoming
    <3>4. Promised(p, q)'
      BY <2>2, <3>2, <3>3 DEF Promised
    <3> QED
      BY <3>3, <3>4
  <2>5. CASE p # r /\ q # r
    <3>1. /\ m_currentTs'[p] = m_currentTs[p] /\ m_events'[p] = m_events[p]
          /\ m_safeTime'[p] = m_safeTime[p] /\ pc'[p] = pc[p]
          /\ m_safeTime'[q] = m_safeTime[q]
          /\ m_guaranteeTime'[<<p, q>>] = m_guaranteeTime[<<p, q>>]
          /\ channel'[<<p, q>>] = channel[<<p, q>>]
      BY <1>2, <2>5 DEF OthersLeft
    <3>2. \A x : Promise(p, q, x) => Promise(p, q, x)'
      BY <3>1 DEF Promise
    <3> QED
      BY <2>2, <3>1, <3>2 DEF Promised, KeptOn, Heeded
  <2> QED
    BY <2>3, <2>4, <2>5
<1> QED
  BY <1>1, <1>2 DEF Inv

\* Nothing is received.
LEMMA IncomingSame ==
  ASSUME Inv, NEW r \in Ranks, m_guaranteeTime' = m_guaranteeTime,
         m_safeTime' = m_safeTime,
         \A s \in Ranks : <<s, r>> \in Bundles
                            => channel'[<<s, r>>] = channel[<<s, r>>]
  PROVE  Incoming(r)
BY DEF Incoming, Inv, KeptOn, Heeded

\* Nothing is sent.
LEMMA OutgoingSame ==
  ASSUME Inv, NEW r \in Ranks, m_guaranteeTime' = m_guaranteeTime,
         channel' = channel,
         \A s \in Ranks : \A x \in Nat : <<r, s>> \in Bundles /\ Promise(r, s, x)
                                           => Promise(r, s, x)'
  PROVE  Outgoing(r)
<1>1. ASSUME NEW s \in Ranks, <<r, s>> \in Bundles
      PROVE  /\ KeptOn(r, s)' /\ Promised(r, s)'
             /\ m_guaranteeTime'[<<r, s>>] = m_guaranteeTime[<<r, s>>]
  <2>1. KeptOn(r, s) /\ Promised(r, s)
    BY <1>1 DEF Inv
  <2>2. Given(m_guaranteeTime[<<r, s>>], channel[<<r, s>>]) \subseteq Nat
    <3>1. /\ m_guaranteeTime[<<r, s>>] \in Nat
          /\ channel[<<r, s>>] \in Seq(Messages)
      BY <1>1 DEF Inv, Typed
    <3> QED
      BY <3>1, GivenTyped
  <2> QED
    BY <1>1, <2>1, <2>2 DEF KeptOn, Promised
<1> QED
  BY <1>1 DEF Outgoing

-----------------------------------------------------------------------------
(* The steps of Run.                                                       *)

LEMMA RankTyped ==
  ASSUME Inv, NEW r \in Ranks
  PROVE  /\ m_currentTs[r] \in Nat /\ m_uid[r] \in Nat /\ m_safeTime[r] \in Nat
         /\ m_events[r] \in SUBSET Events /\ m_events[r] # {}
         /\ Local(r)
         /\ \A e \in m_events[r] : e \in Events /\ e.ts \in Nat
         /\ \A s \in Ranks : <<r, s>> \in Bundles =>
              /\ m_guaranteeTime[<<r, s>>] \in Nat
              /\ channel[<<r, s>>] \in Seq(Messages)
              /\ Given(m_guaranteeTime[<<r, s>>], channel[<<r, s>>])
                   \subseteq Nat
              /\ BundleDelay(r, s) \in Nat /\ NullDelay(r, s) \in Nat
<1>1. Local(r) /\ Typed
  BY DEF Inv
<1>2. m_events[r] # {}
  BY <1>1, Neighbourly DEF Local
<1>3. /\ m_currentTs[r] \in Nat /\ m_uid[r] \in Nat /\ m_safeTime[r] \in Nat
      /\ m_events[r] \in SUBSET Events
      /\ \A s \in Ranks : <<r, s>> \in Bundles =>
           /\ m_guaranteeTime[<<r, s>>] \in Nat
           /\ channel[<<r, s>>] \in Seq(Messages)
  BY <1>1 DEF Typed
<1>4. \A e \in m_events[r] : e \in Events /\ e.ts \in Nat
  BY <1>3, FieldsTyped
<1> QED
  BY <1>1, <1>2, <1>3, <1>4, GivenTyped, DelayIs

\* The event that ProcessOneEvent takes is the first one, and safe.
LEMMA TakenIs ==
  ASSUME Inv, NEW r \in Ranks, NEW e \in m_events[r], TakeNext(r, e)
  PROVE  /\ e \in Events /\ e.ts \in Nat
         /\ m_currentTs[r] <= e.ts /\ e.ts <= m_safeTime[r]
         /\ \A f \in m_events[r] : e.ts <= f.ts
         /\ m_currentTs' \in [Ranks -> Nat] /\ m_currentTs'[r] = e.ts
         /\ \A q \in Ranks \ {r} : m_currentTs'[q] = m_currentTs[q]
         /\ pc[r] = "loop" /\ ~m_stop[r]
<1>1. /\ m_events[r] \in SUBSET Events /\ m_events[r] # {} /\ e \in Events
      /\ e.ts \in Nat /\ Local(r)
  BY RankTyped
<1>2. /\ MayRun(r) /\ e = First(m_events[r])
      /\ m_currentTs' = [m_currentTs EXCEPT ![r] = e.ts]
  BY DEF TakeNext
<1>3. /\ NextTime(m_events[r]) = e.ts
      /\ \A f \in m_events[r] : e.ts <= f.ts
  BY <1>1, <1>2, FirstIs DEF NextTime
<1>4. /\ m_currentTs' \in [Ranks -> Nat] /\ m_currentTs'[r] = e.ts
      /\ \A q \in Ranks \ {r} : m_currentTs'[q] = m_currentTs[q]
  BY <1>1, <1>2 DEF Inv, Typed
<1>5. e.ts <= m_safeTime[r] /\ pc[r] = "loop" /\ ~m_stop[r]
  BY <1>2, <1>3 DEF MayRun
<1> QED
  BY <1>1, <1>3, <1>4, <1>5 DEF Local

\* One value of a function over the ranks changes.
LEMMA RankExcept ==
  ASSUME NEW T, NEW f \in [Ranks -> T], NEW r \in Ranks, NEW v \in T,
         NEW g, g = [f EXCEPT ![r] = v]
  PROVE  /\ g \in [Ranks -> T] /\ g[r] = v
         /\ \A q \in Ranks \ {r} : g[q] = f[q]
OBVIOUS

\* An event other than that of a null message is taken out of the list.
LEMMA LocalWithout ==
  ASSUME Inv, NEW r \in Ranks, NEW e \in m_events[r], TakeNext(r, e),
         e.what # "null", m_events'[r] = m_events[r] \ {e},
         m_safeTime'[r] = m_safeTime[r],
         \/ m_stop'[r] = m_stop[r] /\ e.what # "stop"
         \/ m_stop'[r] = (e.what = "stop")
  PROVE  Local(r)'
<1>1. /\ m_currentTs'[r] = e.ts /\ e.ts <= m_safeTime[r]
      /\ \A f \in m_events[r] : e.ts <= f.ts
      /\ ~m_stop[r] /\ Local(r)
  BY TakenIs, RankTyped
<1>2. m_stop'[r] \/ \E f \in m_events'[r] : f.what = "stop"
  BY <1>1 DEF Local
<1>3. ASSUME NEW s \in Neighbours(r)
      PROVE  \E f \in m_events'[r] : NullMessageEvents(r, s)' = {f}
  <2>1. PICK f \in m_events[r] : NullMessageEvents(r, s) = {f}
    BY <1>1 DEF Local
  <2>2. f.what = "null"
    BY <2>1 DEF NullMessageEvents
  <2>3. NullMessageEvents(r, s)' = NullMessageEvents(r, s)
    BY DEF NullMessageEvents
  <2> QED
    BY <2>1, <2>2, <2>3
<1>4. \A f \in m_events'[r] : m_currentTs'[r] <= f.ts
  BY <1>1
<1>5. \A s : Neighbours(s)' = Neighbours(s)
  BY DEF Neighbours, LinksTo
<1> QED
  BY <1>1, <1>2, <1>3, <1>4, <1>5 DEF Local

\* Where it leaves the guarantees alone, they are kept.
LEMMA OutgoingWithout ==
  ASSUME Inv, NEW r \in Ranks, NEW e \in m_events[r], TakeNext(r, e),
         e.what # "null", m_events'[r] = m_events[r] \ {e},
         m_safeTime'[r] = m_safeTime[r],
         m_guaranteeTime' = m_guaranteeTime, channel' = channel
  PROVE  Outgoing(r)
<1>1. /\ m_currentTs'[r] = e.ts /\ e.ts <= m_safeTime[r]
      /\ \A f \in m_events[r] : e.ts <= f.ts
  BY TakenIs
<1>2. ASSUME NEW s \in Ranks, NEW x \in Nat, Promise(r, s, x)
      PROVE  Promise(r, s, x)'
  <2>1. x <= m_currentTs'[r] + BundleDelay(r, s)
    BY <1>1, <1>2 DEF Promise
  <2> QED
    BY <1>2, <2>1 DEF Promise
<1> QED
  BY <1>2, OutgoingSame

LEMMA RunHandlerKeeps ==
  ASSUME Inv, NEW r \in Ranks, RunHandler(r)
  PROVE  Inv'
<1>1. PICK e \in m_events[r] :
        /\ TakeNext(r, e) /\ e.what \in {"app", "complete"}
        /\ m_events' = [m_events EXCEPT ![r] = @ \ {e}]
        /\ busy' = busy \ {e.arg}
  BY DEF RunHandler
<1>2. /\ m_uid' = m_uid /\ m_safeTime' = m_safeTime
      /\ m_guaranteeTime' = m_guaranteeTime /\ m_stop' = m_stop
      /\ channel' = channel /\ nSends' = nSends /\ nScheds' = nScheds
      /\ pc' = [pc EXCEPT ![r] = "handler"]
  BY DEF RunHandler
<1>3. /\ m_events' \in [Ranks -> SUBSET Events]
      /\ m_events'[r] = m_events[r] \ {e}
      /\ \A q \in Ranks \ {r} : m_events'[q] = m_events[q]
  BY <1>1, RankTyped DEF Inv, Typed
<1>4. /\ pc' \in [Ranks -> {"loop", "handler", "receive", "done"}]
      /\ \A q \in Ranks \ {r} : pc'[q] = pc[q]
  BY <1>2 DEF Inv, Typed
<1>5. /\ m_currentTs' \in [Ranks -> Nat]
      /\ \A q \in Ranks \ {r} : m_currentTs'[q] = m_currentTs[q]
  BY <1>1, TakenIs
<1>6. Typed'
  BY <1>1, <1>2, <1>3, <1>4, <1>5 DEF Inv, Typed
<1>7. OthersLeft(r)
  BY <1>2, <1>3, <1>4, <1>5 DEF OthersLeft
<1>8. Local(r)'
  BY <1>1, <1>2, <1>3, LocalWithout
<1>9. Outgoing(r)
  BY <1>1, <1>2, <1>3, OutgoingWithout
<1>10. Incoming(r)
  BY <1>2, IncomingSame
<1> QED
  BY <1>6, <1>7, <1>8, <1>9, <1>10, StepKeeps

LEMMA RunStopOrCancelledKeeps ==
  ASSUME Inv, NEW r \in Ranks, RunStopOrCancelled(r)
  PROVE  Inv'
<1>1. PICK e \in m_events[r] :
        /\ TakeNext(r, e) /\ e.what \in {"stop", "cancelled"}
        /\ m_events' = [m_events EXCEPT ![r] = @ \ {e}]
        /\ m_stop' = [m_stop EXCEPT ![r] = (e.what = "stop")]
  BY DEF RunStopOrCancelled
<1>2. /\ m_uid' = m_uid /\ m_safeTime' = m_safeTime
      /\ m_guaranteeTime' = m_guaranteeTime /\ busy' = busy
      /\ channel' = channel /\ nSends' = nSends /\ nScheds' = nScheds
      /\ pc' = [pc EXCEPT ![r] = "receive"]
  BY DEF RunStopOrCancelled
<1>3. /\ m_events' \in [Ranks -> SUBSET Events]
      /\ m_events'[r] = m_events[r] \ {e}
      /\ \A q \in Ranks \ {r} : m_events'[q] = m_events[q]
  BY <1>1, RankTyped DEF Inv, Typed
<1>4. /\ pc' \in [Ranks -> {"loop", "handler", "receive", "done"}]
      /\ \A q \in Ranks \ {r} : pc'[q] = pc[q]
  BY <1>2 DEF Inv, Typed
<1>5. /\ m_currentTs' \in [Ranks -> Nat]
      /\ \A q \in Ranks \ {r} : m_currentTs'[q] = m_currentTs[q]
  BY <1>1, TakenIs
<1>6. /\ m_stop' \in [Ranks -> BOOLEAN] /\ m_stop'[r] = (e.what = "stop")
      /\ \A q \in Ranks \ {r} : m_stop'[q] = m_stop[q]
  <2>1. m_stop \in [Ranks -> BOOLEAN] /\ (e.what = "stop") \in BOOLEAN
    BY DEF Inv, Typed
  <2> QED
    BY <1>1, <2>1, RankExcept, Zenon
<1>7. Typed'
  BY <1>2, <1>3, <1>4, <1>5, <1>6 DEF Inv, Typed
<1>8. OthersLeft(r)
  BY <1>2, <1>3, <1>4, <1>5, <1>6 DEF OthersLeft
<1>9. Local(r)'
  BY <1>1, <1>2, <1>3, <1>6, LocalWithout
<1>10. Outgoing(r)
  BY <1>1, <1>2, <1>3, OutgoingWithout
<1>11. Incoming(r)
  BY <1>2, IncomingSame
<1> QED
  BY <1>7, <1>8, <1>9, <1>10, <1>11, StepKeeps

LEMMA RunNullMessageEventKeeps ==
  ASSUME Inv, NEW r \in Ranks, RunNullMessageEvent(r)
  PROVE  Inv'
<1>1. PICK e \in m_events[r] :
        /\ TakeNext(r, e) /\ e.what = "null"
        /\ channel' = [channel EXCEPT ![<<r, e.arg>>] =
             Append(@, Message(NullMessageMark,
                               Guarantee(r, e.arg, m_events[r] \ {e})))]
        /\ m_events' = [m_events EXCEPT ![r] = (m_events[r] \ {e}) \cup
             {Event(e.ts + NullDelay(r, e.arg), m_uid[r], "null", e.arg)}]
  BY DEF RunNullMessageEvent
<1>2. /\ m_uid' = [m_uid EXCEPT ![r] = @ + 1] /\ m_safeTime' = m_safeTime
      /\ m_guaranteeTime' = m_guaranteeTime /\ m_stop' = m_stop
      /\ busy' = busy /\ nSends' = nSends /\ nScheds' = nScheds
      /\ pc' = [pc EXCEPT ![r] = "receive"]
  BY DEF RunNullMessageEvent
<1>3. /\ Local(r) /\ e \in Events /\ e.ts \in Nat
      /\ m_currentTs'[r] = e.ts /\ e.ts <= m_safeTime[r]
      /\ \A f \in m_events[r] : e.ts <= f.ts
      /\ ~m_stop[r]
      /\ m_currentTs' \in [Ranks -> Nat]
      /\ \A q \in Ranks \ {r} : m_currentTs'[q] = m_currentTs[q]
  BY <1>1, TakenIs, RankTyped
<1>4. PICK s \in Ranks : s = e.arg
  BY <1>1, <1>3, Neighbourly DEF Local
<1>5. <<r, s>> \in Bundles /\ s \in Neighbours(r)
  BY <1>1, <1>3, <1>4, Neighbourly DEF Local
<1>6. NullMessageEvents(r, s) = {e}
  BY <1>1, <1>3, <1>4, <1>5 DEF Local, NullMessageEvents
<1>7. PICK rest : rest = m_events[r] \ {e}
  OBVIOUS
<1>8. /\ rest \in SUBSET Events /\ rest # {}
      /\ \A f \in rest : f.what # "null" \/ f.arg # s
  BY <1>1, <1>3, <1>6, <1>7, RankTyped DEF Local, NullMessageEvents
<1>9. PICK g : g = Guarantee(r, s, rest)
  OBVIOUS
<1>10. /\ g \in Nat /\ g <= m_safeTime[r] + BundleDelay(r, s)
       /\ \A f \in rest : g <= f.ts + BundleDelay(r, s)
       /\ \A x \in Nat :
            /\ x <= m_safeTime[r] + BundleDelay(r, s)
            /\ \A f \in rest : x <= f.ts + BundleDelay(r, s)
            => x <= g
  BY <1>5, <1>8, <1>9, GuaranteeIs, RankTyped
<1>11. PICK new : new = Event(e.ts + NullDelay(r, s), m_uid[r], "null", s)
  OBVIOUS
<1>12. /\ new \in Events /\ new.what = "null" /\ new.arg = s
       /\ new.ts \in Nat /\ e.ts <= new.ts
  <2>1. NullDelay(r, s) \in Nat /\ m_uid[r] \in Nat
    BY <1>5, DelayIs, RankTyped
  <2>2. PICK ts \in Nat : ts = e.ts + NullDelay(r, s)
    BY <1>3, <2>1
  <2>3. e.ts <= ts
    BY <1>3, <2>1, <2>2
  <2>4. s \in Ranks \cup Links
    BY <1>5
  <2>5. new \in Events /\ new.what = "null" /\ new.arg = s /\ new.ts = ts
    BY <1>11, <2>1, <2>2, <2>4, EventTyped
  <2> QED
    BY <2>3, <2>5
<1>13. /\ m_events' \in [Ranks -> SUBSET Events]
       /\ m_events'[r] = rest \cup {new}
       /\ \A q \in Ranks \ {r} : m_events'[q] = m_events[q]
  <2>1. m_events' = [m_events EXCEPT ![r] = rest \cup {new}]
    BY <1>1, <1>4, <1>7, <1>11, Zenon
  <2>2. m_events \in [Ranks -> SUBSET Events] /\ rest \cup {new} \in SUBSET Events
    BY <1>8, <1>12 DEF Inv, Typed
  <2> QED
    BY <2>1, <2>2, RankExcept
<1>14. PICK m : m = Message(NullMessageMark, g)
  OBVIOUS
<1>15. m \in Messages /\ m.rx = NullMessageMark /\ m.guarantee = g
  BY <1>10, <1>14, MessageTyped DEF NullMessageMark
<1>16. PICK old : old = channel[<<r, s>>]
  OBVIOUS
<1>17. PICK h \in Nat : h = m_guaranteeTime[<<r, s>>]
  BY <1>5 DEF Inv, Typed
<1>18. /\ old \in Seq(Messages) /\ Kept(h, old)
       /\ \A x \in Given(h, old) : x \in Nat /\ Promise(r, s, x)
  BY <1>5, <1>16, <1>17, GivenTyped DEF Inv, Typed, KeptOn, Promised
<1>19. ASSUME NEW x \in Given(h, old)
       PROVE  NoLater(x, m)
  <2>1. \A f \in rest : x <= f.ts + BundleDelay(r, s)
    BY <1>7, <1>8, <1>18 DEF Promise
  <2>2. x <= g
    BY <1>10, <1>18, <2>1 DEF Promise
  <2> QED
    BY <1>15, <2>2 DEF NoLater
<1>20. PICK ch : ch = Append(old, m)
  OBVIOUS
<1>21. /\ ch \in Seq(Messages) /\ Kept(h, ch)
       /\ \A x \in Given(h, ch) : x \in Given(h, old) \/ x = g
  <2>1. MayFollow(h, old, m)
    BY <1>19 DEF MayFollow
  <2>2. /\ ch \in Seq(Messages) /\ Kept(h, ch)
        /\ \A x \in Given(h, ch) : x \in Given(h, old) \/ x = m.guarantee
    <3>1. h \in Nat /\ old \in Seq(Messages) /\ Kept(h, old) /\ m \in Messages
      BY <1>15, <1>18
    <3> QED
      BY <1>20, <2>1, <3>1, KeptAppend
  <2> QED
    BY <1>15, <2>2
<1>22. channel' = [channel EXCEPT ![<<r, s>>] = ch]
  BY <1>1, <1>4, <1>7, <1>9, <1>14, <1>16, <1>20, Zenon
<1>23. /\ channel' \in [Bundles -> Seq(Messages)] /\ channel'[<<r, s>>] = ch
       /\ \A b \in Bundles : b # <<r, s>> => channel'[b] = channel[b]
  BY <1>5, <1>21, <1>22 DEF Inv, Typed
<1>24. /\ pc' \in [Ranks -> {"loop", "handler", "receive", "done"}]
       /\ pc'[r] = "receive" /\ \A q \in Ranks \ {r} : pc'[q] = pc[q]
  BY <1>2 DEF Inv, Typed
<1>25. Typed'
  <2>1. m_uid' \in [Ranks -> Nat]
    BY <1>2 DEF Inv, Typed
  <2> QED
    BY <1>2, <1>3, <1>13, <1>23, <1>24, <2>1 DEF Inv, Typed
<1>26. OthersLeft(r)
  BY <1>2, <1>3, <1>13, <1>23, <1>24 DEF OthersLeft
<1>27. Local(r)'
  <2>1. \A t : Neighbours(t)' = Neighbours(t)
    BY DEF Neighbours, LinksTo
  <2>2. m_currentTs'[r] <= m_safeTime'[r]
    BY <1>2, <1>3
  <2>3. \A f \in m_events'[r] : m_currentTs'[r] <= f.ts
    BY <1>3, <1>7, <1>12, <1>13
  <2>4. \E f \in m_events'[r] : f.what = "stop"
    BY <1>1, <1>3, <1>7, <1>13 DEF Local
  <2>5. \A f \in m_events'[r] : f.what = "null" => f.arg \in Neighbours(r)
    BY <1>3, <1>5, <1>7, <1>12, <1>13 DEF Local
  <2>6. ASSUME NEW t \in Neighbours(r)
        PROVE  \E f \in m_events'[r] : NullMessageEvents(r, t)' = {f}
    <3>1. CASE t = s
      BY <1>8, <1>12, <1>13, <3>1 DEF NullMessageEvents
    <3>2. CASE t # s
      <4>1. PICK f \in m_events[r] : NullMessageEvents(r, t) = {f}
        BY <1>3 DEF Local
      <4>2. f \in rest /\ NullMessageEvents(r, t)' = {f}
        BY <1>4, <1>7, <1>12, <1>13, <3>2, <4>1 DEF NullMessageEvents
      <4> QED
        BY <1>13, <4>2
    <3> QED
      BY <3>1, <3>2
  <2> QED
    BY <2>1, <2>2, <2>3, <2>4, <2>5, <2>6 DEF Local
<1>28. ASSUME NEW t \in Ranks, <<r, t>> \in Bundles
       PROVE  /\ m_guaranteeTime'[<<r, t>>] = m_guaranteeTime[<<r, t>>]
              /\ KeptOn(r, t)' /\ Promised(r, t)'
  <2>1. m_guaranteeTime'[<<r, t>>] = m_guaranteeTime[<<r, t>>]
    BY <1>2
  <2>2. CASE t = s
    <3>1. KeptOn(r, t)'
      BY <1>2, <1>17, <1>21, <1>23, <2>2 DEF KeptOn
    <3>2. ASSUME NEW x \in Given(h, ch)
          PROVE  Promise(r, s, x)'
      <4>1. /\ x <= m_safeTime[r] + BundleDelay(r, s)
            /\ \A f \in rest : x <= f.ts + BundleDelay(r, s)
        BY <1>7, <1>8, <1>10, <1>18, <1>21 DEF Promise
      <4> QED
        BY <1>2, <1>12, <1>13, <1>24, <4>1 DEF Promise
    <3> QED
      BY <1>2, <1>17, <1>23, <2>1, <2>2, <3>1, <3>2 DEF Promised
  <2>3. CASE t # s
    <3>1. channel'[<<r, t>>] = channel[<<r, t>>]
      BY <1>23, <1>28, <2>3
    <3>2. KeptOn(r, t) /\ Promised(r, t)
      BY <1>28 DEF Inv
    <3>3. ASSUME NEW x \in Nat, Promise(r, t, x)
          PROVE  Promise(r, t, x)'
      <4>1. BundleDelay(r, t) \in Nat
        BY <1>28, DelayIs
      <4>2. x <= e.ts + BundleDelay(r, t)
        BY <1>4, <2>3, <3>3 DEF Promise
      <4>3. x <= new.ts + BundleDelay(r, t)
        BY <1>3, <1>12, <4>1, <4>2
      <4> QED
        BY <1>2, <1>7, <1>13, <1>24, <3>3, <4>3 DEF Promise
    <3>4. Given(m_guaranteeTime[<<r, t>>], channel[<<r, t>>]) \subseteq Nat
      BY <1>28, RankTyped
    <3> QED
      BY <2>1, <3>1, <3>2, <3>3, <3>4 DEF KeptOn, Promised
  <2> QED
    BY <2>1, <2>2, <2>3
<1>29. Incoming(r)
  <2>1. \A q \in Ranks : <<q, r>> \in Bundles
                           => channel'[<<q, r>>] = channel[<<q, r>>]
    BY <1>23, NotToItself DEF NoSelf
  <2> QED
    BY <1>2, <2>1, IncomingSame
<1>30. Outgoing(r)
  BY <1>28 DEF Outgoing
<1> QED
  BY <1>25, <1>26, <1>27, <1>29, <1>30, StepKeeps

LEMMA RunReturnsKeeps ==
  ASSUME Inv, NEW r \in Ranks, RunReturns(r)
  PROVE  Inv'
<1>1. /\ m_currentTs' = m_currentTs /\ m_uid' = m_uid /\ m_events' = m_events
      /\ m_safeTime' = m_safeTime /\ m_guaranteeTime' = m_guaranteeTime
      /\ m_stop' = m_stop /\ busy' = busy /\ channel' = channel
      /\ nSends' = nSends /\ nScheds' = nScheds
      /\ pc' = [pc EXCEPT ![r] = "done"]
  BY DEF RunReturns
<1>2. /\ pc' \in [Ranks -> {"loop", "handler", "receive", "done"}]
      /\ pc'[r] = "done" /\ \A q \in Ranks \ {r} : pc'[q] = pc[q]
  BY <1>1 DEF Inv, Typed
<1>3. Typed' /\ OthersLeft(r)
  BY <1>1, <1>2 DEF Inv, Typed, OthersLeft
<1>4. Local(r)'
  BY <1>1 DEF Inv, Local, NullMessageEvents
<1>5. Outgoing(r)
  <2>1. \A s \in Ranks : \A x \in Nat : Promise(r, s, x) => Promise(r, s, x)'
    BY <1>1, <1>2 DEF Promise
  <2> QED
    BY <1>1, <2>1, OutgoingSame
<1>6. Incoming(r)
  BY <1>1, IncomingSame
<1> QED
  BY <1>3, <1>4, <1>5, <1>6, StepKeeps

-----------------------------------------------------------------------------
(* The steps of handlers.                                                  *)

\* While a handler runs, no guarantee reaches beyond what it may send now, so
\* that what it lists cannot break one.
LEMMA HandlerPromise ==
  ASSUME Inv, NEW r \in Ranks, NEW s \in Ranks, <<r, s>> \in Bundles,
         NEW x \in Nat, x <= m_currentTs[r] + BundleDelay(r, s),
         m_currentTs'[r] = m_currentTs[r], m_safeTime'[r] = m_safeTime[r],
         \A e \in m_events'[r] : e.ts \in Nat /\ m_currentTs[r] <= e.ts
  PROVE  Promise(r, s, x)'
<1>1. /\ m_currentTs[r] \in Nat /\ m_safeTime[r] \in Nat
      /\ BundleDelay(r, s) \in Nat /\ m_currentTs[r] <= m_safeTime[r]
  BY RankTyped DEF Local
<1>2. x <= m_safeTime[r] + BundleDelay(r, s)
  BY <1>1
<1>3. \A e \in m_events'[r] : x <= e.ts + BundleDelay(r, s)
  BY <1>1
<1> QED
  BY <1>2, <1>3 DEF Promise

LEMMA HandlerReturnsKeeps ==
  ASSUME Inv, NEW r \in Ranks, HandlerReturns(r)
  PROVE  Inv'
<1>1. /\ m_currentTs' = m_currentTs /\ m_uid' = m_uid /\ m_events' = m_events
      /\ m_safeTime' = m_safeTime /\ m_guaranteeTime' = m_guaranteeTime
      /\ m_stop' = m_stop /\ busy' = busy /\ channel' = channel
      /\ nSends' = nSends /\ nScheds' = nScheds
      /\ pc' = [pc EXCEPT ![r] = "receive"]
  BY DEF HandlerReturns
<1>2. /\ pc' \in [Ranks -> {"loop", "handler", "receive", "done"}]
      /\ pc'[r] = "receive" /\ \A q \in Ranks \ {r} : pc'[q] = pc[q]
  BY <1>1 DEF Inv, Typed
<1>3. Typed' /\ OthersLeft(r)
  BY <1>1, <1>2 DEF Inv, Typed, OthersLeft
<1>4. Local(r)'
  BY <1>1 DEF Inv, Local, NullMessageEvents
<1>5. Outgoing(r)
  <2>1. \A s \in Ranks : \A x \in Nat : Promise(r, s, x) => Promise(r, s, x)'
    BY <1>1, <1>2 DEF Promise
  <2> QED
    BY <1>1, <2>1, OutgoingSame
<1>6. Incoming(r)
  BY <1>1, IncomingSame
<1> QED
  BY <1>3, <1>4, <1>5, <1>6, StepKeeps

LEMMA ScheduleKeeps ==
  ASSUME Inv, NEW r \in Ranks, NEW delay \in Delays, Schedule(r, delay)
  PROVE  Inv'
<1>1. /\ m_currentTs' = m_currentTs /\ m_safeTime' = m_safeTime
      /\ m_guaranteeTime' = m_guaranteeTime /\ m_stop' = m_stop
      /\ busy' = busy /\ channel' = channel /\ nSends' = nSends /\ pc' = pc
      /\ m_uid' = [m_uid EXCEPT ![r] = @ + 1] /\ pc[r] = "handler"
      /\ nScheds < MaxScheds /\ nScheds' = nScheds + 1
  BY DEF Schedule
<1>2. PICK new : new = Event(m_currentTs[r] + delay, m_uid[r], "app", r)
  OBVIOUS
<1>3. /\ new \in Events /\ new.what = "app" /\ new.ts \in Nat
      /\ m_currentTs[r] <= new.ts
  <2>1. m_currentTs[r] \in Nat /\ m_uid[r] \in Nat /\ delay \in Nat
    BY RankTyped, ConstantsTyped
  <2>2. PICK ts \in Nat : ts = m_currentTs[r] + delay
    BY <2>1
  <2>3. /\ new = Event(ts, m_uid[r], "app", r) /\ r \in Ranks \cup Links
        /\ m_currentTs[r] <= ts
    BY <1>2, <2>1, <2>2
  <2> QED
    BY <2>1, <2>3, EventTyped
<1>4. /\ m_events' \in [Ranks -> SUBSET Events]
      /\ m_events'[r] = m_events[r] \cup {new}
      /\ \A q \in Ranks \ {r} : m_events'[q] = m_events[q]
  <2>1. m_events' = [m_events EXCEPT ![r] = m_events[r] \cup {new}]
    BY <1>2 DEF Schedule
  <2>2. /\ m_events \in [Ranks -> SUBSET Events]
        /\ m_events[r] \cup {new} \in SUBSET Events
    BY <1>3, RankTyped DEF Inv, Typed
  <2> QED
    BY <2>1, <2>2, RankExcept
<1>5. Typed' /\ OthersLeft(r)
  <2>1. m_uid' \in [Ranks -> Nat]
    BY <1>1 DEF Inv, Typed
  <2>2. nScheds' \in 0 .. MaxScheds
    BY <1>1, ConstantsTyped DEF Inv, Typed
  <2> QED
    BY <1>1, <1>4, <2>1, <2>2 DEF Inv, Typed, OthersLeft
<1>6. Local(r)'
  <2>1. \A t : Neighbours(t)' = Neighbours(t)
    BY DEF Neighbours, LinksTo
  <2>2. \A t : NullMessageEvents(r, t)' = NullMessageEvents(r, t)
    BY <1>3, <1>4 DEF NullMessageEvents
  <2> QED
    <3>1. Local(r)
      BY RankTyped
    <3>2. \A t \in Neighbours(r) :
            \E e \in m_events'[r] : NullMessageEvents(r, t)' = {e}
      BY <1>4, <2>2, <3>1 DEF Local
    <3>3. /\ m_currentTs'[r] <= m_safeTime'[r]
          /\ m_stop'[r] \/ \E e \in m_events'[r] : e.what = "stop"
      BY <1>1, <1>4, <3>1 DEF Local
    <3>4. \A e \in m_events'[r] :
            /\ m_currentTs'[r] <= e.ts
            /\ e.what = "null" => e.arg \in Neighbours(r)
      BY <1>1, <1>3, <1>4, <3>1 DEF Local
    <3> QED
      BY <2>1, <3>2, <3>3, <3>4 DEF Local
<1>7. Outgoing(r)
  <2>1. ASSUME NEW s \in Ranks, NEW x \in Nat, <<r, s>> \in Bundles,
               Promise(r, s, x)
        PROVE  Promise(r, s, x)'
    <3>1. x <= m_currentTs[r] + BundleDelay(r, s)
      BY <1>1, <2>1 DEF Promise
    <3>2. \A e \in m_events'[r] : e.ts \in Nat /\ m_currentTs[r] <= e.ts
      BY <1>3, <1>4, RankTyped DEF Local
    <3> QED
      BY <1>1, <2>1, <3>1, <3>2, HandlerPromise
  <2> QED
    BY <1>1, <2>1, OutgoingSame
<1>8. Incoming(r)
  BY <1>1, IncomingSame
<1> QED
  BY <1>5, <1>6, <1>7, <1>8, StepKeeps

LEMMA CancelledTyped ==
  ASSUME NEW e \in Events, NEW u, u = [e EXCEPT !.what = "cancelled"]
  PROVE  u \in Events /\ u.ts = e.ts /\ u.what = "cancelled"
BY DEF Events

\* RescheduleNullMessageEvent touches only the event of the bundle.
LEMMA RescheduledIs ==
  ASSUME NEW E \in SUBSET Events, NEW s, NEW null \in Events, NEW now \in Nat,
         null.what = "null", null.arg = s, now <= null.ts,
         \A e \in E : now <= e.ts,
         NEW F, F = Rescheduled(E, s, null)
  PROVE  /\ F \in SUBSET Events
         /\ \A e \in F : now <= e.ts
         /\ {e \in F : e.what = "null" /\ e.arg = s} = {null}
         /\ \A t : t # s => {e \in F : e.what = "null" /\ e.arg = t}
                              = {e \in E : e.what = "null" /\ e.arg = t}
         /\ \A e \in E : e.what # "null" => e \in F
<1> DEFINE After(e) == IF e.what = "null" /\ e.arg = s
                       THEN [e EXCEPT !.what = "cancelled"] ELSE e
<1>1. F = {After(e) : e \in E} \cup {null}
  BY DEF Rescheduled
<1>2. ASSUME NEW e \in E
      PROVE  /\ After(e) \in Events /\ After(e).ts = e.ts
             /\ e.what = "null" /\ e.arg = s => After(e).what = "cancelled"
             /\ ~(e.what = "null" /\ e.arg = s) => After(e) = e
  BY CancelledTyped
<1> HIDE DEF After
<1>3. F \in SUBSET Events /\ \A e \in F : now <= e.ts
  BY <1>1, <1>2
<1>4. {e \in F : e.what = "null" /\ e.arg = s} = {null}
  BY <1>1, <1>2
<1>5. ASSUME NEW t, t # s
      PROVE  {e \in F : e.what = "null" /\ e.arg = t}
               = {e \in E : e.what = "null" /\ e.arg = t}
  <2>1. ASSUME NEW e \in F, e.what = "null", e.arg = t
        PROVE  e \in E
    <3>1. PICK f \in E : e = After(f)
      BY <1>1, <1>5, <2>1
    <3> QED
      BY <1>2, <2>1, <3>1
  <2>2. ASSUME NEW e \in E, e.what = "null", e.arg = t
        PROVE  e \in F
    <3>1. After(e) = e
      BY <1>2, <1>5, <2>2
    <3> QED
      BY <1>1, <3>1
  <2> QED
    BY <2>1, <2>2
<1>6. ASSUME NEW e \in E, e.what # "null"
      PROVE  e \in F
  <2>1. After(e) = e
    BY <1>2, <1>6
  <2> QED
    BY <1>1, <2>1
<1> QED
  BY <1>3, <1>4, <1>5, <1>6

LEMMA SendPacketKeeps ==
  ASSUME Inv, FlowControl, NEW r \in Ranks, NEW l \in Links, SendPacket(r, l)
  PROVE  Inv'
<1>1. /\ m_currentTs' = m_currentTs /\ m_safeTime' = m_safeTime
      /\ m_guaranteeTime' = m_guaranteeTime /\ m_stop' = m_stop
      /\ nScheds' = nScheds /\ pc' = pc /\ busy' = busy \cup {l}
      /\ m_uid' = [m_uid EXCEPT ![r] = @ + 3] /\ pc[r] = "handler"
      /\ nSends < MaxSends /\ nSends' = nSends + 1 /\ From[l] = r
  BY DEF SendPacket
<1>2. PICK s \in Ranks : s = To[l]
  BY ConstantsTyped
<1>3. <<r, s>> \in Bundles /\ s \in Neighbours(r)
  BY <1>1, <1>2 DEF Bundles, Neighbours, LinksTo
<1>4. PICK now \in Nat : now = m_currentTs[r]
  BY RankTyped
<1>5. PICK E : E = m_events[r] \cup ListedBySend(r, l)
  OBVIOUS
<1>6. PICK null : null = Event(now + NullDelay(r, s), m_uid[r] + 2, "null", s)
  OBVIOUS
<1>7. PICK first : first = Event(now, m_uid[r], "app", r)
  OBVIOUS
<1>8. PICK last : last = Event(now + TxTime[l], m_uid[r] + 1, "complete", l)
  OBVIOUS
<1>9. /\ first \in Events /\ first.what = "app" /\ first.ts = now
      /\ last \in Events /\ last.what = "complete" /\ now <= last.ts
      /\ null \in Events /\ null.what = "null" /\ null.arg = s
      /\ now <= null.ts
  <2>1. /\ m_uid[r] \in Nat /\ m_uid[r] + 1 \in Nat /\ m_uid[r] + 2 \in Nat
        /\ TxTime[l] \in Nat /\ NullDelay(r, s) \in Nat
        /\ r \in Ranks \cup Links /\ l \in Ranks \cup Links
        /\ s \in Ranks \cup Links
    BY <1>3, RankTyped, ConstantsTyped, DelayIs
  <2>2. PICK ts \in Nat : ts = now + TxTime[l]
    BY <2>1
  <2>3. PICK tn \in Nat : tn = now + NullDelay(r, s)
    BY <2>1
  <2>4. now <= ts /\ now <= tn
    BY <2>1, <2>2, <2>3
  <2>5. /\ first \in Events /\ first.what = "app" /\ first.ts = now
    BY <1>7, <2>1 DEF Event, Events
  <2>6. PICK u1 \in Nat : u1 = m_uid[r] + 1
    BY <2>1
  <2>7. PICK u2 \in Nat : u2 = m_uid[r] + 2
    BY <2>1
  <2>8. last \in Events /\ last.what = "complete" /\ last.ts = ts
    <3>1. last = Event(ts, u1, "complete", l)
      BY <1>8, <2>2, <2>6
    <3> QED
      BY <2>1, <3>1 DEF Event, Events
  <2>9. null \in Events /\ null.what = "null" /\ null.arg = s /\ null.ts = tn
    <3>1. null = Event(tn, u2, "null", s)
      BY <1>6, <2>3, <2>7
    <3> QED
      BY <2>1, <3>1 DEF Event, Events
  <2> QED
    BY <2>4, <2>5, <2>8, <2>9
<1>10. E = m_events[r] \cup {first, last}
  <2>1. ListedBySend(r, l) = {first} \cup {last}
    BY <1>4, <1>7, <1>8, Zenon DEF ListedBySend
  <2> QED
    BY <1>5, <2>1
<1>11. /\ Local(r) /\ E \in SUBSET Events /\ E # {}
       /\ \A e \in E : e.ts \in Nat /\ now <= e.ts
  <2>1. Local(r) /\ m_events[r] \in SUBSET Events
    BY RankTyped
  <2>2. E \in SUBSET Events /\ E # {}
    BY <1>9, <1>10, <2>1
  <2>3. \A e \in E : now <= e.ts
    BY <1>4, <1>9, <1>10, <2>1 DEF Local
  <2> QED
    BY <2>1, <2>2, <2>3, FieldsTyped
<1>12. /\ BundleDelay(r, s) \in Nat /\ BundleDelay(r, s) <= Delay[l]
       /\ Delay[l] \in Nat /\ TxTime[l] \in Nat /\ m_safeTime[r] \in Nat
       /\ now <= m_safeTime[r]
  BY <1>1, <1>2, <1>3, <1>4, <1>11, DelayIs, ConstantsTyped, RankTyped DEF Local
<1>13. PICK g : g = Guarantee(r, s, E)
  OBVIOUS
<1>14. /\ g \in Nat /\ g <= now + BundleDelay(r, s)
       /\ \A x \in Nat : x <= now + BundleDelay(r, s) => x <= g
  <2>1. /\ g \in Nat
        /\ \A e \in E : g <= e.ts + BundleDelay(r, s)
        /\ \A x \in Nat :
             /\ x <= m_safeTime[r] + BundleDelay(r, s)
             /\ \A e \in E : x <= e.ts + BundleDelay(r, s)
             => x <= g
    BY <1>3, <1>11, <1>12, <1>13, GuaranteeIs
  <2>2. g <= now + BundleDelay(r, s)
    BY <1>9, <1>10, <2>1
  <2>3. ASSUME NEW x \in Nat, x <= now + BundleDelay(r, s)
        PROVE  x <= g
    <3>1. x <= m_safeTime[r] + BundleDelay(r, s)
      BY <1>12, <2>3
    <3>2. \A e \in E : x <= e.ts + BundleDelay(r, s)
      BY <1>11, <1>12, <2>3
    <3> QED
      BY <2>1, <3>1, <3>2
  <2> QED
    BY <2>1, <2>2, <2>3
<1>15. PICK rx \in Nat : rx = now + TxTime[l] + Delay[l]
  BY <1>12
<1>16. PICK m : m = Message(rx, g)
  OBVIOUS
<1>17. m \in Messages /\ m.rx = rx /\ m.guarantee = g
  BY <1>14, <1>15, <1>16, MessageTyped
<1>18. PICK old : old = channel[<<r, s>>]
  OBVIOUS
<1>19. PICK h \in Nat : h = m_guaranteeTime[<<r, s>>]
  BY <1>3 DEF Inv, Typed
<1>20. /\ old \in Seq(Messages) /\ Kept(h, old)
       /\ \A x \in Given(h, old) : x \in Nat /\ Promise(r, s, x)
  BY <1>3, <1>18, <1>19, GivenTyped DEF Inv, Typed, KeptOn, Promised
<1>21. MayFollow(h, old, m)
  <2>1. ASSUME NEW x \in Given(h, old)
        PROVE  NoLater(x, m)
    <3>1. x \in Nat /\ x <= now + BundleDelay(r, s)
      BY <1>1, <1>4, <1>20 DEF Promise
    <3>2. x <= g /\ x <= rx
      BY <1>12, <1>14, <1>15, <3>1
    <3> QED
      BY <1>17, <3>2 DEF NoLater
  <2> QED
    BY <2>1 DEF MayFollow
<1>22. PICK ch : ch = Append(old, m)
  OBVIOUS
<1>23. /\ ch \in Seq(Messages) /\ Kept(h, ch)
       /\ \A x \in Given(h, ch) : x \in Given(h, old) \/ x = m.guarantee
  <2>1. h \in Nat /\ old \in Seq(Messages) /\ Kept(h, old) /\ m \in Messages
    BY <1>17, <1>20
  <2> QED
    BY <1>21, <1>22, <2>1, KeptAppend
<1>24. channel' = [channel EXCEPT ![<<r, s>>] = ch]
  BY <1>2, <1>4, <1>5, <1>13, <1>15, <1>16, <1>18, <1>22, Zenon
     DEF SendPacket, Arrival
<1>25. /\ channel' \in [Bundles -> Seq(Messages)] /\ channel'[<<r, s>>] = ch
       /\ \A b \in Bundles : b # <<r, s>> => channel'[b] = channel[b]
  BY <1>3, <1>23, <1>24 DEF Inv, Typed
<1>26. PICK F : F = Rescheduled(E, s, null)
  OBVIOUS
<1>27. /\ F \in SUBSET Events
       /\ \A e \in F : now <= e.ts
       /\ {e \in F : e.what = "null" /\ e.arg = s} = {null}
       /\ \A t : t # s => {e \in F : e.what = "null" /\ e.arg = t}
                            = {e \in E : e.what = "null" /\ e.arg = t}
       /\ \A e \in E : e.what # "null" => e \in F
  BY <1>9, <1>11, <1>26, RescheduledIs
<1>28. /\ m_events' \in [Ranks -> SUBSET Events] /\ m_events'[r] = F
       /\ \A q \in Ranks \ {r} : m_events'[q] = m_events[q]
  <2>1. m_events' = [m_events EXCEPT ![r] = F]
    BY <1>2, <1>4, <1>5, <1>6, <1>26, Zenon DEF SendPacket
  <2>2. m_events \in [Ranks -> SUBSET Events] /\ F \in SUBSET Events
    BY <1>27 DEF Inv, Typed
  <2> QED
    BY <2>1, <2>2, RankExcept
<1>29. Typed' /\ OthersLeft(r)
  <2>1. m_uid' \in [Ranks -> Nat]
    BY <1>1 DEF Inv, Typed
  <2>2. nSends' \in 0 .. MaxSends
    BY <1>1, ConstantsTyped DEF Inv, Typed
  <2>3. Typed'
    BY <1>1, <1>25, <1>28, <2>1, <2>2 DEF Inv, Typed
  <2>4. \A p, q \in Ranks \ {r} :
          <<p, q>> \in Bundles => channel'[<<p, q>>] = channel[<<p, q>>]
    BY <1>25
  <2> QED
    BY <1>1, <1>28, <2>3, <2>4 DEF OthersLeft
<1>30. Local(r)'
  <2>1. \A t : Neighbours(t)' = Neighbours(t)
    BY DEF Neighbours, LinksTo
  <2>2. m_currentTs'[r] <= m_safeTime'[r]
    BY <1>1, <1>4, <1>12
  <2>3. \A f \in m_events'[r] : m_currentTs'[r] <= f.ts
    BY <1>1, <1>4, <1>27, <1>28
  <2>4. m_stop'[r] \/ \E f \in m_events'[r] : f.what = "stop"
    BY <1>1, <1>10, <1>11, <1>27, <1>28 DEF Local
  <2>5. \A t : {e \in E : e.what = "null" /\ e.arg = t}
                 = NullMessageEvents(r, t)
    BY <1>9, <1>10 DEF NullMessageEvents
  <2>6. \A t : NullMessageEvents(r, t)'
                 = {e \in F : e.what = "null" /\ e.arg = t}
    BY <1>28 DEF NullMessageEvents
  <2>7. \A t \in Neighbours(r) :
          \E f \in m_events'[r] : NullMessageEvents(r, t)' = {f}
    <3>1. ASSUME NEW t \in Neighbours(r)
          PROVE  \E f \in m_events'[r] : NullMessageEvents(r, t)' = {f}
      <4>1. PICK f : NullMessageEvents(r, t)' = {f}
        <5>1. CASE t = s
          BY <1>27, <2>6, <5>1
        <5>2. CASE t # s
          <6>1. PICK f : NullMessageEvents(r, t) = {f}
            BY <1>11 DEF Local
          <6>2. NullMessageEvents(r, t)' = NullMessageEvents(r, t)
            BY <1>27, <2>5, <2>6, <5>2
          <6> QED
            BY <6>1, <6>2
        <5> QED
          BY <5>1, <5>2
      <4>2. f \in m_events'[r]
        BY <4>1 DEF NullMessageEvents
      <4> QED
        BY <4>1, <4>2
    <3> QED
      BY <3>1
  <2>8. ASSUME NEW f \in F, f.what = "null"
        PROVE  f.arg \in Neighbours(r)
    <3>1. CASE f.arg = s
      BY <1>3, <3>1
    <3>2. CASE f.arg # s
      <4>1. f \in NullMessageEvents(r, f.arg)
        BY <1>27, <2>5, <2>8, <3>2
      <4> QED
        BY <1>11, <2>8, <4>1 DEF Local, NullMessageEvents
    <3> QED
      BY <3>1, <3>2
  <2> QED
    BY <1>28, <2>1, <2>2, <2>3, <2>4, <2>7, <2>8 DEF Local
<1>31. ASSUME NEW t \in Ranks, <<r, t>> \in Bundles
       PROVE  /\ m_guaranteeTime'[<<r, t>>] = m_guaranteeTime[<<r, t>>]
              /\ KeptOn(r, t)' /\ Promised(r, t)'
  <2>1. m_guaranteeTime'[<<r, t>>] = m_guaranteeTime[<<r, t>>]
    BY <1>1
  <2>2. \A e \in m_events'[r] : e.ts \in Nat /\ m_currentTs[r] <= e.ts
    BY <1>4, <1>27, <1>28, FieldsTyped
  <2>3. ASSUME NEW x \in Nat, x <= now + BundleDelay(r, t)
        PROVE  Promise(r, t, x)'
    BY <1>1, <1>4, <1>31, <2>2, <2>3, HandlerPromise
  <2>4. CASE t = s
    <3>1. KeptOn(r, t)'
      BY <1>1, <1>19, <1>23, <1>25, <2>4 DEF KeptOn
    <3>2. ASSUME NEW x \in Given(h, ch)
          PROVE  x \in Nat /\ x <= now + BundleDelay(r, t)
      <4>1. CASE x \in Given(h, old)
        BY <1>1, <1>4, <1>20, <2>4, <4>1 DEF Promise
      <4>2. CASE x = m.guarantee
        BY <1>14, <1>17, <2>4, <4>2
      <4> QED
        BY <1>23, <4>1, <4>2
    <3> QED
      BY <1>19, <1>25, <2>1, <2>3, <2>4, <3>1, <3>2 DEF Promised
  <2>5. CASE t # s
    <3>1. channel'[<<r, t>>] = channel[<<r, t>>]
      BY <1>25, <1>31, <2>5
    <3>2. KeptOn(r, t) /\ Promised(r, t)
      BY <1>31 DEF Inv
    <3>3. Given(m_guaranteeTime[<<r, t>>], channel[<<r, t>>]) \subseteq Nat
      BY <1>31, RankTyped
    <3>4. \A x : Promise(r, t, x) => x <= now + BundleDelay(r, t)
      BY <1>1, <1>4 DEF Promise
    <3> QED
      BY <2>1, <2>3, <3>1, <3>2, <3>3, <3>4 DEF KeptOn, Promised
  <2> QED
    BY <2>1, <2>4, <2>5
<1>32. Incoming(r)
  <2>1. \A q \in Ranks : <<q, r>> \in Bundles
                           => channel'[<<q, r>>] = channel[<<q, r>>]
    BY <1>25, NotToItself DEF NoSelf
  <2> QED
    BY <1>1, <2>1, IncomingSame
<1>33. Outgoing(r)
  BY <1>31 DEF Outgoing
<1> QED
  BY <1>29, <1>30, <1>32, <1>33, StepKeeps

-----------------------------------------------------------------------------
(* Messages arrive.                                                        *)

LEMMA SafeTimeIs ==
  ASSUME NEW r \in Ranks, NEW gs \in [Bundles -> Nat]
  PROVE  /\ SafeTime(r, gs) \in Nat
         /\ \A s \in Ranks : <<s, r>> \in Bundles => SafeTime(r, gs) <= gs[<<s, r>>]
         /\ \A x \in Nat :
              (\A s \in Ranks : <<s, r>> \in Bundles => x <= gs[<<s, r>>])
                => x <= SafeTime(r, gs)
<1>1. PICK T : T = {gs[<<s, r>>] : s \in Neighbours(r)}
  OBVIOUS
<1>2. /\ Neighbours(r) # {} /\ Neighbours(r) \subseteq Ranks
      /\ \A s \in Ranks : <<s, r>> \in Bundles <=> s \in Neighbours(r)
  BY Neighbourly
<1>3. T \in SUBSET Nat /\ T # {}
  BY <1>1, <1>2
<1>4. SafeTime(r, gs) = Least(T)
  BY <1>1 DEF SafeTime
<1>5. Least(T) \in T /\ Least(T) \in Nat /\ \A u \in T : Least(T) <= u
  BY <1>3, LeastIs
<1> QED
  BY <1>1, <1>2, <1>4, <1>5

\* What TakeMessage makes of the state: the new guarantee is no earlier, and a
\* packet is due no earlier than the old one.
LEMMA MessageTaken ==
  ASSUME Inv, NEW r \in Ranks, NEW s \in Ranks, TakeMessage(r, s)
  PROVE  /\ <<s, r>> \in Bundles
         /\ m_guaranteeTime' \in [Bundles -> Nat]
         /\ m_guaranteeTime[<<s, r>>] <= m_guaranteeTime'[<<s, r>>]
         /\ channel' \in [Bundles -> Seq(Messages)]
         /\ KeptOn(s, r)'
         /\ Given(m_guaranteeTime'[<<s, r>>], channel'[<<s, r>>])
              \subseteq Given(m_guaranteeTime[<<s, r>>], channel[<<s, r>>])
         /\ \A b \in Bundles :
              b # <<s, r>> => /\ channel'[b] = channel[b]
                              /\ m_guaranteeTime'[b] = m_guaranteeTime[b]
         /\ m_uid' \in [Ranks -> Nat] /\ m_events' \in [Ranks -> SUBSET Events]
         /\ \A q \in Ranks \ {r} : m_events'[q] = m_events[q]
         /\ \/ m_events'[r] = m_events[r]
            \/ \E new \in Events : /\ m_events'[r] = m_events[r] \cup {new}
                                   /\ new.what = "app"
                                   /\ m_safeTime[r] <= new.ts
<1>1. <<s, r>> \in Bundles /\ channel[<<s, r>>] # <<>>
  BY DEF TakeMessage
<1>2. PICK old : old = channel[<<s, r>>]
  OBVIOUS
<1>3. PICK h \in Nat : h = m_guaranteeTime[<<s, r>>]
  BY <1>1 DEF Inv, Typed
<1>4. old \in Seq(Messages) /\ Kept(h, old) /\ old # <<>>
  BY <1>1, <1>2, <1>3 DEF Inv, Typed, KeptOn
<1>5. PICK m : m = Head(old)
  OBVIOUS
<1>6. PICK ch : ch = Tail(old)
  OBVIOUS
<1>7. /\ m \in Messages /\ ch \in Seq(Messages)
      /\ NoLater(h, m) /\ Kept(m.guarantee, ch)
      /\ Given(m.guarantee, ch) \subseteq Given(h, old)
  BY <1>4, <1>5, <1>6, KeptTail
<1>8. m.rx \in Nat /\ m.guarantee \in Nat
  BY <1>7 DEF Messages
<1>9. /\ m_guaranteeTime' = [m_guaranteeTime EXCEPT ![<<s, r>>] = m.guarantee]
      /\ channel' = [channel EXCEPT ![<<s, r>>] = ch]
  BY <1>2, <1>5, <1>6, Zenon DEF TakeMessage
<1>10. /\ m_guaranteeTime' \in [Bundles -> Nat]
       /\ m_guaranteeTime'[<<s, r>>] = m.guarantee
       /\ channel' \in [Bundles -> Seq(Messages)] /\ channel'[<<s, r>>] = ch
       /\ \A b \in Bundles :
            b # <<s, r>> => /\ channel'[b] = channel[b]
                            /\ m_guaranteeTime'[b] = m_guaranteeTime[b]
  BY <1>1, <1>7, <1>8, <1>9 DEF Inv, Typed
<1>11. m_guaranteeTime[<<s, r>>] <= m_guaranteeTime'[<<s, r>>]
  BY <1>3, <1>7, <1>10 DEF NoLater
<1>12. /\ KeptOn(s, r)'
       /\ Given(m_guaranteeTime'[<<s, r>>], channel'[<<s, r>>])
            \subseteq Given(m_guaranteeTime[<<s, r>>], channel[<<s, r>>])
  BY <1>2, <1>3, <1>7, <1>10 DEF KeptOn
<1>13. CASE m.rx = NullMessageMark
  <2>1. m_events' = m_events /\ m_uid' = m_uid
    BY <1>2, <1>5, <1>13 DEF TakeMessage
  <2>2. m_uid' \in [Ranks -> Nat] /\ m_events' \in [Ranks -> SUBSET Events]
    BY <2>1 DEF Inv, Typed
  <2> QED
    BY <1>1, <1>10, <1>11, <1>12, <2>1, <2>2
<1>14. CASE m.rx # NullMessageMark
  <2>1. PICK new : new = Event(m.rx, m_uid[r], "app", r)
    OBVIOUS
  <2>2. new \in Events /\ new.what = "app" /\ new.ts = m.rx
    <3>1. m_uid[r] \in Nat /\ r \in Ranks \cup Links
      BY RankTyped
    <3> QED
      BY <1>8, <2>1, <3>1 DEF Event, Events
  <2>3. m_safeTime[r] <= new.ts
    <3>1. m_safeTime[r] <= h /\ m_safeTime[r] \in Nat
      BY <1>1, <1>3, RankTyped DEF Inv, Heeded
    <3>2. h <= m.rx
      BY <1>7, <1>14 DEF NoLater
    <3> QED
      BY <1>8, <2>2, <3>1, <3>2
  <2>4. /\ m_events' = [m_events EXCEPT ![r] = m_events[r] \cup {new}]
        /\ m_uid' = [m_uid EXCEPT ![r] = @ + 1]
    BY <1>2, <1>5, <1>14, <2>1, Zenon DEF TakeMessage
  <2>5. m_uid' \in [Ranks -> Nat]
    BY <2>4 DEF Inv, Typed
  <2>6. /\ m_events' \in [Ranks -> SUBSET Events]
        /\ m_events'[r] = m_events[r] \cup {new}
        /\ \A q \in Ranks \ {r} : m_events'[q] = m_events[q]
    <3>1. /\ m_events \in [Ranks -> SUBSET Events]
          /\ m_events[r] \cup {new} \in SUBSET Events
      BY <2>2, RankTyped DEF Inv, Typed
    <3> QED
      BY <2>4, <3>1, RankExcept
  <2> QED
    BY <1>1, <1>10, <1>11, <1>12, <2>2, <2>3, <2>5, <2>6
<1> QED
  BY <1>13, <1>14

\* The safe time may grow, and packets be listed that are due after the old
\* one.
LEMMA ReceiptKeeps ==
  ASSUME Inv, Typed', NEW r \in Ranks, pc'[r] # "handler",
         m_currentTs' = m_currentTs, m_stop' = m_stop, OthersLeft(r),
         m_safeTime[r] <= m_safeTime'[r],
         \/ m_events'[r] = m_events[r]
         \/ \E new \in Events : /\ m_events'[r] = m_events[r] \cup {new}
                                /\ new.what = "app"
                                /\ m_safeTime[r] <= new.ts,
         \A t \in Ranks :
           <<r, t>> \in Bundles
             => /\ channel'[<<r, t>>] = channel[<<r, t>>]
                /\ m_guaranteeTime'[<<r, t>>] = m_guaranteeTime[<<r, t>>],
         Incoming(r)
  PROVE  Inv'
<1>1. /\ m_currentTs[r] \in Nat /\ m_safeTime[r] \in Nat /\ Local(r)
      /\ m_safeTime'[r] \in Nat /\ m_currentTs[r] <= m_safeTime[r]
  BY RankTyped DEF Typed, Local
<1>2. \A f \in m_events'[r] :
        \/ f \in m_events[r]
        \/ f \in Events /\ f.what = "app" /\ m_safeTime[r] <= f.ts
  OBVIOUS
<1>3. \A f \in m_events[r] : f \in m_events'[r]
  OBVIOUS
<1>4. Local(r)'
  <2>1. \A t : Neighbours(t)' = Neighbours(t)
    BY DEF Neighbours, LinksTo
  <2>2. \A t : NullMessageEvents(r, t)' = NullMessageEvents(r, t)
    BY <1>2, <1>3 DEF NullMessageEvents
  <2>3. \A f \in m_events'[r] : m_currentTs'[r] <= f.ts
    <3>1. ASSUME NEW f \in Events, m_safeTime[r] <= f.ts
          PROVE  m_currentTs[r] <= f.ts
      BY <1>1, <3>1, FieldsTyped
    <3> QED
      BY <1>1, <1>2, <3>1 DEF Local
  <2>4. m_currentTs'[r] <= m_safeTime'[r]
    BY <1>1
  <2>5. /\ m_stop'[r] \/ \E f \in m_events'[r] : f.what = "stop"
        /\ \A f \in m_events'[r] : f.what = "null" => f.arg \in Neighbours(r)
        /\ \A s \in Neighbours(r) :
             \E f \in m_events'[r] : NullMessageEvents(r, s)' = {f}
    BY <1>1, <1>2, <1>3, <2>2 DEF Local
  <2> QED
    BY <2>1, <2>3, <2>4, <2>5 DEF Local
<1>5. ASSUME NEW t \in Ranks, <<r, t>> \in Bundles
      PROVE  /\ m_guaranteeTime'[<<r, t>>] = m_guaranteeTime[<<r, t>>]
             /\ KeptOn(r, t)' /\ Promised(r, t)'
  <2>1. /\ channel'[<<r, t>>] = channel[<<r, t>>]
        /\ m_guaranteeTime'[<<r, t>>] = m_guaranteeTime[<<r, t>>]
        /\ KeptOn(r, t) /\ Promised(r, t)
    BY <1>5 DEF Inv
  <2>2. /\ Given(m_guaranteeTime[<<r, t>>], channel[<<r, t>>]) \subseteq Nat
        /\ BundleDelay(r, t) \in Nat
    BY <1>5, RankTyped
  <2>3. ASSUME NEW x \in Nat, Promise(r, t, x)
        PROVE  Promise(r, t, x)'
    <3>1. x <= m_safeTime[r] + BundleDelay(r, t)
      BY <2>3 DEF Promise
    <3>2. x <= m_safeTime'[r] + BundleDelay(r, t)
      BY <1>1, <2>2, <3>1
    <3>3. ASSUME NEW f \in Events, m_safeTime[r] <= f.ts
          PROVE  x <= f.ts + BundleDelay(r, t)
      BY <1>1, <2>2, <3>1, <3>3, FieldsTyped
    <3> QED
      BY <1>2, <2>3, <3>2, <3>3 DEF Promise
  <2> QED
    BY <2>1, <2>2, <2>3 DEF KeptOn, Promised
<1>6. Outgoing(r)
  BY <1>5 DEF Outgoing
<1> QED
  BY <1>4, <1>6, StepKeeps

LEMMA ReceiveNonBlockingKeeps ==
  ASSUME Inv, NEW r \in Ranks, NEW s \in Ranks, ReceiveNonBlocking(r, s)
  PROVE  Inv'
<1>1. /\ m_currentTs' = m_currentTs /\ m_safeTime' = m_safeTime
      /\ m_stop' = m_stop /\ pc' = pc /\ busy' = busy /\ nSends' = nSends
      /\ nScheds' = nScheds /\ pc[r] = "receive" /\ TakeMessage(r, s)
  BY DEF ReceiveNonBlocking
<1>2. /\ <<s, r>> \in Bundles
      /\ m_guaranteeTime' \in [Bundles -> Nat]
      /\ m_guaranteeTime[<<s, r>>] <= m_guaranteeTime'[<<s, r>>]
      /\ channel' \in [Bundles -> Seq(Messages)]
      /\ KeptOn(s, r)'
      /\ Given(m_guaranteeTime'[<<s, r>>], channel'[<<s, r>>])
           \subseteq Given(m_guaranteeTime[<<s, r>>], channel[<<s, r>>])
      /\ \A b \in Bundles :
           b # <<s, r>> => /\ channel'[b] = channel[b]
                           /\ m_guaranteeTime'[b] = m_guaranteeTime[b]
      /\ m_uid' \in [Ranks -> Nat] /\ m_events' \in [Ranks -> SUBSET Events]
      /\ \A q \in Ranks \ {r} : m_events'[q] = m_events[q]
      /\ \/ m_events'[r] = m_events[r]
         \/ \E new \in Events : /\ m_events'[r] = m_events[r] \cup {new}
                                /\ new.what = "app"
                                /\ m_safeTime[r] <= new.ts
  BY <1>1, MessageTaken
<1>3. Typed'
  BY <1>1, <1>2 DEF Inv, Typed
<1>4. OthersLeft(r)
  BY <1>1, <1>2 DEF OthersLeft
<1>5. m_safeTime[r] \in Nat /\ r # s
  BY <1>2, RankTyped, NotToItself DEF NoSelf
<1>6. Incoming(r)
  <2>1. ASSUME NEW q \in Ranks, <<q, r>> \in Bundles
        PROVE  /\ KeptOn(q, r)' /\ Heeded(q, r)'
               /\ Given(m_guaranteeTime'[<<q, r>>], channel'[<<q, r>>])
                    \subseteq Given(m_guaranteeTime[<<q, r>>], channel[<<q, r>>])
    <3>1. KeptOn(q, r) /\ Heeded(q, r)
      BY <2>1 DEF Inv
    <3>2. CASE q = s
      <4>1. m_safeTime[r] <= m_guaranteeTime'[<<s, r>>]
        <5>1. /\ m_safeTime[r] <= m_guaranteeTime[<<s, r>>]
              /\ m_guaranteeTime[<<s, r>>] \in Nat
              /\ m_guaranteeTime'[<<s, r>>] \in Nat
          BY <1>2, <3>1, <3>2 DEF Heeded, Inv, Typed
        <5> QED
          BY <1>2, <1>5, <5>1
      <4> QED
        BY <1>1, <1>2, <3>2, <4>1 DEF Heeded
    <3>3. CASE q # s
      BY <1>1, <1>2, <2>1, <3>1, <3>3 DEF KeptOn, Heeded
    <3> QED
      BY <3>2, <3>3
  <2> QED
    BY <2>1 DEF Incoming
<1>7. \A t \in Ranks :
        <<r, t>> \in Bundles
          => /\ channel'[<<r, t>>] = channel[<<r, t>>]
             /\ m_guaranteeTime'[<<r, t>>] = m_guaranteeTime[<<r, t>>]
  BY <1>2, <1>5
<1>8. m_safeTime[r] <= m_safeTime'[r] /\ pc'[r] # "handler"
  BY <1>1, <1>5
<1> QED
  BY <1>1, <1>2, <1>3, <1>4, <1>6, <1>7, <1>8, ReceiptKeeps

LEMMA ReceiveBlockingKeeps ==
  ASSUME Inv, NEW r \in Ranks, NEW s \in Ranks, ReceiveBlocking(r, s)
  PROVE  Inv'
<1>1. /\ m_currentTs' = m_currentTs /\ m_stop' = m_stop /\ pc' = pc
      /\ busy' = busy /\ nSends' = nSends /\ nScheds' = nScheds
      /\ pc[r] = "loop" /\ TakeMessage(r, s)
      /\ m_safeTime' = [m_safeTime EXCEPT ![r] = SafeTime(r, m_guaranteeTime')]
  BY DEF ReceiveBlocking
<1>2. /\ <<s, r>> \in Bundles
      /\ m_guaranteeTime' \in [Bundles -> Nat]
      /\ m_guaranteeTime[<<s, r>>] <= m_guaranteeTime'[<<s, r>>]
      /\ channel' \in [Bundles -> Seq(Messages)]
      /\ KeptOn(s, r)'
      /\ Given(m_guaranteeTime'[<<s, r>>], channel'[<<s, r>>])
           \subseteq Given(m_guaranteeTime[<<s, r>>], channel[<<s, r>>])
      /\ \A b \in Bundles :
           b # <<s, r>> => /\ channel'[b] = channel[b]
                           /\ m_guaranteeTime'[b] = m_guaranteeTime[b]
      /\ m_uid' \in [Ranks -> Nat] /\ m_events' \in [Ranks -> SUBSET Events]
      /\ \A q \in Ranks \ {r} : m_events'[q] = m_events[q]
      /\ \/ m_events'[r] = m_events[r]
         \/ \E new \in Events : /\ m_events'[r] = m_events[r] \cup {new}
                                /\ new.what = "app"
                                /\ m_safeTime[r] <= new.ts
  BY <1>1, MessageTaken
<1>3. PICK safe : safe = SafeTime(r, m_guaranteeTime')
  OBVIOUS
<1>4. /\ safe \in Nat
      /\ \A q \in Ranks : <<q, r>> \in Bundles => safe <= m_guaranteeTime'[<<q, r>>]
      /\ \A x \in Nat :
           (\A q \in Ranks : <<q, r>> \in Bundles => x <= m_guaranteeTime'[<<q, r>>])
             => x <= safe
  BY <1>2, <1>3, SafeTimeIs
<1>5. /\ m_safeTime' \in [Ranks -> Nat] /\ m_safeTime'[r] = safe
      /\ \A q \in Ranks \ {r} : m_safeTime'[q] = m_safeTime[q]
  BY <1>1, <1>3, <1>4 DEF Inv, Typed
<1>6. Typed'
  BY <1>1, <1>2, <1>5 DEF Inv, Typed
<1>7. OthersLeft(r)
  BY <1>1, <1>2, <1>5 DEF OthersLeft
<1>8. m_safeTime[r] \in Nat /\ r # s
  BY <1>2, RankTyped, NotToItself DEF NoSelf
<1>9. m_safeTime[r] <= safe
  <2>1. ASSUME NEW q \in Ranks, <<q, r>> \in Bundles
        PROVE  m_safeTime[r] <= m_guaranteeTime'[<<q, r>>]
    <3>1. /\ m_safeTime[r] <= m_guaranteeTime[<<q, r>>]
          /\ m_guaranteeTime[<<q, r>>] \in Nat
          /\ m_guaranteeTime'[<<q, r>>] \in Nat
      BY <1>2, <2>1 DEF Heeded, Inv, Typed
    <3>2. m_guaranteeTime[<<q, r>>] <= m_guaranteeTime'[<<q, r>>]
      <4>1. CASE q = s
        BY <1>2, <4>1
      <4>2. CASE q # s
        <5>1. m_guaranteeTime'[<<q, r>>] = m_guaranteeTime[<<q, r>>]
          BY <1>2, <2>1, <4>2
        <5> QED
          BY <3>1, <5>1
      <4> QED
        BY <4>1, <4>2
    <3> QED
      BY <1>8, <3>1, <3>2
  <2> QED
    BY <1>4, <1>8, <2>1
<1>10. Incoming(r)
  <2>1. ASSUME NEW q \in Ranks, <<q, r>> \in Bundles
        PROVE  /\ KeptOn(q, r)' /\ Heeded(q, r)'
               /\ Given(m_guaranteeTime'[<<q, r>>], channel'[<<q, r>>])
                    \subseteq Given(m_guaranteeTime[<<q, r>>], channel[<<q, r>>])
    <3>1. KeptOn(q, r) /\ Heeded(q, r)'
      BY <1>4, <1>5, <2>1 DEF Inv, Heeded
    <3>2. CASE q = s
      BY <1>2, <3>1, <3>2
    <3>3. CASE q # s
      BY <1>2, <2>1, <3>1, <3>3 DEF KeptOn
    <3> QED
      BY <3>2, <3>3
  <2> QED
    BY <2>1 DEF Incoming
<1>11. \A t \in Ranks :
        <<r, t>> \in Bundles
          => /\ channel'[<<r, t>>] = channel[<<r, t>>]
             /\ m_guaranteeTime'[<<r, t>>] = m_guaranteeTime[<<r, t>>]
  BY <1>2, <1>8
<1>12. m_safeTime[r] <= m_safeTime'[r] /\ pc'[r] # "handler"
  BY <1>1, <1>5, <1>9
<1> QED
  BY <1>1, <1>2, <1>6, <1>7, <1>10, <1>11, <1>12, ReceiptKeeps

LEMMA NothingArrivedKeeps ==
  ASSUME Inv, NEW r \in Ranks, NothingArrived(r)
  PROVE  Inv'
<1>1. /\ m_currentTs' = m_currentTs /\ m_uid' = m_uid /\ m_events' = m_events
      /\ m_guaranteeTime' = m_guaranteeTime /\ m_stop' = m_stop
      /\ busy' = busy /\ channel' = channel /\ nSends' = nSends
      /\ nScheds' = nScheds /\ pc' = [pc EXCEPT ![r] = "loop"]
      /\ m_safeTime' = [m_safeTime EXCEPT ![r] = SafeTime(r, m_guaranteeTime)]
  BY DEF NothingArrived
<1>2. PICK safe : safe = SafeTime(r, m_guaranteeTime)
  OBVIOUS
<1>3. m_guaranteeTime \in [Bundles -> Nat]
  BY DEF Inv, Typed
<1>4. /\ safe \in Nat
      /\ \A q \in Ranks : <<q, r>> \in Bundles => safe <= m_guaranteeTime[<<q, r>>]
      /\ \A x \in Nat :
           (\A q \in Ranks : <<q, r>> \in Bundles => x <= m_guaranteeTime[<<q, r>>])
             => x <= safe
  BY <1>2, <1>3, SafeTimeIs
<1>5. /\ m_safeTime' \in [Ranks -> Nat] /\ m_safeTime'[r] = safe
      /\ \A q \in Ranks \ {r} : m_safeTime'[q] = m_safeTime[q]
  BY <1>1, <1>2, <1>4 DEF Inv, Typed
<1>6. /\ pc' \in [Ranks -> {"loop", "handler", "receive", "done"}]
      /\ pc'[r] = "loop" /\ \A q \in Ranks \ {r} : pc'[q] = pc[q]
  BY <1>1 DEF Inv, Typed
<1>7. Typed' /\ OthersLeft(r)
  BY <1>1, <1>5, <1>6 DEF Inv, Typed, OthersLeft
<1>8. m_safeTime[r] <= safe
  <2>1. \A q \in Ranks : <<q, r>> \in Bundles
                           => m_safeTime[r] <= m_guaranteeTime[<<q, r>>]
    BY DEF Inv, Heeded
  <2> QED
    BY <1>4, <2>1, RankTyped
<1>9. Incoming(r)
  BY <1>1, <1>4, <1>5 DEF Incoming, Inv, KeptOn, Heeded
<1>10. m_safeTime[r] <= m_safeTime'[r] /\ pc'[r] # "handler"
  BY <1>5, <1>6, <1>8
<1>11. /\ m_events'[r] = m_events[r]
       /\ \A t \in Ranks :
            <<r, t>> \in Bundles
              => /\ channel'[<<r, t>>] = channel[<<r, t>>]
                 /\ m_guaranteeTime'[<<r, t>>] = m_guaranteeTime[<<r, t>>]
  BY <1>1
<1> QED
  BY <1>1, <1>7, <1>9, <1>10, <1>11, ReceiptKeeps

-----------------------------------------------------------------------------
(* The invariant holds.                                                    *)

\* The uids of the first null messages exist.
LEMMA NullUidTyped ==
  /\ NullUid \in [Ranks -> Nat] /\ Cardinality(Ranks) \in Nat
<1>1. PICK n \in Nat : n = Cardinality(Ranks)
  BY ConstantsTyped, FS_CardinalityType
<1>2. PICK b \in Bijection(1 .. n, Ranks) : TRUE
  BY <1>1, ConstantsTyped, FS_CardinalityType DEF ExistsBijection
<1>3. /\ b \in [1 .. n -> Ranks] /\ \A s \in Ranks : \E i \in 1 .. n : b[i] = s
  BY <1>2 DEF Bijection, Surjection, Injection
<1>4. PICK f : f = [s \in Ranks |-> VALID + 1 + (CHOOSE i \in 1 .. n : b[i] = s)]
  OBVIOUS
<1>5. PICK c : c = [s \in Ranks |-> CHOOSE i \in 1 .. n : b[i] = s]
  OBVIOUS
<1>6. \A s \in Ranks : c[s] \in 1 .. n /\ b[c[s]] = s
  BY <1>3, <1>5
<1>7. \A s \in Ranks : f[s] = VALID + 1 + c[s]
  BY <1>4, <1>5
<1>8. f \in [Ranks -> VALID + 2 .. VALID + 1 + n]
  <2>1. \A s \in Ranks : f[s] \in VALID + 2 .. VALID + 1 + n
    BY <1>6, <1>7 DEF VALID
  <2> QED
    BY <1>4, <2>1
<1>9. \A r, s \in Ranks : r # s => f[r] # f[s]
  BY <1>6, <1>7 DEF VALID
<1>10. NullUid \in [Ranks -> VALID + 2 .. VALID + 1 + n]
  BY <1>1, <1>8, <1>9 DEF NullUid
<1> QED
  BY <1>1, <1>10 DEF VALID

LEMMA InitInv == Init => Inv
<1> SUFFICES ASSUME Init PROVE Inv
  OBVIOUS
<1>1. PICK start \in [Ranks -> Starts] :
        m_events = [r \in Ranks |->
          {Event(StopTime, VALID, "stop", r),
           Event(start[r], VALID + 1, "app", r)}
            \cup {Event(NullDelay(r, s), NullUid[s], "null", s)
                  : s \in Neighbours(r)}]
  BY DEF Init
<1>2. ASSUME NEW r \in Ranks
      PROVE  /\ m_events[r] \in SUBSET Events
             /\ \E e \in m_events[r] : e.what = "stop"
             /\ \A e \in m_events[r] : e.what = "null" => e.arg \in Neighbours(r)
             /\ \A s \in Neighbours(r) :
                  \E e \in m_events[r] : NullMessageEvents(r, s) = {e}
  <2>1. PICK stop : stop = Event(StopTime, VALID, "stop", r)
    OBVIOUS
  <2>2. PICK app : app = Event(start[r], VALID + 1, "app", r)
    OBVIOUS
  <2>3. PICK null : null = [s \in Neighbours(r) |->
                              Event(NullDelay(r, s), NullUid[s], "null", s)]
    OBVIOUS
  <2>4. stop \in Events /\ stop.what = "stop"
    BY <2>1, ConstantsTyped DEF Event, Events, VALID
  <2>5. app \in Events /\ app.what = "app"
    <3>1. start[r] \in Nat /\ VALID + 1 \in Nat /\ r \in Ranks \cup Links
      <4>1. start \in [Ranks -> Starts] /\ r \in Ranks
        BY <1>1
      <4>2. start[r] \in Starts
        BY <4>1, SMT
      <4>3. Starts \subseteq Nat
        BY ConstantsTyped
      <4>4. start[r] \in Nat
        BY <4>2, <4>3, Zenon
      <4>5. VALID + 1 \in Nat
        BY DEF VALID
      <4> QED
        BY <4>1, <4>4, <4>5
    <3> QED
      BY <2>2, <3>1 DEF Event, Events
  <2>6. ASSUME NEW s \in Neighbours(r)
        PROVE  null[s] \in Events /\ null[s].what = "null" /\ null[s].arg = s
    <3>1. /\ s \in Ranks \cup Links /\ NullUid[s] \in Nat
          /\ NullDelay(r, s) \in Nat
      BY Neighbourly, NullUidTyped, DelayIs
    <3>2. null[s] = Event(NullDelay(r, s), NullUid[s], "null", s)
      BY <2>3
    <3> QED
      BY <3>1, <3>2 DEF Event, Events
  <2>7. m_events[r] = {stop, app} \cup {null[s] : s \in Neighbours(r)}
    BY <1>1, <2>1, <2>2, <2>3
  <2>8. ASSUME NEW s \in Neighbours(r)
        PROVE  NullMessageEvents(r, s) = {null[s]} /\ null[s] \in m_events[r]
    BY <2>4, <2>5, <2>6, <2>7 DEF NullMessageEvents
  <2> QED
    <3>1. \A e \in m_events[r] :
            e = stop \/ e = app \/ \E s \in Neighbours(r) : e = null[s]
      BY <2>7
    <3>2. m_events[r] \in SUBSET Events
      BY <2>4, <2>5, <2>6, <3>1
    <3>3. stop \in m_events[r]
      BY <2>7
    <3>4. \A e \in m_events[r] : e.what = "null" => e.arg \in Neighbours(r)
      BY <2>4, <2>5, <2>6, <3>1
    <3> QED
      BY <2>4, <2>8, <3>2, <3>3, <3>4
<1>3. \A b \in Bundles : b[1] \in Ranks /\ b[2] \in Ranks /\ b = <<b[1], b[2]>>
  BY DEF Bundles
<1>4. \A b \in Bundles : BundleDelay(b[1], b[2]) \in Nat
  BY <1>3, DelayIs
<1>5. ASSUME NEW b \in Bundles
      PROVE  /\ channel[b] = <<Message(NullMessageMark, BundleDelay(b[1], b[2]))>>
             /\ Message(NullMessageMark, BundleDelay(b[1], b[2])) \in Messages
             /\ channel[b] \in Seq(Messages)
  <2>1. Message(NullMessageMark, BundleDelay(b[1], b[2])) \in Messages
    BY <1>4, MessageTyped DEF NullMessageMark
  <2> QED
    BY <2>1 DEF Init
<1>6. Typed
  <2>1. channel \in [Bundles -> Seq(Messages)]
    BY <1>5 DEF Init
  <2>2. m_events \in [Ranks -> SUBSET Events]
    BY <1>1, <1>2
  <2>3. m_uid \in [Ranks -> Nat]
    BY NullUidTyped DEF Init, VALID
  <2>4. /\ m_currentTs \in [Ranks -> Nat] /\ m_safeTime \in [Ranks -> Nat]
        /\ m_guaranteeTime \in [Bundles -> Nat] /\ m_stop \in [Ranks -> BOOLEAN]
        /\ pc \in [Ranks -> {"loop", "handler", "receive", "done"}]
        /\ busy \subseteq Links
        /\ nSends \in 0 .. MaxSends /\ nScheds \in 0 .. MaxScheds
    BY ConstantsTyped DEF Init
  <2> QED
    BY <2>1, <2>2, <2>3, <2>4 DEF Typed
<1>7. ASSUME NEW r \in Ranks
      PROVE  Local(r)
  <2>1. m_currentTs[r] = 0 /\ m_safeTime[r] = 0
    BY DEF Init
  <2>2. \A e \in m_events[r] : m_currentTs[r] <= e.ts
    BY <1>2, <2>1, FieldsTyped
  <2> QED
    BY <1>2, <2>1, <2>2 DEF Local
<1>8. ASSUME NEW r \in Ranks, NEW s \in Ranks, <<r, s>> \in Bundles
      PROVE  KeptOn(r, s) /\ Promised(r, s) /\ Heeded(r, s)
  <2>1. PICK d \in Nat : d = BundleDelay(r, s)
    BY <1>8, DelayIs
  <2>2. PICK m : m = Message(NullMessageMark, d)
    OBVIOUS
  <2>3. m \in Messages /\ m.rx = NullMessageMark /\ m.guarantee = d
    BY <2>2, MessageTyped DEF NullMessageMark
  <2>4. /\ channel[<<r, s>>] = <<m>> /\ m_guaranteeTime[<<r, s>>] = 0
        /\ m_safeTime[r] = 0 /\ m_safeTime[s] = 0 /\ pc[r] = "loop"
    BY <1>5, <1>8, <2>1, <2>2 DEF Init
  <2>5. Kept(0, <<m>>)
    BY <2>3 DEF Kept, NoLater
  <2>6. \A x \in Given(0, <<m>>) : x \in Nat /\ x <= d
    BY <2>3 DEF Given
  <2>7. \A x \in Nat : x <= d => Promise(r, s, x)
    <3>1. \A e \in m_events[r] : e.ts \in Nat
      BY <1>2, FieldsTyped
    <3> QED
      BY <2>1, <2>4, <3>1 DEF Promise
  <2> QED
    BY <2>4, <2>5, <2>6, <2>7 DEF KeptOn, Promised, Heeded
<1> QED
  BY <1>6, <1>7, <1>8 DEF Inv

LEMMA StutterKeeps ==
  ASSUME Inv, UNCHANGED vars
  PROVE  Inv'
<1>1. /\ m_currentTs' = m_currentTs /\ m_uid' = m_uid /\ m_events' = m_events
      /\ m_safeTime' = m_safeTime /\ m_guaranteeTime' = m_guaranteeTime
      /\ m_stop' = m_stop /\ pc' = pc /\ busy' = busy /\ channel' = channel
      /\ nSends' = nSends /\ nScheds' = nScheds
  BY DEF vars
<1>2. Typed'
  BY <1>1 DEF Inv, Typed
<1>3. \A r \in Ranks : Local(r)'
  BY <1>1 DEF Inv, Local, NullMessageEvents
<1>4. \A r, s \in Ranks :
        <<r, s>> \in Bundles => KeptOn(r, s)' /\ Promised(r, s)' /\ Heeded(r, s)'
  BY <1>1 DEF Inv, KeptOn, Promised, Promise, Heeded
<1> QED
  BY <1>2, <1>3, <1>4 DEF Inv

LEMMA NextKeeps ==
  ASSUME Inv, FlowControl, Next
  PROVE  Inv'
<1>1. ASSUME NEW r \in Ranks, RunStep(r)
      PROVE  Inv'
  <2>1. ASSUME NEW s \in Ranks, ReceiveBlocking(r, s)
        PROVE  Inv'
    BY <2>1, ReceiveBlockingKeeps
  <2> QED
    BY <1>1, <2>1, RunHandlerKeeps, RunNullMessageEventKeeps,
       RunStopOrCancelledKeeps, HandlerReturnsKeeps, NothingArrivedKeeps,
       RunReturnsKeeps DEF RunStep
<1>2. ASSUME NEW r \in Ranks, HandlerStep(r)
      PROVE  Inv'
  BY <1>2, SendPacketKeeps, ScheduleKeeps DEF HandlerStep
<1>3. ASSUME NEW r \in Ranks, NEW s \in Ranks, ReceiveNonBlocking(r, s)
      PROVE  Inv'
  BY <1>3, ReceiveNonBlockingKeeps
<1> QED
  BY <1>1, <1>2, <1>3 DEF Next

LEMMA InvCorrect ==
  ASSUME FlowControl
  PROVE  Spec => []Inv
<1>1. Inv /\ [Next]_vars => Inv'
  BY NextKeeps, StutterKeeps
<1> QED
  BY InitInv, <1>1, PTL DEF Spec

-----------------------------------------------------------------------------
(* The theorems.                                                           *)

\* For any ranks, links and programs, the variables keep their types, and each
\* bundle has exactly one event for its next null message, however often
\* RescheduleNullMessageEvent puts it off.
THEOREM TypeCorrect ==
  ASSUME FlowControl
  PROVE  Spec => []TypeOK
<1>1. Inv => TypeOK
  BY DEF Inv, Typed, Local, TypeOK, Messages
<1> QED
  BY <1>1, InvCorrect, PTL

\* If the devices have flow control, no packet ever comes to a rank that is
\* past its time, and no rank goes beyond its safe time (ProcessOneEvent,
\* ReceiveMessages), for any ranks, links, delays, tuning and programs.
THEOREM NeverInPastCorrect ==
  ASSUME FlowControl
  PROVE  Spec => []NeverInPast
<1>1. ASSUME Inv, NEW r \in Ranks, NEW s \in Neighbours(r),
             NEW i \in 1 .. Len(channel[<<s, r>>]),
             channel[<<s, r>>][i].rx # NullMessageMark
      PROVE  channel[<<s, r>>][i].rx >= m_currentTs[r]
  <2>1. s \in Ranks /\ <<s, r>> \in Bundles
    BY Neighbourly
  <2>2. PICK g \in Nat : g = m_guaranteeTime[<<s, r>>]
    BY <1>1, <2>1 DEF Inv, Typed
  <2>3. PICK ch \in Seq(Messages) : ch = channel[<<s, r>>]
    BY <1>1, <2>1 DEF Inv, Typed
  <2>4. Kept(g, ch) /\ m_safeTime[r] <= g
    BY <1>1, <2>1, <2>2, <2>3 DEF Inv, KeptOn, Heeded
  <2>5. i \in DOMAIN ch /\ ch[i] \in Messages
    BY <2>3
  <2>6. g <= ch[i].rx /\ ch[i].rx \in Nat
    BY <1>1, <2>3, <2>4, <2>5 DEF Kept, NoLater, Messages
  <2>7. /\ m_currentTs[r] \in Nat /\ m_safeTime[r] \in Nat
        /\ m_currentTs[r] <= m_safeTime[r]
    BY <1>1, RankTyped DEF Local
  <2> QED
    BY <2>2, <2>3, <2>4, <2>6, <2>7
<1>2. ASSUME Inv, NEW r \in Ranks
      PROVE  /\ m_currentTs[r] <= m_safeTime[r]
             /\ \A e \in m_events[r] : e.ts >= m_currentTs[r]
  BY <1>2, RankTyped DEF Local
<1>3. Inv => NeverInPast
  BY <1>1, <1>2 DEF NeverInPast
<1> QED
  BY <1>3, InvCorrect, PTL

\* If the devices have flow control, the guarantees that CalculateGuaranteeTime
\* gives to a neighbour are never taken back, and no packet is due before one
\* that was given earlier.
THEOREM GuaranteeKeptCorrect ==
  ASSUME FlowControl
  PROVE  Spec => []GuaranteeKept
<1>1. ASSUME Inv, NEW b \in Bundles, NEW all,
             all = <<Message(NullMessageMark, m_guaranteeTime[b])>> \o channel[b],
             NEW i \in 1 .. Len(all), NEW j \in 1 .. Len(all), i < j
      PROVE  NoLater(all[i].guarantee, all[j])
  <2>1. b = <<b[1], b[2]>> /\ b[1] \in Ranks /\ b[2] \in Ranks
    BY DEF Bundles
  <2>2. PICK g \in Nat : g = m_guaranteeTime[b]
    BY <1>1 DEF Inv, Typed
  <2>3. PICK ch \in Seq(Messages) : ch = channel[b]
    BY <1>1 DEF Inv, Typed
  <2>4. Kept(g, ch)
    BY <1>1, <2>1, <2>2, <2>3 DEF Inv, KeptOn
  <2>5. PICK m \in Messages : m = Message(NullMessageMark, g)
    BY MessageTyped DEF NullMessageMark
  <2>6. m.guarantee = g
    BY <2>5, MessageTyped DEF NullMessageMark
  <2>7. all = <<m>> \o ch
    BY <1>1, <2>2, <2>3, <2>5
  <2>8. /\ Len(all) = Len(ch) + 1 /\ Len(ch) \in Nat
        /\ all[1] = m /\ \A k \in 1 .. Len(ch) : all[k + 1] = ch[k]
    BY <2>7
  <2>9. PICK k \in 1 .. Len(ch) : j = k + 1
    <3>1. j - 1 \in 1 .. Len(ch) /\ j = (j - 1) + 1
      BY <1>1, <2>8
    <3> QED
      BY <3>1
  <2>10. all[j] = ch[k] /\ k \in DOMAIN ch
    BY <2>8, <2>9
  <2>11. CASE i = 1
    BY <2>4, <2>6, <2>8, <2>10, <2>11 DEF Kept
  <2>12. CASE i # 1
    <3>1. PICK h \in 1 .. Len(ch) : i = h + 1
      <4>1. i - 1 \in 1 .. Len(ch) /\ i = (i - 1) + 1
        BY <2>8, <2>12
      <4> QED
        BY <4>1
    <3>2. all[i] = ch[h] /\ h \in DOMAIN ch /\ h < k
      BY <1>1, <2>8, <2>9, <3>1
    <3> QED
      BY <2>4, <2>10, <3>2 DEF Kept
  <2> QED
    BY <2>11, <2>12
<1>2. Inv => GuaranteeKept
  <2> SUFFICES ASSUME Inv PROVE GuaranteeKept
    OBVIOUS
  <2> SUFFICES ASSUME NEW b \in Bundles, NEW all,
                      all = <<Message(NullMessageMark, m_guaranteeTime[b])>>
                              \o channel[b],
                      NEW i \in 1 .. Len(all), NEW j \in 1 .. Len(all), i < j
               PROVE  /\ all[i].guarantee <= all[j].guarantee
                      /\ all[j].rx # NullMessageMark
                           => all[i].guarantee <= all[j].rx
    BY DEF GuaranteeKept
  <2> QED
    BY <1>1 DEF NoLater
<1> QED
  BY <1>2, InvCorrect, PTL

=============================================================================
