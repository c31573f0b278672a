-------------------------- MODULE EventListsProofs --------------------------
(***************************************************************************)
(* Proofs about the event lists: for any time stamps and any number of     *)
(* events every implementation keeps the contract of Scheduler, under any  *)
(* interleaving of Insert, RemoveNext, Remove and SetScheduler (a heap     *)
(* until its first Remove), and a calendar stays filed and scanned right.  *)
(*                                                                         *)
(* The loops of the code are recursive functions over their rounds: Loop   *)
(* says that such a function exists and stays among given states, SameRuns *)
(* that there is only one.  What follows goes from keys and sorted         *)
(* sequences to the calendar, the heap, the list and the map, then to all  *)
(* of them, SetScheduler, and the steps of EventLists.                     *)
(***************************************************************************)
EXTENDS EventLists, FiniteSetTheorems, FunctionTheorems, SequenceTheorems,
        WellFoundedInduction, TLAPS

-----------------------------------------------------------------------------
(* Loops.                                                                  *)

\* A set of numbers has a least one.
LEMMA NatMin ==
  ASSUME NEW T \in SUBSET Nat, T # {}
  PROVE  \E x \in T : \A y \in T : x <= y
<1>1. PICK R : R = {ss \in Nat \X Nat : ss[1] < ss[2]}
  OBVIOUS
<1>2. IsWellFoundedOn(R, Nat)
  BY <1>1, NatLessThanWellFounded DEF OpToRel
<1>3. PICK x \in T : \A y \in T : <<y, x>> \notin R
  BY <1>2, WFMin
<1>4. ASSUME NEW y \in T PROVE x <= y
  <2>1. <<y, x>> \in Nat \X Nat /\ <<y, x>> \notin R
    BY <1>3
  <2> QED
    BY <1>1, <2>1
<1> QED
  BY <1>4

\* Induction over the rounds of a loop.
LEMMA Upto ==
  ASSUME NEW n \in Nat, NEW T, 0 \in T,
         \A k \in 1 .. n : k - 1 \in T => k \in T
  PROVE  \A k \in 0 .. n : k \in T
<1> SUFFICES ASSUME NEW j \in 0 .. n, j \notin T PROVE FALSE
  OBVIOUS
<1> DEFINE F == {k \in 0 .. n : k \notin T}
<1>1. F \in SUBSET Nat /\ F # {}
  OBVIOUS
<1>2. PICK m \in F : \A k \in F : m <= k
  BY <1>1, NatMin
<1>3. m \in 1 .. n /\ m - 1 \in 0 .. n
  BY <1>2
<1>4. m - 1 \in T
  BY <1>2, <1>3
<1> QED
  BY <1>2, <1>3, <1>4

\* The runs of a loop of n rounds from s, whose states after round k are
\* among In[k].
Runs(n, In, s, step) ==
  {f \in [0 .. n -> UNION {In[k] : k \in 0 .. n}] :
     /\ f[0] = s
     /\ \A k \in 1 .. n : f[k] = step[k][f[k - 1]]
     /\ \A k \in 0 .. n : f[k] \in In[k]}

\* A loop whose rounds stay among the given states has a run.
LEMMA Loop ==
  ASSUME NEW n \in Nat, NEW In, NEW step, NEW s \in In[0],
         \A k \in 1 .. n : \A x \in In[k - 1] : step[k][x] \in In[k]
  PROVE  Runs(n, In, s, step) # {}
<1> DEFINE T == {m \in 0 .. n : Runs(m, In, s, step) # {}}
<1>1. 0 \in T
  <2>1. PICK f : f = [k \in 0 .. 0 |-> s]
    OBVIOUS
  <2>2. f[0] = s /\ \A k \in 0 .. 0 : f[k] \in In[k]
    BY <2>1
  <2>3. f \in [0 .. 0 -> UNION {In[k] : k \in 0 .. 0}]
    BY <2>1, <2>2
  <2>4. f \in Runs(0, In, s, step)
    BY <2>2, <2>3 DEF Runs
  <2> QED
    BY <2>4
<1>2. ASSUME NEW m \in 1 .. n, m - 1 \in T PROVE m \in T
  <2>1. PICK f \in Runs(m - 1, In, s, step) : TRUE
    BY <1>2
  <2>2. /\ f \in [0 .. m - 1 -> UNION {In[k] : k \in 0 .. m - 1}] /\ f[0] = s
        /\ \A k \in 1 .. m - 1 : f[k] = step[k][f[k - 1]]
        /\ \A k \in 0 .. m - 1 : f[k] \in In[k]
    BY <2>1 DEF Runs
  <2>3. PICK g : g = [k \in 0 .. m |-> IF k = m THEN step[m][f[m - 1]] ELSE f[k]]
    OBVIOUS
  <2>4. step[m][f[m - 1]] \in In[m]
    <3>1. m - 1 \in 0 .. m - 1
      OBVIOUS
    <3> QED
      BY <2>2, <3>1
  <2>5. \A k \in 0 .. m : g[k] \in In[k]
    <3>1. g[m] \in In[m]
      BY <2>3, <2>4
    <3>2. ASSUME NEW k \in 0 .. m - 1 PROVE g[k] \in In[k]
      <4>1. k \in 0 .. m /\ k # m
        OBVIOUS
      <4>2. g[k] = f[k]
        BY <2>3, <4>1
      <4> QED
        BY <2>2, <4>2
    <3>3. \A k \in 0 .. m : k = m \/ k \in 0 .. m - 1
      OBVIOUS
    <3> QED
      BY <3>1, <3>2, <3>3
  <2>6. g[0] = s /\ \A k \in 1 .. m : g[k] = step[k][g[k - 1]]
    <3>1. g[m] = step[m][f[m - 1]] /\ \A k \in 0 .. m - 1 : g[k] = f[k]
      BY <2>3
    <3>2. ASSUME NEW k \in 1 .. m PROVE g[k] = step[k][g[k - 1]]
      <4>1. g[k - 1] = f[k - 1]
        BY <3>1
      <4>2. CASE k = m
        BY <3>1, <4>1, <4>2
      <4>3. CASE k \in 1 .. m - 1
        <5>1. g[k] = f[k]
          BY <3>1, <4>3
        <5>2. f[k] = step[k][f[k - 1]]
          BY <2>2, <4>3
        <5> QED
          BY <4>1, <5>1, <5>2
      <4>4. k = m \/ k \in 1 .. m - 1
        OBVIOUS
      <4> QED
        BY <4>2, <4>3, <4>4
    <3>3. g[0] = s
      BY <2>2, <3>1
    <3> QED
      BY <3>2, <3>3
  <2>7. g \in [0 .. m -> UNION {In[k] : k \in 0 .. m}]
    <3>1. \A k \in 0 .. m : g[k] \in UNION {In[i] : i \in 0 .. m}
      BY <2>5
    <3> QED
      BY <2>3, <3>1
  <2>8. g \in Runs(m, In, s, step)
    BY <2>5, <2>6, <2>7 DEF Runs
  <2>9. Runs(m, In, s, step) # {} /\ m \in 0 .. n
    BY <2>8
  <2> QED
    BY <2>9
<1>3. \A k \in 1 .. n : k - 1 \in T => k \in T
  BY <1>2
<1>4. n \in T
  <2> HIDE DEF T
  <2>1. \A k \in 0 .. n : k \in T
    BY <1>1, <1>3, Upto
  <2> QED
    BY <2>1
<1> QED
  BY <1>4

\* What the rounds of a loop are.
LEMMA RunsAre ==
  ASSUME NEW n \in Nat, NEW In, NEW step, NEW s,
         NEW f \in Runs(n, In, s, step)
  PROVE  /\ f = [k \in 0 .. n |-> f[k]] /\ f[0] = s /\ f[n] \in In[n]
         /\ \A k \in 1 .. n : f[k] = step[k][f[k - 1]] /\ f[k - 1] \in In[k - 1]
<1>1. /\ f \in [0 .. n -> UNION {In[k] : k \in 0 .. n}] /\ f[0] = s
      /\ \A k \in 1 .. n : f[k] = step[k][f[k - 1]]
      /\ \A k \in 0 .. n : f[k] \in In[k]
  BY DEF Runs
<1>2. \A k \in 1 .. n : f[k - 1] \in In[k - 1]
  <2>1. \A k \in 1 .. n : k - 1 \in 0 .. n
    OBVIOUS
  <2> QED
    BY <1>1, <2>1
<1>3. f[n] \in In[n]
  BY <1>1
<1>4. f = [k \in 0 .. n |-> f[k]]
  BY <1>1
<1> QED
  BY <1>1, <1>2, <1>3, <1>4

\* Two runs of a loop are the same.
LEMMA SameRuns ==
  ASSUME NEW n \in Nat, NEW f, NEW g, f[0] = g[0],
         \A k \in 1 .. n : f[k - 1] = g[k - 1] => f[k] = g[k]
  PROVE  f[n] = g[n]
<1> DEFINE T == {k \in 0 .. n : f[k] = g[k]}
<1>1. 0 \in T
  OBVIOUS
<1>2. \A k \in 1 .. n : k - 1 \in T => k \in T
  OBVIOUS
<1>3. \A k \in 0 .. n : k \in T
  <2> HIDE DEF T
  <2> QED
    BY <1>1, <1>2, Upto
<1> QED
  BY <1>3

-----------------------------------------------------------------------------
(* Keys and sorted sequences of them.                                      *)

Key == [ts : Nat, uid : Nat]

\* No two events have the same uid.
Distinct(S) == \A a, b \in S : a.uid = b.uid => a = b

LEMMA LessTrans ==
  ASSUME NEW a \in Key, NEW b \in Key, NEW c \in Key,
         KeyLess(a, b), KeyLess(b, c)
  PROVE  KeyLess(a, c)
BY DEF KeyLess, Key

LEMMA LessNot ==
  ASSUME NEW a \in Key, NEW b \in Key, KeyLess(a, b)
  PROVE  ~KeyLess(b, a) /\ a # b
BY DEF KeyLess, Key

LEMMA LessTotal ==
  ASSUME NEW a \in Key, NEW b \in Key
  PROVE  a = b \/ KeyLess(a, b) \/ KeyLess(b, a)
<1> SUFFICES ASSUME ~KeyLess(a, b), ~KeyLess(b, a) PROVE a = b
  OBVIOUS
<1>1. a.ts = b.ts /\ a.uid = b.uid
  BY DEF KeyLess, Key
<1> QED
  BY <1>1 DEF Key

\* Of some keys one is the earliest.
LEMMA EarliestExists ==
  ASSUME NEW S \in SUBSET Key, S # {}
  PROVE  \E e \in S : IsEarliest(e, S)
<1> DEFINE Stamps == {e.ts : e \in S}
<1>1. Stamps \in SUBSET Nat /\ Stamps # {}
  BY DEF Key
<1>2. PICK t \in Stamps : \A y \in Stamps : t <= y
  BY <1>1, NatMin
<1> DEFINE Uids == {e.uid : e \in {f \in S : f.ts = t}}
<1>3. Uids \in SUBSET Nat /\ Uids # {}
  BY <1>2 DEF Key
<1>4. PICK u \in Uids : \A y \in Uids : u <= y
  BY <1>3, NatMin
<1>5. PICK e \in S : e.ts = t /\ e.uid = u
  BY <1>4
<1>6. ASSUME NEW f \in S PROVE f = e \/ KeyLess(e, f)
  <2>1. t <= f.ts
    BY <1>2
  <2>2. f.ts = t => u <= f.uid
    BY <1>4
  <2>3. ~KeyLess(f, e)
    BY <1>5, <2>1, <2>2 DEF KeyLess, Key
  <2> QED
    BY <2>3, LessTotal
<1> QED
  BY <1>6 DEF IsEarliest

LEMMA EarliestUnique ==
  ASSUME NEW S \in SUBSET Key, NEW e \in S, NEW f \in S,
         IsEarliest(e, S), IsEarliest(f, S)
  PROVE  e = f
BY LessNot DEF IsEarliest

Elems(s) == {s[i] : i \in DOMAIN s}
Sorted(s) == \A i, j \in 1 .. Len(s) : i < j => KeyLess(s[i], s[j])

\* The elements of a sequence.
LEMMA ElemsOf ==
  ASSUME NEW S, NEW s \in Seq(S)
  PROVE  /\ Elems(s) \subseteq S /\ DOMAIN s = 1 .. Len(s) /\ Len(s) \in Nat
         /\ Elems(s) = {s[i] : i \in 1 .. Len(s)}
         /\ s = <<>> <=> Elems(s) = {}
<1>1. DOMAIN s = 1 .. Len(s) /\ Len(s) \in Nat /\ \A i \in 1 .. Len(s) : s[i] \in S
  BY LenProperties, ElementOfSeq
<1>2. Elems(s) = {s[i] : i \in 1 .. Len(s)} /\ Elems(s) \subseteq S
  BY <1>1 DEF Elems
<1>3. s = <<>> <=> Len(s) = 0
  BY EmptySeq
<1>4. Elems(s) = {} <=> Len(s) = 0
  <2>1. Len(s) # 0 => 1 \in 1 .. Len(s)
    BY <1>1
  <2> QED
    BY <1>1, <1>2, <2>1
<1> QED
  BY <1>1, <1>2, <1>3, <1>4

\* What InsertAt and RemoveAt of SequencesExt return.
Added(s, i, e) == SubSeq(s, 1, i - 1) \o <<e>> \o SubSeq(s, i, Len(s))
Without(s, i) == SubSeq(s, 1, i - 1) \o SubSeq(s, i + 1, Len(s))

\* The two parts of a sequence that is cut at a place.
LEMMA Parts ==
  ASSUME NEW S, NEW s \in Seq(S), NEW i \in 1 .. Len(s) + 1
  PROVE  /\ SubSeq(s, 1, i - 1) \in Seq(S)
         /\ Len(SubSeq(s, 1, i - 1)) = i - 1
         /\ \A j \in 1 .. i - 1 : SubSeq(s, 1, i - 1)[j] = s[j]
         /\ SubSeq(s, i, Len(s)) \in Seq(S)
         /\ Len(SubSeq(s, i, Len(s))) = Len(s) + 1 - i
         /\ \A j \in 1 .. Len(s) + 1 - i : SubSeq(s, i, Len(s))[j] = s[i + j - 1]
<1>0. Len(s) \in Nat
  BY LenProperties
<1>1. \A j \in 1 .. i - 1 : s[j] \in S
  BY <1>0, ElementOfSeq
<1>2. \A j \in i .. Len(s) : s[j] \in S
  BY <1>0, ElementOfSeq
<1>3. /\ SubSeq(s, 1, i - 1) \in Seq(S)
      /\ Len(SubSeq(s, 1, i - 1)) = IF 1 <= i - 1 THEN i - 1 - 1 + 1 ELSE 0
      /\ \A j \in 1 .. i - 1 - 1 + 1 : SubSeq(s, 1, i - 1)[j] = s[1 + j - 1]
  BY <1>0, <1>1, SubSeqProperties
<1>4. /\ SubSeq(s, i, Len(s)) \in Seq(S)
      /\ Len(SubSeq(s, i, Len(s))) = IF i <= Len(s) THEN Len(s) - i + 1 ELSE 0
      /\ \A j \in 1 .. Len(s) - i + 1 : SubSeq(s, i, Len(s))[j] = s[i + j - 1]
  BY <1>0, <1>2, SubSeqProperties
<1> QED
  BY <1>0, <1>3, <1>4

LEMMA WithoutProperties ==
  ASSUME NEW S, NEW s \in Seq(S), NEW i \in 1 .. Len(s)
  PROVE  /\ Without(s, i) \in Seq(S)
         /\ Len(Without(s, i)) = Len(s) - 1
         /\ \A j \in 1 .. Len(s) - 1 :
              Without(s, i)[j] = IF j < i THEN s[j] ELSE s[j + 1]
<1>0. Len(s) \in Nat
  BY LenProperties
<1>1. PICK front : front = SubSeq(s, 1, i - 1)
  OBVIOUS
<1>2. PICK back : back = SubSeq(s, i + 1, Len(s))
  OBVIOUS
<1>3. /\ front \in Seq(S) /\ Len(front) = i - 1
      /\ \A j \in 1 .. i - 1 : front[j] = s[j]
  BY <1>0, <1>1, Parts
<1>4. /\ back \in Seq(S) /\ Len(back) = Len(s) - i
      /\ \A j \in 1 .. Len(s) - i : back[j] = s[i + j]
  <2>1. PICK l \in 1 .. Len(s) + 1 : l = i + 1
    BY <1>0
  <2>2. /\ SubSeq(s, l, Len(s)) \in Seq(S)
        /\ Len(SubSeq(s, l, Len(s))) = Len(s) + 1 - l
        /\ \A j \in 1 .. Len(s) + 1 - l :
             SubSeq(s, l, Len(s))[j] = s[l + j - 1]
    BY Parts
  <2>3. back = SubSeq(s, l, Len(s))
    BY <1>2, <2>1
  <2>4. Len(s) + 1 - l = Len(s) - i
    BY <1>0, <2>1
  <2>5. \A j \in 1 .. Len(s) - i : l + j - 1 = i + j
    BY <1>0, <2>1
  <2> QED
    BY <2>2, <2>3, <2>4, <2>5
<1>5. Without(s, i) = front \o back
  BY <1>1, <1>2 DEF Without
<1>6. /\ front \o back \in Seq(S)
      /\ Len(front \o back) = Len(front) + Len(back)
      /\ \A j \in 1 .. Len(front) + Len(back) : (front \o back)[j] =
           IF j <= Len(front) THEN front[j] ELSE back[j - Len(front)]
  BY <1>3, <1>4, ConcatProperties
<1>7. ASSUME NEW j \in 1 .. Len(s) - 1
      PROVE  (front \o back)[j] = IF j < i THEN s[j] ELSE s[j + 1]
  BY <1>0, <1>3, <1>4, <1>6
<1> QED
  BY <1>0, <1>3, <1>4, <1>5, <1>6, <1>7

\* u is s with e inserted at i.
AddedAt(u, s, i, e) ==
  \A j \in 1 .. Len(s) + 1 :
    u[j] = IF j < i THEN s[j] ELSE IF j = i THEN e ELSE s[j - 1]

LEMMA AddedProperties ==
  ASSUME NEW S, NEW s \in Seq(S), NEW i \in 1 .. Len(s) + 1, NEW e \in S
  PROVE  /\ Added(s, i, e) \in Seq(S)
         /\ Len(Added(s, i, e)) = Len(s) + 1
         /\ AddedAt(Added(s, i, e), s, i, e)
<1>1. PICK n \in Nat : n = Len(s)
  BY LenProperties
<1>2. PICK front : front = SubSeq(s, 1, i - 1)
  OBVIOUS
<1>3. PICK back : back = SubSeq(s, i, n)
  OBVIOUS
<1>4. /\ front \in Seq(S) /\ Len(front) = i - 1
      /\ \A j \in 1 .. i - 1 : front[j] = s[j]
  BY <1>1, <1>2, Parts
<1>5. /\ back \in Seq(S) /\ Len(back) = n + 1 - i
      /\ \A j \in 1 .. n + 1 - i : back[j] = s[i + j - 1]
  BY <1>1, <1>3, Parts
<1>6. PICK mid : mid = <<e>>
  OBVIOUS
<1>7. mid \in Seq(S) /\ Len(mid) = 1 /\ mid[1] = e
  BY <1>6
<1>8. PICK head : head = front \o mid
  OBVIOUS
<1>9. /\ head \in Seq(S) /\ Len(head) = Len(front) + Len(mid)
      /\ \A j \in 1 .. Len(front) + Len(mid) :
           head[j] = IF j <= Len(front) THEN front[j] ELSE mid[j - Len(front)]
  <2>1. front \in Seq(S) /\ mid \in Seq(S)
    BY <1>4, <1>7
  <2> QED
    BY <1>8, <2>1, ConcatProperties
<1>10. PICK whole : whole = head \o back
  OBVIOUS
<1>11. /\ whole \in Seq(S) /\ Len(whole) = Len(head) + Len(back)
       /\ \A j \in 1 .. Len(head) + Len(back) :
            whole[j] = IF j <= Len(head) THEN head[j] ELSE back[j - Len(head)]
  <2>1. head \in Seq(S) /\ back \in Seq(S)
    BY <1>5, <1>9
  <2> QED
    BY <1>10, <2>1, ConcatProperties
<1>12. Len(head) = i
  BY <1>1, <1>4, <1>7, <1>9
<1>13. Len(whole) = n + 1
  BY <1>1, <1>5, <1>11, <1>12
<1>14. ASSUME NEW j \in 1 .. n + 1
       PROVE  whole[j] = IF j < i THEN s[j] ELSE IF j = i THEN e ELSE s[j - 1]
  <2>0. i \in 1 .. n + 1
    BY <1>1
  <2>1. CASE j < i
    <3>1. j \in 1 .. i - 1 /\ j <= Len(head)
      BY <1>12, <2>0, <2>1
    <3>2. whole[j] = head[j] /\ head[j] = front[j]
      BY <1>4, <1>5, <1>7, <1>9, <1>11, <1>12, <2>0, <3>1
    <3> QED
      BY <1>4, <2>1, <3>1, <3>2
  <2>2. CASE j = i
    <3>1. whole[i] = head[i]
      BY <1>5, <1>11, <1>12, <2>0
    <3>2. head[i] = mid[1]
      BY <1>4, <1>7, <1>9, <2>0
    <3> QED
      BY <1>7, <2>2, <3>1, <3>2
  <2>3. CASE j > i
    <3>1. j - i \in 1 .. n + 1 - i /\ i + (j - i) - 1 = j - 1
      BY <2>0, <2>3
    <3>2. whole[j] = back[j - i]
      BY <1>5, <1>11, <1>12, <2>0, <2>3
    <3> QED
      BY <1>5, <2>3, <3>1, <3>2
  <2> QED
    BY <2>0, <2>1, <2>2, <2>3
<1>15. AddedAt(whole, s, i, e)
  BY <1>1, <1>14 DEF AddedAt
<1>16. Added(s, i, e) = whole
  BY <1>1, <1>2, <1>3, <1>6, <1>8, <1>10 DEF Added
<1> QED
  BY <1>1, <1>11, <1>13, <1>15, <1>16

\* Where DoInsert and ListScheduler::Insert put an event.
PlaceOf(s, ev) ==
  LET later == {i \in DOMAIN s : KeyLess(ev, s[i])}
  IN IF later = {} THEN Len(s) + 1 ELSE Min(later)

\* The place is between the earlier events and the later ones.
LEMMA PlaceProperties ==
  ASSUME NEW s \in Seq(Key), Sorted(s), NEW ev \in Key, ev \notin Elems(s)
  PROVE  /\ PlaceOf(s, ev) \in 1 .. Len(s) + 1
         /\ \A j \in 1 .. Len(s) : IF j < PlaceOf(s, ev) THEN KeyLess(s[j], ev)
                                                       ELSE KeyLess(ev, s[j])
<1>0. DOMAIN s = 1 .. Len(s) /\ Len(s) \in Nat /\ \A j \in 1 .. Len(s) : s[j] \in Key
  BY ElemsOf, ElementOfSeq
<1>1. PICK later : later = {i \in 1 .. Len(s) : KeyLess(ev, s[i])}
  OBVIOUS
<1>2. PlaceOf(s, ev) = IF later = {} THEN Len(s) + 1 ELSE Min(later)
  BY <1>0, <1>1 DEF PlaceOf
<1>3. later # {} => /\ Min(later) \in later
                    /\ \A i \in later : Min(later) <= i
  <2>1. later \in SUBSET Nat
    BY <1>0, <1>1
  <2> QED
    BY <2>1, NatMin DEF Min
<1>4. ASSUME NEW j \in 1 .. Len(s), j \notin later PROVE KeyLess(s[j], ev)
  <2>1. ~KeyLess(ev, s[j]) /\ s[j] # ev
    BY <1>0, <1>1, <1>4 DEF Elems
  <2> QED
    BY <1>0, <2>1, LessTotal
<1>5. CASE later = {}
  BY <1>0, <1>2, <1>4, <1>5
<1>6. CASE later # {}
  <2>1. PICK at : at = Min(later)
    OBVIOUS
  <2>2. at \in 1 .. Len(s) /\ KeyLess(ev, s[at]) /\ \A i \in later : at <= i
    BY <1>1, <1>3, <1>6, <2>1
  <2>3. ASSUME NEW j \in 1 .. Len(s), j < at PROVE KeyLess(s[j], ev)
    BY <1>0, <1>4, <2>2, <2>3
  <2>4. ASSUME NEW j \in 1 .. Len(s), ~(j < at) PROVE KeyLess(ev, s[j])
    <3>1. CASE j = at
      BY <2>2, <3>1
    <3>2. CASE j > at
      <4>1. KeyLess(s[at], s[j])
        BY <2>2, <3>2 DEF Sorted
      <4> QED
        BY <1>0, <2>2, <4>1, LessTrans
    <3> QED
      BY <2>2, <2>4, <3>1, <3>2
  <2>5. PlaceOf(s, ev) = at
    BY <1>2, <1>6, <2>1
  <2> QED
    BY <1>0, <2>2, <2>3, <2>4, <2>5
<1> QED
  BY <1>5, <1>6

\* An event put there leaves the sequence sorted, with one event more.
LEMMA SortedAdded ==
  ASSUME NEW s \in Seq(Key), Sorted(s), NEW ev \in Key, ev \notin Elems(s),
         NEW t, t = Added(s, PlaceOf(s, ev), ev)
  PROVE  t \in Seq(Key) /\ Sorted(t) /\ Elems(t) = Elems(s) \cup {ev}
<1>0. PICK n \in Nat : n = Len(s)
  BY ElemsOf
<1>1. PICK at \in 1 .. n + 1 : at = PlaceOf(s, ev)
  BY <1>0, PlaceProperties
<1>2. \A j \in 1 .. n : IF j < at THEN KeyLess(s[j], ev) ELSE KeyLess(ev, s[j])
  BY <1>0, <1>1, PlaceProperties
<1>3. /\ t \in Seq(Key) /\ Len(t) = n + 1
      /\ \A j \in 1 .. n + 1 :
           t[j] = IF j < at THEN s[j] ELSE IF j = at THEN ev ELSE s[j - 1]
  <2>1. at \in 1 .. Len(s) + 1
    BY <1>0
  <2>2. t = Added(s, at, ev)
    BY <1>1
  <2>3. t \in Seq(Key) /\ Len(t) = Len(s) + 1 /\ AddedAt(t, s, at, ev)
    BY <2>1, <2>2, AddedProperties
  <2> QED
    BY <1>0, <2>3 DEF AddedAt
<1>4. ASSUME NEW i \in 1 .. n + 1, NEW j \in 1 .. n + 1, i < j
      PROVE  KeyLess(t[i], t[j])
  <2>1. \A k, l \in 1 .. n : k < l => KeyLess(s[k], s[l])
    BY <1>0 DEF Sorted
  <2>2. CASE j < at
    BY <1>3, <1>4, <2>1, <2>2
  <2>3. CASE j = at
    <3>1. i \in 1 .. n /\ t[i] = s[i] /\ t[j] = ev
      BY <1>3, <1>4, <2>3
    <3> QED
      BY <1>2, <1>4, <2>3, <3>1
  <2>4. CASE i < at /\ at < j
    <3>1. i \in 1 .. n /\ j - 1 \in 1 .. n /\ i < j - 1
      BY <1>4, <2>4
    <3>2. t[i] = s[i] /\ t[j] = s[j - 1]
      BY <1>3, <2>4
    <3> QED
      BY <2>1, <3>1, <3>2
  <2>5. CASE i = at
    <3>1. j - 1 \in 1 .. n /\ ~(j - 1 < at)
      BY <1>4, <2>5
    <3>2. t[i] = ev /\ t[j] = s[j - 1]
      BY <1>3, <1>4, <2>5
    <3> QED
      BY <1>2, <3>1, <3>2
  <2>6. CASE i > at
    <3>1. i - 1 \in 1 .. n /\ j - 1 \in 1 .. n /\ i - 1 < j - 1
      BY <1>4, <2>6
    <3>2. t[i] = s[i - 1] /\ t[j] = s[j - 1]
      BY <1>3, <1>4, <2>6
    <3> QED
      BY <2>1, <3>1, <3>2
  <2> QED
    BY <1>4, <2>2, <2>3, <2>4, <2>5, <2>6
<1>5. Elems(t) = {t[j] : j \in 1 .. n + 1} /\ Elems(s) = {s[j] : j \in 1 .. n}
  BY <1>0, <1>3, ElemsOf
<1>6. ASSUME NEW e \in Elems(t) PROVE e \in Elems(s) \cup {ev}
  <2>1. PICK j \in 1 .. n + 1 : e = t[j]
    BY <1>5
  <2>2. CASE j < at
    BY <1>3, <1>5, <2>1, <2>2
  <2>3. CASE j = at
    BY <1>3, <2>1, <2>3
  <2>4. CASE j > at
    <3>1. j - 1 \in 1 .. n /\ e = s[j - 1]
      BY <1>3, <2>1, <2>4
    <3> QED
      BY <1>5, <3>1
  <2> QED
    BY <2>2, <2>3, <2>4
<1>7. ASSUME NEW e \in Elems(s) PROVE e \in Elems(t)
  <2>1. PICK j \in 1 .. n : e = s[j]
    BY <1>5
  <2>2. CASE j < at
    BY <1>3, <1>5, <2>1, <2>2
  <2>3. CASE j >= at
    <3>1. j + 1 \in 1 .. n + 1 /\ t[j + 1] = s[j]
      BY <1>3, <2>1, <2>3
    <3> QED
      BY <1>5, <2>1, <3>1
  <2> QED
    BY <2>2, <2>3
<1>8. ev \in Elems(t)
  BY <1>3, <1>5
<1> QED
  BY <1>0, <1>3, <1>4, <1>6, <1>7, <1>8 DEF Sorted

\* So does taking an event out, with that event less.
LEMMA SortedWithout ==
  ASSUME NEW s \in Seq(Key), Sorted(s), NEW i \in 1 .. Len(s),
         NEW t, t = Without(s, i)
  PROVE  t \in Seq(Key) /\ Sorted(t) /\ Elems(t) = Elems(s) \ {s[i]}
<1>0. PICK n \in Nat : n = Len(s)
  BY ElemsOf
<1>1. /\ t \in Seq(Key) /\ Len(t) = n - 1
      /\ \A j \in 1 .. n - 1 : t[j] = IF j < i THEN s[j] ELSE s[j + 1]
  BY <1>0, WithoutProperties
<1>2. \A k, l \in 1 .. n : k < l => KeyLess(s[k], s[l])
  BY <1>0 DEF Sorted
<1>3. \A k \in 1 .. n : s[k] \in Key
  BY <1>0, ElementOfSeq
<1>4. ASSUME NEW j \in 1 .. n - 1, NEW k \in 1 .. n - 1, j < k
      PROVE  KeyLess(t[j], t[k])
  <2>1. PICK a \in 1 .. n : t[j] = s[a] /\ a = IF j < i THEN j ELSE j + 1
    BY <1>0, <1>1
  <2>2. PICK b \in 1 .. n : t[k] = s[b] /\ b = IF k < i THEN k ELSE k + 1
    BY <1>0, <1>1
  <2>3. a < b
    BY <1>0, <1>4, <2>1, <2>2
  <2> QED
    BY <1>2, <2>1, <2>2, <2>3
<1>5. Elems(t) = {t[j] : j \in 1 .. n - 1} /\ Elems(s) = {s[j] : j \in 1 .. n}
  BY <1>0, <1>1, ElemsOf
<1>6. ASSUME NEW e \in Elems(t) PROVE e \in Elems(s) /\ e # s[i]
  <2>1. PICK j \in 1 .. n - 1 : e = t[j]
    BY <1>5
  <2>2. PICK a \in 1 .. n : t[j] = s[a] /\ a = IF j < i THEN j ELSE j + 1
    BY <1>0, <1>1
  <2>3. i \in 1 .. n /\ (a < i \/ i < a)
    BY <1>0, <2>2
  <2>4. KeyLess(s[a], s[i]) \/ KeyLess(s[i], s[a])
    BY <1>2, <2>3
  <2>5. s[a] # s[i]
    BY <1>3, <2>3, <2>4, LessNot
  <2> QED
    BY <1>5, <2>1, <2>2, <2>5
<1>7. ASSUME NEW e \in Elems(s), e # s[i] PROVE e \in Elems(t)
  <2>1. PICK j \in 1 .. n : e = s[j]
    BY <1>5
  <2>2. CASE j < i
    <3>1. j \in 1 .. n - 1 /\ t[j] = s[j]
      BY <1>0, <1>1, <2>2
    <3> QED
      BY <1>5, <2>1, <3>1
  <2>3. CASE j > i
    <3>1. j - 1 \in 1 .. n - 1 /\ t[j - 1] = s[j]
      BY <1>0, <1>1, <2>3
    <3> QED
      BY <1>5, <2>1, <3>1
  <2> QED
    BY <1>0, <1>7, <2>1, <2>2, <2>3
<1> QED
  BY <1>0, <1>1, <1>4, <1>6, <1>7 DEF Sorted

\* The first event of a sorted sequence is its earliest; the others stay.
LEMMA SortedFirst ==
  ASSUME NEW s \in Seq(Key), Sorted(s), s # <<>>
  PROVE  /\ Head(s) \in Elems(s) /\ Head(s) \in Key
         /\ IsEarliest(Head(s), Elems(s))
         /\ Tail(s) \in Seq(Key) /\ Sorted(Tail(s))
         /\ Elems(Tail(s)) = Elems(s) \ {Head(s)}
<1>0. PICK n \in Nat : n = Len(s)
  BY ElemsOf
<1>1. n >= 1 /\ Head(s) = s[1] /\ s[1] \in Key
  BY <1>0, EmptySeq, ElementOfSeq
<1>2. /\ Tail(s) \in Seq(Key) /\ Len(Tail(s)) = n - 1
      /\ \A j \in 1 .. n - 1 : Tail(s)[j] = s[j + 1]
  BY <1>0, HeadTailProperties
<1>3. PICK w : w = Without(s, 1)
  OBVIOUS
<1>4. /\ w \in Seq(Key) /\ Len(w) = n - 1
      /\ \A j \in 1 .. n - 1 : w[j] = IF j < 1 THEN s[j] ELSE s[j + 1]
  BY <1>0, <1>1, <1>3, WithoutProperties
<1>5. Tail(s) = w
  <2>1. \A j \in 1 .. Len(w) : Tail(s)[j] = w[j]
    BY <1>2, <1>4
  <2>2. Len(Tail(s)) = Len(w)
    BY <1>2, <1>4
  <2> QED
    BY <1>2, <1>4, <2>1, <2>2, SeqEqual
<1>6. w \in Seq(Key) /\ Sorted(w) /\ Elems(w) = Elems(s) \ {s[1]}
  <2>1. 1 \in 1 .. Len(s)
    BY <1>0, <1>1
  <2> QED
    BY <1>3, <2>1, SortedWithout
<1>7. ASSUME NEW f \in Elems(s) PROVE f = s[1] \/ KeyLess(s[1], f)
  <2>1. PICK j \in 1 .. n : f = s[j]
    BY <1>0, ElemsOf
  <2>2. CASE j = 1
    BY <2>1, <2>2
  <2>3. CASE j > 1
    BY <1>0, <1>1, <2>1, <2>3 DEF Sorted
  <2> QED
    BY <2>2, <2>3
<1>8. s[1] \in Elems(s)
  BY <1>0, <1>1, ElemsOf
<1> QED
  BY <1>1, <1>5, <1>6, <1>7, <1>8 DEF IsEarliest

-----------------------------------------------------------------------------
(* Days and buckets of a calendar.                                         *)

LEMMA TimesMono ==
  ASSUME NEW a \in Int, NEW b \in Int, NEW w \in Nat, a <= b
  PROVE  a * w <= b * w
<1>1. b * w = a * w + (b - a) * w /\ (b - a) * w >= 0
  OBVIOUS
<1>2. b * w \in Int /\ a * w \in Int /\ (b - a) * w \in Int
  OBVIOUS
<1> QED
  BY <1>1, <1>2

\* Quotient and remainder.
LEMMA DivMod ==
  ASSUME NEW t \in Nat, NEW w \in Nat \ {0}
  PROVE  \E k \in Nat, r \in 0 .. w - 1 :
           k = t \div w /\ r = t % w /\ t = k * w + r
<1>1. PICK k \in Nat : k = t \div w
  OBVIOUS
<1>2. PICK r \in 0 .. w - 1 : r = t % w
  OBVIOUS
<1>3. t = k * w + r
  BY <1>1, <1>2
<1> QED
  BY <1>1, <1>2, <1>3

\* Events before the end of a day are not later than that day.
LEMMA DayLess ==
  ASSUME NEW t \in Nat, NEW w \in Nat \ {0}, NEW q \in Nat
  PROVE  t < q * w <=> t \div w < q
<1>1. PICK k \in Nat, r \in 0 .. w - 1 : k = t \div w /\ t = k * w + r
  BY DivMod
<1>2. CASE k < q
  <2>1. (k + 1) * w <= q * w
    BY <1>2, TimesMono
  <2>2. (k + 1) * w = k * w + w
    OBVIOUS
  <2> QED
    BY <1>1, <1>2, <2>1, <2>2
<1>3. CASE q <= k
  <2>1. q * w <= k * w
    BY <1>3, TimesMono
  <2> QED
    BY <1>1, <1>3, <2>1
<1> QED
  BY <1>2, <1>3

LEMMA DayMono ==
  ASSUME NEW t \in Nat, NEW u \in Nat, NEW w \in Nat \ {0}, t <= u
  PROVE  t \div w <= u \div w
<1>1. PICK q \in Nat : q = u \div w + 1
  BY DivMod
<1>2. u < q * w
  BY <1>1, DayLess, DivMod
<1>3. t < q * w
  BY <1>2
<1>4. t \div w < q
  BY <1>3, DayLess
<1> QED
  BY <1>1, <1>4, DivMod

LEMMA ModIs ==
  ASSUME NEW n \in Nat \ {0}, NEW k \in Nat, NEW r \in 0 .. n - 1,
         NEW x \in Nat, x = k * n + r
  PROVE  x % n = r
<1>1. PICK j \in Nat, s \in 0 .. n - 1 : s = x % n /\ x = j * n + s
  BY DivMod
<1>2. CASE j < k
  <2>1. (j + 1) * n <= k * n /\ (j + 1) * n = j * n + n
    BY <1>2, TimesMono
  <2> QED
    BY <1>1, <2>1
<1>3. CASE k < j
  <2>1. (k + 1) * n <= j * n /\ (k + 1) * n = k * n + n
    BY <1>3, TimesMono
  <2> QED
    BY <1>1, <2>1
<1>4. CASE j = k
  BY <1>1, <1>4
<1> QED
  BY <1>2, <1>3, <1>4

LEMMA ModAdd ==
  ASSUME NEW n \in Nat \ {0}, NEW a \in Nat, NEW d \in Nat
  PROVE  ((a % n) + d) % n = (a + d) % n
<1>1. PICK k \in Nat, r \in 0 .. n - 1 :
        k = a \div n /\ r = a % n /\ a = k * n + r
  BY DivMod
<1>2. PICK x \in Nat : x = r + d
  OBVIOUS
<1>3. PICK j \in Nat, s \in 0 .. n - 1 :
        j = x \div n /\ s = x % n /\ x = j * n + s
  BY DivMod
<1>4. PICK y \in Nat : y = a + d
  OBVIOUS
<1>5. PICK l \in Nat : l = k + j
  OBVIOUS
<1>6. y = l * n + s
  <2>1. l * n = k * n + j * n
    BY <1>5
  <2>2. PICK p \in Nat : p = k * n
    OBVIOUS
  <2>3. PICK q \in Nat : q = j * n
    OBVIOUS
  <2>4. a = p + r /\ x = q + s /\ l * n = p + q
    BY <1>1, <1>3, <2>1, <2>2, <2>3
  <2>5. y = p + q + s
    BY <1>2, <1>4, <2>4
  <2> QED
    BY <2>4, <2>5
<1>7. y % n = s
  BY <1>6, ModIs
<1> QED
  BY <1>1, <1>2, <1>3, <1>4, <1>7

\* Two days less than a year apart that share a bucket are the same.
LEMMA ModEqual ==
  ASSUME NEW n \in Nat \ {0}, NEW a \in Nat, NEW b \in Nat,
         a % n = b % n, a < b + n, b < a + n
  PROVE  a = b
<1>1. PICK k \in Nat, r \in 0 .. n - 1 : r = a % n /\ a = k * n + r
  BY DivMod
<1>2. PICK j \in Nat, q \in 0 .. n - 1 : q = b % n /\ b = j * n + q
  BY DivMod
<1>3. r = q
  BY <1>1, <1>2
<1>4. CASE j < k
  <2>1. (j + 1) * n <= k * n /\ (j + 1) * n = j * n + n
    BY <1>4, TimesMono
  <2> QED
    BY <1>1, <1>2, <1>3, <2>1
<1>5. CASE k < j
  <2>1. (k + 1) * n <= j * n /\ (k + 1) * n = k * n + n
    BY <1>5, TimesMono
  <2> QED
    BY <1>1, <1>2, <1>3, <2>1
<1>6. CASE j = k
  BY <1>1, <1>2, <1>3, <1>6
<1> QED
  BY <1>4, <1>5, <1>6

\* In a year every bucket has its day.
LEMMA EveryBucket ==
  ASSUME NEW n \in Nat \ {0}, NEW a \in Nat, NEW b \in 0 .. n - 1
  PROVE  \E d \in 0 .. n - 1 : (a + d) % n = b
<1>1. PICK k \in Nat, r \in 0 .. n - 1 : r = a % n /\ a = k * n + r
  BY DivMod
<1>2. CASE r <= b
  <2>1. PICK d \in 0 .. n - 1 : d = b - r
    BY <1>2
  <2>2. PICK x \in Nat : x = a + d
    OBVIOUS
  <2>3. x = k * n + b
    BY <1>1, <2>1, <2>2
  <2>4. x % n = b
    BY <2>3, ModIs
  <2> QED
    BY <2>2, <2>4
<1>3. CASE b < r
  <2>1. PICK d \in 0 .. n - 1 : d = b + n - r
    BY <1>3
  <2>2. PICK x \in Nat : x = a + d
    OBVIOUS
  <2>3. PICK l \in Nat : l = k + 1
    OBVIOUS
  <2>4. x = l * n + b
    <3>1. l * n = k * n + n
      BY <2>3
    <3> QED
      BY <1>1, <2>1, <2>2, <3>1
  <2>5. x % n = b
    BY <2>4, ModIs
  <2> QED
    BY <2>2, <2>5
<1> QED
  BY <1>2, <1>3

-----------------------------------------------------------------------------
(* The calendar.  What is true of it, with n buckets: ...                  *)

CalTyped(c, n) ==
  /\ n \in Nat \ {0}
  /\ c \in [buckets : [0 .. n - 1 -> Seq(Key)], width : Nat \ {0},
            lastPrio : Nat, lastBucket : Nat, bucketTop : Nat, qSize : Nat]

\* The scan starts on the day of the last event ...
Scanning(c, n) ==
  /\ c.lastBucket = (c.lastPrio \div c.width) % n
  /\ c.bucketTop = (c.lastPrio \div c.width + 1) * c.width

\* ... and every event is in its bucket, and not before that.
FiledIn(c, n, b, e) ==
  (e.ts \div c.width) % n = b /\ e.ts >= c.lastPrio
Filing(c, n) ==
  \A b \in 0 .. n - 1 :
    Sorted(c.buckets[b]) /\ \A e \in Elems(c.buckets[b]) : FiledIn(c, n, b, e)

CalOK(c, n) == CalTyped(c, n) /\ Scanning(c, n) /\ Filing(c, n)

\* The operators that CalendarScheduler has from other modules.
LEMMA SameCardinality ==
  ASSUME NEW S
  PROVE  Calendar!Cardinality(S) = Cardinality(S)
BY DEF Calendar!Cardinality, Cardinality

LEMMA SamePlace ==
  ASSUME NEW s, NEW ev
  PROVE  (LET later == {i \in DOMAIN s : Calendar!KeyLess(ev, s[i])}
          IN IF later = {} THEN Len(s) + 1 ELSE Calendar!Min(later))
         = PlaceOf(s, ev)
BY DEF PlaceOf, KeyLess, Calendar!KeyLess, Calendar!Min, Min

\* The members of a calendar.
LEMMA CalFields ==
  ASSUME NEW c, NEW n, CalTyped(c, n)
  PROVE  /\ n \in Nat \ {0} /\ c.buckets \in [0 .. n - 1 -> Seq(Key)]
         /\ c.width \in Nat \ {0} /\ c.lastPrio \in Nat /\ c.lastBucket \in Nat
         /\ c.bucketTop \in Nat /\ c.qSize \in Nat
         /\ Calendar!NBuckets(c) = n
<1>1. DOMAIN c.buckets = 0 .. n - 1 /\ n \in Nat \ {0}
  BY DEF CalTyped
<1>2. Cardinality(0 .. n - 1) = n
  BY <1>1, FS_Interval
<1>3. Calendar!NBuckets(c) = n
  BY <1>1, <1>2, SameCardinality DEF Calendar!NBuckets
<1> QED
  BY <1>3 DEF CalTyped

\* The events of a calendar are those in its buckets.
LEMMA CalKeys ==
  ASSUME NEW c, NEW n, CalTyped(c, n)
  PROVE  /\ Calendar!Keys(c) \subseteq Key
         /\ \A b \in 0 .. n - 1 : Elems(c.buckets[b]) \subseteq Calendar!Keys(c)
         /\ \A e \in Calendar!Keys(c) :
              \E b \in 0 .. n - 1 : e \in Elems(c.buckets[b])
<1>1. DOMAIN c.buckets = 0 .. n - 1
      /\ \A b \in 0 .. n - 1 : c.buckets[b] \in Seq(Key)
  BY CalFields
<1>2. Calendar!Keys(c) = UNION {Elems(c.buckets[b]) : b \in 0 .. n - 1}
  BY <1>1 DEF Calendar!Keys, Calendar!ToSet, Elems
<1>3. \A b \in 0 .. n - 1 : Elems(c.buckets[b]) \subseteq Key
  BY <1>1, ElemsOf
<1> QED
  BY <1>2, <1>3

\* The bucket of a time stamp.
LEMMA HomeOf ==
  ASSUME NEW c, NEW n, CalTyped(c, n), NEW t \in Nat
  PROVE  /\ t \div c.width \in Nat
         /\ (t \div c.width) % n \in 0 .. n - 1
         /\ Calendar!Hash(c, t) = (t \div c.width) % n
<1>1. c.width \in Nat \ {0} /\ n \in Nat \ {0} /\ Calendar!NBuckets(c) = n
  BY CalFields
<1>2. PICK k \in Nat : k = t \div c.width
  BY <1>1, DivMod
<1>3. PICK r \in 0 .. n - 1 : r = k % n
  BY <1>1, DivMod
<1> QED
  BY <1>1, <1>2, <1>3 DEF Calendar!Hash

\* Where an event is filed.
LEMMA KeyHome ==
  ASSUME NEW c, NEW n, CalOK(c, n), NEW e \in Calendar!Keys(c)
  PROVE  /\ e \in Key /\ e.ts \in Nat /\ e.ts >= c.lastPrio
         /\ (e.ts \div c.width) % n \in 0 .. n - 1
         /\ e \in Elems(c.buckets[(e.ts \div c.width) % n])
<1>1. e \in Key /\ e.ts \in Nat
  BY CalKeys DEF CalOK, Key
<1>2. PICK b \in 0 .. n - 1 : e \in Elems(c.buckets[b])
  BY CalKeys DEF CalOK
<1>3. (e.ts \div c.width) % n = b /\ e.ts >= c.lastPrio
  BY <1>2 DEF CalOK, Filing, FiledIn
<1> QED
  BY <1>1, <1>2, <1>3

\* A bucket that is set to other events of its own.
LEMMA BucketSet ==
  ASSUME NEW c, NEW n, CalOK(c, n), NEW b \in 0 .. n - 1,
         NEW t \in Seq(Key), Sorted(t),
         \A e \in Elems(t) : FiledIn(c, n, b, e),
         NEW c2, c2 = [c EXCEPT !.buckets[b] = t]
  PROVE  /\ CalOK(c2, n)
         /\ Calendar!Keys(c2) =
              (Calendar!Keys(c) \ Elems(c.buckets[b])) \cup Elems(t)
<1>1. /\ c2.buckets = [c.buckets EXCEPT ![b] = t]
      /\ c2.width = c.width /\ c2.lastPrio = c.lastPrio /\ c2.qSize = c.qSize
      /\ c2.lastBucket = c.lastBucket /\ c2.bucketTop = c.bucketTop
  BY DEF CalOK, CalTyped
<1>2. c.buckets \in [0 .. n - 1 -> Seq(Key)]
  BY CalFields DEF CalOK
<1>3. /\ c2.buckets \in [0 .. n - 1 -> Seq(Key)] /\ c2.buckets[b] = t
      /\ \A a \in 0 .. n - 1 : a # b => c2.buckets[a] = c.buckets[a]
  <2>1. PICK old \in [0 .. n - 1 -> Seq(Key)] : old = c.buckets
    BY <1>2
  <2>2. c2.buckets = [old EXCEPT ![b] = t]
    BY <1>1, <2>1
  <2>3. c2.buckets \in [0 .. n - 1 -> Seq(Key)]
    BY <2>1, <2>2
  <2>4. c2.buckets[b] = t
    BY <2>1, <2>2
  <2>5. \A a \in 0 .. n - 1 : a # b => c2.buckets[a] = old[a]
    BY <2>1, <2>2
  <2> QED
    BY <2>1, <2>3, <2>4, <2>5
<1>4. CalTyped(c2, n)
  BY <1>1, <1>3 DEF CalOK, CalTyped
<1>5. Scanning(c2, n)
  BY <1>1 DEF CalOK, Scanning
<1>6. Filing(c2, n)
  BY <1>1, <1>3 DEF CalOK, Filing, FiledIn
<1>7. ASSUME NEW e \in Calendar!Keys(c2)
      PROVE  e \in (Calendar!Keys(c) \ Elems(c.buckets[b])) \cup Elems(t)
  <2>1. PICK a \in 0 .. n - 1 : e \in Elems(c2.buckets[a])
    BY <1>4, CalKeys
  <2>2. CASE a = b
    BY <1>3, <2>1, <2>2
  <2>3. CASE a # b
    <3>1. e \in Elems(c.buckets[a])
      BY <1>3, <2>1, <2>3
    <3>2. e \in Calendar!Keys(c)
      BY <3>1, CalKeys DEF CalOK
    <3>3. e \notin Elems(c.buckets[b])
      BY <2>3, <3>1 DEF CalOK, Filing, FiledIn
    <3> QED
      BY <3>2, <3>3
  <2> QED
    BY <2>2, <2>3
<1>8. ASSUME NEW e \in Calendar!Keys(c) \ Elems(c.buckets[b])
      PROVE  e \in Calendar!Keys(c2)
  <2>1. PICK a \in 0 .. n - 1 : e \in Elems(c.buckets[a])
    BY CalKeys DEF CalOK
  <2>2. e \in Elems(c2.buckets[a])
    BY <1>3, <1>8, <2>1
  <2> QED
    BY <1>4, <2>2, CalKeys
<1>9. Elems(t) \subseteq Calendar!Keys(c2)
  BY <1>3, <1>4, CalKeys
<1> QED
  BY <1>4, <1>5, <1>6, <1>7, <1>8, <1>9 DEF CalOK

\* The number of events is no part of the filing.
LEMMA SizeSet ==
  ASSUME NEW c, NEW n, CalOK(c, n), NEW q \in Nat,
         NEW c2, c2 = [c EXCEPT !.qSize = q]
  PROVE  CalOK(c2, n) /\ Calendar!Keys(c2) = Calendar!Keys(c) /\ c2.qSize = q
         /\ c2.lastPrio = c.lastPrio
<1>1. /\ c2.buckets = c.buckets /\ c2.qSize = q
      /\ c2.width = c.width /\ c2.lastPrio = c.lastPrio
      /\ c2.lastBucket = c.lastBucket /\ c2.bucketTop = c.bucketTop
  BY DEF CalOK, CalTyped
<1>2. CalTyped(c2, n)
  BY DEF CalOK, CalTyped
<1> QED
  BY <1>1, <1>2 DEF CalOK, Scanning, Filing, FiledIn, Calendar!Keys

\* DoInsert files one event more.
LEMMA DoInsertIs ==
  ASSUME NEW c, NEW n, CalOK(c, n), NEW ev \in Key, ev \notin Calendar!Keys(c),
         ev.ts >= c.lastPrio
  PROVE  /\ CalOK(Calendar!DoInsert(c, ev), n)
         /\ Calendar!Keys(Calendar!DoInsert(c, ev)) = Calendar!Keys(c) \cup {ev}
         /\ Calendar!DoInsert(c, ev).lastPrio = c.lastPrio
         /\ Calendar!DoInsert(c, ev).qSize = c.qSize
<1>1. ev.ts \in Nat /\ CalTyped(c, n)
  BY DEF Key, CalOK
<1>2. PICK b \in 0 .. n - 1 : /\ b = (ev.ts \div c.width) % n
                            /\ b = Calendar!Hash(c, ev.ts)
  BY <1>1, HomeOf
<1>3. PICK s \in Seq(Key) : s = c.buckets[b]
  BY <1>1, CalFields
<1>4. Sorted(s) /\ ev \notin Elems(s)
  <2>1. Elems(c.buckets[b]) \subseteq Calendar!Keys(c)
    BY <1>1, CalKeys
  <2> QED
    BY <1>3, <2>1 DEF CalOK, Filing
<1>5. PICK t : t = Added(s, PlaceOf(s, ev), ev)
  OBVIOUS
<1>6. t \in Seq(Key) /\ Sorted(t) /\ Elems(t) = Elems(s) \cup {ev}
  BY <1>4, <1>5, SortedAdded
<1>7. Calendar!DoInsert(c, ev) = [c EXCEPT !.buckets[b] = t]
  <2>1. PICK at : at = PlaceOf(s, ev)
    OBVIOUS
  <2>2. at = IF {i \in DOMAIN s : Calendar!KeyLess(ev, s[i])} = {}
             THEN Len(s) + 1
             ELSE Calendar!Min({i \in DOMAIN s : Calendar!KeyLess(ev, s[i])})
    BY <2>1, SamePlace
  <2>3. Calendar!InsertAt(s, at, ev) = t
    BY <1>5, <2>1 DEF Calendar!InsertAt, Added
  <2>4. Calendar!DoInsert(c, ev)
        = [c EXCEPT !.buckets[b] = Calendar!InsertAt(s, at, ev)]
    BY <1>2, <1>3, <2>2 DEF Calendar!DoInsert
  <2> QED
    BY <2>3, <2>4
<1>8. \A e \in Elems(t) : FiledIn(c, n, b, e)
  BY <1>2, <1>3, <1>6 DEF CalOK, Filing, FiledIn
<1>9. PICK c2 : c2 = [c EXCEPT !.buckets[b] = t]
  OBVIOUS
<1>10. /\ CalOK(c2, n)
       /\ Calendar!Keys(c2) = (Calendar!Keys(c) \ Elems(s)) \cup Elems(t)
  BY <1>3, <1>6, <1>8, <1>9, BucketSet
<1>11. c2.lastPrio = c.lastPrio /\ c2.qSize = c.qSize
  BY <1>1, <1>9 DEF CalTyped
<1>12. Elems(s) \subseteq Calendar!Keys(c)
  BY <1>1, <1>3, CalKeys
<1> QED
  BY <1>6, <1>7, <1>9, <1>10, <1>11, <1>12

-----------------------------------------------------------------------------
(* The scan of PeekNext and DoRemoveNext.                                  *)

\* The bucket that the scan has reached.
LEMMA ScanBucket ==
  ASSUME NEW c, NEW n, CalOK(c, n), NEW d \in Nat
  PROVE  /\ Calendar!Bucket(c, d) = (c.lastPrio \div c.width + d) % n
         /\ Calendar!Bucket(c, d) \in 0 .. n - 1
<1>1. n \in Nat \ {0} /\ Calendar!NBuckets(c) = n /\ c.lastPrio \in Nat
  BY CalFields DEF CalOK
<1>2. PICK D \in Nat : D = c.lastPrio \div c.width
  BY <1>1, HomeOf DEF CalOK
<1>3. c.lastBucket = D % n
  BY <1>2 DEF CalOK, Scanning
<1>4. ((D % n) + d) % n = (D + d) % n
  BY <1>1, ModAdd
<1>5. PICK x \in Nat : x = D + d
  OBVIOUS
<1>6. x % n \in 0 .. n - 1
  BY <1>1, DivMod
<1> QED
  BY <1>1, <1>2, <1>3, <1>4, <1>5, <1>6 DEF Calendar!Bucket

\* What PeekNext looks at.
LEMMA FilledIs ==
  ASSUME NEW c, NEW n, CalOK(c, n), NEW d \in Calendar!Filled(c)
  PROVE  /\ d \in 0 .. n - 1 /\ d \in Nat
         /\ Calendar!First(c, d) \in Calendar!Keys(c)
         /\ Calendar!First(c, d) \in Elems(c.buckets[Calendar!Bucket(c, d)])
         /\ c.buckets[Calendar!Bucket(c, d)] # <<>>
         /\ c.buckets[Calendar!Bucket(c, d)] \in Seq(Key)
         /\ IsEarliest(Calendar!First(c, d),
                       Elems(c.buckets[Calendar!Bucket(c, d)]))
<1>1. n \in Nat \ {0} /\ Calendar!NBuckets(c) = n
  BY CalFields DEF CalOK
<1>2. d \in 0 .. n - 1 /\ c.buckets[Calendar!Bucket(c, d)] # <<>>
  BY <1>1 DEF Calendar!Filled
<1>3. PICK b \in 0 .. n - 1 : b = Calendar!Bucket(c, d)
  BY <1>1, <1>2, ScanBucket
<1>4. c.buckets[b] \in Seq(Key) /\ Sorted(c.buckets[b])
  BY <1>3, CalFields DEF CalOK, Filing
<1>5. Calendar!First(c, d) = Head(c.buckets[b])
  BY <1>3 DEF Calendar!First
<1>6. /\ Head(c.buckets[b]) \in Elems(c.buckets[b])
      /\ IsEarliest(Head(c.buckets[b]), Elems(c.buckets[b]))
  BY <1>2, <1>3, <1>4, SortedFirst
<1>7. Elems(c.buckets[b]) \subseteq Calendar!Keys(c)
  BY <1>3, CalKeys DEF CalOK
<1> QED
  BY <1>1, <1>2, <1>3, <1>4, <1>5, <1>6, <1>7

LEMMA DaysAfter ==
  ASSUME NEW a \in Nat, NEW d \in Nat, NEW w \in Nat, NEW q, q = a + d + 1
  PROVE  (a + 1) * w + d * w = q * w
OBVIOUS

\* What is due is due on the day that the scan has reached.
LEMMA DueIs ==
  ASSUME NEW c, NEW n, CalOK(c, n), NEW d \in Calendar!Filled(c)
  PROVE  d \in Calendar!Due(c) <=>
           Calendar!First(c, d).ts \div c.width = c.lastPrio \div c.width + d
<1>1. n \in Nat \ {0} /\ c.width \in Nat \ {0} /\ c.lastPrio \in Nat
  BY CalFields DEF CalOK
<1>2. PICK w \in Nat \ {0} : w = c.width
  BY <1>1
<1>3. PICK D \in Nat : D = c.lastPrio \div w
  BY <1>1, <1>2, DivMod
<1>4. d \in 0 .. n - 1 /\ d \in Nat
  BY FilledIs
<1>5. PICK f \in Key : f = Calendar!First(c, d)
  BY FilledIs, CalKeys DEF CalOK
<1>6. f.ts \in Nat
  BY <1>5 DEF Key
<1>7. PICK F \in Nat : F = f.ts \div w
  BY <1>2, <1>6, DivMod
<1>8. PICK b \in 0 .. n - 1 : b = Calendar!Bucket(c, d) /\ b = (D + d) % n
  BY <1>2, <1>3, <1>4, ScanBucket
<1>9. F % n = b /\ c.lastPrio <= f.ts
  <2>1. f \in Elems(c.buckets[b])
    BY <1>5, <1>8, FilledIs
  <2> QED
    BY <1>1, <1>2, <1>6, <1>7, <2>1 DEF CalOK, Filing, FiledIn
<1>10. D <= F
  BY <1>1, <1>3, <1>6, <1>7, <1>9, DayMono
<1>11. PICK q \in Nat : q = D + d + 1
  BY <1>4
<1>12. Calendar!Today(c, d) = q * w
  <2>1. c.bucketTop = (D + 1) * w
    BY <1>2, <1>3 DEF CalOK, Scanning
  <2>2. Calendar!Today(c, d) = (D + 1) * w + d * w
    BY <1>2, <2>1 DEF Calendar!Today
  <2> QED
    BY <1>4, <1>11, <2>2, DaysAfter
<1>13. f.ts < q * w <=> F < q
  BY <1>6, <1>7, DayLess
<1>14. d \in Calendar!Due(c) <=> F < q
  BY <1>5, <1>12, <1>13 DEF Calendar!Due
<1>15. F < q => F = D + d
  <2>1. PICK x \in Nat : x = D + d
    BY <1>4
  <2>2. x % n = F % n
    BY <1>8, <1>9, <2>1
  <2>3. F < q => F < x + n /\ x < F + n
    BY <1>1, <1>4, <1>10, <1>11, <2>1
  <2> QED
    BY <1>1, <2>1, <2>2, <2>3, ModEqual
<1>16. F = D + d => F < q
  BY <1>11
<1> QED
  BY <1>2, <1>3, <1>5, <1>7, <1>14, <1>15, <1>16

\* The scan finds the earliest event, and what is due on its day.
LEMMA NextIsEarliest ==
  ASSUME NEW c, NEW n, CalOK(c, n), Calendar!Keys(c) # {}
  PROVE  /\ Calendar!NextDay(c) \in Calendar!Filled(c)
         /\ Calendar!Due(c) # {} => Calendar!NextDay(c) \in Calendar!Due(c)
         /\ IsEarliest(Calendar!First(c, Calendar!NextDay(c)), Calendar!Keys(c))
<1>1. n \in Nat \ {0} /\ c.width \in Nat \ {0} /\ c.lastPrio \in Nat
      /\ Calendar!NBuckets(c) = n
  BY CalFields DEF CalOK
<1>2. PICK w \in Nat \ {0} : w = c.width
  BY <1>1
<1>3. PICK D \in Nat : D = c.lastPrio \div w
  BY <1>1, <1>2, DivMod
<1>4. PICK first : first = [d \in Calendar!Filled(c) |-> Calendar!First(c, d)]
  OBVIOUS
<1>5. ASSUME NEW d \in Calendar!Filled(c)
      PROVE  /\ d \in 0 .. n - 1 /\ first[d] = Calendar!First(c, d)
             /\ first[d] \in Calendar!Keys(c) /\ first[d] \in Key
             /\ first[d].ts \in Nat
             /\ IsEarliest(first[d], Elems(c.buckets[(D + d) % n]))
  <2>1. first[d] = Calendar!First(c, d) /\ d \in 0 .. n - 1
    BY <1>4, FilledIs
  <2>2. first[d] \in Calendar!Keys(c)
    BY <2>1, FilledIs
  <2>3. first[d] \in Key
    BY <2>2, CalKeys DEF CalOK
  <2>4. Calendar!Bucket(c, d) = (D + d) % n
    BY <1>1, <1>2, <1>3, <2>1, ScanBucket
  <2> QED
    BY <2>1, <2>2, <2>3, <2>4, FilledIs DEF Key
<1>6. ASSUME NEW f \in Calendar!Keys(c)
      PROVE  /\ f \in Key /\ f.ts \in Nat /\ f.ts \div w \in Nat /\ D <= f.ts \div w
             /\ \E d \in Calendar!Filled(c) :
                  /\ (D + d) % n = (f.ts \div w) % n
                  /\ f \in Elems(c.buckets[(D + d) % n])
  <2>1. f \in Key /\ f.ts \in Nat /\ c.lastPrio <= f.ts
    BY <1>1, KeyHome
  <2>2. PICK F \in Nat : F = f.ts \div w
    BY <2>1, DivMod
  <2>3. D <= F
    BY <1>1, <1>3, <2>1, <2>2, DayMono
  <2>4. PICK b \in 0 .. n - 1 : b = F % n /\ f \in Elems(c.buckets[b])
    BY <1>2, <2>2, KeyHome
  <2>5. PICK d \in 0 .. n - 1 : (D + d) % n = b
    <3>1. n \in Nat \ {0}
      BY <1>1
    <3> QED
      BY <3>1, EveryBucket
  <2>6. d \in Calendar!Filled(c)
    <3>1. Calendar!Bucket(c, d) = b
      BY <1>1, <1>2, <1>3, <2>5, ScanBucket
    <3>2. c.buckets[b] # <<>>
      <4>1. c.buckets[b] \in Seq(Key)
        BY CalFields DEF CalOK
      <4> QED
        BY <2>4, <4>1, ElemsOf
    <3> QED
      BY <1>1, <2>5, <3>1, <3>2 DEF Calendar!Filled
  <2> QED
    BY <2>1, <2>2, <2>3, <2>4, <2>5, <2>6
<1>7. Calendar!Filled(c) # {}
  BY <1>6
<1>8. \A e \in Key, f \in Key : e = f \/ KeyLess(e, f) \/ KeyLess(f, e)
  BY LessTotal
<1>9. CASE Calendar!Due(c) # {}
  <2>1. PICK d : d = Calendar!NextDay(c)
    OBVIOUS
  <2>2. Calendar!Due(c) \subseteq Calendar!Filled(c)
    BY DEF Calendar!Due
  <2>3. d \in Calendar!Due(c) /\ \A k \in Calendar!Due(c) : d <= k
    <3>1. Calendar!Due(c) \in SUBSET Nat
      BY <1>5, <2>2
    <3>2. d = Calendar!Min(Calendar!Due(c))
      BY <1>9, <2>1 DEF Calendar!NextDay
    <3> QED
      BY <1>9, <3>1, <3>2, NatMin DEF Calendar!Min
  <2>4. d \in Calendar!Filled(c) /\ d \in 0 .. n - 1
    BY <1>5, <2>2, <2>3
  <2>5. first[d].ts \div w = D + d
    BY <1>2, <1>3, <1>5, <2>3, <2>4, DueIs
  <2>6. ASSUME NEW f \in Calendar!Keys(c)
        PROVE  f = first[d] \/ KeyLess(first[d], f)
    <3>1. f \in Key /\ f.ts \in Nat
      BY <1>6
    <3>2. PICK F \in Nat : F = f.ts \div w /\ D <= F
      BY <1>6
    <3>3. first[d] \in Key /\ first[d].ts \in Nat
      BY <1>5, <2>4
    <3>4. CASE D + d < F
      <4>1. first[d].ts < f.ts
        <5>1. ~(f.ts <= first[d].ts)
          BY <2>4, <2>5, <3>1, <3>2, <3>3, <3>4, DayMono
        <5> QED
          BY <3>1, <3>3, <5>1
      <4> QED
        BY <4>1 DEF KeyLess
    <3>5. CASE F <= D + d
      <4>1. PICK k \in Calendar!Filled(c) :
              /\ (D + k) % n = F % n
              /\ f \in Elems(c.buckets[(D + k) % n])
        BY <1>6, <3>2
      <4>2. k \in 0 .. n - 1
        BY <1>5
      <4>3. D + k = F
        <5>1. PICK x \in Nat : x = D + k
          BY <4>2
        <5>2. x % n = F % n
          BY <4>1, <5>1
        <5>3. x < F + n /\ F < x + n
          BY <1>1, <2>4, <3>2, <3>5, <4>2, <5>1
        <5> QED
          BY <1>1, <5>1, <5>2, <5>3, ModEqual
      <4>4. first[k] = f \/ KeyLess(first[k], f)
        BY <1>5, <4>1 DEF IsEarliest
      <4>5. first[k].ts \in Nat /\ first[k] \in Key /\ first[k] \in Calendar!Keys(c)
        BY <1>5
      <4>6. first[k].ts <= f.ts
        BY <3>1, <4>4, <4>5 DEF KeyLess
      <4>7. k \in Calendar!Due(c)
        <5>1. PICK K \in Nat : K = first[k].ts \div w
          BY <4>5, DivMod
        <5>2. K <= F
          BY <3>1, <3>2, <4>5, <4>6, <5>1, DayMono
        <5>3. K % n = (D + k) % n /\ D <= K
          <6>1. first[k] \in Elems(c.buckets[Calendar!Bucket(c, k)])
            BY <1>5, FilledIs
          <6>2. Calendar!Bucket(c, k) = (D + k) % n
                /\ Calendar!Bucket(c, k) \in 0 .. n - 1
            BY <1>2, <1>3, <4>2, ScanBucket
          <6>3. (first[k].ts \div w) % n = (D + k) % n
            BY <1>2, <6>1, <6>2 DEF CalOK, Filing, FiledIn
          <6> QED
            BY <1>6, <4>5, <5>1, <6>3
        <5>4. K = F
          <6>1. K < F + n /\ F < K + n
            BY <1>1, <4>2, <4>3, <5>2, <5>3
          <6> QED
            BY <1>1, <4>1, <5>3, <6>1, ModEqual
        <5> QED
          BY <1>2, <1>3, <1>5, <4>3, <5>1, <5>4, DueIs
      <4>8. k = d
        BY <2>3, <2>4, <3>2, <3>5, <4>2, <4>3, <4>7
      <4> QED
        BY <4>4, <4>8
    <3> QED
      BY <2>4, <3>2, <3>4, <3>5
  <2> QED
    BY <1>5, <1>9, <2>1, <2>3, <2>4, <2>6 DEF IsEarliest
<1>10. CASE Calendar!Due(c) = {}
  <2>1. PICK d : d = Calendar!NextDay(c)
    OBVIOUS
  <2>2. d = CHOOSE e \in Calendar!Filled(c) :
              \A k \in Calendar!Filled(c) :
                ~Calendar!KeyLess(Calendar!First(c, k), Calendar!First(c, e))
    BY <1>10, <2>1 DEF Calendar!NextDay
  <2>3. \E e \in Calendar!Filled(c) : \A k \in Calendar!Filled(c) :
          ~Calendar!KeyLess(Calendar!First(c, k), Calendar!First(c, e))
    <3>1. PICK firsts : firsts = {first[k] : k \in Calendar!Filled(c)}
      OBVIOUS
    <3>2. firsts \in SUBSET Key /\ firsts # {}
      BY <1>5, <1>7, <3>1
    <3>3. PICK x \in firsts : IsEarliest(x, firsts)
      BY <3>2, EarliestExists
    <3>4. PICK e \in Calendar!Filled(c) : x = first[e]
      BY <3>1, <3>3
    <3>5. ASSUME NEW k \in Calendar!Filled(c)
          PROVE  ~KeyLess(first[k], first[e])
      BY <1>5, <3>1, <3>3, <3>4, LessNot DEF IsEarliest
    <3>6. \A k \in Calendar!Filled(c) :
            ~Calendar!KeyLess(Calendar!First(c, k), Calendar!First(c, e))
      BY <1>5, <3>5 DEF KeyLess, Calendar!KeyLess
    <3> QED
      BY <3>6
  <2>4. d \in Calendar!Filled(c) /\ \A k \in Calendar!Filled(c) :
          ~Calendar!KeyLess(Calendar!First(c, k), Calendar!First(c, d))
    BY <2>2, <2>3
  <2>5. \A k \in Calendar!Filled(c) : ~KeyLess(first[k], first[d])
    BY <1>5, <2>4 DEF KeyLess, Calendar!KeyLess
  <2>6. ASSUME NEW f \in Calendar!Keys(c)
        PROVE  f = first[d] \/ KeyLess(first[d], f)
    <3>1. PICK k \in Calendar!Filled(c) : f \in Elems(c.buckets[(D + k) % n])
      BY <1>6
    <3>2. f \in Key /\ first[k] \in Key /\ first[d] \in Key
      BY <1>5, <1>6, <2>4
    <3>3. first[k] = f \/ KeyLess(first[k], f)
      BY <1>5, <3>1 DEF IsEarliest
    <3>4. first[k] = first[d] \/ KeyLess(first[d], first[k])
      BY <1>8, <2>5, <3>2
    <3> QED
      BY <3>2, <3>3, <3>4, LessTrans
  <2> QED
    BY <1>5, <1>10, <2>1, <2>4, <2>6 DEF IsEarliest
<1> QED
  BY <1>9, <1>10

\* The scan moved to the day of an event that no other precedes.
MovedScan(c, n, p) ==
  [c EXCEPT !.lastPrio = p, !.lastBucket = (p \div c.width) % n,
            !.bucketTop = (p \div c.width + 1) * c.width]

LEMMA ScanMoved ==
  ASSUME NEW c, NEW n, CalOK(c, n), NEW p \in Nat,
         \A e \in Calendar!Keys(c) : e.ts >= p
  PROVE  /\ CalOK(MovedScan(c, n, p), n)
         /\ Calendar!Keys(MovedScan(c, n, p)) = Calendar!Keys(c)
         /\ MovedScan(c, n, p).lastPrio = p
         /\ MovedScan(c, n, p).qSize = c.qSize
<1> DEFINE bucket == (p \div c.width) % n
           top == (p \div c.width + 1) * c.width
<1>0. PICK c2 : c2 = MovedScan(c, n, p)
  OBVIOUS
<1>1. /\ c2.buckets = c.buckets /\ c2.qSize = c.qSize /\ c2.width = c.width
      /\ c2.lastPrio = p /\ c2.lastBucket = bucket /\ c2.bucketTop = top
  BY <1>0 DEF CalOK, CalTyped, MovedScan
<1>2. bucket \in Nat /\ top \in Nat
  <2>1. c.width \in Nat \ {0} /\ n \in Nat \ {0}
    BY CalFields DEF CalOK
  <2>2. PICK w \in Nat \ {0} : w = c.width
    BY <2>1
  <2>3. PICK k \in Nat : k = p \div w
    BY DivMod
  <2>4. k % n \in 0 .. n - 1
    BY <2>1, DivMod
  <2>5. (k + 1) * w \in Nat
    OBVIOUS
  <2> QED
    BY <2>1, <2>2, <2>3, <2>4, <2>5
<1>3. CalTyped(c2, n)
  BY <1>0, <1>2 DEF CalOK, CalTyped, MovedScan
<1>4. Scanning(c2, n)
  BY <1>1 DEF Scanning
<1>5. Filing(c2, n)
  <2>1. \A b \in 0 .. n - 1 : Elems(c.buckets[b]) \subseteq Calendar!Keys(c)
    BY CalKeys DEF CalOK
  <2> QED
    BY <1>1, <2>1 DEF CalOK, Filing, FiledIn
<1>6. Calendar!Keys(c2) = Calendar!Keys(c)
  BY <1>1 DEF Calendar!Keys
<1> QED
  BY <1>0, <1>1, <1>3, <1>4, <1>5, <1>6 DEF CalOK

\* DoRemoveNext takes the earliest event, and moves the scan to its day.
LEMMA DoRemoveNextIs ==
  ASSUME NEW c, NEW n, CalOK(c, n), Calendar!Keys(c) # {},
         NEW r, r = Calendar!DoRemoveNext(c)
  PROVE  /\ r.event \in Calendar!Keys(c) /\ IsEarliest(r.event, Calendar!Keys(c))
         /\ r.event = Calendar!PeekNext(c)
         /\ CalOK(r.list, n)
         /\ Calendar!Keys(r.list) = Calendar!Keys(c) \ {r.event}
         /\ r.list.lastPrio = r.event.ts /\ r.list.qSize = c.qSize
<1>1. PICK d \in Calendar!Filled(c) : d = Calendar!NextDay(c)
  BY NextIsEarliest
<1>2. PICK next \in Calendar!Keys(c) : next = Calendar!First(c, d)
  BY FilledIs
<1>3. IsEarliest(next, Calendar!Keys(c))
  BY <1>1, <1>2, NextIsEarliest
<1>4. next \in Key /\ next.ts \in Nat
  BY CalKeys DEF CalOK, Key
<1>5. PICK b \in 0 .. n - 1 :
        /\ b = Calendar!Bucket(c, d) /\ b = (c.lastPrio \div c.width + d) % n
  BY FilledIs, ScanBucket
<1>6. PICK s \in Seq(Key) : s = c.buckets[b]
  BY CalFields DEF CalOK
<1>7. s # <<>> /\ next = Head(s) /\ Sorted(s)
  BY <1>2, <1>5, <1>6, FilledIs DEF Calendar!First, CalOK, Filing
<1>8. /\ next \in Elems(s) /\ Tail(s) \in Seq(Key) /\ Sorted(Tail(s))
      /\ Elems(Tail(s)) = Elems(s) \ {next}
  BY <1>7, SortedFirst
<1>9. PICK mid : mid = [c EXCEPT !.buckets[b] = Tail(s)]
  OBVIOUS
<1>10. CalOK(mid, n) /\ Calendar!Keys(mid) = Calendar!Keys(c) \ {next}
  <2>1. \A e \in Elems(Tail(s)) : FiledIn(c, n, b, e)
    BY <1>6, <1>8 DEF CalOK, Filing
  <2>2. /\ CalOK(mid, n)
        /\ Calendar!Keys(mid)
             = (Calendar!Keys(c) \ Elems(s)) \cup Elems(Tail(s))
    <3>1. PICK t \in Seq(Key) : t = Tail(s)
      BY <1>8
    <3>2. Sorted(t) /\ mid = [c EXCEPT !.buckets[b] = t]
          /\ \A e \in Elems(t) : FiledIn(c, n, b, e)
      BY <1>8, <1>9, <2>1, <3>1
    <3>3. /\ CalOK(mid, n)
          /\ Calendar!Keys(mid)
               = (Calendar!Keys(c) \ Elems(c.buckets[b])) \cup Elems(t)
      BY <3>2, BucketSet
    <3> QED
      BY <1>6, <3>1, <3>3
  <2>3. Elems(s) \subseteq Calendar!Keys(c)
    BY <1>6, CalKeys DEF CalOK
  <2> QED
    BY <1>8, <2>2, <2>3
<1>11. PICK bucket : bucket = (next.ts \div c.width) % n
  OBVIOUS
<1>12. PICK top : top = (next.ts \div c.width + 1) * c.width
  OBVIOUS
<1>13. /\ bucket = IF Calendar!Due(c) # {} THEN Calendar!Bucket(c, d)
                   ELSE Calendar!Hash(c, next.ts)
       /\ top = IF Calendar!Due(c) # {} THEN Calendar!Today(c, d)
                ELSE (next.ts \div c.width + 1) * c.width
  <2>1. CASE Calendar!Due(c) # {}
    <3>1. d \in Calendar!Due(c)
      BY <1>1, <2>1, NextIsEarliest
    <3>2. next.ts \div c.width = c.lastPrio \div c.width + d
      BY <1>2, <3>1, DueIs
    <3>3. bucket = b
      BY <1>5, <1>11, <3>2
    <3>4. Calendar!Today(c, d) = top
      <4>1. PICK w \in Nat : w = c.width
        BY CalFields DEF CalOK
      <4>2. PICK D \in Nat : D = c.lastPrio \div w
        BY <4>1, CalFields, HomeOf DEF CalOK
      <4>3. c.bucketTop = (D + 1) * w
        BY <4>1, <4>2 DEF CalOK, Scanning
      <4>4. d \in Nat
        BY FilledIs
      <4>5. PICK q : q = D + d + 1
        OBVIOUS
      <4>6. (D + 1) * w + d * w = q * w
        BY <4>4, <4>5, DaysAfter
      <4> QED
        BY <1>12, <3>2, <4>1, <4>2, <4>3, <4>5, <4>6 DEF Calendar!Today
    <3> QED
      BY <1>5, <2>1, <3>3, <3>4
  <2>2. CASE Calendar!Due(c) = {}
    BY <1>4, <1>11, <1>12, <2>2, HomeOf DEF CalOK
  <2> QED
    BY <2>1, <2>2
<1>14. PICK c2 : c2 = [mid EXCEPT !.lastPrio = next.ts, !.lastBucket = bucket,
                                  !.bucketTop = top]
  OBVIOUS
<1>15. mid.width = c.width /\ mid.qSize = c.qSize
  BY <1>9 DEF CalOK, CalTyped
<1>16. \A e \in Calendar!Keys(mid) : e.ts >= next.ts
  <2>1. ASSUME NEW e \in Calendar!Keys(c) PROVE e.ts >= next.ts
    <3>1. e \in Key /\ e.ts \in Nat
      BY CalKeys DEF CalOK, Key
    <3> QED
      BY <1>3, <1>4, <3>1 DEF IsEarliest, KeyLess
  <2> QED
    BY <1>10, <2>1
<1>17. CalOK(c2, n) /\ Calendar!Keys(c2) = Calendar!Keys(mid)
       /\ c2.lastPrio = next.ts /\ c2.qSize = c.qSize
  <2>1. PICK p \in Nat : p = next.ts
    BY <1>4
  <2>2. c2 = MovedScan(mid, n, p) /\ \A e \in Calendar!Keys(mid) : e.ts >= p
    BY <1>11, <1>12, <1>14, <1>15, <1>16, <2>1 DEF MovedScan
  <2>3. CalOK(c2, n) /\ Calendar!Keys(c2) = Calendar!Keys(mid)
        /\ c2.lastPrio = p /\ c2.qSize = mid.qSize
    BY <1>10, <2>2, ScanMoved
  <2> QED
    BY <1>15, <2>1, <2>3
<1>18. r = [event |-> next, list |-> c2]
  <2>1. c2 = [c EXCEPT !.buckets[b] = Tail(s), !.lastPrio = next.ts,
                       !.lastBucket = bucket, !.bucketTop = top]
    BY <1>9, <1>14 DEF CalOK, CalTyped
  <2>2. r = [event |-> Calendar!First(c, d), list |->
          [c EXCEPT !.buckets[b] = Tail(c.buckets[b]),
                    !.lastPrio = Calendar!First(c, d).ts,
                    !.lastBucket = IF Calendar!Due(c) # {} THEN b
                                   ELSE Calendar!Hash(c, Calendar!First(c, d).ts),
                    !.bucketTop = IF Calendar!Due(c) # {} THEN Calendar!Today(c, d)
                      ELSE (Calendar!First(c, d).ts \div c.width + 1) * c.width]]
    BY <1>1, <1>5 DEF Calendar!DoRemoveNext
  <2> QED
    BY <1>2, <1>5, <1>6, <1>13, <2>1, <2>2
<1>19. Calendar!PeekNext(c) = next
  BY <1>1, <1>2 DEF Calendar!PeekNext
<1> QED
  BY <1>3, <1>10, <1>17, <1>18, <1>19

\* A finite set, and one element less.
LEMMA OneLess ==
  ASSUME NEW S, IsFiniteSet(S), NEW k \in Nat, Cardinality(S) = k + 1
  PROVE  /\ S # {}
         /\ \A e \in S : IsFiniteSet(S \ {e}) /\ Cardinality(S \ {e}) = k
<1>1. S # {}
  <2> SUFFICES ASSUME S = {} PROVE FALSE
    OBVIOUS
  <2>1. Cardinality(S) = 0
    BY FS_EmptySet
  <2> QED
    BY <2>1
<1>2. ASSUME NEW e \in S
      PROVE  IsFiniteSet(S \ {e}) /\ Cardinality(S \ {e}) = k
  <2>1. IsFiniteSet(S \ {e}) /\ Cardinality(S \ {e}) = Cardinality(S) - 1
    BY FS_RemoveElement
  <2> QED
    BY <2>1
<1> QED
  BY <1>1, <1>2

\* The calendars of n buckets, as a set.
Calendars(n) ==
  {c \in [buckets : [0 .. n - 1 -> Seq(Key)], width : Nat \ {0},
          lastPrio : Nat, lastBucket : Nat, bucketTop : Nat, qSize : Nat] :
     CalOK(c, n)}

LEMMA CalendarsAre ==
  ASSUME NEW c, NEW n
  PROVE  c \in Calendars(n) <=> CalOK(c, n)
BY DEF Calendars, CalOK, CalTyped

\* How many events are left in a calendar, and how many samples were taken.
Left(n, N, k) ==
  {s \in [list : Calendars(n), samples : Seq(Key)] :
     /\ IsFiniteSet(Calendar!Keys(s.list))
     /\ Cardinality(Calendar!Keys(s.list)) = N - k
     /\ Len(s.samples) = k}

\* One round of the loop of CalculateNewWidth ...
LEMMA SampleIs ==
  ASSUME NEW n, NEW N \in Nat, NEW k \in 1 .. N, NEW s \in Left(n, N, k - 1)
  PROVE  Calendar!Sample(s) \in Left(n, N, k)
<1>1. PICK c : c = s.list
  OBVIOUS
<1>2. CalOK(c, n) /\ s.samples \in Seq(Key) /\ Len(s.samples) = k - 1
  BY <1>1, CalendarsAre DEF Left
<1>3. PICK keys : keys = Calendar!Keys(c)
  OBVIOUS
<1>4. IsFiniteSet(keys) /\ Cardinality(keys) = N - k + 1
  BY <1>1, <1>3 DEF Left
<1>5. keys # {} /\ \A e \in keys : /\ IsFiniteSet(keys \ {e})
                                   /\ Cardinality(keys \ {e}) = N - k
  <2>1. PICK j \in Nat : j = N - k
    OBVIOUS
  <2>2. Cardinality(keys) = j + 1
    BY <1>4, <2>1
  <2> QED
    BY <1>4, <2>1, <2>2, OneLess
<1>6. PICK r : r = Calendar!DoRemoveNext(c)
  OBVIOUS
<1>7. /\ r.event \in keys /\ CalOK(r.list, n)
      /\ Calendar!Keys(r.list) = keys \ {r.event}
  BY <1>2, <1>3, <1>5, <1>6, DoRemoveNextIs
<1>8. r.event \in Key
  BY <1>2, <1>3, <1>7, CalKeys DEF CalOK
<1>9. PICK samples : samples = Append(s.samples, r.event)
  OBVIOUS
<1>10. samples \in Seq(Key) /\ Len(samples) = k
  BY <1>2, <1>8, <1>9, AppendProperties
<1>11. Calendar!Sample(s) = [list |-> r.list, samples |-> samples]
  BY <1>1, <1>6, <1>9 DEF Calendar!Sample
<1>12. r.list \in Calendars(n)
  BY <1>7, CalendarsAre
<1>13. IsFiniteSet(Calendar!Keys(r.list))
       /\ Cardinality(Calendar!Keys(r.list)) = N - k
  BY <1>5, <1>7
<1> QED
  BY <1>10, <1>11, <1>12, <1>13 DEF Left

\* ... and all of them, which finds as many samples as it is told to.
LEMMA TakeOutIs ==
  ASSUME NEW c, NEW n, CalOK(c, n), IsFiniteSet(Calendar!Keys(c)),
         NEW m \in Nat, m <= Cardinality(Calendar!Keys(c))
  PROVE  Calendar!TakeOut(c, m) \in Seq(Key) /\ Len(Calendar!TakeOut(c, m)) = m
<1>1. PICK N \in Nat : N = Cardinality(Calendar!Keys(c))
  BY FS_CardinalityType
<1>2. PICK s0 : s0 = [list |-> c, samples |-> <<>>]
  OBVIOUS
<1>3. PICK In : In = [k \in 0 .. m |-> Left(n, N, k)]
  OBVIOUS
<1>4. PICK step : step = [k \in 1 .. m |->
                            [s \in In[k - 1] |-> Calendar!Sample(s)]]
  OBVIOUS
<1>5. s0 \in In[0]
  <2>1. c \in Calendars(n)
    BY CalendarsAre
  <2>2. s0 \in Left(n, N, 0)
    BY <1>1, <1>2, <2>1 DEF Left
  <2> QED
    BY <1>3, <2>2
<1>6. ASSUME NEW k \in 1 .. m, NEW s \in In[k - 1]
      PROVE  step[k][s] = Calendar!Sample(s) /\ step[k][s] \in In[k]
  <2>1. k \in 1 .. N /\ k \in 0 .. m /\ k - 1 \in 0 .. m
    BY <1>1
  <2>2. s \in Left(n, N, k - 1)
    BY <1>3, <2>1
  <2>3. Calendar!Sample(s) \in Left(n, N, k)
    BY <2>1, <2>2, SampleIs
  <2>4. step[k][s] = Calendar!Sample(s)
    BY <1>4
  <2> QED
    BY <1>3, <2>1, <2>3, <2>4
<1>7. PICK f \in Runs(m, In, s0, step) : TRUE
  BY <1>5, <1>6, Loop
<1>8. /\ f = [k \in 0 .. m |-> f[k]] /\ f[0] = s0 /\ f[m] \in In[m]
      /\ \A k \in 1 .. m : f[k] = Calendar!Sample(f[k - 1])
  <2>1. /\ f = [k \in 0 .. m |-> f[k]] /\ f[0] = s0 /\ f[m] \in In[m]
        /\ \A k \in 1 .. m :
             f[k] = step[k][f[k - 1]] /\ f[k - 1] \in In[k - 1]
    BY <1>7, RunsAre
  <2>2. ASSUME NEW k \in 1 .. m PROVE f[k] = Calendar!Sample(f[k - 1])
    BY <1>6, <2>1
  <2> QED
    BY <2>1, <2>2
<1>9. f = [k \in 0 .. m |-> IF k = 0 THEN s0 ELSE Calendar!Sample(f[k - 1])]
  <2>1. \A k \in 0 .. m : f[k] = IF k = 0 THEN s0 ELSE Calendar!Sample(f[k - 1])
    BY <1>8
  <2> QED
    BY <1>8, <2>1
<1>10. PICK g : /\ g = [k \in 0 .. m |-> IF k = 0 THEN s0
                                         ELSE Calendar!Sample(g[k - 1])]
                /\ Calendar!TakeOut(c, m) = g[m].samples
  BY <1>2, <1>9 DEF Calendar!TakeOut
<1>11. g[m] = f[m]
  <2>1. g[0] = s0 /\ \A k \in 1 .. m : g[k] = Calendar!Sample(g[k - 1])
    BY <1>10
  <2>2. g[0] = f[0] /\ \A k \in 1 .. m : g[k - 1] = f[k - 1] => g[k] = f[k]
    BY <1>8, <2>1
  <2> QED
    BY <2>2, SameRuns
<1>12. f[m] \in Left(n, N, m)
  BY <1>3, <1>8
<1> QED
  BY <1>10, <1>11, <1>12 DEF Left

\* The sum over the samples is a number,
LEMMA SeparationTyped ==
  ASSUME NEW samples \in Seq(Key), Len(samples) >= 1, NEW limit
  PROVE  Calendar!Separation(samples, limit) \in Int
<1>1. PICK m \in Nat : m = Len(samples) - 1
  BY LenProperties
<1>2. PICK diff : diff = [i \in 1 .. m |-> samples[i + 1].ts - samples[i].ts]
  OBVIOUS
<1>3. \A i \in 1 .. m :
        diff[i] \in Int /\ diff[i] = samples[i + 1].ts - samples[i].ts
  <2> SUFFICES ASSUME NEW i \in 1 .. m
               PROVE  diff[i] \in Int /\ diff[i] = samples[i + 1].ts - samples[i].ts
    OBVIOUS
  <2>1. samples[i] \in Key /\ samples[i + 1] \in Key
    <3>1. i \in 1 .. Len(samples) /\ i + 1 \in 1 .. Len(samples)
      BY <1>1, LenProperties
    <3> QED
      BY <3>1, ElementOfSeq
  <2>2. samples[i].ts \in Nat /\ samples[i + 1].ts \in Nat
    BY <2>1 DEF Key
  <2> QED
    BY <1>2, <2>2
<1>4. PICK In : In = [i \in 0 .. m |-> Int]
  OBVIOUS
<1>5. PICK step : step = [i \in 1 .. m |-> [x \in Int |->
                            x + IF diff[i] <= limit THEN diff[i] ELSE 0]]
  OBVIOUS
<1>6. ASSUME NEW k \in 1 .. m, NEW x \in In[k - 1]
      PROVE  /\ step[k][x] = x + IF diff[k] <= limit THEN diff[k] ELSE 0
             /\ step[k][x] \in In[k]
  <2>1. x \in Int /\ In[k] = Int
    BY <1>4
  <2> QED
    BY <1>3, <1>5, <2>1
<1>7. 0 \in In[0]
  BY <1>4
<1>8. PICK f \in Runs(m, In, 0, step) : TRUE
  BY <1>6, <1>7, Loop
<1>9. /\ f = [k \in 0 .. m |-> f[k]] /\ f[0] = 0 /\ f[m] \in In[m]
      /\ \A k \in 1 .. m :
           f[k] = f[k - 1] + IF diff[k] <= limit THEN diff[k] ELSE 0
  <2>1. /\ f = [k \in 0 .. m |-> f[k]] /\ f[0] = 0 /\ f[m] \in In[m]
        /\ \A k \in 1 .. m :
             f[k] = step[k][f[k - 1]] /\ f[k - 1] \in In[k - 1]
    BY <1>8, RunsAre
  <2>2. ASSUME NEW k \in 1 .. m
        PROVE  f[k] = f[k - 1] + IF diff[k] <= limit THEN diff[k] ELSE 0
    BY <1>6, <2>1
  <2> QED
    BY <2>1, <2>2
<1> DEFINE OneMore(i, x) ==
             x + IF samples[i + 1].ts - samples[i].ts <= limit
                 THEN samples[i + 1].ts - samples[i].ts ELSE 0
<1>10. \A k \in 1 .. m : f[k] = OneMore(k, f[k - 1])
  BY <1>3, <1>9
<1>11. f = [k \in 0 .. m |-> IF k = 0 THEN 0 ELSE OneMore(k, f[k - 1])]
  <2> HIDE DEF OneMore
  <2>1. \A k \in 0 .. m : f[k] = IF k = 0 THEN 0 ELSE OneMore(k, f[k - 1])
    BY <1>9, <1>10
  <2> QED
    BY <1>9, <2>1
<1>12. PICK g : /\ g = [k \in 0 .. m |-> IF k = 0 THEN 0 ELSE OneMore(k, g[k - 1])]
                /\ Calendar!Separation(samples, limit) = g[m]
  BY <1>1, <1>11 DEF Calendar!Separation
<1>13. g[m] = f[m]
  <2>1. g[0] = 0 /\ \A k \in 1 .. m : g[k] = OneMore(k, g[k - 1])
    BY <1>12
  <2> HIDE DEF OneMore
  <2>2. g[0] = f[0] /\ \A k \in 1 .. m : g[k - 1] = f[k - 1] => g[k] = f[k]
    BY <1>9, <1>10, <2>1
  <2> QED
    BY <2>2, SameRuns
<1> QED
  BY <1>4, <1>9, <1>12, <1>13

\* A calendar that knows how many events it holds.
CalFull(c, n) == /\ CalOK(c, n)
                 /\ IsFiniteSet(Calendar!Keys(c))
                 /\ c.qSize = Cardinality(Calendar!Keys(c))

\* and the new width at least one.
LEMMA NewWidthIs ==
  ASSUME NEW c, NEW n, CalFull(c, n)
  PROVE  Calendar!CalculateNewWidth(c) \in Nat \ {0}
<1>1. PICK q \in Nat : q = c.qSize
  BY CalFields DEF CalFull, CalOK
<1>2. CASE q < 2
  BY <1>1, <1>2 DEF Calendar!CalculateNewWidth
<1>3. CASE q >= 2
  <2>1. PICK some \in Nat : some = IF q <= 5 THEN q ELSE 5 + q \div 10
    OBVIOUS
  <2>2. 2 <= some /\ some <= q
    BY <1>3, <2>1
  <2>3. PICK m : m = Calendar!Min({25, some})
    OBVIOUS
  <2>4. m \in Nat /\ 2 <= m /\ m <= q
    BY <2>2, <2>3 DEF Calendar!Min
  <2>5. PICK samples : samples = Calendar!TakeOut(c, m)
    OBVIOUS
  <2>6. samples \in Seq(Key) /\ Len(samples) = m
    BY <1>1, <2>4, <2>5, TakeOutIs DEF CalFull
  <2>7. PICK limit : limit = ((samples[m].ts - samples[1].ts) \div (m - 1)) * 2
    OBVIOUS
  <2>8. PICK sum \in Int : sum = Calendar!Separation(samples, limit)
    BY <2>4, <2>6, SeparationTyped
  <2>9. Calendar!CalculateNewWidth(c) = Calendar!Max({1, 3 * sum})
    <3>1. ~(c.qSize < 2)
      BY <1>1, <1>3
    <3>2. m = Calendar!Min({25, IF c.qSize <= 5 THEN c.qSize
                                ELSE 5 + c.qSize \div 10})
      BY <1>1, <2>1, <2>3
    <3> QED
      BY <2>5, <2>7, <2>8, <3>1, <3>2 DEF Calendar!CalculateNewWidth
  <2>10. Calendar!Max({1, 3 * sum}) \in Nat \ {0}
    BY DEF Calendar!Max
  <2> QED
    BY <2>9, <2>10
<1> QED
  BY <1>2, <1>3

\* An empty calendar, its scan on the day of startPrio.
LEMMA NewCalendarIs ==
  ASSUME NEW m \in Nat \ {0}, NEW w \in Nat \ {0}, NEW p \in Nat, NEW q \in Nat,
         NEW c, c = Calendar!NewCalendar(m, w, p, q)
  PROVE  /\ CalOK(c, m) /\ Calendar!Keys(c) = {}
         /\ c.lastPrio = p /\ c.qSize = q
<1>1. PICK k \in Nat : k = p \div w
  BY DivMod
<1>2. k % m \in Nat
  BY DivMod
<1>3. (k + 1) * w \in Nat
  OBVIOUS
<1>4. c = [buckets |-> [b \in 0 .. m - 1 |-> <<>>], width |-> w, lastPrio |-> p,
           lastBucket |-> k % m, bucketTop |-> (k + 1) * w, qSize |-> q]
  BY <1>1 DEF Calendar!NewCalendar
<1>5. \A b \in 0 .. m - 1 : c.buckets[b] = <<>>
  BY <1>4
<1>6. CalTyped(c, m)
  <2>1. [b \in 0 .. m - 1 |-> <<>>] \in [0 .. m - 1 -> Seq(Key)]
    OBVIOUS
  <2> QED
    BY <1>2, <1>3, <1>4, <2>1 DEF CalTyped
<1>7. Scanning(c, m)
  BY <1>1, <1>4 DEF Scanning
<1>8. Elems(<<>>) = {} /\ Sorted(<<>>)
  BY DEF Elems, Sorted
<1>9. Filing(c, m)
  BY <1>5, <1>8 DEF Filing
<1>10. Calendar!Keys(c) = {}
  BY <1>5, <1>6, <1>8, CalKeys
<1> QED
  BY <1>4, <1>6, <1>7, <1>9, <1>10 DEF CalOK

-----------------------------------------------------------------------------
(* The resizing.                                                           *)

\* The calendars of m buckets that hold these events, and lastPrio and qSize.
Holding(m, keys, p, q) ==
  {x \in Calendars(m) : Calendar!Keys(x) = keys /\ x.lastPrio = p /\ x.qSize = q}

\* An event is filed in the new calendar, ...
LEMMA FileOne ==
  ASSUME NEW m, NEW keys, NEW p \in Nat, NEW q, NEW x \in Holding(m, keys, p, q),
         NEW ev \in Key, ev \notin keys, ev.ts >= p
  PROVE  Calendar!DoInsert(x, ev) \in Holding(m, keys \cup {ev}, p, q)
<1>1. CalOK(x, m) /\ Calendar!Keys(x) = keys /\ x.lastPrio = p /\ x.qSize = q
  BY CalendarsAre DEF Holding
<1>2. /\ CalOK(Calendar!DoInsert(x, ev), m)
      /\ Calendar!Keys(Calendar!DoInsert(x, ev)) = keys \cup {ev}
      /\ Calendar!DoInsert(x, ev).lastPrio = p
      /\ Calendar!DoInsert(x, ev).qSize = q
  BY <1>1, DoInsertIs
<1> QED
  BY <1>2, CalendarsAre DEF Holding

\* ... a bucket of events, ...
LEMMA FileAllIs ==
  ASSUME NEW m, NEW keys, NEW p \in Nat, NEW q, NEW c \in Holding(m, keys, p, q),
         NEW evs \in Seq(Key), Sorted(evs), Elems(evs) \cap keys = {},
         \A e \in Elems(evs) : e.ts >= p
  PROVE  Calendar!FileAll(c, evs) \in Holding(m, keys \cup Elems(evs), p, q)
<1>1. PICK l \in Nat : l = Len(evs)
  BY LenProperties
<1>2. PICK In : In = [k \in 0 .. l |->
                        Holding(m, keys \cup {evs[i] : i \in 1 .. k}, p, q)]
  OBVIOUS
<1>3. PICK step : step = [k \in 1 .. l |->
                            [x \in In[k - 1] |-> Calendar!DoInsert(x, evs[k])]]
  OBVIOUS
<1>4. c \in In[0]
  <2>1. keys \cup {evs[i] : i \in 1 .. 0} = keys
    OBVIOUS
  <2>2. In[0] = Holding(m, keys \cup {evs[i] : i \in 1 .. 0}, p, q)
    BY <1>2
  <2> QED
    BY <2>1, <2>2
<1>5. ASSUME NEW k \in 1 .. l, NEW x \in In[k - 1]
      PROVE  /\ step[k][x] = Calendar!DoInsert(x, evs[k])
             /\ step[k][x] \in In[k]
  <2>1. PICK before : before = keys \cup {evs[i] : i \in 1 .. k - 1}
    OBVIOUS
  <2>2. x \in Holding(m, before, p, q)
    <3>1. k - 1 \in 0 .. l
      OBVIOUS
    <3> QED
      BY <1>2, <2>1, <3>1
  <2>3. evs[k] \in Key /\ evs[k] \in Elems(evs)
    BY <1>1, ElementOfSeq, ElemsOf
  <2>4. evs[k] \notin before
    <3>1. ASSUME NEW i \in 1 .. k - 1 PROVE evs[i] # evs[k]
      <4>1. i \in 1 .. Len(evs) /\ k \in 1 .. Len(evs) /\ i < k
        BY <1>1
      <4>2. KeyLess(evs[i], evs[k]) /\ evs[i] \in Key
        BY <4>1, ElementOfSeq DEF Sorted
      <4> QED
        BY <2>3, <4>2, LessNot
    <3>2. evs[k] \notin keys
      BY <2>3
    <3> QED
      BY <2>1, <3>1, <3>2
  <2>5. Calendar!DoInsert(x, evs[k]) \in Holding(m, before \cup {evs[k]}, p, q)
    BY <2>2, <2>3, <2>4, FileOne
  <2>6. before \cup {evs[k]} = keys \cup {evs[i] : i \in 1 .. k}
    <3>1. 1 .. k = (1 .. k - 1) \cup {k}
      OBVIOUS
    <3> QED
      BY <2>1, <3>1
  <2>7. In[k] = Holding(m, keys \cup {evs[i] : i \in 1 .. k}, p, q)
    BY <1>2
  <2>8. step[k][x] = Calendar!DoInsert(x, evs[k])
    BY <1>3
  <2> QED
    BY <2>5, <2>6, <2>7, <2>8
<1>6. PICK f \in Runs(l, In, c, step) : TRUE
  BY <1>4, <1>5, Loop
<1>7. /\ f = [k \in 0 .. l |-> f[k]] /\ f[0] = c /\ f[l] \in In[l]
      /\ \A k \in 1 .. l : f[k] = Calendar!DoInsert(f[k - 1], evs[k])
  <2>1. /\ f = [k \in 0 .. l |-> f[k]] /\ f[0] = c /\ f[l] \in In[l]
        /\ \A k \in 1 .. l :
             f[k] = step[k][f[k - 1]] /\ f[k - 1] \in In[k - 1]
    BY <1>6, RunsAre
  <2>2. ASSUME NEW k \in 1 .. l
        PROVE  f[k] = Calendar!DoInsert(f[k - 1], evs[k])
    BY <1>5, <2>1
  <2> QED
    BY <2>1, <2>2
<1>8. f = [k \in 0 .. l |-> IF k = 0 THEN c
                            ELSE Calendar!DoInsert(f[k - 1], evs[k])]
  <2>1. \A k \in 0 .. l : f[k] = IF k = 0 THEN c
                                 ELSE Calendar!DoInsert(f[k - 1], evs[k])
    BY <1>7
  <2> QED
    BY <1>7, <2>1
<1>9. PICK g : /\ g = [k \in 0 .. l |-> IF k = 0 THEN c
                                        ELSE Calendar!DoInsert(g[k - 1], evs[k])]
               /\ Calendar!FileAll(c, evs) = g[l]
  BY <1>1, <1>8 DEF Calendar!FileAll
<1>10. g[l] = f[l]
  <2>1. g[0] = c /\ \A k \in 1 .. l : g[k] = Calendar!DoInsert(g[k - 1], evs[k])
    BY <1>9
  <2>2. g[0] = f[0] /\ \A k \in 1 .. l : g[k - 1] = f[k - 1] => g[k] = f[k]
    BY <1>7, <2>1
  <2> QED
    BY <2>2, SameRuns
<1>11. {evs[i] : i \in 1 .. l} = Elems(evs)
  BY <1>1, ElemsOf
<1>12. In[l] = Holding(m, keys \cup {evs[i] : i \in 1 .. l}, p, q)
  BY <1>2
<1> QED
  BY <1>7, <1>9, <1>10, <1>11, <1>12

\* ... and all buckets: the resizing keeps the events.
LEMMA ResizeIs ==
  ASSUME NEW c, NEW n, CalFull(c, n), NEW m \in Nat \ {0}
  PROVE  Calendar!Resize(c, m)
           \in Holding(m, Calendar!Keys(c), c.lastPrio, c.qSize)
<1>1. PICK p \in Nat : p = c.lastPrio
  BY CalFields DEF CalFull, CalOK
<1>2. PICK q \in Nat : q = c.qSize
  BY CalFields DEF CalFull, CalOK
<1>3. n \in Nat \ {0} /\ Calendar!NBuckets(c) = n
  BY CalFields DEF CalFull, CalOK
<1>4. CalOK(c, n) /\ CalTyped(c, n)
  BY DEF CalFull, CalOK
<1>5. PICK s0 : s0 = Calendar!NewCalendar(m, Calendar!CalculateNewWidth(c), p, q)
  OBVIOUS
<1>6. s0 \in Holding(m, {}, p, q)
  <2>1. PICK w \in Nat \ {0} : w = Calendar!CalculateNewWidth(c)
    BY NewWidthIs
  <2>2. CalOK(s0, m) /\ Calendar!Keys(s0) = {} /\ s0.lastPrio = p /\ s0.qSize = q
    BY <1>5, <2>1, NewCalendarIs
  <2> QED
    BY <2>2, CalendarsAre DEF Holding
<1>7. PICK Old :
        Old = [b \in 0 .. n |-> UNION {Elems(c.buckets[a]) : a \in 0 .. b - 1}]
  OBVIOUS
<1>8. Old[0] = {} /\ Old[n] = Calendar!Keys(c)
  <2>1. Old[0] = {}
    BY <1>3, <1>7
  <2>2. Old[n] = UNION {Elems(c.buckets[a]) : a \in 0 .. n - 1}
    BY <1>3, <1>7
  <2> QED
    BY <1>4, <2>1, <2>2, CalKeys
<1>9. PICK In : In = [b \in 0 .. n |-> Holding(m, Old[b], p, q)]
  OBVIOUS
<1>10. PICK step :
         step = [b \in 1 .. n |->
                   [x \in In[b - 1] |-> Calendar!FileAll(x, c.buckets[b - 1])]]
  OBVIOUS
<1>11. s0 \in In[0]
  <2>1. In[0] = Holding(m, Old[0], p, q)
    BY <1>3, <1>9
  <2> QED
    BY <1>6, <1>8, <2>1
<1>12. ASSUME NEW b \in 1 .. n, NEW x \in In[b - 1]
       PROVE  /\ step[b][x] = Calendar!FileAll(x, c.buckets[b - 1])
              /\ step[b][x] \in In[b]
  <2>1. PICK a \in 0 .. n - 1 : a = b - 1
    BY <1>3
  <2>2. PICK s \in Seq(Key) : s = c.buckets[a]
    BY <1>4, CalFields
  <2>3. Sorted(s) /\ \A e \in Elems(s) : FiledIn(c, n, a, e)
    BY <1>4, <2>2 DEF CalOK, Filing
  <2>4. Elems(s) \cap Old[a] = {}
    <3>1. ASSUME NEW i \in 0 .. a - 1, NEW e \in Elems(c.buckets[i])
          PROVE  e \notin Elems(s)
      <4>1. FiledIn(c, n, i, e)
        <5>1. i \in 0 .. n - 1
          BY <1>3, <2>1
        <5> QED
          BY <1>4, <5>1 DEF CalOK, Filing
      <4> QED
        BY <2>3, <4>1 DEF FiledIn
    <3>2. Old[a] = UNION {Elems(c.buckets[i]) : i \in 0 .. a - 1}
      BY <1>3, <1>7, <2>1
    <3> QED
      BY <3>1, <3>2
  <2>5. \A e \in Elems(s) : e.ts >= p
    BY <1>1, <2>3 DEF FiledIn
  <2>6. x \in Holding(m, Old[a], p, q)
    BY <1>3, <1>9, <2>1
  <2>7. Calendar!FileAll(x, s) \in Holding(m, Old[a] \cup Elems(s), p, q)
    BY <2>3, <2>4, <2>5, <2>6, FileAllIs
  <2>8. Old[b] = Old[a] \cup Elems(s)
    <3>1. 0 .. b - 1 = (0 .. a - 1) \cup {a}
      BY <2>1
    <3>2. /\ Old[b] = UNION {Elems(c.buckets[i]) : i \in 0 .. b - 1}
          /\ Old[a] = UNION {Elems(c.buckets[i]) : i \in 0 .. a - 1}
      BY <1>3, <1>7, <2>1
    <3> QED
      BY <2>2, <3>1, <3>2
  <2>9. In[b] = Holding(m, Old[b], p, q)
    BY <1>9
  <2>10. step[b][x] = Calendar!FileAll(x, c.buckets[b - 1])
    BY <1>10
  <2> QED
    BY <2>1, <2>2, <2>7, <2>8, <2>9, <2>10
<1>13. PICK f \in Runs(n, In, s0, step) : TRUE
  BY <1>3, <1>11, <1>12, Loop
<1>14. /\ f = [b \in 0 .. n |-> f[b]] /\ f[0] = s0 /\ f[n] \in In[n]
       /\ \A b \in 1 .. n : f[b] = Calendar!FileAll(f[b - 1], c.buckets[b - 1])
  <2>1. /\ f = [b \in 0 .. n |-> f[b]] /\ f[0] = s0 /\ f[n] \in In[n]
        /\ \A b \in 1 .. n :
             f[b] = step[b][f[b - 1]] /\ f[b - 1] \in In[b - 1]
    BY <1>3, <1>13, RunsAre
  <2>2. ASSUME NEW b \in 1 .. n
        PROVE  f[b] = Calendar!FileAll(f[b - 1], c.buckets[b - 1])
    BY <1>12, <2>1
  <2> QED
    BY <2>1, <2>2
<1>15. f = [b \in 0 .. n |-> IF b = 0 THEN s0
                             ELSE Calendar!FileAll(f[b - 1], c.buckets[b - 1])]
  <2>1. \A b \in 0 .. n : f[b] = IF b = 0 THEN s0
                                 ELSE Calendar!FileAll(f[b - 1], c.buckets[b - 1])
    <3>1. \A b \in 0 .. n : b = 0 \/ b \in 1 .. n
      BY <1>3
    <3> QED
      BY <1>14, <3>1
  <2> QED
    BY <1>14, <2>1
<1>16. PICK g : /\ g = [b \in 0 .. n |-> IF b = 0 THEN s0
                          ELSE Calendar!FileAll(g[b - 1], c.buckets[b - 1])]
                /\ Calendar!Resize(c, m) = g[n]
  <2>1. s0 = Calendar!NewCalendar(m, Calendar!CalculateNewWidth(c), c.lastPrio,
                                  c.qSize)
    BY <1>1, <1>2, <1>5
  <2>2. f = [b \in 0 .. Calendar!NBuckets(c) |->
               IF b = 0
               THEN Calendar!NewCalendar(m, Calendar!CalculateNewWidth(c),
                                         c.lastPrio, c.qSize)
               ELSE Calendar!FileAll(f[b - 1], c.buckets[b - 1])]
    BY <1>3, <1>15, <2>1
  <2>3. PICK g : /\ g = [b \in 0 .. Calendar!NBuckets(c) |->
                           IF b = 0
                           THEN Calendar!NewCalendar(m, Calendar!CalculateNewWidth(c),
                                                     c.lastPrio, c.qSize)
                           ELSE Calendar!FileAll(g[b - 1], c.buckets[b - 1])]
                 /\ Calendar!Resize(c, m) = g[Calendar!NBuckets(c)]
    BY <2>2 DEF Calendar!Resize
  <2> QED
    BY <1>3, <2>1, <2>3
<1>17. g[n] = f[n]
  <2>1. g[0] = s0
        /\ \A b \in 1 .. n : g[b] = Calendar!FileAll(g[b - 1], c.buckets[b - 1])
    BY <1>3, <1>16
  <2>2. g[0] = f[0] /\ \A b \in 1 .. n : g[b - 1] = f[b - 1] => g[b] = f[b]
    BY <1>14, <2>1
  <2> QED
    BY <1>3, <2>2, SameRuns
<1>18. f[n] \in Holding(m, Calendar!Keys(c), p, q)
  BY <1>3, <1>8, <1>9, <1>14
<1> QED
  BY <1>1, <1>2, <1>16, <1>17, <1>18

-----------------------------------------------------------------------------
(* The operations of the calendar.                                         *)

CalGood(c) == \E n \in Nat : CalFull(c, n)

LEMMA ResizedIs ==
  ASSUME NEW c, NEW n, CalFull(c, n), NEW m \in Nat \ {0},
         NEW d, d = c \/ d = Calendar!Resize(c, m)
  PROVE  /\ CalGood(d) /\ Calendar!Keys(d) = Calendar!Keys(c)
         /\ d.lastPrio = c.lastPrio
<1>0. n \in Nat
  BY CalFields DEF CalFull, CalOK
<1>1. CASE d = c
  BY <1>0, <1>1 DEF CalGood
<1>2. CASE d = Calendar!Resize(c, m)
  <2>1. d \in Holding(m, Calendar!Keys(c), c.lastPrio, c.qSize)
    BY <1>2, ResizeIs
  <2>2. /\ CalOK(d, m) /\ Calendar!Keys(d) = Calendar!Keys(c)
        /\ d.lastPrio = c.lastPrio /\ d.qSize = c.qSize
    BY <2>1, CalendarsAre DEF Holding
  <2>3. CalFull(d, m)
    BY <2>2 DEF CalFull
  <2> QED
    BY <2>2, <2>3 DEF CalGood
<1> QED
  BY <1>1, <1>2

LEMMA ResizeUpIs ==
  ASSUME NEW c, NEW n, CalFull(c, n)
  PROVE  /\ CalGood(Calendar!ResizeUp(c))
         /\ Calendar!Keys(Calendar!ResizeUp(c)) = Calendar!Keys(c)
         /\ Calendar!ResizeUp(c).lastPrio = c.lastPrio
<1>1. n \in Nat \ {0} /\ Calendar!NBuckets(c) = n
  BY CalFields DEF CalFull, CalOK
<1>2. PICK m \in Nat \ {0} : m = 2 * n
  BY <1>1
<1>3. Calendar!ResizeUp(c) = c \/ Calendar!ResizeUp(c) = Calendar!Resize(c, m)
  BY <1>1, <1>2 DEF Calendar!ResizeUp
<1> QED
  BY <1>3, ResizedIs

LEMMA ResizeDownIs ==
  ASSUME NEW c, NEW n, CalFull(c, n)
  PROVE  /\ CalGood(Calendar!ResizeDown(c))
         /\ Calendar!Keys(Calendar!ResizeDown(c)) = Calendar!Keys(c)
         /\ Calendar!ResizeDown(c).lastPrio = c.lastPrio
<1>1. n \in Nat \ {0} /\ Calendar!NBuckets(c) = n /\ c.qSize \in Nat
  BY CalFields DEF CalFull, CalOK
<1>2. PICK m \in Nat : m = n \div 2
  BY <1>1
<1>3. CASE c.qSize < m
  <2>1. Calendar!ResizeDown(c) = Calendar!Resize(c, m) /\ m \in Nat \ {0}
    BY <1>1, <1>2, <1>3 DEF Calendar!ResizeDown
  <2> QED
    BY <2>1, ResizedIs
<1>4. CASE ~(c.qSize < m)
  <2>1. Calendar!ResizeDown(c) = c
    BY <1>1, <1>2, <1>4 DEF Calendar!ResizeDown
  <2> QED
    BY <1>1, <2>1 DEF CalGood
<1> QED
  BY <1>3, <1>4

LEMMA CalendarEmptyIs ==
  /\ CalGood(Calendar!EmptyCalendar)
  /\ Calendar!Keys(Calendar!EmptyCalendar) = {}
  /\ Calendar!EmptyCalendar.lastPrio = 0
<1>1. PICK c : c = Calendar!NewCalendar(2, 1, 0, 0)
  OBVIOUS
<1>2. CalOK(c, 2) /\ Calendar!Keys(c) = {} /\ c.lastPrio = 0 /\ c.qSize = 0
  BY <1>1, NewCalendarIs
<1>3. CalFull(c, 2)
  BY <1>2, FS_EmptySet DEF CalFull
<1> QED
  BY <1>1, <1>2, <1>3 DEF CalGood, Calendar!EmptyCalendar

\* Insert of the calendar adds the event.
LEMMA CalendarInsertIs ==
  ASSUME NEW c, CalGood(c), NEW ev \in Key, ev \notin Calendar!Keys(c),
         ev.ts >= c.lastPrio
  PROVE  /\ CalGood(Calendar!Insert(c, ev))
         /\ Calendar!Keys(Calendar!Insert(c, ev)) = Calendar!Keys(c) \cup {ev}
         /\ Calendar!Insert(c, ev).lastPrio = c.lastPrio
<1>1. PICK n \in Nat : CalFull(c, n)
  BY DEF CalGood
<1>2. PICK d : d = Calendar!DoInsert(c, ev)
  OBVIOUS
<1>3. /\ CalOK(d, n) /\ Calendar!Keys(d) = Calendar!Keys(c) \cup {ev}
      /\ d.lastPrio = c.lastPrio /\ d.qSize = c.qSize
  BY <1>1, <1>2, DoInsertIs DEF CalFull
<1>4. PICK q \in Nat : q = d.qSize + 1
  BY <1>3, CalFields DEF CalOK
<1>5. PICK e : e = [d EXCEPT !.qSize = q]
  OBVIOUS
<1>6. CalOK(e, n) /\ Calendar!Keys(e) = Calendar!Keys(d) /\ e.qSize = q
      /\ e.lastPrio = d.lastPrio
  BY <1>3, <1>5, SizeSet
<1>7. CalFull(e, n)
  <2>1. PICK keys : keys = Calendar!Keys(c)
    OBVIOUS
  <2>2. IsFiniteSet(keys) /\ c.qSize = Cardinality(keys) /\ ev \notin keys
    BY <1>1, <2>1 DEF CalFull
  <2>3. /\ IsFiniteSet(keys \cup {ev})
        /\ Cardinality(keys \cup {ev}) = Cardinality(keys) + 1
    BY <2>2, FS_AddElement
  <2> QED
    BY <1>3, <1>4, <1>6, <2>1, <2>2, <2>3 DEF CalFull
<1>8. Calendar!Insert(c, ev) = Calendar!ResizeUp(e)
  BY <1>2, <1>4, <1>5 DEF Calendar!Insert
<1> QED
  BY <1>3, <1>6, <1>7, <1>8, ResizeUpIs

\* One event less.
LEMMA SmallerIs ==
  ASSUME NEW c, NEW n, CalFull(c, n), NEW ev \in Calendar!Keys(c),
         NEW d, CalOK(d, n), Calendar!Keys(d) = Calendar!Keys(c) \ {ev},
         d.qSize = c.qSize, NEW e, e = [d EXCEPT !.qSize = d.qSize - 1]
  PROVE  CalFull(e, n) /\ Calendar!Keys(e) = Calendar!Keys(c) \ {ev}
         /\ e.lastPrio = d.lastPrio
<1>1. PICK keys : keys = Calendar!Keys(c)
  OBVIOUS
<1>2. IsFiniteSet(keys) /\ c.qSize = Cardinality(keys) /\ ev \in keys
  BY <1>1 DEF CalFull
<1>3. /\ IsFiniteSet(keys \ {ev})
      /\ Cardinality(keys \ {ev}) = Cardinality(keys) - 1
  BY <1>2, FS_RemoveElement
<1>4. PICK q \in Nat : q = Cardinality(keys \ {ev})
  BY <1>3, FS_CardinalityType
<1>5. d.qSize - 1 = q
  BY <1>2, <1>3, <1>4
<1>6. PICK x : x = [d EXCEPT !.qSize = q]
  OBVIOUS
<1>7. CalOK(x, n) /\ Calendar!Keys(x) = Calendar!Keys(d) /\ x.qSize = q
      /\ x.lastPrio = d.lastPrio
  BY <1>6, SizeSet
<1>8. e = x
  BY <1>5, <1>6
<1> QED
  BY <1>1, <1>3, <1>4, <1>7, <1>8 DEF CalFull

\* RemoveNext of the calendar takes the earliest event.
LEMMA CalendarRemoveNextIs ==
  ASSUME NEW c, CalGood(c), Calendar!Keys(c) # {},
         NEW r, r = Calendar!RemoveNext(c)
  PROVE  /\ r.event \in Calendar!Keys(c) /\ IsEarliest(r.event, Calendar!Keys(c))
         /\ r.event = Calendar!PeekNext(c)
         /\ CalGood(r.list)
         /\ Calendar!Keys(r.list) = Calendar!Keys(c) \ {r.event}
         /\ r.list.lastPrio = r.event.ts
<1>1. PICK n \in Nat : CalFull(c, n)
  BY DEF CalGood
<1>2. PICK s : s = Calendar!DoRemoveNext(c)
  OBVIOUS
<1>3. /\ s.event \in Calendar!Keys(c) /\ IsEarliest(s.event, Calendar!Keys(c))
      /\ s.event = Calendar!PeekNext(c)
      /\ CalOK(s.list, n)
      /\ Calendar!Keys(s.list) = Calendar!Keys(c) \ {s.event}
      /\ s.list.lastPrio = s.event.ts /\ s.list.qSize = c.qSize
  BY <1>1, <1>2, DoRemoveNextIs DEF CalFull
<1>4. PICK d : d = s.list
  OBVIOUS
<1>5. PICK e : e = [d EXCEPT !.qSize = d.qSize - 1]
  OBVIOUS
<1>6. CalFull(e, n) /\ Calendar!Keys(e) = Calendar!Keys(c) \ {s.event}
      /\ e.lastPrio = d.lastPrio
  BY <1>1, <1>3, <1>4, <1>5, SmallerIs
<1>7. r = [event |-> s.event, list |-> Calendar!ResizeDown(e)]
  BY <1>2, <1>4, <1>5 DEF Calendar!RemoveNext
<1>8. /\ CalGood(Calendar!ResizeDown(e))
      /\ Calendar!Keys(Calendar!ResizeDown(e)) = Calendar!Keys(e)
      /\ Calendar!ResizeDown(e).lastPrio = e.lastPrio
  BY <1>6, ResizeDownIs
<1> QED
  BY <1>3, <1>4, <1>6, <1>7, <1>8

\* Remove of the calendar finds the event in its bucket.
LEMMA CalendarRemoveIs ==
  ASSUME NEW c, CalGood(c), Distinct(Calendar!Keys(c)), NEW ev \in Calendar!Keys(c)
  PROVE  /\ CalGood(Calendar!RemoveEvent(c, ev))
         /\ Calendar!Keys(Calendar!RemoveEvent(c, ev)) = Calendar!Keys(c) \ {ev}
         /\ Calendar!RemoveEvent(c, ev).lastPrio = c.lastPrio
<1>1. PICK n \in Nat : CalFull(c, n)
  BY DEF CalGood
<1>2. CalOK(c, n) /\ CalTyped(c, n)
  BY <1>1 DEF CalFull, CalOK
<1>3. ev \in Key /\ ev.ts \in Nat
  BY <1>2, KeyHome
<1>4. PICK b \in 0 .. n - 1 :
        b = Calendar!Hash(c, ev.ts) /\ ev \in Elems(c.buckets[b])
  BY <1>2, <1>3, KeyHome, HomeOf
<1>5. PICK s \in Seq(Key) : s = c.buckets[b]
  BY <1>2, CalFields
<1>6. Sorted(s) /\ \A e \in Elems(s) : FiledIn(c, n, b, e)
  BY <1>2, <1>5 DEF CalOK, Filing
<1>7. PICK i : i = CHOOSE j \in DOMAIN s : s[j].uid = ev.uid
  OBVIOUS
<1>8. DOMAIN s = 1 .. Len(s)
  BY ElemsOf
<1>9. i \in 1 .. Len(s) /\ s[i] = ev
  <2>1. \E j \in DOMAIN s : s[j].uid = ev.uid
    BY <1>4, <1>5 DEF Elems
  <2>2. i \in DOMAIN s /\ s[i].uid = ev.uid
    BY <1>7, <2>1
  <2>3. s[i] \in Calendar!Keys(c)
    <3>1. s[i] \in Elems(s)
      BY <2>2 DEF Elems
    <3>2. Elems(s) \subseteq Calendar!Keys(c)
      BY <1>2, <1>5, CalKeys
    <3> QED
      BY <3>1, <3>2
  <2> QED
    BY <1>8, <2>2, <2>3 DEF Distinct
<1>10. PICK t \in Seq(Key) : /\ t = Without(s, i) /\ Sorted(t)
                             /\ Elems(t) = Elems(s) \ {ev}
  <2>1. PICK t : t = Without(s, i)
    OBVIOUS
  <2>2. t \in Seq(Key) /\ Sorted(t) /\ Elems(t) = Elems(s) \ {s[i]}
    BY <1>6, <1>9, <2>1, SortedWithout
  <2> QED
    BY <1>9, <2>1, <2>2
<1>11. PICK d : d = [c EXCEPT !.buckets[b] = t]
  OBVIOUS
<1>12. /\ CalOK(d, n)
       /\ Calendar!Keys(d) = (Calendar!Keys(c) \ Elems(s)) \cup Elems(t)
  <2>1. \A e \in Elems(t) : FiledIn(c, n, b, e)
    BY <1>6, <1>10
  <2>2. CalOK(c, n) /\ Sorted(t)
    BY <1>2, <1>10
  <2>3. /\ CalOK(d, n)
        /\ Calendar!Keys(d)
             = (Calendar!Keys(c) \ Elems(c.buckets[b])) \cup Elems(t)
    BY <1>11, <2>1, <2>2, BucketSet
  <2> QED
    BY <1>5, <2>3
<1>13. Calendar!Keys(d) = Calendar!Keys(c) \ {ev}
  <2>1. Elems(s) \subseteq Calendar!Keys(c) /\ ev \in Elems(s)
    BY <1>2, <1>4, <1>5, CalKeys
  <2> QED
    BY <1>10, <1>12, <2>1
<1>14. d.qSize = c.qSize /\ d.lastPrio = c.lastPrio
  BY <1>2, <1>11 DEF CalTyped
<1>15. PICK e : e = [d EXCEPT !.qSize = d.qSize - 1]
  OBVIOUS
<1>16. CalFull(e, n) /\ Calendar!Keys(e) = Calendar!Keys(c) \ {ev}
       /\ e.lastPrio = d.lastPrio
  BY <1>1, <1>12, <1>13, <1>14, <1>15, SmallerIs
<1>17. Calendar!RemoveEvent(c, ev) = Calendar!ResizeDown(e)
  <2>1. Calendar!RemoveAt(s, i) = t
    BY <1>10 DEF Calendar!RemoveAt, Without
  <2>2. e = [c EXCEPT !.buckets[b] = t, !.qSize = c.qSize - 1]
    BY <1>2, <1>11, <1>14, <1>15 DEF CalTyped
  <2>3. e = [c EXCEPT !.buckets[b] = Calendar!RemoveAt(c.buckets[b], i),
                      !.qSize = c.qSize - 1]
    BY <1>5, <2>1, <2>2
  <2>4. i = CHOOSE j \in DOMAIN c.buckets[b] : c.buckets[b][j].uid = ev.uid
    BY <1>5, <1>7
  <2> QED
    BY <1>4, <2>3, <2>4 DEF Calendar!RemoveEvent
<1> QED
  BY <1>14, <1>16, <1>17, ResizeDownIs

-----------------------------------------------------------------------------
(* The heap.  No event precedes its parent ...                             *)

Ordered(h) == \A i \in 2 .. Len(h) : ~KeyLess(h[i], h[i \div 2])

\* ... apart from the event that is percolated up or down: it alone may precede
\* its parent, ...
RisesIn(h, index) ==
  /\ \A i \in 2 .. Len(h) : i # index => ~KeyLess(h[i], h[i \div 2])
  /\ \A i \in 2 .. Len(h) :
       i \div 2 = index /\ index >= 2 => ~KeyLess(h[i], h[index \div 2])
Risen(h, index) == index = 1 \/ ~KeyLess(h[index], h[index \div 2])

\* ... or its children alone may precede it.
SinksIn(h, index) ==
  /\ \A i \in 2 .. Len(h) : i \div 2 # index => ~KeyLess(h[i], h[i \div 2])
  /\ \A i \in 2 .. Len(h) :
       i \div 2 = index /\ index >= 2 => ~KeyLess(h[i], h[index \div 2])
Sunk(h, index) ==
  \A i \in 2 .. Len(h) : i \div 2 = index => ~KeyLess(h[i], h[index])

\* The sequences of n different events, those of S.
Once(h) == \A i, j \in 1 .. Len(h) : h[i] = h[j] => i = j
HeapsOf(n, S) == {h \in Seq(Key) : Len(h) = n /\ Once(h) /\ Elems(h) = S}

LEMMA NotLessTrans ==
  ASSUME NEW a \in Key, NEW b \in Key, NEW c \in Key,
         ~KeyLess(a, b), ~KeyLess(b, c)
  PROVE  ~KeyLess(a, c)
BY DEF KeyLess, Key

LEMMA SameOrder ==
  ASSUME NEW h, NEW a, NEW b
  PROVE  Heap!IsLessStrictly(h, a, b) = KeyLess(h[a], h[b])
BY DEF Heap!IsLessStrictly, Heap!KeyLess, KeyLess

\* The places of the parent and of the children.
LEMMA ParentOf ==
  ASSUME NEW n \in Nat, NEW i \in 2 .. n
  PROVE  i \div 2 \in 1 .. n /\ i \div 2 < i
OBVIOUS

\* The root of a heap in order is its earliest event.
LEMMA RootIsEarliest ==
  ASSUME NEW h \in Seq(Key), Ordered(h), Len(h) >= 1
  PROVE  h[1] \in Elems(h) /\ IsEarliest(h[1], Elems(h))
<1>1. PICK n \in Nat : n = Len(h) /\ \A i \in 1 .. n : h[i] \in Key
  BY LenProperties, ElementOfSeq
<1>2. 1 \in 1 .. n /\ h[1] \in Key
  BY <1>1
<1>3. ASSUME NEW i \in 1 .. n PROVE ~KeyLess(h[i], h[1])
  <2>1. PICK T : T = {j \in 1 .. n : KeyLess(h[j], h[1])}
    OBVIOUS
  <2>2. ASSUME T # {} PROVE FALSE
    <3>1. T \in SUBSET Nat
      BY <2>1
    <3>2. PICK j \in T : \A k \in T : j <= k
      BY <2>2, <3>1, NatMin
    <3>3. j \in 1 .. n /\ KeyLess(h[j], h[1])
      BY <2>1, <3>2
    <3>4. j \in 2 .. n
      BY <1>2, <3>3, LessNot
    <3>5. PICK p : p = j \div 2
      OBVIOUS
    <3>6. p \in 1 .. n /\ p < j /\ ~KeyLess(h[j], h[p])
      BY <1>1, <3>4, <3>5, ParentOf DEF Ordered
    <3>7. ~KeyLess(h[p], h[1])
      BY <2>1, <3>2, <3>6
    <3> QED
      BY <1>1, <1>2, <3>3, <3>6, <3>7, NotLessTrans
  <2> QED
    BY <2>1, <2>2
<1>4. Elems(h) = {h[i] : i \in 1 .. n}
  BY <1>1, ElemsOf
<1>5. ASSUME NEW f \in Elems(h) PROVE f = h[1] \/ KeyLess(h[1], f)
  <2>1. PICK i \in 1 .. n : f = h[i]
    BY <1>4
  <2> QED
    BY <1>1, <1>2, <1>3, <2>1, LessTotal
<1> QED
  BY <1>2, <1>4, <1>5 DEF IsEarliest

\* Where the event at place i of the exchanged heap was before.
Swapped(a, b, i) == IF i = b THEN a ELSE IF i = a THEN b ELSE i

\* Exch permutes the heap.
LEMMA ExchIs ==
  ASSUME NEW n \in Nat, NEW S, NEW h \in HeapsOf(n, S),
         NEW a \in 1 .. n, NEW b \in 1 .. n, NEW g, g = Heap!Exch(h, a, b)
  PROVE  /\ g \in HeapsOf(n, S)
         /\ \A i \in 1 .. n : g[i] = h[Swapped(a, b, i)]
<1>1. /\ h \in Seq(Key) /\ Len(h) = n /\ Once(h) /\ Elems(h) = S
      /\ DOMAIN h = 1 .. n
  BY ElemsOf DEF HeapsOf
<1>2. h[a] \in Key /\ h[b] \in Key
  BY <1>1, ElementOfSeq
<1>3. PICK d : d = [h EXCEPT ![a] = h[b]]
  OBVIOUS
<1>4. /\ d \in Seq(Key) /\ Len(d) = n
      /\ \A i \in 1 .. n : d[i] = IF i = a THEN h[b] ELSE h[i]
  BY <1>1, <1>2, <1>3, ExceptSeq
<1>5. g = [d EXCEPT ![b] = h[a]]
  BY <1>3 DEF Heap!Exch
<1>6. /\ g \in Seq(Key) /\ Len(g) = n
      /\ \A i \in 1 .. n : g[i] = IF i = b THEN h[a] ELSE d[i]
  BY <1>2, <1>4, <1>5, ExceptSeq
<1>7. \A i \in 1 .. n : g[i] = h[Swapped(a, b, i)]
  BY <1>4, <1>6 DEF Swapped
<1>8. \A i \in 1 .. n :
        Swapped(a, b, i) \in 1 .. n /\ Swapped(a, b, Swapped(a, b, i)) = i
  BY DEF Swapped
<1>9. Once(g)
  <2>1. ASSUME NEW i \in 1 .. n, NEW j \in 1 .. n, g[i] = g[j] PROVE i = j
    <3>1. Swapped(a, b, i) = Swapped(a, b, j)
      BY <1>1, <1>7, <1>8, <2>1 DEF Once
    <3> QED
      BY <1>8, <3>1
  <2> QED
    BY <1>6, <2>1 DEF Once
<1>10. Elems(g) = Elems(h)
  <2>1. Elems(g) = {g[i] : i \in 1 .. n} /\ Elems(h) = {h[i] : i \in 1 .. n}
    BY <1>1, <1>6, ElemsOf
  <2>2. \A i \in 1 .. n : g[i] \in Elems(h)
    BY <1>7, <1>8, <2>1
  <2>3. ASSUME NEW i \in 1 .. n PROVE h[i] \in Elems(g)
    <3>1. h[i] = g[Swapped(a, b, i)]
      BY <1>7, <1>8
    <3> QED
      BY <1>8, <2>1, <3>1
  <2> QED
    BY <2>1, <2>2, <2>3
<1> QED
  BY <1>1, <1>6, <1>7, <1>9, <1>10 DEF HeapsOf

\* The states of BottomUp on n events, when `ord' says that the heap is in order;
\* a round that does not end it brings the index below m.
Rising(n, S, ord, m) ==
  {s \in [heap : HeapsOf(n, S), index : 1 .. n] :
     ord => /\ RisesIn(s.heap, s.index)
            /\ Risen(s.heap, s.index) \/ s.index <= m}

\* A round of BottomUp, when the event precedes its parent.
LEMMA RisenStep ==
  ASSUME NEW n \in Nat, NEW S, NEW h \in HeapsOf(n, S), NEW x \in 2 .. n,
         RisesIn(h, x), KeyLess(h[x], h[x \div 2]),
         NEW g, g = Heap!Exch(h, x, x \div 2)
  PROVE  RisesIn(g, x \div 2)
<1>1. PICK p : p = x \div 2
  OBVIOUS
<1>2. p \in 1 .. n /\ p < x
  BY <1>1, ParentOf
<1>3. Len(h) = n /\ \A i \in 1 .. n : h[i] \in Key
  BY ElementOfSeq DEF HeapsOf
<1>4. /\ g \in HeapsOf(n, S)
      /\ \A i \in 1 .. n : g[i] = h[Swapped(x, p, i)]
  <2>1. g = Heap!Exch(h, x, p) /\ x \in 1 .. n
    BY <1>1
  <2> QED
    BY <1>2, <2>1, ExchIs
<1>5. /\ Len(g) = n /\ g[p] = h[x] /\ g[x] = h[p]
      /\ \A i \in 1 .. n : i # p /\ i # x => g[i] = h[i]
  BY <1>2, <1>4 DEF HeapsOf, Swapped
<1>6. /\ \A i \in 2 .. n : i # x => ~KeyLess(h[i], h[i \div 2])
      /\ \A i \in 2 .. n : i \div 2 = x => ~KeyLess(h[i], h[p])
      /\ KeyLess(h[x], h[p])
  BY <1>1, <1>3 DEF RisesIn
<1>7. ASSUME NEW i \in 2 .. n, i # p PROVE ~KeyLess(g[i], g[i \div 2])
  <2>1. PICK q : q = i \div 2
    OBVIOUS
  <2>2. q \in 1 .. n /\ q < i
    BY <2>1, ParentOf
  <2>3. CASE i = x
    BY <1>1, <1>2, <1>3, <1>5, <1>6, <2>1, <2>3, LessNot
  <2>4. CASE i # x /\ q = p
    <3>1. ~KeyLess(h[i], h[p]) /\ g[i] = h[i] /\ g[q] = h[x]
      BY <1>5, <1>6, <1>7, <2>1, <2>4
    <3> QED
      BY <1>2, <1>3, <1>6, <2>1, <3>1, LessTrans
  <2>5. CASE i # x /\ q = x
    BY <1>5, <1>6, <1>7, <2>1, <2>5
  <2>6. CASE i # x /\ q # p /\ q # x
    BY <1>5, <1>6, <1>7, <2>1, <2>2, <2>6
  <2> QED
    BY <2>3, <2>4, <2>5, <2>6
<1>8. ASSUME NEW i \in 2 .. n, i \div 2 = p, p >= 2
      PROVE  ~KeyLess(g[i], g[p \div 2])
  <2>1. PICK q : q = p \div 2
    OBVIOUS
  <2>2. q \in 1 .. n /\ q < p
    <3>1. p \in 2 .. n
      BY <1>2, <1>8
    <3> QED
      BY <2>1, <3>1, ParentOf
  <2>3. g[q] = h[q] /\ ~KeyLess(h[p], h[q])
    BY <1>2, <1>5, <1>6, <1>8, <2>1, <2>2
  <2>4. CASE i = x
    BY <1>5, <2>1, <2>3, <2>4
  <2>5. CASE i # x
    <3>1. i # p /\ g[i] = h[i] /\ ~KeyLess(h[i], h[p])
      <4>1. i \div 2 < i
        BY ParentOf
      <4> QED
        BY <1>5, <1>6, <1>8, <2>5, <4>1
    <3> QED
      BY <1>2, <1>3, <2>1, <2>2, <2>3, <3>1, NotLessTrans
  <2> QED
    BY <2>4, <2>5
<1> QED
  BY <1>1, <1>5, <1>7, <1>8 DEF RisesIn

\* A round of BottomUp.
LEMMA RiseIs ==
  ASSUME NEW n \in Nat, NEW S, NEW ord \in BOOLEAN, NEW m \in Int,
         NEW s \in Rising(n, S, ord, m)
  PROVE  Heap!Rise(s) \in Rising(n, S, ord, m - 1)
<1>1. PICK h \in HeapsOf(n, S) : h = s.heap
  BY DEF Rising
<1>2. PICK x \in 1 .. n : x = s.index
  BY DEF Rising
<1>3. ord => RisesIn(h, x) /\ (Risen(h, x) \/ x <= m)
  BY <1>1, <1>2 DEF Rising
<1>4. CASE x = 1 \/ ~KeyLess(h[x], h[x \div 2])
  <2>1. Heap!Rise(s) = s
    BY <1>1, <1>2, <1>4, SameOrder DEF Heap!Rise, Heap!Parent
  <2> QED
    BY <1>1, <1>2, <1>4, <2>1 DEF Rising, Risen
<1>5. CASE x # 1 /\ KeyLess(h[x], h[x \div 2])
  <2>1. x \in 2 .. n
    BY <1>5
  <2>2. PICK p : p = x \div 2
    OBVIOUS
  <2>3. p \in 1 .. n /\ p < x
    BY <2>1, <2>2, ParentOf
  <2>4. PICK g : g = Heap!Exch(h, x, p)
    OBVIOUS
  <2>5. g \in HeapsOf(n, S)
    BY <2>3, <2>4, ExchIs
  <2>6. Heap!Rise(s) = [heap |-> g, index |-> p]
    BY <1>1, <1>2, <1>5, <2>2, <2>4, SameOrder DEF Heap!Rise, Heap!Parent
  <2>7. ASSUME ord PROVE RisesIn(g, p) /\ p <= m - 1
    <3>1. RisesIn(g, p)
      BY <1>3, <1>5, <2>1, <2>2, <2>4, <2>7, RisenStep
    <3>2. ~Risen(h, x)
      BY <1>5 DEF Risen
    <3> QED
      BY <1>3, <2>3, <2>7, <3>1, <3>2
  <2> QED
    BY <2>3, <2>5, <2>6, <2>7 DEF Rising
<1> QED
  BY <1>4, <1>5

\* BottomUp ends with the heap in order.
LEMMA BottomUpIs ==
  ASSUME NEW n \in Nat, NEW S, NEW ord \in BOOLEAN, NEW h \in HeapsOf(n, S),
         NEW x \in 1 .. n, ord => RisesIn(h, x)
  PROVE  /\ Heap!BottomUp(h, x) \in HeapsOf(n, S)
         /\ ord => Ordered(Heap!BottomUp(h, x))
<1>1. PICK s0 : s0 = [heap |-> h, index |-> x]
  OBVIOUS
<1>2. PICK In : In = [k \in 0 .. x |-> Rising(n, S, ord, x - k)]
  OBVIOUS
<1>3. PICK step : step = [k \in 1 .. x |-> [s \in In[k - 1] |-> Heap!Rise(s)]]
  OBVIOUS
<1>4. s0 \in In[0]
  <2>1. s0 \in Rising(n, S, ord, x - 0)
    BY <1>1 DEF Rising
  <2> QED
    BY <1>2, <2>1
<1>5. ASSUME NEW k \in 1 .. x, NEW s \in In[k - 1]
      PROVE  step[k][s] = Heap!Rise(s) /\ step[k][s] \in In[k]
  <2>1. s \in Rising(n, S, ord, x - (k - 1))
    BY <1>2
  <2>2. PICK m \in Int : m = x - (k - 1) /\ m - 1 = x - k
    OBVIOUS
  <2>3. Heap!Rise(s) \in Rising(n, S, ord, x - k)
    BY <2>1, <2>2, RiseIs
  <2>4. step[k][s] = Heap!Rise(s)
    BY <1>3
  <2> QED
    BY <1>2, <2>3, <2>4
<1>6. PICK f \in Runs(x, In, s0, step) : TRUE
  BY <1>4, <1>5, Loop
<1>7. /\ f = [k \in 0 .. x |-> f[k]] /\ f[0] = s0 /\ f[x] \in In[x]
      /\ \A k \in 1 .. x : f[k] = Heap!Rise(f[k - 1])
  <2>1. /\ f = [k \in 0 .. x |-> f[k]] /\ f[0] = s0 /\ f[x] \in In[x]
        /\ \A k \in 1 .. x : f[k] = step[k][f[k - 1]] /\ f[k - 1] \in In[k - 1]
    BY <1>6, RunsAre
  <2>2. ASSUME NEW k \in 1 .. x PROVE f[k] = Heap!Rise(f[k - 1])
    BY <1>5, <2>1
  <2> QED
    BY <2>1, <2>2
<1>8. f = [k \in 0 .. x |-> IF k = 0 THEN s0 ELSE Heap!Rise(f[k - 1])]
  <2>1. \A k \in 0 .. x : k = 0 \/ k \in 1 .. x
    OBVIOUS
  <2>2. \A k \in 0 .. x : f[k] = IF k = 0 THEN s0 ELSE Heap!Rise(f[k - 1])
    BY <1>7, <2>1
  <2> QED
    BY <1>7, <2>2
<1>9. PICK g : /\ g = [k \in 0 .. x |-> IF k = 0 THEN s0 ELSE Heap!Rise(g[k - 1])]
               /\ Heap!BottomUp(h, x) = g[x].heap
  BY <1>1, <1>8 DEF Heap!BottomUp
<1>10. g[x] = f[x]
  <2>1. g[0] = s0 /\ \A k \in 1 .. x : g[k] = Heap!Rise(g[k - 1])
    BY <1>9
  <2>2. g[0] = f[0] /\ \A k \in 1 .. x : g[k - 1] = f[k - 1] => g[k] = f[k]
    BY <1>7, <2>1
  <2> QED
    BY <2>2, SameRuns
<1>11. f[x] \in Rising(n, S, ord, 0)
  <2>1. In[x] = Rising(n, S, ord, x - x)
    BY <1>2
  <2> QED
    BY <1>7, <2>1
<1>12. PICK e \in HeapsOf(n, S) : e = f[x].heap
  BY <1>11 DEF Rising
<1>13. PICK y \in 1 .. n : y = f[x].index
  BY <1>11 DEF Rising
<1>14. ASSUME ord PROVE Ordered(e)
  <2>1. RisesIn(e, y) /\ Risen(e, y)
    BY <1>11, <1>12, <1>13, <1>14 DEF Rising
  <2> QED
    BY <2>1 DEF RisesIn, Risen, Ordered
<1> QED
  BY <1>9, <1>10, <1>12, <1>14

Longer(h, ev) == Append(h, ev)

LEMMA LongerIs ==
  ASSUME NEW n \in Nat, NEW S, NEW h \in HeapsOf(n, S), NEW ev \in Key, ev \notin S
  PROVE  /\ Longer(h, ev) \in HeapsOf(n + 1, S \cup {ev})
         /\ \A i \in 1 .. n : Longer(h, ev)[i] = h[i]
<1>0. PICK g : g = Longer(h, ev)
  OBVIOUS
<1>1. h \in Seq(Key) /\ Len(h) = n /\ Once(h) /\ Elems(h) = S
  BY DEF HeapsOf
<1>2. /\ g \in Seq(Key) /\ Len(g) = n + 1 /\ g[n + 1] = ev
      /\ \A i \in 1 .. n : g[i] = h[i]
  BY <1>0, <1>1, AppendProperties DEF Longer
<1>3. Elems(h) = {h[i] : i \in 1 .. n} /\ Elems(g) = {g[i] : i \in 1 .. n + 1}
  <2>1. Elems(h) = {h[i] : i \in 1 .. Len(h)}
    BY <1>1, ElemsOf
  <2>2. Elems(g) = {g[i] : i \in 1 .. Len(g)}
    BY <1>2, ElemsOf
  <2> QED
    BY <1>1, <1>2, <2>1, <2>2
<1>4. \A i \in 1 .. n : h[i] # ev
  BY <1>1, <1>3
<1>5. ASSUME NEW i \in 1 .. n + 1, NEW j \in 1 .. n + 1, g[i] = g[j] PROVE i = j
  <2>1. CASE i = n + 1 /\ j # n + 1
    BY <1>2, <1>4, <1>5, <2>1
  <2>2. CASE i # n + 1 /\ j = n + 1
    BY <1>2, <1>4, <1>5, <2>2
  <2>3. CASE i # n + 1 /\ j # n + 1
    BY <1>1, <1>2, <1>5, <2>3 DEF Once
  <2> QED
    BY <2>1, <2>2, <2>3
<1>6. Elems(g) = S \cup {ev}
  <2>1. \A i \in 1 .. n + 1 : i \in 1 .. n \/ i = n + 1
    OBVIOUS
  <2>2. n + 1 \in 1 .. n + 1 /\ \A i \in 1 .. n : i \in 1 .. n + 1
    OBVIOUS
  <2>3. ASSUME NEW e \in Elems(g) PROVE e \in S \cup {ev}
    <3>1. PICK i \in 1 .. n + 1 : e = g[i]
      BY <1>3
    <3> QED
      BY <1>1, <1>2, <1>3, <2>1, <3>1
  <2>4. ASSUME NEW e \in S PROVE e \in Elems(g)
    <3>1. PICK i \in 1 .. n : e = h[i]
      BY <1>1, <1>3
    <3> QED
      BY <1>2, <1>3, <2>2, <3>1
  <2>5. ev \in Elems(g)
    BY <1>2, <1>3, <2>2
  <2> QED
    BY <2>3, <2>4, <2>5
<1> QED
  BY <1>0, <1>2, <1>5, <1>6 DEF HeapsOf, Once

\* Insert adds the event, and keeps the order.
LEMMA HeapInsertIs ==
  ASSUME NEW n \in Nat, NEW S, NEW ord \in BOOLEAN, NEW h \in HeapsOf(n, S),
         ord => Ordered(h), NEW ev \in Key, ev \notin S
  PROVE  /\ Heap!Insert(h, ev) \in HeapsOf(n + 1, S \cup {ev})
         /\ ord => Ordered(Heap!Insert(h, ev))
<1>1. PICK g : g = Longer(h, ev)
  OBVIOUS
<1>2. /\ g \in HeapsOf(n + 1, S \cup {ev})
      /\ \A i \in 1 .. n : g[i] = h[i]
  BY <1>1, LongerIs
<1>3. Len(h) = n /\ Len(g) = n + 1
  BY <1>2 DEF HeapsOf
<1>4. ASSUME ord PROVE RisesIn(g, n + 1)
  <2>1. ASSUME NEW i \in 2 .. n + 1, i # n + 1
        PROVE  ~KeyLess(g[i], g[i \div 2])
    <3>1. i \in 2 .. n /\ i \div 2 \in 1 .. n
      BY <2>1
    <3>2. g[i] = h[i] /\ g[i \div 2] = h[i \div 2]
      BY <1>2, <3>1
    <3> QED
      BY <1>3, <1>4, <3>1, <3>2 DEF Ordered
  <2>2. \A i \in 2 .. n + 1 : i \div 2 # n + 1
    OBVIOUS
  <2> QED
    BY <1>3, <2>1, <2>2 DEF RisesIn
<1>5. /\ Heap!BottomUp(g, n + 1) \in HeapsOf(n + 1, S \cup {ev})
      /\ ord => Ordered(Heap!BottomUp(g, n + 1))
  <2>1. n + 1 \in Nat /\ n + 1 \in 1 .. n + 1
    OBVIOUS
  <2> QED
    BY <1>2, <1>4, <2>1, BottomUpIs
<1> QED
  BY <1>1, <1>3, <1>5 DEF Heap!Insert, Longer

\* The states of TopDown on n events; a round that does not end it brings the
\* index to m.
Sinking(n, S, ord, m) ==
  {s \in [heap : HeapsOf(n, S), index : 1 .. n + 1] :
     ord => /\ SinksIn(s.heap, s.index)
            /\ Sunk(s.heap, s.index) \/ s.index >= m}

\* The children of a place.
LEMMA ChildrenOf ==
  ASSUME NEW n \in Nat, NEW x \in 1 .. n + 1
  PROVE  \A i \in 2 .. n : i \div 2 = x <=> i = 2 * x \/ i = 2 * x + 1
OBVIOUS

\* A round of TopDown, when a child precedes the event.
LEMMA SunkStep ==
  ASSUME NEW n \in Nat, NEW S, NEW h \in HeapsOf(n, S), NEW x \in 1 .. n,
         SinksIn(h, x), NEW c \in 2 .. n, c \div 2 = x, ~KeyLess(h[x], h[c]),
         \A i \in 2 .. n : i \div 2 = x => ~KeyLess(h[i], h[c]),
         NEW g, g = Heap!Exch(h, x, c)
  PROVE  SinksIn(g, c)
<1>1. c > x
  BY ParentOf
<1>2. Len(h) = n /\ \A i \in 1 .. n : h[i] \in Key
  BY ElementOfSeq DEF HeapsOf
<1>3. /\ g \in HeapsOf(n, S)
      /\ \A i \in 1 .. n : g[i] = h[Swapped(x, c, i)]
  BY ExchIs
<1>4. /\ Len(g) = n /\ g[x] = h[c] /\ g[c] = h[x]
      /\ \A i \in 1 .. n : i # x /\ i # c => g[i] = h[i]
  BY <1>1, <1>3 DEF HeapsOf, Swapped
<1>5. /\ \A i \in 2 .. n : i \div 2 # x => ~KeyLess(h[i], h[i \div 2])
      /\ x >= 2 => ~KeyLess(h[c], h[x \div 2])
  BY <1>2 DEF SinksIn
<1>6. ASSUME NEW i \in 2 .. n, i \div 2 # c PROVE ~KeyLess(g[i], g[i \div 2])
  <2>1. PICK q : q = i \div 2
    OBVIOUS
  <2>2. q \in 1 .. n /\ q < i /\ q # c
    BY <1>6, <2>1, ParentOf
  <2>3. CASE i = c
    BY <1>4, <2>1, <2>3
  <2>4. CASE i # c /\ q = x
    <3>1. ~KeyLess(h[i], h[c]) /\ i # x
      BY <2>1, <2>2, <2>4
    <3>2. g[i] = h[i] /\ g[q] = h[c]
      BY <1>4, <2>4, <3>1
    <3> QED
      BY <2>1, <3>1, <3>2
  <2>5. CASE i = x
    <3>1. g[i] = h[c] /\ g[q] = h[q] /\ ~KeyLess(h[c], h[q])
      BY <1>4, <1>5, <2>1, <2>2, <2>5
    <3> QED
      BY <2>1, <3>1
  <2>6. CASE i # c /\ i # x /\ q # x
    <3>1. g[i] = h[i] /\ g[q] = h[q]
      BY <1>4, <2>2, <2>6
    <3>2. ~KeyLess(h[i], h[q])
      BY <1>5, <2>1, <2>6
    <3> QED
      BY <2>1, <3>1, <3>2
  <2> QED
    BY <2>3, <2>4, <2>5, <2>6
<1>7. ASSUME NEW i \in 2 .. n, i \div 2 = c PROVE ~KeyLess(g[i], g[c \div 2])
  <2>1. i # c /\ i # x /\ c # x
    <3>1. i \div 2 < i
      BY ParentOf
    <3> QED
      BY <1>1, <1>7, <3>1
  <2>2. ~KeyLess(h[i], h[c]) /\ g[i] = h[i] /\ g[x] = h[c]
    BY <1>4, <1>5, <1>7, <2>1
  <2> QED
    BY <2>2
<1> QED
  BY <1>4, <1>6, <1>7 DEF SinksIn

\* A round of TopDown.
LEMMA SinkIs ==
  ASSUME NEW n \in Nat, NEW S, NEW ord \in BOOLEAN, NEW m \in Int,
         NEW s \in Sinking(n, S, ord, m)
  PROVE  Heap!Sink(s) \in Sinking(n, S, ord, m + 1)
<1>1. PICK h \in HeapsOf(n, S) : h = s.heap
  BY DEF Sinking
<1>2. PICK x \in 1 .. n + 1 : x = s.index
  BY DEF Sinking
<1>3. ord => SinksIn(h, x) /\ (Sunk(h, x) \/ x >= m)
  BY <1>1, <1>2 DEF Sinking
<1>4. Len(h) = n /\ \A i \in 1 .. n : h[i] \in Key
  BY ElementOfSeq DEF HeapsOf
<1>5. ASSUME Heap!Sink(s) = s, Sunk(h, x)
      PROVE  Heap!Sink(s) \in Sinking(n, S, ord, m + 1)
  BY <1>1, <1>2, <1>5 DEF Sinking
<1>6. CASE 2 * x > n
  <2>1. Heap!Sink(s) = s
    BY <1>1, <1>2, <1>4, <1>6 DEF Heap!Sink, Heap!IsBottom, Heap!LeftChild
  <2>2. Sunk(h, x)
    BY <1>4, <1>6, ChildrenOf DEF Sunk
  <2> QED
    BY <1>5, <2>1, <2>2
<1>7. CASE 2 * x <= n
  <2>1. PICK c : c = IF 2 * x + 1 > n \/ KeyLess(h[2 * x], h[2 * x + 1])
                     THEN 2 * x ELSE 2 * x + 1
    OBVIOUS
  <2>2. x \in 1 .. n /\ c \in 2 .. n /\ c \div 2 = x
    BY <1>7, <2>1
  <2>3. ASSUME NEW i \in 2 .. n, i \div 2 = x PROVE ~KeyLess(h[i], h[c])
    <3>1. i = 2 * x \/ i = 2 * x + 1
      BY <2>3, ChildrenOf
    <3>2. h[i] \in Key /\ h[c] \in Key
      BY <1>4, <2>2
    <3>3. CASE i = c
      BY <3>2, <3>3 DEF KeyLess, Key
    <3>4. CASE i # c /\ i = 2 * x
      BY <2>1, <3>4
    <3>5. CASE i # c /\ i = 2 * x + 1
      BY <2>1, <3>2, <3>5, LessNot
    <3> QED
      BY <3>1, <3>3, <3>4, <3>5
  <2>4. Heap!Sink(s) = IF KeyLess(h[x], h[c]) THEN s
                       ELSE [heap |-> Heap!Exch(h, x, c), index |-> c]
    <3>1. PICK l : l = 2 * x
      OBVIOUS
    <3>2. PICK t : t = IF Heap!IsBottom(h, l + 1) THEN l
                       ELSE Heap!Smallest(h, l, l + 1)
      OBVIOUS
    <3>3. t = c
      BY <1>4, <2>1, <3>1, <3>2, SameOrder DEF Heap!IsBottom, Heap!Smallest
    <3>4. ~Heap!IsBottom(h, l)
      BY <1>4, <1>7, <3>1 DEF Heap!IsBottom
    <3>5. Heap!Sink(s) = IF Heap!IsBottom(h, l) \/ Heap!IsLessStrictly(h, x, t)
                         THEN s
                         ELSE [heap |-> Heap!Exch(h, x, t), index |-> t]
      BY <1>1, <1>2, <3>1, <3>2 DEF Heap!Sink, Heap!LeftChild, Heap!RightChild
    <3> QED
      BY <3>3, <3>4, <3>5, SameOrder
  <2>5. CASE KeyLess(h[x], h[c])
    <3>1. Heap!Sink(s) = s
      BY <2>4, <2>5
    <3>2. ASSUME NEW i \in 2 .. n, i \div 2 = x PROVE ~KeyLess(h[i], h[x])
      <4>1. h[i] \in Key /\ h[c] \in Key /\ h[x] \in Key /\ ~KeyLess(h[i], h[c])
        BY <1>4, <2>2, <2>3, <3>2
      <4> QED
        BY <2>5, <4>1, LessTrans
    <3> QED
      BY <1>4, <1>5, <3>1, <3>2 DEF Sunk
  <2>6. CASE ~KeyLess(h[x], h[c])
    <3>1. PICK g : g = Heap!Exch(h, x, c)
      OBVIOUS
    <3>2. g \in HeapsOf(n, S)
      BY <2>2, <3>1, ExchIs
    <3>3. Heap!Sink(s) = [heap |-> g, index |-> c]
      BY <2>4, <2>6, <3>1
    <3>4. c > x
      BY <2>2, ParentOf
    <3>5. ASSUME ord PROVE SinksIn(g, c) /\ (Sunk(g, c) \/ c >= m + 1)
      <4>1. SinksIn(g, c)
        BY <1>3, <2>2, <2>3, <2>6, <3>1, <3>5, SunkStep
      <4>2. CASE x >= m
        BY <2>2, <3>4, <4>1, <4>2
      <4>3. CASE Sunk(h, x)
        <5>1. ASSUME NEW i \in 2 .. n, i \div 2 = c PROVE ~KeyLess(g[i], g[c])
          <6>1. /\ ~KeyLess(h[i], h[c]) /\ ~KeyLess(h[c], h[x])
                /\ i \in 1 .. n /\ i # x /\ i # c
            <7>1. i \div 2 < i
              BY ParentOf
            <7>2. ~KeyLess(h[c], h[x])
              BY <1>4, <2>2, <4>3 DEF Sunk
            <7>3. ~KeyLess(h[i], h[c])
              BY <1>3, <1>4, <2>2, <3>4, <3>5, <5>1 DEF SinksIn
            <7> QED
              BY <2>2, <3>4, <5>1, <7>1, <7>2, <7>3
          <6>2. \A j \in 1 .. n : g[j] = h[Swapped(x, c, j)]
            BY <2>2, <3>1, ExchIs
          <6>3. g[i] = h[i] /\ g[c] = h[x]
            BY <2>2, <6>1, <6>2 DEF Swapped
          <6>4. h[i] \in Key /\ h[c] \in Key /\ h[x] \in Key
            BY <1>4, <2>2, <6>1
          <6> QED
            BY <6>1, <6>3, <6>4, NotLessTrans
        <5>2. Len(g) = n
          BY <3>2 DEF HeapsOf
        <5> QED
          BY <4>1, <5>1, <5>2 DEF Sunk
      <4> QED
        BY <1>3, <3>5, <4>2, <4>3
    <3>6. c \in 1 .. n + 1
      BY <2>2
    <3> QED
      BY <3>2, <3>3, <3>5, <3>6 DEF Sinking
  <2> QED
    BY <2>5, <2>6
<1> QED
  BY <1>6, <1>7

\* TopDown ends with the heap in order.
LEMMA TopDownIs ==
  ASSUME NEW n \in Nat, NEW S, NEW ord \in BOOLEAN, NEW h \in HeapsOf(n, S),
         NEW x \in 1 .. n + 1, ord => SinksIn(h, x)
  PROVE  /\ Heap!TopDown(h, x) \in HeapsOf(n, S)
         /\ ord => Ordered(Heap!TopDown(h, x))
<1>0. Len(h) = n
  BY DEF HeapsOf
<1>1. PICK s0 : s0 = [heap |-> h, index |-> x]
  OBVIOUS
<1>2. PICK In : In = [k \in 0 .. n |-> Sinking(n, S, ord, x + k)]
  OBVIOUS
<1>3. PICK step : step = [k \in 1 .. n |-> [s \in In[k - 1] |-> Heap!Sink(s)]]
  OBVIOUS
<1>4. s0 \in In[0]
  <2>1. s0 \in Sinking(n, S, ord, x + 0)
    BY <1>1 DEF Sinking
  <2> QED
    BY <1>2, <2>1
<1>5. ASSUME NEW k \in 1 .. n, NEW s \in In[k - 1]
      PROVE  step[k][s] = Heap!Sink(s) /\ step[k][s] \in In[k]
  <2>1. s \in Sinking(n, S, ord, x + (k - 1))
    BY <1>2
  <2>2. PICK m \in Int : m = x + (k - 1) /\ m + 1 = x + k
    OBVIOUS
  <2>3. Heap!Sink(s) \in Sinking(n, S, ord, x + k)
    BY <2>1, <2>2, SinkIs
  <2>4. step[k][s] = Heap!Sink(s)
    BY <1>3
  <2> QED
    BY <1>2, <2>3, <2>4
<1>6. PICK f \in Runs(n, In, s0, step) : TRUE
  BY <1>4, <1>5, Loop
<1>7. /\ f = [k \in 0 .. n |-> f[k]] /\ f[0] = s0 /\ f[n] \in In[n]
      /\ \A k \in 1 .. n : f[k] = Heap!Sink(f[k - 1])
  <2>1. /\ f = [k \in 0 .. n |-> f[k]] /\ f[0] = s0 /\ f[n] \in In[n]
        /\ \A k \in 1 .. n : f[k] = step[k][f[k - 1]] /\ f[k - 1] \in In[k - 1]
    BY <1>6, RunsAre
  <2>2. ASSUME NEW k \in 1 .. n PROVE f[k] = Heap!Sink(f[k - 1])
    BY <1>5, <2>1
  <2> QED
    BY <2>1, <2>2
<1>8. f = [k \in 0 .. n |-> IF k = 0 THEN s0 ELSE Heap!Sink(f[k - 1])]
  <2>1. \A k \in 0 .. n : k = 0 \/ k \in 1 .. n
    OBVIOUS
  <2>2. \A k \in 0 .. n : f[k] = IF k = 0 THEN s0 ELSE Heap!Sink(f[k - 1])
    BY <1>7, <2>1
  <2> QED
    BY <1>7, <2>2
<1>9. PICK g : /\ g = [k \in 0 .. Len(h) |-> IF k = 0 THEN s0
                                             ELSE Heap!Sink(g[k - 1])]
               /\ Heap!TopDown(h, x) = g[Len(h)].heap
  BY <1>0, <1>1, <1>8 DEF Heap!TopDown
<1>10. g[n] = f[n]
  <2>1. g[0] = s0 /\ \A k \in 1 .. n : g[k] = Heap!Sink(g[k - 1])
    BY <1>0, <1>9
  <2>2. g[0] = f[0] /\ \A k \in 1 .. n : g[k - 1] = f[k - 1] => g[k] = f[k]
    BY <1>7, <2>1
  <2> QED
    BY <2>2, SameRuns
<1>11. f[n] \in Sinking(n, S, ord, x + n)
  BY <1>2, <1>7
<1>12. PICK e \in HeapsOf(n, S) : e = f[n].heap
  BY <1>11 DEF Sinking
<1>13. PICK y \in 1 .. n + 1 : y = f[n].index
  BY <1>11 DEF Sinking
<1>14. ASSUME ord PROVE Ordered(e)
  <2>1. SinksIn(e, y) /\ (Sunk(e, y) \/ y >= x + n) /\ Len(e) = n
    BY <1>11, <1>12, <1>13, <1>14 DEF Sinking, HeapsOf
  <2>2. y >= x + n => \A i \in 2 .. n : i \div 2 # y
    OBVIOUS
  <2>3. Sunk(e, y)
    BY <2>1, <2>2 DEF Sunk
  <2> QED
    BY <2>1, <2>3 DEF SinksIn, Sunk, Ordered
<1> QED
  BY <1>0, <1>9, <1>10, <1>12, <1>14

\* The heap without its last event.
LEMMA FrontIs ==
  ASSUME NEW n \in Nat, NEW S, NEW h \in HeapsOf(n + 1, S)
  PROVE  /\ Heap!Front(h) \in HeapsOf(n, S \ {h[n + 1]})
         /\ \A i \in 1 .. n : Heap!Front(h)[i] = h[i]
<1>1. h \in Seq(Key) /\ Len(h) = n + 1 /\ Once(h) /\ Elems(h) = S
  BY DEF HeapsOf
<1>2. PICK f : f = SubSeq(h, 1, n + 1 - 1)
  OBVIOUS
<1>3. Heap!Front(h) = f
  BY <1>1, <1>2 DEF Heap!Front
<1>4. f \in Seq(Key) /\ Len(f) = n /\ \A i \in 1 .. n : f[i] = h[i]
  <2>1. PICK j \in 1 .. Len(h) + 1 : j = n + 1 /\ j - 1 = n
    BY <1>1
  <2>2. /\ SubSeq(h, 1, j - 1) \in Seq(Key) /\ Len(SubSeq(h, 1, j - 1)) = j - 1
        /\ \A i \in 1 .. j - 1 : SubSeq(h, 1, j - 1)[i] = h[i]
    BY <1>1, Parts
  <2> QED
    BY <1>2, <2>1, <2>2
<1>5. Elems(h) = {h[i] : i \in 1 .. n + 1}
  BY <1>1, ElemsOf
<1>6. Elems(f) = {f[i] : i \in 1 .. n}
  BY <1>4, ElemsOf
<1>7. Once(f)
  BY <1>1, <1>4 DEF Once
<1>8. Elems(f) = S \ {h[n + 1]}
  <2>1. ASSUME NEW i \in 1 .. n PROVE f[i] \in S /\ f[i] # h[n + 1]
    <3>1. i \in 1 .. n + 1 /\ n + 1 \in 1 .. n + 1 /\ i # n + 1
      OBVIOUS
    <3> QED
      BY <1>1, <1>4, <1>5, <3>1 DEF Once
  <2>2. ASSUME NEW e \in S, e # h[n + 1] PROVE e \in Elems(f)
    <3>1. PICK i \in 1 .. n + 1 : e = h[i]
      BY <1>1, <1>5
    <3>2. i \in 1 .. n
      BY <2>2, <3>1
    <3> QED
      BY <1>4, <1>6, <3>1, <3>2
  <2> QED
    BY <1>6, <2>1, <2>2
<1> QED
  BY <1>3, <1>4, <1>7, <1>8 DEF HeapsOf

\* Another takes the place of the event; at the root this keeps the order.
LEMMA HeapTakeOutIs ==
  ASSUME NEW n \in Nat, NEW S, NEW h \in HeapsOf(n + 1, S), NEW x \in 1 .. n + 1,
         NEW ord \in BOOLEAN, ord => x = 1 /\ Ordered(h)
  PROVE  /\ Heap!TakeOut(h, x) \in HeapsOf(n, S \ {h[x]})
         /\ ord => Ordered(Heap!TakeOut(h, x))
<1>1. Len(h) = n + 1 /\ n + 1 \in Nat /\ n + 1 \in 1 .. n + 1
  BY DEF HeapsOf
<1>2. PICK g : g = Heap!Exch(h, x, n + 1)
  OBVIOUS
<1>3. /\ g \in HeapsOf(n + 1, S)
      /\ \A i \in 1 .. n + 1 : g[i] = h[Swapped(x, n + 1, i)]
  <2>1. PICK l \in Nat : l = n + 1
    BY <1>1
  <2>2. h \in HeapsOf(l, S) /\ x \in 1 .. l /\ l \in 1 .. l /\ g = Heap!Exch(h, x, l)
    BY <1>2, <2>1
  <2>3. g \in HeapsOf(l, S) /\ \A i \in 1 .. l : g[i] = h[Swapped(x, l, i)]
    BY <2>2, ExchIs
  <2> QED
    BY <2>1, <2>3
<1>4. g[n + 1] = h[x] /\ \A i \in 1 .. n : i # x => g[i] = h[i]
  BY <1>1, <1>3 DEF Swapped
<1>5. PICK f : f = Heap!Front(g)
  OBVIOUS
<1>6. /\ f \in HeapsOf(n, S \ {h[x]})
      /\ \A i \in 1 .. n : f[i] = g[i]
  BY <1>3, <1>4, <1>5, FrontIs
<1>7. ASSUME ord PROVE SinksIn(f, x)
  <2>1. x = 1 /\ Ordered(h)
    BY <1>7
  <2>2. ASSUME NEW i \in 2 .. n, i \div 2 # 1
        PROVE  ~KeyLess(f[i], f[i \div 2])
    <3>1. PICK q \in 1 .. n : q = i \div 2
      BY ParentOf
    <3>2. f[i] = h[i] /\ f[q] = h[q]
      BY <1>4, <1>6, <2>1, <2>2, <3>1
    <3>3. ~KeyLess(h[i], h[q])
      BY <1>1, <2>1, <3>1 DEF Ordered
    <3> QED
      BY <3>1, <3>2, <3>3
  <2>3. Len(f) = n
    BY <1>6 DEF HeapsOf
  <2> QED
    BY <2>1, <2>2, <2>3 DEF SinksIn
<1>8. /\ Heap!TopDown(f, x) \in HeapsOf(n, S \ {h[x]})
      /\ ord => Ordered(Heap!TopDown(f, x))
  BY <1>6, <1>7, TopDownIs
<1>9. Heap!TakeOut(h, x) = Heap!TopDown(f, x)
  BY <1>1, <1>2, <1>5 DEF Heap!TakeOut
<1> QED
  BY <1>8, <1>9

\* What is true of every heap.
HeapGood(h) == \E n \in Nat : h \in HeapsOf(n, Elems(h))

LEMMA HeapIs ==
  ASSUME NEW h, NEW n \in Nat, NEW S, h \in HeapsOf(n, S)
  PROVE  HeapGood(h) /\ Elems(h) = S
BY DEF HeapGood, HeapsOf

LEMMA HeapEmptyIs ==
  /\ HeapGood(Heap!EmptyHeap) /\ Elems(Heap!EmptyHeap) = {}
  /\ Ordered(Heap!EmptyHeap)
<1>1. PICK h : h = Heap!EmptyHeap
  OBVIOUS
<1>2. h \in Seq(Key) /\ Len(h) = 0
  BY <1>1 DEF Heap!EmptyHeap
<1>3. Elems(h) = {}
  <2>1. Elems(h) = {h[i] : i \in 1 .. Len(h)}
    BY <1>2, ElemsOf
  <2>2. 1 .. Len(h) = {}
    BY <1>2
  <2> QED
    BY <2>1, <2>2
<1>4. h \in HeapsOf(0, {})
  BY <1>2, <1>3 DEF HeapsOf, Once
<1> QED
  BY <1>1, <1>2, <1>3, <1>4, HeapIs DEF Ordered

LEMMA HeapNotEmpty ==
  ASSUME NEW h, HeapGood(h), Elems(h) # {}
  PROVE  \E n \in Nat : h \in HeapsOf(n + 1, Elems(h))
<1>1. PICK m \in Nat : h \in HeapsOf(m, Elems(h))
  BY DEF HeapGood
<1>2. h \in Seq(Key) /\ Len(h) = m
  BY <1>1 DEF HeapsOf
<1>3. Elems(h) = {h[i] : i \in 1 .. m}
  BY <1>2, ElemsOf
<1>4. m # 0
  BY <1>3
<1>5. PICK n \in Nat : m = n + 1
  <2>1. m - 1 \in Nat /\ m = m - 1 + 1
    BY <1>4
  <2> QED
    BY <2>1
<1> QED
  BY <1>1, <1>5

\* RemoveNext takes the root.
LEMMA HeapRemoveNextIs ==
  ASSUME NEW h, HeapGood(h), Elems(h) # {}, NEW ord \in BOOLEAN, ord => Ordered(h),
         NEW r, r = Heap!RemoveNext(h)
  PROVE  /\ r.event \in Elems(h) /\ r.event = Heap!PeekNext(h)
         /\ HeapGood(r.list) /\ Elems(r.list) = Elems(h) \ {r.event}
         /\ ord => IsEarliest(r.event, Elems(h)) /\ Ordered(r.list)
<1>1. PICK n \in Nat : h \in HeapsOf(n + 1, Elems(h))
  BY HeapNotEmpty
<1>2. h \in Seq(Key) /\ Len(h) = n + 1 /\ 1 \in 1 .. n + 1
  BY <1>1 DEF HeapsOf
<1>3. r.event = h[1] /\ r.list = Heap!TakeOut(h, 1) /\ Heap!PeekNext(h) = h[1]
  BY DEF Heap!RemoveNext, Heap!PeekNext
<1>4. /\ r.list \in HeapsOf(n, Elems(h) \ {h[1]})
      /\ ord => Ordered(r.list)
  BY <1>1, <1>2, <1>3, HeapTakeOutIs
<1>5. h[1] \in Elems(h)
  BY <1>2, ElemsOf
<1>6. ord => IsEarliest(h[1], Elems(h))
  BY <1>2, RootIsEarliest
<1> QED
  BY <1>3, <1>4, <1>5, <1>6, HeapIs

\* Remove finds the event, but does not keep the order.
LEMMA HeapRemoveIs ==
  ASSUME NEW h, HeapGood(h), Distinct(Elems(h)), NEW ev \in Elems(h)
  PROVE  /\ HeapGood(Heap!RemoveEvent(h, ev))
         /\ Elems(Heap!RemoveEvent(h, ev)) = Elems(h) \ {ev}
<1>1. PICK n \in Nat : h \in HeapsOf(n + 1, Elems(h))
  BY HeapNotEmpty
<1>2. /\ h \in Seq(Key) /\ Len(h) = n + 1 /\ DOMAIN h = 1 .. n + 1
  BY <1>1, ElemsOf DEF HeapsOf
<1>3. PICK x : x = CHOOSE i \in DOMAIN h : h[i].uid = ev.uid
  OBVIOUS
<1>4. x \in DOMAIN h /\ h[x].uid = ev.uid
  <2>1. \E i \in DOMAIN h : h[i].uid = ev.uid
    BY DEF Elems
  <2> QED
    BY <1>3, <2>1
<1>5. x \in 1 .. n + 1 /\ h[x] = ev
  <2>1. h[x] \in Elems(h)
    BY <1>4 DEF Elems
  <2> QED
    BY <1>2, <1>4, <2>1 DEF Distinct
<1>6. Heap!TakeOut(h, x) \in HeapsOf(n, Elems(h) \ {h[x]})
  <2>1. FALSE \in BOOLEAN /\ (FALSE => x = 1 /\ Ordered(h))
    OBVIOUS
  <2> QED
    BY <1>1, <1>5, <2>1, HeapTakeOutIs
<1>7. Heap!RemoveEvent(h, ev) = Heap!TakeOut(h, x)
  BY <1>3 DEF Heap!RemoveEvent
<1> QED
  BY <1>5, <1>6, <1>7, HeapIs

-----------------------------------------------------------------------------
(* The sorted list and the map.                                            *)

ListGood(s) == s \in Seq(Key) /\ Sorted(s)

\* Insert of the list keeps it sorted.
LEMMA ListInsertIs ==
  ASSUME NEW s, ListGood(s), NEW ev \in Key, ev \notin Elems(s)
  PROVE  /\ ListGood(List!Insert(s, ev))
         /\ Elems(List!Insert(s, ev)) = Elems(s) \cup {ev}
<1>1. PICK at : at = PlaceOf(s, ev)
  OBVIOUS
<1>2. PICK t : t = Added(s, at, ev)
  OBVIOUS
<1>3. t \in Seq(Key) /\ Sorted(t) /\ Elems(t) = Elems(s) \cup {ev}
  BY <1>1, <1>2, SortedAdded DEF ListGood
<1>4. at = IF {i \in DOMAIN s : List!KeyLess(ev, s[i])} = {} THEN Len(s) + 1
           ELSE List!Min({i \in DOMAIN s : List!KeyLess(ev, s[i])})
  BY <1>1 DEF PlaceOf, KeyLess, List!KeyLess, List!Min, Min
<1>5. List!Insert(s, ev) = List!InsertAt(s, at, ev)
  BY <1>4 DEF List!Insert
<1>6. List!InsertAt(s, at, ev) = t
  BY <1>2 DEF List!InsertAt, Added
<1> QED
  BY <1>3, <1>5, <1>6 DEF ListGood

LEMMA ListRemoveNextIs ==
  ASSUME NEW s, ListGood(s), Elems(s) # {}, NEW r, r = List!RemoveNext(s)
  PROVE  /\ r.event \in Elems(s) /\ r.event = List!PeekNext(s)
         /\ ListGood(r.list) /\ Elems(r.list) = Elems(s) \ {r.event}
         /\ IsEarliest(r.event, Elems(s))
<1>1. s \in Seq(Key) /\ Sorted(s) /\ s # <<>>
  BY ElemsOf DEF ListGood
<1>2. r.event = Head(s) /\ r.list = Tail(s) /\ List!PeekNext(s) = Head(s)
  BY DEF List!RemoveNext, List!PeekNext
<1> QED
  BY <1>1, <1>2, SortedFirst DEF ListGood

LEMMA ListRemoveIs ==
  ASSUME NEW s, ListGood(s), Distinct(Elems(s)), NEW ev \in Elems(s)
  PROVE  /\ ListGood(List!RemoveEvent(s, ev))
         /\ Elems(List!RemoveEvent(s, ev)) = Elems(s) \ {ev}
<1>1. PICK x : x = CHOOSE i \in DOMAIN s : s[i].uid = ev.uid
  OBVIOUS
<1>2. x \in DOMAIN s /\ s[x].uid = ev.uid
  <2>1. \E i \in DOMAIN s : s[i].uid = ev.uid
    BY DEF Elems
  <2> QED
    BY <1>1, <2>1
<1>3. s[x] = ev
  BY <1>2 DEF Elems, Distinct
<1>4. s \in Seq(Key) /\ Sorted(s) /\ x \in 1 .. Len(s)
  BY <1>2, ElemsOf DEF ListGood
<1>5. PICK t : t = Without(s, x)
  OBVIOUS
<1>6. t \in Seq(Key) /\ Sorted(t) /\ Elems(t) = Elems(s) \ {ev}
  BY <1>3, <1>4, <1>5, SortedWithout
<1>7. List!RemoveEvent(s, ev) = List!RemoveAt(s, x)
  BY <1>1 DEF List!RemoveEvent
<1>8. List!RemoveAt(s, x) = t
  BY <1>5 DEF List!RemoveAt, Without
<1> QED
  BY <1>6, <1>7, <1>8 DEF ListGood

LEMMA MapRemoveNextIs ==
  ASSUME NEW S \in SUBSET Key, S # {}, NEW r, r = Map!RemoveNext(S)
  PROVE  /\ r.event \in S /\ r.event = Map!PeekNext(S)
         /\ r.list = S \ {r.event} /\ IsEarliest(r.event, S)
<1>1. PICK e : e = CHOOSE x \in S : IsEarliest(x, S)
  OBVIOUS
<1>2. e \in S /\ IsEarliest(e, S)
  BY <1>1, EarliestExists
<1>3. Map!PeekNext(S) = e
  BY <1>1 DEF Map!PeekNext, Map!IsEarliest, IsEarliest, Map!KeyLess, KeyLess
<1> QED
  BY <1>2, <1>3 DEF Map!RemoveNext

-----------------------------------------------------------------------------
(* Every implementation.                                                   *)

AnyKind == {"list", "map", "heap", "calendar"}

Good(k, es) == /\ k = "list" => ListGood(es)
               /\ k = "map" => es \in SUBSET Key
               /\ k = "heap" => HeapGood(es)
               /\ k = "calendar" => CalGood(es)

\* A heap is in order.
Tidy(k, es) == k = "heap" => Ordered(es)

\* The time stamp before which no event may be inserted.
From(k, es) == IF k = "calendar" THEN es.lastPrio ELSE 0

LEMMA ListedIs ==
  ASSUME NEW es
  PROVE  /\ Listed("list", es) = Elems(es) /\ Listed("heap", es) = Elems(es)
         /\ Listed("map", es) = es /\ Listed("calendar", es) = Calendar!Keys(es)
BY DEF Listed, ToSet, Elems

\* What is listed are keys.
LEMMA ListedKeys ==
  ASSUME NEW k \in AnyKind, NEW es, Good(k, es)
  PROVE  Listed(k, es) \subseteq Key /\ From(k, es) \in Nat
<1>1. CASE k = "list"
  BY <1>1, ListedIs, ElemsOf DEF Good, ListGood, From
<1>2. CASE k = "map"
  BY <1>2, ListedIs DEF Good, From
<1>3. CASE k = "heap"
  <2>1. es \in Seq(Key)
    BY <1>3 DEF Good, HeapGood, HeapsOf
  <2> QED
    BY <1>3, <2>1, ListedIs, ElemsOf DEF From
<1>4. CASE k = "calendar"
  <2>1. PICK n \in Nat : CalFull(es, n)
    BY <1>4 DEF Good, CalGood
  <2>2. CalTyped(es, n)
    BY <2>1 DEF CalFull, CalOK
  <2> QED
    BY <1>4, <2>2, ListedIs, CalKeys, CalFields DEF From
<1> QED
  BY <1>1, <1>2, <1>3, <1>4 DEF AnyKind

\* What a new event list is, ...
LEMMA EmptyIs ==
  ASSUME NEW k \in AnyKind
  PROVE  /\ Good(k, Empty(k)) /\ Tidy(k, Empty(k)) /\ Listed(k, Empty(k)) = {}
         /\ From(k, Empty(k)) = 0
<1>1. CASE k = "list"
  <2>1. PICK s : s = List!EmptyList
    OBVIOUS
  <2>2. s \in Seq(Key) /\ Len(s) = 0 /\ s = <<>>
    BY <2>1 DEF List!EmptyList
  <2>3. Elems(s) = {}
    BY <2>2, ElemsOf
  <2>4. Sorted(s)
    BY <2>2 DEF Sorted
  <2>5. Empty(k) = s
    BY <1>1, <2>1 DEF Empty
  <2> QED
    BY <1>1, <2>2, <2>3, <2>4, <2>5, ListedIs DEF Good, ListGood, Tidy, From
<1>2. CASE k = "map"
  BY <1>2, ListedIs DEF Good, Tidy, From, Empty, Map!EmptyMap
<1>3. CASE k = "heap"
  <2>1. Empty(k) = Heap!EmptyHeap
    BY <1>3 DEF Empty
  <2> QED
    BY <1>3, <2>1, ListedIs, HeapEmptyIs DEF Good, Tidy, From
<1>4. CASE k = "calendar"
  <2>1. Empty(k) = Calendar!EmptyCalendar
    BY <1>4 DEF Empty
  <2> QED
    BY <1>4, <2>1, ListedIs, CalendarEmptyIs DEF Good, Tidy, From
<1> QED
  BY <1>1, <1>2, <1>3, <1>4 DEF AnyKind

\* ... what Insert does, ...
LEMMA InsertIs ==
  ASSUME NEW k \in AnyKind, NEW es, Good(k, es), NEW ev \in Key,
         ev \notin Listed(k, es), ev.ts >= From(k, es)
  PROVE  /\ Good(k, InsertInto(k, es, ev))
         /\ Tidy(k, es) => Tidy(k, InsertInto(k, es, ev))
         /\ Listed(k, InsertInto(k, es, ev)) = Listed(k, es) \cup {ev}
         /\ From(k, InsertInto(k, es, ev)) = From(k, es)
<1>1. CASE k = "list"
  <2>1. InsertInto(k, es, ev) = List!Insert(es, ev)
    BY <1>1 DEF InsertInto
  <2>2. ListGood(es) /\ ev \notin Elems(es)
    BY <1>1, ListedIs DEF Good
  <2>3. /\ ListGood(List!Insert(es, ev))
        /\ Elems(List!Insert(es, ev)) = Elems(es) \cup {ev}
    BY <2>2, ListInsertIs
  <2> QED
    BY <1>1, <2>1, <2>3, ListedIs DEF Good, Tidy, From
<1>2. CASE k = "map"
  <2>1. InsertInto(k, es, ev) = es \cup {ev}
    BY <1>2 DEF InsertInto, Map!Insert
  <2> QED
    BY <1>2, <2>1, ListedIs DEF Good, Tidy, From
<1>3. CASE k = "heap"
  <2>1. InsertInto(k, es, ev) = Heap!Insert(es, ev)
    BY <1>3 DEF InsertInto
  <2>2. ev \notin Elems(es)
    BY <1>3, ListedIs
  <2>3. PICK n \in Nat : es \in HeapsOf(n, Elems(es))
    BY <1>3 DEF Good, HeapGood
  <2>4. PICK ord \in BOOLEAN : ord <=> Ordered(es)
    OBVIOUS
  <2>5. /\ Heap!Insert(es, ev) \in HeapsOf(n + 1, Elems(es) \cup {ev})
        /\ ord => Ordered(Heap!Insert(es, ev))
    BY <2>2, <2>3, <2>4, HeapInsertIs
  <2>6. n + 1 \in Nat
    OBVIOUS
  <2>7. /\ HeapGood(Heap!Insert(es, ev))
        /\ Elems(Heap!Insert(es, ev)) = Elems(es) \cup {ev}
    BY <2>5, <2>6, HeapIs
  <2> QED
    BY <1>3, <2>1, <2>4, <2>5, <2>7, ListedIs DEF Good, Tidy, From
<1>4. CASE k = "calendar"
  <2>1. InsertInto(k, es, ev) = Calendar!Insert(es, ev)
    BY <1>4 DEF InsertInto
  <2>2. CalGood(es) /\ ev \notin Calendar!Keys(es) /\ ev.ts >= es.lastPrio
    BY <1>4, ListedIs DEF Good, From
  <2>3. /\ CalGood(Calendar!Insert(es, ev))
        /\ Calendar!Keys(Calendar!Insert(es, ev)) = Calendar!Keys(es) \cup {ev}
        /\ Calendar!Insert(es, ev).lastPrio = es.lastPrio
    BY <2>2, CalendarInsertIs
  <2> QED
    BY <1>4, <2>1, <2>3, ListedIs DEF Good, Tidy, From
<1> QED
  BY <1>1, <1>2, <1>3, <1>4 DEF AnyKind

\* ... what RemoveNext does, when the list is in order also in the right
\* order, ...
LEMMA RemoveNextIs ==
  ASSUME NEW k \in AnyKind, NEW es, Good(k, es), Listed(k, es) # {},
         NEW r, r = RemoveNextFrom(k, es)
  PROVE  /\ r.event \in Listed(k, es) /\ r.event = PeekIn(k, es)
         /\ Good(k, r.list) /\ Listed(k, r.list) = Listed(k, es) \ {r.event}
         /\ Tidy(k, es) => IsEarliest(r.event, Listed(k, es)) /\ Tidy(k, r.list)
         /\ From(k, r.list) = IF k = "calendar" THEN r.event.ts ELSE 0
<1>1. CASE k = "list"
  <2>1. r = List!RemoveNext(es) /\ PeekIn(k, es) = List!PeekNext(es)
    BY <1>1 DEF RemoveNextFrom, PeekIn
  <2>2. ListGood(es) /\ Elems(es) # {}
    BY <1>1, ListedIs DEF Good
  <2>3. /\ r.event \in Elems(es) /\ r.event = List!PeekNext(es)
        /\ ListGood(r.list) /\ Elems(r.list) = Elems(es) \ {r.event}
        /\ IsEarliest(r.event, Elems(es))
    BY <2>1, <2>2, ListRemoveNextIs
  <2> QED
    BY <1>1, <2>1, <2>3, ListedIs DEF Good, Tidy, From
<1>2. CASE k = "map"
  <2>1. r = Map!RemoveNext(es) /\ PeekIn(k, es) = Map!PeekNext(es)
    BY <1>2 DEF RemoveNextFrom, PeekIn
  <2>2. es \in SUBSET Key /\ es # {}
    BY <1>2, ListedIs DEF Good
  <2>3. /\ r.event \in es /\ r.event = Map!PeekNext(es)
        /\ r.list = es \ {r.event} /\ IsEarliest(r.event, es)
    BY <2>1, <2>2, MapRemoveNextIs
  <2> QED
    BY <1>2, <2>1, <2>2, <2>3, ListedIs DEF Good, Tidy, From
<1>3. CASE k = "heap"
  <2>1. r = Heap!RemoveNext(es) /\ PeekIn(k, es) = Heap!PeekNext(es)
    BY <1>3 DEF RemoveNextFrom, PeekIn
  <2>2. HeapGood(es) /\ Elems(es) # {}
    BY <1>3, ListedIs DEF Good
  <2>3. PICK ord \in BOOLEAN : ord <=> Ordered(es)
    OBVIOUS
  <2>4. /\ r.event \in Elems(es) /\ r.event = Heap!PeekNext(es)
        /\ HeapGood(r.list) /\ Elems(r.list) = Elems(es) \ {r.event}
        /\ ord => IsEarliest(r.event, Elems(es)) /\ Ordered(r.list)
    BY <2>1, <2>2, <2>3, HeapRemoveNextIs
  <2> QED
    BY <1>3, <2>1, <2>3, <2>4, ListedIs DEF Good, Tidy, From
<1>4. CASE k = "calendar"
  <2>1. r = Calendar!RemoveNext(es) /\ PeekIn(k, es) = Calendar!PeekNext(es)
    BY <1>4 DEF RemoveNextFrom, PeekIn
  <2>2. CalGood(es) /\ Calendar!Keys(es) # {}
    BY <1>4, ListedIs DEF Good
  <2>3. /\ r.event \in Calendar!Keys(es) /\ IsEarliest(r.event, Calendar!Keys(es))
        /\ r.event = Calendar!PeekNext(es)
        /\ CalGood(r.list)
        /\ Calendar!Keys(r.list) = Calendar!Keys(es) \ {r.event}
        /\ r.list.lastPrio = r.event.ts
    BY <2>1, <2>2, CalendarRemoveNextIs
  <2> QED
    BY <1>4, <2>1, <2>3, ListedIs DEF Good, Tidy, From
<1> QED
  BY <1>1, <1>2, <1>3, <1>4 DEF AnyKind

\* ... and what Remove does.
LEMMA RemoveIs ==
  ASSUME NEW k \in AnyKind, NEW es, Good(k, es), Distinct(Listed(k, es)),
         NEW ev \in Listed(k, es)
  PROVE  /\ Good(k, RemoveFrom(k, es, ev))
         /\ Listed(k, RemoveFrom(k, es, ev)) = Listed(k, es) \ {ev}
         /\ From(k, RemoveFrom(k, es, ev)) = From(k, es)
<1>1. CASE k = "list"
  <2>1. RemoveFrom(k, es, ev) = List!RemoveEvent(es, ev)
    BY <1>1 DEF RemoveFrom
  <2>2. ListGood(es) /\ Distinct(Elems(es)) /\ ev \in Elems(es)
    BY <1>1, ListedIs DEF Good
  <2> QED
    BY <1>1, <2>1, <2>2, ListRemoveIs, ListedIs DEF Good, From
<1>2. CASE k = "map"
  <2>1. RemoveFrom(k, es, ev) = es \ {ev}
    BY <1>2 DEF RemoveFrom, Map!RemoveEvent
  <2> QED
    BY <1>2, <2>1, ListedIs DEF Good, From
<1>3. CASE k = "heap"
  <2>1. RemoveFrom(k, es, ev) = Heap!RemoveEvent(es, ev)
    BY <1>3 DEF RemoveFrom
  <2>2. HeapGood(es) /\ Distinct(Elems(es)) /\ ev \in Elems(es)
    BY <1>3, ListedIs DEF Good
  <2> QED
    BY <1>3, <2>1, <2>2, HeapRemoveIs, ListedIs DEF Good, From
<1>4. CASE k = "calendar"
  <2>1. RemoveFrom(k, es, ev) = Calendar!RemoveEvent(es, ev)
    BY <1>4 DEF RemoveFrom
  <2>2. CalGood(es) /\ Distinct(Calendar!Keys(es)) /\ ev \in Calendar!Keys(es)
    BY <1>4, ListedIs DEF Good
  <2>3. /\ CalGood(Calendar!RemoveEvent(es, ev))
        /\ Calendar!Keys(Calendar!RemoveEvent(es, ev)) = Calendar!Keys(es) \ {ev}
        /\ Calendar!RemoveEvent(es, ev).lastPrio = es.lastPrio
    BY <2>2, CalendarRemoveIs
  <2> QED
    BY <1>4, <2>1, <2>3, ListedIs DEF Good, From
<1> QED
  BY <1>1, <1>2, <1>3, <1>4 DEF AnyKind

-----------------------------------------------------------------------------
(* SetScheduler.                                                           *)

\* What the members of an event list are among.
AnyCalendar == UNION {Calendars(n) : n \in Nat}
Carrier == Seq(Key) \cup (SUBSET Key) \cup AnyCalendar

LEMMA InCarrier ==
  ASSUME NEW k \in AnyKind, NEW es, Good(k, es)
  PROVE  es \in Carrier
<1>1. CASE k = "list"
  BY <1>1 DEF Good, ListGood, Carrier
<1>2. CASE k = "map"
  BY <1>2 DEF Good, Carrier
<1>3. CASE k = "heap"
  BY <1>3 DEF Good, HeapGood, HeapsOf, Carrier
<1>4. CASE k = "calendar"
  <2>1. PICK n \in Nat : CalFull(es, n)
    BY <1>4 DEF Good, CalGood
  <2>2. es \in Calendars(n)
    BY <2>1, CalendarsAre DEF CalFull
  <2>3. es \in AnyCalendar
    BY <2>2 DEF AnyCalendar
  <2> QED
    BY <2>3 DEF Carrier
<1> QED
  BY <1>1, <1>2, <1>3, <1>4 DEF AnyKind

\* The states of the loop after k of N rounds: every event is in the old list or
\* in the new one.
Moving(from, to, S, N, k) ==
  {s \in [old : Carrier, new : Carrier] :
     /\ Good(from, s.old) /\ Good(to, s.new) /\ Tidy(to, s.new)
     /\ From(to, s.new) = 0
     /\ Listed(from, s.old) \cap Listed(to, s.new) = {}
     /\ Listed(from, s.old) \cup Listed(to, s.new) = S
     /\ IsFiniteSet(Listed(from, s.old))
     /\ Cardinality(Listed(from, s.old)) = N - k}

\* One round of SetScheduler moves one event.
LEMMA MoveNextIs ==
  ASSUME NEW from \in AnyKind, NEW to \in AnyKind, NEW S, NEW N \in Nat,
         NEW k \in 1 .. N, NEW s \in Moving(from, to, S, N, k - 1)
  PROVE  MoveNext(from, to, s) \in Moving(from, to, S, N, k)
<1>1. PICK old : old = s.old
  OBVIOUS
<1>2. PICK new : new = s.new
  OBVIOUS
<1>3. /\ Good(from, old) /\ Good(to, new) /\ Tidy(to, new) /\ From(to, new) = 0
      /\ Listed(from, old) \cap Listed(to, new) = {}
      /\ Listed(from, old) \cup Listed(to, new) = S
  BY <1>1, <1>2 DEF Moving
<1>4. PICK T : T = Listed(from, old)
  OBVIOUS
<1>5. PICK j \in Nat : j = N - k /\ N - (k - 1) = j + 1
  OBVIOUS
<1>6. IsFiniteSet(T) /\ Cardinality(T) = j + 1
  BY <1>1, <1>4, <1>5 DEF Moving
<1>7. /\ T # {}
      /\ \A e \in T : IsFiniteSet(T \ {e}) /\ Cardinality(T \ {e}) = j
  BY <1>6, OneLess
<1>8. PICK r : r = RemoveNextFrom(from, old)
  OBVIOUS
<1>9. /\ r.event \in T /\ Good(from, r.list)
      /\ Listed(from, r.list) = T \ {r.event}
  BY <1>3, <1>4, <1>7, <1>8, RemoveNextIs
<1>10. PICK ev \in Key : ev = r.event
  BY <1>3, <1>4, <1>9, ListedKeys
<1>11. ev.ts >= From(to, new) /\ ev \notin Listed(to, new)
  BY <1>3, <1>4, <1>9, <1>10 DEF Key
<1>12. PICK more : more = InsertInto(to, new, ev)
  OBVIOUS
<1>13. /\ Good(to, more) /\ Tidy(to, more)
       /\ Listed(to, more) = Listed(to, new) \cup {ev} /\ From(to, more) = 0
  BY <1>3, <1>11, <1>12, InsertIs
<1>14. MoveNext(from, to, s) = [old |-> r.list, new |-> more]
  <2>1. ~IsEmpty(from, old)
    BY <1>4, <1>7 DEF IsEmpty
  <2> QED
    BY <1>1, <1>2, <1>8, <1>10, <1>12, <2>1 DEF MoveNext
<1>15. r.list \in Carrier /\ more \in Carrier
  BY <1>9, <1>13, InCarrier
<1>16. /\ Listed(from, r.list) \cap Listed(to, more) = {}
       /\ Listed(from, r.list) \cup Listed(to, more) = S
  BY <1>3, <1>4, <1>9, <1>10, <1>13
<1>17. /\ IsFiniteSet(Listed(from, r.list))
       /\ Cardinality(Listed(from, r.list)) = N - k
  BY <1>5, <1>7, <1>9
<1>18. PICK t : t = [old |-> r.list, new |-> more]
  OBVIOUS
<1>19. t \in [old : Carrier, new : Carrier] /\ t.old = r.list /\ t.new = more
  BY <1>15, <1>18
<1>20. t \in Moving(from, to, S, N, k)
  BY <1>9, <1>13, <1>16, <1>17, <1>19 DEF Moving
<1> QED
  BY <1>14, <1>18, <1>20

\* The new list has the events of the old one, and is in order.
LEMMA MovedIs ==
  ASSUME NEW from \in AnyKind, NEW to \in AnyKind, NEW es, Good(from, es),
         IsFiniteSet(Listed(from, es))
  PROVE  /\ Good(to, Moved(from, es, to)) /\ Tidy(to, Moved(from, es, to))
         /\ Listed(to, Moved(from, es, to)) = Listed(from, es)
         /\ From(to, Moved(from, es, to)) = 0
<1>1. PICK S : S = Listed(from, es)
  OBVIOUS
<1>2. PICK N \in Nat : N = Cardinality(S)
  BY <1>1, FS_CardinalityType
<1>3. PICK s0 : s0 = [old |-> es, new |-> Empty(to)]
  OBVIOUS
<1>4. PICK In : In = [k \in 0 .. N |-> Moving(from, to, S, N, k)]
  OBVIOUS
<1>5. PICK step : step = [k \in 1 .. N |->
                            [s \in In[k - 1] |-> MoveNext(from, to, s)]]
  OBVIOUS
<1>6. s0 \in In[0]
  <2>1. /\ Good(to, Empty(to)) /\ Tidy(to, Empty(to)) /\ Listed(to, Empty(to)) = {}
        /\ From(to, Empty(to)) = 0
    BY EmptyIs
  <2>2. es \in Carrier /\ Empty(to) \in Carrier
    BY <2>1, InCarrier
  <2>3. s0.old = es /\ s0.new = Empty(to)
    BY <1>3
  <2>4. s0 \in [old : Carrier, new : Carrier]
    BY <1>3, <2>2
  <2>5. N = N - 0
    OBVIOUS
  <2>6. s0 \in Moving(from, to, S, N, 0)
    BY <1>1, <1>2, <2>1, <2>3, <2>4, <2>5 DEF Moving
  <2> QED
    BY <1>4, <2>6
<1>7. ASSUME NEW k \in 1 .. N, NEW s \in In[k - 1]
      PROVE  step[k][s] = MoveNext(from, to, s) /\ step[k][s] \in In[k]
  <2>1. k \in 0 .. N /\ k - 1 \in 0 .. N
    OBVIOUS
  <2>2. s \in Moving(from, to, S, N, k - 1)
    BY <1>4, <2>1
  <2>3. MoveNext(from, to, s) \in Moving(from, to, S, N, k)
    BY <2>2, MoveNextIs
  <2>4. step[k][s] = MoveNext(from, to, s)
    BY <1>5
  <2> QED
    BY <1>4, <2>1, <2>3, <2>4
<1>8. PICK f \in Runs(N, In, s0, step) : TRUE
  BY <1>6, <1>7, Loop
<1>9. /\ f = [k \in 0 .. N |-> f[k]] /\ f[0] = s0 /\ f[N] \in In[N]
      /\ \A k \in 1 .. N : f[k] = MoveNext(from, to, f[k - 1])
  <2>1. /\ f = [k \in 0 .. N |-> f[k]] /\ f[0] = s0 /\ f[N] \in In[N]
        /\ \A k \in 1 .. N : f[k] = step[k][f[k - 1]] /\ f[k - 1] \in In[k - 1]
    BY <1>8, RunsAre
  <2>2. ASSUME NEW k \in 1 .. N PROVE f[k] = MoveNext(from, to, f[k - 1])
    BY <1>7, <2>1
  <2> QED
    BY <2>1, <2>2
<1>10. f = [k \in 0 .. N |-> IF k = 0 THEN s0 ELSE MoveNext(from, to, f[k - 1])]
  <2>1. \A k \in 0 .. N : k = 0 \/ k \in 1 .. N
    OBVIOUS
  <2>2. \A k \in 0 .. N :
          f[k] = IF k = 0 THEN s0 ELSE MoveNext(from, to, f[k - 1])
    BY <1>9, <2>1
  <2> QED
    BY <1>9, <2>2
<1>11. PICK g : /\ g = [k \in 0 .. N |-> IF k = 0 THEN s0
                                         ELSE MoveNext(from, to, g[k - 1])]
                /\ MovedIn(N, from, es, to) = g[N]
  BY <1>3, <1>10 DEF MovedIn
<1>12. g[N] = f[N]
  <2>1. g[0] = s0 /\ \A k \in 1 .. N : g[k] = MoveNext(from, to, g[k - 1])
    BY <1>11
  <2>2. g[0] = f[0] /\ \A k \in 1 .. N : g[k - 1] = f[k - 1] => g[k] = f[k]
    BY <1>9, <2>1
  <2> QED
    BY <2>2, SameRuns
<1>13. f[N] \in Moving(from, to, S, N, N)
  BY <1>4, <1>9
<1>14. PICK new : new = f[N].new
  OBVIOUS
<1>15. PICK old : old = f[N].old
  OBVIOUS
<1>16. /\ Good(to, new) /\ Tidy(to, new) /\ From(to, new) = 0
       /\ Listed(from, old) \cup Listed(to, new) = S
       /\ IsFiniteSet(Listed(from, old)) /\ Cardinality(Listed(from, old)) = 0
  <2>1. N - N = 0
    OBVIOUS
  <2> QED
    BY <1>13, <1>14, <1>15, <2>1 DEF Moving
<1>17. Listed(from, old) = {}
  <2>1. PICK T : T = Listed(from, old)
    OBVIOUS
  <2>2. T = {}
    BY <1>16, <2>1, FS_EmptySet
  <2> QED
    BY <2>1, <2>2
<1>18. Moved(from, es, to) = new
  BY <1>1, <1>2, <1>11, <1>12, <1>14 DEF Moved
<1> QED
  BY <1>1, <1>16, <1>17, <1>18

-----------------------------------------------------------------------------
(* The places of a calendar, and its events.                               *)

LEMMA SlotsAre ==
  ASSUME NEW c, NEW n, CalTyped(c, n)
  PROVE  /\ \A p \in Calendar!Slots(c) :
              \E b \in 0 .. n - 1 : \E i \in DOMAIN c.buckets[b] : p = <<b, i>>
         /\ \A b \in 0 .. n - 1 : \A i \in DOMAIN c.buckets[b] :
              <<b, i>> \in Calendar!Slots(c)
<1>1. DOMAIN c.buckets = 0 .. n - 1
  BY CalFields
<1> QED
  BY <1>1 DEF Calendar!Slots

\* No event has two places.
LEMMA AsManySlots ==
  ASSUME NEW c, NEW n, CalFull(c, n)
  PROVE  Cardinality(Calendar!Slots(c)) = Cardinality(Calendar!Keys(c))
<1>1. CalOK(c, n) /\ CalTyped(c, n)
  BY DEF CalFull, CalOK
<1>2. PICK S : S = Calendar!Slots(c)
  OBVIOUS
<1>3. PICK T : T = Calendar!Keys(c)
  OBVIOUS
<1>4. PICK f : f = [p \in S |-> c.buckets[p[1]][p[2]]]
  OBVIOUS
<1>5. /\ \A p \in S :
           \E b \in 0 .. n - 1 : \E i \in DOMAIN c.buckets[b] : p = <<b, i>>
      /\ \A b \in 0 .. n - 1 : \A i \in DOMAIN c.buckets[b] : <<b, i>> \in S
  BY <1>1, <1>2, SlotsAre
<1>6. ASSUME NEW p \in S
      PROVE  /\ p[1] \in 0 .. n - 1 /\ p[2] \in DOMAIN c.buckets[p[1]]
             /\ p = <<p[1], p[2]>>
  BY <1>5
<1>7. ASSUME NEW p \in S PROVE f[p] \in T /\ f[p] \in Elems(c.buckets[p[1]])
  <2>1. f[p] = c.buckets[p[1]][p[2]]
    BY <1>4
  <2>2. f[p] \in Elems(c.buckets[p[1]])
    BY <1>6, <2>1 DEF Elems
  <2>3. Elems(c.buckets[p[1]]) \subseteq T
    BY <1>1, <1>3, <1>6, CalKeys
  <2> QED
    BY <2>2, <2>3
<1>8. ASSUME NEW p \in S, NEW q \in S, f[p] = f[q] PROVE p = q
  <2>1. PICK b \in 0 .. n - 1 : b = p[1]
    BY <1>6
  <2>2. PICK a \in 0 .. n - 1 : a = q[1]
    BY <1>6
  <2>3. PICK e : e = f[p]
    OBVIOUS
  <2>4. FiledIn(c, n, b, e) /\ FiledIn(c, n, a, e)
    <3>1. e \in Elems(c.buckets[b])
      BY <1>7, <2>1, <2>3
    <3>2. e \in Elems(c.buckets[a])
      BY <1>7, <1>8, <2>2, <2>3
    <3> QED
      BY <1>1, <3>1, <3>2 DEF CalOK, Filing
  <2>5. a = b
    BY <2>4 DEF FiledIn
  <2>6. PICK s \in Seq(Key) : s = c.buckets[b]
    BY <1>1, CalFields
  <2>7. Sorted(s)
    BY <1>1, <2>6 DEF CalOK, Filing
  <2>8. DOMAIN s = 1 .. Len(s) /\ Len(s) \in Nat
    BY ElemsOf
  <2>9. PICK i \in 1 .. Len(s) : i = p[2] /\ s[i] = f[p]
    <3>1. f[p] = c.buckets[p[1]][p[2]]
      BY <1>4
    <3> QED
      BY <1>6, <2>1, <2>6, <2>8, <3>1
  <2>10. PICK j \in 1 .. Len(s) : j = q[2] /\ s[j] = f[q]
    <3>1. f[q] = c.buckets[q[1]][q[2]]
      BY <1>4
    <3> QED
      BY <1>6, <2>2, <2>5, <2>6, <2>8, <3>1
  <2>11. s[i] \in Key /\ s[j] \in Key /\ s[i] = s[j]
    BY <1>8, <2>9, <2>10, ElementOfSeq
  <2>12. i = j
    <3>1. i < j => KeyLess(s[i], s[j])
      BY <2>7 DEF Sorted
    <3>2. j < i => KeyLess(s[j], s[i])
      BY <2>7 DEF Sorted
    <3>3. ~(i < j) /\ ~(j < i)
      BY <2>11, <3>1, <3>2, LessNot
    <3> QED
      BY <2>8, <3>3
  <2> QED
    BY <1>6, <2>1, <2>2, <2>5, <2>9, <2>10, <2>12
<1>9. ASSUME NEW e \in T PROVE \E p \in S : f[p] = e
  <2>1. PICK b \in 0 .. n - 1 : e \in Elems(c.buckets[b])
    BY <1>1, <1>3, CalKeys
  <2>2. PICK i \in DOMAIN c.buckets[b] : e = c.buckets[b][i]
    BY <2>1 DEF Elems
  <2>3. <<b, i>> \in S
    BY <1>5
  <2>4. f[<<b, i>>] = e
    BY <1>4, <2>2, <2>3
  <2> QED
    BY <2>3, <2>4
<1>10. f \in Bijection(S, T)
  <2>1. f \in [S -> T]
    BY <1>4, <1>7
  <2> QED
    BY <1>8, <1>9, <2>1, Fun_IsBij
<1>11. ExistsBijection(T, S)
  BY <1>10, Fun_ExistsBijSymmetric, Fun_ExistsBij
<1>12. IsFiniteSet(T)
  BY <1>3 DEF CalFull
<1>13. Cardinality(S) = Cardinality(T)
  BY <1>11, <1>12, FS_Bijection
<1> QED
  BY <1>2, <1>3, <1>13

\* A calendar is filed and its scan is right.
LEMMA CalendarScan ==
  ASSUME NEW c, CalGood(c)
  PROVE  /\ c.qSize = Cardinality(Calendar!Slots(c))
         /\ \A b \in DOMAIN c.buckets : \A ev \in Elems(c.buckets[b]) :
              b = Calendar!Hash(c, ev.ts)
         /\ c.lastBucket = Calendar!Hash(c, c.lastPrio)
         /\ c.bucketTop = (c.lastPrio \div c.width + 1) * c.width
         /\ \A ev \in Calendar!Keys(c) : ev.ts >= c.lastPrio
<1>1. PICK n \in Nat : CalFull(c, n)
  BY DEF CalGood
<1>2. CalOK(c, n) /\ CalTyped(c, n) /\ Scanning(c, n) /\ Filing(c, n)
  BY <1>1 DEF CalFull, CalOK
<1>3. DOMAIN c.buckets = 0 .. n - 1 /\ c.lastPrio \in Nat
  BY <1>2, CalFields
<1>4. c.qSize = Cardinality(Calendar!Slots(c))
  BY <1>1, AsManySlots DEF CalFull
<1>5. ASSUME NEW b \in 0 .. n - 1, NEW ev \in Elems(c.buckets[b])
      PROVE  b = Calendar!Hash(c, ev.ts) /\ ev.ts >= c.lastPrio
  <2>1. FiledIn(c, n, b, ev)
    BY <1>2 DEF Filing
  <2>2. Elems(c.buckets[b]) \subseteq Key
    BY <1>2, CalKeys
  <2>3. ev.ts \in Nat
    BY <2>2 DEF Key
  <2> QED
    BY <1>2, <2>1, <2>3, HomeOf DEF FiledIn
<1>6. c.lastBucket = Calendar!Hash(c, c.lastPrio)
  BY <1>2, <1>3, HomeOf DEF Scanning
<1>7. c.bucketTop = (c.lastPrio \div c.width + 1) * c.width
  BY <1>2 DEF Scanning
<1>8. ASSUME NEW ev \in Calendar!Keys(c) PROVE ev.ts >= c.lastPrio
  <2>1. PICK b \in 0 .. n - 1 : ev \in Elems(c.buckets[b])
    BY <1>2, CalKeys
  <2> QED
    BY <1>5, <2>1
<1> QED
  BY <1>3, <1>4, <1>5, <1>6, <1>7, <1>8

-----------------------------------------------------------------------------
(* The invariant.                                                          *)

Now == Listed(kind, m_events)

Held == /\ IsFiniteSet(Now) /\ Now \subseteq Key /\ Distinct(Now)
        /\ \A e \in Now : e.uid < uid

\* The event that was taken last is not listed again.
LastGone == last \notin Now /\ last.uid < uid

Kept == /\ kind \in AnyKind /\ uid \in Nat /\ last \in Key
        /\ Good(kind, m_events) /\ Held /\ LastGone
        /\ From(kind, m_events) <= last.ts
        /\ InOrder => Tidy(kind, m_events)

LEMMA KindsAre == Kinds \subseteq AnyKind
BY EventListsAssumption DEF AnyKind

LEMMA TimesAre == \A ts \in Times : ts \in Nat
BY EventListsAssumption

\* What a step does to the listed events, as the contract says it.
ByContract == InOrder' => EventList!Next \/ UNCHANGED EventList!vars

LEMMA InitKept == Init => Kept /\ EventList!Init
<1> SUFFICES ASSUME Init PROVE Kept /\ EventList!Init
  OBVIOUS
<1>1. kind \in AnyKind /\ m_events = Empty(kind) /\ uid = 4
      /\ last = [ts |-> 0, uid |-> 0]
  BY KindsAre DEF Init, VALID, INVALID
<1>2. /\ Good(kind, m_events) /\ Tidy(kind, m_events) /\ Now = {}
      /\ From(kind, m_events) = 0
  BY <1>1, EmptyIs DEF Now
<1>3. last \in Key /\ last.ts = 0
  BY <1>1 DEF Key
<1>4. Held
  BY <1>2, FS_EmptySet DEF Held, Distinct
<1>5. LastGone
  BY <1>1, <1>2 DEF LastGone
<1>6. EventList!Init
  BY <1>1, <1>2 DEF Now, EventList!Init, EventList!INVALID
<1> QED
  BY <1>1, <1>2, <1>3, <1>4, <1>5, <1>6 DEF Kept

LEMMA InsertKeeps ==
  ASSUME Kept, NEW ts \in Times, Insert(ts)
  PROVE  Kept' /\ ByContract /\ SetSchedulerKeeps
<1>1. PICK ev : ev = [ts |-> ts, uid |-> uid]
  OBVIOUS
<1>2. /\ KeyLess(last, ev) /\ m_events' = InsertInto(kind, m_events, ev)
      /\ uid' = uid + 1 /\ kind' = kind /\ last' = last /\ removed' = removed
  BY <1>1 DEF Insert
<1>3. ev \in Key /\ ev.ts \in Nat /\ ev.uid = uid
  BY <1>1, TimesAre DEF Kept, Key
<1>4. ev \notin Now /\ \A e \in Now : e.uid # ev.uid
  <2>1. \A e \in Now : e.uid \in Nat /\ e.uid < uid
    BY DEF Kept, Held, Key
  <2>2. uid \in Nat
    BY DEF Kept
  <2>3. \A e \in Now : e.uid # uid
    BY <2>1, <2>2
  <2> QED
    BY <1>3, <2>3
<1>5. ev.ts >= From(kind, m_events)
  <2>1. last.ts \in Nat /\ last.ts <= ev.ts
    BY <1>2, <1>3 DEF Kept, Key, KeyLess
  <2>2. From(kind, m_events) \in Nat
    BY ListedKeys DEF Kept
  <2> QED
    BY <1>3, <2>1, <2>2 DEF Kept
<1>6. /\ Good(kind, m_events')
      /\ Tidy(kind, m_events) => Tidy(kind, m_events')
      /\ Listed(kind, m_events') = Now \cup {ev}
      /\ From(kind, m_events') = From(kind, m_events)
  BY <1>2, <1>3, <1>4, <1>5, InsertIs DEF Kept, Now
<1>7. Now' = Now \cup {ev}
  BY <1>2, <1>6 DEF Now
<1>8. Held'
  <2>1. IsFiniteSet(Now \cup {ev})
    <3>1. PICK S : S = Now
      OBVIOUS
    <3>2. IsFiniteSet(S \cup {ev})
      BY <3>1, FS_AddElement DEF Kept, Held
    <3> QED
      BY <3>1, <3>2
  <2>2. Now \cup {ev} \subseteq Key /\ Distinct(Now \cup {ev})
    BY <1>3, <1>4 DEF Kept, Held, Distinct
  <2>3. \A e \in Now \cup {ev} : e.uid < uid + 1
    <3>1. \A e \in Now : e.uid \in Nat /\ e.uid < uid
      BY DEF Kept, Held, Key
    <3>2. uid \in Nat
      BY DEF Kept
    <3> QED
      BY <1>3, <3>1, <3>2
  <2> QED
    BY <1>2, <1>7, <2>1, <2>2, <2>3 DEF Held
<1>9. LastGone'
  <2>1. last.uid \in Nat /\ last.uid < uid /\ uid \in Nat /\ last \notin Now
    BY DEF Kept, Key, LastGone
  <2>2. last # ev
    BY <1>3, <2>1
  <2> QED
    BY <1>2, <1>7, <2>1, <2>2 DEF LastGone
<1>10. InOrder' => Tidy(kind', m_events')
  BY <1>2, <1>6 DEF Kept, InOrder
<1>11. ByContract
  <2>1. EventList!KeyLess(last, ev)
    BY <1>2 DEF EventList!KeyLess, KeyLess
  <2>2. EventList!Insert(ev)
    BY <1>2, <1>4, <1>7, <2>1 DEF EventList!Insert, Now
  <2>3. ev \in Listed(kind, m_events)' \ Listed(kind, m_events)
    BY <1>4, <1>7 DEF Now
  <2> QED
    BY <2>2, <2>3 DEF ByContract, EventList!Next
<1>12. SetSchedulerKeeps
  <2>1. uid' # uid
    BY <1>2 DEF Kept
  <2> QED
    BY <2>1 DEF SetSchedulerKeeps
<1> QED
  BY <1>2, <1>6, <1>8, <1>9, <1>10, <1>11, <1>12 DEF Kept

\* The listed events without one of them.
LEMMA Fewer ==
  ASSUME Kept, NEW ev, Now' = Now \ {ev}, uid' = uid
  PROVE  Held'
<1>1. IsFiniteSet(Now \ {ev})
  <2>1. PICK S : S = Now
    OBVIOUS
  <2>2. IsFiniteSet(S \ {ev})
    BY <2>1, FS_Subset DEF Kept, Held
  <2> QED
    BY <2>1, <2>2
<1>2. Now \ {ev} \subseteq Key /\ Distinct(Now \ {ev})
      /\ \A e \in Now \ {ev} : e.uid < uid
  BY DEF Kept, Held, Distinct
<1> QED
  BY <1>1, <1>2 DEF Held

LEMMA RemoveNextKeeps ==
  ASSUME Kept, RemoveNext
  PROVE  Kept' /\ ByContract /\ SetSchedulerKeeps
<1>1. PICK r : r = RemoveNextFrom(kind, m_events)
  OBVIOUS
<1>2. /\ last' = r.event /\ m_events' = r.list
      /\ kind' = kind /\ uid' = uid /\ removed' = removed
      /\ Listed(kind, m_events) # {}
  BY <1>1 DEF RemoveNext, IsEmpty
<1>3. /\ r.event \in Now /\ Good(kind, r.list)
      /\ Listed(kind, r.list) = Now \ {r.event}
      /\ Tidy(kind, m_events) => IsEarliest(r.event, Now) /\ Tidy(kind, r.list)
      /\ From(kind, r.list) = IF kind = "calendar" THEN r.event.ts ELSE 0
  BY <1>1, <1>2, RemoveNextIs DEF Kept, Now
<1>4. Now' = Now \ {r.event}
  BY <1>2, <1>3 DEF Now
<1>5. r.event \in Key
  BY <1>3 DEF Kept, Held
<1>6. From(kind, r.list) <= r.event.ts
  BY <1>3, <1>5 DEF Key
<1>7. Held'
  BY <1>2, <1>4, Fewer
<1>8. LastGone'
  BY <1>2, <1>3, <1>4 DEF Kept, Held, LastGone
<1>9. Kept'
  BY <1>2, <1>3, <1>5, <1>6, <1>7, <1>8 DEF Kept, InOrder
<1>10. ByContract
  <2> SUFFICES ASSUME InOrder' PROVE EventList!Next
    BY DEF ByContract
  <2>1. IsEarliest(r.event, Now)
    BY <1>2, <1>3 DEF Kept, InOrder
  <2>2. EventList!IsEarliest(r.event, Now)
    BY <2>1 DEF EventList!IsEarliest, IsEarliest, EventList!KeyLess, KeyLess
  <2>3. EventList!RemoveNext(r.event)
    BY <1>2, <1>4, <2>2 DEF EventList!RemoveNext, Now
  <2> QED
    BY <1>3, <2>3 DEF EventList!Next, Now
<1>11. SetSchedulerKeeps
  <2> SUFFICES ASSUME UNCHANGED <<uid, last>>, ~removed'
               PROVE  UNCHANGED Now
    BY DEF SetSchedulerKeeps, Now
  <2>1. last # r.event
    BY <1>3 DEF Kept, LastGone
  <2> QED
    BY <1>2, <2>1
<1> QED
  BY <1>9, <1>10, <1>11

LEMMA RemoveAnyKeeps ==
  ASSUME Kept, RemoveAny
  PROVE  Kept' /\ ByContract /\ SetSchedulerKeeps
<1>1. PICK ev \in Now : m_events' = RemoveFrom(kind, m_events, ev)
  BY DEF RemoveAny, Now
<1>2. removed' = TRUE /\ kind' = kind /\ last' = last /\ uid' = uid
  BY DEF RemoveAny
<1>3. /\ Good(kind, m_events') /\ Listed(kind, m_events') = Now \ {ev}
      /\ From(kind, m_events') = From(kind, m_events)
  BY <1>1, RemoveIs DEF Kept, Held, Now
<1>4. Now' = Now \ {ev}
  BY <1>2, <1>3 DEF Now
<1>5. Held' /\ LastGone'
  BY <1>2, <1>4, Fewer DEF Kept, LastGone
<1>6. Kept'
  BY <1>2, <1>3, <1>5 DEF Kept, InOrder, Tidy
<1>7. ByContract
  <2>1. EventList!Remove(ev)
    BY <1>2, <1>4 DEF EventList!Remove, Now
  <2> QED
    BY <1>1, <2>1 DEF ByContract, EventList!Next, Now
<1>8. SetSchedulerKeeps
  BY <1>2 DEF SetSchedulerKeeps
<1> QED
  BY <1>6, <1>7, <1>8

LEMMA SetSchedulerStep ==
  ASSUME Kept, NEW to \in Kinds, SetScheduler(to)
  PROVE  Kept' /\ ByContract /\ SetSchedulerKeeps
<1>1. /\ m_events' = Moved(kind, m_events, to) /\ kind' = to /\ removed' = FALSE
      /\ last' = last /\ uid' = uid /\ to \in AnyKind
  BY KindsAre DEF SetScheduler
<1>2. /\ Good(to, m_events') /\ Tidy(to, m_events') /\ Listed(to, m_events') = Now
      /\ From(to, m_events') = 0
  BY <1>1, MovedIs DEF Kept, Held, Now
<1>3. Now' = Now
  BY <1>1, <1>2 DEF Now
<1>4. Held' /\ LastGone'
  BY <1>1, <1>3 DEF Kept, Held, LastGone
<1>5. From(to, m_events') <= last.ts
  BY <1>2 DEF Kept, Key
<1>6. Kept'
  BY <1>1, <1>2, <1>4, <1>5 DEF Kept
<1>7. ByContract
  BY <1>1, <1>3 DEF ByContract, EventList!vars, Now
<1>8. SetSchedulerKeeps
  BY <1>3 DEF SetSchedulerKeeps, Now
<1> QED
  BY <1>6, <1>7, <1>8

\* Every step keeps the invariant and the contract.
LEMMA NextKeeps ==
  ASSUME Kept, [Next]_vars
  PROVE  Kept' /\ [ByContract]_vars /\ [SetSchedulerKeeps]_vars
<1>1. CASE UNCHANGED vars
  BY <1>1 DEF vars, Kept, Held, Now, InOrder, LastGone
<1>2. CASE Next
  BY <1>2, InsertKeeps, RemoveNextKeeps, RemoveAnyKeeps, SetSchedulerStep DEF Next
<1> QED
  BY <1>1, <1>2

LEMMA AlwaysKept == Spec => []Kept
<1>1. Kept /\ [Next]_vars => Kept'
  BY NextKeeps
<1>2. Init => Kept
  BY InitKept
<1> QED
  BY <1>1, <1>2, PTL DEF Spec

-----------------------------------------------------------------------------
(* The theorems.                                                           *)

LEMMA KeptFiled == Kept => FiledAndInScan
<1> SUFFICES ASSUME Kept, kind = "calendar"
             PROVE  LET c == m_events
                    IN /\ c.qSize = Cardinality(Calendar!Slots(c))
                       /\ \A b \in DOMAIN c.buckets :
                            \A ev \in ToSet(c.buckets[b]) :
                              b = Calendar!Hash(c, ev.ts)
                       /\ c.lastBucket = Calendar!Hash(c, c.lastPrio)
                       /\ c.bucketTop = (c.lastPrio \div c.width + 1) * c.width
                       /\ \A ev \in Calendar!Keys(c) : ev.ts >= c.lastPrio
  BY DEF FiledAndInScan
<1>1. CalGood(m_events)
  BY DEF Kept, Good
<1>2. \A s : ToSet(s) = Elems(s)
  BY DEF ToSet, Elems
<1> QED
  BY <1>1, <1>2, CalendarScan

LEMMA KeptEarliest == Kept /\ InOrder => PeekIsEarliest
<1> SUFFICES ASSUME Kept, InOrder, Listed(kind, m_events) # {}
             PROVE  IsEarliest(PeekIn(kind, m_events), Listed(kind, m_events))
  BY DEF PeekIsEarliest, IsEmpty
<1>1. PICK r : r = RemoveNextFrom(kind, m_events)
  OBVIOUS
<1> QED
  BY <1>1, RemoveNextIs DEF Kept

\* CalendarScheduler keeps every event in the bucket where Remove looks for it,
\* counts its events right and starts its scan on the day of the last event,
\* for any time stamps, widths and resizings.
THEOREM FiledAndInScanCorrect == Spec => []FiledAndInScan
BY AlwaysKept, KeptFiled, PTL

\* Every implementation of Scheduler keeps the contract of scheduler.h, a heap
\* until its first Remove: RemoveNext takes the earliest event, the one that
\* PeekNext shows, no operation loses or doubles an event, and
\* DefaultSimulatorImpl::SetScheduler changes none.
THEOREM SchedulerContractCorrect == Spec => SchedulerContract
<1>1. Spec => EventList!Init
  BY InitKept DEF Spec
<1>2. Kept /\ [Next]_vars
        => [InOrder' => EventList!Next \/ UNCHANGED EventList!vars]_vars
  BY NextKeeps DEF ByContract
<1>3. Kept /\ [Next]_vars => [SetSchedulerKeeps]_vars
  BY NextKeeps
<1> QED
  BY <1>1, <1>2, <1>3, AlwaysKept, KeptEarliest, PTL DEF Spec, SchedulerContract

=============================================================================
