---------------------------- MODULE HeapScheduler ----------------------------
(***************************************************************************)
(* The event list as a binary heap: class HeapScheduler of                 *)
(* src/core/model/heap-scheduler.cc.  A heap is the sequence of the keys   *)
(* in m_heap, heap[1] the root; the unused first element of the C++ vector *)
(* is left out.  EventLists drives the operations.                         *)
(***************************************************************************)
EXTENDS EventKey, Naturals, SequencesExt

Parent(i) == i \div 2
LeftChild(i) == 2 * i
RightChild(i) == 2 * i + 1
IsBottom(heap, i) == i > Len(heap)
IsLessStrictly(heap, a, b) == KeyLess(heap[a], heap[b])
Smallest(heap, a, b) == IF IsLessStrictly(heap, a, b) THEN a ELSE b
Exch(heap, a, b) == [heap EXCEPT ![a] = heap[b], ![b] = heap[a]]

\* One round of the loop of BottomUp, on the heap and the index; it ends by
\* leaving both alone.
Rise(s) ==
  IF s.index # 1 /\ IsLessStrictly(s.heap, s.index, Parent(s.index))
  THEN [heap |-> Exch(s.heap, s.index, Parent(s.index)),
        index |-> Parent(s.index)]
  ELSE s

\* Percolate the event at index up until its parent is not later.  The index
\* becomes smaller in every round.
BottomUp(heap, index) ==
  LET up[k \in 0 .. index] == IF k = 0 THEN [heap |-> heap, index |-> index]
                              ELSE Rise(up[k - 1])
  IN up[index].heap

\* One round of the loop of TopDown.  The last parent may have a left child
\* only.
Sink(s) ==
  LET left  == LeftChild(s.index)
      right == RightChild(s.index)
      tmp   == IF IsBottom(s.heap, right) THEN left
               ELSE Smallest(s.heap, left, right)
  IN IF IsBottom(s.heap, left) \/ IsLessStrictly(s.heap, s.index, tmp) THEN s
     ELSE [heap |-> Exch(s.heap, s.index, tmp), index |-> tmp]

\* Percolate the event at index down until no child is earlier.  The index
\* becomes larger in every round.
TopDown(heap, index) ==
  LET down[k \in 0 .. Len(heap)] ==
        IF k = 0 THEN [heap |-> heap, index |-> index] ELSE Sink(down[k - 1])
  IN down[Len(heap)].heap

\* The heap without its element i: the last one takes its place and goes down.
TakeOut(heap, i) == TopDown(Front(Exch(heap, i, Len(heap))), i)

-----------------------------------------------------------------------------
EmptyHeap == <<>>
Insert(heap, ev) == BottomUp(Append(heap, ev), Len(heap) + 1)
PeekNext(heap) == heap[1]
RemoveNext(heap) == [event |-> heap[1], list |-> TakeOut(heap, 1)]

\* Remove the event, which is found by its uid.
RemoveEvent(heap, ev) ==
  TakeOut(heap, CHOOSE i \in DOMAIN heap : heap[i].uid = ev.uid)

=============================================================================
