----------------------------- MODULE HeapScheduler -----------------------------
(***************************************************************************)
(* HeapScheduler: the event list as a binary heap in a vector.  The wasted *)
(* item at index 0 is left out: sequences start at 1.                      *)
(***************************************************************************)
EXTENDS EventKey, SequencesExt

VARIABLES
  m_heap,     \* the heap
  m_uid,      \* the uid of the simulator's next event
  current     \* the event that the simulator took last

vars == <<m_heap, m_uid, current>>

Init == m_heap = <<>> /\ m_uid = 4 /\ current = NoEvent

Parent(i) == i \div 2
LeftChild(i) == 2 * i
RightChild(i) == 2 * i + 1

Exch(h, a, b) == [h EXCEPT ![a] = h[b], ![b] = h[a]]

\* A loop over the heap: the items and the index.  The item at the index rises
\* if it is earlier than its parent; after as many turns as there are items it
\* has nowhere left to go.
Rise(x) ==
  IF x.index # 1 /\ Less(x.heap[x.index], x.heap[Parent(x.index)])
  THEN [heap |-> Exch(x.heap, x.index, Parent(x.index)), index |-> Parent(x.index)]
  ELSE x
Rises(h, i) ==
  LET turn[k \in 0 .. Len(h)] == IF k = 0 THEN [heap |-> h, index |-> i] ELSE Rise(turn[k - 1])
  IN  turn
BottomUp(h, i) == Rises(h, i)[Len(h)].heap

\* The child that an item at i is compared with.  The mutant never looks right.
SmallestLeft(h, i) == LeftChild(i)
Smallest(h, i) ==
  IF RightChild(i) <= Len(h) /\ ~Less(h[LeftChild(i)], h[RightChild(i)])
  THEN RightChild(i) ELSE LeftChild(i)

\* The item at the index sinks if a child is earlier; the index may be past the end.
Sink(x) ==
  IF LeftChild(x.index) > Len(x.heap) \/ Less(x.heap[x.index], x.heap[Smallest(x.heap, x.index)])
  THEN x
  ELSE [heap |-> Exch(x.heap, x.index, Smallest(x.heap, x.index)), index |-> Smallest(x.heap, x.index)]
Sinks(h, i) ==
  LET turn[k \in 0 .. Len(h)] == IF k = 0 THEN [heap |-> h, index |-> i] ELSE Sink(turn[k - 1])
  IN  turn
TopDown(h, i) == Sinks(h, i)[Len(h)].heap

Insert(ts) ==
  /\ ts >= current.ts
  /\ m_uid < MaxUid /\ Len(m_heap) < Capacity
  /\ m_heap' = BottomUp(Append(m_heap, [ts |-> ts, uid |-> m_uid]), Len(m_heap) + 1)
  /\ m_uid' = m_uid + 1
  /\ UNCHANGED current

\* The last item takes the place of the one at i, and sinks from there.
Extract(i) == TopDown(Front(Exch(m_heap, i, Len(m_heap))), i)

RemoveNext ==
  /\ m_heap # <<>>
  /\ current' = m_heap[1]
  /\ m_heap' = Extract(1)
  /\ UNCHANGED m_uid

\* Simulator::Remove of the event at index i
RemoveEvent(i) ==
  /\ m_heap' = Extract(i)
  /\ UNCHANGED <<m_uid, current>>

\* The bounds are reached.
Done == m_heap = <<>> /\ m_uid = MaxUid /\ UNCHANGED vars

Next ==
  \/ \E ts \in 0 .. MaxTime : Insert(ts)
  \/ RemoveNext
  \/ \E i \in 1 .. Len(m_heap) : RemoveEvent(i)
  \/ Done

Spec == Init /\ [][Next]_vars
-------------------------------------------------------------------------------
\* The heap holds keys, and so does the current event.
TypeOK ==
  /\ m_heap \in Seq(Key)
  /\ m_uid \in Nat
  /\ current \in Key

Queue == INSTANCE EventQueue WITH queue <- ToSet(m_heap)

\* The heap keeps the contract of the Scheduler interface: RemoveNext returns
\* the earliest event, whatever was inserted and removed before.
ImplementsQueue == Queue!Spec

\* What the simulators assert of the events that they take, m_ts >= m_currentTs,
\* of all events that they are going to take: none lies before the clock.
NothingBeforeClock == \A i \in 1 .. Len(m_heap) : m_heap[i].ts >= current.ts
-------------------------------------------------------------------------------
(* The inductive invariant behind the contract *)

\* No item is earlier than its parent, and none is held twice.
HeapOrdered(h) ==
  /\ \A i \in 2 .. Len(h) : ~Less(h[i], h[Parent(i)])
  /\ \A i, j \in 1 .. Len(h) : h[i] = h[j] => i = j

HeapInv ==
  /\ TypeOK
  /\ Len(m_heap) <= Capacity
  /\ \A i \in 1 .. Len(m_heap) : m_heap[i].uid < m_uid
  /\ HeapOrdered(m_heap)

\* What Remove at i takes for granted: the last item, which fills the gap, is
\* not earlier than the item above the gap.
FillerFits(i) ==
  \/ i = 1 \/ i = Len(m_heap)
  \/ ~Less(m_heap[Len(m_heap)], m_heap[Parent(i)])

\* Remove is only called where that is so.
FittingRemoves == [][\A i \in 1 .. Len(m_heap) : RemoveEvent(i) => FillerFits(i)]_vars
===============================================================================
