----------------------------- MODULE MCSchedulers -----------------------------
(***************************************************************************)
(* The sorted list, the heap and the calendar under the same simulator:    *)
(* every call is made to all of them.                                      *)
(***************************************************************************)
EXTENDS EventLists

allVars == <<vars, m_events, listCurrent, m_heap, heapCurrent>>

AllInit == Init /\ List!Init /\ Heap!Init

AllInsert(ts) == Insert(ts) /\ List!Insert(ts) /\ Heap!Insert(ts)
AllRemoveNext == RemoveNext /\ List!RemoveNext /\ Heap!RemoveNext
AllRemove(i) ==
  /\ List!RemoveEvent(i)
  /\ Heap!RemoveEvent(CHOOSE j \in 1 .. Len(m_heap) : m_heap[j] = m_events[i])
  /\ RemoveEvent(m_events[i])
AllDone == Done /\ List!Done /\ Heap!Done
\* The calendar has ended the process.
AllAborted == aborted /\ UNCHANGED allVars

AllNext ==
  \/ \E ts \in 0 .. MaxTime : AllInsert(ts)
  \/ AllRemoveNext
  \/ \E i \in 1 .. Len(m_events) : AllRemove(i)
  \/ AllDone
  \/ AllAborted

AllSpec == AllInit /\ [][AllNext]_allVars
===============================================================================
