------------------------------ MODULE EventLists ------------------------------
(***************************************************************************)
(* The calendar, the sorted list and the heap side by side, for one        *)
(* simulator that gives out the uids.  Each has its own idea of which      *)
(* event was the last one.                                                 *)
(***************************************************************************)
EXTENDS CalendarScheduler

VARIABLES m_events, listCurrent, m_heap, heapCurrent

List == INSTANCE ListScheduler WITH current <- listCurrent
Heap == INSTANCE HeapScheduler WITH current <- heapCurrent

\* The sorted list keeps the contract of the Scheduler interface.
ListImplementsQueue == List!ImplementsQueue

\* The heap keeps the contract of the Scheduler interface, as long as it is
\* too small for Remove to break it.
HeapImplementsQueue == Heap!ImplementsQueue

\* The calendar keeps the contract of the Scheduler interface, through every
\* change of the number and the width of its buckets.
CalendarImplementsQueue == ImplementsQueue
===============================================================================
