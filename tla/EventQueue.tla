------------------------------ MODULE EventQueue ------------------------------
(***************************************************************************)
(* What the Scheduler interface of src/ns-3.16/src/core promises to the    *)
(* simulators, whichever of its implementations holds the event list: a    *)
(* set of events from which RemoveNext takes the earliest, events of the   *)
(* same time in the order of their uids, which is the order in which they  *)
(* were scheduled.  The caller is a simulator: it schedules nothing before *)
(* the time of the event it took last, and removes only events it has in   *)
(* the list.                                                               *)
(***************************************************************************)
EXTENDS EventKey

VARIABLES
  queue,      \* the events in the list
  m_uid,      \* the uid of the next event
  current     \* the event that RemoveNext returned last

vars == <<queue, m_uid, current>>

Init ==
  /\ queue = {}
  /\ m_uid = 4
  /\ current = NoEvent

Insert(ts) ==
  /\ ts >= current.ts
  /\ queue' = queue \cup {[ts |-> ts, uid |-> m_uid]}
  /\ m_uid' = m_uid + 1
  /\ UNCHANGED current

RemoveNext ==
  \E e \in queue :
    /\ \A f \in queue : f = e \/ Less(e, f)
    /\ queue' = queue \ {e}
    /\ current' = e
    /\ UNCHANGED m_uid

Remove(e) ==
  /\ e \in queue
  /\ queue' = queue \ {e}
  /\ UNCHANGED <<m_uid, current>>

Next ==
  \/ \E ts \in 0 .. MaxTime : Insert(ts)
  \/ RemoveNext
  \/ \E e \in queue : Remove(e)

Spec == Init /\ [][Next]_vars
-------------------------------------------------------------------------------
\* The types of the event list, its uid counter and the current event.
TypeOK ==
  /\ queue \subseteq Key
  /\ m_uid \in Nat
  /\ current \in Key

\* What both simulators assert when they take an event, m_ts >= m_currentTs,
\* however insertions and removals alternate; and among events of one time
\* the order of scheduling is kept.
NothingBeforeCurrent == \A e \in queue : Less(current, e)

\* The inductive invariant: uids are given out in ascending order.
QueueInv ==
  /\ TypeOK
  /\ \A e \in queue : e.uid < m_uid
  /\ current.uid < m_uid
  /\ NothingBeforeCurrent
===============================================================================
