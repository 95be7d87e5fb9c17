----------------------------- MODULE ListScheduler -----------------------------
(***************************************************************************)
(* ListScheduler: the event list as a std::list that Insert keeps sorted.  *)
(***************************************************************************)
EXTENDS EventKey, SequencesExt

VARIABLES
  m_events,   \* the list
  m_uid,      \* the uid of the simulator's next event
  current     \* the event that the simulator took last

vars == <<m_events, m_uid, current>>

Init == m_events = <<>> /\ m_uid = 4 /\ current = NoEvent

\* The first place whose event is later than e, or the end.  The mutant lets
\* e overtake the events of its own time.
PositionByTime(e) ==
  CHOOSE i \in 1 .. Len(m_events) + 1 :
    /\ i = Len(m_events) + 1 \/ e.ts <= m_events[i].ts
    /\ \A j \in 1 .. i - 1 : e.ts > m_events[j].ts
Position(e) ==
  CHOOSE i \in 1 .. Len(m_events) + 1 :
    /\ i = Len(m_events) + 1 \/ Less(e, m_events[i])
    /\ \A j \in 1 .. i - 1 : ~Less(e, m_events[j])

Insert(ts) ==
  /\ ts >= current.ts
  /\ m_uid < MaxUid /\ Len(m_events) < Capacity
  /\ LET e == [ts |-> ts, uid |-> m_uid]
     IN  m_events' = InsertAt(m_events, Position(e), e)
  /\ m_uid' = m_uid + 1
  /\ UNCHANGED current

RemoveNext ==
  /\ m_events # <<>>
  /\ current' = Head(m_events)
  /\ m_events' = Tail(m_events)
  /\ UNCHANGED m_uid

\* Simulator::Remove of the event at place i
RemoveEvent(i) ==
  /\ m_events' = RemoveAt(m_events, i)
  /\ UNCHANGED <<m_uid, current>>

\* The bounds are reached.
Done == m_events = <<>> /\ m_uid = MaxUid /\ UNCHANGED vars

Next ==
  \/ \E ts \in 0 .. MaxTime : Insert(ts)
  \/ RemoveNext
  \/ \E i \in 1 .. Len(m_events) : RemoveEvent(i)
  \/ Done

Spec == Init /\ [][Next]_vars
-------------------------------------------------------------------------------
\* The list holds keys, and so does the current event.
TypeOK ==
  /\ m_events \in Seq(Key)
  /\ m_uid \in Nat
  /\ current \in Key

Queue == INSTANCE EventQueue WITH queue <- ToSet(m_events)

\* The list keeps the contract of the Scheduler interface: RemoveNext returns
\* the earliest event, whatever was inserted and removed before.
ImplementsQueue == Queue!Spec

\* The inductive invariant: the list is sorted, and the uids are in use.
Sorted ==
  /\ TypeOK
  /\ \A i \in 1 .. Len(m_events) : m_events[i].uid < m_uid
  /\ \A i, j \in 1 .. Len(m_events) : i < j => Less(m_events[i], m_events[j])
===============================================================================
