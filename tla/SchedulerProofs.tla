---------------------------- MODULE SchedulerProofs ----------------------------
(***************************************************************************)
(* Proofs about the event lists, for every number of events: the contract  *)
(* of the Scheduler interface implies the order that the simulators        *)
(* assert; ListScheduler and CalendarScheduler keep the contract, and      *)
(* HeapScheduler keeps it as long as Remove does not bring an item below a *)
(* later one.                                                              *)
(***************************************************************************)
EXTENDS EventLists, RecursionLemmas, FiniteSetTheorems, TLAPS

-------------------------------------------------------------------------------
(* The contract *)

VARIABLE queue   \* the events in the list, whatever holds them

Contract == INSTANCE EventQueue

LEMMA InitQueueInv == Contract!Init => Contract!QueueInv
BY KeyAssumption DEF Contract!Init, Contract!QueueInv, Contract!TypeOK, Contract!NothingBeforeCurrent,
                     Contract!Key, Contract!NoEvent, Contract!Less

LEMMA StepQueueInv == Contract!QueueInv /\ [Contract!Next]_(Contract!vars) => Contract!QueueInv'
<1> SUFFICES ASSUME Contract!QueueInv, [Contract!Next]_(Contract!vars) PROVE Contract!QueueInv'
  OBVIOUS
<1> USE KeyAssumption DEF Contract!QueueInv, Contract!TypeOK, Contract!Key
<1>1. ASSUME NEW ts \in 0 .. MaxTime, Contract!Insert(ts) PROVE Contract!QueueInv'
  <2> DEFINE new == [ts |-> ts, uid |-> m_uid]
  <2>1. new \in Contract!Key /\ queue' = queue \cup {new} /\ m_uid' = m_uid + 1
        /\ current' = current
    BY <1>1 DEF Contract!Insert
  <2>2. Contract!Less(current, new)
    BY <1>1 DEF Contract!Insert, Contract!Less
  <2>3. QED
    BY <2>1, <2>2 DEF Contract!NothingBeforeCurrent, Contract!Less
<1>2. ASSUME Contract!RemoveNext PROVE Contract!QueueInv'
  <2>1. PICK e \in queue : /\ \A f \in queue : f = e \/ Contract!Less(e, f)
                           /\ queue' = queue \ {e}
                           /\ current' = e
                           /\ m_uid' = m_uid
    BY <1>2 DEF Contract!RemoveNext
  <2>2. QED
    BY <2>1 DEF Contract!NothingBeforeCurrent, Contract!Less
<1>3. ASSUME NEW e \in queue, Contract!Remove(e) PROVE Contract!QueueInv'
  BY <1>3 DEF Contract!Remove, Contract!NothingBeforeCurrent, Contract!Less
<1>4. CASE UNCHANGED Contract!vars
  BY <1>4 DEF Contract!vars, Contract!NothingBeforeCurrent, Contract!Less
<1>5. QED
  BY <1>1, <1>2, <1>3, <1>4 DEF Contract!Next

\* Whatever is scheduled and removed, the event list holds nothing that comes
\* before the event being processed: time never runs backwards, and events of
\* the same time are processed in the order in which they were scheduled.
THEOREM TimeMovesForward == Contract!Spec => []Contract!NothingBeforeCurrent
<1>1. Contract!QueueInv => Contract!NothingBeforeCurrent
  BY DEF Contract!QueueInv
<1>2. QED
  BY <1>1, InitQueueInv, StepQueueInv, PTL DEF Contract!Spec

-------------------------------------------------------------------------------
(* The sorted list *)

\* What InsertAt returns: the list, with e between its two parts.
LEMMA Inserted ==
  ASSUME NEW S, NEW s \in Seq(S), NEW e \in S, NEW p \in 1 .. Len(s) + 1
  PROVE  /\ List!InsertAt(s, p, e) \in Seq(S)
         /\ Len(List!InsertAt(s, p, e)) = Len(s) + 1
         /\ \A i \in 1 .. Len(s) + 1 : List!InsertAt(s, p, e)[i] =
              IF i < p THEN s[i] ELSE IF i = p THEN e ELSE s[i - 1]
<1> DEFINE a == SubSeq(s, 1, p - 1)
           b == SubSeq(s, p, Len(s))
           c == a \o <<e>>
<1>1. a \in Seq(S) /\ Len(a) = p - 1 /\ \A i \in 1 .. p - 1 : a[i] = s[i]
  BY Part
<1>2. b \in Seq(S) /\ Len(b) = Len(s) - p + 1
      /\ \A i \in 1 .. Len(s) - p + 1 : b[i] = s[p + i - 1]
  BY Part
<1>3. List!InsertAt(s, p, e) = c \o b
  BY DEF List!InsertAt
<1> HIDE DEF a, b
<1>4. c \in Seq(S) /\ Len(c) = p /\ \A i \in 1 .. p : c[i] = IF i < p THEN s[i] ELSE e
  BY <1>1
<1> HIDE DEF c
<1>5. /\ c \o b \in Seq(S)
      /\ Len(c \o b) = Len(s) + 1
      /\ \A i \in 1 .. Len(s) + 1 : (c \o b)[i] = IF i <= p THEN c[i] ELSE b[i - p]
  BY <1>2, <1>4, Joined
<1>6. \A i \in p + 1 .. Len(s) + 1 : b[i - p] = s[i - 1]
  BY <1>2
<1>7. QED
  BY <1>3, <1>4, <1>5, <1>6

\* In a sorted list there is a place to insert at: the first later event, or
\* the end.
LEMMA PositionExists ==
  ASSUME List!Sorted, NEW e \in List!Key
  PROVE  /\ List!Position(e) \in 1 .. Len(m_events) + 1
         /\ List!Position(e) = Len(m_events) + 1 \/ List!Less(e, m_events[List!Position(e)])
         /\ \A j \in 1 .. List!Position(e) - 1 : ~List!Less(e, m_events[j])
<1> DEFINE Later(i) == i = Len(m_events) + 1 \/ List!Less(e, m_events[i])
           P == {i \in 1 .. Len(m_events) + 1 : Later(i)}
<1>1. Len(m_events) \in Nat
  BY DEF List!Sorted, List!TypeOK
<1>2. PICK i \in P : \A j \in P : i <= j
  <2>1. P \in SUBSET Nat /\ Len(m_events) + 1 \in P
    BY <1>1
  <2> HIDE DEF P
  <2>2. QED
    BY <2>1, LeastNat
<1>3. \A j \in 1 .. i - 1 : ~List!Less(e, m_events[j])
  BY <1>1, <1>2
<1>4. QED
  <2> DEFINE Q(k) == /\ k = Len(m_events) + 1 \/ List!Less(e, m_events[k])
                     /\ \A j \in 1 .. k - 1 : ~List!Less(e, m_events[j])
  <2>1. i \in 1 .. Len(m_events) + 1 /\ Q(i)
    BY <1>2, <1>3
  <2>2. List!Position(e) = CHOOSE k \in 1 .. Len(m_events) + 1 : Q(k)
    BY DEF List!Position
  <2> HIDE DEF Q
  <2>3. List!Position(e) \in 1 .. Len(m_events) + 1 /\ Q(List!Position(e))
    BY <2>1, <2>2, Zenon
  <2>4. QED
    BY <2>3 DEF Q

-------------------------------------------------------------------------------
(* The list stays sorted. *)

LEMMA InitSorted == List!Init => List!Sorted
BY KeyAssumption DEF List!Init, List!Sorted, List!TypeOK, List!Key, List!NoEvent

LEMMA LessTransitive ==
  ASSUME NEW e \in List!Key, NEW f \in List!Key, NEW g \in List!Key, List!Less(e, f), List!Less(f, g)
  PROVE  List!Less(e, g)
BY DEF List!Less, List!Key

\* The key of a new event is later than every key of its time.
LEMMA InsertSorted ==
  ASSUME List!Sorted, NEW ts \in 0 .. MaxTime, List!Insert(ts)
  PROVE  List!Sorted'
<1> DEFINE e == [ts |-> ts, uid |-> m_uid]
           p == List!Position(e)
<1>1. m_events \in Seq(List!Key) /\ m_uid \in Nat /\ e \in List!Key /\ Len(m_events) \in Nat
  BY KeyAssumption DEF List!Sorted, List!TypeOK, List!Key
<1>2. /\ p \in 1 .. Len(m_events) + 1
      /\ p = Len(m_events) + 1 \/ List!Less(e, m_events[p])
      /\ \A j \in 1 .. p - 1 : ~List!Less(e, m_events[j])
  BY <1>1, PositionExists
<1>3. m_events' = List!InsertAt(m_events, p, e) /\ m_uid' = m_uid + 1 /\ listCurrent' = listCurrent
  BY DEF List!Insert
<1> HIDE DEF e, p
<1>4. /\ m_events' \in Seq(List!Key)
      /\ Len(m_events') = Len(m_events) + 1
      /\ \A i \in 1 .. Len(m_events) + 1 : m_events'[i] =
           IF i < p THEN m_events[i] ELSE IF i = p THEN e ELSE m_events[i - 1]
  <2>1. /\ List!InsertAt(m_events, p, e) \in Seq(List!Key)
        /\ Len(List!InsertAt(m_events, p, e)) = Len(m_events) + 1
        /\ \A i \in 1 .. Len(m_events) + 1 : List!InsertAt(m_events, p, e)[i] =
             IF i < p THEN m_events[i] ELSE IF i = p THEN e ELSE m_events[i - 1]
    <3>1. m_events \in Seq(List!Key) /\ e \in List!Key /\ p \in 1 .. Len(m_events) + 1
      BY <1>1, <1>2
    <3>2. QED
      BY <3>1, Inserted, SMTT(60)
  <2>2. QED
    BY <1>3, <2>1
<1>5. \A i \in 1 .. Len(m_events) : m_events[i] \in List!Key /\ m_events[i].uid < m_uid
  BY <1>1 DEF List!Sorted
<1>6. \A i \in 1 .. p - 1 : List!Less(m_events[i], e)
  <2>1. ASSUME NEW i \in 1 .. p - 1 PROVE List!Less(m_events[i], e)
    <3>1. i \in 1 .. Len(m_events) /\ ~List!Less(e, m_events[i])
      BY <1>1, <1>2
    <3>2. m_events[i] \in List!Key /\ m_events[i].uid < m_uid
      BY <1>5, <3>1
    <3>3. m_events[i].ts \in Int /\ m_events[i].uid \in Int /\ ts \in Int /\ m_uid \in Int
      BY <1>1, <3>2, KeyAssumption DEF List!Key
    <3>4. QED
      BY <3>1, <3>2, <3>3 DEF List!Less, e
  <2>2. QED
    BY <2>1
<1>7. \A i \in p .. Len(m_events) : List!Less(e, m_events[i])
  <2>1. ASSUME NEW i \in p .. Len(m_events) PROVE List!Less(e, m_events[i])
    <3>1. List!Less(e, m_events[p])
      BY <1>1, <1>2
    <3>2. i = p \/ List!Less(m_events[p], m_events[i])
      BY <1>1, <1>2 DEF List!Sorted
    <3>3. QED
      BY <1>1, <1>2, <1>5, <3>1, <3>2, LessTransitive
  <2>2. QED
    BY <2>1
<1>8. ASSUME NEW i \in 1 .. Len(m_events'), NEW j \in 1 .. Len(m_events'), i < j
      PROVE  List!Less(m_events'[i], m_events'[j])
  <2>1. CASE j < p
    <3>1. /\ i \in 1 .. Len(m_events) /\ j \in 1 .. Len(m_events)
          /\ m_events'[i] = m_events[i] /\ m_events'[j] = m_events[j]
      BY <1>1, <1>2, <1>4, <1>8, <2>1
    <3>2. QED
      BY <1>1, <1>8, <3>1 DEF List!Sorted
  <2>2. CASE j = p
    <3>1. i \in 1 .. p - 1 /\ m_events'[i] = m_events[i] /\ m_events'[j] = e
      BY <1>1, <1>2, <1>4, <1>8, <2>2
    <3>2. QED
      BY <1>6, <3>1
  <2>3. CASE i = p
    <3>1. j - 1 \in p .. Len(m_events) /\ m_events'[j] = m_events[j - 1] /\ m_events'[i] = e
      BY <1>1, <1>2, <1>4, <1>8, <2>3
    <3>2. QED
      BY <1>7, <3>1
  <2>4. CASE i < p /\ j > p
    <3>1. /\ j - 1 \in p .. Len(m_events) /\ m_events'[j] = m_events[j - 1]
          /\ i \in 1 .. p - 1 /\ m_events'[i] = m_events[i]
      BY <1>1, <1>2, <1>4, <1>8, <2>4
    <3>2. m_events[i] \in List!Key /\ m_events[j - 1] \in List!Key
      BY <1>1, <1>2, <1>5, <3>1
    <3>3. QED
      BY <1>1, <1>6, <1>7, <3>1, <3>2, LessTransitive
  <2>5. CASE i > p
    <3>1. /\ j - 1 \in 1 .. Len(m_events) /\ m_events'[j] = m_events[j - 1]
          /\ i - 1 \in 1 .. Len(m_events) /\ m_events'[i] = m_events[i - 1]
          /\ i - 1 < j - 1
      BY <1>1, <1>2, <1>4, <1>8, <2>5
    <3>2. QED
      BY <3>1 DEF List!Sorted
  <2>6. QED
    BY <1>1, <1>2, <1>4, <1>8, <2>1, <2>2, <2>3, <2>4, <2>5
<1>9. ASSUME NEW i \in 1 .. Len(m_events') PROVE m_events'[i].uid < m_uid'
  <2>1. CASE i = p
    BY <1>1, <1>3, <1>4, <2>1 DEF e
  <2>2. CASE i # p
    <3>1. PICK k \in 1 .. Len(m_events) : m_events'[i] = m_events[k]
      <4>1. CASE i < p
        <5>1. i \in 1 .. Len(m_events) /\ i \in 1 .. Len(m_events) + 1
          BY <1>1, <1>2, <1>4, <4>1
        <5>2. m_events'[i] = m_events[i]
          BY <1>4, <4>1, <5>1
        <5>3. QED
          BY <5>1, <5>2
      <4>2. CASE i > p
        <5>1. i - 1 \in 1 .. Len(m_events) /\ m_events'[i] = m_events[i - 1]
          BY <1>1, <1>2, <1>4, <4>2
        <5>2. QED
          BY <5>1
      <4>3. QED
        BY <1>2, <2>2, <4>1, <4>2
    <3>2. m_events[k] \in List!Key /\ m_events[k].uid < m_uid
      BY <1>5
    <3>3. m_events[k].uid \in Nat
      BY <3>2 DEF List!Key
    <3>4. m_events[k].uid < m_uid + 1
      BY <1>1, <3>2, <3>3
    <3>5. QED
      BY <1>3, <3>1, <3>4
  <2>3. QED
    BY <2>1, <2>2
<1>10. List!TypeOK'
  BY <1>1, <1>3, <1>4 DEF List!Sorted, List!TypeOK
<1>11. QED
  BY <1>8, <1>9, <1>10 DEF List!Sorted

\* What Tail and Head hold, without a detour over sequences of length 0.
LEMMA NextTaken ==
  ASSUME List!Sorted, List!RemoveNext
  PROVE  /\ Len(m_events) \in Nat \ {0}
         /\ m_events' \in Seq(List!Key)
         /\ Len(m_events') = Len(m_events) - 1
         /\ \A i \in 1 .. Len(m_events) - 1 : m_events'[i] = m_events[i + 1]
         /\ listCurrent' = m_events[1]
         /\ m_uid' = m_uid
<1>1. m_events \in Seq(List!Key) /\ m_events # <<>>
  BY DEF List!Sorted, List!TypeOK, List!RemoveNext
<1>2. QED
  BY <1>1 DEF List!RemoveNext

LEMMA StepSorted == List!Sorted /\ [List!Next]_(List!vars) => List!Sorted'
<1> SUFFICES ASSUME List!Sorted, [List!Next]_(List!vars) PROVE List!Sorted'
  OBVIOUS
<1>1. ASSUME NEW ts \in 0 .. MaxTime, List!Insert(ts) PROVE List!Sorted'
  BY <1>1, InsertSorted
<1>2. ASSUME List!RemoveNext PROVE List!Sorted'
  <2>1. m_events \in Seq(List!Key)
    BY DEF List!Sorted, List!TypeOK
  <2>2. \A i \in 1 .. Len(m_events') : i + 1 \in 1 .. Len(m_events) /\ m_events'[i] = m_events[i + 1]
    BY <1>2, NextTaken
  <2>3. List!TypeOK'
    BY <1>2, <2>1, NextTaken DEF List!Sorted, List!TypeOK
  <2>4. \A i, j \in 1 .. Len(m_events') : i < j => List!Less(m_events'[i], m_events'[j])
    BY <1>2, <2>2, NextTaken DEF List!Sorted
  <2>5. QED
    BY <1>2, <2>2, <2>3, <2>4, NextTaken DEF List!Sorted
<1>3. ASSUME NEW p \in 1 .. Len(m_events), List!RemoveEvent(p) PROVE List!Sorted'
  <2>1. m_events \in Seq(List!Key) /\ m_events' = Without(m_events, p)
        /\ m_uid' = m_uid /\ listCurrent' = listCurrent
    BY <1>3 DEF List!Sorted, List!TypeOK, List!RemoveEvent, List!RemoveAt, Without
  <2>2. /\ m_events' \in Seq(List!Key)
        /\ Len(m_events') = Len(m_events) - 1
        /\ \A i \in 1 .. Len(m_events) - 1 : m_events'[i] =
             IF i < p THEN m_events[i] ELSE m_events[i + 1]
    BY <2>1, Removed
  <2>3. List!TypeOK'
    BY <2>1, <2>2 DEF List!Sorted, List!TypeOK
  <2>4. \A i \in 1 .. Len(m_events') : m_events'[i].uid < m_uid'
    BY <2>1, <2>2 DEF List!Sorted
  <2>5. \A i, j \in 1 .. Len(m_events') : i < j => List!Less(m_events'[i], m_events'[j])
    BY <2>1, <2>2 DEF List!Sorted
  <2>6. QED
    BY <2>3, <2>4, <2>5 DEF List!Sorted
<1>4. CASE UNCHANGED List!vars
  BY <1>4 DEF List!vars, List!Sorted, List!TypeOK
<1>5. CASE List!Done
  BY <1>5 DEF List!Done, List!vars, List!Sorted, List!TypeOK
<1>6. QED
  BY <1>1, <1>2, <1>3, <1>4, <1>5 DEF List!Next

-------------------------------------------------------------------------------
(* Every step is one of the event queue. *)

LEMMA Members ==
  ASSUME NEW S, NEW s \in Seq(S)
  PROVE  \A x : x \in List!ToSet(s) <=> \E i \in 1 .. Len(s) : x = s[i]
BY DEF List!ToSet

\* In a sorted list no event is held twice.
LEMMA Distinct ==
  ASSUME List!Sorted, NEW i \in 1 .. Len(m_events), NEW j \in 1 .. Len(m_events), i # j
  PROVE  m_events[i] # m_events[j]
<1>1. i < j \/ j < i
  OBVIOUS
<1>2. m_events[i] \in List!Key /\ m_events[j] \in List!Key
  BY DEF List!Sorted, List!TypeOK
<1>3. List!Less(m_events[i], m_events[j]) \/ List!Less(m_events[j], m_events[i])
  BY <1>1 DEF List!Sorted
<1>4. QED
  BY <1>2, <1>3 DEF List!Less, List!Key

LEMMA InsertRefines ==
  ASSUME List!Sorted, NEW ts \in 0 .. MaxTime, List!Insert(ts)
  PROVE  List!Queue!Insert(ts)
<1> DEFINE e == [ts |-> ts, uid |-> m_uid]
           p == List!Position(e)
<1>1. m_events \in Seq(List!Key) /\ e \in List!Key /\ Len(m_events) \in Nat
  BY KeyAssumption DEF List!Sorted, List!TypeOK, List!Key
<1>2. p \in 1 .. Len(m_events) + 1
  BY <1>1, PositionExists
<1>3. m_events' = List!InsertAt(m_events, p, e)
  BY DEF List!Insert
<1> HIDE DEF p
<1>4. List!ToSet(m_events') = List!ToSet(m_events) \cup {e}
  <2> HIDE DEF e
  <2>1. /\ m_events' \in Seq(List!Key)
        /\ Len(m_events') = Len(m_events) + 1
        /\ \A i \in 1 .. Len(m_events) + 1 : m_events'[i] =
             IF i < p THEN m_events[i] ELSE IF i = p THEN e ELSE m_events[i - 1]
    <3>1. /\ List!InsertAt(m_events, p, e) \in Seq(List!Key)
          /\ Len(List!InsertAt(m_events, p, e)) = Len(m_events) + 1
          /\ \A i \in 1 .. Len(m_events) + 1 : List!InsertAt(m_events, p, e)[i] =
               IF i < p THEN m_events[i] ELSE IF i = p THEN e ELSE m_events[i - 1]
      <4>1. m_events \in Seq(List!Key) /\ e \in List!Key /\ p \in 1 .. Len(m_events) + 1
        BY <1>1, <1>2
      <4>2. QED
        BY <4>1, Inserted, SMTT(60)
    <3>2. QED
      BY <1>3, <3>1
  <2>2. ASSUME NEW x \in List!ToSet(m_events') PROVE x \in List!ToSet(m_events) \cup {e}
    <3>1. PICK i \in 1 .. Len(m_events) + 1 : x = m_events'[i]
      BY <2>1, <2>2, Members
    <3>2. CASE i = p
      BY <2>1, <3>1, <3>2, <1>2
    <3>3. CASE i < p
      <4>1. i \in 1 .. Len(m_events) /\ x = m_events[i]
        BY <1>1, <1>2, <2>1, <3>1, <3>3
      <4>2. QED
        BY <1>1, <4>1, Members
    <3>4. CASE i > p
      <4>1. i - 1 \in 1 .. Len(m_events) /\ x = m_events[i - 1]
        BY <1>1, <1>2, <2>1, <3>1, <3>4
      <4>2. QED
        BY <1>1, <4>1, Members
    <3>5. QED
      BY <1>2, <3>2, <3>3, <3>4
  <2>3. e \in List!ToSet(m_events')
    <3>1. p \in 1 .. Len(m_events') /\ m_events'[p] = e
      BY <1>1, <1>2, <2>1
    <3>2. QED
      BY <2>1, <3>1, Members
  <2>4. ASSUME NEW x \in List!ToSet(m_events) PROVE x \in List!ToSet(m_events')
    <3>1. PICK i \in 1 .. Len(m_events) : x = m_events[i]
      BY <1>1, <2>4, Members
    <3>2. CASE i < p
      <4>1. i \in 1 .. Len(m_events') /\ x = m_events'[i]
        BY <1>1, <1>2, <2>1, <3>1, <3>2
      <4>2. QED
        BY <2>1, <4>1, Members
    <3>3. CASE i >= p
      <4>1. i + 1 \in 1 .. Len(m_events') /\ i + 1 \in 1 .. Len(m_events) + 1
            /\ ~(i + 1 < p) /\ i + 1 # p /\ (i + 1) - 1 = i
        BY <1>1, <1>2, <2>1, <3>1, <3>3
      <4>2. x = m_events'[i + 1]
        BY <2>1, <3>1, <4>1
      <4>3. QED
        BY <2>1, <4>1, <4>2, Members
    <3>4. QED
      BY <1>2, <3>2, <3>3
  <2>5. QED
    BY <2>2, <2>3, <2>4
<1>5. QED
  BY <1>4 DEF List!Insert, List!Queue!Insert

LEMMA RemoveNextRefines ==
  ASSUME List!Sorted, List!RemoveNext
  PROVE  List!Queue!RemoveNext
<1>1. m_events \in Seq(List!Key)
  BY DEF List!Sorted, List!TypeOK
<1> DEFINE e == m_events[1]
<1>2. 1 \in 1 .. Len(m_events) /\ Len(m_events) \in Nat
  BY NextTaken
<1>3. e \in List!ToSet(m_events)
  BY <1>1, <1>2, Members
<1>4. ASSUME NEW f \in List!ToSet(m_events) PROVE f = e \/ List!Less(e, f)
  <2>1. PICK i \in 1 .. Len(m_events) : f = m_events[i]
    BY <1>1, Members
  <2>2. QED
    BY <1>2, <2>1 DEF List!Sorted
<1>5. List!ToSet(m_events') = List!ToSet(m_events) \ {e}
  <2>1. /\ m_events' \in Seq(List!Key) /\ Len(m_events') = Len(m_events) - 1
        /\ \A i \in 1 .. Len(m_events) - 1 : m_events'[i] = m_events[i + 1]
    BY NextTaken
  <2>2. ASSUME NEW x \in List!ToSet(m_events') PROVE x \in List!ToSet(m_events) \ {e}
    <3>1. PICK i \in 1 .. Len(m_events) - 1 : x = m_events'[i]
      BY <2>1, Members
    <3>2. i + 1 \in 1 .. Len(m_events) /\ i + 1 # 1 /\ x = m_events[i + 1]
      BY <1>2, <2>1, <3>1
    <3>3. QED
      BY <1>1, <1>2, <3>2, Members, Distinct
  <2>3. ASSUME NEW x \in List!ToSet(m_events) \ {e} PROVE x \in List!ToSet(m_events')
    <3>1. PICK i \in 1 .. Len(m_events) : x = m_events[i]
      BY <1>1, Members
    <3>2. i - 1 \in 1 .. Len(m_events') /\ i - 1 \in 1 .. Len(m_events) - 1 /\ (i - 1) + 1 = i
      BY <1>2, <2>1, <2>3, <3>1
    <3>3. x = m_events'[i - 1]
      BY <2>1, <3>1, <3>2
    <3>4. QED
      BY <2>1, <3>2, <3>3, Members
  <2>4. QED
    BY <2>2, <2>3
<1>6. listCurrent' = e /\ m_uid' = m_uid
  BY NextTaken
<1>7. QED
  BY <1>3, <1>4, <1>5, <1>6 DEF List!Queue!RemoveNext, List!Queue!Less, List!Less

LEMMA RemoveRefines ==
  ASSUME List!Sorted, NEW p \in 1 .. Len(m_events), List!RemoveEvent(p)
  PROVE  List!Queue!Remove(m_events[p]) /\ m_events[p] \in List!ToSet(m_events)
<1>1. m_events \in Seq(List!Key) /\ Len(m_events) \in Nat /\ m_events' = Without(m_events, p)
      /\ m_uid' = m_uid /\ listCurrent' = listCurrent
  BY DEF List!Sorted, List!TypeOK, List!RemoveEvent, List!RemoveAt, Without
<1>2. m_events[p] \in List!ToSet(m_events)
  BY <1>1, Members
<1>3. /\ m_events' \in Seq(List!Key)
      /\ Len(m_events') = Len(m_events) - 1
      /\ \A i \in 1 .. Len(m_events) - 1 : m_events'[i] =
           IF i < p THEN m_events[i] ELSE m_events[i + 1]
  BY <1>1, Removed
<1>4. ASSUME NEW x \in List!ToSet(m_events') PROVE x \in List!ToSet(m_events) \ {m_events[p]}
  <2>1. PICK i \in 1 .. Len(m_events) - 1 : x = m_events'[i]
    BY <1>3, <1>4, Members
  <2>2. PICK k \in 1 .. Len(m_events) : k # p /\ x = m_events[k]
    <3>1. CASE i < p
      BY <1>1, <1>3, <2>1, <3>1
    <3>2. CASE ~(i < p)
      <4>1. i + 1 \in 1 .. Len(m_events) /\ i + 1 # p /\ x = m_events[i + 1]
        BY <1>1, <1>3, <2>1, <3>2
      <4>2. QED
        BY <4>1
    <3>3. QED
      BY <3>1, <3>2
  <2>3. QED
    BY <1>1, <2>2, Members, Distinct
<1>5. ASSUME NEW x \in List!ToSet(m_events) \ {m_events[p]} PROVE x \in List!ToSet(m_events')
  <2>1. PICK i \in 1 .. Len(m_events) : i # p /\ x = m_events[i]
    BY <1>1, <1>5, Members
  <2>2. CASE i < p
    <3>1. i \in 1 .. Len(m_events') /\ x = m_events'[i]
      BY <1>1, <1>3, <2>1, <2>2
    <3>2. QED
      BY <1>3, <3>1, Members
  <2>3. CASE i > p
    <3>1. i - 1 \in 1 .. Len(m_events') /\ i - 1 \in 1 .. Len(m_events) - 1
          /\ ~(i - 1 < p) /\ (i - 1) + 1 = i
      BY <1>1, <1>3, <2>1, <2>3
    <3>2. x = m_events'[i - 1]
      BY <1>3, <2>1, <3>1
    <3>3. QED
      BY <1>3, <3>1, <3>2, Members
  <2>4. QED
    BY <2>1, <2>2, <2>3
<1>6. List!ToSet(m_events') = List!ToSet(m_events) \ {m_events[p]}
  BY <1>4, <1>5
<1>7. QED
  BY <1>1, <1>2, <1>6 DEF List!Queue!Remove

\* The sorted list keeps the contract of the Scheduler interface, for lists of
\* every length: what Run takes next is always the earliest event.
THEOREM ListKeepsContract == List!Spec => ListImplementsQueue
<1>1. List!Init => List!Queue!Init
  BY DEF List!Init, List!Queue!Init, List!ToSet, List!Queue!NoEvent, List!NoEvent
<1>2. List!Sorted /\ [List!Next]_(List!vars) => [List!Queue!Next]_(List!Queue!vars)
  <2> SUFFICES ASSUME List!Sorted, [List!Next]_(List!vars) PROVE [List!Queue!Next]_(List!Queue!vars)
    OBVIOUS
  <2>1. ASSUME NEW ts \in 0 .. MaxTime, List!Insert(ts) PROVE List!Queue!Next
    BY <2>1, InsertRefines DEF List!Queue!Next
  <2>2. ASSUME List!RemoveNext PROVE List!Queue!Next
    BY <2>2, RemoveNextRefines DEF List!Queue!Next
  <2>3. ASSUME NEW p \in 1 .. Len(m_events), List!RemoveEvent(p) PROVE List!Queue!Next
    BY <2>3, RemoveRefines DEF List!Queue!Next
  <2>4. CASE UNCHANGED List!vars
    BY <2>4 DEF List!vars, List!Queue!vars
  <2>5. CASE List!Done
    BY <2>5 DEF List!Done, List!vars, List!Queue!vars
  <2>6. QED
    BY <2>1, <2>2, <2>3, <2>4, <2>5 DEF List!Next
<1>3. QED
  BY <1>1, <1>2, InitSorted, StepSorted, PTL DEF List!Spec, ListImplementsQueue, List!ImplementsQueue,
     List!Queue!Spec

-------------------------------------------------------------------------------
(* Buckets: an event is put at its place, or taken. *)

LEMMA Holds ==
  ASSUME NEW s \in Seq(Key)
  PROVE  /\ \A x : x \in ToSet(s) <=> \E i \in 1 .. Len(s) : x = s[i]
         /\ ToSet(s) \subseteq Key
BY DEF ToSet

LEMMA LessFacts ==
  ASSUME NEW e \in Key, NEW f \in Key
  PROVE  /\ e # f => Less(e, f) \/ Less(f, e)
         /\ Less(e, f) => ~Less(f, e) /\ e # f /\ e.ts <= f.ts
         /\ \A g \in Key : Less(e, f) /\ Less(f, g) => Less(e, g)
BY DEF Less, Key

LEMMA PutInOrder ==
  ASSUME NEW s \in Seq(Key), InOrder(s), NEW e \in Key, e \notin ToSet(s),
         NEW p \in 1 .. Len(s) + 1, NEW b \in Seq(Key), Len(b) = Len(s) + 1,
         \A i \in 1 .. Len(s) + 1 : b[i] = IF i < p THEN s[i] ELSE IF i = p THEN e ELSE s[i - 1],
         \A j \in 1 .. p - 1 : ~Less(e, s[j]),
         p = Len(s) + 1 \/ Less(e, s[p])
  PROVE  InOrder(b) /\ ToSet(b) = ToSet(s) \cup {e}
<1>1. Len(s) \in Nat /\ \A i \in 1 .. Len(s) : s[i] \in Key /\ s[i] # e
  BY Holds
<1>2. ASSUME NEW j \in 1 .. p - 1 PROVE Less(s[j], e)
  <2>1. j \in 1 .. Len(s) /\ ~Less(e, s[j])
    BY <1>1
  <2> QED
    BY <1>1, <2>1, LessFacts
<1>3. ASSUME NEW j \in p .. Len(s) PROVE Less(e, s[j])
  <2>1. Less(e, s[p]) /\ p \in 1 .. Len(s) /\ j \in 1 .. Len(s)
    BY <1>1
  <2>2. j = p \/ Less(s[p], s[j])
    BY <1>1, <2>1 DEF InOrder
  <2> QED
    BY <1>1, <2>1, <2>2, LessFacts
<1>4. InOrder(b)
  <2> SUFFICES ASSUME NEW i \in 1 .. Len(s) + 1, NEW j \in 1 .. Len(s) + 1, i < j
               PROVE  Less(b[i], b[j])
    BY DEF InOrder
  <2>1. CASE j < p
    <3> i \in 1 .. Len(s) /\ j \in 1 .. Len(s) /\ b[i] = s[i] /\ b[j] = s[j]
      BY <1>1, <2>1
    <3> QED
      BY DEF InOrder
  <2>2. CASE j = p
    <3> i \in 1 .. p - 1 /\ b[i] = s[i] /\ b[j] = e
      BY <1>1, <2>2
    <3> QED
      BY <1>2
  <2>3. CASE i < p /\ j > p
    <3>1. i \in 1 .. p - 1 /\ j - 1 \in p .. Len(s) /\ b[i] = s[i] /\ b[j] = s[j - 1]
      BY <1>1, <2>3
    <3>2. i \in 1 .. Len(s) /\ j - 1 \in 1 .. Len(s) /\ i < j - 1
      BY <1>1, <2>3
    <3> QED
      BY <3>1, <3>2 DEF InOrder
  <2>4. CASE i = p
    <3> j - 1 \in p .. Len(s) /\ b[i] = e /\ b[j] = s[j - 1]
      BY <1>1, <2>4
    <3> QED
      BY <1>3
  <2>5. CASE i > p
    <3> i - 1 \in 1 .. Len(s) /\ j - 1 \in 1 .. Len(s) /\ i - 1 < j - 1 /\ b[i] = s[i - 1] /\ b[j] = s[j - 1]
      BY <1>1, <2>5
    <3> QED
      BY DEF InOrder
  <2> QED
    BY <1>1, <2>1, <2>2, <2>3, <2>4, <2>5
<1>5. ASSUME NEW x \in ToSet(b) PROVE x \in ToSet(s) \cup {e}
  <2>1. PICK i \in 1 .. Len(s) + 1 : x = b[i]
    BY Holds
  <2>2. CASE i < p
    <3> i \in 1 .. Len(s) /\ x = s[i]
      BY <1>1, <2>1, <2>2
    <3> QED
      BY Holds
  <2>3. CASE i = p
    BY <2>1, <2>3
  <2>4. CASE i > p
    <3> i - 1 \in 1 .. Len(s) /\ x = s[i - 1]
      BY <1>1, <2>1, <2>4
    <3> QED
      BY Holds
  <2> QED
    BY <2>2, <2>3, <2>4
<1>6. e \in ToSet(b)
  <2> p \in 1 .. Len(b) /\ b[p] = e
    BY <1>1
  <2> QED
    BY Holds
<1>7. ASSUME NEW x \in ToSet(s) PROVE x \in ToSet(b)
  <2>1. PICK i \in 1 .. Len(s) : x = s[i]
    BY Holds
  <2>2. CASE i < p
    <3> i \in 1 .. Len(b) /\ x = b[i]
      BY <1>1, <2>1, <2>2
    <3> QED
      BY Holds
  <2>3. CASE i >= p
    <3>1. i + 1 \in 1 .. Len(b) /\ ~(i + 1 < p) /\ i + 1 # p /\ (i + 1) - 1 = i
      BY <1>1, <2>1, <2>3
    <3>2. x = b[i + 1]
      BY <2>1, <3>1
    <3> QED
      BY <3>1, <3>2, Holds
  <2> QED
    BY <2>2, <2>3
<1> QED
  BY <1>4, <1>5, <1>6, <1>7

LEMMA TakenInOrder ==
  ASSUME NEW s \in Seq(Key), InOrder(s), NEW p \in 1 .. Len(s),
         NEW b \in Seq(Key), Len(b) = Len(s) - 1,
         \A i \in 1 .. Len(s) - 1 : b[i] = IF i < p THEN s[i] ELSE s[i + 1]
  PROVE  InOrder(b) /\ ToSet(b) = ToSet(s) \ {s[p]}
<1>1. Len(s) \in Nat /\ \A i \in 1 .. Len(s) : s[i] \in Key
  OBVIOUS
<1>2. ASSUME NEW i \in 1 .. Len(s), NEW j \in 1 .. Len(s), i # j PROVE s[i] # s[j]
  <2> Less(s[i], s[j]) \/ Less(s[j], s[i])
    BY <1>2 DEF InOrder
  <2> QED
    BY <1>1, LessFacts
<1> DEFINE at(i) == IF i < p THEN i ELSE i + 1
<1>3. ASSUME NEW i \in 1 .. Len(b) PROVE at(i) \in 1 .. Len(s) /\ at(i) # p /\ b[i] = s[at(i)]
  BY <1>1
<1>4. \A i, j \in 1 .. Len(b) : i < j => at(i) < at(j)
  BY <1>1
<1>5. ASSUME NEW i \in 1 .. Len(s), i # p PROVE \E j \in 1 .. Len(b) : s[i] = b[j]
  <2>1. CASE i < p
    <3> i \in 1 .. Len(b) /\ b[i] = s[i]
      BY <1>1, <2>1
    <3> QED
      OBVIOUS
  <2>2. CASE i > p
    <3>1. i - 1 \in 1 .. Len(s) - 1 /\ ~(i - 1 < p) /\ (i - 1) + 1 = i
      BY <1>1, <2>2
    <3> b[i - 1] = s[i]
      BY <3>1
    <3> QED
      BY <3>1
  <2> QED
    BY <1>5, <2>1, <2>2
<1> HIDE DEF at
<1>6. InOrder(b)
  BY <1>3, <1>4 DEF InOrder
<1>7. ASSUME NEW x \in ToSet(b) PROVE x \in ToSet(s) \ {s[p]}
  <2>1. PICK i \in 1 .. Len(b) : x = b[i]
    BY Holds
  <2>2. at(i) \in 1 .. Len(s) /\ at(i) # p /\ x = s[at(i)]
    BY <1>3, <2>1
  <2> QED
    BY <1>2, <2>2, Holds
<1>8. ASSUME NEW x \in ToSet(s) \ {s[p]} PROVE x \in ToSet(b)
  <2>1. PICK i \in 1 .. Len(s) : x = s[i] /\ i # p
    BY Holds
  <2> QED
    BY <1>5, <2>1, Holds
<1> QED
  BY <1>6, <1>7, <1>8

\* What InsertAt returns (List's is the same operator)
LEMMA InsertedAt ==
  ASSUME NEW s \in Seq(Key), NEW e \in Key, NEW p \in 1 .. Len(s) + 1
  PROVE  /\ InsertAt(s, p, e) \in Seq(Key)
         /\ Len(InsertAt(s, p, e)) = Len(s) + 1
         /\ \A i \in 1 .. Len(s) + 1 : InsertAt(s, p, e)[i] =
              IF i < p THEN s[i] ELSE IF i = p THEN e ELSE s[i - 1]
<1>1. InsertAt(s, p, e) = List!InsertAt(s, p, e)
  BY DEF InsertAt, List!InsertAt
<1> QED
  BY <1>1, Inserted, SMTT(40)

\* The place that SelectInSeq finds: the first one with the property.
LEMMA LeastPlace ==
  ASSUME NEW n \in Nat, NEW I \in SUBSET (1 .. n), I # {}
  PROVE  Min(I) \in I /\ \A j \in I : Min(I) <= j
<1>1. PICK i \in I : \A j \in I : i <= j
  <2> I \in SUBSET Nat
    OBVIOUS
  <2> QED
    BY LeastNat
<1> QED
  BY <1>1 DEF Min

Placed(s, e) ==
  LET place == SelectInSeq(s, LAMBDA f : Less(e, f))
  IN  IF place = 0 THEN Append(s, e) ELSE InsertAt(s, place, e)

LEMMA PlacedInOrder ==
  ASSUME NEW s \in Seq(Key), InOrder(s), NEW e \in Key, e \notin ToSet(s)
  PROVE  Placed(s, e) \in Seq(Key) /\ InOrder(Placed(s, e)) /\ ToSet(Placed(s, e)) = ToSet(s) \cup {e}
<1> DEFINE I == {i \in 1 .. Len(s) : Less(e, s[i])}
<1>1. Placed(s, e) = IF (IF I # {} THEN Min(I) ELSE 0) = 0 THEN Append(s, e)
                     ELSE InsertAt(s, IF I # {} THEN Min(I) ELSE 0, e)
  BY DEF Placed, SelectInSeq
<1>2. Len(s) \in Nat /\ I \in SUBSET (1 .. Len(s))
  OBVIOUS
<1>3. CASE I = {}
  <2>1. Placed(s, e) = Append(s, e)
    BY <1>1, <1>3
  <2>2. /\ Append(s, e) \in Seq(Key) /\ Len(Append(s, e)) = Len(s) + 1
        /\ \A i \in 1 .. Len(s) + 1 : Append(s, e)[i] =
             IF i < Len(s) + 1 THEN s[i] ELSE IF i = Len(s) + 1 THEN e ELSE s[i - 1]
    OBVIOUS
  <2>3. \A j \in 1 .. Len(s) : ~Less(e, s[j])
    BY <1>3
  <2> HIDE DEF I
  <2>4. Len(s) + 1 \in 1 .. Len(s) + 1 /\ \A j \in 1 .. (Len(s) + 1) - 1 : ~Less(e, s[j])
    BY <1>2, <2>3
  <2>5. InOrder(Append(s, e)) /\ ToSet(Append(s, e)) = ToSet(s) \cup {e}
    BY <2>2, <2>4, PutInOrder
  <2> QED
    BY <2>1, <2>2, <2>5
<1>4. CASE I # {}
  <2> DEFINE p == Min(I)
  <2>1. p \in I /\ \A j \in I : p <= j
    BY <1>2, <1>4, LeastPlace
  <2>2. p \in 1 .. Len(s) /\ Less(e, s[p]) /\ \A j \in 1 .. p - 1 : ~Less(e, s[j])
    <3> HIDE DEF p
    <3> QED
      BY <1>2, <2>1
  <2>3. Placed(s, e) = InsertAt(s, p, e)
    BY <1>1, <1>4, <2>2
  <2> HIDE DEF p, I
  <2>4. p \in 1 .. Len(s) + 1
    BY <1>2, <2>2
  <2>5. /\ InsertAt(s, p, e) \in Seq(Key) /\ Len(InsertAt(s, p, e)) = Len(s) + 1
        /\ \A i \in 1 .. Len(s) + 1 : InsertAt(s, p, e)[i] =
             IF i < p THEN s[i] ELSE IF i = p THEN e ELSE s[i - 1]
    BY <2>4, InsertedAt
  <2>6. InOrder(InsertAt(s, p, e)) /\ ToSet(InsertAt(s, p, e)) = ToSet(s) \cup {e}
    BY <2>2, <2>4, <2>5, PutInOrder
  <2> QED
    BY <2>3, <2>5, <2>6
<1> QED
  BY <1>3, <1>4

LEMMA TailInOrder ==
  ASSUME NEW s \in Seq(Key), InOrder(s), s # <<>>
  PROVE  /\ Tail(s) \in Seq(Key) /\ InOrder(Tail(s)) /\ ToSet(Tail(s)) = ToSet(s) \ {Head(s)}
         /\ Head(s) \in ToSet(s) /\ \A f \in ToSet(s) : f = Head(s) \/ Less(Head(s), f)
<1>1. /\ Len(s) \in Nat \ {0} /\ Tail(s) \in Seq(Key) /\ Len(Tail(s)) = Len(s) - 1 /\ Head(s) = s[1]
      /\ \A i \in 1 .. Len(s) - 1 : Tail(s)[i] = s[i + 1]
  OBVIOUS
<1>2. 1 \in 1 .. Len(s) /\ \A i \in 1 .. Len(s) - 1 : Tail(s)[i] = IF i < 1 THEN s[i] ELSE s[i + 1]
  BY <1>1
<1>3. InOrder(Tail(s)) /\ ToSet(Tail(s)) = ToSet(s) \ {s[1]}
  BY <1>1, <1>2, TakenInOrder, ZenonT(60)
<1>4. ASSUME NEW f \in ToSet(s) PROVE f = s[1] \/ Less(s[1], f)
  <2>1. PICK i \in 1 .. Len(s) : f = s[i]
    BY Holds
  <2> QED
    BY <1>2, <2>1 DEF InOrder
<1> QED
  BY <1>1, <1>2, <1>3, <1>4, Holds

\* Remove takes the event of the uid, when no other has it.
TakenByUid(s, e) == RemoveAt(s, SelectInSeq(s, LAMBDA f : f.uid = e.uid))

LEMMA TakenByUidInOrder ==
  ASSUME NEW s \in Seq(Key), InOrder(s), NEW e \in ToSet(s), \A f \in ToSet(s) : f.uid = e.uid => f = e
  PROVE  TakenByUid(s, e) \in Seq(Key) /\ InOrder(TakenByUid(s, e)) /\ ToSet(TakenByUid(s, e)) = ToSet(s) \ {e}
<1> DEFINE I == {i \in 1 .. Len(s) : s[i].uid = e.uid}
           p == Min(I)
<1>1. Len(s) \in Nat /\ I \in SUBSET (1 .. Len(s)) /\ I # {}
  BY Holds
<1>2. p \in I
  BY <1>1, LeastPlace
<1>3. p \in 1 .. Len(s) /\ s[p] = e
  BY <1>2, Holds
<1>4. TakenByUid(s, e) = Without(s, p)
  BY <1>1 DEF TakenByUid, SelectInSeq, RemoveAt, Without
<1> HIDE DEF I, p
<1>5. /\ Without(s, p) \in Seq(Key)
      /\ Len(Without(s, p)) = Len(s) - 1
      /\ \A i \in 1 .. Len(s) - 1 : Without(s, p)[i] = IF i < p THEN s[i] ELSE s[i + 1]
  BY <1>3, Removed
<1>6. InOrder(Without(s, p)) /\ ToSet(Without(s, p)) = ToSet(s) \ {s[p]}
  BY <1>3, <1>5, TakenInOrder
<1> QED
  BY <1>3, <1>4, <1>5, <1>6

-------------------------------------------------------------------------------
(* Days: the units of time that a bucket holds.  The bucket of a day is the *)
(* day modulo the number of buckets.                                        *)

LEMMA Days ==
  ASSUME NEW w \in Nat \ {0}, NEW x \in Nat
  PROVE  x \div w \in Nat /\ (x \div w) * w <= x /\ x < (x \div w) * w + w
OBVIOUS

LEMMA Multiples ==
  ASSUME NEW w \in Nat \ {0}, NEW q \in Nat, NEW r \in Nat
  PROVE  /\ q * w \in Nat /\ (q + 1) * w = q * w + w /\ (q + r) * w = q * w + r * w
         /\ (q < r => q * w + w <= r * w)
OBVIOUS

\* The quotient and the remainder are the only ones.
LEMMA Quotient ==
  ASSUME NEW w \in Nat \ {0}, NEW q \in Nat, NEW x \in Nat, q * w <= x, x < q * w + w
  PROVE  x \div w = q /\ x % w = x - q * w
<1>1. x \div w = q
  OBVIOUS
<1>2. x = (x \div w) * w + (x % w) /\ x % w \in Nat
  OBVIOUS
<1> QED
  BY <1>1, <1>2

LEMMA Division ==
  ASSUME NEW w \in Nat \ {0}, NEW x \in Nat
  PROVE  x % w \in 0 .. w - 1 /\ x = (x \div w) * w + (x % w)
<1>1. x \div w \in Nat /\ (x \div w) * w <= x /\ x < (x \div w) * w + w
  BY Days
<1> DEFINE q == x \div w
<1>2. q \in Nat /\ q * w \in Nat
  BY <1>1, Multiples
<1> HIDE DEF q
<1>3. x % w = x - q * w
  BY <1>1, <1>2, Quotient DEF q
<1> QED
  BY <1>1, <1>2, <1>3 DEF q

LEMMA DayOrder ==
  ASSUME NEW w \in Nat \ {0}, NEW x \in Nat, NEW q \in Nat
  PROVE  /\ x < (q + 1) * w => x \div w <= q
         /\ q * w <= x => q <= x \div w
         /\ x \div w <= q => x < (q + 1) * w
         /\ q <= x \div w => q * w <= x
<1> DEFINE r == x \div w
<1>1. r \in Nat /\ r * w <= x /\ x < r * w + w
  BY Days
<1> HIDE DEF r
<1>2. /\ r * w \in Nat /\ q * w \in Nat /\ (q + 1) * w = q * w + w
      /\ (q < r => q * w + w <= r * w) /\ (r < q => r * w + w <= q * w)
  BY <1>1, Multiples
<1>3. r <= q \/ q < r
  BY <1>1
<1>4. /\ x < q * w + w => r <= q
      /\ q * w <= x => q <= r
      /\ r <= q => x < q * w + w
      /\ q <= r => q * w <= x
  BY <1>1, <1>2
<1> QED
  BY <1>2, <1>4 DEF r

\* Going on k buckets from the one of day d
LEMMA BucketOfDay ==
  ASSUME NEW n \in Nat \ {0}, NEW d \in Nat, NEW k \in Nat
  PROVE  ((d % n) + k) % n = (d + k) % n
<1> DEFINE q == d \div n
           r == d % n
           p == (r + k) \div n
           s == (r + k) % n
<1>1. q \in Nat /\ r \in 0 .. n - 1 /\ d = q * n + r
  BY Division, Days
<1> HIDE DEF q, r
<1>2. r + k \in Nat
  BY <1>1
<1>3. p \in Nat /\ s \in 0 .. n - 1 /\ r + k = p * n + s
  BY <1>2, Division, Days
<1> HIDE DEF p, s
<1>4. q * n \in Nat /\ p * n \in Nat /\ (q + p) * n = q * n + p * n /\ q + p \in Nat
  BY <1>1, <1>3, Multiples
<1>5. d + k = (q + p) * n + s
  BY <1>1, <1>3, <1>4
<1>6. (q + p) * n <= d + k /\ d + k < (q + p) * n + n /\ (q + p) * n \in Nat
  BY <1>3, <1>4, <1>5
<1>7. (d + k) % n = (d + k) - (q + p) * n
  <2> d + k \in Nat
    OBVIOUS
  <2> QED
    BY <1>4, <1>6, Quotient
<1>8. (d + k) % n = s
  BY <1>3, <1>4, <1>5, <1>6, <1>7
<1> QED
  BY <1>8 DEF s, r

\* Two days of one bucket within a year are the same.
LEMMA OneDayAYear ==
  ASSUME NEW n \in Nat \ {0}, NEW d \in Nat, NEW e \in Nat, d % n = e % n, d <= e, e < d + n
  PROVE  d = e
<1> DEFINE q == d \div n
           r == d % n
           p == e \div n
<1>1. q \in Nat /\ p \in Nat /\ r \in 0 .. n - 1 /\ d = q * n + r /\ e = p * n + r
  BY Division, Days
<1> HIDE DEF q, r, p
<1>2. q * n \in Nat /\ p * n \in Nat /\ (q < p => q * n + n <= p * n) /\ (p < q => p * n + n <= q * n)
  BY <1>1, Multiples
<1>3. ~(q < p) /\ ~(p < q)
  BY <1>1, <1>2
<1>4. q = p
  BY <1>1, <1>3
<1> QED
  BY <1>1, <1>4

LEMMA HashType ==
  ASSUME NEW n \in Nat \ {0}, NEW w \in Nat \ {0}, NEW x \in Nat
  PROVE  (x \div w) % n \in 0 .. n - 1
BY Days, Division

-------------------------------------------------------------------------------
(* Calendars in good order *)

LEMMA GoodFacts ==
  ASSUME NEW c, InGoodOrder(c)
  PROVE  /\ NBuckets(c) \in Nat \ {0} /\ DOMAIN c.m_buckets = 0 .. NBuckets(c) - 1
         /\ c.m_buckets \in [0 .. NBuckets(c) - 1 -> Seq(Key)]
         /\ c.m_width \in Nat \ {0} /\ c.m_lastPrio \in Nat /\ c.m_lastPrio \in 0 .. MaxTime
         /\ c.m_lastBucket = Hash(c, c.m_lastPrio)
         /\ c.m_bucketTop = (c.m_lastPrio \div c.m_width + 1) * c.m_width
         /\ \A i \in 0 .. NBuckets(c) - 1 : InOrder(c.m_buckets[i])
         /\ \A i \in 0 .. NBuckets(c) - 1 : \A e \in ToSet(c.m_buckets[i]) :
              Hash(c, e.ts) = i /\ c.m_lastPrio <= e.ts
BY KeyAssumption DEF InGoodOrder

LEMMA EventFacts ==
  ASSUME NEW c, InGoodOrder(c)
  PROVE  /\ Events(c) \subseteq Key
         /\ \A e \in Key : e.ts \in Nat /\ Hash(c, e.ts) \in 0 .. NBuckets(c) - 1
         /\ \A e \in Events(c) : e \in ToSet(c.m_buckets[Hash(c, e.ts)]) /\ c.m_lastPrio <= e.ts
         /\ \A i \in 0 .. NBuckets(c) - 1 : ToSet(c.m_buckets[i]) \subseteq Events(c)
<1>1. ASSUME NEW e \in Events(c)
      PROVE  e \in Key /\ e \in ToSet(c.m_buckets[Hash(c, e.ts)]) /\ c.m_lastPrio <= e.ts
  <2>1. PICK i \in 0 .. NBuckets(c) - 1 : e \in ToSet(c.m_buckets[i])
    BY GoodFacts DEF Events
  <2>2. c.m_buckets[i] \in Seq(Key)
    BY GoodFacts
  <2> QED
    BY <2>1, <2>2, GoodFacts, Holds
<1>2. ASSUME NEW e \in Key PROVE e.ts \in Nat /\ Hash(c, e.ts) \in 0 .. NBuckets(c) - 1
  <2>1. e.ts \in Nat
    BY KeyAssumption DEF Key
  <2> QED
    BY <2>1, GoodFacts, HashType DEF Hash
<1>3. ASSUME NEW i \in 0 .. NBuckets(c) - 1 PROVE ToSet(c.m_buckets[i]) \subseteq Events(c)
  BY GoodFacts DEF Events
<1> QED
  BY <1>1, <1>2, <1>3

\* The calendar c with the list s for bucket b, at the time p
Changed(c, b, s, p) ==
  [m_buckets |-> [c.m_buckets EXCEPT ![b] = s],
   m_width |-> c.m_width,
   m_lastPrio |-> p,
   m_lastBucket |-> Hash(c, p),
   m_bucketTop |-> (p \div c.m_width + 1) * c.m_width]

LEMMA ChangedGood ==
  ASSUME NEW c, InGoodOrder(c), NEW b \in 0 .. NBuckets(c) - 1, NEW s \in Seq(Key), InOrder(s),
         \A e \in ToSet(s) : Hash(c, e.ts) = b, NEW p \in 0 .. MaxTime,
         \A e \in (Events(c) \ ToSet(c.m_buckets[b])) \cup ToSet(s) : p <= e.ts
  PROVE  /\ InGoodOrder(Changed(c, b, s, p)) /\ Changed(c, b, s, p).m_lastPrio = p
         /\ NBuckets(Changed(c, b, s, p)) = NBuckets(c)
         /\ Events(Changed(c, b, s, p)) = (Events(c) \ ToSet(c.m_buckets[b])) \cup ToSet(s)
<1> DEFINE d == Changed(c, b, s, p)
           n == NBuckets(c)
           B == [c.m_buckets EXCEPT ![b] = s]
<1>1. /\ n \in Nat \ {0} /\ c.m_width \in Nat \ {0} /\ p \in Nat
      /\ c.m_buckets \in [0 .. n - 1 -> Seq(Key)] /\ DOMAIN c.m_buckets = 0 .. n - 1
  BY GoodFacts, KeyAssumption
<1>2. /\ d.m_buckets = B /\ d.m_width = c.m_width /\ d.m_lastPrio = p
      /\ d.m_lastBucket = Hash(c, p) /\ d.m_bucketTop = (p \div c.m_width + 1) * c.m_width
  BY DEF Changed
<1>3. B \in [0 .. n - 1 -> Seq(Key)] /\ DOMAIN B = DOMAIN c.m_buckets
  BY <1>1
<1>4. B[b] = s /\ \A i \in 0 .. n - 1 : i # b => B[i] = c.m_buckets[i]
  BY <1>1
<1> HIDE DEF B
<1>5. NBuckets(d) = n
  BY <1>2, <1>3 DEF NBuckets
<1>6. \A ts : Hash(d, ts) = Hash(c, ts)
  BY <1>2, <1>5 DEF Hash
<1>7. Events(d) = (Events(c) \ ToSet(c.m_buckets[b])) \cup ToSet(s)
  <2>1. ASSUME NEW e \in Events(d) PROVE e \in (Events(c) \ ToSet(c.m_buckets[b])) \cup ToSet(s)
    <3>1. PICK i \in 0 .. n - 1 : e \in ToSet(B[i])
      BY <1>1, <1>2, <1>3 DEF Events
    <3>2. CASE i = b
      BY <1>4, <3>1, <3>2
    <3>3. CASE i # b
      <4>1. e \in ToSet(c.m_buckets[i])
        BY <1>4, <3>1, <3>3
      <4>2. e \in Events(c) /\ Hash(c, e.ts) = i
        BY <4>1, EventFacts, GoodFacts
      <4>3. e \notin ToSet(c.m_buckets[b])
        BY <3>3, <4>2, GoodFacts
      <4> QED
        BY <4>2, <4>3
    <3> QED
      BY <3>2, <3>3
  <2>2. ASSUME NEW i \in 0 .. n - 1 PROVE ToSet(B[i]) \subseteq Events(d)
    BY <1>1, <1>2, <1>3 DEF Events
  <2>3. ASSUME NEW e \in Events(c) \ ToSet(c.m_buckets[b]) PROVE e \in Events(d)
    <3>1. e \in Key /\ e \in ToSet(c.m_buckets[Hash(c, e.ts)]) /\ Hash(c, e.ts) \in 0 .. n - 1
      BY EventFacts
    <3>2. Hash(c, e.ts) # b
      BY <3>1, <2>3
    <3> QED
      BY <1>4, <2>2, <3>1, <3>2
  <2> HIDE DEF d
  <2> QED
    BY <1>4, <2>1, <2>2, <2>3
<1>8. ASSUME NEW i \in 0 .. n - 1
      PROVE  InOrder(B[i]) /\ \A e \in ToSet(B[i]) : Hash(d, e.ts) = i /\ p <= e.ts
  <2>1. CASE i = b
    BY <1>4, <1>6, <2>1
  <2>2. CASE i # b
    <3>1. B[i] = c.m_buckets[i] /\ InOrder(B[i])
      BY <1>4, <2>2, GoodFacts
    <3>2. ASSUME NEW e \in ToSet(B[i]) PROVE Hash(c, e.ts) = i /\ p <= e.ts
      <4>1. Hash(c, e.ts) = i /\ e \in Events(c)
        BY <3>1, GoodFacts, EventFacts
      <4>2. e \notin ToSet(c.m_buckets[b])
        BY <2>2, <4>1, GoodFacts
      <4> QED
        BY <4>1, <4>2
    <3> QED
      BY <1>6, <3>1, <3>2
  <2> QED
    BY <2>1, <2>2
<1>9. Hash(c, p) \in Nat /\ (p \div c.m_width + 1) * c.m_width \in Nat
  <2>1. Hash(c, p) \in 0 .. n - 1
    BY <1>1, HashType DEF Hash
  <2>2. p \div c.m_width \in Nat
    BY <1>1, Days
  <2>3. p \div c.m_width + 1 \in Nat
    BY <2>2
  <2> QED
    BY <1>1, <2>1, <2>3, Multiples
<1>10. d \in [m_buckets : [0 .. n - 1 -> Seq(Key)], m_width : Nat \ {0},
              m_lastPrio : 0 .. MaxTime, m_lastBucket : Nat, m_bucketTop : Nat]
  BY <1>1, <1>3, <1>9 DEF Changed, B
<1> HIDE DEF d, n
<1>11. InGoodOrder(d)
  BY <1>1, <1>2, <1>5, <1>6, <1>8, <1>10 DEF InGoodOrder
<1> QED
  BY <1>2, <1>5, <1>7, <1>11 DEF d, n

LEMMA OneBucketChanged ==
  ASSUME NEW c, InGoodOrder(c), NEW b, NEW s
  PROVE  [c EXCEPT !.m_buckets[b] = s] = Changed(c, b, s, c.m_lastPrio)
<1>1. c \in [m_buckets : [0 .. NBuckets(c) - 1 -> Seq(Key)], m_width : Nat \ {0},
             m_lastPrio : 0 .. MaxTime, m_lastBucket : Nat, m_bucketTop : Nat]
  BY DEF InGoodOrder
<1>2. /\ c.m_lastBucket = Hash(c, c.m_lastPrio)
      /\ c.m_bucketTop = (c.m_lastPrio \div c.m_width + 1) * c.m_width
  BY GoodFacts
<1> DEFINE B == [c.m_buckets EXCEPT ![b] = s]
           h == Hash(c, c.m_lastPrio)
           t == (c.m_lastPrio \div c.m_width + 1) * c.m_width
<1>3. [c EXCEPT !.m_buckets[b] = s] = [c EXCEPT !.m_buckets = B]
  BY <1>1
<1>4. Changed(c, b, s, c.m_lastPrio) =
        [m_buckets |-> B, m_width |-> c.m_width, m_lastPrio |-> c.m_lastPrio, m_lastBucket |-> h, m_bucketTop |-> t]
  BY DEF Changed
<1> HIDE DEF B, h, t
<1>5. c.m_lastBucket = h /\ c.m_bucketTop = t
  BY <1>2 DEF h, t
<1> QED
  BY <1>1, <1>3, <1>4, <1>5

\* DoInsert adds the event, whatever bucket it goes to.
LEMMA DoInsertGood ==
  ASSUME NEW c, InGoodOrder(c), NEW e \in Key, e \notin Events(c), c.m_lastPrio <= e.ts
  PROVE  /\ InGoodOrder(DoInsert(c, e)) /\ Events(DoInsert(c, e)) = Events(c) \cup {e}
         /\ DoInsert(c, e).m_lastPrio = c.m_lastPrio
<1> DEFINE b == Hash(c, e.ts)
           s == Placed(c.m_buckets[b], e)
<1>1. b \in 0 .. NBuckets(c) - 1 /\ c.m_buckets[b] \in Seq(Key) /\ InOrder(c.m_buckets[b])
  BY EventFacts, GoodFacts
<1>2. e \notin ToSet(c.m_buckets[b])
  BY <1>1, EventFacts
<1>3. s \in Seq(Key) /\ InOrder(s) /\ ToSet(s) = ToSet(c.m_buckets[b]) \cup {e}
  BY <1>1, <1>2, PlacedInOrder
<1>4. DoInsert(c, e) = [c EXCEPT !.m_buckets[b] = s]
  BY DEF DoInsert, Placed
<1>5. [c EXCEPT !.m_buckets[b] = s] = Changed(c, b, s, c.m_lastPrio)
  <2> HIDE DEF b, s
  <2> QED
    BY OneBucketChanged
<1>6. \A f \in ToSet(s) : Hash(c, f.ts) = b
  BY <1>1, <1>3, GoodFacts
<1>7. (Events(c) \ ToSet(c.m_buckets[b])) \cup ToSet(s) = Events(c) \cup {e}
  BY <1>1, <1>3, EventFacts
<1> HIDE DEF b, s
<1>8. \A f \in (Events(c) \ ToSet(c.m_buckets[b])) \cup ToSet(s) : c.m_lastPrio <= f.ts
  BY <1>7, EventFacts
<1>9. c.m_lastPrio \in 0 .. MaxTime
  BY GoodFacts
<1> QED
  BY <1>1, <1>3, <1>4, <1>5, <1>6, <1>7, <1>8, <1>9, ChangedGood, SMTT(40)

-------------------------------------------------------------------------------
(* The search for the next event: from the day of the last one on, bucket by *)
(* bucket, for one year; if nothing is found, among the first of all buckets. *)

LEMMA SearchFacts ==
  ASSUME NEW c, InGoodOrder(c), NEW k \in 0 .. NBuckets(c) - 1
  PROVE  LET d == c.m_lastPrio \div c.m_width
         IN  /\ d \in Nat
             /\ Bucket(c, k) = (d + k) % NBuckets(c) /\ Bucket(c, k) \in 0 .. NBuckets(c) - 1
             /\ BucketTop(c, k) = (d + k + 1) * c.m_width
<1> DEFINE d == c.m_lastPrio \div c.m_width
           n == NBuckets(c)
           w == c.m_width
<1>1. n \in Nat \ {0} /\ w \in Nat \ {0} /\ c.m_lastPrio \in Nat /\ k \in Nat
  BY GoodFacts
<1>2. d \in Nat /\ c.m_lastBucket = d % n /\ c.m_bucketTop = (d + 1) * w
  BY <1>1, GoodFacts, Days DEF Hash
<1>3. Bucket(c, k) = ((d % n) + k) % n
  BY <1>2 DEF Bucket
<1>4. BucketTop(c, k) = (d + 1) * w + k * w
  BY <1>2 DEF BucketTop
<1> HIDE DEF d, n, w
<1>5. ((d % n) + k) % n = (d + k) % n /\ (d + k) % n \in 0 .. n - 1
  <2> d + k \in Nat
    BY <1>1, <1>2
  <2> QED
    BY <1>1, <1>2, BucketOfDay, Division
<1>6. (d + 1) * w + k * w = (d + k + 1) * w
  <2>1. d + 1 \in Nat /\ (d + 1) + k = d + k + 1
    BY <1>1, <1>2
  <2> QED
    BY <1>1, <2>1, Multiples
<1> QED
  BY <1>2, <1>3, <1>4, <1>5, <1>6 DEF d, n, w

\* An event is in a bucket and due this year if and only if it is one of the
\* bucket's day this year.
LEMMA DueDay ==
  ASSUME NEW c, InGoodOrder(c), NEW k \in 0 .. NBuckets(c) - 1, NEW e \in Events(c)
  PROVE  /\ e \in ToSet(c.m_buckets[Bucket(c, k)]) /\ e.ts < BucketTop(c, k)
              => e.ts \div c.m_width = c.m_lastPrio \div c.m_width + k
         /\ e.ts \div c.m_width = c.m_lastPrio \div c.m_width + k
              => e \in ToSet(c.m_buckets[Bucket(c, k)]) /\ e.ts < BucketTop(c, k)
                 /\ Hash(c, e.ts) = Bucket(c, k)
<1> DEFINE d == c.m_lastPrio \div c.m_width
           n == NBuckets(c)
           w == c.m_width
           x == e.ts \div w
<1>1. n \in Nat \ {0} /\ w \in Nat \ {0} /\ c.m_lastPrio \in Nat /\ k \in Nat /\ k < n
  BY GoodFacts
<1>2. e.ts \in Nat /\ c.m_lastPrio <= e.ts /\ Hash(c, e.ts) \in 0 .. n - 1
      /\ e \in ToSet(c.m_buckets[Hash(c, e.ts)])
  BY EventFacts
<1>3. /\ d \in Nat /\ Bucket(c, k) = (d + k) % n /\ Bucket(c, k) \in 0 .. n - 1
      /\ BucketTop(c, k) = (d + k + 1) * w
  BY SearchFacts
<1>4. Hash(c, e.ts) = x % n /\ x \in Nat
  BY <1>1, <1>2, Days DEF Hash
<1>5. d <= x
  <2>1. d * w <= c.m_lastPrio /\ d * w \in Nat
    BY <1>1, <1>3, Days, Multiples
  <2> HIDE DEF d
  <2>2. d * w <= e.ts
    BY <1>1, <1>2, <2>1
  <2> QED
    BY <1>1, <1>2, <1>3, <2>2, DayOrder
<1>6. d + k \in Nat /\ d + k + 1 = (d + k) + 1
  BY <1>1, <1>3
<1> HIDE DEF d
<1>7. ASSUME e \in ToSet(c.m_buckets[Bucket(c, k)]), e.ts < BucketTop(c, k)
      PROVE  x = d + k
  <2>1. x <= d + k
    BY <1>1, <1>2, <1>3, <1>6, <1>7, DayOrder
  <2>2. x % n = (d + k) % n
    BY <1>3, <1>4, <1>7, GoodFacts
  <2> HIDE DEF x, n
  <2>3. d + k < x + n
    BY <1>1, <1>3, <1>4, <1>5
  <2> QED
    BY <1>1, <1>4, <1>6, <2>1, <2>2, <2>3, OneDayAYear
<1>8. ASSUME x = d + k
      PROVE  e \in ToSet(c.m_buckets[Bucket(c, k)]) /\ e.ts < BucketTop(c, k) /\ Hash(c, e.ts) = Bucket(c, k)
  <2>1. Hash(c, e.ts) = Bucket(c, k)
    BY <1>3, <1>4, <1>8
  <2>2. x <= d + k
    BY <1>6, <1>8
  <2>3. e.ts < (d + k + 1) * w
    BY <1>1, <1>2, <1>6, <2>2, DayOrder
  <2> QED
    BY <1>2, <1>3, <2>1, <2>3
<1> QED
  BY <1>7, <1>8 DEF d

\* A set of keys that is not empty has a least one.
LEMMA LeastKey ==
  ASSUME NEW S \in SUBSET Key, S # {}
  PROVE  \E e \in S : \A f \in S \ {e} : Less(e, f)
<1>1. \A e \in S : e \in Key /\ e.ts \in Nat /\ e.uid \in Nat
  BY KeyAssumption DEF Key
<1>2. PICK e \in S : \A f \in S : e.ts <= f.ts
  <2> DEFINE T == {f.ts : f \in S}
  <2>1. T \in SUBSET Nat /\ T # {}
    BY <1>1
  <2>2. PICK x \in T : \A y \in T : x <= y
    <3> HIDE DEF T
    <3> QED
      BY <2>1, LeastNat
  <2> QED
    BY <2>2
<1>3. PICK g \in {f \in S : f.ts = e.ts} : \A f \in S : f.ts = e.ts => g.uid <= f.uid
  <2> DEFINE T == {f.uid : f \in {f \in S : f.ts = e.ts}}
  <2>1. T \in SUBSET Nat /\ T # {}
    BY <1>1
  <2>2. PICK x \in T : \A y \in T : x <= y
    <3> HIDE DEF T
    <3> QED
      BY <2>1, LeastNat
  <2> QED
    BY <2>2
<1>4. ASSUME NEW f \in S \ {g} PROVE Less(g, f)
  <2>1. ~Less(f, g)
    <3>1. g.ts <= f.ts /\ (f.ts = g.ts => g.uid <= f.uid)
      BY <1>2, <1>3
    <3>2. g.ts \in Nat /\ f.ts \in Nat /\ g.uid \in Nat /\ f.uid \in Nat
      BY <1>1, <1>3
    <3> QED
      BY <3>1, <3>2 DEF Less
  <2>2. f \in Key /\ g \in Key /\ f # g
    BY <1>1, <1>3
  <2> QED
    BY <2>1, <2>2, LessFacts
<1> QED
  BY <1>3, <1>4

\* The first event that is due this year comes before every other one.
LEMMA DueIsNext ==
  ASSUME NEW c, InGoodOrder(c), Due(c) # {}
  PROVE  LET k == Min(Due(c))
             e == Head(c.m_buckets[Bucket(c, k)])
         IN  /\ e \in Events(c) /\ \A f \in Events(c) : f = e \/ Less(e, f)
             /\ c.m_buckets[Hash(c, e.ts)] # <<>> /\ Head(c.m_buckets[Hash(c, e.ts)]) = e
             /\ Bucket(c, k) = Hash(c, e.ts) /\ BucketTop(c, k) = (e.ts \div c.m_width + 1) * c.m_width
<1> DEFINE k == Min(Due(c))
           e == Head(c.m_buckets[Bucket(c, k)])
           d == c.m_lastPrio \div c.m_width
           n == NBuckets(c)
           w == c.m_width
<1>1. n \in Nat \ {0} /\ w \in Nat \ {0} /\ c.m_lastPrio \in Nat
  BY GoodFacts
<1>2. k \in Due(c) /\ \A j \in Due(c) : k <= j
  <2>1. Due(c) \in SUBSET Nat
    BY <1>1 DEF Due
  <2>2. PICK i \in Due(c) : \A j \in Due(c) : i <= j
    BY <2>1, LeastNat
  <2> QED
    BY <2>2 DEF Min
<1> HIDE DEF k
<1>3. k \in 0 .. n - 1 /\ c.m_buckets[Bucket(c, k)] # <<>> /\ e.ts < BucketTop(c, k)
  BY <1>2 DEF Due
<1>4. ASSUME NEW j \in 0 .. n - 1, c.m_buckets[Bucket(c, j)] # <<>>
      PROVE  LET h == Head(c.m_buckets[Bucket(c, j)])
             IN  /\ h \in ToSet(c.m_buckets[Bucket(c, j)]) /\ h \in Events(c)
                 /\ \A f \in ToSet(c.m_buckets[Bucket(c, j)]) : f = h \/ Less(h, f)
  <2>1. Bucket(c, j) \in 0 .. n - 1
    BY SearchFacts
  <2>2. c.m_buckets[Bucket(c, j)] \in Seq(Key) /\ InOrder(c.m_buckets[Bucket(c, j)])
    BY <2>1, GoodFacts
  <2> QED
    BY <1>4, <2>1, <2>2, TailInOrder, EventFacts
<1>5. /\ e \in ToSet(c.m_buckets[Bucket(c, k)]) /\ e \in Events(c)
      /\ \A f \in ToSet(c.m_buckets[Bucket(c, k)]) : f = e \/ Less(e, f)
  BY <1>3, <1>4
<1>6. e.ts \div w = d + k /\ Hash(c, e.ts) = Bucket(c, k)
  BY <1>3, <1>5, DueDay
<1>7. /\ d \in Nat /\ k \in Nat /\ BucketTop(c, k) = (d + k + 1) * w /\ e \in Key /\ e.ts \in Nat
  <2>1. d \in Nat /\ BucketTop(c, k) = (d + k + 1) * w
    BY <1>3, SearchFacts
  <2>2. k \in Nat
    BY <1>1, <1>3
  <2> HIDE DEF e
  <2> QED
    BY <1>5, <2>1, <2>2, EventFacts
<1> HIDE DEF e
<1>8. ASSUME NEW f \in Events(c) PROVE f = e \/ Less(e, f)
  <2> DEFINE x == f.ts \div w
  <2>1. f \in Key /\ f.ts \in Nat /\ x \in Nat /\ c.m_lastPrio <= f.ts
    BY <1>1, EventFacts, Days
  <2>2. d <= x
    <3>1. d * w <= c.m_lastPrio /\ d * w \in Nat
      BY <1>1, <1>7, Days, Multiples
    <3> HIDE DEF d
    <3>2. d * w <= f.ts
      BY <1>1, <2>1, <3>1
    <3> QED
      BY <1>1, <1>7, <2>1, <3>2, DayOrder
  <2> HIDE DEF d, x
  <2>3. CASE x < d + k
    <3> DEFINE j == x - d
    <3>1. j \in 0 .. n - 1 /\ j < k /\ x = d + j
      BY <1>1, <1>3, <1>7, <2>1, <2>2, <2>3, SMTT(40)
    <3> HIDE DEF j
    <3>2. f \in ToSet(c.m_buckets[Bucket(c, j)]) /\ f.ts < BucketTop(c, j)
      BY <3>1, DueDay DEF d, x
    <3>3. c.m_buckets[Bucket(c, j)] # <<>>
      BY <3>2 DEF ToSet
    <3> DEFINE h == Head(c.m_buckets[Bucket(c, j)])
    <3>4. h \in Events(c) /\ (f = h \/ Less(h, f))
      BY <1>4, <3>1, <3>2, <3>3
    <3>5. h \in Key /\ h.ts \in Nat /\ BucketTop(c, j) \in Int
      <4>1. h \in Key /\ h.ts \in Nat
        BY <3>4, EventFacts
      <4>2. BucketTop(c, j) = (d + j + 1) * w /\ d + j + 1 \in Nat
        BY <1>7, <3>1, SearchFacts DEF d
      <4> QED
        BY <1>1, <4>1, <4>2, Multiples
    <3>6. h.ts < BucketTop(c, j)
      BY <2>1, <3>2, <3>4, <3>5, LessFacts
    <3>7. j \in Due(c)
      BY <3>1, <3>3, <3>6 DEF Due
    <3> QED
      BY <1>1, <1>2, <1>7, <3>1, <3>7
  <2>4. CASE x = d + k
    <3> f \in ToSet(c.m_buckets[Bucket(c, k)])
      BY <1>3, <2>4, DueDay DEF d, x
    <3> QED
      BY <1>5
  <2>5. CASE x > d + k
    <3>1. d + k + 1 \in Nat /\ d + k + 1 <= x
      BY <1>7, <2>1, <2>5
    <3>2. (d + k + 1) * w <= f.ts /\ (d + k + 1) * w \in Nat
      BY <1>1, <2>1, <3>1, DayOrder, Multiples DEF x
    <3>3. e.ts < f.ts
      BY <1>3, <1>7, <2>1, <3>2
    <3> QED
      BY <3>3 DEF Less
  <2> QED
    BY <1>7, <2>1, <2>3, <2>4, <2>5
<1> QED
  BY <1>3, <1>5, <1>6, <1>7, <1>8 DEF e, k

\* If none is due, the earliest of the first events of the buckets is.
LEMMA MinHeadIsNext ==
  ASSUME NEW c, InGoodOrder(c), Events(c) # {}
  PROVE  LET e == MinHead(c)
         IN  /\ e \in Events(c) /\ \A f \in Events(c) : f = e \/ Less(e, f)
             /\ c.m_buckets[Hash(c, e.ts)] # <<>> /\ Head(c.m_buckets[Hash(c, e.ts)]) = e
<1> DEFINE n == NBuckets(c)
           heads == {Head(c.m_buckets[i]) : i \in {j \in DOMAIN c.m_buckets : c.m_buckets[j] # <<>>}}
           e == MinHead(c)
<1>1. ASSUME NEW i \in 0 .. n - 1, c.m_buckets[i] # <<>>
      PROVE  /\ Head(c.m_buckets[i]) \in heads /\ Head(c.m_buckets[i]) \in ToSet(c.m_buckets[i])
             /\ \A f \in ToSet(c.m_buckets[i]) : f = Head(c.m_buckets[i]) \/ Less(Head(c.m_buckets[i]), f)
  <2>1. Head(c.m_buckets[i]) \in heads
    BY <1>1, GoodFacts
  <2>2. c.m_buckets[i] \in Seq(Key) /\ InOrder(c.m_buckets[i])
    BY GoodFacts
  <2> QED
    BY <1>1, <2>1, <2>2, TailInOrder
<1>2. ASSUME NEW h \in heads
      PROVE  \E i \in 0 .. n - 1 : c.m_buckets[i] # <<>> /\ h = Head(c.m_buckets[i])
  BY GoodFacts
<1>3. e = CHOOSE g \in heads : \A f \in heads \ {g} : Less(g, f)
  BY DEF MinHead
<1> HIDE DEF heads, e
<1>4. heads \in SUBSET Key
  <2> SUFFICES ASSUME NEW h \in heads PROVE h \in Key
    OBVIOUS
  <2>1. PICK i \in 0 .. n - 1 : c.m_buckets[i] # <<>> /\ h = Head(c.m_buckets[i])
    BY <1>2
  <2> QED
    BY <1>1, <2>1, EventFacts
<1>5. ASSUME NEW f \in Events(c) PROVE \E h \in heads : f = h \/ Less(h, f)
  <2> DEFINE i == Hash(c, f.ts)
  <2>1. i \in 0 .. n - 1 /\ f \in ToSet(c.m_buckets[i])
    BY EventFacts
  <2> HIDE DEF i
  <2>2. c.m_buckets[i] # <<>>
    BY <2>1 DEF ToSet
  <2> QED
    BY <1>1, <2>1, <2>2
<1>6. heads # {}
  BY <1>5
<1>7. e \in heads /\ \A f \in heads \ {e} : Less(e, f)
  BY <1>3, <1>4, <1>6, LeastKey
<1>8. PICK i \in 0 .. n - 1 : c.m_buckets[i] # <<>> /\ e = Head(c.m_buckets[i])
  BY <1>2, <1>7
<1>9. e \in Events(c) /\ Hash(c, e.ts) = i
  BY <1>1, <1>8, EventFacts, GoodFacts
<1>10. ASSUME NEW f \in Events(c) PROVE f = e \/ Less(e, f)
  <2>1. PICK h \in heads : f = h \/ Less(h, f)
    BY <1>5
  <2>2. h = e \/ Less(e, h)
    BY <1>7
  <2>3. e \in Key /\ h \in Key /\ f \in Key
    BY <1>4, <1>7, EventFacts
  <2> QED
    BY <2>1, <2>2, <2>3, LessFacts
<1> QED
  BY <1>8, <1>9, <1>10 DEF e

\* DoRemoveNext takes the earliest event, and starts the next search from its day.
LEMMA NextIsLeast ==
  ASSUME NEW c, InGoodOrder(c), Events(c) # {}
  PROVE  LET e == NextEvent(c)
         IN  /\ e \in Events(c) /\ \A f \in Events(c) : f = e \/ Less(e, f)
             /\ c.m_buckets[Hash(c, e.ts)] # <<>> /\ Head(c.m_buckets[Hash(c, e.ts)]) = e
             /\ DoRemoveNext(c) = Changed(c, Hash(c, e.ts), Tail(c.m_buckets[Hash(c, e.ts)]), e.ts)
<1> DEFINE e == NextEvent(c)
           b == Hash(c, e.ts)
           top == (e.ts \div c.m_width + 1) * c.m_width
           s == Tail(c.m_buckets[b])
<1>1. /\ e \in Events(c) /\ \A f \in Events(c) : f = e \/ Less(e, f)
      /\ c.m_buckets[b] # <<>> /\ Head(c.m_buckets[b]) = e
      /\ Due(c) # {} => Bucket(c, Min(Due(c))) = b /\ BucketTop(c, Min(Due(c))) = top
  <2>1. CASE Due(c) # {}
    BY <2>1, DueIsNext DEF NextEvent
  <2>2. CASE Due(c) = {}
    BY <2>2, MinHeadIsNext DEF NextEvent
  <2> QED
    BY <2>1, <2>2
<1>2. DoRemoveNext(c) = [c EXCEPT !.m_lastBucket = b, !.m_lastPrio = e.ts,
                                  !.m_bucketTop = top, !.m_buckets[b] = s]
  <2>1. DoRemoveNext(c) =
          IF Due(c) # {}
          THEN [c EXCEPT !.m_lastBucket = Bucket(c, Min(Due(c))), !.m_lastPrio = e.ts,
                         !.m_bucketTop = BucketTop(c, Min(Due(c))),
                         !.m_buckets[Bucket(c, Min(Due(c)))] = Tail(c.m_buckets[Bucket(c, Min(Due(c)))])]
          ELSE [c EXCEPT !.m_lastBucket = b, !.m_lastPrio = e.ts, !.m_bucketTop = top, !.m_buckets[b] = s]
    BY DEF DoRemoveNext
  <2> HIDE DEF e, b, top
  <2> QED
    BY <1>1, <2>1
<1>3. [c EXCEPT !.m_lastBucket = b, !.m_lastPrio = e.ts, !.m_bucketTop = top, !.m_buckets[b] = s] =
        Changed(c, b, s, e.ts)
  <2>1. c \in [m_buckets : [0 .. NBuckets(c) - 1 -> Seq(Key)], m_width : Nat \ {0},
               m_lastPrio : 0 .. MaxTime, m_lastBucket : Nat, m_bucketTop : Nat]
    BY DEF InGoodOrder
  <2> DEFINE B == [c.m_buckets EXCEPT ![b] = s]
             p == e.ts
  <2>2. Changed(c, b, s, e.ts) =
          [m_buckets |-> B, m_width |-> c.m_width, m_lastPrio |-> p, m_lastBucket |-> b, m_bucketTop |-> top]
    BY DEF Changed
  <2>3. [c EXCEPT !.m_lastBucket = b, !.m_lastPrio = e.ts, !.m_bucketTop = top, !.m_buckets[b] = s] =
          [c EXCEPT !.m_lastBucket = b, !.m_lastPrio = p, !.m_bucketTop = top, !.m_buckets = B]
    <3> HIDE DEF e, b, s, top
    <3> QED
      BY <2>1
  <2> HIDE DEF B, p, b, s, top, e
  <2>4. [c EXCEPT !.m_lastBucket = b, !.m_lastPrio = p, !.m_bucketTop = top, !.m_buckets = B] =
          [m_buckets |-> B, m_width |-> c.m_width, m_lastPrio |-> p, m_lastBucket |-> b, m_bucketTop |-> top]
    <3> DEFINE c1 == [c EXCEPT !.m_lastBucket = b]
               c2 == [c1 EXCEPT !.m_lastPrio = p]
               c3 == [c2 EXCEPT !.m_bucketTop = top]
    <3>1. c1 = [m_buckets |-> c.m_buckets, m_width |-> c.m_width, m_lastPrio |-> c.m_lastPrio,
                m_lastBucket |-> b, m_bucketTop |-> c.m_bucketTop]
      BY <2>1
    <3> HIDE DEF c1
    <3>2. c2 = [m_buckets |-> c.m_buckets, m_width |-> c.m_width, m_lastPrio |-> p,
                m_lastBucket |-> b, m_bucketTop |-> c.m_bucketTop]
      BY <3>1
    <3> HIDE DEF c2
    <3>3. c3 = [m_buckets |-> c.m_buckets, m_width |-> c.m_width, m_lastPrio |-> p,
                m_lastBucket |-> b, m_bucketTop |-> top]
      BY <3>2
    <3> HIDE DEF c3
    <3>4. [c3 EXCEPT !.m_buckets = B] =
            [m_buckets |-> B, m_width |-> c.m_width, m_lastPrio |-> p, m_lastBucket |-> b, m_bucketTop |-> top]
      BY <3>3
    <3> QED
      BY <3>4 DEF c3, c2, c1
  <2> QED
    BY <2>2, <2>3, <2>4
<1> QED
  BY <1>1, <1>2, <1>3

LEMMA DoRemoveNextGood ==
  ASSUME NEW c, InGoodOrder(c), Events(c) # {}
  PROVE  /\ NextEvent(c) \in Events(c) /\ \A f \in Events(c) : f = NextEvent(c) \/ Less(NextEvent(c), f)
         /\ InGoodOrder(DoRemoveNext(c)) /\ DoRemoveNext(c).m_lastPrio = NextEvent(c).ts
         /\ Events(DoRemoveNext(c)) = Events(c) \ {NextEvent(c)}
<1> DEFINE e == NextEvent(c)
           b == Hash(c, e.ts)
           s == Tail(c.m_buckets[b])
<1>1. /\ e \in Events(c) /\ \A f \in Events(c) : f = e \/ Less(e, f)
      /\ c.m_buckets[b] # <<>> /\ Head(c.m_buckets[b]) = e
      /\ DoRemoveNext(c) = Changed(c, b, s, e.ts)
  BY NextIsLeast
<1> HIDE DEF e
<1>2. e \in Key /\ e.ts \in 0 .. MaxTime /\ b \in 0 .. NBuckets(c) - 1
  BY <1>1, EventFacts DEF Key
<1>3. c.m_buckets[b] \in Seq(Key) /\ InOrder(c.m_buckets[b])
  BY <1>2, GoodFacts
<1>4. s \in Seq(Key) /\ InOrder(s) /\ ToSet(s) = ToSet(c.m_buckets[b]) \ {e} /\ e \in ToSet(c.m_buckets[b])
  BY <1>1, <1>3, TailInOrder
<1>5. \A f \in ToSet(s) : Hash(c, f.ts) = b
  BY <1>2, <1>4, GoodFacts
<1>6. (Events(c) \ ToSet(c.m_buckets[b])) \cup ToSet(s) = Events(c) \ {e}
  BY <1>2, <1>4, EventFacts
<1>7. \A f \in Events(c) \ {e} : e.ts <= f.ts
  BY <1>1, <1>2, EventFacts, LessFacts
<1> HIDE DEF b, s
<1>8. /\ InGoodOrder(Changed(c, b, s, e.ts)) /\ Changed(c, b, s, e.ts).m_lastPrio = e.ts
      /\ Events(Changed(c, b, s, e.ts)) = (Events(c) \ ToSet(c.m_buckets[b])) \cup ToSet(s)
  BY <1>2, <1>4, <1>5, <1>6, <1>7, ChangedGood
<1> QED
  BY <1>1, <1>6, <1>8 DEF e

-------------------------------------------------------------------------------
(* The new width *)

Calendars ==
  {c \in [m_buckets : UNION {[0 .. n - 1 -> Seq(Key)] : n \in Nat \ {0}}, m_width : Nat \ {0},
          m_lastPrio : 0 .. MaxTime, m_lastBucket : Nat, m_bucketTop : Nat] : InGoodOrder(c)}

LEMMA GoodCalendars == \A c : c \in Calendars <=> InGoodOrder(c)
<1> SUFFICES ASSUME NEW c, InGoodOrder(c) PROVE c \in Calendars
  BY DEF Calendars
<1> DEFINE n == NBuckets(c)
           F == {[0 .. k - 1 -> Seq(Key)] : k \in Nat \ {0}}
<1>1. /\ n \in Nat \ {0}
      /\ c \in [m_buckets : [0 .. n - 1 -> Seq(Key)], m_width : Nat \ {0},
                m_lastPrio : 0 .. MaxTime, m_lastBucket : Nat, m_bucketTop : Nat]
  BY DEF InGoodOrder
<1>2. c.m_buckets \in [0 .. n - 1 -> Seq(Key)] /\ [0 .. n - 1 -> Seq(Key)] \in F
  BY <1>1
<1> HIDE DEF n, F
<1>3. c.m_buckets \in UNION F
  BY <1>2
<1>4. c \in [m_buckets : UNION F, m_width : Nat \ {0},
             m_lastPrio : 0 .. MaxTime, m_lastBucket : Nat, m_bucketTop : Nat]
  BY <1>1, <1>3
<1> QED
  BY <1>4 DEF Calendars, F

LEMMA TotalsType ==
  ASSUME NEW n \in Nat, NEW f, \A k \in 1 .. n : f[k] \in Int
  PROVE  \A k \in 0 .. n : Totals(f, n)[k] \in Int
<1> DEFINE Def(g) == [k \in 0 .. n |-> IF k = 0 THEN 0 ELSE g[k - 1] + f[k]]
           step == [k \in 1 .. n |-> [x \in Int |-> x + f[k]]]
           total == Totals(f, n)
<1>1. step \in [1 .. n -> [Int -> Int]]
  OBVIOUS
<1>2. PICK g \in [0 .. n -> Int] : IsLoop(g, 0, n, step)
  <2> DEFINE S == Int
  <2>1. 0 \in S /\ step \in [1 .. n -> [S -> S]]
    BY <1>1
  <2> HIDE DEF step, S
  <2>2. \E g \in [0 .. n -> S] : IsLoop(g, 0, n, step)
    BY <2>1, LoopExists
  <2> QED
    BY <2>2 DEF S
<1>3. ASSUME NEW k \in 1 .. n PROVE g[k] = g[k - 1] + f[k]
  <2> g[k - 1] \in Int
    OBVIOUS
  <2> QED
    BY <1>2 DEF IsLoop
<1>4. g = Def(g)
  BY <1>2, <1>3 DEF IsLoop
<1>5. total = CHOOSE h : h = Def(h)
  BY DEF Totals
<1> HIDE DEF total
<1>6. total = Def(total)
  <2> HIDE DEF Def
  <2> QED
    BY <1>4, <1>5
<1>7. total[0] = 0 /\ \A k \in 1 .. n : total[k] = total[k - 1] + f[k]
  BY <1>6
<1> DEFINE T == {k \in 0 .. n : total[k] \in Int}
<1>8. 0 \in T
  BY <1>7
<1>9. ASSUME NEW k \in 1 .. n, k - 1 \in T PROVE k \in T
  <2> total[k - 1] \in Int /\ f[k] \in Int /\ k \in 0 .. n
    BY <1>9
  <2> QED
    BY <1>7
<1> HIDE DEF T
<1>10. 0 .. n \subseteq T
  BY <1>8, <1>9, IndexInduction
<1> QED
  BY <1>10 DEF T, total

\* As long as there are events, DoRemoveNext may be called again.
LEMMA RemovalsGood ==
  ASSUME NEW c, InGoodOrder(c), IsFiniteSet(Events(c)), NEW n \in 0 .. QSize(c)
  PROVE  \A k \in 1 .. n : NextEvent(Removals(c, n)[k - 1]) \in Key
<1> DEFINE G == [k \in 0 .. n |-> {m \in Calendars : IsFiniteSet(Events(m)) /\ QSize(m) = QSize(c) - k}]
           Def(g) == [k \in 0 .. n |-> IF k = 0 THEN c ELSE DoRemoveNext(g[k - 1])]
           step == [k \in 1 .. n |-> [m \in Calendars |-> IF m \in G[k - 1] THEN DoRemoveNext(m) ELSE c]]
           left == Removals(c, n)
<1>1. n \in Nat /\ QSize(c) \in Nat
  BY FS_CardinalityType DEF QSize
<1>2. ASSUME NEW k \in 1 .. n, NEW m \in G[k - 1]
      PROVE  DoRemoveNext(m) \in G[k] /\ NextEvent(m) \in Key
  <2>1. InGoodOrder(m) /\ IsFiniteSet(Events(m)) /\ QSize(m) = QSize(c) - (k - 1)
    BY <1>1, GoodCalendars
  <2>2. QSize(m) # 0
    BY <1>1, <2>1
  <2>3. Events(m) # {}
    BY <2>1, <2>2, FS_EmptySet DEF QSize
  <2>4. /\ NextEvent(m) \in Events(m) /\ InGoodOrder(DoRemoveNext(m))
        /\ Events(DoRemoveNext(m)) = Events(m) \ {NextEvent(m)}
    BY <2>1, <2>3, DoRemoveNextGood
  <2>5. IsFiniteSet(Events(DoRemoveNext(m))) /\ QSize(DoRemoveNext(m)) = QSize(m) - 1
    BY <2>1, <2>4, FS_RemoveElement DEF QSize
  <2>6. QSize(DoRemoveNext(m)) = QSize(c) - k
    BY <1>1, <2>1, <2>5
  <2>7. DoRemoveNext(m) \in Calendars
    BY <2>4, GoodCalendars
  <2>8. DoRemoveNext(m) \in G[k]
    BY <1>1, <2>5, <2>6, <2>7
  <2> QED
    BY <2>1, <2>4, <2>8, EventFacts
<1>3. c \in G[0]
  BY <1>1, GoodCalendars
<1>4. G \in [0 .. n -> SUBSET Calendars]
  OBVIOUS
<1> HIDE DEF G
<1>5. step \in [1 .. n -> [Calendars -> Calendars]]
  <2> SUFFICES ASSUME NEW k \in 1 .. n, NEW m \in Calendars
               PROVE  (IF m \in G[k - 1] THEN DoRemoveNext(m) ELSE c) \in Calendars
    OBVIOUS
  <2>1. k \in 0 .. n /\ 0 \in 0 .. n
    BY <1>1
  <2> QED
    BY <1>2, <1>3, <1>4, <2>1
<1>6. ASSUME NEW k \in 1 .. n, NEW m \in G[k - 1] PROVE step[k][m] = DoRemoveNext(m)
  <2> k - 1 \in 0 .. n
    BY <1>1
  <2> m \in Calendars
    BY <1>4
  <2> QED
    OBVIOUS
<1>7. PICK f \in [0 .. n -> Calendars] : IsLoop(f, c, n, step) /\ \A k \in 0 .. n : f[k] \in G[k]
  <2>1. \A k \in 1 .. n : \A m \in G[k - 1] : step[k][m] \in G[k]
    BY <1>2, <1>6
  <2> HIDE DEF step
  <2> QED
    BY <1>1, <1>3, <1>4, <1>5, <2>1, GuardedLoop
<1>8. ASSUME NEW k \in 1 .. n PROVE f[k] = DoRemoveNext(f[k - 1])
  <2>1. k - 1 \in 0 .. n
    BY <1>1
  <2>2. f[k] = step[k][f[k - 1]] /\ f[k - 1] \in G[k - 1]
    BY <1>7, <2>1 DEF IsLoop
  <2> QED
    BY <1>6, <2>2
<1>9. f = Def(f)
  BY <1>7, <1>8 DEF IsLoop
<1>10. left = CHOOSE g : g = Def(g)
  BY DEF Removals
<1> HIDE DEF left
<1>11. left = Def(left)
  <2> HIDE DEF Def
  <2> QED
    BY <1>9, <1>10
<1>12. left[0] = c /\ \A k \in 1 .. n : left[k] = DoRemoveNext(left[k - 1])
  BY <1>1, <1>11
<1> DEFINE T == {k \in 0 .. n : left[k] \in G[k]}
<1>13. 0 \in T
  BY <1>1, <1>3, <1>12
<1>14. \A k \in 1 .. n : k - 1 \in T => k \in T
  BY <1>1, <1>2, <1>12
<1> HIDE DEF T
<1>15. 0 .. n \subseteq T
  BY <1>1, <1>13, <1>14, IndexInduction
<1>16. ASSUME NEW k \in 1 .. n PROVE NextEvent(left[k - 1]) \in Key
  <2> k - 1 \in T
    BY <1>1, <1>15
  <2> QED
    BY <1>2 DEF T
<1> QED
  BY <1>16 DEF left

LEMMA AtLeastOne ==
  ASSUME NEW x \in Int
  PROVE  Max({x, 1}) \in Nat \ {0}
<1>1. \E m \in {x, 1} : \A y \in {x, 1} : m >= y
  OBVIOUS
<1>2. Max({x, 1}) \in {x, 1} /\ \A y \in {x, 1} : Max({x, 1}) >= y
  BY <1>1 DEF Max
<1> QED
  BY <1>2

\* Whatever the distances of the events, the width is a number; what 32 bits
\* keep of it may be 0.
LEMMA NewWidthType ==
  ASSUME NEW c, InGoodOrder(c), IsFiniteSet(Events(c))
  PROVE  CalculateNewWidth(c) \in Nat
<1> DEFINE q == QSize(c)
           n == IF q <= 5 THEN q ELSE Min({5 + q \div 10, 25})
           samples == Samples(c, n)
           diff == [k \in 1 .. n - 1 |-> samples[k + 1].ts - samples[k].ts]
           twiceAvg == (Totals(diff, n - 1)[n - 1] \div (n - 1)) * 2
           near == [k \in 1 .. n - 1 |-> IF diff[k] <= twiceAvg THEN diff[k] ELSE 0]
           total == Totals(near, n - 1)[n - 1]
<1>1. CalculateNewWidth(c) = IF q < 2 THEN 1 ELSE Max({3 * total, 1}) % TwoTo32
  BY DEF CalculateNewWidth
<1>2. q \in Nat
  BY FS_CardinalityType DEF QSize
<1>3. ASSUME ~(q < 2) PROVE n \in 2 .. q
  <2> HIDE DEF q
  <2>1. CASE q <= 5
    BY <1>2, <1>3, <2>1
  <2>2. CASE ~(q <= 5)
    <3> DEFINE a == 5 + q \div 10
    <3>1. a \in Nat /\ 5 <= a /\ a <= q
      BY <1>2, <2>2
    <3> HIDE DEF a
    <3>2. \E m \in {a, 25} : \A y \in {a, 25} : m <= y
      BY <3>1
    <3>3. Min({a, 25}) \in {a, 25} /\ \A y \in {a, 25} : Min({a, 25}) <= y
      BY <3>2 DEF Min
    <3>4. n = Min({a, 25})
      BY <2>2 DEF a
    <3> HIDE DEF n
    <3> QED
      BY <1>2, <3>1, <3>3, <3>4
  <2> QED
    BY <2>1, <2>2
<1>4. ASSUME ~(q < 2) PROVE total \in Int
  <2>1. n \in 2 .. q /\ n - 1 \in Nat /\ n \in 0 .. QSize(c)
    BY <1>2, <1>3, <1>4
  <2> HIDE DEF n, q
  <2>2. ASSUME NEW k \in 1 .. n PROVE samples[k].ts \in Int
    <3>1. samples[k] = NextEvent(Removals(c, n)[k - 1])
      BY DEF Samples
    <3>2. samples[k] \in Key
      BY <2>1, <3>1, RemovalsGood
    <3> QED
      BY <3>2, KeyAssumption DEF Key
  <2> HIDE DEF samples
  <2>3. ASSUME NEW k \in 1 .. n - 1 PROVE diff[k] \in Int
    <3> k \in 1 .. n /\ k + 1 \in 1 .. n
      BY <2>1
    <3> QED
      BY <2>2
  <2> HIDE DEF diff, twiceAvg
  <2>4. ASSUME NEW k \in 1 .. n - 1 PROVE near[k] \in Int
    BY <2>3
  <2> HIDE DEF near
  <2>5. \A k \in 0 .. n - 1 : Totals(near, n - 1)[k] \in Int
    BY <2>1, <2>4, TotalsType
  <2> QED
    BY <2>1, <2>5
<1> HIDE DEF q, n, total
<1> DEFINE m == Max({3 * total, 1})
<1>5. ASSUME ~(q < 2) PROVE m \in Nat
  BY <1>4, <1>5, AtLeastOne
<1> HIDE DEF m
<1>6. ASSUME ~(q < 2) PROVE m % TwoTo32 \in Nat
  BY <1>5, <1>6, CalendarAssumption
<1> QED
  BY <1>1, <1>6 DEF m

-------------------------------------------------------------------------------
(* Resizing keeps the events. *)

LEMMA AfterInsertsGood ==
  ASSUME NEW c, InGoodOrder(c), NEW events \in Seq(Key), InOrder(events),
         \A e \in ToSet(events) : e \notin Events(c) /\ c.m_lastPrio <= e.ts
  PROVE  LET d == AfterInserts(c, events)[Len(events)]
         IN  /\ InGoodOrder(d) /\ d.m_lastPrio = c.m_lastPrio
             /\ Events(d) = Events(c) \cup ToSet(events)
<1> DEFINE n == Len(events)
           Upto(k) == Events(c) \cup {events[j] : j \in 1 .. k}
           G == [k \in 0 .. n |-> {m \in Calendars : m.m_lastPrio = c.m_lastPrio /\ Events(m) = Upto(k)}]
           Def(g) == [k \in 0 .. n |-> IF k = 0 THEN c ELSE DoInsert(g[k - 1], events[k])]
           step == [k \in 1 .. n |-> [m \in Calendars |-> IF m \in G[k - 1] THEN DoInsert(m, events[k]) ELSE c]]
           after == AfterInserts(c, events)
<1>1. n \in Nat
  OBVIOUS
<1>2. ASSUME NEW k \in 1 .. n, NEW m \in G[k - 1]
      PROVE  DoInsert(m, events[k]) \in G[k]
  <2> DEFINE e == events[k]
  <2>1. /\ InGoodOrder(m) /\ m.m_lastPrio = c.m_lastPrio
        /\ Events(m) = Upto(k - 1)
    <3> k - 1 \in 0 .. n
      BY <1>1
    <3> HIDE DEF Upto
    <3> QED
      BY GoodCalendars
  <2>2. e \in Key /\ e \notin Events(c) /\ c.m_lastPrio <= e.ts
    BY Holds
  <2>3. ASSUME NEW j \in 1 .. k - 1 PROVE e # events[j]
    <3>1. j \in 1 .. n /\ j < k
      BY <1>1
    <3>2. Less(events[j], e) /\ events[j] \in Key
      BY <3>1 DEF InOrder
    <3> QED
      BY <2>2, <3>2, LessFacts
  <2>4. e \notin Events(m)
    BY <2>1, <2>2, <2>3
  <2>5. /\ InGoodOrder(DoInsert(m, e)) /\ Events(DoInsert(m, e)) = Events(m) \cup {e}
        /\ DoInsert(m, e).m_lastPrio = m.m_lastPrio
    <3> HIDE DEF e
    <3> QED
      BY <2>1, <2>2, <2>4, DoInsertGood
  <2>6. {events[j] : j \in 1 .. k - 1} \cup {e} = {events[j] : j \in 1 .. k}
    <3>1. 1 .. k = (1 .. k - 1) \cup {k}
      BY <1>1
    <3> QED
      BY <3>1
  <2>7. Events(DoInsert(m, e)) = Upto(k)
    BY <2>1, <2>5, <2>6
  <2>8. DoInsert(m, e) \in Calendars
    BY <2>5, GoodCalendars
  <2> HIDE DEF Upto
  <2> QED
    BY <1>1, <2>1, <2>5, <2>7, <2>8
<1>3. c \in G[0]
  <2>1. Upto(0) = Events(c)
    OBVIOUS
  <2> HIDE DEF Upto
  <2> QED
    BY <1>1, <2>1, GoodCalendars
<1>4. G \in [0 .. n -> SUBSET Calendars]
  OBVIOUS
<1>5. G[n] = {m \in Calendars : m.m_lastPrio = c.m_lastPrio /\ Events(m) = Upto(n)}
  BY <1>1
<1> HIDE DEF G
<1>6. step \in [1 .. n -> [Calendars -> Calendars]]
  <2> SUFFICES ASSUME NEW k \in 1 .. n, NEW m \in Calendars
               PROVE  (IF m \in G[k - 1] THEN DoInsert(m, events[k]) ELSE c) \in Calendars
    OBVIOUS
  <2>1. k \in 0 .. n /\ 0 \in 0 .. n
    BY <1>1
  <2> QED
    BY <1>2, <1>3, <1>4, <2>1
<1>7. ASSUME NEW k \in 1 .. n, NEW m \in G[k - 1] PROVE step[k][m] = DoInsert(m, events[k])
  <2> k - 1 \in 0 .. n
    BY <1>1
  <2> m \in Calendars
    BY <1>4
  <2> QED
    OBVIOUS
<1>8. PICK f \in [0 .. n -> Calendars] : IsLoop(f, c, n, step) /\ \A k \in 0 .. n : f[k] \in G[k]
  <2>1. \A k \in 1 .. n : \A m \in G[k - 1] : step[k][m] \in G[k]
    BY <1>2, <1>7
  <2> HIDE DEF step, n
  <2> QED
    BY <1>1, <1>3, <1>4, <1>6, <2>1, GuardedLoop
<1>9. ASSUME NEW k \in 1 .. n PROVE f[k] = DoInsert(f[k - 1], events[k])
  <2>1. k - 1 \in 0 .. n
    BY <1>1
  <2>2. f[k] = step[k][f[k - 1]] /\ f[k - 1] \in G[k - 1]
    BY <1>8, <2>1 DEF IsLoop
  <2> QED
    BY <1>7, <2>2
<1>10. f = Def(f)
  BY <1>8, <1>9 DEF IsLoop
<1>11. after = CHOOSE g : g = Def(g)
  BY DEF AfterInserts
<1> HIDE DEF after
<1>12. after = Def(after)
  <2> HIDE DEF Def
  <2> QED
    BY <1>10, <1>11
<1>13. after[0] = c /\ \A k \in 1 .. n : after[k] = DoInsert(after[k - 1], events[k])
  BY <1>1, <1>12
<1> DEFINE T == {k \in 0 .. n : after[k] \in G[k]}
<1>14. 0 \in T
  BY <1>1, <1>3, <1>13
<1>15. \A k \in 1 .. n : k - 1 \in T => k \in T
  BY <1>1, <1>2, <1>13
<1> HIDE DEF T
<1>16. 0 .. n \subseteq T
  BY <1>1, <1>14, <1>15, IndexInduction
<1>17. after[n] \in G[n]
  BY <1>1, <1>16 DEF T
<1>18. Upto(n) = Events(c) \cup ToSet(events)
  BY DEF ToSet
<1> HIDE DEF Upto
<1> QED
  BY <1>5, <1>17, <1>18, GoodCalendars DEF after

LEMMA EmptyGood ==
  ASSUME NEW n \in Nat \ {0}, NEW w \in Nat \ {0}, NEW p \in 0 .. MaxTime
  PROVE  /\ InGoodOrder(Empty(n, w, p)) /\ Events(Empty(n, w, p)) = {}
         /\ Empty(n, w, p).m_lastPrio = p
<1> DEFINE c == Empty(n, w, p)
           B == [i \in 0 .. n - 1 |-> <<>>]
<1>1. /\ c.m_buckets = B /\ c.m_width = w /\ c.m_lastPrio = p
      /\ c.m_lastBucket = (p \div w) % n /\ c.m_bucketTop = (p \div w + 1) * w
  BY DEF Empty
<1>2. B \in [0 .. n - 1 -> Seq(Key)] /\ DOMAIN B = 0 .. n - 1
  OBVIOUS
<1>3. NBuckets(c) = n
  <2>1. Cardinality(0 .. n - 1) = n
    <3>1. 0 \in Int /\ n - 1 \in Int
      OBVIOUS
    <3>2. Cardinality(0 .. n - 1) = IF 0 > n - 1 THEN 0 ELSE (n - 1) - 0 + 1
      BY <3>1, FS_Interval
    <3> QED
      BY <3>2
  <2> QED
    BY <1>1, <1>2, <2>1 DEF NBuckets
<1>4. ASSUME NEW i \in 0 .. n - 1 PROVE B[i] = <<>> /\ InOrder(B[i]) /\ ToSet(B[i]) = {}
  <2>1. B[i] = <<>>
    OBVIOUS
  <2> HIDE DEF B
  <2> QED
    BY <2>1 DEF InOrder, ToSet
<1>5. p \in Nat /\ (p \div w) % n \in Nat /\ (p \div w + 1) * w \in Nat
  <2>1. p \in Nat
    BY KeyAssumption
  <2>2. (p \div w) % n \in 0 .. n - 1
    BY <2>1, HashType
  <2>3. p \div w \in Nat
    BY <2>1, Days
  <2>4. p \div w + 1 \in Nat
    BY <2>3
  <2> QED
    BY <2>1, <2>2, <2>4, Multiples
<1>6. c \in [m_buckets : [0 .. n - 1 -> Seq(Key)], m_width : Nat \ {0},
             m_lastPrio : 0 .. MaxTime, m_lastBucket : Nat, m_bucketTop : Nat]
  BY <1>2, <1>5 DEF Empty
<1> HIDE DEF c, B
<1>7. InGoodOrder(c)
  BY <1>1, <1>3, <1>4, <1>6 DEF InGoodOrder, Hash
<1>8. Events(c) = {}
  BY <1>1, <1>2, <1>4 DEF Events
<1> QED
  BY <1>1, <1>7, <1>8 DEF c

LEMMA AfterBucketsGood ==
  ASSUME NEW c, InGoodOrder(c), NEW new, InGoodOrder(new), Events(new) = {}, new.m_lastPrio = c.m_lastPrio
  PROVE  LET d == AfterBuckets(c, new)[NBuckets(c)]
         IN  InGoodOrder(d) /\ d.m_lastPrio = c.m_lastPrio /\ Events(d) = Events(c)
<1> DEFINE n == NBuckets(c)
           Upto(k) == UNION {ToSet(c.m_buckets[i]) : i \in 0 .. k - 1}
           G == [k \in 0 .. n |-> {m \in Calendars : m.m_lastPrio = c.m_lastPrio /\ Events(m) = Upto(k)}]
           Moved(m, k) == AfterInserts(m, c.m_buckets[k - 1])[Len(c.m_buckets[k - 1])]
           Def(g) == [k \in 0 .. n |-> IF k = 0 THEN new ELSE Moved(g[k - 1], k)]
           step == [k \in 1 .. n |-> [m \in Calendars |-> IF m \in G[k - 1] THEN Moved(m, k) ELSE new]]
           after == AfterBuckets(c, new)
<1>1. n \in Nat /\ DOMAIN c.m_buckets = 0 .. n - 1
  BY GoodFacts
<1>2. ASSUME NEW k \in 1 .. n, NEW m \in G[k - 1]
      PROVE  Moved(m, k) \in G[k]
  <2> DEFINE s == c.m_buckets[k - 1]
  <2>1. /\ InGoodOrder(m) /\ m.m_lastPrio = c.m_lastPrio
        /\ Events(m) = Upto(k - 1)
    <3> k - 1 \in 0 .. n
      BY <1>1
    <3> HIDE DEF Upto
    <3> QED
      BY GoodCalendars
  <2>2. k - 1 \in 0 .. n - 1
    BY <1>1
  <2>3. s \in Seq(Key) /\ InOrder(s) /\ \A e \in ToSet(s) : Hash(c, e.ts) = k - 1 /\ c.m_lastPrio <= e.ts
    BY <2>2, GoodFacts
  <2>4. ASSUME NEW e \in ToSet(s) PROVE e \notin Upto(k - 1)
    <3> SUFFICES ASSUME NEW i \in 0 .. (k - 1) - 1, e \in ToSet(c.m_buckets[i]) PROVE FALSE
      OBVIOUS
    <3>1. i \in 0 .. n - 1 /\ i # k - 1
      BY <1>1
    <3>2. Hash(c, e.ts) = i
      BY <3>1, GoodFacts
    <3> QED
      BY <2>3, <3>1, <3>2
  <2>5. Upto(k - 1) \cup ToSet(s) = Upto(k)
    <3>1. 0 .. k - 1 = (0 .. (k - 1) - 1) \cup {k - 1}
      BY <1>1
    <3> QED
      BY <3>1
  <2> HIDE DEF Upto, s
  <2>6. LET d == AfterInserts(m, s)[Len(s)]
        IN  InGoodOrder(d) /\ d.m_lastPrio = m.m_lastPrio /\ Events(d) = Events(m) \cup ToSet(s)
    BY <2>1, <2>3, <2>4, AfterInsertsGood
  <2>7. Moved(m, k) = AfterInserts(m, s)[Len(s)]
    BY DEF s
  <2> HIDE DEF Moved
  <2>8. /\ Moved(m, k) \in Calendars /\ Moved(m, k).m_lastPrio = c.m_lastPrio
        /\ Events(Moved(m, k)) = Upto(k)
    BY <2>1, <2>5, <2>6, <2>7, GoodCalendars
  <2> QED
    BY <1>1, <2>8
<1>3. new \in G[0]
  <2>1. Upto(0) = {}
    OBVIOUS
  <2>2. new \in Calendars /\ 0 \in 0 .. n
    BY <1>1, GoodCalendars
  <2> HIDE DEF Upto, n
  <2> QED
    BY <2>1, <2>2
<1>4. G \in [0 .. n -> SUBSET Calendars]
  OBVIOUS
<1>5. G[n] = {m \in Calendars : m.m_lastPrio = c.m_lastPrio /\ Events(m) = Upto(n)}
  <2> n \in 0 .. n
    BY <1>1
  <2> HIDE DEF Upto, n
  <2> QED
    OBVIOUS
<1>6. after = CHOOSE g : g = Def(g)
  BY DEF AfterBuckets
<1> HIDE DEF G, Moved, after
<1>7. step \in [1 .. n -> [Calendars -> Calendars]]
  <2> SUFFICES ASSUME NEW k \in 1 .. n, NEW m \in Calendars
               PROVE  (IF m \in G[k - 1] THEN Moved(m, k) ELSE new) \in Calendars
    OBVIOUS
  <2>1. k \in 0 .. n /\ 0 \in 0 .. n
    BY <1>1
  <2> QED
    BY <1>2, <1>3, <1>4, <2>1
<1>8. ASSUME NEW k \in 1 .. n, NEW m \in G[k - 1] PROVE step[k][m] = Moved(m, k)
  <2> k - 1 \in 0 .. n
    BY <1>1
  <2> m \in Calendars
    BY <1>4
  <2> QED
    OBVIOUS
<1>9. PICK f \in [0 .. n -> Calendars] : IsLoop(f, new, n, step) /\ \A k \in 0 .. n : f[k] \in G[k]
  <2>1. \A k \in 1 .. n : \A m \in G[k - 1] : step[k][m] \in G[k]
    BY <1>2, <1>8
  <2> HIDE DEF step, n
  <2> QED
    BY <1>1, <1>3, <1>4, <1>7, <2>1, GuardedLoop
<1>10. ASSUME NEW k \in 1 .. n PROVE f[k] = Moved(f[k - 1], k)
  <2>1. k - 1 \in 0 .. n
    BY <1>1
  <2>2. f[k] = step[k][f[k - 1]] /\ f[k - 1] \in G[k - 1]
    BY <1>9, <2>1 DEF IsLoop
  <2> QED
    BY <1>8, <2>2
<1>11. f = Def(f)
  BY <1>9, <1>10 DEF IsLoop
<1>12. after = Def(after)
  <2> HIDE DEF Def
  <2> QED
    BY <1>6, <1>11
<1>13. after[0] = new /\ \A k \in 1 .. n : after[k] = Moved(after[k - 1], k)
  BY <1>1, <1>12
<1> DEFINE T == {k \in 0 .. n : after[k] \in G[k]}
<1>14. 0 \in T
  BY <1>1, <1>3, <1>13
<1>15. \A k \in 1 .. n : k - 1 \in T => k \in T
  BY <1>1, <1>2, <1>13
<1> HIDE DEF T
<1>16. 0 .. n \subseteq T
  BY <1>1, <1>14, <1>15, IndexInduction
<1>17. after[n] \in G[n]
  BY <1>1, <1>16 DEF T
<1>18. Upto(n) = Events(c)
  BY <1>1 DEF Events
<1> HIDE DEF Upto
<1> QED
  BY <1>5, <1>17, <1>18, GoodCalendars DEF after

LEMMA ResizeGood ==
  ASSUME NEW c, InGoodOrder(c), IsFiniteSet(Events(c)), NEW size \in Nat \ {0}
  PROVE  /\ InGoodOrder(Resize(c, size)) /\ Events(Resize(c, size)) = Events(c)
         /\ Resize(c, size).m_lastPrio = c.m_lastPrio
<1> DEFINE w == CalculateNewWidth(c)
           new == Empty(size, w, c.m_lastPrio)
<1>1. w \in Nat /\ c.m_lastPrio \in 0 .. MaxTime
  BY NewWidthType, GoodFacts
<1> HIDE DEF w
<1>2. CASE w = 0
  BY <1>2 DEF Resize, w
<1>3. CASE w # 0
  <2>1. InGoodOrder(new) /\ Events(new) = {} /\ new.m_lastPrio = c.m_lastPrio
    BY <1>1, <1>3, EmptyGood
  <2>2. Resize(c, size) = AfterBuckets(c, new)[NBuckets(c)]
    BY <1>3 DEF Resize, w
  <2> HIDE DEF new
  <2> QED
    BY <2>1, <2>2, AfterBucketsGood
<1> QED
  BY <1>2, <1>3

LEMMA ResizeUpGood ==
  ASSUME NEW c, InGoodOrder(c), IsFiniteSet(Events(c))
  PROVE  /\ InGoodOrder(ResizeUp(c)) /\ Events(ResizeUp(c)) = Events(c)
         /\ ResizeUp(c).m_lastPrio = c.m_lastPrio
<1> 2 * NBuckets(c) \in Nat \ {0}
  BY GoodFacts
<1> QED
  BY ResizeGood DEF ResizeUp

LEMMA ResizeDownGood ==
  ASSUME NEW c, InGoodOrder(c), IsFiniteSet(Events(c))
  PROVE  /\ InGoodOrder(ResizeDown(c)) /\ Events(ResizeDown(c)) = Events(c)
         /\ ResizeDown(c).m_lastPrio = c.m_lastPrio
<1>1. NBuckets(c) \in Nat /\ QSize(c) \in Nat
  BY GoodFacts, FS_CardinalityType DEF QSize
<1>2. NBuckets(c) \div 2 \in Nat
  BY <1>1
<1>3. QSize(c) < NBuckets(c) \div 2 => NBuckets(c) \div 2 \in Nat \ {0}
  BY <1>1, <1>2
<1> QED
  BY <1>3, ResizeGood DEF ResizeDown, Shrinks

-------------------------------------------------------------------------------
(* Every step of the calendar is one of the event queue. *)

LEMMA InitCalendarInv == Init => CalendarInv /\ Queue!Init
<1> SUFFICES ASSUME Init PROVE CalendarInv /\ Queue!Init
  OBVIOUS
<1>1. 0 \in 0 .. MaxTime
  BY KeyAssumption
<1>2. InGoodOrder(cal) /\ Events(cal) = {} /\ cal.m_lastPrio = 0
  BY <1>1, EmptyGood DEF Init
<1>3. current \in Key /\ current.ts = 0 /\ m_uid \in Nat
  BY <1>1 DEF Init, NoEvent, Key
<1>4. CalendarInv
  BY <1>2, <1>3, FS_EmptySet DEF CalendarInv
<1>5. Queue!Init
  BY <1>2 DEF Init, Queue!Init, NoEvent, Queue!NoEvent
<1> QED
  BY <1>4, <1>5

LEMMA InsertStep ==
  ASSUME CalendarInv, NEW ts \in 0 .. MaxTime, Insert(ts)
  PROVE  CalendarInv' /\ Queue!Insert(ts)
<1> DEFINE e == [ts |-> ts, uid |-> m_uid]
           d == DoInsert(cal, e)
<1>1. e \in Key /\ m_uid \in Nat /\ e.ts = ts /\ e.uid = m_uid
  BY KeyAssumption DEF CalendarInv, Key
<1>2. /\ ts >= current.ts /\ m_uid < MaxUid
      /\ cal' = ResizeUp(d) /\ m_uid' = m_uid + 1 /\ current' = current
  BY DEF Insert
<1> HIDE DEF e
<1>3. e \notin Events(cal) /\ cal.m_lastPrio <= e.ts
  BY <1>1, <1>2 DEF CalendarInv, Key
<1>4. InGoodOrder(d) /\ Events(d) = Events(cal) \cup {e} /\ d.m_lastPrio = cal.m_lastPrio
  BY <1>1, <1>3, DoInsertGood DEF CalendarInv
<1> HIDE DEF d
<1>5. IsFiniteSet(Events(d))
  BY <1>4, FS_AddElement DEF CalendarInv
<1>6. InGoodOrder(cal') /\ Events(cal') = Events(cal) \cup {e} /\ cal'.m_lastPrio = cal.m_lastPrio
      /\ IsFiniteSet(Events(cal'))
  BY <1>2, <1>4, <1>5, ResizeUpGood
<1>7. \A f \in Events(cal) : f \in Key /\ f.uid \in Nat /\ f.uid < m_uid /\ f.uid < MaxUid
  BY EventFacts DEF CalendarInv, Key
<1>8. \A f \in Events(cal') : f.uid < m_uid + 1 /\ f.uid < MaxUid
  BY <1>1, <1>2, <1>6, <1>7
<1>9. \A f, g \in Events(cal') : f.uid = g.uid => f = g
  BY <1>1, <1>6, <1>7 DEF CalendarInv
<1>10. CalendarInv'
  BY <1>1, <1>2, <1>6, <1>8, <1>9 DEF CalendarInv
<1>11. Queue!Insert(ts)
  BY <1>2, <1>6 DEF Queue!Insert, e
<1> QED
  BY <1>10, <1>11

LEMMA RemoveNextStep ==
  ASSUME CalendarInv, RemoveNext
  PROVE  CalendarInv' /\ Queue!RemoveNext
<1> DEFINE e == NextEvent(cal)
           d == DoRemoveNext(cal)
<1>1. QSize(cal) # 0 /\ current' = e /\ cal' = ResizeDown(d) /\ m_uid' = m_uid
  BY DEF RemoveNext
<1>2. Events(cal) # {}
  BY <1>1, FS_EmptySet DEF QSize
<1>3. /\ e \in Events(cal) /\ \A f \in Events(cal) : f = e \/ Less(e, f)
      /\ InGoodOrder(d) /\ Events(d) = Events(cal) \ {e} /\ d.m_lastPrio = e.ts
  BY <1>2, DoRemoveNextGood DEF CalendarInv
<1> HIDE DEF d, e
<1>4. IsFiniteSet(Events(d))
  BY <1>3, FS_RemoveElement DEF CalendarInv
<1>5. InGoodOrder(cal') /\ Events(cal') = Events(cal) \ {e} /\ cal'.m_lastPrio = e.ts
      /\ IsFiniteSet(Events(cal'))
  BY <1>1, <1>3, <1>4, ResizeDownGood
<1>6. current' \in Key
  BY <1>1, <1>3, EventFacts DEF CalendarInv
<1>7. CalendarInv'
  BY <1>1, <1>5, <1>6 DEF CalendarInv
<1>8. Queue!RemoveNext
  BY <1>1, <1>3, <1>5 DEF Queue!RemoveNext, Queue!Less, Less
<1> QED
  BY <1>7, <1>8

LEMMA RemoveEventStep ==
  ASSUME CalendarInv, NEW e \in Events(cal), RemoveEvent(e)
  PROVE  CalendarInv' /\ Queue!Remove(e)
<1> DEFINE b == Hash(cal, e.ts)
           s == TakenByUid(cal.m_buckets[b], e)
           d == [cal EXCEPT !.m_buckets[b] = s]
<1>1. cal' = ResizeDown(d) /\ m_uid' = m_uid /\ current' = current
  <2>1. WithoutEvent(cal, e) = d
    BY DEF WithoutEvent, TakenByUid
  <2> HIDE DEF d
  <2> QED
    BY <2>1 DEF RemoveEvent
<1>2. e \in Key /\ b \in 0 .. NBuckets(cal) - 1 /\ e \in ToSet(cal.m_buckets[b])
  BY EventFacts DEF CalendarInv
<1>3. cal.m_buckets[b] \in Seq(Key) /\ InOrder(cal.m_buckets[b])
  BY <1>2, GoodFacts DEF CalendarInv
<1>4. ToSet(cal.m_buckets[b]) \subseteq Events(cal)
  BY <1>2, EventFacts DEF CalendarInv
<1>5. s \in Seq(Key) /\ InOrder(s) /\ ToSet(s) = ToSet(cal.m_buckets[b]) \ {e}
  BY <1>2, <1>3, <1>4, TakenByUidInOrder DEF CalendarInv
<1>6. \A f \in ToSet(s) : Hash(cal, f.ts) = b
  BY <1>2, <1>5, GoodFacts DEF CalendarInv
<1>7. (Events(cal) \ ToSet(cal.m_buckets[b])) \cup ToSet(s) = Events(cal) \ {e}
  BY <1>2, <1>4, <1>5
<1>8. d = Changed(cal, b, s, cal.m_lastPrio)
  <2> HIDE DEF b, s
  <2> QED
    BY OneBucketChanged DEF CalendarInv
<1> HIDE DEF b, s, d
<1>9. cal.m_lastPrio \in 0 .. MaxTime /\ \A f \in Events(cal) \ {e} : cal.m_lastPrio <= f.ts
  BY GoodFacts, EventFacts DEF CalendarInv
<1>10. InGoodOrder(d) /\ Events(d) = Events(cal) \ {e} /\ d.m_lastPrio = cal.m_lastPrio
  BY <1>2, <1>5, <1>6, <1>7, <1>8, <1>9, ChangedGood DEF CalendarInv
<1>11. IsFiniteSet(Events(d))
  BY <1>10, FS_RemoveElement DEF CalendarInv
<1>12. InGoodOrder(cal') /\ Events(cal') = Events(cal) \ {e} /\ cal'.m_lastPrio = cal.m_lastPrio
      /\ IsFiniteSet(Events(cal'))
  BY <1>1, <1>10, <1>11, ResizeDownGood
<1>13. CalendarInv'
  BY <1>1, <1>12 DEF CalendarInv
<1>14. Queue!Remove(e)
  BY <1>1, <1>12 DEF Queue!Remove
<1> QED
  BY <1>13, <1>14

LEMMA CalendarStep ==
  ASSUME CalendarInv, [Next]_vars
  PROVE  CalendarInv' /\ [Queue!Next]_(Queue!vars)
<1>1. ASSUME NEW ts \in 0 .. MaxTime, Insert(ts) PROVE CalendarInv' /\ Queue!Next
  BY <1>1, InsertStep DEF Queue!Next
<1>2. ASSUME RemoveNext PROVE CalendarInv' /\ Queue!Next
  BY <1>2, RemoveNextStep DEF Queue!Next
<1>3. ASSUME NEW e \in Events(cal), RemoveEvent(e) PROVE CalendarInv' /\ Queue!Next
  BY <1>3, RemoveEventStep DEF Queue!Next
<1>4. CASE UNCHANGED vars
  BY <1>4 DEF vars, Queue!vars, CalendarInv
<1>5. CASE Done
  BY <1>5, <1>4 DEF Done
<1> QED
  BY <1>1, <1>2, <1>3, <1>4, <1>5 DEF Next

\* The calendar keeps the contract of the Scheduler interface for every number
\* and every distance of events, through every Resize and with whatever width
\* 32 bits keep of the one that was calculated, until a width of 0 ends the
\* process: what RemoveNext returns is the earliest event, and none is lost
\* when the buckets are made anew.
THEOREM CalendarKeepsContract == Spec => CalendarImplementsQueue
<1>1. CalendarInv /\ [Next]_vars => CalendarInv' /\ [Queue!Next]_(Queue!vars)
  BY CalendarStep
<1> QED
  BY <1>1, InitCalendarInv, PTL DEF Spec, CalendarImplementsQueue, ImplementsQueue, Queue!Spec

\* PeekNext shows the earliest event of the calendar, and overlooks events only
\* when all of them lie beyond the times of 32 bits.
THEOREM PeekShowsEarliest == Spec => []PeekFindsEarliest
<1>1. CalendarInv => PeekFindsEarliest
  <2> DEFINE p == PeekNext(cal)
             m == MinHead(cal)
  <2> SUFFICES ASSUME CalendarInv, QSize(cal) # 0
               PROVE  IF p \in Events(cal) THEN \A e \in Events(cal) : e = p \/ Less(p, e)
                      ELSE \A e \in Events(cal) : e.ts >= TwoTo32
    BY DEF PeekFindsEarliest
  <2>1. Events(cal) # {} /\ InGoodOrder(cal)
    BY FS_EmptySet DEF QSize, CalendarInv
  <2>2. CASE Due(cal) # {}
    <3>1. p = Head(cal.m_buckets[Bucket(cal, Min(Due(cal)))])
      BY <2>2 DEF PeekNext
    <3> HIDE DEF p
    <3> QED
      BY <2>1, <2>2, <3>1, DueIsNext
  <2>3. CASE Due(cal) = {}
    <3>1. m \in Events(cal) /\ \A e \in Events(cal) : e = m \/ Less(m, e)
      BY <2>1, MinHeadIsNext
    <3>2. p = IF Less(m, NoneFound) THEN m ELSE NoneFound
      BY <2>3 DEF PeekNext
    <3> HIDE DEF p, m
    <3>3. \A e \in Events(cal) : e.ts \in Nat /\ e.uid \in Nat /\ e.uid < MaxUid
      BY <2>1, EventFacts DEF CalendarInv, Key
    <3>4. CASE Less(m, NoneFound)
      BY <3>1, <3>2, <3>4
    <3>5. CASE ~Less(m, NoneFound)
      <4>1. NoneFound.ts = TwoTo32 - 1 /\ NoneFound.uid = MaxUid
        BY DEF NoneFound
      <4>2. p \notin Events(cal)
        BY <3>2, <3>3, <3>5, <4>1, KeyAssumption
      <4>3. m.ts >= TwoTo32
        BY <3>1, <3>3, <3>5, <4>1, KeyAssumption, CalendarAssumption DEF Less
      <4>4. \A e \in Events(cal) : e.ts >= TwoTo32
        BY <3>1, <3>3, <4>3, CalendarAssumption DEF Less
      <4> QED
        BY <4>2, <4>4
    <3> QED
      BY <3>4, <3>5
  <2> QED
    BY <2>2, <2>3
<1>2. CalendarInv /\ [Next]_vars => CalendarInv'
  BY CalendarStep
<1> QED
  BY <1>1, <1>2, InitCalendarInv, PTL DEF Spec

-------------------------------------------------------------------------------
(* The heap *)

LEMMA HeapKeys ==
  /\ Heap!Key = Key
  /\ \A e, f : Heap!Less(e, f) <=> Less(e, f)
  /\ \A s : Heap!ToSet(s) = ToSet(s)
BY DEF Heap!Key, Key, Heap!Less, Less, Heap!ToSet, ToSet

LEMMA NotEarlier ==
  ASSUME NEW e \in Key, NEW f \in Key, NEW g \in Key
  PROVE  /\ ~Less(f, e) /\ ~Less(g, f) => ~Less(g, e)
         /\ Less(e, f) => ~Less(f, e)
         /\ ~Less(f, e) => f = e \/ Less(e, f)
BY DEF Less, Key

\* The items of the heap h, without regard to their order
SameItems(h, g) ==
  /\ g \in Seq(Key) /\ Len(g) = Len(h) /\ ToSet(g) = ToSet(h)
  /\ \A i, j \in 1 .. Len(g) : g[i] = g[j] => i = j

LEMMA Exchanged ==
  ASSUME NEW h \in Seq(Key), \A i, j \in 1 .. Len(h) : h[i] = h[j] => i = j,
         NEW a \in 1 .. Len(h), NEW b \in 1 .. Len(h), a # b
  PROVE  /\ SameItems(h, Heap!Exch(h, a, b))
         /\ Heap!Exch(h, a, b)[a] = h[b] /\ Heap!Exch(h, a, b)[b] = h[a]
         /\ \A i \in 1 .. Len(h) : i # a /\ i # b => Heap!Exch(h, a, b)[i] = h[i]
<1> DEFINE g == Heap!Exch(h, a, b)
           at(i) == IF i = a THEN b ELSE IF i = b THEN a ELSE i
<1>1. /\ g \in Seq(Key) /\ Len(g) = Len(h) /\ g[a] = h[b] /\ g[b] = h[a]
      /\ \A i \in 1 .. Len(h) : i # a /\ i # b => g[i] = h[i]
  <2>1. g = [h EXCEPT ![a] = h[b], ![b] = h[a]]
    BY DEF Heap!Exch
  <2>2. h[a] \in Key /\ h[b] \in Key
    OBVIOUS
  <2> QED
    BY <2>1, <2>2
<1> HIDE DEF g
<1>2. \A i \in 1 .. Len(h) : at(i) \in 1 .. Len(h) /\ g[i] = h[at(i)] /\ h[i] = g[at(i)] /\ at(at(i)) = i
  BY <1>1
<1> HIDE DEF at
<1>3. \A i, j \in 1 .. Len(g) : g[i] = g[j] => i = j
  <2> SUFFICES ASSUME NEW i \in 1 .. Len(h), NEW j \in 1 .. Len(h), g[i] = g[j] PROVE i = j
    BY <1>1
  <2>1. at(i) = at(j)
    BY <1>2
  <2> QED
    BY <1>2, <2>1
<1>4. ToSet(g) = ToSet(h)
  <2>1. ASSUME NEW x \in ToSet(g) PROVE x \in ToSet(h)
    <3>1. PICK i \in 1 .. Len(h) : x = g[i]
      BY <1>1, Holds
    <3> QED
      BY <1>2, <3>1, Holds
  <2>2. ASSUME NEW x \in ToSet(h) PROVE x \in ToSet(g)
    <3>1. PICK i \in 1 .. Len(h) : x = h[i]
      BY Holds
    <3> QED
      BY <1>1, <1>2, <3>1, Holds
  <2> QED
    BY <2>1, <2>2
<1> QED
  BY <1>1, <1>3, <1>4 DEF SameItems, g

\* In a heap, no item is earlier than the first.
LEMMA FirstIsLeast ==
  ASSUME NEW h \in Seq(Key), Heap!HeapOrdered(h), NEW i \in 1 .. Len(h)
  PROVE  ~Less(h[i], h[1])
<1> DEFINE T == {j \in 1 .. Len(h) : Less(h[j], h[1])}
<1> SUFFICES ASSUME T # {} PROVE FALSE
  OBVIOUS
<1>1. T \in SUBSET Nat
  OBVIOUS
<1>2. PICK j \in T : \A k \in T : j <= k
  <2> HIDE DEF T
  <2> QED
    BY <1>1, LeastNat
<1>3. j \in 1 .. Len(h) /\ Less(h[j], h[1]) /\ h[j] \in Key /\ h[1] \in Key
  BY <1>2
<1>4. j # 1
  BY <1>3, LessFacts
<1> DEFINE p == j \div 2
<1>5. p \in 1 .. Len(h) /\ p < j /\ j \in 2 .. Len(h)
  BY <1>3, <1>4
<1>6. ~Less(h[j], h[p])
  BY <1>5, HeapKeys DEF Heap!HeapOrdered, Heap!Parent
<1> HIDE DEF p
<1>7. ~Less(h[p], h[1])
  BY <1>2, <1>3, <1>5
<1> QED
  BY <1>3, <1>5, <1>6, <1>7, NotEarlier

\* An item on its way up: the rest is in order, without it and around it.
Rising(h, x) ==
  /\ x \in [heap : Seq(Key), index : Nat] /\ SameItems(h, x.heap) /\ x.index \in 1 .. Len(h)
  /\ \A i \in 2 .. Len(h) : i # x.index => ~Less(x.heap[i], x.heap[i \div 2])
  /\ \A i \in 2 .. Len(h) : x.index # 1 /\ i \div 2 = x.index => ~Less(x.heap[i], x.heap[x.index \div 2])

Risen(x) == x.index = 1 \/ ~Less(x.heap[x.index], x.heap[x.index \div 2])

LEMMA RiseTurn ==
  ASSUME NEW h \in Seq(Key), NEW x, Rising(h, x)
  PROVE  /\ Risen(x) => Heap!Rise(x) = x
         /\ ~Risen(x) => Rising(h, Heap!Rise(x)) /\ Heap!Rise(x).index < x.index
<1> DEFINE a == x.index
           g == x.heap
           p == a \div 2
           f == Heap!Exch(g, a, p)
           n == Len(h)
<1>1. Risen(x) => Heap!Rise(x) = x
  BY HeapKeys DEF Risen, Heap!Rise, Heap!Parent
<1> SUFFICES ASSUME ~Risen(x) PROVE Rising(h, Heap!Rise(x)) /\ Heap!Rise(x).index < x.index
  BY <1>1
<1>2. a # 1 /\ Less(g[a], g[p]) /\ Heap!Rise(x) = [heap |-> f, index |-> p]
  BY HeapKeys DEF Risen, Heap!Rise, Heap!Parent
<1>3. /\ g \in Seq(Key) /\ Len(g) = n /\ n \in Nat /\ a \in 1 .. n /\ SameItems(h, g)
      /\ \A i \in 2 .. n : i # a => ~Less(g[i], g[i \div 2])
      /\ \A i \in 2 .. n : i \div 2 = a => ~Less(g[i], g[p])
  BY <1>2 DEF Rising, SameItems
<1> HIDE DEF a, g
<1>4. p \in 1 .. n /\ p < a /\ p # a
  BY <1>2, <1>3
<1>5. /\ SameItems(g, f) /\ f[a] = g[p] /\ f[p] = g[a]
      /\ \A i \in 1 .. n : i # a /\ i # p => f[i] = g[i]
  BY <1>3, <1>4, Exchanged DEF SameItems
<1>6. SameItems(h, f) /\ f \in Seq(Key)
  BY <1>3, <1>5 DEF SameItems
<1>7. \A i \in 1 .. n : g[i] \in Key
  BY <1>3
<1> HIDE DEF f, n
<1>8. ASSUME NEW i \in 2 .. n, i # p PROVE ~Less(f[i], f[i \div 2])
  <2> DEFINE q == i \div 2
  <2>1. i \in 1 .. n /\ q \in 1 .. n /\ q # i /\ (i = a => q = p)
    BY <1>3
  <2> HIDE DEF p
  <2>2. CASE i = a
    BY <1>2, <1>4, <1>3, <1>5, <1>7, <2>1, <2>2, LessFacts
  <2>3. CASE i # a /\ q = p
    <3>1. ~Less(g[i], g[p])
      BY <1>3, <2>3
    <3>2. ~Less(g[p], g[a])
      BY <1>2, <1>3, <1>4, <1>7, LessFacts
    <3>3. f[i] = g[i] /\ f[q] = g[a]
      BY <1>5, <1>8, <2>1, <2>3
    <3> QED
      BY <1>3, <1>4, <1>7, <2>1, <3>1, <3>2, <3>3, NotEarlier
  <2>4. CASE q = a
    <3>1. f[i] = g[i] /\ f[q] = g[p]
      BY <1>5, <1>8, <2>1, <2>4
    <3> QED
      BY <1>3, <2>4, <3>1
  <2>5. CASE i # a /\ q # p /\ q # a
    <3>1. f[i] = g[i] /\ f[q] = g[q]
      BY <1>5, <1>8, <2>1, <2>5
    <3> QED
      BY <1>3, <2>5, <3>1
  <2> QED
    BY <2>2, <2>3, <2>4, <2>5
<1>9. ASSUME NEW i \in 2 .. n, p # 1, i \div 2 = p PROVE ~Less(f[i], f[p \div 2])
  <2> DEFINE r == p \div 2
  <2>1. p \in 2 .. n /\ r \in 1 .. n /\ r # a /\ r # p /\ i \in 1 .. n /\ i # p
    BY <1>3, <1>4, <1>9
  <2>2. f[r] = g[r] /\ ~Less(g[p], g[r])
    BY <1>3, <1>4, <1>5, <2>1
  <2> HIDE DEF p, r
  <2>3. CASE i = a
    BY <1>5, <2>2, <2>3 DEF r
  <2>4. CASE i # a
    <3>1. f[i] = g[i] /\ ~Less(g[i], g[p])
      BY <1>3, <1>5, <1>9, <2>1, <2>4
    <3> QED
      BY <1>4, <1>7, <2>1, <2>2, <3>1, NotEarlier DEF r
  <2> QED
    BY <2>3, <2>4
<1>10. p \in Nat
  BY <1>4
<1> DEFINE y == [heap |-> f, index |-> p]
<1>11. y \in [heap : Seq(Key), index : Nat] /\ y.heap = f /\ y.index = p
  BY <1>6, <1>10
<1> HIDE DEF y, p
<1>12. Rising(h, y)
  BY <1>4, <1>6, <1>8, <1>9, <1>11 DEF Rising, n
<1> QED
  BY <1>2, <1>4, <1>11, <1>12 DEF y, a

\* BottomUp puts the last item where it belongs.
LEMMA BottomUpOrders ==
  ASSUME NEW h \in Seq(Key), NEW at, Rising(h, [heap |-> h, index |-> at])
  PROVE  SameItems(h, Heap!BottomUp(h, at)) /\ Heap!HeapOrdered(Heap!BottomUp(h, at))
<1> DEFINE n == Len(h)
           a == [heap |-> h, index |-> at]
           S == [heap : Seq(Key), index : Nat]
           G == [k \in 0 .. n |-> {x \in S : Rising(h, x) /\ (Risen(x) \/ x.index <= n - k)}]
           Def(g) == [k \in 0 .. n |-> IF k = 0 THEN a ELSE Heap!Rise(g[k - 1])]
           step == [k \in 1 .. n |-> [x \in S |-> IF x \in G[k - 1] THEN Heap!Rise(x) ELSE a]]
           turn == Heap!Rises(h, at)
<1>1. n \in Nat
  OBVIOUS
<1>2. ASSUME NEW k \in 1 .. n, NEW x \in G[k - 1] PROVE Heap!Rise(x) \in G[k]
  <2>1. x \in S /\ Rising(h, x) /\ (Risen(x) \/ x.index <= n - (k - 1))
    BY <1>1
  <2>2. CASE Risen(x)
    <3> Heap!Rise(x) = x
      BY <2>1, <2>2, RiseTurn
    <3> QED
      BY <1>1, <2>1, <2>2
  <2>3. CASE ~Risen(x)
    <3> DEFINE y == Heap!Rise(x)
    <3>1. Rising(h, y) /\ y.index < x.index
      BY <2>1, <2>3, RiseTurn
    <3> HIDE DEF y
    <3>2. y \in S /\ y.index \in Nat /\ x.index \in Nat
      BY <2>1, <3>1 DEF Rising
    <3>3. y.index <= n - k
      BY <1>1, <2>1, <2>3, <3>1, <3>2
    <3>4. y \in G[k]
      BY <1>1, <3>1, <3>2, <3>3
    <3> QED
      BY <3>4 DEF y
  <2> QED
    BY <2>2, <2>3
<1>3. a \in G[0]
  <2>1. a \in S /\ a.index <= n - 0
    BY <1>1 DEF Rising
  <2> HIDE DEF a
  <2> QED
    BY <1>1, <2>1 DEF a
<1>4. G \in [0 .. n -> SUBSET S]
  OBVIOUS
<1>5. turn = CHOOSE g : g = Def(g)
  BY DEF Heap!Rises
<1>6. ASSUME NEW x \in G[n] PROVE Rising(h, x) /\ Risen(x)
  <2>1. Rising(h, x) /\ (Risen(x) \/ x.index <= n - n)
    BY <1>1
  <2>2. x.index \in 1 .. n
    BY <2>1 DEF Rising
  <2> QED
    BY <1>1, <2>1, <2>2
<1> HIDE DEF G, turn, S, a
<1>7. step \in [1 .. n -> [S -> S]]
  <2> SUFFICES ASSUME NEW k \in 1 .. n, NEW x \in S
               PROVE  (IF x \in G[k - 1] THEN Heap!Rise(x) ELSE a) \in S
    OBVIOUS
  <2>1. k \in 0 .. n /\ 0 \in 0 .. n
    BY <1>1
  <2> QED
    BY <1>2, <1>3, <1>4, <2>1
<1>8. ASSUME NEW k \in 1 .. n, NEW x \in G[k - 1] PROVE step[k][x] = Heap!Rise(x)
  <2> k - 1 \in 0 .. n
    BY <1>1
  <2> x \in S
    BY <1>4
  <2> QED
    OBVIOUS
<1>9. PICK f \in [0 .. n -> S] : IsLoop(f, a, n, step) /\ \A k \in 0 .. n : f[k] \in G[k]
  <2>1. \A k \in 1 .. n : \A x \in G[k - 1] : step[k][x] \in G[k]
    BY <1>2, <1>8
  <2> HIDE DEF step, n
  <2> QED
    BY <1>1, <1>3, <1>4, <1>7, <2>1, GuardedLoop
<1>10. ASSUME NEW k \in 1 .. n PROVE f[k] = Heap!Rise(f[k - 1])
  <2>1. k - 1 \in 0 .. n
    BY <1>1
  <2>2. f[k] = step[k][f[k - 1]] /\ f[k - 1] \in G[k - 1]
    BY <1>9, <2>1 DEF IsLoop
  <2> QED
    BY <1>8, <2>2
<1>11. f = Def(f)
  BY <1>9, <1>10 DEF IsLoop
<1>12. turn = Def(turn)
  <2> HIDE DEF Def
  <2> QED
    BY <1>5, <1>11
<1>13. turn[0] = a /\ \A k \in 1 .. n : turn[k] = Heap!Rise(turn[k - 1])
  BY <1>1, <1>12, SMTT(40)
<1> DEFINE T == {k \in 0 .. n : turn[k] \in G[k]}
<1>14. 0 \in T
  BY <1>1, <1>3, <1>13
<1>15. \A k \in 1 .. n : k - 1 \in T => k \in T
  BY <1>1, <1>2, <1>13
<1> HIDE DEF T
<1>16. 0 .. n \subseteq T
  BY <1>1, <1>14, <1>15, IndexInduction
<1>17. turn[n] \in G[n]
  BY <1>1, <1>16 DEF T
<1> DEFINE x == turn[n]
<1>18. Rising(h, x) /\ Risen(x) /\ Heap!BottomUp(h, at) = x.heap
  BY <1>6, <1>17 DEF Heap!BottomUp, turn
<1> HIDE DEF x
<1>19. SameItems(h, x.heap)
  BY <1>18 DEF Rising
<1>20. \A i \in 2 .. Len(x.heap) : ~Less(x.heap[i], x.heap[i \div 2])
  BY <1>18, SMTT(40) DEF Rising, Risen, SameItems
<1>21. Heap!HeapOrdered(x.heap)
  BY <1>19, <1>20, HeapKeys DEF Heap!HeapOrdered, Heap!Parent, SameItems
<1> QED
  BY <1>18, <1>19, <1>21

\* An item on its way down
Sinking(h, x) ==
  /\ x \in [heap : Seq(Key), index : Nat] /\ SameItems(h, x.heap) /\ x.index # 0
  /\ \A i \in 2 .. Len(h) : i \div 2 # x.index => ~Less(x.heap[i], x.heap[i \div 2])
  /\ \A i \in 2 .. Len(h) : x.index # 1 /\ i \div 2 = x.index => ~Less(x.heap[i], x.heap[x.index \div 2])

Sunk(x) ==
  2 * x.index > Len(x.heap) \/ Less(x.heap[x.index], x.heap[Heap!Smallest(x.heap, x.index)])

\* The child that an item is compared with is not later than the other one.
LEMMA SmallestChild ==
  ASSUME NEW g \in Seq(Key), NEW a \in Nat \ {0}, 2 * a <= Len(g)
  PROVE  LET s == Heap!Smallest(g, a)
         IN  /\ s \in 2 .. Len(g) /\ s \div 2 = a /\ a < s
             /\ \A i \in 2 .. Len(g) : i \div 2 = a => ~Less(g[i], g[s])
<1> DEFINE l == 2 * a
           r == 2 * a + 1
           s == Heap!Smallest(g, a)
<1>1. Len(g) \in Nat /\ l \in 2 .. Len(g) /\ l \div 2 = a /\ r \div 2 = a /\ a < l /\ a < r /\ r \in Nat
  OBVIOUS
<1>2. \A i \in 2 .. Len(g) : i \div 2 = a => i = l \/ i = r
  OBVIOUS
<1>3. s = IF r <= Len(g) /\ ~Less(g[l], g[r]) THEN r ELSE l
  BY HeapKeys DEF Heap!Smallest, Heap!LeftChild, Heap!RightChild
<1> HIDE DEF l, r, s
<1>4. g[l] \in Key /\ (r <= Len(g) => r \in 2 .. Len(g) /\ g[r] \in Key)
  BY <1>1
<1>5. ~Less(g[l], g[l]) /\ (r <= Len(g) => ~Less(g[r], g[r]))
  BY <1>4, LessFacts
<1>6. CASE r <= Len(g) /\ ~Less(g[l], g[r])
  BY <1>1, <1>2, <1>3, <1>4, <1>5, <1>6 DEF s
<1>7. CASE ~(r <= Len(g))
  <2> \A i \in 2 .. Len(g) : i \div 2 = a => i = l
    BY <1>1, <1>2, <1>7
  <2> QED
    BY <1>1, <1>3, <1>5, <1>7 DEF s
<1>8. CASE r <= Len(g) /\ Less(g[l], g[r])
  <2> ~Less(g[r], g[l])
    BY <1>4, <1>8, LessFacts
  <2> QED
    BY <1>1, <1>2, <1>3, <1>5, <1>8 DEF s
<1> QED
  BY <1>6, <1>7, <1>8

LEMMA SinkTurn ==
  ASSUME NEW h \in Seq(Key), NEW x, Sinking(h, x)
  PROVE  /\ Sunk(x) => Heap!Sink(x) = x
         /\ ~Sunk(x) => Sinking(h, Heap!Sink(x)) /\ Heap!Sink(x).index > x.index
<1> DEFINE a == x.index
           g == x.heap
           s == Heap!Smallest(g, a)
           f == Heap!Exch(g, a, s)
           n == Len(h)
<1>1. Sunk(x) => Heap!Sink(x) = x
  BY HeapKeys DEF Sunk, Heap!Sink, Heap!LeftChild
<1> SUFFICES ASSUME ~Sunk(x) PROVE Sinking(h, Heap!Sink(x)) /\ Heap!Sink(x).index > x.index
  BY <1>1
<1>2. ~(2 * a > Len(g)) /\ ~Less(g[a], g[s]) /\ Heap!Sink(x) = [heap |-> f, index |-> s]
  BY HeapKeys DEF Sunk, Heap!Sink, Heap!LeftChild
<1>3. /\ g \in Seq(Key) /\ Len(g) = n /\ n \in Nat /\ a \in Nat \ {0} /\ SameItems(h, g)
      /\ \A i \in 2 .. n : i \div 2 # a => ~Less(g[i], g[i \div 2])
      /\ \A i \in 2 .. n : a # 1 /\ i \div 2 = a => ~Less(g[i], g[a \div 2])
  BY DEF Sinking, SameItems
<1> HIDE DEF a, g
<1>4. 2 * a <= Len(g)
  BY <1>2, <1>3
<1>5. s \in 2 .. n /\ s \div 2 = a /\ a < s /\ \A i \in 2 .. n : i \div 2 = a => ~Less(g[i], g[s])
  BY <1>3, <1>4, SmallestChild
<1> HIDE DEF s
<1>6. a \in 1 .. n /\ s \in 1 .. n /\ a # s
  BY <1>3, <1>5
<1>7. /\ SameItems(g, f) /\ f[a] = g[s] /\ f[s] = g[a]
      /\ \A i \in 1 .. n : i # a /\ i # s => f[i] = g[i]
  BY <1>3, <1>6, Exchanged DEF SameItems
<1>8. SameItems(h, f) /\ f \in Seq(Key)
  BY <1>3, <1>7 DEF SameItems
<1> HIDE DEF f, n
<1>9. ASSUME NEW i \in 2 .. n, i \div 2 # s PROVE ~Less(f[i], f[i \div 2])
  <2> DEFINE q == i \div 2
  <2>1. i \in 1 .. n /\ q \in 1 .. n /\ q # i
    BY <1>3
  <2>2. CASE i = s
    BY <1>2, <1>5, <1>7, <2>2
  <2>3. CASE i # s /\ q = a
    <3>1. ~Less(g[i], g[s])
      BY <1>5, <2>3
    <3>2. f[i] = g[i] /\ f[q] = g[s]
      BY <1>7, <2>1, <2>3
    <3> QED
      BY <3>1, <3>2
  <2>4. CASE i = a
    <3>1. a # 1 /\ ~Less(g[s], g[q])
      BY <1>3, <1>5, <2>4
    <3>2. f[i] = g[s] /\ f[q] = g[q]
      BY <1>7, <1>9, <2>1, <2>4
    <3> QED
      BY <3>1, <3>2
  <2>5. CASE i # s /\ q # a /\ i # a
    <3>1. f[i] = g[i] /\ f[q] = g[q]
      BY <1>7, <1>9, <2>1, <2>5
    <3> QED
      BY <1>3, <2>5, <3>1
  <2> QED
    BY <2>2, <2>3, <2>4, <2>5
<1>10. ASSUME NEW i \in 2 .. n, i \div 2 = s PROVE ~Less(f[i], f[s \div 2])
  <2>1. i \in 1 .. n /\ i # s /\ i # a
    BY <1>3, <1>5, <1>6, <1>10
  <2>2. f[i] = g[i] /\ f[s \div 2] = g[s]
    BY <1>5, <1>7, <2>1
  <2>3. ~Less(g[i], g[s])
    BY <1>3, <1>6, <1>10
  <2> QED
    BY <2>2, <2>3
<1> DEFINE y == [heap |-> f, index |-> s]
<1>11. y \in [heap : Seq(Key), index : Nat] /\ y.heap = f /\ y.index = s /\ s # 0
  BY <1>5, <1>8
<1> HIDE DEF y
<1>12. Sinking(h, y)
  BY <1>8, <1>9, <1>10, <1>11 DEF Sinking, n
<1> QED
  BY <1>2, <1>3, <1>5, <1>11, <1>12 DEF y, a

\* TopDown puts the item where it belongs.
LEMMA TopDownOrders ==
  ASSUME NEW h \in Seq(Key), NEW at, Sinking(h, [heap |-> h, index |-> at])
  PROVE  SameItems(h, Heap!TopDown(h, at)) /\ Heap!HeapOrdered(Heap!TopDown(h, at))
<1> DEFINE n == Len(h)
           a == [heap |-> h, index |-> at]
           S == [heap : Seq(Key), index : Nat]
           G == [k \in 0 .. n |-> {x \in S : Sinking(h, x) /\ (Sunk(x) \/ x.index > k)}]
           Def(g) == [k \in 0 .. n |-> IF k = 0 THEN a ELSE Heap!Sink(g[k - 1])]
           step == [k \in 1 .. n |-> [x \in S |-> IF x \in G[k - 1] THEN Heap!Sink(x) ELSE a]]
           turn == Heap!Sinks(h, at)
<1>1. n \in Nat
  OBVIOUS
<1>2. ASSUME NEW k \in 1 .. n, NEW x \in G[k - 1] PROVE Heap!Sink(x) \in G[k]
  <2>1. x \in S /\ Sinking(h, x) /\ (Sunk(x) \/ x.index > k - 1)
    BY <1>1
  <2>2. CASE Sunk(x)
    <3> Heap!Sink(x) = x
      BY <2>1, <2>2, SinkTurn
    <3> QED
      BY <1>1, <2>1, <2>2
  <2>3. CASE ~Sunk(x)
    <3> DEFINE y == Heap!Sink(x)
    <3>1. Sinking(h, y) /\ y.index > x.index
      BY <2>1, <2>3, SinkTurn
    <3> HIDE DEF y
    <3>2. y \in S /\ y.index \in Nat /\ x.index \in Nat
      BY <2>1, <3>1 DEF Sinking
    <3>3. y.index > k
      BY <1>1, <2>1, <2>3, <3>1, <3>2
    <3>4. y \in G[k]
      BY <1>1, <3>1, <3>2, <3>3
    <3> QED
      BY <3>4 DEF y
  <2> QED
    BY <2>2, <2>3
<1>3. a \in G[0]
  <2>1. a \in S /\ a.index > 0
    BY DEF Sinking
  <2> HIDE DEF a
  <2> QED
    BY <1>1, <2>1 DEF a
<1>4. G \in [0 .. n -> SUBSET S]
  OBVIOUS
<1>5. turn = CHOOSE g : g = Def(g)
  BY DEF Heap!Sinks
<1>6. ASSUME NEW x \in G[n] PROVE Sinking(h, x) /\ Sunk(x)
  <2>1. Sinking(h, x) /\ (Sunk(x) \/ x.index > n)
    BY <1>1
  <2>2. x.index \in Nat /\ Len(x.heap) = n
    BY <2>1 DEF Sinking, SameItems
  <2>3. x.index > n => Sunk(x)
    BY <1>1, <2>2 DEF Sunk
  <2> QED
    BY <2>1, <2>3
<1> HIDE DEF G, turn, S, a
<1>7. step \in [1 .. n -> [S -> S]]
  <2> SUFFICES ASSUME NEW k \in 1 .. n, NEW x \in S
               PROVE  (IF x \in G[k - 1] THEN Heap!Sink(x) ELSE a) \in S
    OBVIOUS
  <2>1. k \in 0 .. n /\ 0 \in 0 .. n
    BY <1>1
  <2> QED
    BY <1>2, <1>3, <1>4, <2>1
<1>8. ASSUME NEW k \in 1 .. n, NEW x \in G[k - 1] PROVE step[k][x] = Heap!Sink(x)
  <2> k - 1 \in 0 .. n
    BY <1>1
  <2> x \in S
    BY <1>4
  <2> QED
    OBVIOUS
<1>9. PICK f \in [0 .. n -> S] : IsLoop(f, a, n, step) /\ \A k \in 0 .. n : f[k] \in G[k]
  <2>1. \A k \in 1 .. n : \A x \in G[k - 1] : step[k][x] \in G[k]
    BY <1>2, <1>8
  <2> HIDE DEF step, n
  <2> QED
    BY <1>1, <1>3, <1>4, <1>7, <2>1, GuardedLoop
<1>10. ASSUME NEW k \in 1 .. n PROVE f[k] = Heap!Sink(f[k - 1])
  <2>1. k - 1 \in 0 .. n
    BY <1>1
  <2>2. f[k] = step[k][f[k - 1]] /\ f[k - 1] \in G[k - 1]
    BY <1>9, <2>1 DEF IsLoop
  <2> QED
    BY <1>8, <2>2
<1>11. f = Def(f)
  BY <1>9, <1>10 DEF IsLoop
<1>12. turn = Def(turn)
  <2> HIDE DEF Def
  <2> QED
    BY <1>5, <1>11
<1>13. turn[0] = a /\ \A k \in 1 .. n : turn[k] = Heap!Sink(turn[k - 1])
  BY <1>1, <1>12, SMTT(40)
<1> DEFINE T == {k \in 0 .. n : turn[k] \in G[k]}
<1>14. 0 \in T
  BY <1>1, <1>3, <1>13
<1>15. \A k \in 1 .. n : k - 1 \in T => k \in T
  BY <1>1, <1>2, <1>13
<1> HIDE DEF T
<1>16. 0 .. n \subseteq T
  BY <1>1, <1>14, <1>15, IndexInduction
<1>17. turn[n] \in G[n]
  BY <1>1, <1>16 DEF T
<1> DEFINE x == turn[n]
<1>18. Sinking(h, x) /\ Sunk(x) /\ Heap!TopDown(h, at) = x.heap
  BY <1>6, <1>17 DEF Heap!TopDown, turn
<1> HIDE DEF x
<1>19. SameItems(h, x.heap) /\ x.index \in Nat \ {0} /\ x.heap \in Seq(Key) /\ Len(x.heap) = n
  BY <1>18 DEF Sinking, SameItems
<1>20. ASSUME NEW i \in 2 .. n PROVE ~Less(x.heap[i], x.heap[i \div 2])
  <2> DEFINE g == x.heap
             b == x.index
             s == Heap!Smallest(g, b)
  <2>1. CASE i \div 2 # b
    BY <1>18, <2>1 DEF Sinking
  <2>2. CASE i \div 2 = b
    <3> HIDE DEF g, b, s
    <3>1. 2 * b <= Len(g) /\ b \in 1 .. n /\ i \in 1 .. n
      BY <1>1, <1>19, <2>2 DEF g, b
    <3>2. Less(g[b], g[s])
      BY <1>1, <1>18, <1>19, <3>1 DEF Sunk, g, b, s
    <3>3. s \in 2 .. n /\ ~Less(g[i], g[s])
      BY <1>19, <2>2, <3>1, SmallestChild DEF g, b, s
    <3>4. g[b] \in Key /\ g[s] \in Key /\ g[i] \in Key
      <4> s \in 1 .. n
        BY <1>1, <3>3
      <4> QED
        BY <1>19, <3>1 DEF g
    <3>5. ~Less(g[s], g[b])
      BY <3>2, <3>4, LessFacts
    <3>6. ~Less(g[i], g[b])
      BY <3>3, <3>4, <3>5, NotEarlier
    <3> QED
      BY <2>2, <3>6 DEF g
  <2> QED
    BY <2>1, <2>2
<1>21. Heap!HeapOrdered(x.heap)
  BY <1>19, <1>20, HeapKeys DEF Heap!HeapOrdered, Heap!Parent, SameItems
<1> QED
  BY <1>18, <1>19, <1>21

\* The gap at i, filled with the last item
LEMMA GapFilled ==
  ASSUME NEW h \in Seq(Key), Heap!HeapOrdered(h), NEW i \in 1 .. Len(h),
         i = 1 \/ i = Len(h) \/ ~Less(h[Len(h)], h[i \div 2])
  PROVE  LET g == Heap!Front(Heap!Exch(h, i, Len(h)))
         IN  /\ g \in Seq(Key) /\ Len(g) = Len(h) - 1 /\ ToSet(g) = ToSet(h) \ {h[i]}
             /\ Sinking(g, [heap |-> g, index |-> i])
<1> DEFINE n == Len(h)
           f == Heap!Exch(h, i, n)
           g == Heap!Front(f)
<1>1. n \in Nat /\ \A j \in 1 .. n : h[j] \in Key
  OBVIOUS
<1>2. f \in Seq(Key) /\ Len(f) = n /\ \A j \in 1 .. n : f[j] = IF j = i THEN h[n] ELSE IF j = n THEN h[i] ELSE h[j]
  <2>1. f = [h EXCEPT ![i] = h[n], ![n] = h[i]]
    BY DEF Heap!Exch
  <2>2. n \in 1 .. n /\ h[n] \in Key /\ h[i] \in Key
    BY <1>1
  <2> QED
    BY <2>1, <2>2
<1> HIDE DEF f
<1>3. /\ g \in Seq(Key) /\ Len(g) = n - 1
      /\ \A j \in 1 .. n - 1 : g[j] = IF j = i THEN h[n] ELSE h[j]
  <2>1. g = SubSeq(f, 1, n - 1)
    BY <1>2 DEF Heap!Front
  <2>2. 1 \in 1 .. Len(f) + 1 /\ n - 1 \in 0 .. Len(f) /\ 1 <= (n - 1) + 1
    BY <1>1, <1>2
  <2>3. /\ SubSeq(f, 1, n - 1) \in Seq(Key) /\ Len(SubSeq(f, 1, n - 1)) = (n - 1) - 1 + 1
        /\ \A j \in 1 .. (n - 1) - 1 + 1 : SubSeq(f, 1, n - 1)[j] = f[1 + j - 1]
    BY <1>2, <2>2, Part
  <2> HIDE DEF g
  <2>4. g \in Seq(Key) /\ Len(g) = n - 1 /\ \A j \in 1 .. n - 1 : g[j] = f[j]
    BY <1>1, <2>1, <2>3
  <2> QED
    BY <1>1, <1>2, <2>4
<1> HIDE DEF g, n
<1>4. /\ \A j \in 2 .. n : ~Less(h[j], h[j \div 2])
      /\ \A j, k \in 1 .. n : h[j] = h[k] => j = k
  BY HeapKeys DEF Heap!HeapOrdered, Heap!Parent, n
<1>5. ASSUME NEW x \in ToSet(g) PROVE x \in ToSet(h) \ {h[i]}
  <2>1. PICK j \in 1 .. n - 1 : x = g[j]
    BY <1>3, Holds
  <2>2. PICK k \in 1 .. n : x = h[k] /\ k # i
    <3>1. CASE j = i
      <4> n \in 1 .. n /\ n # i /\ x = h[n]
        BY <1>1, <1>3, <2>1, <3>1
      <4> QED
        OBVIOUS
    <3>2. CASE j # i
      <4> j \in 1 .. n /\ x = h[j]
        BY <1>1, <1>3, <2>1, <3>2
      <4> QED
        BY <3>2
    <3> QED
      BY <3>1, <3>2
  <2> QED
    BY <1>4, <2>2, Holds DEF n
<1>6. ASSUME NEW x \in ToSet(h) \ {h[i]} PROVE x \in ToSet(g)
  <2>1. PICK k \in 1 .. n : x = h[k] /\ k # i
    BY Holds DEF n
  <2>2. CASE k = n
    <3> i \in 1 .. n - 1 /\ x = g[i]
      BY <1>1, <1>3, <2>1, <2>2 DEF n
    <3> QED
      BY <1>3, Holds
  <2>3. CASE k # n
    <3> k \in 1 .. n - 1 /\ x = g[k]
      BY <1>1, <1>3, <2>1, <2>3
    <3> QED
      BY <1>3, Holds
  <2> QED
    BY <2>2, <2>3
<1>7. \A j, k \in 1 .. Len(g) : g[j] = g[k] => j = k
  <2> SUFFICES ASSUME NEW j \in 1 .. n - 1, NEW k \in 1 .. n - 1, g[j] = g[k] PROVE j = k
    BY <1>3
  <2>1. j \in 1 .. n /\ k \in 1 .. n /\ n \in 1 .. n /\ j # n /\ k # n
    BY <1>1
  <2>2. g[j] = (IF j = i THEN h[n] ELSE h[j]) /\ g[k] = (IF k = i THEN h[n] ELSE h[k])
    BY <1>3
  <2> QED
    BY <1>4, <2>1, <2>2
<1>8. SameItems(g, g)
  BY <1>3, <1>7 DEF SameItems
<1>9. ASSUME NEW j \in 2 .. n - 1, j \div 2 # i PROVE ~Less(g[j], g[j \div 2])
  <2> DEFINE q == j \div 2
  <2>1. j \in 1 .. n - 1 /\ q \in 1 .. n - 1 /\ j \in 2 .. n
    BY <1>1
  <2>2. g[q] = h[q] /\ ~Less(h[j], h[q])
    BY <1>3, <1>4, <1>9, <2>1
  <2>3. CASE j = i
    <3> g[j] = h[n] /\ ~Less(h[n], h[q])
      BY <1>1, <1>3, <2>1, <2>3 DEF n
    <3> QED
      BY <2>2
  <2>4. CASE j # i
    BY <1>3, <2>1, <2>2, <2>4
  <2> QED
    BY <2>3, <2>4
<1>10. ASSUME NEW j \in 2 .. n - 1, i # 1, j \div 2 = i PROVE ~Less(g[j], g[i \div 2])
  <2> DEFINE q == i \div 2
  <2>1. j \in 1 .. n - 1 /\ j # i /\ q \in 1 .. n - 1 /\ q # i /\ j \in 2 .. n /\ i \in 2 .. n
    BY <1>1, <1>10 DEF n
  <2>2. g[j] = h[j] /\ g[q] = h[q]
    BY <1>3, <2>1
  <2>3. ~Less(h[j], h[i]) /\ ~Less(h[i], h[q])
    BY <1>4, <1>10, <2>1
  <2>4. h[j] \in Key /\ h[i] \in Key /\ h[q] \in Key
    BY <1>1, <2>1
  <2>5. ~Less(h[j], h[q])
    BY <2>3, <2>4, NotEarlier
  <2> QED
    BY <2>2, <2>5
<1> DEFINE x == [heap |-> g, index |-> i]
<1>11. x \in [heap : Seq(Key), index : Nat] /\ x.heap = g /\ x.index = i /\ i # 0
  BY <1>3
<1> HIDE DEF x
<1>12. Sinking(g, x)
  BY <1>3, <1>8, <1>9, <1>10, <1>11 DEF Sinking
<1>13. ToSet(g) = ToSet(h) \ {h[i]}
  BY <1>5, <1>6
<1> QED
  BY <1>3, <1>12, <1>13 DEF g, f, n, x

LEMMA ExtractGood ==
  ASSUME Heap!HeapInv, NEW i \in 1 .. Len(m_heap), Heap!FillerFits(i)
  PROVE  /\ Heap!Extract(i) \in Seq(Key) /\ Len(Heap!Extract(i)) = Len(m_heap) - 1
         /\ Heap!HeapOrdered(Heap!Extract(i)) /\ ToSet(Heap!Extract(i)) = ToSet(m_heap) \ {m_heap[i]}
<1> DEFINE g == Heap!Front(Heap!Exch(m_heap, i, Len(m_heap)))
<1>1. m_heap \in Seq(Key) /\ Heap!HeapOrdered(m_heap)
  BY HeapKeys DEF Heap!HeapInv, Heap!TypeOK
<1>2. i = 1 \/ i = Len(m_heap) \/ ~Less(m_heap[Len(m_heap)], m_heap[i \div 2])
  BY HeapKeys DEF Heap!FillerFits, Heap!Parent
<1>3. /\ g \in Seq(Key) /\ Len(g) = Len(m_heap) - 1 /\ ToSet(g) = ToSet(m_heap) \ {m_heap[i]}
      /\ Sinking(g, [heap |-> g, index |-> i])
  BY <1>1, <1>2, GapFilled
<1>4. Heap!Extract(i) = Heap!TopDown(g, i)
  BY DEF Heap!Extract
<1> HIDE DEF g
<1>5. SameItems(g, Heap!TopDown(g, i)) /\ Heap!HeapOrdered(Heap!TopDown(g, i))
  BY <1>3, TopDownOrders
<1> QED
  BY <1>3, <1>4, <1>5 DEF SameItems

\* The items of a heap keep their uids when it is rearranged.
LEMMA UidsBelow ==
  ASSUME NEW h \in Seq(Key), NEW u \in Nat, \A e \in ToSet(h) : e.uid < u
  PROVE  \A i \in 1 .. Len(h) : h[i].uid < u
BY Holds

LEMMA HeapInsertStep ==
  ASSUME Heap!HeapInv, NEW ts \in 0 .. MaxTime, Heap!Insert(ts)
  PROVE  Heap!HeapInv' /\ Heap!Queue!Insert(ts)
<1> DEFINE e == [ts |-> ts, uid |-> m_uid]
           n == Len(m_heap) + 1
           h == Append(m_heap, e)
           x == [heap |-> h, index |-> n]
<1>1. /\ m_heap \in Seq(Key) /\ m_uid \in Nat /\ heapCurrent \in Key /\ Heap!HeapOrdered(m_heap)
      /\ \A i \in 1 .. Len(m_heap) : m_heap[i].uid < m_uid
  BY HeapKeys DEF Heap!HeapInv, Heap!TypeOK
<1>2. e \in Key /\ e.uid = m_uid
  BY <1>1, KeyAssumption DEF Key
<1>3. /\ ts >= heapCurrent.ts /\ m_heap' = Heap!BottomUp(h, n) /\ m_uid' = m_uid + 1 /\ heapCurrent' = heapCurrent
      /\ Len(m_heap) < Capacity
  BY DEF Heap!Insert
<1> HIDE DEF e
<1>4. /\ n \in Nat \ {0} /\ h \in Seq(Key) /\ Len(h) = n /\ h[n] = e
      /\ \A i \in 1 .. n - 1 : h[i] = m_heap[i]
  BY <1>1, <1>2
<1>5. /\ \A i \in 2 .. n - 1 : ~Less(m_heap[i], m_heap[i \div 2])
      /\ \A i, j \in 1 .. n - 1 : m_heap[i] = m_heap[j] => i = j
      /\ \A i \in 1 .. n - 1 : m_heap[i] # e
  BY <1>1, <1>2, HeapKeys DEF Heap!HeapOrdered, Heap!Parent
<1>6. n - 1 = Len(m_heap) /\ Len(m_heap) \in Nat
  BY <1>1
<1> HIDE DEF h, n
<1>7. ToSet(h) = ToSet(m_heap) \cup {e}
  <2>1. ASSUME NEW y \in ToSet(h) PROVE y \in ToSet(m_heap) \cup {e}
    <3>1. PICK i \in 1 .. n : y = h[i]
      BY <1>4, Holds
    <3>2. i = n \/ i \in 1 .. Len(m_heap)
      BY <1>4, <1>6
    <3> QED
      BY <1>1, <1>4, <1>6, <3>1, <3>2, Holds
  <2>2. e \in ToSet(h)
    <3> n \in 1 .. n
      BY <1>4
    <3> QED
      BY <1>4, Holds
  <2>3. ASSUME NEW y \in ToSet(m_heap) PROVE y \in ToSet(h)
    <3>1. PICK i \in 1 .. Len(m_heap) : y = m_heap[i]
      BY <1>1, Holds
    <3>2. i \in 1 .. n /\ i \in 1 .. n - 1
      BY <1>4, <1>6
    <3> QED
      BY <1>4, <3>1, <3>2, Holds
  <2> QED
    BY <2>1, <2>2, <2>3
<1>8. SameItems(h, h)
  <2> SUFFICES ASSUME NEW i \in 1 .. n, NEW j \in 1 .. n, h[i] = h[j] PROVE i = j
    BY <1>4 DEF SameItems
  <2>1. (i = n \/ i \in 1 .. n - 1) /\ (j = n \/ j \in 1 .. n - 1)
    BY <1>4
  <2> QED
    BY <1>4, <1>5, <2>1
<1>9. ASSUME NEW i \in 2 .. n, i # n PROVE ~Less(h[i], h[i \div 2])
  <2> i \in 2 .. n - 1 /\ i \in 1 .. n - 1 /\ i \div 2 \in 1 .. n - 1
    BY <1>4, <1>9
  <2> QED
    BY <1>4, <1>5
<1>10. \A i \in 2 .. n : ~(i \div 2 = n)
  BY <1>4
<1>11. x \in [heap : Seq(Key), index : Nat] /\ x.heap = h /\ x.index = n /\ n \in 1 .. n
  BY <1>4
<1>12. Rising(h, x)
  <2> HIDE DEF x
  <2> QED
    BY <1>4, <1>8, <1>9, <1>10, <1>11 DEF Rising
<1>13. SameItems(h, m_heap') /\ Heap!HeapOrdered(m_heap')
  BY <1>3, <1>4, <1>12, BottomUpOrders
<1>14. /\ m_heap' \in Seq(Key) /\ Len(m_heap') = Len(m_heap) + 1 /\ ToSet(m_heap') = ToSet(m_heap) \cup {e}
  BY <1>4, <1>7, <1>13 DEF SameItems, n
<1>15. \A f \in ToSet(m_heap') : f.uid < m_uid + 1
  <2> SUFFICES ASSUME NEW f \in ToSet(m_heap) PROVE f.uid < m_uid + 1
    BY <1>1, <1>2, <1>14
  <2> f.uid \in Nat /\ f.uid < m_uid
    BY <1>1, Holds DEF Key
  <2> QED
    BY <1>1
<1>16. \A i \in 1 .. Len(m_heap') : m_heap'[i].uid < m_uid + 1
  BY <1>1, <1>14, <1>15, UidsBelow
<1>17. Len(m_heap') <= Capacity
  BY <1>3, <1>6, <1>14, KeyAssumption
<1>18. Heap!HeapInv'
  BY <1>1, <1>3, <1>13, <1>14, <1>16, <1>17, HeapKeys DEF Heap!HeapInv, Heap!TypeOK
<1>19. Heap!Queue!Insert(ts)
  BY <1>3, <1>14, HeapKeys DEF Heap!Queue!Insert, e
<1> QED
  BY <1>18, <1>19

LEMMA HeapTaken ==
  ASSUME Heap!HeapInv, NEW i \in 1 .. Len(m_heap), Heap!FillerFits(i), m_heap' = Heap!Extract(i),
         m_uid' = m_uid, heapCurrent' \in Key
  PROVE  Heap!HeapInv' /\ ToSet(m_heap') = ToSet(m_heap) \ {m_heap[i]}
<1>1. /\ m_heap' \in Seq(Key) /\ Len(m_heap') = Len(m_heap) - 1
      /\ Heap!HeapOrdered(m_heap') /\ ToSet(m_heap') = ToSet(m_heap) \ {m_heap[i]}
  BY ExtractGood
<1>2. /\ m_heap \in Seq(Key) /\ m_uid \in Nat /\ Len(m_heap) <= Capacity /\ Len(m_heap) \in Nat
      /\ \A j \in 1 .. Len(m_heap) : m_heap[j].uid < m_uid
  BY HeapKeys DEF Heap!HeapInv, Heap!TypeOK
<1>3. \A f \in ToSet(m_heap') : f.uid < m_uid
  BY <1>1, <1>2, Holds
<1>4. \A j \in 1 .. Len(m_heap') : m_heap'[j].uid < m_uid
  BY <1>1, <1>2, <1>3, UidsBelow
<1>5. Len(m_heap') <= Capacity
  BY <1>1, <1>2, KeyAssumption
<1>6. Heap!HeapInv'
  BY <1>1, <1>2, <1>4, <1>5, HeapKeys DEF Heap!HeapInv, Heap!TypeOK
<1> QED
  BY <1>1, <1>6

LEMMA HeapRemoveNextStep ==
  ASSUME Heap!HeapInv, Heap!RemoveNext
  PROVE  Heap!HeapInv' /\ Heap!Queue!RemoveNext
<1>1. m_heap \in Seq(Key) /\ m_heap # <<>> /\ Heap!HeapOrdered(m_heap)
  BY HeapKeys DEF Heap!HeapInv, Heap!TypeOK, Heap!RemoveNext
<1>2. 1 \in 1 .. Len(m_heap) /\ m_heap[1] \in Key
  BY <1>1
<1>3. heapCurrent' = m_heap[1] /\ m_heap' = Heap!Extract(1) /\ m_uid' = m_uid
  BY DEF Heap!RemoveNext
<1>4. Heap!HeapInv' /\ ToSet(m_heap') = ToSet(m_heap) \ {m_heap[1]}
  <2> Heap!FillerFits(1)
    BY DEF Heap!FillerFits
  <2> QED
    BY <1>2, <1>3, HeapTaken
<1>5. ASSUME NEW f \in ToSet(m_heap) PROVE f = m_heap[1] \/ Less(m_heap[1], f)
  <2>1. PICK i \in 1 .. Len(m_heap) : f = m_heap[i]
    BY <1>1, Holds
  <2>2. ~Less(f, m_heap[1]) /\ f \in Key
    BY <1>1, <2>1, FirstIsLeast
  <2> QED
    BY <1>2, <2>2, NotEarlier
<1>6. m_heap[1] \in ToSet(m_heap)
  BY <1>1, <1>2, Holds
<1>7. Heap!Queue!RemoveNext
  BY <1>3, <1>4, <1>5, <1>6, HeapKeys DEF Heap!Queue!RemoveNext, Heap!Queue!Less, Less
<1> QED
  BY <1>4, <1>7

LEMMA HeapRemoveStep ==
  ASSUME Heap!HeapInv, NEW i \in 1 .. Len(m_heap), Heap!RemoveEvent(i), Heap!FillerFits(i)
  PROVE  Heap!HeapInv' /\ Heap!Queue!Remove(m_heap[i]) /\ m_heap[i] \in Heap!ToSet(m_heap)
<1>1. m_heap \in Seq(Key) /\ heapCurrent \in Key
  BY HeapKeys DEF Heap!HeapInv, Heap!TypeOK
<1>2. m_heap' = Heap!Extract(i) /\ m_uid' = m_uid /\ heapCurrent' = heapCurrent
  BY DEF Heap!RemoveEvent
<1>3. Heap!HeapInv' /\ ToSet(m_heap') = ToSet(m_heap) \ {m_heap[i]}
  BY <1>1, <1>2, HeapTaken
<1>4. m_heap[i] \in ToSet(m_heap)
  BY <1>1, Holds
<1> QED
  BY <1>2, <1>3, <1>4, HeapKeys DEF Heap!Queue!Remove

LEMMA InitHeapInv == Heap!Init => Heap!HeapInv /\ Heap!Queue!Init
<1> SUFFICES ASSUME Heap!Init PROVE Heap!HeapInv /\ Heap!Queue!Init
  OBVIOUS
<1>1. m_heap = <<>> /\ m_heap \in Seq(Heap!Key) /\ Len(m_heap) = 0 /\ m_uid = 4
  BY DEF Heap!Init
<1>2. heapCurrent \in Heap!Key
  BY KeyAssumption DEF Heap!Init, Heap!NoEvent, Heap!Key
<1>3. Heap!HeapInv
  BY <1>1, <1>2, KeyAssumption DEF Heap!HeapInv, Heap!TypeOK, Heap!HeapOrdered
<1>4. Heap!Queue!Init
  BY DEF Heap!Init, Heap!Queue!Init, Heap!NoEvent, Heap!Queue!NoEvent, Heap!ToSet
<1> QED
  BY <1>3, <1>4

LEMMA HeapStep ==
  ASSUME Heap!HeapInv, [Heap!Next]_(Heap!vars),
         \A i \in 1 .. Len(m_heap) : Heap!RemoveEvent(i) => Heap!FillerFits(i)
  PROVE  Heap!HeapInv' /\ [Heap!Queue!Next]_(Heap!Queue!vars)
<1>1. ASSUME NEW ts \in 0 .. MaxTime, Heap!Insert(ts) PROVE Heap!HeapInv' /\ Heap!Queue!Next
  BY <1>1, HeapInsertStep DEF Heap!Queue!Next
<1>2. ASSUME Heap!RemoveNext PROVE Heap!HeapInv' /\ Heap!Queue!Next
  BY <1>2, HeapRemoveNextStep DEF Heap!Queue!Next
<1>3. ASSUME NEW i \in 1 .. Len(m_heap), Heap!RemoveEvent(i) PROVE Heap!HeapInv' /\ Heap!Queue!Next
  BY <1>3, HeapRemoveStep DEF Heap!Queue!Next
<1>4. CASE UNCHANGED Heap!vars
  BY <1>4 DEF Heap!vars, Heap!Queue!vars, Heap!HeapInv, Heap!TypeOK, Heap!HeapOrdered
<1>5. CASE Heap!Done
  BY <1>5, <1>4 DEF Heap!Done
<1> QED
  BY <1>1, <1>2, <1>3, <1>4, <1>5 DEF Heap!Next

\* The heap keeps the contract of the Scheduler interface for heaps of every
\* size, as long as every Remove finds the last item, with which it fills the
\* gap, not earlier than the item above the gap: what RemoveNext and Insert do
\* is right, and what Remove leaves out (the item may have to rise) is all that
\* is wrong.
THEOREM HeapKeepsContractWhileFillersFit ==
  Heap!Spec /\ Heap!FittingRemoves => HeapImplementsQueue
<1>1. Heap!HeapInv /\ [Heap!Next]_(Heap!vars)
      /\ [\A i \in 1 .. Len(m_heap) : Heap!RemoveEvent(i) => Heap!FillerFits(i)]_(Heap!vars)
      => Heap!HeapInv' /\ [Heap!Queue!Next]_(Heap!Queue!vars)
  <2>1. CASE UNCHANGED Heap!vars
    BY <2>1 DEF Heap!vars, Heap!Queue!vars, Heap!HeapInv, Heap!TypeOK, Heap!HeapOrdered
  <2>2. CASE ~UNCHANGED Heap!vars
    BY <2>2, HeapStep
  <2> QED
    BY <2>1, <2>2
<1> QED
  BY <1>1, InitHeapInv, PTL DEF Heap!Spec, Heap!FittingRemoves, HeapImplementsQueue,
     Heap!ImplementsQueue, Heap!Queue!Spec
===============================================================================
