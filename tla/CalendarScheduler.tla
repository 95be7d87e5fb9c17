--------------------------- MODULE CalendarScheduler ---------------------------
(***************************************************************************)
(* CalendarScheduler: the event list as a calendar queue.  Events lie in   *)
(* buckets of m_width units of time that are used again and again, year    *)
(* after year; the number and the width of the buckets follow the number   *)
(* and the distances of the events.                                        *)
(***************************************************************************)
EXTENDS EventKey, SequencesExt

CONSTANTS
  MaxBuckets,  \* the number of buckets from which ResizeUp does nothing
  TwoTo32      \* the number of values of a uint32_t

ASSUME CalendarAssumption == TwoTo32 \in Nat \ {0}

VARIABLES
  cal,        \* the members: m_buckets, m_width, m_lastPrio, m_lastBucket, m_bucketTop
  aborted,    \* the process has ended in a division by zero
  m_uid,      \* the uid of the simulator's next event
  current     \* the event that the simulator took last

vars == <<cal, aborted, m_uid, current>>

NBuckets(c) == Cardinality(DOMAIN c.m_buckets)
Hash(c, ts) == (ts \div c.m_width) % NBuckets(c)
Events(c) == UNION {ToSet(c.m_buckets[i]) : i \in DOMAIN c.m_buckets}
QSize(c) == Cardinality(Events(c))

\* Init: empty buckets, from the time startPrio on
Empty(nBuckets, width, startPrio) ==
  [m_buckets |-> [i \in 0 .. nBuckets - 1 |-> <<>>],
   m_width |-> width,
   m_lastPrio |-> startPrio,
   m_lastBucket |-> (startPrio \div width) % nBuckets,
   m_bucketTop |-> (startPrio \div width + 1) * width]

Init == cal = Empty(2, 1, 0) /\ aborted = FALSE /\ m_uid = 4 /\ current = NoEvent

\* An event goes before the first later one of its bucket.
DoInsert(c, e) ==
  LET b == Hash(c, e.ts)
      place == SelectInSeq(c.m_buckets[b], LAMBDA f : Less(e, f))
  IN  [c EXCEPT !.m_buckets[b] = IF place = 0 THEN Append(@, e) ELSE InsertAt(@, place, e)]

-------------------------------------------------------------------------------
(* The next event *)

\* The bucket that is looked at after k others, and the end of its time this year.
Bucket(c, k) == (c.m_lastBucket + k) % NBuckets(c)
BucketTop(c, k) == c.m_bucketTop + k * c.m_width

\* The buckets whose first event is due this year.  The mutant forgets the year.
DueAnyYear(c) == {k \in 0 .. NBuckets(c) - 1 : c.m_buckets[Bucket(c, k)] # <<>>}
Due(c) ==
  {k \in 0 .. NBuckets(c) - 1 :
    c.m_buckets[Bucket(c, k)] # <<>> /\ Head(c.m_buckets[Bucket(c, k)]).ts < BucketTop(c, k)}

\* The earliest of the first events of all buckets
MinHead(c) ==
  LET heads == {Head(c.m_buckets[i]) : i \in {j \in DOMAIN c.m_buckets : c.m_buckets[j] # <<>>}}
  IN  CHOOSE e \in heads : \A f \in heads \ {e} : Less(e, f)

\* PeekNext starts its search for the minimum from a time and a uid of 32 ones;
\* uids are below MaxUid.  The mutant starts from zero.
NoneFoundZero == [ts |-> 0, uid |-> 0]
NoneFound == [ts |-> TwoTo32 - 1, uid |-> MaxUid]
PeekNext(c) ==
  IF Due(c) # {} THEN Head(c.m_buckets[Bucket(c, Min(Due(c)))])
  ELSE IF Less(MinHead(c), NoneFound) THEN MinHead(c) ELSE NoneFound

\* DoRemoveNext: the event, and the calendar without it
NextEvent(c) == IF Due(c) # {} THEN Head(c.m_buckets[Bucket(c, Min(Due(c)))]) ELSE MinHead(c)
DoRemoveNext(c) ==
  LET e == NextEvent(c)
      b == Hash(c, e.ts)
  IN  IF Due(c) # {}
      THEN [c EXCEPT !.m_lastBucket = Bucket(c, Min(Due(c))), !.m_lastPrio = e.ts,
                     !.m_bucketTop = BucketTop(c, Min(Due(c))),
                     !.m_buckets[Bucket(c, Min(Due(c)))] = Tail(@)]
      ELSE [c EXCEPT !.m_lastBucket = b, !.m_lastPrio = e.ts,
                     !.m_bucketTop = (e.ts \div c.m_width + 1) * c.m_width,
                     !.m_buckets[b] = Tail(@)]

-------------------------------------------------------------------------------
(* Resizing *)

\* The calendar after each of n calls of DoRemoveNext, and the events that they give
Removals(c, n) ==
  LET left[k \in 0 .. n] == IF k = 0 THEN c ELSE DoRemoveNext(left[k - 1])
  IN  left
Samples(c, n) == LET left == Removals(c, n) IN [k \in 1 .. n |-> NextEvent(left[k - 1])]

\* The totals of the first values of f
Totals(f, n) ==
  LET total[k \in 0 .. n] == IF k = 0 THEN 0 ELSE total[k - 1] + f[k]
  IN  total

\* Three times the distances of the samples, without those above twice the
\* average, and at least 1; the result is what 32 bits keep of it.
CalculateNewWidth(c) ==
  LET n == IF QSize(c) <= 5 THEN QSize(c) ELSE Min({5 + QSize(c) \div 10, 25})
      samples == Samples(c, n)
      diff == [k \in 1 .. n - 1 |-> samples[k + 1].ts - samples[k].ts]
      twiceAvg == (Totals(diff, n - 1)[n - 1] \div (n - 1)) * 2
      near == [k \in 1 .. n - 1 |-> IF diff[k] <= twiceAvg THEN diff[k] ELSE 0]
  IN  IF QSize(c) < 2 THEN 1
      ELSE Max({3 * Totals(near, n - 1)[n - 1], 1}) % TwoTo32

\* DoResize moves the events bucket by bucket: the calendar after each of a
\* bucket's events, and after each of the buckets.
AfterInserts(c, events) ==
  LET after[k \in 0 .. Len(events)] == IF k = 0 THEN c ELSE DoInsert(after[k - 1], events[k])
  IN  after
AfterBuckets(c, new) ==
  LET after[b \in 0 .. NBuckets(c)] ==
        IF b = 0 THEN new
        ELSE AfterInserts(after[b - 1], c.m_buckets[b - 1])[Len(c.m_buckets[b - 1])]
  IN  after

\* The first thing that Init does with a width of 0 is to divide by it, and no
\* event is moved any more.
Resize(c, newSize) ==
  IF CalculateNewWidth(c) = 0 THEN c
  ELSE AfterBuckets(c, Empty(newSize, CalculateNewWidth(c), c.m_lastPrio))[NBuckets(c)]

Grows(c) == QSize(c) > 2 * NBuckets(c) /\ NBuckets(c) < MaxBuckets
Shrinks(c) == QSize(c) < NBuckets(c) \div 2
ResizeUp(c) == IF Grows(c) THEN Resize(c, 2 * NBuckets(c)) ELSE c
ResizeDown(c) == IF Shrinks(c) THEN Resize(c, NBuckets(c) \div 2) ELSE c

UpDividesByZero(c) == Grows(c) /\ CalculateNewWidth(c) = 0
DownDividesByZero(c) == Shrinks(c) /\ CalculateNewWidth(c) = 0

-------------------------------------------------------------------------------
Insert(ts) ==
  LET c == DoInsert(cal, [ts |-> ts, uid |-> m_uid])
  IN  /\ ~aborted
      /\ ts >= current.ts
      /\ m_uid < MaxUid /\ QSize(cal) < Capacity
      /\ cal' = ResizeUp(c)
      /\ aborted' = UpDividesByZero(c)
      /\ m_uid' = m_uid + 1
      /\ UNCHANGED current

RemoveNext ==
  LET c == DoRemoveNext(cal)
  IN  /\ ~aborted
      /\ QSize(cal) # 0
      /\ current' = NextEvent(cal)
      /\ cal' = ResizeDown(c)
      /\ aborted' = DownDividesByZero(c)
      /\ UNCHANGED m_uid

\* Simulator::Remove of the event e
WithoutEvent(c, e) ==
  [c EXCEPT !.m_buckets[Hash(c, e.ts)] = RemoveAt(@, SelectInSeq(@, LAMBDA f : f.uid = e.uid))]
RemoveEvent(e) ==
  /\ ~aborted
  /\ e \in Events(cal)
  /\ cal' = ResizeDown(WithoutEvent(cal, e))
  /\ aborted' = DownDividesByZero(WithoutEvent(cal, e))
  /\ UNCHANGED <<m_uid, current>>

\* The bounds are reached, or there is nobody left to call.
Done == (aborted \/ (QSize(cal) = 0 /\ m_uid = MaxUid)) /\ UNCHANGED vars

Next ==
  \/ \E ts \in 0 .. MaxTime : Insert(ts)
  \/ RemoveNext
  \/ \E e \in Events(cal) : RemoveEvent(e)
  \/ Done

Spec == Init /\ [][Next]_vars
-------------------------------------------------------------------------------
Queue == INSTANCE EventQueue WITH queue <- Events(cal)

\* The calendar keeps the contract of the Scheduler interface, through every
\* change of the number and the width of its buckets, for as long as the
\* process lives.
ImplementsQueue == Queue!Spec

\* PeekNext shows the earliest event; or none, and then all events lie beyond
\* the times of 32 bits, from which its search for the minimum starts.
PeekFindsEarliest ==
  QSize(cal) # 0 =>
    LET p == PeekNext(cal)
    IN  IF p \in Events(cal) THEN \A e \in Events(cal) : e = p \/ Less(p, e)
        ELSE \A e \in Events(cal) : e.ts >= TwoTo32

\* PeekNext shows the event that RemoveNext is going to return, wherever it lies.
PeekIsNext == QSize(cal) # 0 => PeekNext(cal) = NextEvent(cal)

\* Every event that is inserted or removed finds buckets of some width.  It does
\* not: CalculateNewWidth returns 0 if three times the distances of the events is
\* a multiple of 2^32.
NeverDividesByZero == ~aborted
-------------------------------------------------------------------------------
(* The inductive invariant behind both *)

InOrder(s) == \A i, j \in 1 .. Len(s) : i < j => Less(s[i], s[j])

\* Every bucket holds the events of its days in order, and the search starts
\* from the day of the last event.
InGoodOrder(c) ==
  LET n == NBuckets(c)
  IN  /\ n \in Nat \ {0}
      /\ c \in [m_buckets : [0 .. n - 1 -> Seq(Key)], m_width : Nat \ {0},
                m_lastPrio : 0 .. MaxTime, m_lastBucket : Nat, m_bucketTop : Nat]
      /\ \A i \in 0 .. n - 1 :
           /\ InOrder(c.m_buckets[i])
           /\ \A e \in ToSet(c.m_buckets[i]) : Hash(c, e.ts) = i /\ c.m_lastPrio <= e.ts
      /\ c.m_lastBucket = Hash(c, c.m_lastPrio)
      /\ c.m_bucketTop = (c.m_lastPrio \div c.m_width + 1) * c.m_width

CalendarInv ==
  /\ InGoodOrder(cal) /\ IsFiniteSet(Events(cal))
  /\ m_uid \in Nat /\ current \in Key
  /\ cal.m_lastPrio = current.ts
  /\ \A e \in Events(cal) : e.uid < m_uid /\ e.uid < MaxUid
  /\ \A e, f \in Events(cal) : e.uid = f.uid => e = f
===============================================================================
