------------------------ MODULE DefaultSimulatorProofs ------------------------
(***************************************************************************)
(* Proofs about the default simulator, for any delays, any number of       *)
(* events and of calls of Run, and every interleaving of the main thread   *)
(* with those that inject events.                                          *)
(***************************************************************************)
EXTENDS DefaultSimulator, RecursionLemmas, FiniteSetTheorems, TLAPS

-------------------------------------------------------------------------------
(* Lists *)

LEMMA Widened ==
  ASSUME NEW A, NEW B, A \subseteq B, NEW s \in Seq(A)
  PROVE  s \in Seq(B)
OBVIOUS

LEMMA Appended ==
  ASSUME NEW S, NEW s \in Seq(S), NEW e \in S
  PROVE  /\ Append(s, e) \in Seq(S) /\ Len(Append(s, e)) = Len(s) + 1
         /\ \A n \in 1 .. Len(s) + 1 : Append(s, e)[n] = IF n <= Len(s) THEN s[n] ELSE e
         /\ ToSet(Append(s, e)) = ToSet(s) \cup {e}
<1>1. /\ Append(s, e) \in Seq(S) /\ Len(Append(s, e)) = Len(s) + 1 /\ Len(s) \in Nat
      /\ \A n \in 1 .. Len(s) + 1 : Append(s, e)[n] = IF n <= Len(s) THEN s[n] ELSE e
      /\ DOMAIN Append(s, e) = 1 .. Len(s) + 1 /\ DOMAIN s = 1 .. Len(s)
  OBVIOUS
<1>2. ToSet(Append(s, e)) \subseteq ToSet(s) \cup {e}
  BY <1>1 DEF ToSet
<1>3. ASSUME NEW x \in ToSet(s) PROVE x \in ToSet(Append(s, e))
  <2>1. PICK n \in 1 .. Len(s) : x = s[n]
    BY <1>1 DEF ToSet
  <2>2. n \in 1 .. Len(s) + 1 /\ Append(s, e)[n] = x
    BY <1>1, <2>1
  <2> QED
    BY <1>1, <2>2 DEF ToSet
<1>4. e \in ToSet(Append(s, e))
  <2>1. Len(s) + 1 \in 1 .. Len(s) + 1 /\ Append(s, e)[Len(s) + 1] = e
    BY <1>1
  <2> QED
    BY <1>1, <2>1 DEF ToSet
<1> QED
  BY <1>1, <1>2, <1>3, <1>4

LEMMA Behead ==
  ASSUME NEW S, NEW s \in Seq(S), s # << >>
  PROVE  /\ Tail(s) \in Seq(S) /\ Len(Tail(s)) = Len(s) - 1 /\ Len(s) >= 1
         /\ \A n \in 1 .. Len(s) - 1 : Tail(s)[n] = s[n + 1]
         /\ Head(s) = s[1] /\ Head(s) \in S
         /\ Head(s) \in ToSet(s) /\ ToSet(Tail(s)) \subseteq ToSet(s)
         /\ ToSet(s) = ToSet(Tail(s)) \cup {Head(s)}
<1>1. /\ Tail(s) \in Seq(S) /\ Len(Tail(s)) = Len(s) - 1 /\ Len(s) >= 1 /\ Len(s) \in Nat
      /\ \A n \in 1 .. Len(s) - 1 : Tail(s)[n] = s[n + 1]
      /\ Head(s) = s[1] /\ Head(s) \in S
      /\ DOMAIN Tail(s) = 1 .. Len(s) - 1 /\ DOMAIN s = 1 .. Len(s)
  OBVIOUS
<1>2. Head(s) \in ToSet(s)
  BY <1>1 DEF ToSet
<1>3. ASSUME NEW x \in ToSet(Tail(s)) PROVE x \in ToSet(s)
  <2>1. PICK n \in 1 .. Len(s) - 1 : x = Tail(s)[n]
    BY <1>1 DEF ToSet
  <2>2. n + 1 \in 1 .. Len(s) /\ s[n + 1] = x
    BY <1>1, <2>1
  <2> QED
    BY <1>1, <2>2 DEF ToSet
<1>4. ASSUME NEW x \in ToSet(s), x # Head(s) PROVE x \in ToSet(Tail(s))
  <2>1. PICK n \in 1 .. Len(s) : x = s[n]
    BY <1>1 DEF ToSet
  <2>2. n - 1 \in 1 .. Len(s) - 1 /\ Tail(s)[n - 1] = x
    <3>1. n - 1 \in 1 .. Len(s) - 1 /\ (n - 1) + 1 = n
      BY <1>1, <1>4, <2>1
    <3> QED
      BY <1>1, <2>1, <3>1
  <2> QED
    BY <1>1, <2>2 DEF ToSet
<1> QED
  BY <1>1, <1>2, <1>3, <1>4

LEMMA Members ==
  ASSUME NEW S, NEW s \in Seq(S)
  PROVE  /\ \A n \in DOMAIN s : s[n] \in S
         /\ ToSet(s) \subseteq S
<1>1. \A n \in DOMAIN s : s[n] \in S
  OBVIOUS
<1> QED
  BY <1>1 DEF ToSet

\* The objects of a list of records, from its members
LEMMA ImplsByMember ==
  ASSUME NEW S, NEW s \in Seq(S)
  PROVE  ImplsOf(s) = {x.impl : x \in ToSet(s)}
BY DEF ImplsOf, ToSet

\* A new object is appended to a list.
LEMMA AppendedImpls ==
  ASSUME NEW S, NEW s \in Seq(S), NEW e \in S, Distinct(s), e.impl \notin ImplsOf(s)
  PROVE  /\ ImplsOf(Append(s, e)) = ImplsOf(s) \cup {e.impl}
         /\ Distinct(Append(s, e))
<1>1. /\ Append(s, e) \in Seq(S) /\ Len(Append(s, e)) = Len(s) + 1 /\ Len(s) \in Nat
      /\ \A n \in 1 .. Len(s) + 1 : Append(s, e)[n] = IF n <= Len(s) THEN s[n] ELSE e
      /\ ToSet(Append(s, e)) = ToSet(s) \cup {e}
      /\ DOMAIN Append(s, e) = 1 .. Len(s) + 1 /\ DOMAIN s = 1 .. Len(s)
  BY Appended
<1>2. ImplsOf(Append(s, e)) = ImplsOf(s) \cup {e.impl}
  <2>1. ImplsOf(Append(s, e)) = {x.impl : x \in ToSet(Append(s, e))}
    BY <1>1, ImplsByMember
  <2>2. ImplsOf(s) = {x.impl : x \in ToSet(s)}
    BY ImplsByMember
  <2> QED
    BY <1>1, <2>1, <2>2
<1>3. ASSUME NEW m \in 1 .. Len(s) + 1, NEW n \in 1 .. Len(s) + 1,
             Append(s, e)[m].impl = Append(s, e)[n].impl
      PROVE  m = n
  <2>1. \A k \in 1 .. Len(s) : s[k].impl # e.impl
    BY <1>1 DEF ImplsOf
  <2>2. CASE m <= Len(s) /\ n <= Len(s)
    BY <1>1, <1>3, <2>2 DEF Distinct
  <2>3. CASE m > Len(s) /\ n > Len(s)
    BY <1>1, <2>3
  <2>4. CASE m <= Len(s) /\ n > Len(s)
    BY <1>1, <1>3, <2>1, <2>4
  <2>5. CASE m > Len(s) /\ n <= Len(s)
    BY <1>1, <1>3, <2>1, <2>5
  <2> QED
    BY <1>1, <2>2, <2>3, <2>4, <2>5
<1> QED
  BY <1>1, <1>2, <1>3 DEF Distinct

\* A list of distinct objects loses the first.
LEMMA BeheadImpls ==
  ASSUME NEW S, NEW s \in Seq(S), s # << >>, Distinct(s)
  PROVE  /\ ImplsOf(Tail(s)) = ImplsOf(s) \ {Head(s).impl}
         /\ Head(s).impl \in ImplsOf(s) /\ Distinct(Tail(s))
<1>1. /\ Tail(s) \in Seq(S) /\ Len(Tail(s)) = Len(s) - 1 /\ Len(s) >= 1 /\ Len(s) \in Nat
      /\ \A n \in 1 .. Len(s) - 1 : Tail(s)[n] = s[n + 1]
      /\ Head(s) = s[1] /\ Head(s) \in ToSet(s)
      /\ ToSet(s) = ToSet(Tail(s)) \cup {Head(s)}
      /\ DOMAIN Tail(s) = 1 .. Len(s) - 1 /\ DOMAIN s = 1 .. Len(s)
  BY Behead
<1>2. ASSUME NEW n \in 1 .. Len(s) - 1 PROVE Tail(s)[n].impl # Head(s).impl
  <2>1. n + 1 \in 1 .. Len(s) /\ 1 \in 1 .. Len(s) /\ n + 1 # 1 /\ Tail(s)[n] = s[n + 1]
    BY <1>1
  <2> QED
    BY <1>1, <2>1 DEF Distinct
<1>3. Head(s).impl \notin ImplsOf(Tail(s))
  BY <1>1, <1>2 DEF ImplsOf
<1>4. ImplsOf(s) = ImplsOf(Tail(s)) \cup {Head(s).impl}
  <2>1. ImplsOf(Tail(s)) = {x.impl : x \in ToSet(Tail(s))}
    BY <1>1, ImplsByMember
  <2>2. ImplsOf(s) = {x.impl : x \in ToSet(s)}
    BY ImplsByMember
  <2> QED
    BY <1>1, <2>1, <2>2
<1>5. ASSUME NEW m \in 1 .. Len(s) - 1, NEW n \in 1 .. Len(s) - 1, Tail(s)[m].impl = Tail(s)[n].impl
      PROVE  m = n
  <2>1. /\ m + 1 \in DOMAIN s /\ n + 1 \in DOMAIN s
        /\ Tail(s)[m] = s[m + 1] /\ Tail(s)[n] = s[n + 1]
    BY <1>1
  <2>2. m + 1 = n + 1
    BY <1>5, <2>1 DEF Distinct
  <2> QED
    BY <2>2
<1> QED
  BY <1>1, <1>3, <1>4, <1>5 DEF Distinct

\* A list of distinct objects loses the one at p.
LEMMA ErasedImpls ==
  ASSUME NEW S, NEW s \in Seq(S), NEW p \in DOMAIN s, Distinct(s)
  PROVE  /\ RemoveAt(s, p) \in Seq(S) /\ Distinct(RemoveAt(s, p))
         /\ ImplsOf(RemoveAt(s, p)) = ImplsOf(s) \ {s[p].impl}
         /\ ToSet(RemoveAt(s, p)) \subseteq ToSet(s)
<1> DEFINE r == RemoveAt(s, p)
<1>1. r = Without(s, p) /\ p \in 1 .. Len(s) /\ Len(s) \in Nat
  BY DEF RemoveAt, Without
<1> HIDE DEF r
<1>2. /\ r \in Seq(S) /\ Len(r) = Len(s) - 1
      /\ \A i \in 1 .. Len(s) - 1 : r[i] = IF i < p THEN s[i] ELSE s[i + 1]
  BY <1>1, Removed
<1> DEFINE at == [i \in 1 .. Len(s) - 1 |-> IF i < p THEN i ELSE i + 1]
<1>3. /\ DOMAIN r = 1 .. Len(s) - 1 /\ DOMAIN s = 1 .. Len(s)
      /\ \A i \in 1 .. Len(s) - 1 : at[i] \in 1 .. Len(s) /\ at[i] # p /\ r[i] = s[at[i]]
      /\ \A i, j \in 1 .. Len(s) - 1 : at[i] = at[j] => i = j
      /\ \A k \in 1 .. Len(s) : k # p => \E i \in 1 .. Len(s) - 1 : at[i] = k
  <2>1. \A i \in 1 .. Len(s) - 1 : at[i] \in 1 .. Len(s) /\ at[i] # p /\ r[i] = s[at[i]]
    BY <1>1, <1>2
  <2>2. \A i, j \in 1 .. Len(s) - 1 : at[i] = at[j] => i = j
    BY <1>1
  <2>3. ASSUME NEW k \in 1 .. Len(s), k # p PROVE \E i \in 1 .. Len(s) - 1 : at[i] = k
    <3>1. CASE k < p
      <4>1. k \in 1 .. Len(s) - 1 /\ at[k] = k
        BY <1>1, <3>1
      <4> QED
        BY <4>1
    <3>2. CASE k > p
      <4>1. k - 1 \in 1 .. Len(s) - 1 /\ at[k - 1] = k
        BY <1>1, <3>2
      <4> QED
        BY <4>1
    <3> QED
      BY <1>1, <2>3, <3>1, <3>2
  <2> HIDE DEF at
  <2> QED
    BY <1>2, <2>1, <2>2, <2>3
<1> HIDE DEF at
<1>4. Distinct(r)
  <2>1. ASSUME NEW i \in 1 .. Len(s) - 1, NEW j \in 1 .. Len(s) - 1, r[i].impl = r[j].impl
        PROVE  at[i] = at[j]
    BY <1>3, <2>1 DEF Distinct
  <2> QED
    BY <1>3, <2>1 DEF Distinct
<1>5. ToSet(r) \subseteq ToSet(s)
  BY <1>3 DEF ToSet
<1>6. ImplsOf(r) = ImplsOf(s) \ {s[p].impl}
  <2>1. ASSUME NEW i \in 1 .. Len(s) - 1 PROVE r[i].impl \in ImplsOf(s) \ {s[p].impl}
    <3>1. r[i] = s[at[i]] /\ at[i] \in DOMAIN s /\ p \in DOMAIN s /\ at[i] # p
      BY <1>1, <1>3
    <3> QED
      BY <3>1 DEF Distinct, ImplsOf
  <2>2. ASSUME NEW k \in 1 .. Len(s), s[k].impl # s[p].impl PROVE s[k].impl \in ImplsOf(r)
    <3>1. PICK i \in 1 .. Len(s) - 1 : at[i] = k
      BY <1>3, <2>2
    <3>2. i \in DOMAIN r /\ r[i] = s[k]
      BY <1>3, <3>1
    <3> QED
      BY <3>2 DEF ImplsOf
  <2>3. ImplsOf(r) \subseteq ImplsOf(s) \ {s[p].impl}
    BY <1>3, <2>1 DEF ImplsOf
  <2>4. ASSUME NEW x \in ImplsOf(s), x # s[p].impl PROVE x \in ImplsOf(r)
    <3>1. PICK k \in 1 .. Len(s) : x = s[k].impl
      BY <1>3 DEF ImplsOf
    <3> QED
      BY <2>2, <2>4, <3>1
  <2> QED
    BY <2>3, <2>4
<1> QED
  BY <1>2, <1>4, <1>5, <1>6 DEF r

-------------------------------------------------------------------------------
(* Where the event objects are *)

Ids(n) == [impl : 1 .. n, ts : Nat, uid : Uid]
Contexts(n) == [impl : 1 .. n, timestamp : Delay]

LEMMA UidFacts ==
  ASSUME m_uid \in Uid
  PROVE  NextUid \in Uid /\ 2 \in Uid /\ Uid \subseteq Nat
BY SimulatorAssumption DEF NextUid, Uid

\* A new event object has another number than those there are.
LEMMA FreshEvent ==
  ASSUME TypeOK, MakeEvent
  PROVE  /\ made \in Nat /\ made' = made + 1 /\ made' \in 1 .. made' /\ made' \in 0 .. MaxEvents
         /\ 1 .. made \subseteq 1 .. made' /\ 1 .. made' = 1 .. made \cup {made'}
         /\ Ids(made) \subseteq Ids(made') /\ Contexts(made) \subseteq Contexts(made')
         /\ m_events \subseteq Ids(made') /\ m_destroyEvents \in Seq(Ids(made'))
         /\ m_eventsWithContext \in Seq(Contexts(made')) /\ eventsWithContext \in Seq(Contexts(made'))
         /\ injected \in Seq(Contexts(made')) /\ invoked \in Seq(1 .. made')
         /\ ids \subseteq Ids(made')
         /\ made' \notin Listed \cup Kept \cup Shared \cup Taken \cup Done \cup m_cancel \cup revoked
         /\ \A id \in ids : id.impl # made'
         /\ \A n \in DOMAIN injected : injected[n].impl # made'
<1>1. made \in Nat /\ made' = made + 1 /\ made' \in 1 .. made' /\ made' \in 0 .. MaxEvents
  BY SimulatorAssumption DEF TypeOK, MakeEvent
<1>2. 1 .. made \subseteq 1 .. made' /\ 1 .. made' = 1 .. made \cup {made'} /\ made' \notin 1 .. made
  BY <1>1
<1>3. Ids(made) \subseteq Ids(made') /\ Contexts(made) \subseteq Contexts(made')
  BY <1>2 DEF Ids, Contexts
<1>4. /\ m_events \subseteq Ids(made) /\ m_destroyEvents \in Seq(Ids(made))
      /\ m_eventsWithContext \in Seq(Contexts(made)) /\ eventsWithContext \in Seq(Contexts(made))
      /\ injected \in Seq(Contexts(made)) /\ invoked \in Seq(1 .. made)
      /\ ids \subseteq Ids(made) /\ m_cancel \subseteq 1 .. made /\ revoked \subseteq 1 .. made
  BY DEF TypeOK, EventId, EventWithContext, Impl, Ids, Contexts
<1>5. /\ m_destroyEvents \in Seq(Ids(made')) /\ m_eventsWithContext \in Seq(Contexts(made'))
      /\ eventsWithContext \in Seq(Contexts(made')) /\ injected \in Seq(Contexts(made'))
      /\ invoked \in Seq(1 .. made')
  BY <1>2, <1>3, <1>4, Widened
<1>6. Listed \subseteq 1 .. made
  BY <1>4 DEF Listed, Ids
<1>7. ASSUME NEW t \in Seq(Ids(made)) PROVE ImplsOf(t) \subseteq 1 .. made
  <2>1. \A n \in DOMAIN t : t[n] \in Ids(made)
    BY Members
  <2>2. \A n \in DOMAIN t : t[n].impl \in 1 .. made
    BY <2>1 DEF Ids
  <2> QED
    BY <2>2 DEF ImplsOf
<1>8. ASSUME NEW t \in Seq(Contexts(made)) PROVE ImplsOf(t) \subseteq 1 .. made
  <2>1. \A n \in DOMAIN t : t[n] \in Contexts(made)
    BY Members
  <2>2. \A n \in DOMAIN t : t[n].impl \in 1 .. made
    BY <2>1 DEF Contexts
  <2> QED
    BY <2>2 DEF ImplsOf
<1>9. Kept \cup Shared \cup Taken \subseteq 1 .. made
  BY <1>4, <1>7, <1>8 DEF Kept, Shared, Taken
<1>10. Done \subseteq 1 .. made
  BY <1>4, Members DEF Done
<1>11. \A id \in ids : id.impl # made'
  BY <1>2, <1>4 DEF Ids
<1>12. ImplsOf(injected) \subseteq 1 .. made
  BY <1>4, <1>8
<1>13. \A n \in DOMAIN injected : injected[n].impl # made'
  BY <1>2, <1>12 DEF ImplsOf
<1> QED
  BY <1>1, <1>2, <1>3, <1>4, <1>5, <1>6, <1>9, <1>10, <1>11, <1>13

\* The main thread goes on and no event is touched.
Idles ==
  /\ pc # "over" /\ pc' # "over"
  /\ pc' \in {"idle", "check", "swap", "insert", "loop", "event", "destroy", "destroyEvent"}
  /\ m_stop' \in BOOLEAN /\ runs' \in 0 .. MaxRuns
  /\ eventsWithContext # << >> /\ pc = "insert" => pc' = "insert"
  /\ UNCHANGED <<queue, clock, m_destroyEvents, injection, handles, made, invoked, injected>>

LEMMA IdlesFacts ==
  ASSUME TypeOK,
         \/ Stop \/ Run \/ FindEmpty \/ FindInjected \/ EndInsert \/ EndEvent \/ EndRun
         \/ Destroy \/ EndDestroyEvent
  PROVE  Idles
<1>1. runs \in Nat /\ MaxRuns \in Nat /\ m_stop \in BOOLEAN
  BY SimulatorAssumption DEF TypeOK
<1>2. m_stop' \in BOOLEAN
  BY <1>1 DEF Stop, Run, FindEmpty, FindInjected, EndInsert, EndEvent, EndRun, Destroy, EndDestroyEvent
<1>3. runs' \in 0 .. MaxRuns
  BY <1>1 DEF Stop, Run, FindEmpty, FindInjected, EndInsert, EndEvent, EndRun, Destroy, EndDestroyEvent,
              TypeOK
<1>4. UNCHANGED <<queue, clock, m_destroyEvents, injection, handles, made, invoked, injected>>
  BY DEF Stop, Run, FindEmpty, FindInjected, EndInsert, EndEvent, EndRun, Destroy, EndDestroyEvent, Goto
<1>5. /\ pc # "over" /\ pc' # "over"
      /\ pc' \in {"idle", "check", "swap", "insert", "loop", "event", "destroy", "destroyEvent"}
      /\ eventsWithContext # << >> /\ pc = "insert" => pc' = "insert"
  BY DEF Stop, Run, FindEmpty, FindInjected, EndInsert, EndEvent, EndRun, Destroy, EndDestroyEvent, Goto,
         InProgram, TypeOK
<1> QED
  BY <1>2, <1>3, <1>4, <1>5 DEF Idles

LEMMA IdlesPlaces ==
  ASSUME PlacesInv, Idles
  PROVE  PlacesInv'
<1>1. TypeOK' /\ NoEventFromThePast'
  BY DEF PlacesInv, Idles, queue, clock, injection, handles, TypeOK, NoEventFromThePast, EventId,
         EventWithContext, Impl, Uid
<1>2. OnePlace' /\ SomePlace' /\ HandlesFit'
  BY DEF PlacesInv, Idles, queue, clock, injection, handles, OnePlace, SomePlace, HandlesFit, Listed,
         Kept, Shared, Taken, Done, Impl
<1> QED
  BY <1>1, <1>2 DEF PlacesInv

\* Schedule and ScheduleWithContext on the main thread: the EventId may be kept.
NewId(d) == [impl |-> made + 1, ts |-> m_currentTs + d, uid |-> m_uid]
Schedules(d) ==
  /\ MakeEvent /\ pc # "over"
  /\ m_events' = m_events \cup {NewId(d)} /\ m_uid' = NextUid
  /\ m_unscheduledEvents' = m_unscheduledEvents + 1
  /\ ids' = ids \/ ids' = ids \cup {NewId(d)}
  /\ UNCHANGED <<clock, m_destroyEvents, injection, control, m_cancel, revoked, invoked, injected>>

LEMMA SchedulesFacts ==
  ASSUME TypeOK, NEW d \in Delay, Schedule(d) \/ ScheduleWithContext(d)
  PROVE  Schedules(d)
<1>1. made' = made + 1
  BY DEF Schedule, ScheduleWithContext, MakeEvent
<1> QED
  BY <1>1 DEF Schedule, ScheduleWithContext, Insert, Schedules, NewId, handles, InProgram

LEMMA SchedulesPlaces ==
  ASSUME PlacesInv, NEW d \in Delay, Schedules(d)
  PROVE  PlacesInv'
<1> DEFINE e == NewId(d)
<1>0. TypeOK /\ NoEventFromThePast /\ OnePlace /\ SomePlace /\ HandlesFit /\ MakeEvent
  BY DEF PlacesInv, Schedules
<1>1. /\ made \in Nat /\ made' = made + 1 /\ made' \in 1 .. made' /\ made' \in 0 .. MaxEvents
      /\ 1 .. made \subseteq 1 .. made' /\ 1 .. made' = 1 .. made \cup {made'}
      /\ m_events \subseteq Ids(made') /\ m_destroyEvents \in Seq(Ids(made'))
      /\ m_eventsWithContext \in Seq(Contexts(made')) /\ eventsWithContext \in Seq(Contexts(made'))
      /\ injected \in Seq(Contexts(made')) /\ invoked \in Seq(1 .. made') /\ ids \subseteq Ids(made')
      /\ made' \notin Listed \cup Kept \cup Shared \cup Taken \cup Done \cup m_cancel \cup revoked
      /\ \A id \in ids : id.impl # made'
      /\ \A n \in DOMAIN injected : injected[n].impl # made'
  BY <1>0, FreshEvent
<1>2. e \in Ids(made') /\ e.impl = made' /\ e.ts >= m_currentTs
  BY <1>0, <1>1, SimulatorAssumption DEF TypeOK, NewId, Ids
<1>3. /\ m_events' = m_events \cup {e} /\ (ids' = ids \/ ids' = ids \cup {e})
      /\ m_uid' = NextUid /\ m_unscheduledEvents' = m_unscheduledEvents + 1
      /\ UNCHANGED <<pc, m_stop, runs, m_currentTs, m_currentUid, m_destroyEvents, m_eventsWithContext,
                     m_eventsWithContextEmpty, eventsWithContext, m_cancel, revoked, invoked, injected>>
      /\ pc # "over"
  BY DEF Schedules, clock, injection, control
<1> HIDE DEF e
<1>4. TypeOK'
  <2>1. m_uid' \in Uid
    BY <1>0, <1>3, UidFacts DEF TypeOK
  <2>2. m_cancel \subseteq 1 .. made' /\ revoked \subseteq 1 .. made'
    BY <1>0, <1>1 DEF TypeOK, Impl
  <2> QED
    BY <1>0, <1>1, <1>2, <1>3, <2>1, <2>2, SMTT(30) DEF TypeOK, Impl, EventId, EventWithContext, Ids, Contexts, Uid
<1>5. NoEventFromThePast'
  BY <1>0, <1>2, <1>3 DEF NoEventFromThePast
<1>6. Listed' = Listed \cup {made'} /\ UNCHANGED <<Kept, Shared, Taken, Done>>
  BY <1>2, <1>3 DEF Listed, Kept, Shared, Taken, Done
<1>7. OnePlace'
  <2>1. \A x, y \in m_events' : x.impl = y.impl => x = y
    BY <1>0, <1>1, <1>2, <1>3 DEF OnePlace, Listed
  <2> QED
    BY <1>0, <1>1, <1>3, <1>6, <2>1 DEF OnePlace
<1>8. SomePlace'
  BY <1>0, <1>1, <1>3, <1>6 DEF SomePlace, Impl
<1>9. HandlesFit'
  <2>1. \A x \in ToSet(m_destroyEvents) : x.impl # made'
    BY <1>1, ImplsByMember DEF Kept
  <2>2. \A x \in m_events : x.impl # made'
    BY <1>1 DEF Listed
  <2>3. ASSUME NEW id \in ids', NEW x \in m_events' \cup ToSet(m_destroyEvents') \cup ids', x.impl = id.impl
        PROVE  x = id
    BY <1>0, <1>1, <1>2, <1>3, <2>1, <2>2, <2>3 DEF HandlesFit
  <2>4. ASSUME NEW id \in ids'
        PROVE  /\ id.impl \notin Shared' \cup Taken'
               /\ \A n \in DOMAIN injected' : injected'[n].impl # id.impl
    BY <1>0, <1>1, <1>2, <1>3, <1>6 DEF HandlesFit
  <2>5. \A i \in m_cancel' : \E id \in ids' : id.impl = i
    BY <1>0, <1>3 DEF HandlesFit
  <2> QED
    BY <2>3, <2>4, <2>5 DEF HandlesFit
<1> QED
  BY <1>4, <1>5, <1>7, <1>8, <1>9 DEF PlacesInv

LEMMA InjectPlaces ==
  ASSUME PlacesInv, NEW d \in Delay, Inject(d)
  PROVE  PlacesInv'
<1> DEFINE e == [impl |-> made', timestamp |-> d]
<1>0. TypeOK /\ NoEventFromThePast /\ OnePlace /\ SomePlace /\ HandlesFit /\ MakeEvent
  BY DEF PlacesInv, Inject
<1>1. /\ made \in Nat /\ made' = made + 1 /\ made' \in 1 .. made' /\ made' \in 0 .. MaxEvents
      /\ 1 .. made \subseteq 1 .. made' /\ 1 .. made' = 1 .. made \cup {made'}
      /\ m_events \subseteq Ids(made') /\ m_destroyEvents \in Seq(Ids(made'))
      /\ m_eventsWithContext \in Seq(Contexts(made')) /\ eventsWithContext \in Seq(Contexts(made'))
      /\ injected \in Seq(Contexts(made')) /\ invoked \in Seq(1 .. made') /\ ids \subseteq Ids(made')
      /\ made' \notin Listed \cup Kept \cup Shared \cup Taken \cup Done \cup m_cancel \cup revoked
      /\ \A id \in ids : id.impl # made'
      /\ \A n \in DOMAIN injected : injected[n].impl # made'
  BY <1>0, FreshEvent
<1>2. e \in Contexts(made') /\ e.impl = made'
  BY <1>1 DEF Contexts
<1>3. /\ m_eventsWithContext' = Append(m_eventsWithContext, e) /\ injected' = Append(injected, e)
      /\ UNCHANGED <<pc, m_stop, runs, m_currentTs, m_currentUid, m_events, m_uid, m_unscheduledEvents,
                     m_destroyEvents, eventsWithContext, m_cancel, ids, revoked, invoked>>
      /\ pc # "over" /\ m_eventsWithContextEmpty' = FALSE
  BY DEF Inject, PushBack, queue, clock, handles, control
<1> HIDE DEF e
<1>4. /\ m_eventsWithContext' \in Seq(Contexts(made')) /\ injected' \in Seq(Contexts(made'))
      /\ Shared' = Shared \cup {made'} /\ Distinct(m_eventsWithContext')
      /\ \A n \in DOMAIN injected' : injected'[n].impl = made' \/ (n \in DOMAIN injected /\ injected'[n] = injected[n])
  <2>1. Distinct(m_eventsWithContext) /\ e.impl \notin ImplsOf(m_eventsWithContext)
    BY <1>0, <1>1, <1>2 DEF OnePlace, Shared
  <2>2. /\ ImplsOf(m_eventsWithContext') = ImplsOf(m_eventsWithContext) \cup {made'}
        /\ Distinct(m_eventsWithContext')
    BY <1>1, <1>2, <1>3, <2>1, AppendedImpls
  <2>3. /\ m_eventsWithContext' \in Seq(Contexts(made')) /\ injected' \in Seq(Contexts(made'))
    BY <1>1, <1>2, <1>3
  <2>4. \A n \in DOMAIN injected' : injected'[n] = e \/ (n \in DOMAIN injected /\ injected'[n] = injected[n])
    <3>1. \A n \in 1 .. Len(injected) + 1 : injected'[n] = IF n <= Len(injected) THEN injected[n] ELSE e
      BY <1>1, <1>2, <1>3
    <3>2. DOMAIN injected' = 1 .. Len(injected) + 1 /\ DOMAIN injected = 1 .. Len(injected) /\ Len(injected) \in Nat
      BY <1>1, <1>2, <1>3
    <3> QED
      BY <3>1, <3>2
  <2> QED
    BY <1>2, <2>2, <2>3, <2>4 DEF Shared
<1>5. TypeOK'
  <2>1. m_eventsWithContextEmpty' \in BOOLEAN
    BY <1>3
  <2>2. m_cancel \subseteq 1 .. made' /\ revoked \subseteq 1 .. made'
    BY <1>0, <1>1 DEF TypeOK, Impl
  <2> QED
    BY <1>0, <1>1, <1>3, <1>4, <2>1, <2>2 DEF TypeOK, Impl, EventId, EventWithContext, Ids, Contexts, Uid
<1>6. NoEventFromThePast'
  BY <1>0, <1>3 DEF NoEventFromThePast
<1>7. UNCHANGED <<Listed, Kept, Taken, Done>>
  BY <1>3 DEF Listed, Kept, Taken, Done
<1>8. OnePlace'
  BY <1>0, <1>1, <1>3, <1>4, <1>7 DEF OnePlace
<1>9. SomePlace'
  BY <1>0, <1>1, <1>3, <1>4, <1>7 DEF SomePlace, Impl
<1>10. HandlesFit'
  BY <1>0, <1>1, <1>3, <1>4, <1>7 DEF HandlesFit
<1> QED
  BY <1>5, <1>6, <1>8, <1>9, <1>10 DEF PlacesInv

LEMMA DestroyLaterPlaces ==
  ASSUME PlacesInv, ScheduleDestroy
  PROVE  PlacesInv'
<1> DEFINE e == [impl |-> made', ts |-> m_currentTs, uid |-> 2]
<1>0. TypeOK /\ NoEventFromThePast /\ OnePlace /\ SomePlace /\ HandlesFit /\ MakeEvent
  BY DEF PlacesInv, ScheduleDestroy, InProgram
<1>1. /\ made \in Nat /\ made' = made + 1 /\ made' \in 1 .. made' /\ made' \in 0 .. MaxEvents
      /\ 1 .. made \subseteq 1 .. made' /\ 1 .. made' = 1 .. made \cup {made'}
      /\ m_events \subseteq Ids(made') /\ m_destroyEvents \in Seq(Ids(made'))
      /\ m_eventsWithContext \in Seq(Contexts(made')) /\ eventsWithContext \in Seq(Contexts(made'))
      /\ injected \in Seq(Contexts(made')) /\ invoked \in Seq(1 .. made') /\ ids \subseteq Ids(made')
      /\ made' \notin Listed \cup Kept \cup Shared \cup Taken \cup Done \cup m_cancel \cup revoked
      /\ \A id \in ids : id.impl # made'
      /\ \A n \in DOMAIN injected : injected[n].impl # made'
  BY <1>0, FreshEvent
<1>2. e \in Ids(made') /\ e.impl = made'
  BY <1>0, <1>1, UidFacts DEF Ids, TypeOK
<1>3. /\ m_destroyEvents' = Append(m_destroyEvents, e) /\ ids' = ids \cup {e} /\ m_uid' = NextUid
      /\ UNCHANGED <<pc, m_stop, runs, m_currentTs, m_currentUid, m_events, m_unscheduledEvents,
                     m_eventsWithContext, m_eventsWithContextEmpty, eventsWithContext, m_cancel, revoked,
                     invoked, injected>>
      /\ pc # "over"
  BY DEF ScheduleDestroy, clock, control, injection, InProgram
<1> HIDE DEF e
<1>4. /\ m_destroyEvents' \in Seq(Ids(made')) /\ Kept' = Kept \cup {made'} /\ Distinct(m_destroyEvents')
      /\ ToSet(m_destroyEvents') = ToSet(m_destroyEvents) \cup {e}
  <2>1. Distinct(m_destroyEvents) /\ e.impl \notin ImplsOf(m_destroyEvents)
    BY <1>0, <1>1, <1>2 DEF OnePlace, Kept
  <2>2. ImplsOf(m_destroyEvents') = ImplsOf(m_destroyEvents) \cup {made'} /\ Distinct(m_destroyEvents')
    BY <1>1, <1>2, <1>3, <2>1, AppendedImpls
  <2>3. /\ m_destroyEvents' \in Seq(Ids(made'))
        /\ ToSet(m_destroyEvents') = ToSet(m_destroyEvents) \cup {e}
    BY <1>1, <1>2, <1>3, Appended
  <2> QED
    BY <2>2, <2>3 DEF Kept
<1>5. TypeOK'
  <2>1. m_uid' \in Uid
    BY <1>0, <1>3, UidFacts DEF TypeOK
  <2>2. m_cancel \subseteq 1 .. made' /\ revoked \subseteq 1 .. made'
    BY <1>0, <1>1 DEF TypeOK, Impl
  <2> QED
    BY <1>0, <1>1, <1>2, <1>3, <1>4, <2>1, <2>2 DEF TypeOK, Impl, EventId, EventWithContext, Ids, Contexts, Uid
<1>6. NoEventFromThePast'
  BY <1>0, <1>3 DEF NoEventFromThePast
<1>7. UNCHANGED <<Listed, Shared, Taken, Done>>
  BY <1>3 DEF Listed, Shared, Taken, Done
<1>8. OnePlace'
  BY <1>0, <1>1, <1>3, <1>4, <1>7 DEF OnePlace
<1>9. SomePlace'
  BY <1>0, <1>1, <1>3, <1>4, <1>7 DEF SomePlace, Impl
<1>10. HandlesFit'
  <2>1. \A x \in ToSet(m_destroyEvents) : x.impl # made'
    BY <1>1, ImplsByMember DEF Kept
  <2>2. \A x \in m_events : x.impl # made'
    BY <1>1 DEF Listed
  <2>3. ASSUME NEW id \in ids', NEW x \in m_events' \cup ToSet(m_destroyEvents') \cup ids', x.impl = id.impl
        PROVE  x = id
    BY <1>0, <1>1, <1>2, <1>3, <1>4, <2>1, <2>2, <2>3 DEF HandlesFit
  <2>4. ASSUME NEW id \in ids'
        PROVE  /\ id.impl \notin Shared' \cup Taken'
               /\ \A n \in DOMAIN injected' : injected'[n].impl # id.impl
    BY <1>0, <1>1, <1>2, <1>3, <1>7 DEF HandlesFit
  <2>5. \A i \in m_cancel' : \E id \in ids' : id.impl = i
    BY <1>0, <1>3 DEF HandlesFit
  <2> QED
    BY <2>3, <2>4, <2>5 DEF HandlesFit
<1> QED
  BY <1>5, <1>6, <1>8, <1>9, <1>10 DEF PlacesInv

\* An event of which there is an id, and which is in neither list, has run or
\* was removed.
LEMMA HandleGone ==
  ASSUME TypeOK, SomePlace, HandlesFit, NEW id \in ids
  PROVE  /\ id.impl \in Impl
         /\ id \notin m_events => id.impl \notin Listed
         /\ id \notin ToSet(m_destroyEvents) => id.impl \notin Kept
         /\ id \notin m_events \cup ToSet(m_destroyEvents) => id.impl \in Done \cup revoked
<1>1. id.impl \in Impl
  BY DEF TypeOK, EventId
<1>2. id \notin m_events => id.impl \notin Listed
  BY DEF HandlesFit, Listed
<1>3. id \notin ToSet(m_destroyEvents) => id.impl \notin Kept
  <2>1. Kept = {x.impl : x \in ToSet(m_destroyEvents)}
    BY ImplsByMember DEF TypeOK, Kept
  <2> QED
    BY <2>1 DEF HandlesFit
<1>4. id.impl \notin Shared \cup Taken
  BY DEF HandlesFit
<1> QED
  BY <1>1, <1>2, <1>3, <1>4 DEF SomePlace

LEMMA CancelPlaces ==
  ASSUME PlacesInv, NEW id \in ids, Cancel(id)
  PROVE  PlacesInv'
<1>0. TypeOK /\ NoEventFromThePast /\ OnePlace /\ SomePlace /\ HandlesFit
  BY DEF PlacesInv, Cancel, InProgram
<1>1. /\ m_cancel' = m_cancel \cup (IF IsExpired(id) THEN {} ELSE {id.impl})
      /\ revoked' = revoked \cup (IF Pending(id) THEN {id.impl} ELSE {})
      /\ UNCHANGED <<pc, m_stop, runs, m_currentTs, m_currentUid, m_events, m_uid, m_unscheduledEvents,
                     m_destroyEvents, m_eventsWithContext, m_eventsWithContextEmpty, eventsWithContext,
                     ids, made, invoked, injected>>
  BY DEF Cancel, Revoke, queue, clock, control, injection
<1>2. /\ id.impl \in Impl
      /\ id \notin m_events \cup ToSet(m_destroyEvents) => id.impl \in Done \cup revoked
  BY <1>0, HandleGone
<1>3. TypeOK' /\ NoEventFromThePast'
  BY <1>0, <1>1, <1>2 DEF TypeOK, NoEventFromThePast, EventId, EventWithContext, Impl, Uid
<1>4. UNCHANGED <<Listed, Kept, Shared, Taken, Done, Impl>>
  BY <1>1 DEF Listed, Kept, Shared, Taken, Done, Impl
<1>5. OnePlace'
  BY <1>0, <1>1, <1>4 DEF OnePlace
<1>6. SomePlace'
  <2>1. id.impl \in m_cancel' => id.impl \in revoked' \cup Done
    BY <1>0, <1>1, <1>2 DEF Pending, SomePlace
  <2>2. m_cancel' \subseteq m_cancel \cup {id.impl} /\ revoked \subseteq revoked'
    BY <1>1
  <2>3. m_cancel' \subseteq revoked' \cup Done
    BY <1>0, <2>1, <2>2 DEF SomePlace
  <2> QED
    BY <1>0, <1>4, <2>2, <2>3 DEF SomePlace
<1>7. HandlesFit'
  BY <1>0, <1>1, <1>4 DEF HandlesFit
<1> QED
  BY <1>3, <1>5, <1>6, <1>7 DEF PlacesInv

LEMMA RemoveScheduledPlaces ==
  ASSUME PlacesInv, NEW id \in ids, RemoveEvent(id), RemoveScheduled(id)
  PROVE  PlacesInv'
<1>0. TypeOK /\ NoEventFromThePast /\ OnePlace /\ SomePlace /\ HandlesFit
  BY DEF PlacesInv, RemoveEvent, InProgram
<1>1. /\ m_events' = m_events \ {id} /\ m_unscheduledEvents' = m_unscheduledEvents - 1
      /\ m_cancel' = m_cancel \cup {id.impl} /\ id.impl \notin m_cancel
      /\ revoked' = revoked \cup (IF Pending(id) THEN {id.impl} ELSE {})
      /\ UNCHANGED <<pc, m_stop, runs, m_currentTs, m_currentUid, m_uid,
                     m_destroyEvents, m_eventsWithContext, m_eventsWithContextEmpty, eventsWithContext,
                     ids, made, invoked, injected>>
  BY DEF RemoveEvent, RemoveScheduled, Removable, IsExpired, Revoke, clock, control, injection
<1>2. /\ id.impl \in Impl
      /\ id \notin m_events \cup ToSet(m_destroyEvents) => id.impl \in Done \cup revoked
  BY <1>0, HandleGone
<1>3. TypeOK' /\ NoEventFromThePast'
  <2>1. m_unscheduledEvents' \in Int
    BY <1>0, <1>1 DEF TypeOK
  <2>2. m_events' \subseteq m_events
    BY <1>1
  <2>3. m_cancel' \subseteq Impl /\ revoked' \subseteq Impl
    BY <1>0, <1>1, <1>2 DEF TypeOK
  <2>4. NoEventFromThePast'
    BY <1>0, <1>1, <2>2 DEF NoEventFromThePast
  <2>5. TypeOK'
    BY <1>0, <1>1, <2>1, <2>2, <2>3 DEF TypeOK, EventId, EventWithContext, Impl, Uid
  <2> QED
    BY <2>4, <2>5
<1>4. /\ Listed' \subseteq Listed /\ Listed \subseteq Listed' \cup {id.impl}
      /\ id \notin m_events => Listed' = Listed
      /\ UNCHANGED <<Kept, Shared, Taken, Done, Impl>>
  BY <1>1 DEF Listed, Kept, Shared, Taken, Done, Impl
<1>5. OnePlace'
  BY <1>0, <1>1, <1>4 DEF OnePlace
<1>6. SomePlace'
  <2>1. id.impl \in revoked' \cup Done
    BY <1>0, <1>1, <1>2 DEF Pending
  <2>2. revoked \subseteq revoked'
    BY <1>1
  <2>3. m_cancel' \subseteq revoked' \cup Done
    BY <1>0, <1>1, <2>1, <2>2 DEF SomePlace
  <2> QED
    BY <1>0, <1>4, <2>1, <2>2, <2>3 DEF SomePlace
<1>7. HandlesFit'
  BY <1>0, <1>1, <1>4 DEF HandlesFit
<1> QED
  BY <1>3, <1>5, <1>6, <1>7 DEF PlacesInv

LEMMA RemoveDestroyFacts ==
  ASSUME PlacesInv, NEW id \in ids, RemoveEvent(id), RemoveDestroy(id)
  PROVE  /\ m_destroyEvents' \in Seq(EventId) /\ Distinct(m_destroyEvents')
         /\ ToSet(m_destroyEvents') \subseteq ToSet(m_destroyEvents)
         /\ Kept' = Kept \ {id.impl}
         /\ id \notin ToSet(m_destroyEvents) => Kept' = Kept
<1>0. TypeOK /\ OnePlace /\ SomePlace /\ HandlesFit
  BY DEF PlacesInv, RemoveEvent, InProgram
<1>1. CASE id \notin ToSet(m_destroyEvents)
  <2>1. m_destroyEvents' = m_destroyEvents
    BY <1>1 DEF RemoveDestroy, ToSet
  <2>2. id.impl \notin Kept
    BY <1>0, <1>1, HandleGone
  <2> QED
    BY <1>0, <2>1, <2>2 DEF TypeOK, OnePlace, Kept
<1>2. CASE id \in ToSet(m_destroyEvents)
  <2>1. PICK n \in DOMAIN m_destroyEvents :
          m_destroyEvents[n] = id /\ m_destroyEvents' = RemoveAt(m_destroyEvents, n)
    BY <1>2 DEF RemoveDestroy
  <2> QED
    BY <1>0, <1>2, <2>1, ErasedImpls DEF TypeOK, OnePlace, Kept
<1> QED
  BY <1>1, <1>2

LEMMA RemoveDestroyPlaces ==
  ASSUME PlacesInv, NEW id \in ids, RemoveEvent(id), RemoveDestroy(id)
  PROVE  PlacesInv'
<1>0. TypeOK /\ NoEventFromThePast /\ OnePlace /\ SomePlace /\ HandlesFit
  BY DEF PlacesInv, RemoveEvent, InProgram
<1>1. /\ revoked' = revoked \cup (IF Pending(id) THEN {id.impl} ELSE {})
      /\ UNCHANGED <<pc, m_stop, runs, m_currentTs, m_currentUid, m_uid, m_events, m_unscheduledEvents,
                     m_eventsWithContext, m_eventsWithContextEmpty, eventsWithContext,
                     m_cancel, ids, made, invoked, injected>>
  BY DEF RemoveEvent, RemoveDestroy, Revoke, clock, control, injection
<1>2. id.impl \in Impl
  BY <1>0, HandleGone
<1>3. /\ m_destroyEvents' \in Seq(EventId) /\ Distinct(m_destroyEvents')
      /\ ToSet(m_destroyEvents') \subseteq ToSet(m_destroyEvents)
      /\ Kept' = Kept \ {id.impl}
      /\ id \notin ToSet(m_destroyEvents) => Kept' = Kept
  BY RemoveDestroyFacts
<1>4. TypeOK' /\ NoEventFromThePast'
  BY <1>0, <1>1, <1>2, <1>3 DEF TypeOK, NoEventFromThePast, EventId, EventWithContext, Impl, Uid
<1>5. UNCHANGED <<Listed, Shared, Taken, Done, Impl>>
  BY <1>1 DEF Listed, Shared, Taken, Done, Impl
<1>6. OnePlace'
  BY <1>0, <1>1, <1>3, <1>5 DEF OnePlace
<1>7. SomePlace'
  <2>1. revoked \subseteq revoked'
    BY <1>1
  <2>2. m_cancel' \subseteq revoked' \cup Done
    BY <1>0, <1>1, <2>1 DEF SomePlace
  <2>3. Kept' = Kept \/ id.impl \in revoked' \cup Done
    <3>1. CASE id.impl \in m_cancel
      BY <1>1, <2>2, <3>1
    <3>2. CASE id.impl \notin m_cancel
      BY <1>1, <1>3, <3>2 DEF Pending
    <3> QED
      BY <3>1, <3>2
  <2> QED
    BY <1>0, <1>3, <1>5, <2>1, <2>2, <2>3 DEF SomePlace
<1>8. HandlesFit'
  BY <1>0, <1>1, <1>3, <1>5 DEF HandlesFit
<1> QED
  BY <1>4, <1>6, <1>7, <1>8 DEF PlacesInv

LEMMA SwapPlaces ==
  ASSUME PlacesInv, SwapLists
  PROVE  PlacesInv'
<1>0. TypeOK /\ NoEventFromThePast /\ OnePlace /\ SomePlace /\ HandlesFit
  BY DEF PlacesInv, SwapLists, Goto
<1>1. /\ eventsWithContext' = m_eventsWithContext /\ m_eventsWithContext' = eventsWithContext
      /\ m_eventsWithContextEmpty' = TRUE /\ pc' = "insert"
      /\ UNCHANGED <<m_stop, runs, m_currentTs, m_currentUid, m_uid, m_events, m_unscheduledEvents,
                     m_destroyEvents, m_cancel, ids, revoked, made, invoked, injected>>
  BY DEF SwapLists, LeftBySwap, Goto, queue, clock, handles
<1>2. TypeOK' /\ NoEventFromThePast'
  <2>1. m_eventsWithContextEmpty' \in BOOLEAN
    BY <1>1
  <2> QED
    BY <1>0, <1>1, <2>1 DEF TypeOK, NoEventFromThePast, EventId, EventWithContext, Impl, Uid
<1>3. UNCHANGED <<Listed, Kept, Done, Impl>> /\ Shared' = Taken /\ Taken' = Shared
  BY <1>1 DEF Listed, Kept, Shared, Taken, Done, Impl
<1>4. OnePlace'
  BY <1>0, <1>1, <1>3 DEF OnePlace
<1>5. SomePlace'
  BY <1>0, <1>1, <1>3 DEF SomePlace
<1>6. HandlesFit'
  BY <1>0, <1>1, <1>3 DEF HandlesFit
<1> QED
  BY <1>2, <1>4, <1>5, <1>6 DEF PlacesInv

\* The event object that the main thread takes over, as it stands in the event list
TakenId == [impl |-> Head(eventsWithContext).impl, ts |-> m_currentTs + Head(eventsWithContext).timestamp,
            uid |-> m_uid]

LEMMA InsertInjectedFacts ==
  ASSUME TypeOK, InsertInjected
  PROVE  /\ eventsWithContext # << >> /\ eventsWithContext' = Tail(eventsWithContext)
         /\ m_events' = m_events \cup {TakenId} /\ m_uid' = NextUid
         /\ m_unscheduledEvents' = m_unscheduledEvents + 1 /\ pc = "insert"
         /\ UNCHANGED <<pc, m_stop, runs, m_currentTs, m_currentUid, m_destroyEvents, m_eventsWithContext,
                        m_eventsWithContextEmpty, m_cancel, ids, revoked, made, invoked, injected>>
         /\ Head(eventsWithContext) \in EventWithContext
         /\ TakenId \in EventId /\ TakenId.impl = Head(eventsWithContext).impl /\ TakenId.ts >= m_currentTs
<1>1. /\ eventsWithContext # << >> /\ eventsWithContext' = Tail(eventsWithContext)
      /\ m_events' = m_events \cup {TakenId} /\ m_uid' = NextUid
      /\ m_unscheduledEvents' = m_unscheduledEvents + 1 /\ pc = "insert"
      /\ UNCHANGED <<pc, m_stop, runs, m_currentTs, m_currentUid, m_destroyEvents, m_eventsWithContext,
                     m_eventsWithContextEmpty, m_cancel, ids, revoked, made, invoked, injected>>
  BY DEF InsertInjected, Insert, InjectedTs, TakenId, clock, handles, control
<1>2. eventsWithContext \in Seq(EventWithContext)
  BY DEF TypeOK
<1>3. Head(eventsWithContext) \in EventWithContext
  BY <1>1, <1>2, Behead
<1>4. Head(eventsWithContext).impl \in Impl /\ Head(eventsWithContext).timestamp \in Nat
  BY <1>3, SimulatorAssumption DEF EventWithContext
<1>5. m_currentTs \in Nat /\ m_uid \in Uid
  BY DEF TypeOK
<1> QED
  BY <1>1, <1>3, <1>4, <1>5 DEF TakenId, EventId

LEMMA InsertInjectedPlaces ==
  ASSUME PlacesInv, InsertInjected
  PROVE  PlacesInv'
<1> DEFINE e == TakenId
<1>0. TypeOK /\ NoEventFromThePast /\ OnePlace /\ SomePlace /\ HandlesFit
  BY DEF PlacesInv, InsertInjected
<1>1. /\ eventsWithContext # << >> /\ eventsWithContext' = Tail(eventsWithContext)
      /\ m_events' = m_events \cup {e} /\ m_uid' = NextUid
      /\ m_unscheduledEvents' = m_unscheduledEvents + 1
      /\ UNCHANGED <<pc, m_stop, runs, m_currentTs, m_currentUid, m_destroyEvents, m_eventsWithContext,
                     m_eventsWithContextEmpty, m_cancel, ids, revoked, made, invoked, injected>>
      /\ e \in EventId /\ e.impl = Head(eventsWithContext).impl /\ e.ts >= m_currentTs
  BY <1>0, InsertInjectedFacts
<1> HIDE DEF e
<1>2. eventsWithContext \in Seq(EventWithContext) /\ Distinct(eventsWithContext)
  BY <1>0 DEF TypeOK, OnePlace
<1>3. /\ ImplsOf(eventsWithContext') = ImplsOf(eventsWithContext) \ {e.impl}
      /\ e.impl \in ImplsOf(eventsWithContext) /\ Distinct(eventsWithContext')
      /\ eventsWithContext' \in Seq(EventWithContext)
  BY <1>1, <1>2, BeheadImpls, Behead
<1>4. TypeOK'
  <2>1. m_uid' \in Uid /\ m_unscheduledEvents' \in Int
    BY <1>0, <1>1, UidFacts DEF TypeOK
  <2>2. m_events' \subseteq EventId
    BY <1>0, <1>1 DEF TypeOK
  <2> QED
    BY <1>0, <1>1, <1>3, <2>1, <2>2 DEF TypeOK, EventId, EventWithContext, Impl, Uid
<1>5. NoEventFromThePast'
  BY <1>0, <1>1 DEF NoEventFromThePast
<1>6. /\ UNCHANGED <<Kept, Shared, Done, Impl>>
      /\ Listed' = Listed \cup {e.impl} /\ Taken' = Taken \ {e.impl} /\ e.impl \in Taken
  BY <1>1, <1>3 DEF Listed, Kept, Shared, Taken, Done, Impl
<1>7. e.impl \notin Listed \cup Kept \cup Shared \cup Done
  BY <1>0, <1>6 DEF OnePlace
<1>8. OnePlace'
  <2>1. \A x, y \in m_events' : x.impl = y.impl => x = y
    BY <1>0, <1>1, <1>7 DEF OnePlace, Listed
  <2> QED
    BY <1>0, <1>1, <1>3, <1>6, <1>7, <2>1 DEF OnePlace
<1>9. SomePlace'
  BY <1>0, <1>1, <1>6 DEF SomePlace
<1>10. HandlesFit'
  <2>1. \A id \in ids : id.impl # e.impl
    BY <1>0, <1>6 DEF HandlesFit
  <2> QED
    BY <1>0, <1>1, <1>6, <2>1 DEF HandlesFit
<1> QED
  BY <1>4, <1>5, <1>8, <1>9, <1>10 DEF PlacesInv

Once(v) == \A m, n \in DOMAIN v : v[m] = v[n] => m = n

\* An event object that has not run is notified, unless it was cancelled.
LEMMA InvokeFacts ==
  ASSUME TypeOK, NEW i \in Impl, NEW h, NEW a, Invoke(i, h, a), i \notin Done, Once(invoked)
  PROVE  /\ invoked' \in Seq(Impl) /\ Once(invoked') /\ pc' \in {h, a}
         /\ i \notin m_cancel => invoked' = Append(invoked, i) /\ Done' = Done \cup {i}
         /\ i \in m_cancel => invoked' = invoked /\ Done' = Done
<1>1. invoked \in Seq(Impl)
  BY DEF TypeOK
<1>2. CASE i \in m_cancel
  <2>1. invoked' = invoked /\ pc' = a
    BY <1>2 DEF Invoke, Invokes
  <2> QED
    BY <1>1, <1>2, <2>1 DEF Done
<1>3. CASE i \notin m_cancel
  <2>1. invoked' = Append(invoked, i) /\ pc' = h
    BY <1>3 DEF Invoke, Invokes
  <2>2. /\ invoked' \in Seq(Impl) /\ Len(invoked') = Len(invoked) + 1 /\ Len(invoked) \in Nat
        /\ \A n \in 1 .. Len(invoked) + 1 : invoked'[n] = IF n <= Len(invoked) THEN invoked[n] ELSE i
        /\ ToSet(invoked') = ToSet(invoked) \cup {i}
        /\ DOMAIN invoked' = 1 .. Len(invoked) + 1 /\ DOMAIN invoked = 1 .. Len(invoked)
    BY <1>1, <2>1, Appended
  <2>3. \A n \in 1 .. Len(invoked) : invoked[n] # i
    BY <2>2 DEF Done, ToSet
  <2>4. Once(invoked')
    <3>1. ASSUME NEW m \in 1 .. Len(invoked) + 1, NEW n \in 1 .. Len(invoked) + 1, invoked'[m] = invoked'[n]
          PROVE  m = n
      BY <2>2, <2>3, <3>1 DEF Once
    <3> QED
      BY <2>2, <3>1 DEF Once
  <2> QED
    BY <1>3, <2>1, <2>2, <2>4 DEF Done
<1> QED
  BY <1>2, <1>3

\* The event with which ProcessOneEvent goes on
Processes(e) ==
  /\ e \in m_events /\ \A f \in m_events \ {e} : ~Earlier(f, e)
  /\ m_events' = m_events \ {e} /\ m_currentTs' = e.ts /\ m_currentUid' = e.uid
  /\ Invoke(e.impl, "event", "check")
  /\ m_unscheduledEvents' = m_unscheduledEvents - 1 /\ pc = "loop"
  /\ UNCHANGED <<m_uid, m_destroyEvents, m_eventsWithContext, m_eventsWithContextEmpty, eventsWithContext,
                 m_stop, runs, m_cancel, ids, revoked, made, injected>>

LEMMA ProcessFacts ==
  ASSUME ProcessOneEvent
  PROVE  \E e : Processes(e)
BY DEF ProcessOneEvent, Processes, injection, handles

LEMMA ProcessPlaces ==
  ASSUME PlacesInv, NEW e, Processes(e)
  PROVE  PlacesInv'
<1>0. TypeOK /\ NoEventFromThePast /\ OnePlace /\ SomePlace /\ HandlesFit
  BY DEF PlacesInv, Processes
<1>1. /\ e \in EventId /\ e \in m_events /\ e.impl \in Impl /\ e.ts \in Nat /\ e.uid \in Uid
      /\ e.impl \in Listed
  BY <1>0 DEF Processes, TypeOK, EventId, Listed
<1>2. /\ m_events' = m_events \ {e} /\ m_currentTs' = e.ts /\ m_currentUid' = e.uid
      /\ Invoke(e.impl, "event", "check")
      /\ m_unscheduledEvents' = m_unscheduledEvents - 1
      /\ UNCHANGED <<m_uid, m_destroyEvents, m_eventsWithContext, m_eventsWithContextEmpty, eventsWithContext,
                     m_stop, runs, m_cancel, ids, revoked, made, injected>>
  BY DEF Processes
<1>3. e.impl \notin Done \cup Kept \cup Shared \cup Taken /\ Once(invoked)
  BY <1>0, <1>1 DEF OnePlace, Once
<1>4. /\ invoked' \in Seq(Impl) /\ Once(invoked') /\ pc' \in {"event", "check"}
      /\ e.impl \notin m_cancel => Done' = Done \cup {e.impl}
      /\ e.impl \in m_cancel => Done' = Done
  BY <1>0, <1>1, <1>2, <1>3, InvokeFacts
<1>5. TypeOK'
  <2>1. m_unscheduledEvents' \in Int
    BY <1>0, <1>2 DEF TypeOK
  <2>2. m_events' \subseteq m_events
    BY <1>2
  <2> QED
    BY <1>0, <1>1, <1>2, <1>4, <2>1, <2>2 DEF TypeOK, EventId, EventWithContext, Impl, Uid
<1>6. NoEventFromThePast'
  <2>1. ASSUME NEW f \in m_events' PROVE f.ts >= e.ts
    <3>1. f \in m_events \ {e} /\ ~Earlier(f, e) /\ f.ts \in Nat
      BY <1>0, <1>2 DEF Processes, TypeOK, EventId
    <3> QED
      BY <1>1, <3>1 DEF Earlier
  <2> QED
    BY <1>2, <2>1 DEF NoEventFromThePast
<1>7. UNCHANGED <<Kept, Shared, Taken, Impl>> /\ Listed' = Listed \ {e.impl}
  <2>1. Listed' = Listed \ {e.impl}
    BY <1>0, <1>1, <1>2 DEF Listed, OnePlace
  <2> QED
    BY <1>2, <2>1 DEF Kept, Shared, Taken, Impl
<1>8. OnePlace'
  BY <1>0, <1>2, <1>3, <1>4, <1>7 DEF OnePlace, Once
<1>9. SomePlace'
  <2>1. e.impl \in revoked \cup Done'
    BY <1>0, <1>3, <1>4 DEF SomePlace
  <2> QED
    BY <1>0, <1>2, <1>4, <1>7, <2>1 DEF SomePlace
<1>10. HandlesFit'
  BY <1>0, <1>2, <1>7 DEF HandlesFit
<1>11. pc' # "over"
  BY <1>4
<1> QED
  BY <1>5, <1>6, <1>8, <1>9, <1>10 DEF PlacesInv

LEMMA DestroyOneFacts ==
  ASSUME PlacesInv, DestroyOneEvent, NEW e, e = Head(m_destroyEvents)
  PROVE  /\ e \in ToSet(m_destroyEvents) /\ e.impl \in Impl /\ e.impl \in Kept
         /\ Kept' = Kept \ {e.impl} /\ Distinct(m_destroyEvents')
         /\ m_destroyEvents' \in Seq(EventId) /\ ToSet(m_destroyEvents') \subseteq ToSet(m_destroyEvents)
         /\ e.impl \notin Done \cup Listed \cup Shared \cup Taken
         /\ invoked' \in Seq(Impl) /\ Once(invoked') /\ pc' \in {"destroyEvent", "destroy"}
         /\ e.impl \notin m_cancel => invoked' = Append(invoked, e.impl) /\ Done' = Done \cup {e.impl}
         /\ e.impl \in m_cancel => invoked' = invoked /\ Done' = Done
         /\ UNCHANGED <<m_events, m_uid, m_unscheduledEvents, m_currentTs, m_currentUid, m_eventsWithContext,
                        m_eventsWithContextEmpty, eventsWithContext, m_stop, runs, m_cancel, ids, revoked,
                        made, injected>>
         /\ pc = "destroy"
<1>0. TypeOK /\ OnePlace
  BY DEF PlacesInv, DestroyOneEvent
<1>1. /\ m_destroyEvents # << >> /\ m_destroyEvents' = Tail(m_destroyEvents) /\ pc = "destroy"
      /\ Invoke(e.impl, "destroyEvent", "destroy")
      /\ UNCHANGED <<m_events, m_uid, m_unscheduledEvents, m_currentTs, m_currentUid, m_eventsWithContext,
                     m_eventsWithContextEmpty, eventsWithContext, m_stop, runs, m_cancel, ids, revoked,
                     made, injected>>
  BY DEF DestroyOneEvent, queue, clock, injection, handles
<1>2. m_destroyEvents \in Seq(EventId) /\ Distinct(m_destroyEvents) /\ Once(invoked)
  BY <1>0 DEF TypeOK, OnePlace, Once
<1>3. /\ e \in EventId /\ e \in ToSet(m_destroyEvents)
      /\ m_destroyEvents' \in Seq(EventId) /\ ToSet(m_destroyEvents') \subseteq ToSet(m_destroyEvents)
  BY <1>1, <1>2, Behead
<1>4. Kept' = Kept \ {e.impl} /\ Distinct(m_destroyEvents') /\ e.impl \in Kept
  BY <1>1, <1>2, BeheadImpls DEF Kept
<1>5. e.impl \notin Done \cup Listed \cup Shared \cup Taken /\ e.impl \in Impl
  BY <1>0, <1>3, <1>4 DEF OnePlace, EventId
<1>6. /\ invoked' \in Seq(Impl) /\ Once(invoked') /\ pc' \in {"destroyEvent", "destroy"}
      /\ e.impl \notin m_cancel => invoked' = Append(invoked, e.impl) /\ Done' = Done \cup {e.impl}
      /\ e.impl \in m_cancel => invoked' = invoked /\ Done' = Done
  BY <1>0, <1>1, <1>2, <1>5, InvokeFacts
<1> QED
  BY <1>1, <1>3, <1>4, <1>5, <1>6

LEMMA DestroyOnePlaces ==
  ASSUME PlacesInv, DestroyOneEvent
  PROVE  PlacesInv'
<1> DEFINE e == Head(m_destroyEvents)
<1>0. TypeOK /\ NoEventFromThePast /\ OnePlace /\ SomePlace /\ HandlesFit
  BY DEF PlacesInv, DestroyOneEvent
<1>1. /\ e \in ToSet(m_destroyEvents) /\ e.impl \in Impl /\ e.impl \in Kept
      /\ Kept' = Kept \ {e.impl} /\ Distinct(m_destroyEvents')
      /\ m_destroyEvents' \in Seq(EventId) /\ ToSet(m_destroyEvents') \subseteq ToSet(m_destroyEvents)
      /\ e.impl \notin Done \cup Listed \cup Shared \cup Taken
      /\ invoked' \in Seq(Impl) /\ Once(invoked') /\ pc' \in {"destroyEvent", "destroy"}
      /\ e.impl \notin m_cancel => Done' = Done \cup {e.impl}
      /\ e.impl \in m_cancel => Done' = Done
      /\ UNCHANGED <<m_events, m_uid, m_unscheduledEvents, m_currentTs, m_currentUid, m_eventsWithContext,
                     m_eventsWithContextEmpty, eventsWithContext, m_stop, runs, m_cancel, ids, revoked,
                     made, injected>>
  BY DestroyOneFacts
<1> HIDE DEF e
<1>2. TypeOK' /\ NoEventFromThePast'
  BY <1>0, <1>1 DEF TypeOK, NoEventFromThePast, EventId, EventWithContext, Impl, Uid
<1>3. UNCHANGED <<Listed, Shared, Taken, Impl>>
  BY <1>1 DEF Listed, Shared, Taken, Impl
<1>4. OnePlace'
  BY <1>0, <1>1, <1>3 DEF OnePlace, Once
<1>5. SomePlace'
  <2>1. e.impl \in revoked \cup Done'
    BY <1>0, <1>1 DEF SomePlace
  <2> QED
    BY <1>0, <1>1, <1>3, <2>1 DEF SomePlace
<1>6. HandlesFit'
  BY <1>0, <1>1, <1>3 DEF HandlesFit
<1> QED
  BY <1>2, <1>4, <1>5, <1>6 DEF PlacesInv

LEMMA DisposePlaces ==
  ASSUME PlacesInv, DoDispose
  PROVE  PlacesInv'
<1>1. /\ m_events' = {} /\ pc' = "over"
      /\ UNCHANGED <<m_uid, m_unscheduledEvents, m_currentTs, m_currentUid, m_destroyEvents,
                     m_eventsWithContext, m_eventsWithContextEmpty, eventsWithContext, m_stop, runs,
                     m_cancel, ids, revoked, made, invoked, injected>>
  BY DEF DoDispose, clock, injection, handles
<1>2. TypeOK' /\ NoEventFromThePast'
  BY <1>1 DEF PlacesInv, TypeOK, NoEventFromThePast, EventId, EventWithContext, Impl, Uid
<1> QED
  BY <1>1, <1>2 DEF PlacesInv

\* The kinds of steps
Step ==
  \/ Idles
  \/ \E d \in Delay : Schedules(d) \/ Inject(d)
  \/ ScheduleDestroy
  \/ \E id \in ids : \/ Cancel(id)
                     \/ RemoveEvent(id) /\ RemoveDestroy(id)
                     \/ RemoveEvent(id) /\ RemoveScheduled(id)
  \/ SwapLists \/ InsertInjected
  \/ \E e : Processes(e)
  \/ DestroyOneEvent \/ DoDispose
  \/ UNCHANGED vars

LEMMA StepKinds == ASSUME TypeOK, [Next]_vars PROVE Step
<1>1. CASE UNCHANGED vars
  BY <1>1 DEF Step
<1>2. CASE Next
  <2>1. CASE \E d \in Delay : Schedule(d) \/ ScheduleWithContext(d) \/ Inject(d)
    BY <2>1, SchedulesFacts DEF Step
  <2>2. CASE \E id \in ids : Cancel(id) \/ RemoveEvent(id)
    <3>1. PICK id \in ids : Cancel(id) \/ RemoveEvent(id)
      BY <2>2
    <3>2. RemoveEvent(id) => RemoveDestroy(id) \/ RemoveScheduled(id)
      BY DEF RemoveEvent
    <3> QED
      BY <3>1, <3>2 DEF Step
  <2>3. CASE \/ Stop \/ Run \/ FindEmpty \/ FindInjected \/ EndInsert \/ EndEvent \/ EndRun
             \/ Destroy \/ EndDestroyEvent
    BY <2>3, IdlesFacts DEF Step
  <2>4. CASE ProcessOneEvent
    BY <2>4, ProcessFacts DEF Step
  <2>5. CASE ScheduleDestroy \/ SwapLists \/ InsertInjected \/ DestroyOneEvent \/ DoDispose
    BY <2>5 DEF Step
  <2>6. CASE Over
    BY <2>6 DEF Over, Step
  <2> QED
    BY <1>2, <2>1, <2>2, <2>3, <2>4, <2>5, <2>6 DEF Next
<1> QED
  BY <1>1, <1>2

LEMMA PlacesNext == PlacesInv /\ [Next]_vars => PlacesInv'
<1> SUFFICES ASSUME PlacesInv, [Next]_vars PROVE PlacesInv'
  OBVIOUS
<1>1. Step
  BY StepKinds DEF PlacesInv
<1>2. UNCHANGED vars => PlacesInv'
  <2> SUFFICES ASSUME UNCHANGED vars PROVE PlacesInv'
    OBVIOUS
  <2>1. TypeOK' /\ NoEventFromThePast'
    BY DEF PlacesInv, vars, queue, clock, injection, control, handles, TypeOK, NoEventFromThePast, EventId,
           EventWithContext, Impl, Uid
  <2>2. pc' # "over" => OnePlace' /\ SomePlace' /\ HandlesFit'
    BY DEF PlacesInv, vars, queue, clock, injection, control, handles, OnePlace, SomePlace, HandlesFit,
           Listed, Kept, Shared, Taken, Done, Impl
  <2> QED
    BY <2>1, <2>2 DEF PlacesInv
<1> QED
  BY <1>1, <1>2, IdlesPlaces, SchedulesPlaces, InjectPlaces, DestroyLaterPlaces, CancelPlaces,
     RemoveDestroyPlaces, RemoveScheduledPlaces, SwapPlaces, InsertInjectedPlaces, ProcessPlaces,
     DestroyOnePlaces, DisposePlaces DEF Step

LEMMA PlacesInit == Init => PlacesInv
<1> SUFFICES ASSUME Init PROVE PlacesInv
  OBVIOUS
<1>1. TypeOK
  <2>1. m_stop \in BOOLEAN /\ m_eventsWithContextEmpty \in BOOLEAN
    BY DEF Init
  <2>2. 4 \in Uid /\ 0 \in Uid /\ 0 \in 0 .. MaxRuns /\ 0 \in 0 .. MaxEvents
    BY SimulatorAssumption DEF Uid
  <2> QED
    BY <2>1, <2>2 DEF Init, TypeOK
<1>2. NoEventFromThePast
  BY DEF Init, NoEventFromThePast
<1>3. Listed = {} /\ Kept = {} /\ Shared = {} /\ Taken = {} /\ Done = {}
  BY DEF Init, Listed, Kept, Shared, Taken, Done, ImplsOf, ToSet
<1>4. OnePlace
  BY <1>3 DEF Init, OnePlace, Distinct
<1>5. SomePlace
  <2>1. Impl = {}
    BY DEF Init, Impl
  <2> QED
    BY <2>1 DEF Init, SomePlace
<1>6. HandlesFit
  BY DEF Init, HandlesFit
<1> QED
  BY <1>1, <1>2, <1>4, <1>5, <1>6 DEF PlacesInv

\* A set that has at most one element
LEMMA AtMostOne ==
  ASSUME NEW S, \A x, y \in S : x = y
  PROVE  Cardinality(S) = IF S = {} THEN 0 ELSE 1
<1>1. CASE S = {}
  BY <1>1, FS_EmptySet
<1>2. CASE S # {}
  <2>1. PICK x \in S : S = {x}
    BY <1>2
  <2> QED
    BY <1>2, <2>1, FS_Singleton
<1> QED
  BY <1>1, <1>2

\* How often an object is in each place
LEMMA PlacesCounted ==
  ASSUME PlacesInv, pc # "over", NEW i \in Impl
  PROVE  Occurrences(i) = (IF i \in Listed THEN 1 ELSE 0) + (IF i \in Kept THEN 1 ELSE 0)
           + (IF i \in Shared THEN 1 ELSE 0) + (IF i \in Taken THEN 1 ELSE 0) + (IF i \in Done THEN 1 ELSE 0)
<1>0. OnePlace
  BY DEF PlacesInv
<1>1. Cardinality({e \in m_events : e.impl = i}) = IF i \in Listed THEN 1 ELSE 0
  <2> DEFINE S == {e \in m_events : e.impl = i}
  <2>1. (\A x, y \in S : x = y) /\ (S = {} <=> i \notin Listed)
    BY <1>0 DEF OnePlace, Listed
  <2> HIDE DEF S
  <2>2. Cardinality(S) = IF i \in Listed THEN 1 ELSE 0
    BY <2>1, AtMostOne
  <2> QED
    BY <2>2 DEF S
<1>2. ASSUME NEW s, Distinct(s)
      PROVE  Cardinality({n \in DOMAIN s : s[n].impl = i}) = IF i \in ImplsOf(s) THEN 1 ELSE 0
  <2> DEFINE S == {n \in DOMAIN s : s[n].impl = i}
  <2>1. (\A x, y \in S : x = y) /\ (S = {} <=> i \notin ImplsOf(s))
    BY <1>2 DEF Distinct, ImplsOf
  <2> HIDE DEF S
  <2>2. Cardinality(S) = IF i \in ImplsOf(s) THEN 1 ELSE 0
    BY <2>1, AtMostOne
  <2> QED
    BY <2>2 DEF S
<1>3. Cardinality({n \in DOMAIN invoked : invoked[n] = i}) = IF i \in Done THEN 1 ELSE 0
  <2> DEFINE S == {n \in DOMAIN invoked : invoked[n] = i}
  <2>1. (\A x, y \in S : x = y) /\ (S = {} <=> i \notin Done)
    BY <1>0 DEF OnePlace, Done, ToSet
  <2> HIDE DEF S
  <2>2. Cardinality(S) = IF i \in Done THEN 1 ELSE 0
    BY <2>1, AtMostOne
  <2> QED
    BY <2>2 DEF S
<1>4. Distinct(m_destroyEvents) /\ Distinct(m_eventsWithContext) /\ Distinct(eventsWithContext)
  BY <1>0 DEF OnePlace
<1> QED
  BY <1>1, <1>2, <1>3, <1>4 DEF Occurrences, Kept, Shared, Taken

(* No event is lost and none runs twice, for every number of events and    *)
(* however the unlocked read of the flag, the swap of the two lists and    *)
(* the pushes of other threads interleave, also when uids wrap around:     *)
(* an object is always in one place, and only revoking it takes it away.   *)
THEOREM NoneLostNoneTwice == Spec => []NeitherLostNorDoubled
<1>1. PlacesInv => NeitherLostNorDoubled
  <2> SUFFICES ASSUME PlacesInv, pc # "over", NEW i \in Impl
               PROVE  Occurrences(i) <= 1 /\ (i \notin revoked => Occurrences(i) = 1)
    BY DEF NeitherLostNorDoubled
  <2>1. Occurrences(i) = (IF i \in Listed THEN 1 ELSE 0) + (IF i \in Kept THEN 1 ELSE 0)
           + (IF i \in Shared THEN 1 ELSE 0) + (IF i \in Taken THEN 1 ELSE 0) + (IF i \in Done THEN 1 ELSE 0)
    BY PlacesCounted
  <2>2. OnePlace /\ SomePlace
    BY DEF PlacesInv
  <2> QED
    BY <2>1, <2>2 DEF OnePlace, SomePlace
<1> QED
  BY <1>1, PlacesInit, PlacesNext, PTL DEF Spec

(* Time never goes back: what ProcessOneEvent asserts of the event it      *)
(* takes holds of every event in the list, also of those injected.         *)
THEOREM TimeGoesForward == Spec => []NoEventFromThePast
<1>1. PlacesInv => NoEventFromThePast
  BY DEF PlacesInv
<1> QED
  BY <1>1, PlacesInit, PlacesNext, PTL DEF Spec

-------------------------------------------------------------------------------
(* Uids, and what they tell *)

\* There are fewer events than uids: the counter of 32 bits does not wrap.
NoWrap == MaxEvents + 4 < W

Sized == IsFiniteSet(m_events) /\ m_unscheduledEvents = Cardinality(m_events)
Silent == \A i \in revoked : i \notin Done
UidParts == UidsAscend /\ ClockTells /\ RevokedGone /\ Sized

LEMMA UidInvParts == UidInv <=> (pc # "over" => UidParts) /\ Silent
BY DEF UidInv, UidParts, Sized, Silent, NoEventUncounted, RevokedStaysSilent, Done

LEMMA UidInvPartsNext == UidInv' <=> (pc' # "over" => UidParts') /\ Silent'
BY DEF UidInv, UidParts, Sized, Silent, NoEventUncounted, RevokedStaysSilent, Done

LEMMA Small == ASSUME NEW n \in Nat, n < W PROVE n % W = n
BY SimulatorAssumption

\* The events in the list, and the clock, as numbers
LEMMA KeyTypes ==
  ASSUME TypeOK
  PROVE  /\ \A x \in m_events \cup ids : x.ts \in Nat /\ x.uid \in Nat
         /\ m_currentTs \in Nat /\ m_currentUid \in Nat /\ m_uid \in Nat /\ made \in Nat
         /\ m_unscheduledEvents \in Int
         /\ Len(m_eventsWithContext) \in Nat /\ Len(eventsWithContext) \in Nat
         /\ m_events \subseteq EventId /\ ids \subseteq EventId
<1>1. Uid \subseteq Nat
  BY SimulatorAssumption DEF Uid
<1>2. \A x \in m_events \cup ids : x.ts \in Nat /\ x.uid \in Uid
  BY DEF TypeOK, EventId
<1>3. Len(m_eventsWithContext) \in Nat /\ Len(eventsWithContext) \in Nat
  BY DEF TypeOK
<1>4. made \in Nat /\ m_uid \in Uid /\ m_currentUid \in Uid
  BY SimulatorAssumption DEF TypeOK
<1> QED
  BY <1>1, <1>2, <1>3, <1>4 DEF TypeOK

\* One event more, or one less, in the list
LEMMA SizedMore ==
  ASSUME Sized, NEW e, e \notin m_events, m_events' = m_events \cup {e},
         m_unscheduledEvents' = m_unscheduledEvents + 1
  PROVE  Sized'
BY FS_AddElement DEF Sized

LEMMA SizedLess ==
  ASSUME Sized, NEW e, e \in m_events, m_events' = m_events \ {e},
         m_unscheduledEvents' = m_unscheduledEvents - 1
  PROVE  Sized'
BY FS_RemoveElement DEF Sized

LEMMA IdlesUids ==
  ASSUME UidInv, Idles
  PROVE  UidInv'
<1>1. UidParts /\ Silent
  BY UidInvParts DEF Idles
<1>2. UidParts' /\ Silent'
  BY <1>1 DEF Idles, queue, clock, injection, handles, UidParts, UidsAscend, ClockTells, RevokedGone, Sized,
              Silent, Passed, Listed, Kept, Shared, Taken, Done, Impl
<1> QED
  BY <1>2, UidInvPartsNext

LEMMA SchedulesUids ==
  ASSUME NoWrap, PlacesInv, UidInv, NEW d \in Delay, Schedules(d)
  PROVE  UidInv'
<1> DEFINE e == NewId(d)
<1>0. TypeOK /\ MakeEvent /\ UidsAscend /\ ClockTells /\ RevokedGone /\ Sized /\ Silent
  BY UidInvParts DEF PlacesInv, Schedules, UidParts
<1>1. /\ made' = made + 1 /\ made' <= MaxEvents /\ 1 .. made \subseteq 1 .. made'
      /\ made' \notin Listed \cup revoked \cup m_cancel /\ \A id \in ids : id.impl # made'
  BY <1>0, FreshEvent
<1>2. /\ \A x \in m_events \cup ids : x.ts \in Nat /\ x.uid \in Nat
      /\ m_currentTs \in Nat /\ m_currentUid \in Nat /\ m_uid \in Nat /\ made \in Nat
      /\ Len(m_eventsWithContext) \in Nat /\ Len(eventsWithContext) \in Nat
      /\ MaxEvents \in Nat /\ W \in Nat /\ d \in Nat
  BY <1>0, KeyTypes, SimulatorAssumption
<1>3. m_uid + 1 < W
  BY <1>0, <1>1, <1>2 DEF UidsAscend, NoWrap
<1>4. NextUid = m_uid + 1
  BY <1>2, <1>3, Small DEF NextUid
<1>5. /\ m_events' = m_events \cup {e} /\ (ids' = ids \/ ids' = ids \cup {e})
      /\ m_uid' = m_uid + 1 /\ m_unscheduledEvents' = m_unscheduledEvents + 1
      /\ UNCHANGED <<pc, m_currentTs, m_currentUid, m_destroyEvents, m_eventsWithContext,
                     eventsWithContext, m_cancel, revoked, invoked>>
  BY <1>4 DEF Schedules, clock, injection, control
<1>6. e.impl = made' /\ e.ts = m_currentTs + d /\ e.uid = m_uid
  BY <1>1 DEF NewId
<1> HIDE DEF e
<1>7. e \notin m_events
  BY <1>1, <1>6 DEF Listed
<1>8. ~Passed(e)
  BY <1>0, <1>2, <1>6 DEF Passed, UidsAscend
<1>9. UidsAscend'
  <2>1. m_uid' + Len(m_eventsWithContext') + Len(eventsWithContext') <= 4 + made'
    BY <1>0, <1>1, <1>2, <1>5 DEF UidsAscend
  <2>2. m_uid' >= 4 /\ m_currentUid' < m_uid'
    BY <1>0, <1>2, <1>5 DEF UidsAscend
  <2>3. ASSUME NEW x \in m_events' PROVE 4 <= x.uid /\ x.uid < m_uid' /\ ~Passed(x)'
    BY <1>0, <1>2, <1>5, <1>6, <1>8 DEF UidsAscend, Passed
  <2>4. ASSUME NEW x \in m_events', NEW y \in m_events', x.uid = y.uid PROVE x = y
    BY <1>0, <1>2, <1>5, <1>6, <2>4 DEF UidsAscend
  <2>5. \A n \in DOMAIN m_destroyEvents' : m_destroyEvents'[n].uid = 2
    BY <1>0, <1>5 DEF UidsAscend
  <2> QED
    BY <2>1, <2>2, <2>3, <2>4, <2>5 DEF UidsAscend
<1>10. ClockTells'
  BY <1>0, <1>1, <1>5, <1>6, <1>8 DEF ClockTells, Passed
<1>11. RevokedGone'
  <2>1. Listed' = Listed \cup {made'} /\ UNCHANGED <<Kept, Shared, Taken>> /\ Impl \subseteq Impl'
    BY <1>1, <1>5, <1>6 DEF Listed, Kept, Shared, Taken, Impl
  <2> QED
    BY <1>0, <1>1, <1>5, <2>1 DEF RevokedGone
<1>12. Sized' /\ Silent'
  BY <1>0, <1>5, <1>7, SizedMore DEF Silent, Done
<1> QED
  BY <1>9, <1>10, <1>11, <1>12, UidInvPartsNext DEF UidParts

LEMMA InjectUids ==
  ASSUME PlacesInv, UidInv, NEW d \in Delay, Inject(d)
  PROVE  UidInv'
<1> DEFINE e == [impl |-> made', timestamp |-> d]
<1>0. /\ TypeOK /\ OnePlace /\ MakeEvent /\ UidsAscend /\ ClockTells /\ RevokedGone /\ Sized /\ Silent
  BY UidInvParts DEF PlacesInv, Inject, UidParts
<1>1. /\ made' = made + 1 /\ 1 .. made \subseteq 1 .. made' /\ made' \in 1 .. made'
      /\ m_eventsWithContext \in Seq(Contexts(made'))
      /\ made' \notin Shared \cup revoked
  BY <1>0, FreshEvent
<1>2. e \in Contexts(made') /\ e.impl = made'
  BY <1>1 DEF Contexts
<1>3. /\ m_eventsWithContext' = Append(m_eventsWithContext, e)
      /\ UNCHANGED <<pc, m_currentTs, m_currentUid, m_events, m_uid, m_unscheduledEvents,
                     m_destroyEvents, eventsWithContext, m_cancel, ids, revoked, invoked>>
  BY DEF Inject, PushBack, queue, clock, handles, control
<1> HIDE DEF e
<1>4. Len(m_eventsWithContext') = Len(m_eventsWithContext) + 1 /\ Shared' = Shared \cup {made'}
  <2>1. Distinct(m_eventsWithContext) /\ e.impl \notin ImplsOf(m_eventsWithContext)
    BY <1>0, <1>1, <1>2 DEF OnePlace, Shared
  <2>2. ImplsOf(m_eventsWithContext') = ImplsOf(m_eventsWithContext) \cup {made'}
    BY <1>1, <1>2, <1>3, <2>1, AppendedImpls
  <2> QED
    BY <1>1, <1>2, <1>3, <2>2, Appended DEF Shared
<1>5. UidsAscend'
  <2>1. m_uid' + Len(m_eventsWithContext') + Len(eventsWithContext') <= 4 + made'
    BY <1>0, <1>1, <1>3, <1>4, KeyTypes, SMTT(30) DEF UidsAscend
  <2> QED
    BY <1>0, <1>3, <2>1 DEF UidsAscend, Passed
<1>6. ClockTells' /\ Sized' /\ Silent'
  BY <1>0, <1>3 DEF ClockTells, Passed, Sized, Silent, Done
<1>7. RevokedGone'
  <2>1. UNCHANGED <<Listed, Kept, Taken>> /\ Impl \subseteq Impl'
    BY <1>1, <1>3 DEF Listed, Kept, Taken, Impl
  <2> QED
    BY <1>0, <1>1, <1>3, <1>4, <2>1 DEF RevokedGone
<1> QED
  BY <1>5, <1>6, <1>7, UidInvPartsNext DEF UidParts

LEMMA DestroyLaterUids ==
  ASSUME NoWrap, PlacesInv, UidInv, ScheduleDestroy
  PROVE  UidInv'
<1> DEFINE e == [impl |-> made', ts |-> m_currentTs, uid |-> 2]
<1>0. TypeOK /\ OnePlace /\ MakeEvent /\ UidsAscend /\ ClockTells /\ RevokedGone /\ Sized /\ Silent
  BY UidInvParts DEF PlacesInv, ScheduleDestroy, InProgram, UidParts
<1>1. /\ made' = made + 1 /\ made' <= MaxEvents /\ 1 .. made \subseteq 1 .. made' /\ made' \in 1 .. made'
      /\ m_destroyEvents \in Seq(Ids(made'))
      /\ made' \notin Kept \cup revoked
  BY <1>0, FreshEvent
<1>2. /\ m_currentUid \in Nat /\ m_uid \in Nat /\ made \in Nat
      /\ Len(m_eventsWithContext) \in Nat /\ Len(eventsWithContext) \in Nat
      /\ MaxEvents \in Nat /\ W \in Nat /\ \A x \in m_events : x.uid \in Nat
  BY <1>0, KeyTypes, SimulatorAssumption
<1>3. m_uid + 1 < W
  BY <1>0, <1>1, <1>2 DEF UidsAscend, NoWrap
<1>4. NextUid = m_uid + 1
  BY <1>2, <1>3, Small DEF NextUid
<1>5. /\ m_destroyEvents' = Append(m_destroyEvents, e) /\ ids' = ids \cup {e} /\ m_uid' = m_uid + 1
      /\ UNCHANGED <<pc, m_currentTs, m_currentUid, m_events, m_unscheduledEvents,
                     m_eventsWithContext, eventsWithContext, m_cancel, revoked, invoked>>
  BY <1>4 DEF ScheduleDestroy, clock, control, injection
<1>6. e \in Ids(made') /\ e.impl = made' /\ e.uid = 2
  BY <1>0, <1>1, UidFacts DEF Ids, TypeOK
<1> HIDE DEF e
<1>7. Kept' = Kept \cup {made'} /\ \A n \in DOMAIN m_destroyEvents' : m_destroyEvents'[n].uid = 2
  <2>1. Distinct(m_destroyEvents) /\ e.impl \notin ImplsOf(m_destroyEvents)
    BY <1>0, <1>1, <1>6 DEF OnePlace, Kept
  <2>2. ImplsOf(m_destroyEvents') = ImplsOf(m_destroyEvents) \cup {made'}
    BY <1>1, <1>5, <1>6, <2>1, AppendedImpls
  <2>3. \A n \in 1 .. Len(m_destroyEvents) + 1 :
          m_destroyEvents'[n] = IF n <= Len(m_destroyEvents) THEN m_destroyEvents[n] ELSE e
    BY <1>1, <1>5, <1>6, Appended
  <2>4. /\ DOMAIN m_destroyEvents' = 1 .. Len(m_destroyEvents) + 1
        /\ DOMAIN m_destroyEvents = 1 .. Len(m_destroyEvents) /\ Len(m_destroyEvents) \in Nat
    BY <1>1, <1>5, <1>6
  <2>5. ASSUME NEW n \in 1 .. Len(m_destroyEvents) + 1 PROVE m_destroyEvents'[n].uid = 2
    BY <1>0, <1>6, <2>3, <2>4 DEF UidsAscend
  <2> QED
    BY <2>2, <2>4, <2>5 DEF Kept
<1>8. UidsAscend'
  <2>1. m_uid' + Len(m_eventsWithContext') + Len(eventsWithContext') <= 4 + made'
    BY <1>0, <1>1, <1>2, <1>5 DEF UidsAscend
  <2>2. m_uid' >= 4 /\ m_currentUid' < m_uid'
    BY <1>0, <1>2, <1>5 DEF UidsAscend
  <2>3. ASSUME NEW x \in m_events' PROVE 4 <= x.uid /\ x.uid < m_uid' /\ ~Passed(x)'
    BY <1>0, <1>2, <1>5 DEF UidsAscend, Passed
  <2> QED
    BY <1>0, <1>5, <1>7, <2>1, <2>2, <2>3 DEF UidsAscend
<1>9. ClockTells' /\ Sized' /\ Silent'
  BY <1>0, <1>5, <1>6 DEF ClockTells, Passed, Sized, Silent, Done
<1>10. RevokedGone'
  <2>1. UNCHANGED <<Listed, Shared, Taken>> /\ Impl \subseteq Impl'
    BY <1>1, <1>5 DEF Listed, Shared, Taken, Impl
  <2> QED
    BY <1>0, <1>1, <1>5, <1>7, <2>1 DEF RevokedGone
<1> QED
  BY <1>8, <1>9, <1>10, UidInvPartsNext DEF UidParts

\* The uids tell destroy events from scheduled ones.
LEMMA UidKinds ==
  ASSUME TypeOK, UidsAscend, NEW id
  PROVE  /\ id \in m_events => id.uid # 2 /\ id.impl \in Listed
         /\ id \in ToSet(m_destroyEvents) => id.uid = 2 /\ id.impl \in Kept
<1>1. id \in m_events => id.uid # 2 /\ id.impl \in Listed
  BY KeyTypes DEF UidsAscend, Listed
<1>2. id \in ToSet(m_destroyEvents) => id.uid = 2 /\ id.impl \in Kept
  BY DEF UidsAscend, Kept, ImplsOf, ToSet
<1> QED
  BY <1>1, <1>2

\* IsExpired tells whether an event is still to come.
LEMMA ExpiryNow ==
  ASSUME TypeOK, UidsAscend, ClockTells, NEW id \in ids
  PROVE  IsExpired(id) <=> ~Pending(id)
<1>1. /\ id \in m_events => id.uid # 2
      /\ id \in ToSet(m_destroyEvents) => id.uid = 2
  BY UidKinds
<1> QED
  BY <1>1 DEF IsExpired, Pending, ClockTells

LEMMA CancelUids ==
  ASSUME PlacesInv, UidInv, NEW id \in ids, Cancel(id)
  PROVE  UidInv'
<1>0. TypeOK /\ OnePlace /\ UidsAscend /\ ClockTells /\ RevokedGone /\ Sized /\ Silent
  BY UidInvParts DEF PlacesInv, Cancel, InProgram, UidParts
<1>1. /\ m_cancel' = m_cancel \cup (IF IsExpired(id) THEN {} ELSE {id.impl})
      /\ revoked' = revoked \cup (IF Pending(id) THEN {id.impl} ELSE {})
      /\ UNCHANGED <<pc, m_currentTs, m_currentUid, m_events, m_uid, m_unscheduledEvents,
                     m_destroyEvents, m_eventsWithContext, eventsWithContext, ids, made, invoked>>
  BY DEF Cancel, Revoke, queue, clock, control, injection
<1>2. IsExpired(id) <=> ~Pending(id)
  BY <1>0, ExpiryNow
<1>3. Pending(id) => id.impl \notin Done
  <2>1. Pending(id) => id.impl \in Listed \cup Kept
    BY <1>0, UidKinds DEF Pending
  <2> QED
    BY <1>0, <2>1 DEF OnePlace
<1>4. UidsAscend' /\ Sized'
  BY <1>0, <1>1 DEF UidsAscend, Passed, Sized
<1>5. ClockTells'
  BY <1>0, <1>1 DEF ClockTells, Passed
<1>6. UNCHANGED <<Listed, Kept, Shared, Taken, Done, Impl>>
  BY <1>1 DEF Listed, Kept, Shared, Taken, Done, Impl
<1>7. RevokedGone'
  BY <1>0, <1>1, <1>2, <1>6 DEF RevokedGone
<1>8. Silent'
  BY <1>0, <1>1, <1>3, <1>6 DEF Silent
<1> QED
  BY <1>4, <1>5, <1>7, <1>8, UidInvPartsNext DEF UidParts

LEMMA RemoveDestroyUids ==
  ASSUME PlacesInv, UidInv, NEW id \in ids, RemoveEvent(id), RemoveDestroy(id)
  PROVE  UidInv'
<1>0. TypeOK /\ OnePlace /\ HandlesFit /\ UidsAscend /\ ClockTells /\ RevokedGone /\ Sized /\ Silent
  BY UidInvParts DEF PlacesInv, RemoveEvent, InProgram, UidParts
<1>1. /\ revoked' = revoked \cup (IF Pending(id) THEN {id.impl} ELSE {}) /\ id.uid = 2
      /\ UNCHANGED <<pc, m_currentTs, m_currentUid, m_uid, m_events, m_unscheduledEvents,
                     m_eventsWithContext, eventsWithContext, m_cancel, ids, made, invoked>>
  BY DEF RemoveEvent, RemoveDestroy, Revoke, clock, control, injection
<1>2. /\ m_destroyEvents' \in Seq(EventId)
      /\ ToSet(m_destroyEvents') \subseteq ToSet(m_destroyEvents)
      /\ Kept' = Kept \ {id.impl}
  BY RemoveDestroyFacts
<1>3. Pending(id) => id.impl \in Kept /\ id.impl \in Impl
  <2>1. id.impl \in Impl
    BY <1>0 DEF TypeOK, EventId
  <2> QED
    BY <1>0, <1>1, <2>1, UidKinds DEF Pending
<1>4. UNCHANGED <<Listed, Shared, Taken, Done, Impl>>
  BY <1>1 DEF Listed, Shared, Taken, Done, Impl
<1>5. UidsAscend' /\ Sized'
  <2>1. ASSUME NEW n \in DOMAIN m_destroyEvents' PROVE m_destroyEvents'[n].uid = 2
    <3>1. m_destroyEvents'[n] \in ToSet(m_destroyEvents)
      BY <1>2 DEF ToSet
    <3> QED
      BY <1>0, <3>1, UidKinds
  <2> QED
    BY <1>0, <1>1, <2>1 DEF UidsAscend, Passed, Sized
<1>6. ClockTells'
  BY <1>0, <1>1 DEF ClockTells, Passed
<1>7. RevokedGone'
  <2>1. Pending(id) => id.impl \notin Listed' \cup Kept' \cup Shared' \cup Taken'
    BY <1>0, <1>2, <1>3, <1>4 DEF OnePlace
  <2> QED
    BY <1>0, <1>1, <1>2, <1>3, <1>4, <2>1 DEF RevokedGone
<1>8. Silent'
  BY <1>0, <1>1, <1>3, <1>4 DEF Silent, OnePlace
<1> QED
  BY <1>5, <1>6, <1>7, <1>8, UidInvPartsNext DEF UidParts

LEMMA RemoveScheduledUids ==
  ASSUME PlacesInv, UidInv, NEW id \in ids, RemoveEvent(id), RemoveScheduled(id)
  PROVE  UidInv'
<1>0. TypeOK /\ OnePlace /\ HandlesFit /\ UidsAscend /\ ClockTells /\ RevokedGone /\ Sized /\ Silent
  BY UidInvParts DEF PlacesInv, RemoveEvent, InProgram, UidParts
<1>1. /\ m_events' = m_events \ {id} /\ m_unscheduledEvents' = m_unscheduledEvents - 1
      /\ m_cancel' = m_cancel \cup {id.impl} /\ id.uid # 2 /\ ~IsExpired(id)
      /\ revoked' = revoked \cup (IF Pending(id) THEN {id.impl} ELSE {})
      /\ UNCHANGED <<pc, m_currentTs, m_currentUid, m_uid, m_destroyEvents, m_eventsWithContext,
                     eventsWithContext, ids, made, invoked>>
  BY DEF RemoveEvent, RemoveScheduled, Removable, Revoke, clock, control, injection
<1>2. id \in m_events /\ id.impl \in Listed
  BY <1>0, <1>1, UidKinds, ExpiryNow DEF Pending
<1>3. Listed' \subseteq Listed /\ UNCHANGED <<Kept, Shared, Taken, Done, Impl>>
  BY <1>1 DEF Listed, Kept, Shared, Taken, Done, Impl
<1>4. UidsAscend'
  BY <1>0, <1>1 DEF UidsAscend, Passed
<1>5. Sized'
  BY <1>0, <1>1, <1>2, SizedLess
<1>6. ClockTells'
  BY <1>0, <1>1 DEF ClockTells, Passed
<1>7. RevokedGone'
  BY <1>0, <1>1, <1>3 DEF RevokedGone
<1>8. Silent'
  BY <1>0, <1>1, <1>2, <1>3 DEF Silent, OnePlace
<1> QED
  BY <1>4, <1>5, <1>6, <1>7, <1>8, UidInvPartsNext DEF UidParts

LEMMA SwapUids ==
  ASSUME PlacesInv, UidInv, SwapLists
  PROVE  UidInv'
<1>0. TypeOK /\ UidsAscend /\ ClockTells /\ RevokedGone /\ Sized /\ Silent
  BY UidInvParts DEF PlacesInv, SwapLists, Goto, UidParts
<1>1. /\ eventsWithContext' = m_eventsWithContext /\ m_eventsWithContext' = eventsWithContext
      /\ UNCHANGED <<m_currentTs, m_currentUid, m_uid, m_events, m_unscheduledEvents,
                     m_destroyEvents, m_cancel, ids, revoked, made, invoked>>
  BY DEF SwapLists, LeftBySwap, Goto, queue, clock, handles
<1>2. UidsAscend'
  <2>1. m_uid' + Len(m_eventsWithContext') + Len(eventsWithContext') <= 4 + made'
    BY <1>0, <1>1, KeyTypes DEF UidsAscend
  <2> QED
    BY <1>0, <1>1, <2>1 DEF UidsAscend, Passed
<1>3. ClockTells' /\ Sized' /\ Silent'
  BY <1>0, <1>1 DEF ClockTells, Passed, Sized, Silent, Done
<1>4. RevokedGone'
  <2>1. UNCHANGED <<Listed, Kept, Impl>> /\ Shared' = Taken /\ Taken' = Shared
    BY <1>1 DEF Listed, Kept, Shared, Taken, Impl
  <2> QED
    BY <1>0, <1>1, <2>1 DEF RevokedGone
<1> QED
  BY <1>2, <1>3, <1>4, UidInvPartsNext DEF UidParts

\* The uid of an event that is taken over
LEMMA TakenUid ==
  ASSUME NoWrap, PlacesInv, UidInv, InsertInjected
  PROVE  /\ m_uid' = m_uid + 1 /\ TakenId.uid = m_uid
         /\ TakenId.ts = m_currentTs + Head(eventsWithContext).timestamp
         /\ Head(eventsWithContext).timestamp \in Nat
         /\ Len(eventsWithContext') = Len(eventsWithContext) - 1 /\ Len(eventsWithContext) >= 1
<1>0. TypeOK /\ UidsAscend
  BY UidInvParts DEF PlacesInv, InsertInjected, UidParts
<1>1. /\ eventsWithContext # << >> /\ eventsWithContext' = Tail(eventsWithContext) /\ m_uid' = NextUid
      /\ Head(eventsWithContext) \in EventWithContext
  BY <1>0, InsertInjectedFacts
<1>2. eventsWithContext \in Seq(EventWithContext) /\ made <= MaxEvents
  BY <1>0, SimulatorAssumption DEF TypeOK
<1>3. Len(eventsWithContext') = Len(eventsWithContext) - 1 /\ Len(eventsWithContext) >= 1
  BY <1>1, <1>2, Behead
<1>4. /\ m_uid \in Nat /\ made \in Nat /\ Len(m_eventsWithContext) \in Nat /\ Len(eventsWithContext) \in Nat
      /\ MaxEvents \in Nat /\ W \in Nat
  BY <1>0, KeyTypes, SimulatorAssumption
<1>5. m_uid + 1 < W
  BY <1>0, <1>2, <1>3, <1>4 DEF UidsAscend, NoWrap
<1>6. NextUid = m_uid + 1
  BY <1>4, <1>5, Small DEF NextUid
<1>7. Head(eventsWithContext).timestamp \in Nat
  BY <1>1, SimulatorAssumption DEF EventWithContext
<1> QED
  BY <1>1, <1>3, <1>6, <1>7 DEF TakenId

LEMMA InsertInjectedUids ==
  ASSUME NoWrap, PlacesInv, UidInv, InsertInjected
  PROVE  UidInv'
<1> DEFINE e == TakenId
<1>0. TypeOK /\ OnePlace /\ HandlesFit /\ UidsAscend /\ ClockTells /\ RevokedGone /\ Sized /\ Silent
  BY UidInvParts DEF PlacesInv, InsertInjected, UidParts
<1>1. /\ eventsWithContext # << >> /\ eventsWithContext' = Tail(eventsWithContext)
      /\ m_events' = m_events \cup {e}
      /\ m_unscheduledEvents' = m_unscheduledEvents + 1
      /\ UNCHANGED <<pc, m_currentTs, m_currentUid, m_destroyEvents, m_eventsWithContext,
                     m_cancel, ids, revoked, made, invoked>>
      /\ e \in EventId /\ e.impl = Head(eventsWithContext).impl
  BY <1>0, InsertInjectedFacts
<1>2. /\ m_uid' = m_uid + 1 /\ e.uid = m_uid /\ e.ts >= m_currentTs /\ e.ts \in Nat
      /\ Len(eventsWithContext') = Len(eventsWithContext) - 1
  BY <1>0, TakenUid, KeyTypes
<1>3. /\ \A x \in m_events \cup ids : x.ts \in Nat /\ x.uid \in Nat
      /\ m_currentTs \in Nat /\ m_currentUid \in Nat /\ m_uid \in Nat /\ made \in Nat
      /\ Len(m_eventsWithContext) \in Nat /\ Len(eventsWithContext) \in Nat
  BY <1>0, KeyTypes
<1> HIDE DEF e
<1>4. /\ UNCHANGED <<Kept, Shared, Done, Impl>>
      /\ Listed' = Listed \cup {e.impl} /\ Taken' = Taken \ {e.impl} /\ e.impl \in Taken
  <2>1. eventsWithContext \in Seq(EventWithContext) /\ Distinct(eventsWithContext)
    BY <1>0 DEF TypeOK, OnePlace
  <2>2. /\ ImplsOf(eventsWithContext') = ImplsOf(eventsWithContext) \ {e.impl}
        /\ e.impl \in ImplsOf(eventsWithContext)
    BY <1>1, <2>1, BeheadImpls
  <2> QED
    BY <1>1, <2>2 DEF Listed, Kept, Shared, Taken, Done, Impl
<1>5. e \notin m_events /\ \A id \in ids : id.impl # e.impl
  BY <1>0, <1>4 DEF OnePlace, Listed, HandlesFit
<1>6. ~Passed(e)
  BY <1>0, <1>2, <1>3 DEF Passed, UidsAscend
<1>7. UidsAscend'
  <2>1. m_uid' + Len(m_eventsWithContext') + Len(eventsWithContext') <= 4 + made'
    BY <1>0, <1>1, <1>2, <1>3 DEF UidsAscend
  <2>2. m_uid' >= 4 /\ m_currentUid' < m_uid'
    BY <1>0, <1>1, <1>2, <1>3 DEF UidsAscend
  <2>3. ASSUME NEW x \in m_events' PROVE 4 <= x.uid /\ x.uid < m_uid' /\ ~Passed(x)'
    BY <1>0, <1>1, <1>2, <1>3, <1>6 DEF UidsAscend, Passed
  <2>4. ASSUME NEW x \in m_events', NEW y \in m_events', x.uid = y.uid PROVE x = y
    BY <1>0, <1>1, <1>2, <1>3, <2>4 DEF UidsAscend
  <2>5. \A n \in DOMAIN m_destroyEvents' : m_destroyEvents'[n].uid = 2
    BY <1>0, <1>1 DEF UidsAscend
  <2> QED
    BY <2>1, <2>2, <2>3, <2>4, <2>5 DEF UidsAscend
<1>8. ClockTells'
  BY <1>0, <1>1, <1>5 DEF ClockTells, Passed
<1>9. RevokedGone'
  BY <1>0, <1>1, <1>4 DEF RevokedGone
<1>10. Sized' /\ Silent'
  BY <1>0, <1>1, <1>4, <1>5, SizedMore DEF Silent
<1> QED
  BY <1>7, <1>8, <1>9, <1>10, UidInvPartsNext DEF UidParts

LEMMA ProcessUids ==
  ASSUME PlacesInv, UidInv, NEW e, Processes(e)
  PROVE  UidInv'
<1>0. TypeOK /\ OnePlace /\ HandlesFit /\ UidsAscend /\ ClockTells /\ RevokedGone /\ Sized /\ Silent
  BY UidInvParts DEF PlacesInv, Processes, UidParts
<1>1. /\ e \in m_events /\ e.impl \in Impl /\ e.impl \in Listed
      /\ \A f \in m_events \ {e} : ~Earlier(f, e)
      /\ m_events' = m_events \ {e} /\ m_currentTs' = e.ts /\ m_currentUid' = e.uid
      /\ Invoke(e.impl, "event", "check")
      /\ m_unscheduledEvents' = m_unscheduledEvents - 1
      /\ UNCHANGED <<m_uid, m_destroyEvents, m_eventsWithContext, eventsWithContext,
                     m_cancel, ids, revoked, made>>
  BY <1>0 DEF Processes, TypeOK, EventId, Listed
<1>2. /\ \A x \in m_events \cup ids : x.ts \in Nat /\ x.uid \in Nat
      /\ m_currentTs \in Nat /\ m_currentUid \in Nat /\ m_uid \in Nat
  BY <1>0, KeyTypes
<1>3. e.impl \notin Done /\ Once(invoked)
  BY <1>0, <1>1 DEF OnePlace, Once
<1>4. /\ e.impl \notin m_cancel => Done' = Done \cup {e.impl}
      /\ e.impl \in m_cancel => Done' = Done
  BY <1>0, <1>1, <1>3, InvokeFacts
<1>5. ASSUME NEW f \in m_events' PROVE ~Passed(f)'
  <2>1. f \in m_events /\ f.uid # e.uid /\ ~Earlier(f, e) /\ f.ts \in Nat /\ f.uid \in Nat /\ e.ts \in Nat /\ e.uid \in Nat
    BY <1>0, <1>1, <1>2 DEF UidsAscend
  <2> QED
    BY <1>1, <2>1 DEF Passed, Earlier
<1>6. ASSUME NEW id \in ids, Passed(id) \/ id = e PROVE Passed(id)'
  <2>1. ~Passed(e) /\ id.ts \in Nat /\ id.uid \in Nat /\ e.ts \in Nat /\ e.uid \in Nat
    BY <1>0, <1>1, <1>2 DEF UidsAscend
  <2> QED
    BY <1>1, <1>2, <1>6, <2>1 DEF Passed
<1>7. UidsAscend'
  <2>1. m_currentUid' < m_uid'
    BY <1>0, <1>1 DEF UidsAscend
  <2> QED
    BY <1>0, <1>1, <1>5, <2>1 DEF UidsAscend
<1>8. ClockTells'
  <2> SUFFICES ASSUME NEW id \in ids, id.uid # 2, id.impl \notin m_cancel
               PROVE  id \in m_events' <=> ~Passed(id)'
    BY <1>1 DEF ClockTells
  <2>1. id \in m_events <=> ~Passed(id)
    BY <1>0 DEF ClockTells
  <2> QED
    BY <1>1, <1>5, <1>6, <2>1
<1>9. Listed' \subseteq Listed /\ UNCHANGED <<Kept, Shared, Taken, Impl>>
  BY <1>1 DEF Listed, Kept, Shared, Taken, Impl
<1>10. RevokedGone' /\ Sized'
  BY <1>0, <1>1, <1>9, SizedLess DEF RevokedGone
<1>11. Silent'
  <2>1. e.impl \notin m_cancel => e.impl \notin revoked
    BY <1>0, <1>1 DEF RevokedGone
  <2> QED
    BY <1>0, <1>1, <1>4, <2>1 DEF Silent
<1> QED
  BY <1>7, <1>8, <1>10, <1>11, UidInvPartsNext DEF UidParts

LEMMA DestroyOneUids ==
  ASSUME PlacesInv, UidInv, DestroyOneEvent
  PROVE  UidInv'
<1> DEFINE e == Head(m_destroyEvents)
<1>0. TypeOK /\ UidsAscend /\ ClockTells /\ RevokedGone /\ Sized /\ Silent
  BY UidInvParts DEF PlacesInv, DestroyOneEvent, UidParts
<1>1. /\ e.impl \in Kept /\ Kept' = Kept \ {e.impl}
      /\ ToSet(m_destroyEvents') \subseteq ToSet(m_destroyEvents)
      /\ e.impl \notin m_cancel => Done' = Done \cup {e.impl}
      /\ e.impl \in m_cancel => Done' = Done
      /\ UNCHANGED <<m_events, m_uid, m_unscheduledEvents, m_currentTs, m_currentUid, m_eventsWithContext,
                     eventsWithContext, m_cancel, ids, revoked, made>>
  BY DestroyOneFacts
<1> HIDE DEF e
<1>2. UNCHANGED <<Listed, Shared, Taken, Impl>>
  BY <1>1 DEF Listed, Shared, Taken, Impl
<1>3. UidsAscend'
  <2>1. ASSUME NEW n \in DOMAIN m_destroyEvents' PROVE m_destroyEvents'[n].uid = 2
    <3>1. m_destroyEvents'[n] \in ToSet(m_destroyEvents)
      BY <1>1 DEF ToSet
    <3> QED
      BY <1>0, <3>1, UidKinds
  <2> QED
    BY <1>0, <1>1, <2>1 DEF UidsAscend, Passed
<1>4. ClockTells' /\ Sized'
  BY <1>0, <1>1 DEF ClockTells, Passed, Sized
<1>5. RevokedGone'
  BY <1>0, <1>1, <1>2 DEF RevokedGone
<1>6. Silent'
  <2>1. e.impl \notin m_cancel => e.impl \notin revoked
    BY <1>0, <1>1 DEF RevokedGone
  <2> QED
    BY <1>0, <1>1, <2>1 DEF Silent
<1> QED
  BY <1>3, <1>4, <1>5, <1>6, UidInvPartsNext DEF UidParts

LEMMA UidNext ==
  ASSUME NoWrap
  PROVE  PlacesInv /\ UidInv /\ [Next]_vars => UidInv'
<1> SUFFICES ASSUME PlacesInv, UidInv, [Next]_vars PROVE UidInv'
  OBVIOUS
<1>1. Step
  BY StepKinds DEF PlacesInv
<1>2. DoDispose => UidInv'
  BY UidInvParts, UidInvPartsNext DEF DoDispose, handles, Silent, Done
<1>3. ASSUME UNCHANGED vars PROVE UidInv'
  BY <1>3 DEF vars, queue, clock, injection, control, handles, UidInv, UidsAscend, ClockTells, RevokedGone,
              NoEventUncounted, RevokedStaysSilent, Passed, Listed, Kept, Shared, Taken, Impl
<1> QED
  BY <1>1, <1>2, <1>3, IdlesUids, SchedulesUids, InjectUids, DestroyLaterUids, CancelUids,
     RemoveDestroyUids, RemoveScheduledUids, SwapUids, InsertInjectedUids, ProcessUids,
     DestroyOneUids DEF Step

LEMMA UidInit == Init => UidInv
<1> SUFFICES ASSUME Init PROVE UidInv
  OBVIOUS
<1>1. UidsAscend
  BY DEF Init, UidsAscend
<1>2. ClockTells /\ RevokedGone
  BY DEF Init, ClockTells, RevokedGone
<1>3. Sized
  BY FS_EmptySet DEF Init, Sized
<1>4. Silent
  BY DEF Init, Silent
<1> QED
  BY <1>1, <1>2, <1>3, <1>4, UidInvParts DEF UidParts

(* IsExpired, which compares the clock and uids only, tells exactly the    *)
(* events still to come, as long as uids do not wrap around: the uid of an *)
(* event is larger than those of all that ran at the same time before it.  *)
THEOREM ExpiryExact ==
  ASSUME NoWrap
  PROVE  Spec => []ExpiryIsExact
<1>1. PlacesInv /\ UidInv => ExpiryIsExact
  BY UidInvParts, ExpiryNow DEF ExpiryIsExact, PlacesInv, UidParts
<1> QED
  BY <1>1, PlacesInit, PlacesNext, UidInit, UidNext, PTL DEF Spec

(* The counter of unscheduled events is the size of the list, whatever the *)
(* program cancelled or removed and other threads injected, as long as     *)
(* uids do not wrap around.                                                *)
THEOREM CounterIsSize ==
  ASSUME NoWrap
  PROVE  Spec => []NoEventUncounted
<1>1. UidInv => NoEventUncounted
  BY DEF UidInv, NoEventUncounted
<1> QED
  BY <1>1, PlacesInit, PlacesNext, UidInit, UidNext, PTL DEF Spec

(* A cancelled or removed event is never notified, as long as uids do not  *)
(* wrap around: a scheduled event with uid 2 would be taken for one that   *)
(* Destroy runs, and Remove would leave it in the list.                    *)
THEOREM RevokedNeverRun ==
  ASSUME NoWrap
  PROVE  Spec => []RevokedStaysSilent
<1>1. UidInv => RevokedStaysSilent
  BY DEF UidInv
<1> QED
  BY <1>1, PlacesInit, PlacesNext, UidInit, UidNext, PTL DEF Spec

-------------------------------------------------------------------------------
(* The order of the injected events *)

LEMMA OrderInvParts ==
  OrderInv <=> (pc # "over" => InjectedInOrder /\ ListedInOrder) /\ Once(invoked) /\ InvokedInOrder
BY DEF OrderInv, Once

LEMMA OrderInvPartsNext ==
  OrderInv' <=> (pc' # "over" => InjectedInOrder' /\ ListedInOrder') /\ Once(invoked') /\ InvokedInOrder'
BY DEF OrderInv, Once

\* Where the injected events are: those not yet inserted are in one of the lists.
LEMMA InjectedPlaces ==
  ASSUME PlacesInv, InjectedInOrder
  PROVE  /\ injected \in Seq(EventWithContext) /\ DOMAIN injected = 1 .. Len(injected)
         /\ Len(injected) \in Nat /\ Len(eventsWithContext) \in Nat /\ Len(m_eventsWithContext) \in Nat
         /\ Inserted \in Nat /\ Inserted <= Len(injected)
         /\ \A n \in DOMAIN injected : injected[n].timestamp \in Nat
         /\ \A n \in DOMAIN injected : n > Inserted => injected[n].impl \in Shared \cup Taken
<1>1. /\ injected \in Seq(EventWithContext) /\ eventsWithContext \in Seq(EventWithContext)
      /\ m_eventsWithContext \in Seq(EventWithContext)
  BY DEF PlacesInv, TypeOK
<1>2. /\ DOMAIN injected = 1 .. Len(injected) /\ Len(injected) \in Nat
      /\ DOMAIN eventsWithContext = 1 .. Len(eventsWithContext) /\ Len(eventsWithContext) \in Nat
      /\ DOMAIN m_eventsWithContext = 1 .. Len(m_eventsWithContext) /\ Len(m_eventsWithContext) \in Nat
  BY <1>1
<1>3. Inserted \in Nat /\ Inserted <= Len(injected)
  BY <1>2 DEF InjectedInOrder, Inserted
<1>4. \A n \in DOMAIN injected : injected[n].timestamp \in Nat
  <2>1. \A n \in DOMAIN injected : injected[n] \in EventWithContext
    BY <1>1, Members
  <2> QED
    BY <2>1, SimulatorAssumption DEF EventWithContext
<1>5. ASSUME NEW n \in DOMAIN injected, n > Inserted PROVE injected[n].impl \in Shared \cup Taken
  <2>1. CASE n <= Inserted + Len(eventsWithContext)
    <3>1. n - Inserted \in DOMAIN eventsWithContext /\ Inserted + (n - Inserted) = n
      BY <1>2, <1>3, <1>5, <2>1
    <3>2. injected[n] = eventsWithContext[n - Inserted]
      BY <3>1 DEF InjectedInOrder
    <3> QED
      BY <3>1, <3>2 DEF Taken, ImplsOf
  <2>2. CASE n > Inserted + Len(eventsWithContext)
    <3> DEFINE k == n - Inserted - Len(eventsWithContext)
    <3>1. k \in DOMAIN m_eventsWithContext /\ Inserted + Len(eventsWithContext) + k = n
      BY <1>2, <1>3, <2>2 DEF Inserted
    <3> HIDE DEF k
    <3>2. injected[n] = m_eventsWithContext[k]
      BY <3>1 DEF InjectedInOrder
    <3> QED
      BY <3>1, <3>2 DEF Shared, ImplsOf
  <2> QED
    BY <1>2, <1>3, <2>1, <2>2
<1> QED
  BY <1>1, <1>2, <1>3, <1>4, <1>5

\* Nothing happens to the injected events.
Quiet ==
  /\ pc # "over"
  /\ eventsWithContext # << >> /\ pc = "insert" => pc' = "insert"
  /\ UNCHANGED <<m_currentTs, m_eventsWithContext, eventsWithContext, invoked, injected>>
  /\ \A n \in DOMAIN injected : \A e \in m_events : e.impl = injected[n].impl => e \in m_events'
  /\ \A n \in DOMAIN injected : \A e \in m_events' : e.impl = injected[n].impl => e \in m_events

LEMMA QuietOrder ==
  ASSUME PlacesInv, OrderInv, Quiet
  PROVE  OrderInv'
<1>0. InjectedInOrder /\ ListedInOrder /\ Once(invoked) /\ InvokedInOrder
  BY OrderInvParts DEF Quiet
<1>1. UNCHANGED <<m_currentTs, m_eventsWithContext, eventsWithContext, invoked, injected, Inserted, Done>>
  BY DEF Quiet, Inserted, Done
<1>2. 1 .. Inserted \subseteq DOMAIN injected
  BY <1>0, InjectedPlaces
<1>3. InjectedInOrder'
  BY <1>0, <1>1 DEF InjectedInOrder, Quiet
<1>4. ListedInOrder'
  <2>1. ASSUME NEW n \in 1 .. Inserted PROVE injected[n].impl \in Listed' \cup Done
    BY <1>0, <1>2, <2>1 DEF ListedInOrder, Quiet, Listed
  <2>2. ASSUME NEW n \in 1 .. Inserted, NEW e \in m_events', e.impl = injected[n].impl
        PROVE  e \in m_events
    BY <1>2, <2>2 DEF Quiet
  <2>3. \A n \in 1 .. Inserted : \A e \in m_events' :
          e.impl = injected[n].impl => e.ts <= m_currentTs + injected[n].timestamp
    BY <1>0, <2>2 DEF ListedInOrder
  <2>4. ASSUME NEW m \in 1 .. Inserted, NEW n \in 1 .. Inserted, NEW e \in m_events', NEW f \in m_events',
               m < n, injected[m].timestamp <= injected[n].timestamp,
               e.impl = injected[m].impl, f.impl = injected[n].impl
        PROVE  Earlier(e, f)
    <3>1. e \in m_events /\ f \in m_events
      BY <2>2, <2>4
    <3> QED
      BY <1>0, <2>4, <3>1 DEF ListedInOrder
  <2> QED
    BY <1>1, <2>1, <2>3, <2>4 DEF ListedInOrder
<1>5. Once(invoked') /\ InvokedInOrder'
  BY <1>0, <1>1 DEF InvokedInOrder
<1> QED
  BY <1>3, <1>4, <1>5, OrderInvPartsNext

\* What the program does on the main thread leaves the injected events alone.
LEMMA ProgramIsQuiet ==
  ASSUME PlacesInv,
         \/ Idles
         \/ \E d \in Delay : Schedules(d)
         \/ ScheduleDestroy
         \/ \E id \in ids : \/ Cancel(id)
                            \/ RemoveEvent(id) /\ RemoveDestroy(id)
                            \/ RemoveEvent(id) /\ RemoveScheduled(id)
  PROVE  Quiet
<1>1. CASE Idles
  BY <1>1 DEF Idles, Quiet, queue, clock, injection
<1>2. ASSUME NEW d \in Delay, Schedules(d) PROVE Quiet
  <2>1. \A n \in DOMAIN injected : injected[n].impl # NewId(d).impl
    <3>1. TypeOK /\ MakeEvent
      BY <1>2 DEF PlacesInv, Schedules
    <3>2. made' = made + 1 /\ \A n \in DOMAIN injected : injected[n].impl # made'
      BY <3>1, FreshEvent
    <3> QED
      BY <3>2 DEF NewId
  <2>2. /\ pc # "over" /\ m_events' = m_events \cup {NewId(d)} /\ pc' = pc
        /\ UNCHANGED <<m_currentTs, m_eventsWithContext, eventsWithContext, invoked, injected>>
    BY <1>2 DEF Schedules, clock, injection, control
  <2> QED
    BY <2>1, <2>2 DEF Quiet
<1>3. CASE ScheduleDestroy
  BY <1>3 DEF ScheduleDestroy, Quiet, clock, injection, control, InProgram
<1>4. ASSUME NEW id \in ids, Cancel(id) PROVE Quiet
  BY <1>4 DEF Cancel, Quiet, queue, clock, injection, control, InProgram
<1>5. ASSUME NEW id \in ids, RemoveEvent(id), RemoveDestroy(id) PROVE Quiet
  BY <1>5 DEF RemoveEvent, RemoveDestroy, Quiet, clock, injection, control, InProgram
<1>6. ASSUME NEW id \in ids, RemoveEvent(id), RemoveScheduled(id) PROVE Quiet
  <2>1. \A n \in DOMAIN injected : injected[n].impl # id.impl
    BY <1>6 DEF PlacesInv, HandlesFit, RemoveEvent, InProgram
  <2>2. /\ pc # "over" /\ m_events' = m_events \ {id} /\ pc' = pc
        /\ UNCHANGED <<m_currentTs, m_eventsWithContext, eventsWithContext, invoked, injected>>
    BY <1>6 DEF RemoveEvent, RemoveScheduled, clock, injection, control, InProgram
  <2> QED
    BY <2>1, <2>2 DEF Quiet
<1> QED
  BY <1>1, <1>2, <1>3, <1>4, <1>5, <1>6

LEMMA InjectOrder ==
  ASSUME PlacesInv, OrderInv, NEW d \in Delay, Inject(d)
  PROVE  OrderInv'
<1> DEFINE e == [impl |-> made', timestamp |-> d]
<1>0. TypeOK /\ MakeEvent /\ InjectedInOrder /\ ListedInOrder /\ Once(invoked) /\ InvokedInOrder
  BY OrderInvParts DEF PlacesInv, Inject
<1>1. /\ made' \notin Listed \cup Done
      /\ injected \in Seq(Contexts(made')) /\ m_eventsWithContext \in Seq(Contexts(made'))
      /\ e \in Contexts(made') /\ e.impl = made'
  <2>1. /\ made' \notin Listed \cup Done /\ made' \in 1 .. made'
        /\ injected \in Seq(Contexts(made')) /\ m_eventsWithContext \in Seq(Contexts(made'))
    BY <1>0, FreshEvent
  <2> QED
    BY <2>1 DEF Contexts
<1>2. /\ m_eventsWithContext' = Append(m_eventsWithContext, e) /\ injected' = Append(injected, e)
      /\ UNCHANGED <<pc, m_currentTs, m_events, eventsWithContext, invoked>>
  BY DEF Inject, PushBack, queue, clock, control
<1> HIDE DEF e
<1>3. /\ Len(injected') = Len(injected) + 1 /\ Len(m_eventsWithContext') = Len(m_eventsWithContext) + 1
      /\ \A n \in 1 .. Len(injected) : injected'[n] = injected[n]
      /\ \A n \in 1 .. Len(m_eventsWithContext) : m_eventsWithContext'[n] = m_eventsWithContext[n]
      /\ injected'[Len(injected) + 1] = e
      /\ m_eventsWithContext'[Len(m_eventsWithContext) + 1] = e
      /\ DOMAIN injected' = 1 .. Len(injected) + 1 /\ DOMAIN injected = 1 .. Len(injected)
      /\ DOMAIN m_eventsWithContext' = 1 .. Len(m_eventsWithContext) + 1
      /\ DOMAIN m_eventsWithContext = 1 .. Len(m_eventsWithContext)
  <2>1. /\ Append(injected, e) \in Seq(Contexts(made')) /\ Len(Append(injected, e)) = Len(injected) + 1
        /\ \A n \in 1 .. Len(injected) + 1 : Append(injected, e)[n] = IF n <= Len(injected) THEN injected[n] ELSE e
    BY <1>1, Appended
  <2>2. /\ Append(m_eventsWithContext, e) \in Seq(Contexts(made'))
        /\ Len(Append(m_eventsWithContext, e)) = Len(m_eventsWithContext) + 1
        /\ \A n \in 1 .. Len(m_eventsWithContext) + 1 :
             Append(m_eventsWithContext, e)[n] = IF n <= Len(m_eventsWithContext) THEN m_eventsWithContext[n] ELSE e
    BY <1>1, Appended
  <2> QED
    BY <1>1, <1>2, <2>1, <2>2
<1>4. /\ Len(injected) \in Nat /\ Len(eventsWithContext) \in Nat /\ Len(m_eventsWithContext) \in Nat
      /\ Inserted \in Nat /\ Inserted <= Len(injected)
      /\ DOMAIN eventsWithContext = 1 .. Len(eventsWithContext)
  BY <1>0, InjectedPlaces DEF TypeOK
<1>5. Inserted' = Inserted /\ Inserted + Len(eventsWithContext) + Len(m_eventsWithContext) = Len(injected)
  BY <1>2, <1>3, <1>4 DEF Inserted
<1>6. InjectedInOrder'
  <2>1. ASSUME NEW n \in DOMAIN eventsWithContext PROVE injected'[Inserted + n] = eventsWithContext[n]
    <3>1. Inserted + n \in 1 .. Len(injected)
      BY <1>4, <1>5
    <3> QED
      BY <1>0, <1>3, <3>1 DEF InjectedInOrder
  <2>2. ASSUME NEW n \in DOMAIN m_eventsWithContext'
        PROVE  injected'[Inserted + Len(eventsWithContext) + n] = m_eventsWithContext'[n]
    <3>1. CASE n <= Len(m_eventsWithContext)
      <4>1. /\ n \in 1 .. Len(m_eventsWithContext)
            /\ Inserted + Len(eventsWithContext) + n \in 1 .. Len(injected)
        BY <1>3, <1>4, <1>5, <3>1
      <4> QED
        BY <1>0, <1>3, <4>1 DEF InjectedInOrder
    <3>2. CASE n > Len(m_eventsWithContext)
      <4>1. /\ n = Len(m_eventsWithContext) + 1
            /\ Inserted + Len(eventsWithContext) + n = Len(injected) + 1
        BY <1>3, <1>4, <1>5, <3>2
      <4> QED
        BY <1>3, <4>1
    <3> QED
      BY <1>3, <1>4, <3>1, <3>2
  <2> QED
    BY <1>0, <1>2, <1>4, <1>5, <2>1, <2>2 DEF InjectedInOrder
<1>7. ListedInOrder'
  <2>1. \A n \in 1 .. Inserted : injected'[n] = injected[n]
    BY <1>3, <1>4
  <2>2. UNCHANGED <<Listed, Done>>
    BY <1>2 DEF Listed, Done
  <2>3. \A n \in 1 .. Inserted : injected'[n].impl \in Listed' \cup Done'
    BY <1>0, <2>1, <2>2 DEF ListedInOrder
  <2>4. \A n \in 1 .. Inserted : \A x \in m_events :
          x.impl = injected'[n].impl => x.ts <= m_currentTs + injected'[n].timestamp
    BY <1>0, <2>1 DEF ListedInOrder
  <2>5. \A m, n \in 1 .. Inserted : \A x, y \in m_events :
          /\ m < n /\ injected'[m].timestamp <= injected'[n].timestamp
          /\ x.impl = injected'[m].impl /\ y.impl = injected'[n].impl
          => Earlier(x, y)
    BY <1>0, <2>1 DEF ListedInOrder
  <2> QED
    BY <1>2, <1>5, <2>3, <2>4, <2>5 DEF ListedInOrder
<1>8. Once(invoked') /\ InvokedInOrder'
  <2>1. ASSUME NEW m \in DOMAIN injected', NEW n \in DOMAIN injected', NEW y \in DOMAIN invoked,
               m < n, injected'[m].timestamp <= injected'[n].timestamp, invoked[y] = injected'[n].impl
        PROVE  \E x \in DOMAIN invoked : x < y /\ invoked[x] = injected'[m].impl
    <3>1. n # Len(injected) + 1
      BY <1>1, <1>3, <2>1 DEF Done, ToSet
    <3>2. /\ m \in DOMAIN injected /\ n \in DOMAIN injected
          /\ injected'[m] = injected[m] /\ injected'[n] = injected[n]
      BY <1>3, <1>4, <2>1, <3>1
    <3> QED
      BY <1>0, <2>1, <3>2 DEF InvokedInOrder
  <2> QED
    BY <1>0, <1>2, <2>1 DEF InvokedInOrder
<1> QED
  BY <1>6, <1>7, <1>8, OrderInvPartsNext

\* The list swapped out is empty before, so the order of the two lists is kept.
LEMMA SwapOrder ==
  ASSUME PlacesInv, OrderInv, SwapLists
  PROVE  OrderInv'
<1>0. TypeOK /\ InjectedInOrder /\ ListedInOrder /\ Once(invoked) /\ InvokedInOrder
  BY OrderInvParts DEF PlacesInv, SwapLists, Goto
<1>1. /\ eventsWithContext' = m_eventsWithContext /\ m_eventsWithContext' = eventsWithContext
      /\ pc = "swap" /\ pc' = "insert"
      /\ UNCHANGED <<m_currentTs, m_events, invoked, injected, Listed, Done>>
  BY DEF SwapLists, LeftBySwap, Goto, queue, clock, Listed, Done
<1>2. eventsWithContext = << >> /\ Len(eventsWithContext) = 0
  BY <1>0, <1>1 DEF InjectedInOrder
<1>3. Inserted \in Nat /\ Len(m_eventsWithContext) \in Nat /\ Len(injected) \in Nat
  BY <1>0, InjectedPlaces
<1>4. Inserted' = Inserted
  BY <1>1, <1>2, <1>3 DEF Inserted
<1>5. InjectedInOrder'
  <2>1. ASSUME NEW n \in DOMAIN m_eventsWithContext PROVE injected[Inserted + n] = m_eventsWithContext[n]
    <3>1. Inserted + Len(eventsWithContext) + n = Inserted + n
      BY <1>2, <1>3
    <3> QED
      BY <1>0, <3>1 DEF InjectedInOrder
  <2>2. DOMAIN eventsWithContext = {}
    BY <1>2
  <2> QED
    BY <1>0, <1>1, <1>4, <2>1, <2>2 DEF InjectedInOrder
<1>6. ListedInOrder' /\ Once(invoked') /\ InvokedInOrder'
  BY <1>0, <1>1, <1>4 DEF ListedInOrder, InvokedInOrder
<1> QED
  BY <1>5, <1>6, OrderInvPartsNext

\* The event taken over comes after those taken over before with no longer
\* delay: time has only gone forward, and its uid is larger.
LEMMA InsertInjectedOrder ==
  ASSUME NoWrap, PlacesInv, UidInv, OrderInv, InsertInjected
  PROVE  OrderInv'
<1> DEFINE e == TakenId k == Inserted + 1
<1>0. /\ TypeOK /\ OnePlace /\ UidsAscend
      /\ InjectedInOrder /\ ListedInOrder /\ Once(invoked) /\ InvokedInOrder
  BY OrderInvParts, UidInvParts DEF PlacesInv, InsertInjected, UidParts
<1>1. /\ eventsWithContext # << >> /\ eventsWithContext' = Tail(eventsWithContext) /\ pc = "insert"
      /\ m_events' = m_events \cup {e} /\ e.impl = Head(eventsWithContext).impl
      /\ UNCHANGED <<pc, m_currentTs, m_eventsWithContext, invoked, injected, Done>>
  BY <1>0, InsertInjectedFacts DEF Done
<1>2. /\ e.uid = m_uid /\ e.ts = m_currentTs + Head(eventsWithContext).timestamp
      /\ Len(eventsWithContext') = Len(eventsWithContext) - 1 /\ Len(eventsWithContext) >= 1
  BY TakenUid
<1>3. /\ \A x \in m_events : x.ts \in Nat /\ x.uid \in Nat
      /\ m_currentTs \in Nat /\ m_uid \in Nat
  BY <1>0, KeyTypes
<1>4. /\ Len(injected) \in Nat /\ Len(eventsWithContext) \in Nat /\ Len(m_eventsWithContext) \in Nat
      /\ Inserted \in Nat /\ Inserted <= Len(injected) /\ DOMAIN injected = 1 .. Len(injected)
      /\ \A n \in DOMAIN injected : injected[n].timestamp \in Nat
  BY <1>0, InjectedPlaces
<1>5. /\ \A n \in 1 .. Len(eventsWithContext) - 1 : eventsWithContext'[n] = eventsWithContext[n + 1]
      /\ Head(eventsWithContext) = eventsWithContext[1]
      /\ DOMAIN eventsWithContext = 1 .. Len(eventsWithContext)
      /\ DOMAIN eventsWithContext' = 1 .. Len(eventsWithContext) - 1
  <2>1. eventsWithContext \in Seq(EventWithContext)
    BY <1>0 DEF TypeOK
  <2>2. /\ Tail(eventsWithContext) \in Seq(EventWithContext)
        /\ Len(Tail(eventsWithContext)) = Len(eventsWithContext) - 1
        /\ \A n \in 1 .. Len(eventsWithContext) - 1 : Tail(eventsWithContext)[n] = eventsWithContext[n + 1]
        /\ Head(eventsWithContext) = eventsWithContext[1]
    BY <1>1, <2>1, Behead
  <2> QED
    BY <1>1, <2>1, <2>2
<1>6. injected[k] = Head(eventsWithContext) /\ k \in DOMAIN injected
  <2>1. 1 \in DOMAIN eventsWithContext
    BY <1>2, <1>4, <1>5
  <2>2. k \in 1 .. Len(injected)
    BY <1>2, <1>4 DEF Inserted
  <2> QED
    BY <1>0, <1>4, <1>5, <2>1, <2>2 DEF InjectedInOrder
<1>7. Inserted' = k
  BY <1>1, <1>2, <1>4 DEF Inserted
<1>8. e.impl \in Taken /\ e.impl \notin Listed \cup Done
  <2>1. 1 \in DOMAIN eventsWithContext
    BY <1>2, <1>4, <1>5
  <2>2. e.impl \in Taken
    BY <1>1, <1>5, <2>1 DEF Taken, ImplsOf
  <2> QED
    BY <1>0, <2>2 DEF OnePlace
<1>9. Listed' = Listed \cup {e.impl}
  BY <1>1 DEF Listed
<1>10. e.ts = m_currentTs + injected[k].timestamp /\ e.impl = injected[k].impl
  BY <1>1, <1>2, <1>6
<1>11. k \in Nat /\ 1 .. k = 1 .. Inserted \cup {k} /\ 1 .. Inserted \subseteq DOMAIN injected
       /\ Inserted + 1 = k
  BY <1>4
<1> HIDE DEF e, k
<1>12. InjectedInOrder'
  <2>1. ASSUME NEW n \in DOMAIN eventsWithContext' PROVE injected[k + n] = eventsWithContext'[n]
    <3>1. n + 1 \in DOMAIN eventsWithContext /\ k + n = Inserted + (n + 1) /\ n \in 1 .. Len(eventsWithContext) - 1
      BY <1>4, <1>5, <1>11
    <3> QED
      BY <1>0, <1>5, <3>1 DEF InjectedInOrder
  <2>2. k + Len(eventsWithContext') = Inserted + Len(eventsWithContext)
    <3>1. \A l \in Nat : (Inserted + 1) + (l - 1) = Inserted + l
      BY <1>4
    <3> QED
      BY <1>2, <1>4, <1>11, <3>1
  <2>3. \A n \in DOMAIN m_eventsWithContext : injected[k + Len(eventsWithContext') + n] = m_eventsWithContext[n]
    BY <1>0, <2>2 DEF InjectedInOrder
  <2> QED
    BY <1>1, <1>7, <1>11, <2>1, <2>3 DEF InjectedInOrder
<1>13. ASSUME NEW n \in 1 .. Inserted PROVE injected[n].impl # e.impl
  BY <1>0, <1>8 DEF ListedInOrder
<1>14. ASSUME NEW x \in m_events PROVE x.impl # e.impl
  BY <1>8 DEF Listed
<1>15. ListedInOrder'
  <2>1. \A n \in 1 .. k : injected[n].impl \in Listed' \cup Done
    BY <1>0, <1>9, <1>10, <1>11 DEF ListedInOrder
  <2>2. ASSUME NEW n \in 1 .. k, NEW x \in m_events', x.impl = injected[n].impl
        PROVE  x.ts <= m_currentTs + injected[n].timestamp
    <3>1. CASE n = k
      <4>1. x = e
        BY <1>1, <1>10, <1>14, <2>2, <3>1
      <4>2. x.ts = m_currentTs + injected[n].timestamp /\ m_currentTs + injected[n].timestamp \in Nat
        BY <1>3, <1>4, <1>6, <1>10, <3>1, <4>1
      <4> QED
        BY <4>2
    <3>2. CASE n \in 1 .. Inserted
      <4>1. x \in m_events
        BY <1>1, <1>13, <2>2, <3>2
      <4> QED
        BY <1>0, <2>2, <3>2, <4>1 DEF ListedInOrder
    <3> QED
      BY <1>11, <3>1, <3>2
  <2>3. ASSUME NEW m \in 1 .. k, NEW n \in 1 .. k, NEW x \in m_events', NEW y \in m_events',
               m < n, injected[m].timestamp <= injected[n].timestamp,
               x.impl = injected[m].impl, y.impl = injected[n].impl
        PROVE  Earlier(x, y)
    <3>1. m \in 1 .. Inserted
      BY <1>4, <1>11, <2>3
    <3>2. x \in m_events
      BY <1>1, <1>13, <2>3, <3>1
    <3>3. CASE n = k
      <4>1. y = e
        BY <1>1, <1>10, <1>14, <2>3, <3>3
      <4>2. x.ts <= m_currentTs + injected[m].timestamp
        BY <1>0, <2>3, <3>1, <3>2 DEF ListedInOrder
      <4>3. x.uid < m_uid
        BY <1>0, <3>2 DEF UidsAscend
      <4>4. injected[m].timestamp \in Nat /\ injected[n].timestamp \in Nat /\ x.ts \in Nat /\ x.uid \in Nat
        BY <1>3, <1>4, <1>6, <1>11, <3>1, <3>2, <3>3
      <4>5. y.ts = m_currentTs + injected[n].timestamp /\ y.uid = m_uid
        BY <1>2, <1>10, <3>3, <4>1
      <4> QED
        BY <1>3, <2>3, <4>2, <4>3, <4>4, <4>5 DEF Earlier
    <3>4. CASE n \in 1 .. Inserted
      <4>1. y \in m_events
        BY <1>1, <1>13, <2>3, <3>4
      <4> QED
        BY <1>0, <2>3, <3>1, <3>2, <3>4, <4>1 DEF ListedInOrder
    <3> QED
      BY <1>11, <3>3, <3>4
  <2> QED
    BY <1>1, <1>7, <2>1, <2>2, <2>3 DEF ListedInOrder
<1>16. Once(invoked') /\ InvokedInOrder'
  BY <1>0, <1>1 DEF InvokedInOrder
<1> QED
  BY <1>12, <1>15, <1>16, OrderInvPartsNext

\* What is notified next.  An event that was injected was never cancelled,
\* and those injected before it with no longer delay have run.
LEMMA NotifiedOrder ==
  ASSUME PlacesInv, InvokedInOrder, NEW i \in Impl, invoked' = Append(invoked, i), injected' = injected,
         \A m, n \in DOMAIN injected :
           /\ m < n /\ injected[m].timestamp <= injected[n].timestamp /\ injected[n].impl = i
           => injected[m].impl \in Done
  PROVE  InvokedInOrder'
<1>1. /\ invoked \in Seq(Impl) /\ Len(invoked) \in Nat /\ DOMAIN invoked = 1 .. Len(invoked)
  BY DEF PlacesInv, TypeOK
<1>2. /\ DOMAIN invoked' = 1 .. Len(invoked) + 1
      /\ \A n \in 1 .. Len(invoked) : invoked'[n] = invoked[n]
      /\ invoked'[Len(invoked) + 1] = i
  BY <1>1
<1>3. ASSUME NEW m \in DOMAIN injected, NEW n \in DOMAIN injected, NEW y \in DOMAIN invoked',
             m < n, injected[m].timestamp <= injected[n].timestamp, invoked'[y] = injected[n].impl
      PROVE  \E x \in DOMAIN invoked' : x < y /\ invoked'[x] = injected[m].impl
  <2>1. \E x \in DOMAIN invoked : x < y /\ invoked[x] = injected[m].impl
    <3>1. CASE y \in DOMAIN invoked
      BY <1>1, <1>2, <1>3, <3>1 DEF InvokedInOrder
    <3>2. CASE y = Len(invoked) + 1
      <4>1. PICK x \in DOMAIN invoked : invoked[x] = injected[m].impl
        BY <1>2, <1>3, <3>2 DEF Done, ToSet
      <4> QED
        BY <1>1, <3>2, <4>1
    <3> QED
      BY <1>1, <1>2, <3>1, <3>2
  <2> QED
    BY <1>1, <1>2, <2>1
<1> QED
  BY <1>3 DEF InvokedInOrder

LEMMA ProcessOrder ==
  ASSUME PlacesInv, UidInv, OrderInv, NEW e, Processes(e)
  PROVE  OrderInv'
<1>0. /\ TypeOK /\ NoEventFromThePast /\ OnePlace /\ HandlesFit
      /\ InjectedInOrder /\ ListedInOrder /\ Once(invoked) /\ InvokedInOrder
  BY OrderInvParts DEF PlacesInv, Processes
<1>1. /\ e \in m_events /\ e.impl \in Impl /\ e.impl \in Listed /\ pc = "loop"
      /\ \A f \in m_events \ {e} : ~Earlier(f, e)
      /\ m_events' = m_events \ {e} /\ m_currentTs' = e.ts
      /\ Invoke(e.impl, "event", "check")
      /\ UNCHANGED <<m_eventsWithContext, eventsWithContext, m_cancel, injected, Inserted>>
  BY <1>0 DEF Processes, TypeOK, EventId, Listed, Inserted
<1>2. /\ \A x \in m_events : x.ts \in Nat /\ x.uid \in Nat /\ x.ts >= m_currentTs
      /\ m_currentTs \in Nat
  BY <1>0, KeyTypes DEF NoEventFromThePast
<1>3. e.impl \notin Done /\ \A x \in m_events : x.impl = e.impl => x = e
  BY <1>0, <1>1 DEF OnePlace
<1>4. /\ Once(invoked')
      /\ e.impl \notin m_cancel => invoked' = Append(invoked, e.impl) /\ Done' = Done \cup {e.impl}
      /\ e.impl \in m_cancel => invoked' = invoked /\ Done' = Done
  BY <1>0, <1>1, <1>3, InvokeFacts
<1>5. /\ Inserted \in Nat /\ Inserted <= Len(injected) /\ Len(injected) \in Nat
      /\ DOMAIN injected = 1 .. Len(injected)
      /\ \A n \in DOMAIN injected : injected[n].timestamp \in Nat
      /\ \A n \in DOMAIN injected : n > Inserted => injected[n].impl \in Shared \cup Taken
  BY <1>0, InjectedPlaces
<1>6. e.impl \in m_cancel => \A n \in DOMAIN injected : injected[n].impl # e.impl
  BY <1>0 DEF HandlesFit
<1>7. InjectedInOrder'
  <2>1. eventsWithContext = << >>
    BY <1>0, <1>1 DEF InjectedInOrder
  <2> QED
    BY <1>0, <1>1, <2>1 DEF InjectedInOrder
<1>8. ListedInOrder'
  <2>1. ASSUME NEW n \in 1 .. Inserted PROVE injected[n].impl \in Listed' \cup Done'
    <3>1. n \in DOMAIN injected /\ injected[n].impl \in Listed \cup Done
      BY <1>0, <1>5 DEF ListedInOrder
    <3>2. Listed \subseteq Listed' \cup {e.impl} /\ Done \subseteq Done'
      BY <1>1, <1>4 DEF Listed
    <3> QED
      BY <1>4, <1>6, <3>1, <3>2
  <2>2. ASSUME NEW n \in 1 .. Inserted, NEW f \in m_events', f.impl = injected[n].impl
        PROVE  f.ts <= m_currentTs' + injected[n].timestamp
    <3>1. f \in m_events /\ f.ts <= m_currentTs + injected[n].timestamp /\ n \in DOMAIN injected
      BY <1>0, <1>1, <1>5, <2>2 DEF ListedInOrder
    <3>2. f.ts \in Nat /\ injected[n].timestamp \in Nat /\ e.ts \in Nat /\ e.ts >= m_currentTs
      BY <1>1, <1>2, <1>5, <3>1
    <3> QED
      BY <1>1, <1>2, <3>1, <3>2
  <2> QED
    BY <1>0, <1>1, <2>1, <2>2 DEF ListedInOrder
<1>9. InvokedInOrder'
  <2>1. CASE e.impl \in m_cancel
    BY <1>0, <1>1, <1>4, <2>1 DEF InvokedInOrder
  <2>2. CASE e.impl \notin m_cancel
    <3>1. ASSUME NEW m \in DOMAIN injected, NEW n \in DOMAIN injected,
                 m < n, injected[m].timestamp <= injected[n].timestamp, injected[n].impl = e.impl
          PROVE  injected[m].impl \in Done
      <4>1. injected[n].impl \notin Shared \cup Taken
        BY <1>0, <1>1, <3>1 DEF OnePlace
      <4>2. m \in 1 .. Inserted /\ n \in 1 .. Inserted
        BY <1>5, <3>1, <4>1
      <4>3. ASSUME injected[m].impl \in Listed PROVE FALSE
        <5>1. PICK f \in m_events : f.impl = injected[m].impl
          BY <4>3 DEF Listed
        <5>2. Earlier(f, e)
          BY <1>0, <1>1, <3>1, <4>2, <5>1 DEF ListedInOrder
        <5>3. f = e
          BY <1>1, <5>1, <5>2
        <5> QED
          BY <1>1, <1>2, <5>2, <5>3 DEF Earlier
      <4> QED
        BY <1>0, <4>2, <4>3 DEF ListedInOrder
    <3> QED
      BY <1>0, <1>1, <1>4, <2>2, <3>1, NotifiedOrder
  <2> QED
    BY <2>1, <2>2
<1> QED
  BY <1>4, <1>7, <1>8, <1>9, OrderInvPartsNext

LEMMA DestroyOneOrder ==
  ASSUME PlacesInv, OrderInv, DestroyOneEvent
  PROVE  OrderInv'
<1> DEFINE e == Head(m_destroyEvents)
<1>0. InjectedInOrder /\ ListedInOrder /\ Once(invoked) /\ InvokedInOrder
  BY OrderInvParts DEF DestroyOneEvent
<1>1. /\ e.impl \in Impl /\ e.impl \notin Done \cup Listed \cup Shared \cup Taken /\ pc = "destroy"
      /\ Once(invoked') /\ pc' \in {"destroyEvent", "destroy"}
      /\ e.impl \notin m_cancel => invoked' = Append(invoked, e.impl) /\ Done' = Done \cup {e.impl}
      /\ e.impl \in m_cancel => invoked' = invoked /\ Done' = Done
      /\ UNCHANGED <<m_events, m_currentTs, m_eventsWithContext, eventsWithContext, injected>>
  BY DestroyOneFacts
<1> HIDE DEF e
<1>2. UNCHANGED <<Listed, Inserted>> /\ Done \subseteq Done'
  BY <1>1 DEF Listed, Inserted
<1>3. InjectedInOrder'
  <2>1. eventsWithContext = << >>
    BY <1>0, <1>1 DEF InjectedInOrder
  <2> QED
    BY <1>0, <1>1, <1>2, <2>1 DEF InjectedInOrder
<1>4. ListedInOrder'
  BY <1>0, <1>1, <1>2 DEF ListedInOrder
<1>5. ASSUME NEW n \in DOMAIN injected PROVE injected[n].impl # e.impl
  <2>1. n \in 1 .. Inserted \/ n > Inserted
    BY <1>0, InjectedPlaces
  <2> QED
    BY <1>0, <1>1, <2>1, InjectedPlaces DEF ListedInOrder
<1>6. InvokedInOrder'
  <2>1. CASE e.impl \in m_cancel
    BY <1>0, <1>1, <2>1 DEF InvokedInOrder
  <2>2. CASE e.impl \notin m_cancel
    BY <1>0, <1>1, <1>5, <2>2, NotifiedOrder
  <2> QED
    BY <2>1, <2>2
<1> QED
  BY <1>1, <1>3, <1>4, <1>6, OrderInvPartsNext

LEMMA OrderNext ==
  ASSUME NoWrap
  PROVE  PlacesInv /\ UidInv /\ OrderInv /\ [Next]_vars => OrderInv'
<1> SUFFICES ASSUME PlacesInv, UidInv, OrderInv, [Next]_vars PROVE OrderInv'
  OBVIOUS
<1>1. Step
  BY StepKinds DEF PlacesInv
<1>2. DoDispose => OrderInv'
  BY OrderInvParts, OrderInvPartsNext DEF DoDispose, InvokedInOrder
<1>3. ASSUME UNCHANGED vars PROVE OrderInv'
  BY <1>3 DEF vars, queue, clock, injection, control, handles, OrderInv, InjectedInOrder, ListedInOrder,
              InvokedInOrder, Inserted, Listed, Done
<1> QED
  BY <1>1, <1>2, <1>3, ProgramIsQuiet, QuietOrder, InjectOrder, SwapOrder, InsertInjectedOrder,
     ProcessOrder, DestroyOneOrder DEF Step

LEMMA OrderInit == Init => OrderInv
<1> SUFFICES ASSUME Init PROVE OrderInv
  OBVIOUS
<1>1. Inserted = 0
  <2>1. Len(injected) = 0 /\ Len(eventsWithContext) = 0 /\ Len(m_eventsWithContext) = 0
    BY DEF Init
  <2> QED
    BY <2>1 DEF Inserted
<1>2. InjectedInOrder /\ ListedInOrder
  BY <1>1 DEF Init, InjectedInOrder, ListedInOrder
<1> QED
  BY <1>2 DEF Init, OrderInv, InvokedInOrder

(* Events injected by other threads run in the order in which they were    *)
(* injected, except where a later one has a shorter delay, although their  *)
(* delays count from different moments: as long as uids do not wrap around *)
(* an event taken over later is not due before those taken over earlier.   *)
THEOREM InjectedOrderStays ==
  ASSUME NoWrap
  PROVE  Spec => []InjectionOrderKept
<1>1. PlacesInv /\ OrderInv => InjectionOrderKept
  <2> SUFFICES ASSUME PlacesInv, OrderInv, NEW m \in DOMAIN injected, NEW n \in DOMAIN injected,
                      m < n, injected[m].timestamp <= injected[n].timestamp,
                      injected[n].impl \in ToSet(invoked)
               PROVE  /\ injected[m].impl \in ToSet(invoked)
                      /\ Position(injected[m].impl) < Position(injected[n].impl)
    BY DEF InjectionOrderKept
  <2>1. Once(invoked) /\ InvokedInOrder
    BY OrderInvParts
  <2>2. PICK y \in DOMAIN invoked : invoked[y] = injected[n].impl
    BY DEF ToSet
  <2>3. PICK x \in DOMAIN invoked : x < y /\ invoked[x] = injected[m].impl
    BY <2>1, <2>2 DEF InvokedInOrder
  <2>4. ASSUME NEW z \in DOMAIN invoked PROVE Position(invoked[z]) = z
    BY <2>1 DEF Position, Once
  <2>5. Position(injected[m].impl) = x /\ Position(injected[n].impl) = y
    BY <2>2, <2>3, <2>4
  <2> QED
    BY <2>3, <2>5 DEF ToSet
<1> QED
  BY <1>1, PlacesInit, PlacesNext, UidInit, UidNext, OrderInit, OrderNext, PTL DEF Spec
===============================================================================
