--------------------------- MODULE DefaultSimulator ---------------------------
(***************************************************************************)
(* DefaultSimulatorImpl of src/ns-3.16/src/core: the main thread runs the  *)
(* script and the events and may schedule, cancel and remove events from   *)
(* either; other threads inject events with ScheduleWithContext.  Event    *)
(* objects are numbered in the order in which they are made.  Contexts     *)
(* have no part in what is done with an event and are left out.            *)
(***************************************************************************)
EXTENDS Integers, FiniteSets, SequencesExt

CONSTANTS
  W,           \* uids are taken modulo W (2^32 in the code)
  Delay,       \* the delays that events are scheduled with
  MaxEvents,   \* events ever made (a bound)
  MaxRuns      \* calls of Run (a bound)

ASSUME SimulatorAssumption ==
  /\ W \in Nat /\ W > 4
  /\ Delay \subseteq Nat
  /\ MaxEvents \in Nat /\ MaxRuns \in Nat

VARIABLES
  pc,                          \* where the main thread is
  m_events,                    \* the event list, behind the Scheduler interface
  m_uid, m_unscheduledEvents, m_currentTs, m_currentUid, m_stop,
  m_destroyEvents,             \* ids of the events that Destroy will run
  m_eventsWithContext,         \* events injected by other threads
  m_eventsWithContextEmpty,    \* its flag, which the main thread reads unlocked
  eventsWithContext,           \* the list that ProcessEventsWithContext swapped out
  m_cancel,                    \* the event objects whose m_cancel is set
  ids,                         \* the EventIds that the program was given
  runs,                        \* calls of Run so far
  made,                        \* event objects made so far
  \* what the code does not keep:
  invoked,                     \* the events notified, in order
  injected,                    \* the events injected, in order
  revoked                      \* the events cancelled or removed before their turn

queue == <<m_events, m_uid, m_unscheduledEvents>>
clock == <<m_currentTs, m_currentUid>>
injection == <<m_eventsWithContext, m_eventsWithContextEmpty, eventsWithContext>>
control == <<pc, m_stop, runs>>
handles == <<m_cancel, ids, revoked>>
vars == <<queue, clock, m_destroyEvents, injection, control, handles, made, invoked, injected>>

Init ==
  /\ pc = "idle" /\ m_stop = FALSE /\ runs = 0
  /\ m_events = {} /\ m_uid = 4 /\ m_unscheduledEvents = 0
  /\ m_currentTs = 0 /\ m_currentUid = 0
  /\ m_destroyEvents = <<>>
  /\ m_eventsWithContext = <<>> /\ m_eventsWithContextEmpty = TRUE /\ eventsWithContext = <<>>
  /\ m_cancel = {} /\ ids = {} /\ revoked = {}
  /\ made = 0 /\ invoked = <<>> /\ injected = <<>>
-------------------------------------------------------------------------------
(* What the program calls *)

\* The main thread is in the script, in an event, or in a destroy event.
InProgram == pc \in {"idle", "event", "destroyEvent"}

MakeEvent == made < MaxEvents /\ made' = made + 1
NextUid == (m_uid + 1) % W

\* Insert into the event list, as all ways of scheduling do it.
Insert(impl, ts) ==
  /\ m_events' = m_events \cup {[impl |-> impl, ts |-> ts, uid |-> m_uid]}
  /\ m_uid' = NextUid
  /\ m_unscheduledEvents' = m_unscheduledEvents + 1

\* Schedule; with a delay of 0, ScheduleNow
Schedule(d) ==
  /\ InProgram
  /\ MakeEvent
  /\ Insert(made', m_currentTs + d)
  /\ ids' = ids \cup {[impl |-> made', ts |-> m_currentTs + d, uid |-> m_uid]}
  /\ UNCHANGED <<clock, m_destroyEvents, injection, control, m_cancel, revoked, invoked, injected>>

\* ScheduleWithContext on the main thread: no EventId is returned.
ScheduleWithContext(d) ==
  /\ InProgram
  /\ MakeEvent
  /\ Insert(made', m_currentTs + d)
  /\ UNCHANGED <<clock, m_destroyEvents, injection, control, handles, invoked, injected>>

\* The list after a push.  The mutant pushes to the front.
PushFront(l, e) == <<e>> \o l
PushBack(l, e) == Append(l, e)

\* ScheduleWithContext on another thread, one critical section
Inject(d) ==
  /\ pc # "over"
  /\ MakeEvent
  /\ LET e == [impl |-> made', timestamp |-> d]
     IN  /\ m_eventsWithContext' = PushBack(m_eventsWithContext, e)
         /\ injected' = Append(injected, e)
  /\ m_eventsWithContextEmpty' = FALSE
  /\ UNCHANGED <<queue, clock, m_destroyEvents, eventsWithContext, control, handles, invoked>>

ScheduleDestroy ==
  /\ InProgram
  /\ MakeEvent
  /\ LET id == [impl |-> made', ts |-> m_currentTs, uid |-> 2]
     IN  /\ m_destroyEvents' = Append(m_destroyEvents, id)
         /\ ids' = ids \cup {id}
  /\ m_uid' = NextUid
  /\ UNCHANGED <<m_events, m_unscheduledEvents, clock, injection, control, m_cancel, revoked,
                 invoked, injected>>

\* Has the time of a scheduled event come?  The mutant excludes the event that
\* is running.
PassedBefore(id) == id.ts < m_currentTs \/ (id.ts = m_currentTs /\ id.uid < m_currentUid)
Passed(id) == id.ts < m_currentTs \/ (id.ts = m_currentTs /\ id.uid <= m_currentUid)

\* An id with uid 2 is taken for that of a destroy event.
IsExpired(id) ==
  \/ id.impl \in m_cancel
  \/ IF id.uid = 2 THEN id \notin ToSet(m_destroyEvents) ELSE Passed(id)

\* The event has not had its turn and was not cancelled.
Pending(id) == id \in m_events \cup ToSet(m_destroyEvents) /\ id.impl \notin m_cancel

\* The program no longer wants the event.
Revoke(id) == revoked' = revoked \cup (IF Pending(id) THEN {id.impl} ELSE {})

Cancel(id) ==
  /\ InProgram
  /\ m_cancel' = m_cancel \cup (IF IsExpired(id) THEN {} ELSE {id.impl})
  /\ Revoke(id)
  /\ UNCHANGED <<queue, clock, m_destroyEvents, injection, control, ids, made, invoked, injected>>

RemoveDestroy(id) ==
  /\ id.uid = 2
  /\ \/ \E n \in DOMAIN m_destroyEvents :
          /\ m_destroyEvents[n] = id /\ \A k \in 1 .. n - 1 : m_destroyEvents[k] # id
          /\ m_destroyEvents' = RemoveAt(m_destroyEvents, n)
     \/ id \notin ToSet(m_destroyEvents) /\ UNCHANGED m_destroyEvents
  /\ UNCHANGED <<m_events, m_unscheduledEvents, m_cancel>>

\* Is there anything to remove?  The mutant does not ask.
RemovableAlways(id) == TRUE
Removable(id) == ~IsExpired(id)

RemoveScheduled(id) ==
  /\ id.uid # 2 /\ Removable(id)
  /\ m_events' = m_events \ {id}
  /\ m_unscheduledEvents' = m_unscheduledEvents - 1
  /\ m_cancel' = m_cancel \cup {id.impl}
  /\ UNCHANGED m_destroyEvents

RemoveEvent(id) ==
  /\ InProgram
  /\ RemoveDestroy(id) \/ RemoveScheduled(id)
  /\ Revoke(id)
  /\ UNCHANGED <<m_uid, clock, injection, control, ids, made, invoked, injected>>

Stop ==
  /\ InProgram
  /\ m_stop' = TRUE
  /\ UNCHANGED <<queue, clock, m_destroyEvents, injection, pc, runs, handles, made, invoked, injected>>
-------------------------------------------------------------------------------
(* Run, and ProcessEventsWithContext at its start and after every event *)

Goto(from, to) ==
  /\ pc \in from /\ pc' = to
  /\ UNCHANGED <<queue, clock, m_destroyEvents, handles, made, invoked, injected>>

\* m_stop is cleared after ProcessEventsWithContext, which does not read it.
Run ==
  /\ runs < MaxRuns /\ runs' = runs + 1
  /\ Goto({"idle"}, "check")
  /\ m_stop' = FALSE
  /\ UNCHANGED injection

\* The flag is read without the lock.  Nothing orders the read after another
\* thread's write, so it may still say that the list is empty when it is not.
FindEmpty == Goto({"check"}, "loop") /\ UNCHANGED <<injection, m_stop, runs>>

FindInjected ==
  /\ ~m_eventsWithContextEmpty
  /\ Goto({"check"}, "swap")
  /\ UNCHANGED <<injection, m_stop, runs>>

\* What the swap leaves in the shared list.  The mutant copies the list.
LeftByCopy == m_eventsWithContext
LeftBySwap == eventsWithContext

SwapLists ==
  /\ Goto({"swap"}, "insert")
  /\ eventsWithContext' = m_eventsWithContext
  /\ m_eventsWithContext' = LeftBySwap
  /\ m_eventsWithContextEmpty' = TRUE
  /\ UNCHANGED <<m_stop, runs>>

\* The delay counts from the moment at which the event is taken over.  The
\* mutant takes it for a time.
TimestampAlone(e) == e.timestamp
InjectedTs(e) == m_currentTs + e.timestamp

InsertInjected ==
  /\ pc = "insert" /\ eventsWithContext # <<>>
  /\ LET e == Head(eventsWithContext) IN Insert(e.impl, InjectedTs(e))
  /\ eventsWithContext' = Tail(eventsWithContext)
  /\ UNCHANGED <<clock, m_destroyEvents, m_eventsWithContext, m_eventsWithContextEmpty, control,
                 handles, made, invoked, injected>>

EndInsert ==
  /\ eventsWithContext = <<>>
  /\ Goto({"insert"}, "loop")
  /\ UNCHANGED <<injection, m_stop, runs>>

Earlier(e, f) == e.ts < f.ts \/ (e.ts = f.ts /\ e.uid < f.uid)

\* The test in EventImpl::Invoke.  The mutant forgets it.
InvokesAlways(impl) == TRUE
Invokes(impl) == impl \notin m_cancel

Invoke(impl, handler, after) ==
  IF Invokes(impl)
  THEN pc' = handler /\ invoked' = Append(invoked, impl)
  ELSE pc' = after /\ UNCHANGED invoked

ProcessOneEvent ==
  /\ pc = "loop" /\ ~m_stop
  /\ \E e \in m_events :
       /\ \A f \in m_events \ {e} : ~Earlier(f, e)
       /\ m_events' = m_events \ {e}
       /\ m_currentTs' = e.ts /\ m_currentUid' = e.uid
       /\ Invoke(e.impl, "event", "check")
  /\ m_unscheduledEvents' = m_unscheduledEvents - 1
  /\ UNCHANGED <<m_uid, m_destroyEvents, injection, m_stop, runs, handles, made, injected>>

EndEvent == Goto({"event"}, "check") /\ UNCHANGED <<injection, m_stop, runs>>

EndRun ==
  /\ m_events = {} \/ m_stop
  /\ Goto({"loop"}, "idle")
  /\ UNCHANGED <<injection, m_stop, runs>>
-------------------------------------------------------------------------------
(* Destroy, its loop, and DoDispose, which empties the event list *)

Destroy == Goto({"idle"}, "destroy") /\ UNCHANGED <<injection, m_stop, runs>>

DestroyOneEvent ==
  /\ pc = "destroy" /\ m_destroyEvents # <<>>
  /\ m_destroyEvents' = Tail(m_destroyEvents)
  /\ Invoke(Head(m_destroyEvents).impl, "destroyEvent", "destroy")
  /\ UNCHANGED <<queue, clock, injection, m_stop, runs, handles, made, injected>>

EndDestroyEvent == Goto({"destroyEvent"}, "destroy") /\ UNCHANGED <<injection, m_stop, runs>>

DoDispose ==
  /\ pc = "destroy" /\ m_destroyEvents = <<>>
  /\ pc' = "over"
  /\ m_events' = {}
  /\ UNCHANGED <<m_uid, m_unscheduledEvents, clock, m_destroyEvents, injection, m_stop, runs,
                 handles, made, invoked, injected>>

Over == pc = "over" /\ UNCHANGED vars

Next ==
  \/ \E d \in Delay : Schedule(d) \/ ScheduleWithContext(d) \/ Inject(d)
  \/ ScheduleDestroy
  \/ \E id \in ids : Cancel(id) \/ RemoveEvent(id)
  \/ Stop
  \/ Run \/ FindEmpty \/ FindInjected \/ SwapLists \/ InsertInjected \/ EndInsert
  \/ ProcessOneEvent \/ EndEvent \/ EndRun
  \/ Destroy \/ DestroyOneEvent \/ EndDestroyEvent \/ DoDispose
  \/ Over

Spec == Init /\ [][Next]_vars
-------------------------------------------------------------------------------
Impl == 1 .. made
Uid == 0 .. W - 1
EventId == [impl : Impl, ts : Nat, uid : Uid]
EventWithContext == [impl : Impl, timestamp : Delay]

\* The types of the simulator's members.
TypeOK ==
  /\ pc \in {"idle", "check", "swap", "insert", "loop", "event",
             "destroy", "destroyEvent", "over"}
  /\ m_stop \in BOOLEAN /\ runs \in 0 .. MaxRuns
  /\ m_events \subseteq EventId /\ m_uid \in Uid /\ m_unscheduledEvents \in Int
  /\ m_currentTs \in Nat /\ m_currentUid \in Uid
  /\ m_destroyEvents \in Seq(EventId)
  /\ m_eventsWithContext \in Seq(EventWithContext) /\ m_eventsWithContextEmpty \in BOOLEAN
  /\ eventsWithContext \in Seq(EventWithContext)
  /\ m_cancel \subseteq Impl /\ ids \subseteq EventId /\ revoked \subseteq Impl
  /\ made \in 0 .. MaxEvents
  /\ invoked \in Seq(Impl) /\ injected \in Seq(EventWithContext)

\* The places where event object i is, each as often as it is there.
Occurrences(i) ==
  Cardinality({e \in m_events : e.impl = i})
  + Cardinality({n \in DOMAIN m_destroyEvents : m_destroyEvents[n].impl = i})
  + Cardinality({n \in DOMAIN m_eventsWithContext : m_eventsWithContext[n].impl = i})
  + Cardinality({n \in DOMAIN eventsWithContext : eventsWithContext[n].impl = i})
  + Cardinality({n \in DOMAIN invoked : invoked[n] = i})

\* However the main thread's unlocked read, its swap and the other threads'
\* pushes interleave, no event is lost and none runs twice, until DoDispose.
NeitherLostNorDoubled ==
  pc # "over" =>
    \A i \in Impl : Occurrences(i) <= 1 /\ (i \notin revoked => Occurrences(i) = 1)

\* IsExpired, which looks at the clock and at uids only, tells exactly which
\* events are still to come, also inside the event itself.
ExpiryIsExact ==
  pc # "over" => \A id \in ids : IsExpired(id) <=> ~Pending(id)

\* The consistency test at the end of Run, at every moment: the counter is
\* the size of the event list, whatever was cancelled, removed or injected.
NoEventUncounted == pc # "over" => m_unscheduledEvents = Cardinality(m_events)

\* An event that was cancelled or removed before its turn is never notified.
RevokedStaysSilent == \A i \in revoked : i \notin ToSet(invoked)

\* The assertion in ProcessOneEvent: no event lies before the current time,
\* although injected events count their delay from another moment.
NoEventFromThePast == \A e \in m_events : e.ts >= m_currentTs

Position(i) == CHOOSE n \in DOMAIN invoked : invoked[n] = i

\* Of two injected events the one injected first runs first, unless its delay
\* is longer.
InjectionOrderKept ==
  \A m, n \in DOMAIN injected :
    LET first == injected[m] second == injected[n]
    IN  /\ m < n
        /\ first.timestamp <= second.timestamp
        /\ second.impl \in ToSet(invoked)
        => /\ first.impl \in ToSet(invoked)
           /\ Position(first.impl) < Position(second.impl)
-------------------------------------------------------------------------------
(* The inductive invariants behind these properties. *)

\* The event objects in each place
Listed == {e.impl : e \in m_events}
ImplsOf(s) == {s[n].impl : n \in DOMAIN s}
Kept == ImplsOf(m_destroyEvents)
Shared == ImplsOf(m_eventsWithContext)
Taken == ImplsOf(eventsWithContext)
Done == ToSet(invoked)
Distinct(s) == \A m, n \in DOMAIN s : s[m].impl = s[n].impl => m = n

\* An event object is in one place and there once.
OnePlace ==
  /\ \A e, f \in m_events : e.impl = f.impl => e = f
  /\ Distinct(m_destroyEvents) /\ Distinct(m_eventsWithContext) /\ Distinct(eventsWithContext)
  /\ \A m, n \in DOMAIN invoked : invoked[m] = invoked[n] => m = n
  /\ Listed \cap (Kept \cup Shared \cup Taken \cup Done) = {}
  /\ Kept \cap (Shared \cup Taken \cup Done) = {}
  /\ Shared \cap (Taken \cup Done) = {}
  /\ Taken \cap Done = {}

\* It is in some place unless it was revoked; cancelling it late has no effect.
SomePlace ==
  /\ Impl \subseteq Listed \cup Kept \cup Shared \cup Taken \cup Done \cup revoked
  /\ m_cancel \subseteq revoked \cup Done

\* An EventId is that of one event, which the main thread scheduled.
HandlesFit ==
  /\ \A id \in ids :
       /\ \A e \in m_events \cup ToSet(m_destroyEvents) \cup ids : e.impl = id.impl => e = id
       /\ id.impl \notin Shared \cup Taken
       /\ \A n \in DOMAIN injected : injected[n].impl # id.impl
  /\ \A i \in m_cancel : \E id \in ids : id.impl = i

PlacesInv == TypeOK /\ NoEventFromThePast /\ (pc # "over" => OnePlace /\ SomePlace /\ HandlesFit)

\* Uids are given out in order, one for each event in the list.
UidsAscend ==
  /\ m_uid + Len(m_eventsWithContext) + Len(eventsWithContext) <= 4 + made
  /\ m_uid >= 4 /\ m_currentUid < m_uid
  /\ \A e \in m_events : 4 <= e.uid /\ e.uid < m_uid /\ ~Passed(e)
  /\ \A e, f \in m_events : e.uid = f.uid => e = f
  /\ \A n \in DOMAIN m_destroyEvents : m_destroyEvents[n].uid = 2

\* The clock tells of an event that was not cancelled whether it is still in the list.
ClockTells ==
  \A id \in ids : id.uid # 2 /\ id.impl \notin m_cancel => (id \in m_events <=> ~Passed(id))

\* Revoked events have been cancelled, or removed from where they were.
RevokedGone ==
  revoked \subseteq m_cancel \cup (Impl \ (Listed \cup Kept \cup Shared \cup Taken))

UidInv ==
  /\ pc # "over" => /\ UidsAscend /\ ClockTells /\ RevokedGone
                    /\ IsFiniteSet(m_events) /\ NoEventUncounted
  /\ RevokedStaysSilent

\* How many of the injected events were inserted into the event list
Inserted == Len(injected) - Len(eventsWithContext) - Len(m_eventsWithContext)

\* The two lists hold the last events injected, in order.
InjectedInOrder ==
  /\ Inserted >= 0
  /\ eventsWithContext # <<>> => pc = "insert"
  /\ \A n \in DOMAIN eventsWithContext : injected[Inserted + n] = eventsWithContext[n]
  /\ \A n \in DOMAIN m_eventsWithContext :
       injected[Inserted + Len(eventsWithContext) + n] = m_eventsWithContext[n]

\* The others are in the event list, in the order in which they will run, or have run.
ListedInOrder ==
  /\ \A n \in 1 .. Inserted : injected[n].impl \in Listed \cup Done
  /\ \A n \in 1 .. Inserted : \A e \in m_events :
       e.impl = injected[n].impl => e.ts <= m_currentTs + injected[n].timestamp
  /\ \A m, n \in 1 .. Inserted : \A e, f \in m_events :
       /\ m < n /\ injected[m].timestamp <= injected[n].timestamp
       /\ e.impl = injected[m].impl /\ f.impl = injected[n].impl
       => Earlier(e, f)

InvokedInOrder ==
  \A m, n \in DOMAIN injected : \A y \in DOMAIN invoked :
    /\ m < n /\ injected[m].timestamp <= injected[n].timestamp
    /\ invoked[y] = injected[n].impl
    => \E x \in DOMAIN invoked : x < y /\ invoked[x] = injected[m].impl

OrderInv ==
  /\ pc # "over" => InjectedInOrder /\ ListedInOrder
  /\ \A m, n \in DOMAIN invoked : invoked[m] = invoked[n] => m = n
  /\ InvokedInOrder
===============================================================================
