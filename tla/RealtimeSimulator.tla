--------------------------- MODULE RealtimeSimulator ---------------------------
(***************************************************************************)
(* RealtimeSimulatorImpl of src/ns-3.16/src/core with its                  *)
(* WallClockSynchronizer and SystemCondition: the main thread waits for    *)
(* the wall clock before it runs an event, while other threads schedule    *)
(* events of their own and wake it up.  The sections under m_mutex are     *)
(* single steps, except that the main thread may look at the condition     *)
(* before another thread has signalled it.  Times are in jiffies.          *)
(***************************************************************************)
EXTENDS Integers, FiniteSets

CONSTANTS
  Worker,        \* the other threads
  Delay,         \* the delays that events are scheduled with
  IdleDelay,     \* how long Run sleeps when there is no event
  Spin,          \* the jiffies that DoSynchronize leaves for SpinWait
  NsPerSec,      \* NS_PER_SEC
  MaxNow,        \* the wall clock (a bound, while no event is waited for)
  MaxUid,        \* events (a bound)
  MaxRuns,       \* calls of Run (a bound)
  None

ASSUME RealtimeAssumption ==
  /\ None \notin Worker
  /\ Delay \subseteq Nat
  /\ {IdleDelay, Spin, MaxNow, MaxUid, MaxRuns} \subseteq Nat
  /\ NsPerSec \in Nat \ {0}

VARIABLES
  pc,            \* where the main thread is
  now,           \* the wall clock
  m_realtimeOriginNano,
  m_events, m_uid, m_currentTs, m_currentUid, m_stop, m_running,
  m_condition,   \* of the synchronizer's SystemCondition
  wait,          \* what Synchronize was called with: the time, and whether by Run
  timeout,       \* the wall clock time at which TimedWait gives up
  m_mutex,       \* the thread that holds it for more than a step
  runs

events == <<m_events, m_uid>>
clock == <<m_currentTs, m_currentUid>>
sync == <<m_condition, wait, timeout>>
vars == <<pc, now, m_realtimeOriginNano, events, clock, m_stop, m_running, sync, m_mutex, runs>>

NotWaiting == [until |-> 0, idle |-> FALSE]

Init ==
  /\ pc = "idle" /\ runs = 0 /\ m_stop = FALSE /\ m_running = FALSE
  /\ now = 0 /\ m_realtimeOriginNano = 0
  /\ m_events = {} /\ m_uid = 4
  /\ m_currentTs = 0 /\ m_currentUid = 0
  /\ m_condition = FALSE /\ wait = NotWaiting /\ timeout = 0
  /\ m_mutex = None

\* GetCurrentRealtime.  The mutant subtracts the wrong way round.
RealtimeSwapped == m_realtimeOriginNano - now
Realtime == now - m_realtimeOriginNano
Earlier(e, f) == e.ts < f.ts \/ (e.ts = f.ts /\ e.uid < f.uid)
First == CHOOSE e \in m_events : \A f \in m_events \ {e} : Earlier(e, f)
-------------------------------------------------------------------------------
(* Scheduling and removing events *)

Insert(ts) ==
  /\ m_uid < MaxUid
  /\ m_events' = m_events \cup {[ts |-> ts, uid |-> m_uid]}
  /\ m_uid' = m_uid + 1

\* The main thread is in the script or in an event.
InProgram == pc \in {"idle", "event"} /\ m_mutex = None

\* Schedule, ScheduleNow and ScheduleWithContext count from the simulation time,
\* ScheduleRealtime and its variants from the wall clock.
Schedule(d) ==
  /\ InProgram
  /\ Insert(m_currentTs + d) \/ Insert(Realtime + d)
  /\ m_condition' = TRUE
  /\ UNCHANGED <<pc, now, m_realtimeOriginNano, clock, m_stop, m_running, wait, timeout, m_mutex, runs>>

\* What another thread's delay counts from in ScheduleWithContext and in
\* ScheduleRealtimeNowWithContext.
Base == IF m_running THEN Realtime ELSE m_currentTs

\* The condition after DoSignal has set it.  The mutant only signals.
ConditionKept == m_condition
ConditionSet == TRUE

\* Another thread schedules an event and sets the condition; it keeps m_mutex.
ScheduleWithContext(w, d) ==
  /\ m_mutex = None
  /\ Insert(Base + d) \/ Insert(Realtime + d)
  /\ m_condition' = ConditionSet
  /\ m_mutex' = w
  /\ UNCHANGED <<pc, now, m_realtimeOriginNano, clock, m_stop, m_running, wait, timeout, runs>>

\* pthread_cond_signal wakes the main thread if it is blocked.
Signal(w) ==
  /\ m_mutex = w
  /\ m_mutex' = None
  /\ pc' = IF pc = "blocked" THEN "sleep" ELSE pc
  /\ UNCHANGED <<now, m_realtimeOriginNano, events, clock, m_stop, m_running, sync, runs>>

IsExpired(e) == e.ts < m_currentTs \/ (e.ts = m_currentTs /\ e.uid <= m_currentUid)

Remove(e) ==
  /\ InProgram
  /\ ~IsExpired(e)
  /\ m_events' = m_events \ {e}
  /\ UNCHANGED <<pc, now, m_realtimeOriginNano, m_uid, clock, m_stop, m_running, sync, m_mutex, runs>>

Stop ==
  /\ InProgram
  /\ m_stop' = TRUE
  /\ UNCHANGED <<pc, now, m_realtimeOriginNano, events, clock, m_running, sync, m_mutex, runs>>
-------------------------------------------------------------------------------
(* Run *)

Goto(from, to) ==
  /\ pc = from /\ pc' = to
  /\ UNCHANGED <<now, m_mutex>>

Run ==
  /\ runs < MaxRuns /\ runs' = runs + 1
  /\ Goto("idle", "origin")
  /\ m_stop' = FALSE /\ m_running' = TRUE
  /\ UNCHANGED <<m_realtimeOriginNano, events, clock, sync>>

\* DoSetOrigin ignores the simulation time that Run passes to it.
SetOrigin ==
  /\ Goto("origin", "loop")
  /\ m_realtimeOriginNano' = now
  /\ UNCHANGED <<events, clock, m_stop, m_running, sync, runs>>

\* There is an event: ProcessOneEvent.
FindEvent ==
  /\ ~m_stop /\ m_mutex = None /\ m_events # {}
  /\ Goto("loop", "peek")
  /\ UNCHANGED <<m_realtimeOriginNano, events, clock, m_stop, m_running, sync, runs>>

\* There is none: sleep until signalled.  The condition is left as it is.
FindNone ==
  /\ ~m_stop /\ m_mutex = None /\ m_events = {}
  /\ Goto("loop", "sync")
  /\ wait' = [until |-> Realtime + IdleDelay, idle |-> TRUE]
  /\ UNCHANGED <<m_realtimeOriginNano, events, clock, m_stop, m_running, m_condition, timeout, runs>>

EndRun ==
  /\ m_stop /\ m_mutex = None
  /\ Goto("loop", "idle")
  /\ m_running' = FALSE
  /\ UNCHANGED <<m_realtimeOriginNano, events, clock, m_stop, sync, runs>>
-------------------------------------------------------------------------------
(* ProcessOneEvent *)

\* The time to wait for is computed and the condition reset in one section.
NextTs == First.ts

Peek ==
  /\ m_mutex = None /\ m_events # {}
  /\ Goto("peek", "sync")
  /\ wait' = [until |-> IF NextTs <= Realtime THEN Realtime ELSE NextTs, idle |-> FALSE]
  /\ m_condition' = FALSE
  /\ UNCHANGED <<m_realtimeOriginNano, events, clock, m_stop, m_running, timeout, runs>>

\* The head of the list, whether or not it is the event that was waited for
Take ==
  /\ m_mutex = None /\ m_events # {}
  /\ Goto("take", "event")
  /\ m_events' = m_events \ {First}
  /\ m_currentTs' = First.ts /\ m_currentUid' = First.uid
  /\ UNCHANGED <<m_realtimeOriginNano, m_uid, m_stop, m_running, sync, runs>>

EndEvent ==
  /\ Goto("event", "loop")
  /\ UNCHANGED <<m_realtimeOriginNano, events, clock, m_stop, m_running, sync, runs>>
-------------------------------------------------------------------------------
(* Synchronize *)

Unsynchronized == UNCHANGED <<m_realtimeOriginNano, events, clock, m_stop, m_running, runs>>
Step(from, to) == Goto(from, to) /\ Unsynchronized /\ UNCHANGED sync

\* Synchronize returns whether the time was reached.
Return(from, reached) ==
  /\ Goto(from, IF wait.idle THEN "loop" ELSE IF reached THEN "take" ELSE "peek")
  /\ wait' = NotWaiting /\ timeout' = 0
  /\ UNCHANGED m_condition
  /\ Unsynchronized

\* DriftCorrect and TimedWait's computation of its timeout
Remaining == IF wait.until >= Realtime THEN wait.until - Realtime ELSE 0
SleepTime == Remaining - Spin

\* TimedWait carries over only if the nanoseconds exceed a second.  At exactly
\* one second pthread_cond_timedwait rejects the timeout and never times out.
\* The mutant takes no result of it for a timeout.
TimeoutIgnored == FALSE
TimeoutValid == (SleepTime % NsPerSec) + (now % NsPerSec) # NsPerSec
Never == -1

StartSleep ==
  /\ Remaining > Spin
  /\ Goto("sync", "sleep")
  /\ timeout' = IF TimeoutValid THEN now + SleepTime ELSE Never
  /\ Unsynchronized /\ UNCHANGED <<m_condition, wait>>

StartSpin == Remaining <= Spin /\ Step("sync", "drift")

\* TimedWait looks at the condition, under the mutex of the condition ...
Block == ~m_condition /\ Step("sleep", "blocked")
SleepInterrupted == m_condition /\ Return("sleep", FALSE)

\* ... and waits.
TimedOut == timeout # Never /\ now >= timeout /\ Step("blocked", "drift")

\* pthread_cond_timedwait may return without reason, or rejects its timeout.
WokenForNothing == Step("blocked", "sleep")

\* After the sleep, or without one: the clock decides whether to spin.  The
\* mutant does not look at it again.
LateAtOnce == Return("drift", TRUE)
Late == Realtime >= wait.until /\ Return("drift", TRUE)
StillEarly == Realtime < wait.until /\ Step("drift", "spin")

SpinDone == Realtime >= wait.until /\ Return("spin", TRUE)
SpinInterrupted == m_condition /\ Return("spin", FALSE)
-------------------------------------------------------------------------------
\* Time passes; beyond the bound only while an event is waited for.
Tick ==
  /\ now < MaxNow \/ (m_running /\ \E e \in m_events : e.ts > Realtime)
  /\ now' = now + 1
  /\ UNCHANGED <<pc, m_realtimeOriginNano, events, clock, m_stop, m_running, sync, m_mutex, runs>>

\* The simulator is not running, or has nothing to run.
Quiet ==
  /\ pc = "idle" \/ m_events = {}
  /\ m_mutex = None
  /\ UNCHANGED vars

Main ==
  \/ SetOrigin \/ FindEvent \/ FindNone \/ EndRun
  \/ Peek \/ Take \/ EndEvent
  \/ StartSleep \/ StartSpin \/ Block \/ SleepInterrupted \/ TimedOut
  \/ Late \/ StillEarly \/ SpinDone \/ SpinInterrupted

Next ==
  \/ \E d \in Delay : Schedule(d) \/ \E w \in Worker : ScheduleWithContext(w, d)
  \/ \E w \in Worker : Signal(w)
  \/ \E e \in m_events : Remove(e)
  \/ Stop
  \/ Run
  \/ Main
  \/ WokenForNothing
  \/ Tick
  \/ Quiet

Spec == Init /\ [][Next]_vars

\* The threads are scheduled, the wall clock does not stand still, and a wait
\* whose timeout has passed times out although it is also woken for nothing.
Fairness ==
  /\ WF_vars(Main) /\ SF_vars(TimedOut)
  /\ \A w \in Worker : WF_vars(Signal(w))
  /\ WF_vars(Tick)

FairSpec == Spec /\ Fairness
-------------------------------------------------------------------------------
Event == [ts : Nat, uid : Nat]

\* The types of the members and of the synchronizer.
TypeOK ==
  /\ pc \in {"idle", "origin", "loop", "peek", "sync", "sleep", "blocked",
             "drift", "spin", "take", "event"}
  /\ now \in Nat /\ m_realtimeOriginNano \in 0 .. now
  /\ m_events \subseteq Event /\ m_uid \in Nat
  /\ m_currentTs \in Nat /\ m_currentUid \in Nat
  /\ m_stop \in BOOLEAN /\ m_running \in BOOLEAN /\ m_condition \in BOOLEAN
  /\ wait \in [until : Nat, idle : BOOLEAN] /\ timeout \in Nat \cup {Never}
  /\ m_mutex \in Worker \cup {None}
  /\ runs \in 0 .. MaxRuns

Waiting == pc \in {"sync", "sleep", "blocked", "drift", "spin"} /\ wait.until > Realtime

\* No wakeup is lost: while the main thread waits and the condition does not
\* tell it to look again, no event is due before the time it waits for, and
\* there is none if it waits for lack of events; and if the condition does
\* tell it, it is not left blocked once the other thread has signalled.
NoLostWakeup ==
  /\ Waiting /\ ~m_condition =>
       IF wait.idle THEN m_events = {} ELSE \A e \in m_events : e.ts >= wait.until
  /\ pc = "blocked" /\ m_condition => m_mutex # None

\* What ProcessOneEvent says it can be sure of after the wait: it is time to
\* execute whatever event is at the head of the list, and there is one.
HeadIsDue == pc = "take" => m_events # {} /\ First.ts <= Realtime

\* What all ways of scheduling and ProcessOneEvent assert: no thread schedules
\* an event before the current one, although some count from the wall clock
\* and others from the time of the last event.
NoEventFromThePast ==
  \A e \in m_events : Earlier([ts |-> m_currentTs, uid |-> m_currentUid], e)

Queued(uid) == \E e \in m_events : e.uid = uid

\* Every event gets its turn, as long as Run goes on.
EveryEventRuns ==
  \A uid \in 4 .. MaxUid - 1 : m_running /\ Queued(uid) ~> ~m_running \/ ~Queued(uid)
-------------------------------------------------------------------------------
(* The inductive invariant behind NoLostWakeup, HeadIsDue and              *)
(* NoEventFromThePast.                                                     *)

Synchronizing == pc \in {"sync", "sleep", "blocked", "drift", "spin"}

\* The list orders its events, and the current one before them, by uids.
UidsAscend ==
  /\ m_currentUid < m_uid
  /\ \A e \in m_events : e.uid < m_uid
  /\ \A e, f \in m_events : e.uid = f.uid => e = f

\* The event for which Synchronize was called cannot be taken away before Take.
EventAwaited ==
  /\ Synchronizing /\ ~wait.idle => \E e \in m_events : e.ts <= wait.until
  /\ pc = "take" => \E e \in m_events : e.ts <= Realtime

\* Until the condition is set, what Peek or FindNone has seen is still true,
\* or the time has come.
WaitIsCurrent ==
  Synchronizing /\ ~m_condition =>
    IF wait.idle THEN m_events = {}
    ELSE wait.until <= Realtime \/ \A e \in m_events : e.ts >= wait.until

BlockedIsSignalled == pc = "blocked" /\ m_condition => m_mutex # None

RealtimeInv == TypeOK /\ UidsAscend /\ EventAwaited /\ WaitIsCurrent /\ BlockedIsSignalled

\* In the first run the wall clock is never behind the simulation time; a later
\* run sets the origin anew and leaves the simulation time where it was.
ClockLeads ==
  runs <= 1 =>
    /\ m_currentTs <= Realtime
    /\ runs = 0 \/ pc = "origin" => m_currentTs = 0
    /\ runs = 0 => pc = "idle"
    /\ NoEventFromThePast
===============================================================================
