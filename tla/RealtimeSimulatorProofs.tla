------------------------ MODULE RealtimeSimulatorProofs ------------------------
(***************************************************************************)
(* Proofs about the realtime simulator, for any number of threads and      *)
(* events, any delays, and every schedule of the threads and the clock.    *)
(***************************************************************************)
EXTENDS RealtimeSimulator, RecursionLemmas, TLAPS

\* The list has a head, and nothing in it comes before.
LEMMA HeadExists ==
  ASSUME m_events \subseteq Event, UidsAscend, m_events # {}
  PROVE  /\ First \in m_events
         /\ \A f \in m_events \ {First} : Earlier(First, f)
         /\ \A f \in m_events : First.ts <= f.ts
<1> DEFINE T == {e.ts : e \in m_events}
<1>1. T \in SUBSET Nat /\ T # {}
  BY DEF Event
<1>2. PICK t \in T : \A y \in T : t <= y
  BY <1>1, LeastNat
<1> DEFINE U == {e.uid : e \in {f \in m_events : f.ts = t}}
<1>3. U \in SUBSET Nat /\ U # {}
  BY <1>2 DEF Event
<1>4. PICK u \in U : \A y \in U : u <= y
  BY <1>3, LeastNat
<1>5. PICK e \in m_events : e.ts = t /\ e.uid = u
  BY <1>4
<1>6. ASSUME NEW f \in m_events, f # e PROVE Earlier(e, f)
  <2>1. f.uid # e.uid
    BY <1>6 DEF UidsAscend
  <2>2. t <= f.ts
    BY <1>2
  <2>3. f.ts = t => u <= f.uid
    BY <1>4
  <2> QED
    BY <1>5, <2>1, <2>2, <2>3 DEF Earlier, Event
<1>7. \A f \in m_events \ {e} : Earlier(e, f)
  BY <1>6
<1>8. First \in m_events /\ \A f \in m_events \ {First} : Earlier(First, f)
  BY <1>7 DEF First
<1> QED
  BY <1>8 DEF Earlier, Event

\* The bounds are natural numbers.
LEMMA BoundTypes == IdleDelay \in Nat /\ Spin \in Nat /\ MaxRuns \in Nat
BY RealtimeAssumption

LEMMA RealtimeInit == Init => RealtimeInv /\ ClockLeads
<1> SUFFICES ASSUME Init PROVE RealtimeInv /\ ClockLeads
  OBVIOUS
<1>1. TypeOK
  <2>1. m_stop \in BOOLEAN /\ m_running \in BOOLEAN /\ m_condition \in BOOLEAN
    BY DEF Init
  <2>2. wait \in [until : Nat, idle : BOOLEAN]
    BY DEF Init, NotWaiting
  <2> QED
    BY BoundTypes, <2>1, <2>2 DEF Init, TypeOK
<1>2. UidsAscend
  BY DEF Init, UidsAscend
<1>3. EventAwaited /\ WaitIsCurrent /\ BlockedIsSignalled
  BY DEF Init, EventAwaited, WaitIsCurrent, BlockedIsSignalled, Synchronizing
<1>4. ClockLeads
  BY DEF Init, ClockLeads, NoEventFromThePast, Realtime
<1> QED
  BY <1>1, <1>2, <1>3, <1>4 DEF RealtimeInv

\* An event that is inserted gets the highest uid of all.
LEMMA InsertFacts ==
  ASSUME TypeOK, UidsAscend, NEW ts \in Nat, Insert(ts), UNCHANGED clock
  PROVE  /\ m_events' \subseteq Event /\ m_uid' \in Nat
         /\ UidsAscend'
         /\ m_events \subseteq m_events'
         /\ \A e \in m_events' : e \in m_events \/ (e.ts = ts /\ e.uid = m_uid)
BY DEF TypeOK, UidsAscend, Insert, Event, clock

\* Wherever a thread's delay counts from, the time is a natural number.
LEMMA BaseType == TypeOK => Realtime \in Nat /\ Base \in Nat
BY DEF TypeOK, Realtime, Base

\* Scheduling on either kind of thread is an insertion at some time, not before
\* the simulation time or not before the wall clock.
LEMMA ScheduleFacts ==
  ASSUME TypeOK, NEW d \in Delay,
         \/ Insert(m_currentTs + d) \/ Insert(Realtime + d) \/ Insert(Base + d)
  PROVE  \E ts \in Nat : Insert(ts) /\ (ts >= m_currentTs \/ ts >= Realtime)
<1>1. d \in Nat /\ m_currentTs \in Nat /\ Realtime \in Nat /\ Base \in {Realtime, m_currentTs}
  BY BaseType, RealtimeAssumption DEF TypeOK, Base
<1> QED
  BY <1>1

LEMMA RealtimeStep == RealtimeInv /\ [Next]_vars => RealtimeInv'
<1> SUFFICES ASSUME RealtimeInv, [Next]_vars PROVE RealtimeInv'
  OBVIOUS
<1> USE RealtimeAssumption
<1>0. TypeOK /\ UidsAscend /\ EventAwaited /\ WaitIsCurrent /\ BlockedIsSignalled
      /\ Realtime \in Nat
  BY BaseType DEF RealtimeInv
<1>1. ASSUME NEW d \in Delay, Schedule(d) PROVE RealtimeInv'
  <2>1. PICK ts \in Nat : Insert(ts)
    BY <1>0, <1>1, ScheduleFacts DEF Schedule
  <2>2. UNCHANGED clock
    BY <1>1 DEF Schedule
  <2>3. TypeOK'
    BY <1>0, <1>1, <2>1, <2>2, InsertFacts DEF TypeOK, Schedule, clock
  <2>4. UidsAscend'
    BY <1>0, <2>1, <2>2, InsertFacts
  <2>5. EventAwaited' /\ WaitIsCurrent' /\ BlockedIsSignalled'
    BY <1>1 DEF Schedule, InProgram, EventAwaited, WaitIsCurrent, BlockedIsSignalled, Synchronizing
  <2> QED
    BY <2>3, <2>4, <2>5 DEF RealtimeInv
<1>2. ASSUME NEW d \in Delay, NEW w \in Worker, ScheduleWithContext(w, d) PROVE RealtimeInv'
  <2>1. PICK ts \in Nat : Insert(ts)
    BY <1>0, <1>2, ScheduleFacts DEF ScheduleWithContext
  <2>2. UNCHANGED clock
    BY <1>2 DEF ScheduleWithContext
  <2>3. TypeOK'
    BY <1>0, <1>2, <2>1, <2>2, InsertFacts DEF TypeOK, ScheduleWithContext, ConditionSet, clock
  <2>4. UidsAscend' /\ m_events \subseteq m_events'
    BY <1>0, <2>1, <2>2, InsertFacts
  <2>5. EventAwaited'
    BY <1>0, <1>2, <2>4 DEF ScheduleWithContext, EventAwaited, Synchronizing, Realtime
  <2>6. WaitIsCurrent' /\ BlockedIsSignalled'
    BY <1>2 DEF ScheduleWithContext, ConditionSet, WaitIsCurrent, BlockedIsSignalled
  <2> QED
    BY <2>3, <2>4, <2>5, <2>6 DEF RealtimeInv
<1>3. ASSUME NEW w \in Worker, Signal(w) PROVE RealtimeInv'
  <2>1. TypeOK' /\ UidsAscend'
    BY <1>0, <1>3 DEF Signal, TypeOK, UidsAscend, events, clock, sync
  <2>2. EventAwaited' /\ WaitIsCurrent' /\ BlockedIsSignalled'
    BY <1>0, <1>3 DEF Signal, EventAwaited, WaitIsCurrent, BlockedIsSignalled, Synchronizing,
                      Realtime, events, sync
  <2> QED
    BY <2>1, <2>2 DEF RealtimeInv
<1>4. ASSUME NEW e \in m_events, Remove(e) PROVE RealtimeInv'
  <2>1. TypeOK' /\ UidsAscend'
    BY <1>0, <1>4 DEF Remove, TypeOK, UidsAscend, clock, sync
  <2>2. EventAwaited' /\ WaitIsCurrent' /\ BlockedIsSignalled'
    BY <1>4 DEF Remove, InProgram, EventAwaited, WaitIsCurrent, BlockedIsSignalled, Synchronizing
  <2> QED
    BY <2>1, <2>2 DEF RealtimeInv
<1>5. CASE Stop \/ Run \/ SetOrigin \/ FindEvent \/ EndRun \/ EndEvent
  <2>1. TypeOK'
    <3>1. m_stop' \in BOOLEAN /\ m_running' \in BOOLEAN
      BY <1>0, <1>5 DEF Stop, Run, SetOrigin, FindEvent, EndRun, EndEvent, TypeOK
    <3>2. runs' \in 0 .. MaxRuns /\ now' \in Nat /\ m_realtimeOriginNano' \in 0 .. now'
      BY <1>0, <1>5, BoundTypes DEF Stop, Run, SetOrigin, FindEvent, EndRun, EndEvent, Goto, TypeOK
    <3> QED
      BY <1>0, <1>5, <3>1, <3>2 DEF Stop, Run, SetOrigin, FindEvent, EndRun, EndEvent, Goto, TypeOK,
                                    events, clock, sync
  <2>3. UidsAscend'
    BY <1>0, <1>5 DEF Stop, Run, SetOrigin, FindEvent, EndRun, EndEvent, Goto,
                      UidsAscend, events, clock, sync
  <2>2. EventAwaited' /\ WaitIsCurrent' /\ BlockedIsSignalled'
    BY <1>0, <1>5 DEF Stop, Run, SetOrigin, FindEvent, EndRun, EndEvent, Goto, InProgram,
                      EventAwaited, WaitIsCurrent, BlockedIsSignalled, Synchronizing
  <2> QED
    BY <2>1, <2>2, <2>3 DEF RealtimeInv
<1>6. CASE FindNone
  <2>1. TypeOK' /\ UidsAscend'
    BY <1>0, <1>6 DEF FindNone, Goto, TypeOK, UidsAscend, events, clock
  <2>2. EventAwaited' /\ WaitIsCurrent' /\ BlockedIsSignalled'
    BY <1>0, <1>6 DEF FindNone, Goto, EventAwaited, WaitIsCurrent, BlockedIsSignalled,
                      Synchronizing, events
  <2> QED
    BY <2>1, <2>2 DEF RealtimeInv
<1>7. CASE Peek
  <2>1. First \in m_events /\ First.ts \in Nat /\ \A f \in m_events : First.ts <= f.ts
    BY <1>0, <1>7, HeadExists DEF Peek, TypeOK, Event
  <2>2. TypeOK' /\ UidsAscend'
    BY <1>0, <1>7, <2>1 DEF Peek, Goto, NextTs, TypeOK, UidsAscend, events, clock
  <2>3. EventAwaited' /\ BlockedIsSignalled'
    BY <1>0, <1>7, <2>1 DEF Peek, Goto, NextTs, EventAwaited, BlockedIsSignalled, Synchronizing, events
  <2>4. WaitIsCurrent'
    BY <1>0, <1>7, <2>1 DEF Peek, Goto, NextTs, WaitIsCurrent, Synchronizing, Realtime, events
  <2> QED
    BY <2>2, <2>3, <2>4 DEF RealtimeInv
<1>8. CASE Take
  <2>1. First \in m_events /\ First \in Event /\ First.uid < m_uid
    BY <1>0, <1>8, HeadExists DEF Take, TypeOK, UidsAscend
  <2>2. TypeOK' /\ UidsAscend'
    BY <1>0, <1>8, <2>1 DEF Take, Goto, TypeOK, UidsAscend, Event, sync
  <2>3. EventAwaited' /\ WaitIsCurrent' /\ BlockedIsSignalled'
    BY <1>8 DEF Take, Goto, EventAwaited, WaitIsCurrent, BlockedIsSignalled, Synchronizing
  <2> QED
    BY <2>2, <2>3 DEF RealtimeInv
<1>9. CASE StartSleep
  <2>1. Remaining \in Nat /\ timeout' \in Nat \cup {Never}
    BY <1>0, <1>9 DEF StartSleep, Remaining, SleepTime, TypeOK
  <2>2. TypeOK' /\ UidsAscend'
    BY <1>0, <1>9, <2>1 DEF StartSleep, Goto, Unsynchronized, TypeOK, UidsAscend, events, clock
  <2>3. EventAwaited' /\ WaitIsCurrent' /\ BlockedIsSignalled'
    BY <1>0, <1>9 DEF StartSleep, Goto, Unsynchronized, EventAwaited, WaitIsCurrent,
                      BlockedIsSignalled, Synchronizing, Realtime, events
  <2> QED
    BY <2>2, <2>3 DEF RealtimeInv
<1>10. CASE StartSpin \/ Block \/ TimedOut \/ WokenForNothing \/ StillEarly
  <2>1. TypeOK' /\ UidsAscend'
    BY <1>0, <1>10 DEF StartSpin, Block, TimedOut, WokenForNothing, StillEarly, Step, Goto,
                       Unsynchronized, TypeOK, UidsAscend, events, clock, sync
  <2>2. EventAwaited' /\ WaitIsCurrent' /\ BlockedIsSignalled'
    BY <1>0, <1>10 DEF StartSpin, Block, TimedOut, WokenForNothing, StillEarly, Step, Goto,
                       Unsynchronized, EventAwaited, WaitIsCurrent, BlockedIsSignalled,
                       Synchronizing, Realtime, events, sync
  <2> QED
    BY <2>1, <2>2 DEF RealtimeInv
<1>11. CASE SleepInterrupted \/ Late \/ SpinDone \/ SpinInterrupted
  <2>1. PICK from \in {"sleep", "drift", "spin"}, reached \in BOOLEAN :
          Return(from, reached) /\ (reached => Realtime >= wait.until)
    BY <1>11 DEF SleepInterrupted, Late, SpinDone, SpinInterrupted
  <2>2. TypeOK' /\ UidsAscend'
    BY <1>0, <2>1 DEF Return, Goto, Unsynchronized, NotWaiting, TypeOK, UidsAscend, events, clock
  <2>3. EventAwaited'
    <3>1. pc' = "take" => \E e \in m_events : e.ts <= Realtime
      BY <1>0, <2>1 DEF Return, Goto, EventAwaited, Synchronizing, TypeOK, Event
    <3> QED
      BY <2>1, <3>1 DEF Return, Goto, Unsynchronized, EventAwaited, Synchronizing, Realtime, events
  <2>4. WaitIsCurrent' /\ BlockedIsSignalled'
    BY <2>1 DEF Return, Goto, WaitIsCurrent, BlockedIsSignalled, Synchronizing
  <2> QED
    BY <2>2, <2>3, <2>4 DEF RealtimeInv
<1>12. CASE Tick
  <2>1. TypeOK' /\ UidsAscend'
    BY <1>0, <1>12 DEF Tick, TypeOK, UidsAscend, events, clock, sync
  <2>2. Realtime' = Realtime + 1
    BY <1>0, <1>12 DEF Tick, TypeOK, Realtime
  <2>3. EventAwaited' /\ WaitIsCurrent' /\ BlockedIsSignalled'
    BY <1>0, <1>12, <2>2 DEF Tick, EventAwaited, WaitIsCurrent, BlockedIsSignalled, Synchronizing,
                             TypeOK, Event, events, sync
  <2> QED
    BY <2>1, <2>3 DEF RealtimeInv
<1>13. CASE UNCHANGED vars
  BY <1>0, <1>13 DEF RealtimeInv, TypeOK, UidsAscend, EventAwaited, WaitIsCurrent,
       BlockedIsSignalled, Synchronizing, Realtime, vars, events, clock, sync
<1> QED
  BY <1>1, <1>2, <1>3, <1>4, <1>5, <1>6, <1>7, <1>8, <1>9, <1>10, <1>11, <1>12, <1>13
  DEF Next, Main, Quiet

\* What the wall clock and the simulation time say in the first run, step by step
LEMMA ClockStep == RealtimeInv /\ ClockLeads /\ [Next]_vars => ClockLeads'
<1> SUFFICES ASSUME RealtimeInv, ClockLeads, [Next]_vars, runs' <= 1
             PROVE  /\ m_currentTs' <= Realtime'
                    /\ runs' = 0 \/ pc' = "origin" => m_currentTs' = 0
                    /\ runs' = 0 => pc' = "idle"
                    /\ NoEventFromThePast'
  BY DEF ClockLeads
<1> DEFINE Goal == /\ m_currentTs' <= Realtime'
                   /\ runs' = 0 \/ pc' = "origin" => m_currentTs' = 0
                   /\ runs' = 0 => pc' = "idle"
                   /\ NoEventFromThePast'
<1>0. /\ TypeOK /\ UidsAscend /\ EventAwaited
      /\ Realtime \in Nat /\ runs \in Nat
  BY BaseType, BoundTypes DEF RealtimeInv, TypeOK
<1>1. ASSUME runs <= 1
      PROVE  /\ m_currentTs <= Realtime
             /\ runs = 0 \/ pc = "origin" => m_currentTs = 0
             /\ runs = 0 => pc = "idle"
             /\ NoEventFromThePast
  BY <1>1 DEF ClockLeads
<1>2. ASSUME UNCHANGED <<m_realtimeOriginNano, now, clock, runs>>, pc' # "origin" \/ pc = "origin",
             pc = "idle" => pc' = "idle",
             m_events' \subseteq m_events
      PROVE  Goal
  BY <1>1, <1>2 DEF clock, Realtime, NoEventFromThePast, Earlier
<1>3. ASSUME NEW d \in Delay,
             \/ Insert(m_currentTs + d) \/ Insert(Realtime + d) \/ Insert(Base + d),
             UNCHANGED <<m_realtimeOriginNano, now, clock, runs, pc>>
      PROVE  Goal
  <2>1. m_currentTs' = m_currentTs /\ Realtime' = Realtime /\ runs' = runs /\ m_currentUid' = m_currentUid
    BY <1>3 DEF clock, Realtime
  <2>2. PICK ts \in Nat : Insert(ts) /\ (ts >= m_currentTs \/ ts >= Realtime)
    BY <1>0, <1>3, ScheduleFacts
  <2>3. ts >= m_currentTs
    BY <1>0, <1>1, <2>1, <2>2 DEF TypeOK
  <2>4. \A e \in m_events' : e \in m_events \/ (e.ts = ts /\ e.uid = m_uid)
    BY <1>0, <1>3, <2>2, InsertFacts
  <2>5. NoEventFromThePast'
    BY <1>0, <1>1, <2>1, <2>3, <2>4 DEF NoEventFromThePast, Earlier, UidsAscend, TypeOK
  <2> QED
    BY <1>1, <1>3, <2>1, <2>5
<1>4. CASE \E d \in Delay : Schedule(d) \/ \E w \in Worker : ScheduleWithContext(w, d)
  BY <1>3, <1>4 DEF Schedule, ScheduleWithContext
<1>5. CASE Run
  <2>1. runs = 0
    BY <1>0, <1>5 DEF Run
  <2> QED
    BY <1>0, <1>1, <1>5, <2>1 DEF Run, Goto, clock, events, Realtime, NoEventFromThePast, Earlier
<1>6. CASE SetOrigin
  BY <1>0, <1>1, <1>6 DEF SetOrigin, Goto, clock, events, Realtime, TypeOK, NoEventFromThePast, Earlier
<1>7. CASE Take
  <2>1. First \in m_events /\ First.ts <= Realtime /\ \A f \in m_events \ {First} : Earlier(First, f)
    <3>1. PICK e \in m_events : e.ts <= Realtime
      BY <1>0, <1>7 DEF Take, Goto, EventAwaited
    <3>2. First \in m_events /\ \A f \in m_events \ {First} : Earlier(First, f) 
      BY <1>0, <3>1, HeadExists DEF TypeOK
    <3> QED
      BY <1>0, <3>1, <3>2, HeadExists DEF TypeOK, Event
  <2>2. runs # 0
    BY <1>0, <1>1, <1>7 DEF Take, Goto
  <2> QED
    BY <1>0, <1>1, <1>7, <2>1, <2>2 DEF Take, Goto, Realtime, NoEventFromThePast, Earlier, TypeOK, Event
<1>8. CASE Tick
  <2>1. Realtime' = Realtime + 1
    BY <1>0, <1>8 DEF Tick, TypeOK, Realtime
  <2> QED
    BY <1>0, <1>1, <1>8, <2>1 DEF Tick, events, clock, TypeOK, NoEventFromThePast, Earlier
<1>9. CASE \/ \E w \in Worker : Signal(w)
           \/ \E e \in m_events : Remove(e)
           \/ Stop \/ FindEvent \/ FindNone \/ EndRun \/ Peek \/ EndEvent
  BY <1>2, <1>9 DEF Signal, Remove, Stop, FindEvent, FindNone, EndRun, Peek, EndEvent, Goto,
                    InProgram, events
<1>10. CASE \/ StartSleep \/ StartSpin \/ Block \/ SleepInterrupted \/ TimedOut
            \/ Late \/ StillEarly \/ SpinDone \/ SpinInterrupted \/ WokenForNothing
  BY <1>2, <1>10 DEF StartSleep, StartSpin, Block, SleepInterrupted, TimedOut, Late, StillEarly,
                     SpinDone, SpinInterrupted, WokenForNothing, Step, Return, Goto,
                     Unsynchronized, events
<1>11. CASE UNCHANGED vars
  BY <1>2, <1>11 DEF vars, events
<1> QED
  BY <1>4, <1>5, <1>6, <1>7, <1>8, <1>9, <1>10, <1>11 DEF Next, Main, Quiet

\* The members of the simulator and of its synchronizer keep their types.
THEOREM RealtimeTypes == Spec => []TypeOK
<1>1. RealtimeInv => TypeOK
  BY DEF RealtimeInv
<1> QED
  BY <1>1, RealtimeInit, RealtimeStep, PTL DEF Spec

\* No wakeup is lost between the main thread's look at the event list, its look
\* at the condition and its wait, whatever other threads schedule meanwhile.
THEOREM WakeupsArrive == Spec => []NoLostWakeup
<1>1. RealtimeInv => NoLostWakeup
  BY BaseType DEF RealtimeInv, NoLostWakeup, Waiting, WaitIsCurrent, BlockedIsSignalled,
                  Synchronizing, TypeOK
<1> QED
  BY <1>1, RealtimeInit, RealtimeStep, PTL DEF Spec

\* When the wait ends by reaching its time, the head of the list is due,
\* whether or not it is the event that was waited for.
THEOREM HeadDue == Spec => []HeadIsDue
<1>1. ASSUME RealtimeInv, pc = "take" PROVE m_events # {} /\ First.ts <= Realtime
  <2>1. PICK e \in m_events : e.ts <= Realtime
    BY <1>1 DEF RealtimeInv, EventAwaited
  <2>2. First \in m_events /\ First.ts <= e.ts
    BY <1>1, <2>1, HeadExists DEF RealtimeInv, TypeOK
  <2> QED
    BY <1>1, <2>1, <2>2, BaseType DEF RealtimeInv, TypeOK, Event
<1>2. RealtimeInv => HeadIsDue
  BY <1>1 DEF HeadIsDue
<1> QED
  BY <1>2, RealtimeInit, RealtimeStep, PTL DEF Spec

\* Throughout the first run no thread schedules an event before the current
\* one, whichever clock its delay counts from.
THEOREM FirstRunForward == Spec => [](runs <= 1 => NoEventFromThePast)
<1>1. ClockLeads => (runs <= 1 => NoEventFromThePast)
  BY DEF ClockLeads
<1> QED
  BY <1>1, RealtimeInit, RealtimeStep, ClockStep, PTL DEF Spec
===============================================================================
