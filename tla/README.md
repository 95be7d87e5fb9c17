# Verification of the simulators and mesh protocols of ns3psm

ns3psm is a fork of ns-3.16 (`src/ns-3.16`). What the fork adds to upstream is
a load balancer for the parallel simulator: applications that count events and
traffic, merge the counts of all MPI ranks, cluster the simulated network and
move nodes from rank to rank while the simulation runs. This project models
that load balancer, the parallel simulator below it, the event lists below
both, the other two simulators of the core (default and realtime), and the two
protocols of the 802.11s mesh models. TLA+ modules are checked with TLC on small instances; what matters most
is proved with TLAPS for every instance.

Paths below are relative to `src/ns-3.16/src`.

## 1. Inventory

| Component | State | Operations | Interacts with |
|---|---|---|---|
| Distributed simulator, `mpi/model/distributed-simulator-impl.cc` | event queue, `m_uid`, `m_currentTs`, `m_grantedTime`, `m_lookAhead`, `m_stop`, `m_pLBTS`, on every rank | `CalculateLookAhead`, `Run`, `ProcessOneEvent`, `Schedule*`, `Stop`, `Cancel`, `Remove`, `IsExpired`, destroy events | event lists; MPI interface; load balancer, which runs inside an event |
| MPI interface, `mpi/model/mpi-interface.cc`, `mpi-receiver.cc` | posted receives, pending sends, `uint32_t` counters of messages sent and received | `SendPacket`, `ReceiveMessages`, `TestSendComplete`, `Enable`, `Disable` | remote channels call it, the simulator polls it, it schedules events |
| Point-to-point links, `point-to-point/` | channel delay, traffic counters, device queue and READY/BUSY state | `Install`, `TransmitStart`, `TransmitComplete`, `Receive`, `Send` | schedule events, or call `SendPacket` on remote channels |
| Load balancer, `mpi/model/load-balancing-application.*`, `mpi/helper/` | network graph, distributed queues of graphs, nodes and applications, iteration number | `StartApplication`, `Reclustering`, `IncNodeLoad`, `UpdateNetworkGraph`, `MergeNetworkGraph`, `ClusterNetworkGraph` | barriers between all ranks; changes system ids of nodes, creates applications |
| Event lists, `core/model/*-scheduler.cc` | list, map, heap or calendar of events | `Insert`, `PeekNext`, `RemoveNext`, `Remove` | called by every simulator |
| Default simulator, `core/model/default-simulator-impl.cc` | queue, uids, destroy events, list of events from other threads | as above, and `ScheduleWithContext` from other threads | event lists |
| Realtime simulator, `core/model/realtime-simulator-impl.cc`, `wall-clock-synchronizer.cc`, `unix-system-condition.cc` | the same behind a mutex, and a synchronizer with a condition and the wall clock's origin | as above, with waits for the wall clock: sleep, spin, `Signal` | other threads |
| 802.11s peer links, `mesh/model/dot11s/peer-link.cc`, `peer-management-protocol.cc` | a link per peer: state, link ids, retry counter, four timers; number of links | beacons, open, confirm and close frames, timeouts, transmission failures | wifi MAC; tells HWMP which links opened and closed |
| 802.11s HWMP, `mesh/model/dot11s/hwmp-*.cc` | routes with sequence numbers and precursors, packets that wait, pending retries, requests and errors that wait for an interval | path requests, answers and errors; data | wifi MAC, peer links |
| `lso` clustering, `mpi/model/lso_*` | matrices of losses | local search | called by rank 0 in the load balancer |
| everything else in ns-3 (internet, wifi, lte, ...), bundled tools | | | upstream or vendored |
| `src/shiva` | | two stand-alone programs that set a mode from two bits | none |

### What is hard here, and what makes each component correct

* **Distributed simulator.** Every rank runs on its own, meets the others only
  in `MPI_Allgather`, and is granted time up to the smallest next event of all
  ranks plus its own lookahead. Messages may be in flight while that happens;
  only wrapping counters tell. Correct means: no rank is ever handed an event
  from its past; equal totals mean that nothing is in flight; grants never move
  back; a stopped rank has left nothing behind that was due; `Run` returns on
  every rank.
* **MPI interface.** Messages overtake each other. A packet goes only where its
  device has a receiver.
* **Load balancer.** Two kinds of collectives, the simulator's and the
  balancer's, are entered from each rank's own event queue and have to agree.
  Decisions use rank 0's replica of the system ids. Correct means: the barriers
  agree and every reclustering ends; every node is executed by exactly one rank;
  its applications run on one rank; the merged graph is what all ranks counted.
* **Event lists.** Whatever is inserted and removed, `RemoveNext` returns the
  earliest event, and events of one time come in the order of scheduling.
* **Default simulator.** Other threads append to a list whose emptiness the main
  thread reads without a lock. Correct means: no event is lost, run twice, run
  in the past or run after it was cancelled, and `IsExpired`, which compares
  times and uids only, is right about every event at every moment.
* **Realtime simulator.** The time of the next event is read under the lock, the
  wait is not. Correct means: no wakeup is lost, whatever is run is due, and
  every event gets its turn.
* **Peer links.** Both ends open the link at once, frames are lost, and frames of
  an earlier link arrive during the next. Correct means: both ends mean the same
  link, each state has its timer, no negotiation lasts for ever, and the links
  that are counted are those that are there.
* **HWMP.** Requests are flooded, answered by whoever knows, lost and repeated.
  Correct means: no packet waits for ever, routes have no loops, and a sequence
  number is believed only if its owner issued it.

`PROJECT.json` lists the hazards line by line, each with its properties.

## 2. Modules

| Module | Models |
|---|---|
| `DistributedSimulator` | `Run` on every rank, the MPI messages, the links between nodes |
| `DistributedSimulatorProofs` | the theorems about it and about `LoadBalancing` |
| `RecursionLemmas` | the least-number principle, induction over an index, and existence of the value of a loop, which the proofs about `CalculateLookAhead`'s scan, the sums of counters and weights and the loops of the heap and the calendar rest on; what cutting and joining lists does to their members |
| `LoadBalancing` | EXTENDS `DistributedSimulator`: reclustering, moves of nodes and applications |
| `NetworkGraph` | loads and traffic, the merge on rank 0, the weights for the clustering |
| `NetworkGraphProofs` | its theorems |
| `EventKey`, `EventQueue` | keys of events; what the `Scheduler` interface promises (abstract specification, and what `std::map` makes of `MapScheduler`) |
| `ListScheduler`, `HeapScheduler`, `CalendarScheduler` | three implementations, refinements of `EventQueue` |
| `EventLists` | the three side by side, each with its own last event |
| `SchedulerProofs` | the contract implies the order that the simulators assert, and list, calendar and heap implement it |
| `DefaultSimulator` | the sequential simulator and threads that inject events |
| `DefaultSimulatorProofs` | its theorems |
| `RealtimeSimulator` | the realtime simulator, its synchronizer and the wall clock |
| `RealtimeSimulatorProofs` | its theorems |
| `PeerLink` | peer links and their management on every station |
| `PeerLinkProofs` | its theorems |
| `HwmpProtocol` | reactive path discovery on every station |
| `HwmpProofs` | its theorems |
| `MCDistributedSimulator`, `MCLoadBalancing`, `MCNetworkGraph`, `MCPeerLink`, `MCHwmp` | topologies, limits and symmetry for TLC |
| `MCSchedulers` | the three event lists of `EventLists`, driven by the same calls |

### DistributedSimulator

`pc[r]` is where rank r is in `Run`: `run` (the loop, or an event), `recv`
(polling `MPI_Testany`), `gather` (inside `MPI_Allgather`), `lbts` (it returned,
the sums are not yet evaluated), `done`. The other variables have the names of
the members. `net` holds the messages in flight in any order.

`ProcessQuietly`, `ProcessSchedule`, `ProcessTransmit`, `ProcessStop` and
`ProcessLbStart` are `ProcessOneEvent` for the different handlers; `EnterLbts`,
`ReceiveMessage`, `EnterAllgather`, `Allgather`, `UpdateGrantedTime` and
`ExitRun` are the rest of `Run`. `LookAhead` is the scan of
`CalculateLookAhead` over all devices in order, including its test for zero.
`Invokes` is the test that lets events of node 0 run everywhere.

Abstractions:

* A handler does nothing, schedules one event, or starts one transmission.
  Handlers that do more are sequences of events of one time here.
* Events have a kind and a context and no arguments. The start events of a
  node's devices and applications, at the same time and in the same context,
  are part of the node's start event.
* `PointToPointNetDevice::TransmitStart` schedules `TransmitComplete` after the
  transmission time (the interframe gap, by default zero, is left out); the
  device's queue and state are not there, so a node may transmit
  more often than a device would let it.
* Uids grow without bound; only their order matters. `m_unscheduledEvents`
  feeds an assertion on the local queue only, and is left out.
* A rank whose queue is empty has returned from `Run`: the test of
  `m_events->IsEmpty ()` inside the loop cannot be true there.
* `Installed` says on which ranks the script gave a node's replica something to
  do: `OwnNodes` is a script that tests the system id, as the examples do.

### LoadBalancing

`pc` gets the phases `graph`, `nodes` and `apps` of `MergeNetworkGraph`. The
`synchronize` calls and the `empty ()` of a distributed queue, which returns
true only when the queues of all ranks are empty, are the steps that all ranks
take together (`ClusterNetworkGraph`, `CompleteNodes`, `CompleteApps`).
`m_sid` is each rank's replica of the system ids: moving a node writes the old
rank's replica only. `Clusterings` stands for any result of the clustering,
which may also throw. `AppEvents` has both start events of a moved application,
the first at twice the current time, as `SetStartTime (Now)` and `Start` make
it. What a moved application does later runs outside of its node's context.

### NetworkGraph

The same reclusterings seen from the graph: `load` and `weight` of each rank,
the graphs on their way to rank 0, `max_traffic`, and what is written for the
clustering. `handled` and `sent` are history variables that the code does not
have. There is one edge per channel, packets have size 1, and the quotient
`(max_traffic - weight) / max_traffic` is kept without the division.
A remote channel's counter starts from any value of `Garbage`, since its
constructor does not set it.

### Event lists

The caller is a simulator: it schedules nothing before the event it took last,
and removes only what is in the list. `EventKey` leaves out the context,
which has no part in the order. The heap's `BottomUp` and `TopDown` are
the code's loops, as functions of the number of turns (`Rise` and `Sink` are one
turn); so are the calendar's loops (`Removals`, `Totals`, `AfterInserts`,
`AfterBuckets`). The calendar's variable `cal` is the record
of its members; the search over the buckets is `Due`, the set of buckets whose
head belongs to this year, and the least of them; `Resize` moves the events in
the order of the code, with the width that `CalculateNewWidth` gets from the
samples it takes out and puts back. `TwoTo32` is the number of values of a
`uint32_t`. The width is what 32 bits keep of it (`calendar-scheduler.cc:343`);
if they keep nothing, `Init` divides by zero, the process ends (`aborted`) and
nothing is called any more. `PeekNext` (and not `RemoveNext`) starts its search
for the minimum from a time and a uid of 32 ones (`NoneFound`): `TwoTo32 - 1`
and `MaxUid`, above every uid in use.

### DefaultSimulator

`pc` is where the main thread is: in the script (`idle`), in
`ProcessEventsWithContext` (`check`, `swap`, `insert`), in the loop of `Run`, in
an event, or in `Destroy`. Each step is at most one critical section; `Inject`,
the other threads' `ScheduleWithContext`, may come between any two. Event
objects are numbers, so that several ids of one object and the flag `m_cancel`
inside it are as in the code. The unlocked read of `m_eventsWithContextEmpty` is
a race: `FindEmpty` is possible whatever the flag says, `FindInjected` only if
it is cleared. Uids are counted modulo `W`. `revoked`, `invoked` and `injected`
are history variables. Destroy events have uid 2, as in the code, and
`IsExpired` and `Remove` decide by it. The event list is a set from which the
least is taken, the contract of section "Event lists".

### RealtimeSimulator

`now` is the wall clock, which `Tick` advances at any moment. The main thread's
`pc` runs through `Run`, `ProcessOneEvent` and the synchronizer: `sync` (the
delay is known, the lock released), `sleep` (before the test in `TimedWait`),
`blocked` (in `pthread_cond_timedwait`), `drift` (before the second look at the
clock), `spin`. Another thread schedules in two steps, both inside the
simulator's mutex: `SetCondition` writes the flag without a lock of its own,
then `Signal` takes the condition's mutex, which `TimedWait` holds except while
the thread is blocked. `Spin` is the time that is spun rather than slept,
`IdleDelay` the second for which an idle simulator sleeps, `NsPerSec` the
carry of `TimedWait`. Handlers take any time: `Tick` may come while an event
runs. Schedule counts from the simulation's time and ScheduleRealtime from the
wall clock; both are in `Schedule`, and in `ScheduleWithContext` for other threads.

### PeerLink

`m_peerLinks[<<s, t>>]` is what s knows of its link to t. The state machine is
four functions of state and event: `NextState`, `Clears`, `Sets` (timers) and
`Sends`. A timer is in the set `timers` while it is scheduled, and fires at any
time. Frames between two stations keep their order, as the wifi MAC's queue
does, and any of them may be lost. An erased link whose beacon loss timer is
still scheduled is in `dropped`; what remains of it can only look for the peer's
current link (`LateBeaconLoss`).

### HwmpProtocol

`node[s]` is the record of the protocol's members at s. Every handler is an
operator from such a record to the next, called as the code calls it, and
collects the frames it sends in `out`; the action then puts any part of them on
the air (`Handled`). Link metrics are constants. The lifetime of a route ends by
`Expire`; an expired route stays in the table, as in the code, with its sequence
number. A valid route in its last unit of 1024 microseconds does not answer
requests (`hwmp-protocol.cc:527-528`): `ending`, any set of destinations with a
valid route, is chosen with each frame. `m_preqTimeouts[d]` is the retry number of the pending event for d, 0 if
there is none.

## 3. Runs

Passing runs:

| Run | Checks |
|---|---|
| `two_ranks` | two ranks, a chain of three nodes, one link remote and one local: `TypeOK`, `NoEventFromThePast`, `ReceiverPresent`, `TransientsDetected`, `StopLosesNothing`, `GrantNeverRetracted`, `NoStrandedRank`, and `InductiveInvariant` of the proofs |
| `rebalance` | two ranks that recluster while they simulate: `LbTypeOK`, `AtMostOneExecutor`, `BarriersAgree`, `NoEventFromThePast`, and under fairness `RunReturns` |
| `graph_merge` | three ranks, two merges: `TypeOK`, `TrafficMerged`, `WeightsNormalised` |
| `schedulers` | list, heap (up to five events) and calendar, with times and widths beyond what its 32 bits hold: `PeekFindsEarliest`, and the refinements `ListImplementsQueue`, `HeapImplementsQueue`, `CalendarImplementsQueue` |
| `default_simulator` | four events, two calls of `Run`, then `Destroy`: `NeitherLostNorDoubled`, `ExpiryIsExact`, `NoEventUncounted`, `RevokedStaysSilent`, `NoEventFromThePast`, `InjectionOrderKept` |
| `realtime` | the main thread and another one, three events: `TypeOK`, `NoLostWakeup`, `HeadIsDue`, `NoEventFromThePast`, and under fairness `EveryEventRuns` |
| `peer_link` | three stations in a row, one of which may open a second link: `TypeOK`, `TimersMatchState`, `LinksCounted`, `IdsAgree`, and under fairness `NegotiationEnds` |
| `path_discovery` | three stations in a row, two of which send to the third: `TypeOK`, `QueuedIsPending`, `LoopFree`, `NumbersAreGenuine` |

Runs that TLC refutes, each against a sentence of the repository (quoted in
`PROJECT.json`):

| Run | What the code does |
|---|---|
| `unequal_lookahead` | ranks with different lookaheads: the one with the larger reaches the stop time and returns; the others wait for it in `MPI_Allgather` for ever |
| `orphaned_node` | after a move no rank takes itself for the node's rank |
| `heap_remove` | `HeapScheduler::Remove` only lets the last item sink; of seven events at two times one is removed, the heap breaks, and the simulator takes an event at time 1 while one at time 0 is still there, with which its clock will run backwards |
| `calendar_peek` | `CalendarScheduler::PeekNext` starts its search from 2^32 - 1 ns and overlooks events at 2^32 ns or later that are not due this year of the calendar; the distributed and the realtime simulator take the next time from it |

More that the models show. Five of these failures have a configuration of their
own, for which TLC finds the property violated:

| Configuration, module | Property | What the code does |
|---|---|---|
| `queue_limit.cfg`, `MCHwmp` | `QueueWithinLimit` | `QueuePacket` tests with `>` (`hwmp-protocol.cc:876`) and stores one packet more than "Maximum number of packets we can store when resolving route" (`hwmp-protocol.cc:59`) |
| `calendar_width.cfg`, `CalendarScheduler` | `NeverDividesByZero` | `CalculateNewWidth` returns 32 of the width's 64 bits (`calendar-scheduler.cc:343`). Events at 0, 0, 0, 2^31 and 2^32 ns leave a width of 0, by which `Init` divides |
| `stale_beacon_loss.cfg`, `MCPeerLink` | `StatusFindsNoLink` | a link that timed out leaves its beacon loss timer behind; when it fires after the next link to the same peer was initiated, the assertion at `peer-management-protocol.cc:509` fails |
| `link_limit.cfg`, `MCPeerLink` | `WithinLimit` | with a "Maximum number of peer links" (`peer-management-protocol.cc:53`) of one, a station establishes two: `ShouldSendOpen` and `ShouldAcceptOpen` test with `<=` and `>` and count established links only |
| `merged_load.cfg`, `MCNetworkGraph` | `LoadIsHandled` | the second merge adds the other ranks' cumulative loads to rank 0's once more (`load-balancing-application.cc:351`) |

Others show when the constants of a run are changed:

* A zero delay between ranks counts as no lookahead yet
  (`distributed-simulator-impl.cc:212`) and is overwritten by a longer one.
  `two_ranks` with three ranks in a chain and `Delay <- DelayZeroFirst`
  violates `NoEventFromThePast`. With `DelayEqual` the same chain passes.
* Events of node 0 are invoked on every rank (`distributed-simulator-impl.cc:260`
  tests `m_currentContext > 0`). `two_ranks` with `SystemId <- TwoRanksLow`,
  `Installed <- AllNodes` and `Delay <- DelayShortFirst`, a script that installs
  its applications on every rank, violates `ReceiverPresent` and
  `NoEventFromThePast`: the replica of node 0 on rank 1 sends to rank 0 over a
  link within rank 0, which has no receiver and whose delay no lookahead counts.
* A node that was moved sends to a neighbour it left behind, on whose rank the
  link between them is a normal channel without an `MpiReceiver` (the assertion
  at `mpi-interface.cc:250`). `rebalance` with four nodes, `TwoRanksChain`,
  `Chain`, `ChainDevices` and `EqualDelays` violates `ReceiverPresent`.
* A node that is moved twice leaves an application behind that goes on running.
  `rebalance` with `StopTime = 9` and `MaxUid = 0` violates `AppOnOneRank`.
* A remote channel counts its traffic from whatever its memory held.
  `graph_merge` violates `TrafficIsSent`.
* When uids wrap (`default_simulator` with `W = 6`), an ordinary event gets a
  uid that `IsExpired` takes for a destroy event's or for one already processed:
  `ExpiryIsExact` is violated. In the code this takes 2^32 events.
* `Run` of the default simulator may return while an event that another thread
  injected waits; nothing is lost, but only the next `Run` takes it over.
* The realtime simulator's second `Run` starts with the wall clock's origin at
  that moment, not at the time the simulation has reached (`DoSetOrigin` ignores
  its argument, `wall-clock-synchronizer.cc:102`). `realtime` with `MaxRuns = 2`
  violates `NoEventFromThePast`.
* A sleep that ends at exactly a full second of the wall clock is rejected by
  `pthread_cond_timedwait` (`unix-system-condition.cc:146` tests `>`), and the
  loop around it goes on until a signal comes. `realtime` with `NsPerSec = 2`
  violates `EveryEventRuns`.
* If other threads may call `Remove`, `HeadIsDue` is violated: the event that was
  waited for is gone, and the next one is not due.
* Without the destination-only flag, the default, routes form loops.
  b loses its route to c, asks, and a answers from its own route, which leads
  through b: without the premise `m_doFlag`, `path_discovery` violates
  `LoopFree`. Data packets then circle until their time to live is used up. The
  repository nowhere says that routes have no loops, so that this is no
  disagreement between the code and its documentation.
* With the flag, meshes without cycles, such as the row of `path_discovery`,
  have no loops (`RoutesFormNoLoop`, section 4). A mesh with a cycle may: four stations a, b, c, d with links of metric 1
  from a to b, b to c and c to d and one of metric 3 from a to c, a sending to d,
  with `m_doFlag` set, `MaxRetries = 1`, `MaxPackets = 1`, `MaxFaults = 1` and
  `MaxFrames = 2`, violate `LoopFree` in 13 states. A second request changes the
  way back to a while d's answer is on it, so that the answer returns to a
  station it has passed. That station's route to d has expired meanwhile; the
  same number with a worse metric is then news (`hwmp-protocol.cc:574-586`),
  and two stations route to each other.

### Bounds

* `MaxUid` limits what handlers schedule: ranks have six to nine initial uids,
  which leaves three to six events or packets of the handlers' own, enough for
  an exchange in both directions between two Allgathers. It is a bound in the
  guards of handlers only; receiving is never cut off.
* `Slot` has two places: one message may overtake another, and both may be
  missed by an Allgather. A sender waits when both are taken, which
  `MPI_Isend` would not do; the proofs hold for any finite number of places.
* `W = 3` makes the counters wrap within a run; `CounterAssumption`
  (`Cardinality(Slot) < W`) is what the real 2^32 satisfies.
* `StopTime` and `ReclusteringInterval` allow several Allgathers, and two or
  three reclusterings where the run is about them; in the runs of
  `MCDistributedSimulator` the first reclustering lies behind the stop time.
* In the runs of `MCLoadBalancing` node 0 has no links and no applications:
  what its replicas do is described above and would hide the rest.
* A heap of up to five events cannot break: for the last item to be earlier
  than the parent of the gap, it must lie in the other subtree of the root and
  the gap at depth two, which takes six items. `schedulers` stays below,
  `heap_remove` goes to seven; two times are enough to see the clock run
  backwards.
* Five events at a time, six in all, at times up to 4: the calendar grows from two
  buckets to four and shrinks to one, and its events spread over several years.
  With `TwoTo32 = 4`, widths are calculated that lose bits, among them some that
  become 0, and time 4 lies beyond the 32 bits from which `PeekNext` starts.
* `default_simulator`: four events are enough for two injected ones, one that is
  cancelled or removed and one destroy event; two runs of the loop for what the
  first leaves behind. `W = 16` excludes the wrap.
* `realtime`: three events, delays below and above what is spun; `MaxNow` only
  limits the clock while nothing is waited for. `NsPerSec` lies beyond the run.
* `peer_link`: at most two frames under way in each direction; three links
  initiated in all, so that frames of an earlier link meet a later one; a limit
  of 0 in the middle of the row, so that a link to one neighbour refuses the
  other. The safety properties also hold for a single pair of stations with two
  links initiated by each, with three frames each way, and with three links each
  and no retries.
* `path_discovery`: two packets, one retry, one route that expires or link that
  closes, one frame on the air at a time. The attribute's minimum for
  `MaxQueueSize` is 1, with which two packets both get in (`queue_limit.cfg`) and
  a refused one does not occur; the proofs cover it. Two frames at a time without retries
  pass as well (451,296 states); and with one packet, two faults and two frames
  at a time `EveryPacketLeaves` holds under weak fairness of the retries.
* `graph_merge`: three ranks give two graphs to merge, in both orders; two
  iterations show what is left over from the first.
* Only message places are symmetric, and symmetry is not used for liveness.

### Fairness

`WF` of each rank's steps: the operating system runs every process, and the
code never sleeps. `SF` of `ReceiveMessage`: the receive is posted, and
`MPI_Testany` does not overlook an arrived message for ever; strong because the
rank leaves `recv` in between for the next Allgather. `WF` of the collectives:
MPI and the Parallel BGL complete them once every rank has entered. Nothing is
assumed of what handlers do: they may always be quiet, and the bound on uids
ends what they schedule.

`realtime`: `WF` of the main thread, of the other thread's signal and of the
clock; `SF` of `TimedOut`, because a wait that is woken for nothing again and
again still times out once its time has passed. `peer_link`: `WF` of the retry,
confirm and holding timers, which are events of the simulator; nothing is
assumed of beacons and frames. A frame that is never taken stays under way,
which differs from a lost one in nothing that the stations see.

Deadlock is checked in all passing runs but two; `Finished`, `Done`, `Over` and
`Quiet` are the states in which everything has ended. A mesh may come to rest:
once `peer_link` has used up its links and `path_discovery` its packets and
faults, no timer need be pending.

## 4. Proofs

All theorems hold for any number of ranks, nodes, links and message places, any
times and delays, and every bound, under the named `ASSUME`s of the modules.

* **Protocol** (`ProtocolSafe`; from it `TypeCorrect`,
  `TransientsAreDetected`, `GrantsAdvance`). No single property is inductive:
  that equal totals exclude messages in flight needs `CountersMatch` (sent
  equals received plus in flight, modulo W) at every moment and `Contributions`
  (what a waiting rank has put into the Allgather is still true of it); that
  grants advance needs `LbtsHolds`, that the result of an Allgather remains a
  lower bound of all events and messages until its last reader has used it,
  although faster ranks already process and send; and that needs
  `GrantsBounded`. Their conjunction with `StopPending` is `ProtocolInv`. It
  holds of every topology, also of those in which causality fails.
* **Causality** (`Causality`, `StopIsComplete`). `CausalityInv` adds that a
  message in flight lies at or beyond its receiver's grant. Premises:
  `PositiveCrossDelays` and `ReplicasQuiet`. The instances with
  a zero delay and with node 0 of section 3 show that neither can be dropped.
* **Receivers** (`ReceiversPresent`). As long as no node moves, packets go only
  to ranks at which the receiving device has an `MpiReceiver`.
  Section 3 says what moves do.
* **Termination's safety half** (`NoneStranded`). If all ranks have the same
  lookahead (`UniformLookAhead`) their grants move in lockstep (`LockStep`), so
  that no rank returns while another waits. `unequal_lookahead` shows the
  premise is needed.
* **Moves** (`OneExecutor`). `ExecutorInv`: a rank only gives nodes away, so
  that only a node's first rank can take itself for its executor, however stale
  rank 0's view is.
* **Everything at once** (`EverythingFits`). `InductiveInvariant`, the
  conjunction that `two_ranks` checks, under the premises of the theorems above.
* **Load balancer** (`LbTypes`, `BarriersMeet`). `StopKept` says that the stop
  event stays in the list until it is processed, without which a rank could run
  out of events; with `LbTypeOK` it is inductive. `BarriersAgree` needs
  `Timetable`: there is one time t, the same on all ranks, at which the next
  reclustering is due (`DueAt`); a rank in a phase was granted t and has not
  reached the stop time, a rank that waits in `Run` was not yet granted t, and
  a rank that stopped did so before t. Since grants are equal
  (`GrantsAgree`, premise `UniformLookAhead`), the first and the second exclude
  each other; only `CompleteApps`, which all ranks take together, moves t on.
  Causality is not needed: reclusterings do not come from messages.
* **Network graph** (`TrafficIsMerged`, `WeightsAreNormalised`,
  `GraphTypeCorrect`). `GraphInv`: from the moment rank 0 enters the merge its
  weights are the sums over the ranks whose graphs it has taken (`SumsSoFar`),
  and `max_traffic` the maximum of these sums from the second graph on
  (`MaxSoFar`); a graph that waits is the only one of its rank and still what the
  rank's channels count (`QueueIsFresh`). The type of the weights takes `N > 1`:
  a single rank never computes `max_traffic`, and writes negative weights.
* **Contract and sorted list** (`TimeMovesForward`, `ListKeepsContract`).
  `QueueInv` adds to the order of the queue that uids in use are below the next;
  `Sorted` is what the list adds. `InsertAt` and `RemoveAt` are proved to do to
  the set of events what the contract's `Insert`, `RemoveNext` and `Remove` do.
* **Calendar** (`CalendarKeepsContract`, `PeekShowsEarliest`). `CalendarInv`:
  each bucket is in order and holds the events of its days, and the search starts
  from the day of the last event taken, before which nothing is left
  (`InGoodOrder`). A year has one day per bucket, so that a head which is due
  belongs to the day at which the search looks at its bucket, and the first one
  found is the earliest event of all; if none is due, the least head is.
  Resizing keeps the events by an induction over the buckets and one over the
  events of each, whatever 32 bits keep of the width, except nothing: then the
  process ends (`calendar_width.cfg`), and the contract is kept up to there.
  `PeekShowsEarliest` says of which events `PeekNext` may be blind: it finds the
  earliest event, or none if all of them lie at 2^32 ns or later. That this
  happens is what `calendar_peek` shows. Both have no premise but the `ASSUME`s.
* **Heap** (`HeapKeepsContractWhileFillersFit`).
  `HeapInv`: no item is earlier than its parent. During `BottomUp` this fails of
  the rising item only, whose children are not earlier than its parent either
  (`Rising`); during `TopDown` it fails of the sinking item's children only
  (`Sinking`). After as many turns as there are items the index has nowhere to
  go. `Remove` keeps the order only if the item that fills the gap is not earlier
  than the gap's parent (`FittingRemoves`, a premise on the steps of the
  behaviour); `heap_remove` shows that this is needed. It is a premise on what
  happens, not on the size of the heap.
* **Default simulator**, places (`NoneLostNoneTwice`, `TimeGoesForward`).
  `PlacesInv` says where each event object is: the five places are disjoint
  and hold no object twice (`OnePlace`), what is nowhere was revoked
  (`SomePlace`), and an `EventId` fits the one event it was made for
  (`HandlesFit`). This holds even when uids wrap.
* **Default simulator**, uids (`ExpiryExact`, `CounterIsSize`,
  `RevokedNeverRun`, `InjectedOrderStays`), for fewer events than uids (`NoWrap`;
  with `W = 6` of section 3 it does not hold). `UidInv`: uids are given out in
  order, so that an event of the current time is over exactly if its uid is not above the
  current one (`UidsAscend`, `ClockTells`), and what was revoked is cancelled or
  gone. `OrderInv` follows an injected event through the two lists, the event
  list and the history of what was invoked; the step that makes it work is that
  an event in the list lies at most its delay ahead of the clock, so that one
  taken over later cannot overtake it.
* **Realtime simulator** (`RealtimeTypes`, `WakeupsArrive`, `HeadDue`,
  `FirstRunForward`). `RealtimeInv`: until the condition is set, what the main
  thread saw under the lock is still true or its time has come
  (`WaitIsCurrent`); the event waited for is still there (`EventAwaited`); a
  blocked thread whose condition is set has its signal coming
  (`BlockedIsSignalled`). That no event is scheduled in the past rests on
  `ClockLeads`: the wall clock is not behind the simulation. This is true of the first
  run only, and the instance with two runs of section 3 shows why.
* **Peer links** (`LinkTypes`, `TimersFitStates`, `CountIsExact`, `EndsAgree`).
  The first three are inductive together. That both ends mean the same link
  needs `IdsInv`: ids of a station only grow and frames keep their order, so
  what is under way is not older than what was received (`IdsGrow`); and a
  confirmation is only sent by a station that knows the id it confirms and will
  not receive an older one (`ConfirmsKnown`).
* **HWMP**, each station (`HwmpTypes`, `WaitingIsPending`, `NumbersIssued`). `HwmpInv` is about
  one station's record and about one frame, with the numbers `Issued` so far as a
  parameter, so that each handler's operator has a lemma of its own: from a
  record that is `Sound` it makes a record that is `Sound`, its output included.
  Routes lead to neighbours, which carries the answers and errors along links
  that exist (`RoutesLead`; `HwmpAssumption` says that links are symmetric); what
  waits has a retry and no valid route (`Awaited`). That numbers are genuine
  needs the same of every request and answer on the air or waiting for its
  interval, and that requests keep the destination-only flag wherever they are
  passed on, so that nobody answers for another with a number of the asker's
  making. Numbers issued only grow, so what was genuine stays so
  (`GenuinePreq`, `GenuineFrame`). The loop over a frame's requests is an
  induction over their index (`RecursionLemmas`).
* **HWMP**, the mesh (`RoutesFormNoLoop`), for meshes without cycles and with the
  destination-only flag; section 3 shows that neither premise can be dropped.
  `WithoutCycles` says that there are costs of ways between stations under which
  each station has at most one neighbour nearer to a destination.
  `StraightInv`: routes lead to that neighbour, and metrics are the costs; of two
  neighbours the nearer one has noted at least as new a number of the
  destination; requests and answers on the air tell what their sender has noted,
  and answers go the only way. A station therefore never takes for news what it
  told a station farther away itself, and along routes the cost decreases.
  Routes that expire and links that close forget routes and no numbers.

Only model-checked:

* liveness (`RunReturns`, `EveryEventRuns`, `NegotiationEnds`), which is out of
  the prover's reach;
* causality with moves: a moved node's packets and the start events of its
  applications do not keep to the lookahead that was computed at the beginning,
  and `rebalance` covers one topology in which nothing comes of it.

## 5. Not modelled

* Default simulator: `SetScheduler`, which moves events from one list to another.
* Realtime simulator: `Cancel` and destroy events (the default simulator's code),
  the hard limit mode, `Remove` and `Stop` from other threads.
* `Cancel`, `Remove` and `IsExpired` of the distributed simulator: they touch one
  rank's queue only, in the code of the default simulator.
* The point-to-point device's queue and READY/BUSY state.
* Peer links: configuration mismatches, beacon collision avoidance, several
  interfaces, the wrap of the 16-bit link ids (`m_lastLocalLinkId`), which takes
  65536 links of one station; `IdsAgree` and its proof rest on ids that grow.
  HWMP: the proactive tree of a root, broadcast data, several
  interfaces, the time to live of requests and answers, the lifetimes of
  precursors (an error that does not reach one is a lost frame here), the wrap of
  sequence numbers.
* The clustering's local search: floating-point numerics.
* MPI, the Parallel BGL, the wifi MAC, POSIX conditions: external or far below,
  modelled from their use.
* Serialisation of packets and its size limit, tracing, names, the `.dot` files.
* Other ns-3 models (internet, wifi, lte, ...), which are most of the
  repository's lines, and the bundled tools (nsc's kernels, netanim, pybindgen,
  waf): upstream or vendored code that the fork does not change. `src/shiva`:
  nothing to check.

## 6. Plan

Done: the distributed simulator and its theorems, the load balancer, the network
graph, the event lists with their contract, the default and the realtime
simulator, peer links and HWMP.

Proved: the distributed simulator and the load balancer, the network graph, the
three event lists, the default and the realtime simulator, peer links, HWMP and
the absence of loops in meshes without cycles.

Left: under which premise on the links causality survives moves of nodes.
