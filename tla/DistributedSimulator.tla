------------------------- MODULE DistributedSimulator -------------------------
(***************************************************************************)
(* The conservative parallel simulator of src/ns-3.16/src/mpi: every rank  *)
(* runs DistributedSimulatorImpl::Run over its own event queue; ranks      *)
(* agree on a granted time with an MPI_Allgather of their lower bounds and *)
(* exchange packets over remote point-to-point channels (MpiInterface).    *)
(*                                                                         *)
(* A rank holds a replica of every node; the nodes' system ids say which   *)
(* rank executes which node.  What an event's handler does is left to the  *)
(* simulated network: it does nothing, schedules one more event, or starts *)
(* one transmission.  LoadBalancing adds what happens when the load        *)
(* balancer's reclustering event is due.                                   *)
(***************************************************************************)
EXTENDS Integers, Sequences, FiniteSets

CONSTANTS
  N,                     \* MPI_Comm_size
  NumNodes,              \* nodes in NodeList, the same on every rank
  NoContext,             \* 0xffffffff: the context of events of no node
  SystemId,              \* Node -> Rank: m_sid of the nodes as constructed
  Link,                  \* the point-to-point channels
  Ends,                  \* Link -> <<node of device 0, node of device 1>>
  Delay,                 \* Link -> the channel's "Delay" attribute
  Devices,               \* the devices [node, link] in the order of the scan
  Installed,             \* Rank -> nodes whose handlers do something there
  TxTime,                \* transmission times of a packet
  StepDelay,             \* delays of the events that handlers schedule
  StopTime,              \* the argument of Simulator::Stop, on every rank
  ReclusteringInterval,  \* m_reclusteringInterval of the load balancer
  Slot,                  \* places for messages in flight (a bound)
  NoMsg,                 \* an empty place
  W,                     \* 2^32: the counters are uint32_t
  MaxUid                 \* handlers schedule nothing beyond this uid (a bound)

Rank == 0 .. N - 1
Node == 0 .. NumNodes - 1
Context == Node \cup {NoContext}

ASSUME RankAssumption == N \in Nat \ {0}
ASSUME NodeAssumption == NumNodes \in Nat /\ NoContext \in Nat \ Node
ASSUME SystemIdAssumption == SystemId \in [Node -> Rank]
ASSUME LinkAssumption == Ends \in [Link -> Node \X Node] /\ Delay \in [Link -> Nat]
ASSUME InstalledAssumption == Installed \in [Rank -> SUBSET Node]
ASSUME TimeAssumption ==
  TxTime \subseteq Nat /\ StepDelay \subseteq Nat /\ StopTime \in Nat
ASSUME ReclusteringAssumption == ReclusteringInterval \in Nat
ASSUME BoundAssumption == MaxUid \in Nat

\* The scan of CalculateLookAhead meets every device of every channel.
ASSUME DevicesAssumption ==
  /\ Devices \in Seq([node : Node, link : Link])
  /\ \A l \in Link : \A k \in 1 .. 2 :
       \E i \in 1 .. Len(Devices) : Devices[i] = [node |-> Ends[l][k], link |-> l]

\* Fewer messages are in flight than a counter can tell apart.
ASSUME CounterAssumption == W \in Nat /\ IsFiniteSet(Slot) /\ Cardinality(Slot) < W

EventKind == {"node", "stop", "lb", "recluster", "app", "added"}
Event == [ts : Nat, uid : Nat, ctx : Context, kind : EventKind]
Msg == [dst : Rank, ts : Nat, node : Node, link : Link]
ASSUME NoMsgAssumption == NoMsg \notin Msg
LbtsMessage == [rx : 0 .. W - 1, tx : 0 .. W - 1, time : Nat]

VARIABLES
  pc,             \* where each rank is in Run
  m_events,       \* the scheduler's queue
  m_uid,          \* the next event's uid
  m_currentTs,    \* the simulation time
  m_grantedTime,  \* events up to this time may be processed
  m_stop,         \* Simulator::Stop was called
  m_rxCount,      \* messages received, modulo W
  m_txCount,      \* messages sent, modulo W
  m_pLBTS,        \* each rank's buffer of the ranks' last LbtsMessages
  net             \* the messages sent and not yet received

vars == <<pc, m_events, m_uid, m_currentTs, m_grantedTime, m_stop,
          m_rxCount, m_txCount, m_pLBTS, net>>
-------------------------------------------------------------------------------
(* Topology and lookahead. *)

Peer(n, l) == IF Ends[l][1] = n THEN Ends[l][2] ELSE Ends[l][1]

\* Devices whose channel leads off rank r: the ones CalculateLookAhead keeps.
\* The mutant takes every local device for device 0 of its channel.
IsCrossOneWay(r, d) == SystemId[d.node] = r /\ SystemId[Ends[d.link][2]] # r
IsCross(r, d) == SystemId[d.node] = r /\ SystemId[Peer(d.node, d.link)] # r

\* PointToPointHelper::Install on rank r builds a PointToPointRemoteChannel,
\* and an MpiReceiver for each device, unless both ends belong to r.  The
\* mutant looks at the first end only.
IsRemoteFirst(r, l) == SystemId[Ends[l][1]] # r
IsRemote(r, l) == \E k \in 1 .. 2 : SystemId[Ends[l][k]] # r

\* One device of the scan: a zero lookahead counts as "none found yet".
ScanDevice(r, l, d) ==
  IF ~IsCross(r, d) THEN l
  ELSE IF l = 0 \/ Delay[d.link] < l THEN Delay[d.link] ELSE l

\* m_lookAhead after the first i devices of CalculateLookAhead's scan
Scan(r) ==
  LET scan[i \in 0 .. Len(Devices)] ==
        IF i = 0 THEN 0 ELSE ScanDevice(r, scan[i - 1], Devices[i])
  IN  scan

LookAhead(r) == IF N <= 1 THEN 0 ELSE Scan(r)[Len(Devices)]
-------------------------------------------------------------------------------
(* The event queue. *)

\* Scheduler::EventKey order: by time, then by uid.
Before(e, f) == e.ts < f.ts \/ (e.ts = f.ts /\ e.uid <= f.uid)
PeekNext(r) == CHOOSE e \in m_events[r] : \A f \in m_events[r] : Before(e, f)
NextTs(r) == PeekNext(r).ts

\* Node constructors schedule Node::Start of every node on every rank, the
\* script calls Simulator::Stop, and Run starts the load balancer.
StartEvent(n) == [ts |-> 0, uid |-> 4 + n, ctx |-> n, kind |-> "node"]
StopEvent ==
  [ts |-> StopTime, uid |-> 4 + NumNodes, ctx |-> NoContext, kind |-> "stop"]
LbStartEvent == [ts |-> 0, uid |-> 5 + NumNodes, ctx |-> NoContext, kind |-> "lb"]
InitialEvents == { StartEvent(n) : n \in Node } \cup {StopEvent, LbStartEvent}

Init ==
  /\ pc = [r \in Rank |-> "run"]
  /\ m_events = [r \in Rank |-> InitialEvents]
  /\ m_uid = [r \in Rank |-> 6 + NumNodes]
  /\ m_currentTs = [r \in Rank |-> 0]
  /\ m_grantedTime = [r \in Rank |-> LookAhead(r)]
  /\ m_stop = [r \in Rank |-> FALSE]
  /\ m_rxCount = [r \in Rank |-> 0]
  /\ m_txCount = [r \in Rank |-> 0]
  /\ m_pLBTS = [r \in Rank |-> [q \in Rank |-> [rx |-> 0, tx |-> 0, time |-> 0]]]
  /\ net = [s \in Slot |-> NoMsg]
-------------------------------------------------------------------------------
(* Processing one event.  sid is the rank's own replica of the system ids. *)

\* IsFinished, the condition of Run's loop
IsFinished(r) == m_events[r] = {} \/ m_stop[r]

\* uint32_t counters wrap; the mutant is wider than its type.
IncrementWide(c) == c + 1
Increment(c) == (c + 1) % W

\* ProcessOneEvent invokes the events of no node, of node 0 and of its nodes.
Invokes(r, sid, e) == ~(e.ctx > 0 /\ e.ctx < NumNodes) \/ sid[e.ctx] = r

\* The loop found an event within the granted time; the mutant does not wait.
MayProcessAtOnce(r) == pc[r] = "run" /\ ~IsFinished(r)
MayProcess(r) == pc[r] = "run" /\ ~IsFinished(r) /\ NextTs(r) <= m_grantedTime[r]

\* RemoveNext, the clock, and the k events new that the handler inserts.
Consume(r, new, k) ==
  /\ m_events' = [m_events EXCEPT ![r] = (@ \ {PeekNext(r)}) \cup new]
  /\ m_uid' = [m_uid EXCEPT ![r] = @ + k]
  /\ m_currentTs' = [m_currentTs EXCEPT ![r] = NextTs(r)]

\* The event is of a foreign node, or its handler schedules nothing.
ProcessQuietly(r) ==
  /\ MayProcess(r)
  /\ PeekNext(r).kind = "node"
  /\ Consume(r, {}, 0)
  /\ UNCHANGED <<pc, m_grantedTime, m_stop, m_rxCount, m_txCount, m_pLBTS, net>>

\* The handler of a node's event runs on r and may schedule or transmit.
HandlerActs(r, sid) ==
  /\ MayProcess(r)
  /\ PeekNext(r).kind = "node"
  /\ Invokes(r, sid, PeekNext(r))
  /\ PeekNext(r).ctx \in Installed[r]

NewEvent(r, i, ts, ctx, kind) ==
  [ts |-> ts, uid |-> m_uid[r] + i, ctx |-> ctx, kind |-> kind]

\* The handler calls Simulator::Schedule or ScheduleNow.
ProcessSchedule(r, sid) ==
  /\ HandlerActs(r, sid)
  /\ m_uid[r] < MaxUid
  /\ \E d \in StepDelay :
       Consume(r, {NewEvent(r, 0, NextTs(r) + d, PeekNext(r).ctx, "node")}, 1)
  /\ UNCHANGED <<pc, m_grantedTime, m_stop, m_rxCount, m_txCount, m_pLBTS, net>>

\* PointToPointNetDevice::TransmitStart of node n on a channel within the rank:
\* one event completes the transmission, the other hands the packet to the peer.
TransmitLocal(r, n, done, l, tx) ==
  /\ ~IsRemote(r, l)
  /\ Consume(r, { done, NewEvent(r, 1, NextTs(r) + tx + Delay[l], Peer(n, l), "node") }, 2)
  /\ UNCHANGED <<m_txCount, net>>

\* The same on a remote channel: MpiInterface::SendPacket to the peer's rank.
TransmitRemote(r, sid, n, done, l, tx) ==
  /\ IsRemote(r, l)
  /\ Consume(r, {done}, 1)
  /\ \E s \in Slot :
       /\ net[s] = NoMsg
       /\ net' = [net EXCEPT ![s] = [dst  |-> sid[Peer(n, l)],
                                     ts   |-> NextTs(r) + tx + Delay[l],
                                     node |-> Peer(n, l),
                                     link |-> l]]
  /\ m_txCount' = [m_txCount EXCEPT ![r] = Increment(@)]

\* The next event's handler makes node n transmit; TransmitComplete will run
\* in the context ctx of that handler.
Transmit(r, sid, n, ctx, kind) ==
  \E l \in Link, tx \in TxTime :
    LET done == NewEvent(r, 0, NextTs(r) + tx, ctx, kind) IN
    /\ n \in {Ends[l][1], Ends[l][2]}
    /\ TransmitLocal(r, n, done, l, tx) \/ TransmitRemote(r, sid, n, done, l, tx)

ProcessTransmit(r, sid) ==
  /\ HandlerActs(r, sid)
  /\ m_uid[r] < MaxUid
  /\ Transmit(r, sid, PeekNext(r).ctx, PeekNext(r).ctx, "node")
  /\ UNCHANGED <<pc, m_grantedTime, m_stop, m_rxCount, m_pLBTS>>

\* Simulator::Stop
ProcessStop(r) ==
  /\ MayProcess(r)
  /\ PeekNext(r).kind = "stop"
  /\ Consume(r, {}, 0)
  /\ m_stop' = [m_stop EXCEPT ![r] = TRUE]
  /\ UNCHANGED <<pc, m_grantedTime, m_rxCount, m_txCount, m_pLBTS, net>>

\* LoadBalancingApplication::StartApplication schedules the first reclustering.
ProcessLbStart(r) ==
  /\ MayProcess(r)
  /\ PeekNext(r).kind = "lb"
  /\ Consume(r, {NewEvent(r, 0, NextTs(r) + ReclusteringInterval,
                          NoContext, "recluster")}, 1)
  /\ UNCHANGED <<pc, m_grantedTime, m_stop, m_rxCount, m_txCount, m_pLBTS, net>>

ProcessOneEvent(r, sid) ==
  \/ ProcessQuietly(r)
  \/ ProcessSchedule(r, sid)
  \/ ProcessTransmit(r, sid)
  \/ ProcessStop(r)
  \/ ProcessLbStart(r)
-------------------------------------------------------------------------------
(* Computing the lower bound on time stamps. *)

\* The next event lies beyond the granted time: a new LBTS is needed.
EnterLbts(r) ==
  /\ pc[r] = "run" /\ ~IsFinished(r)
  /\ NextTs(r) > m_grantedTime[r]
  /\ pc' = [pc EXCEPT ![r] = "recv"]
  /\ UNCHANGED <<m_events, m_uid, m_currentTs, m_grantedTime, m_stop,
                 m_rxCount, m_txCount, m_pLBTS, net>>

\* One turn of the MPI_Testany loop of ReceiveMessages.
ReceiveMessage(r) ==
  /\ pc[r] = "recv"
  /\ \E s \in Slot :
       /\ net[s] # NoMsg /\ net[s].dst = r
       /\ net' = [net EXCEPT ![s] = NoMsg]
       /\ m_events' = [m_events EXCEPT
                         ![r] = @ \cup {NewEvent(r, 0, net[s].ts, net[s].node, "node")}]
  /\ m_uid' = [m_uid EXCEPT ![r] = @ + 1]
  /\ m_rxCount' = [m_rxCount EXCEPT ![r] = Increment(@)]
  /\ UNCHANGED <<pc, m_currentTs, m_grantedTime, m_stop, m_txCount, m_pLBTS>>

\* The LbtsMessage of a rank
Contribution(r) == [rx |-> m_rxCount[r], tx |-> m_txCount[r], time |-> NextTs(r)]

\* No (further) message has arrived: contribute to the MPI_Allgather.
EnterAllgather(r) ==
  /\ pc[r] = "recv"
  /\ m_pLBTS' = [m_pLBTS EXCEPT ![r][r] = Contribution(r)]
  /\ pc' = [pc EXCEPT ![r] = "gather"]
  /\ UNCHANGED <<m_events, m_uid, m_currentTs, m_grantedTime, m_stop,
                 m_rxCount, m_txCount, net>>

\* The collective completes once every rank has entered it.
Allgather ==
  /\ \A r \in Rank : pc[r] = "gather"
  /\ pc' = [r \in Rank |-> "lbts"]
  /\ m_pLBTS' = [r \in Rank |-> [q \in Rank |-> m_pLBTS[q][q]]]
  /\ UNCHANGED <<m_events, m_uid, m_currentTs, m_grantedTime, m_stop,
                 m_rxCount, m_txCount, net>>

\* f[0] + ... + f[i] in uint32_t arithmetic
Sums(f) ==
  LET sum[i \in 0 .. N - 1] == IF i = 0 THEN f[0] ELSE (sum[i - 1] + f[i]) % W
  IN  sum

\* The loop over all ranks; the mutant stops one rank early.
TotalShort(f) == Sums(f)[N - 2]
Total(f) == Sums(f)[N - 1]

TotTx(r) == Total([q \in Rank |-> m_pLBTS[r][q].tx])
\* The mutant does not look for transient messages.
TotRxIgnored(r) == TotTx(r)
TotRx(r) == Total([q \in Rank |-> m_pLBTS[r][q].rx])
LeastTime(lbts) ==
  CHOOSE t \in {lbts[q].time : q \in Rank} : \A q \in Rank : t <= lbts[q].time
SmallestTime(r) == LeastTime(m_pLBTS[r])

\* Equal totals: no message is in transit, so the granted time moves.
NewGrant(r) ==
  IF TotRx(r) = TotTx(r) THEN SmallestTime(r) + LookAhead(r) ELSE m_grantedTime[r]
UpdateGrantedTime(r) ==
  /\ pc[r] = "lbts"
  /\ m_grantedTime' = [m_grantedTime EXCEPT ![r] = NewGrant(r)]
  /\ pc' = [pc EXCEPT ![r] = "run"]
  /\ UNCHANGED <<m_events, m_uid, m_currentTs, m_stop, m_rxCount, m_txCount,
                 m_pLBTS, net>>

\* Run returns: the queue is empty or Stop was called.
ExitRun(r) ==
  /\ pc[r] = "run" /\ IsFinished(r)
  /\ pc' = [pc EXCEPT ![r] = "done"]
  /\ UNCHANGED <<m_events, m_uid, m_currentTs, m_grantedTime, m_stop,
                 m_rxCount, m_txCount, m_pLBTS, net>>

\* Run has returned everywhere.
Finished == (\A r \in Rank : pc[r] = "done") /\ UNCHANGED vars

Step(r) ==
  \/ ProcessOneEvent(r, SystemId)
  \/ EnterLbts(r)
  \/ EnterAllgather(r)
  \/ UpdateGrantedTime(r)
  \/ ExitRun(r)

Next == (\E r \in Rank : Step(r) \/ ReceiveMessage(r)) \/ Allgather \/ Finished

\* Every process keeps running, collectives complete once all have entered,
\* and a message whose receive is posted is not overlooked for ever.
Fairness ==
  /\ \A r \in Rank : WF_vars(Step(r)) /\ SF_vars(ReceiveMessage(r))
  /\ WF_vars(Allgather)

Spec == Init /\ [][Next]_vars
FairSpec == Spec /\ Fairness
-------------------------------------------------------------------------------
(* Properties. *)

\* Every variable of Run, MpiInterface and the network has its type.
TypeOK ==
  /\ pc \in [Rank -> {"run", "recv", "gather", "lbts", "done"}]
  /\ m_events \in [Rank -> SUBSET Event]
  /\ m_uid \in [Rank -> Nat]
  /\ m_currentTs \in [Rank -> Nat]
  /\ m_grantedTime \in [Rank -> Nat]
  /\ m_stop \in [Rank -> BOOLEAN]
  /\ m_rxCount \in [Rank -> 0 .. W - 1]
  /\ m_txCount \in [Rank -> 0 .. W - 1]
  /\ m_pLBTS \in [Rank -> [Rank -> LbtsMessage]]
  /\ net \in [Slot -> Msg \cup {NoMsg}]

InFlight == {s \in Slot : net[s] # NoMsg}

\* The assertion of ProcessOneEvent, next.key.m_ts >= m_currentTs: whatever the
\* order of sends, receives and grants, no rank holds, and no rank will be
\* handed by the network, an event older than its clock.
NoEventFromThePast ==
  /\ \A r \in Rank : \A e \in m_events[r] : e.ts >= m_currentTs[r]
  /\ \A s \in InFlight : net[s].ts >= m_currentTs[net[s].dst]

\* The assertion of ReceiveMessages, pNode && pMpiRec: a packet is only ever sent
\* to a rank whose replica of the receiving device has an MpiReceiver, though
\* sender and receiver choose their kinds of channel independently.
ReceiverPresent == \A s \in InFlight : IsRemote(net[s].dst, net[s].link)

\* "The totRx and totTx counts insure there are no transient messages": when
\* the Allgather returns equal wrapped totals, nothing is in flight.
TransientsDetected ==
  (\A r \in Rank : pc[r] = "lbts") =>
     \A r \in Rank : TotRx(r) = TotTx(r) => InFlight = {}

\* A rank that has returned from Run has left behind no event, queued or in
\* flight, that was due before the time it was stopped at.
StopLosesNothing ==
  \A r \in Rank : pc[r] = "done" =>
    /\ \A e \in m_events[r] : e.ts >= StopTime
    /\ \A s \in InFlight : net[s].dst = r => net[s].ts >= StopTime

\* No rank returns from Run while another waits for it in the Allgather.
NoStrandedRank ==
  \A r, q \in Rank : pc[r] = "done" => pc[q] \notin {"recv", "gather"}

\* UpdateGrantedTime assigns a new value without comparing it with the old
\* one; still no rank's granted time ever moves back.
GrantNeverRetracted ==
  [][\A r \in Rank : m_grantedTime'[r] >= m_grantedTime[r]]_vars

\* Run returns on every rank, as Simulator::Run documents for a run with a
\* stop time.
RunReturns == <>(\A r \in Rank : pc[r] = "done")
-------------------------------------------------------------------------------
(* The inductive invariant behind these properties. *)

\* The counters miss exactly the messages in flight.
CountersMatch == Total(m_txCount) = (Total(m_rxCount) + Cardinality(InFlight)) % W

\* No event and no message can still lead to one that rank r was granted past.
GrantBound(t) == \A r \in Rank : t + LookAhead(r) >= m_grantedTime[r]
GrantsBounded ==
  /\ \A q \in Rank : \A e \in m_events[q] : GrantBound(e.ts)
  /\ \A s \in InFlight : GrantBound(net[s].ts)

\* A rank in the Allgather contributes its counters and its next event's time.
Contributions ==
  /\ \A r \in Rank : pc[r] \in {"recv", "gather", "lbts"} => ~m_stop[r]
  /\ \A r \in Rank : pc[r] = "gather" => m_pLBTS[r][r] = Contribution(r)

\* The result of an Allgather stays a lower bound on all there is until the
\* last rank has used it, however far the other ranks have run meanwhile.
LbtsHolds ==
  \A r \in Rank : pc[r] = "lbts" =>
    /\ SmallestTime(r) + LookAhead(r) >= m_grantedTime[r]
    /\ TotRx(r) = TotTx(r) =>
         /\ \A q \in Rank : \A e \in m_events[q] : e.ts >= SmallestTime(r)
         /\ \A s \in InFlight : net[s].ts >= SmallestTime(r)

\* The stop event is in the queue until it is processed.
StopPending ==
  \A r \in Rank :
    /\ ~m_stop[r] => StopEvent \in m_events[r] /\ pc[r] # "done"
    /\ \A e \in m_events[r] : e.kind = "stop" => e = StopEvent
    /\ m_stop[r] => m_currentTs[r] = StopTime

\* What holds of every topology
ProtocolInv ==
  TypeOK /\ CountersMatch /\ GrantsBounded /\ Contributions /\ LbtsHolds
    /\ TransientsDetected /\ StopPending

\* What also takes positive delays: messages outrun neither grants nor bounds.
CausalityInv ==
  /\ \A r \in Rank : m_currentTs[r] <= m_grantedTime[r]
  /\ \A r \in Rank : \A e \in m_events[r] : e.ts >= m_currentTs[r]
  /\ \A s \in InFlight : net[s].ts >= m_grantedTime[net[s].dst]
  /\ \A r \in Rank : pc[r] = "lbts" /\ TotRx(r) = TotTx(r) =>
       \A s \in InFlight : net[s].ts >= SmallestTime(r) + LookAhead(net[s].dst)

\* The premises of causality.  No channel between ranks has delay zero, and
\* node 0, whose handlers run on every rank, does nothing on foreign ranks
\* unless its channels all lead to other ranks.
PositiveCrossDelays ==
  \A i \in 1 .. Len(Devices) : \A r \in Rank :
    IsCross(r, Devices[i]) => Delay[Devices[i].link] > 0
ReplicasQuiet ==
  \A r \in Rank : SystemId[0] # r /\ 0 \in Installed[r] =>
    \A l \in Link : 0 \in {Ends[l][1], Ends[l][2]} =>
      SystemId[Ends[l][1]] # SystemId[Ends[l][2]]

\* The premise of termination: all ranks compute the same lookahead.
UniformLookAhead == \A r, q \in Rank : LookAhead(r) = LookAhead(q)

\* Then the ranks' grants advance in lockstep: the ranks that have used the
\* last Allgather agree, and the others are about to agree with them.
GrantsAgree ==
  \A r, q \in Rank :
    /\ pc[r] # "lbts" /\ pc[q] # "lbts" => m_grantedTime[r] = m_grantedTime[q]
    /\ pc[r] = "lbts" /\ pc[q] = "lbts" =>
         m_grantedTime[r] = m_grantedTime[q] /\ m_pLBTS[r] = m_pLBTS[q]
    /\ pc[r] = "lbts" /\ pc[q] # "lbts" => m_grantedTime[q] = NewGrant(r)

\* And no rank leaves Run in a round in which another waits.
LockStep ==
  /\ GrantsAgree
  /\ \A r \in Rank : m_stop[r] => m_grantedTime[r] >= StopTime
  /\ \A r \in Rank : pc[r] \in {"recv", "gather"} => m_grantedTime[r] < StopTime

\* The inductive invariant of the proofs, on instances that meet all premises:
\* counters, grants, contributions and messages in flight fit together on every
\* rank at every point of the loop of Run.
InductiveInvariant == ProtocolInv /\ CausalityInv /\ LockStep
===============================================================================
