----------------------------- MODULE HwmpProtocol -----------------------------
(***************************************************************************)
(* The reactive part of HWMP, the routing protocol of 802.11s meshes:      *)
(* HwmpProtocol, HwmpRtable and HwmpProtocolMac of                         *)
(* src/ns-3.16/src/mesh/model/dot11s on every station, over links that     *)
(* lose and delay frames.  Every station has one interface.                *)
(***************************************************************************)
EXTENDS Integers, FiniteSets, Sequences

CONSTANTS
  Station,
  Metric,        \* the metric of each peer link, a function on pairs of neighbours
  Flow,          \* the pairs of stations between which packets are sent
  Flags,         \* what the script may set m_doFlag and m_rfFlag to
  MaxRetries,    \* dot11MeshHWMPmaxPREQretries
  MaxQueueSize,
  MaxTtl,        \* of data packets
  MaxPackets,    \* packets ever sent (a bound)
  MaxFaults,     \* routes that expire and links that close (a bound)
  MaxFrames,     \* frames on the air at a time (a bound; more are lost)
  None           \* no station

ASSUME HwmpAssumption ==
  /\ \A l \in DOMAIN Metric :
       l \in Station \X Station /\ <<l[2], l[1]>> \in DOMAIN Metric /\ Metric[l] \in Nat \ {0}
  /\ Flow \subseteq Station \X Station
  /\ Flags \subseteq BOOLEAN \X BOOLEAN
  /\ MaxRetries \in Nat /\ MaxQueueSize \in Nat /\ MaxTtl \in Nat
  /\ MaxPackets \in Nat /\ MaxFaults \in Nat
  /\ None \notin Station

VARIABLES
  node,          \* the members of each station's protocol
  net,           \* frames on the air
  packets,       \* packets sent so far
  faults,        \* routes expired and links closed so far
  m_doFlag,      \* attributes that the script sets, the same for all stations:
  m_rfFlag       \* destination only; reply and forward

flags == <<m_doFlag, m_rfFlag>>
vars == <<node, net, packets, faults, flags>>

NoRoute == [retransmitter |-> None, metric |-> 0, seqnum |-> 0, valid |-> FALSE, precursors |-> {}]
NoPerr == [destinations |-> {}, receivers |-> {}]

Init ==
  /\ node = [s \in Station |->
       [m_routes |-> [d \in Station |-> NoRoute],
        m_hwmpSeqnoMetricDatabase |-> [d \in Station |-> [seqno |-> -1, metric |-> 0]],
        m_hwmpSeqno |-> 1,
        m_rqueue |-> {},
        m_preqTimeouts |-> [d \in Station |-> 0],  \* numOfRetry of the pending retry; 0: none
        m_myPreq |-> << >>, m_preqTimer |-> FALSE,
        m_myPerr |-> NoPerr, m_perrTimer |-> FALSE,
        out |-> {}]]                               \* frames that the handler at work has sent
  /\ net = {}
  /\ packets = 0 /\ faults = 0
  /\ \E f \in Flags : m_doFlag = f[1] /\ m_rfFlag = f[2]

Neighbours(s) == {t \in Station : <<s, t>> \in DOMAIN Metric}
-------------------------------------------------------------------------------
(* HwmpRtable.  The lifetime of a route ends at any time.  A precursor     *)
(* whose lifetime ended is not told of errors, as if the frame were lost.  *)

Valid(n, d) == n.m_routes[d].valid
Improves(n, d, metric) == Valid(n, d) => n.m_routes[d].metric > metric

AddReactivePath(n, d, via, metric, seqnum) ==
  [n EXCEPT !.m_routes[d] = [retransmitter |-> via, metric |-> metric, seqnum |-> seqnum,
                             valid |-> TRUE, precursors |-> @.precursors]]

AddPrecursor(n, d, p) ==
  IF n.m_routes[d].retransmitter = None THEN n ELSE [n EXCEPT !.m_routes[d].precursors = @ \cup {p}]

DeleteReactivePaths(n, D) == [n EXCEPT !.m_routes = [d \in Station |-> IF d \in D THEN NoRoute ELSE @[d]]]

\* With the sequence number that is told to others: the next one.
GetUnreachableDestinations(n, peer) ==
  {[dst |-> d, seqnum |-> n.m_routes[d].seqnum + 1] : d \in {t \in Station : n.m_routes[t].retransmitter = peer}}

-------------------------------------------------------------------------------
(* HwmpProtocolMac: requests and errors that come too soon after the last  *)
(* ones wait for a timer.                                                  *)

SendTo(n, frames) == [n EXCEPT !.out = @ \cup frames]

SendPreq(s, n, preqs) ==
  SendTo(n, {[kind |-> "PREQ", from |-> s, to |-> t, preqs |-> preqs] : t \in Neighbours(s)})

SendMyPreq(s, n) ==
  IF n.m_preqTimer \/ n.m_myPreq = << >> THEN n
  ELSE [SendPreq(s, n, n.m_myPreq) EXCEPT !.m_preqTimer = TRUE, !.m_myPreq = << >>]

\* The new destination is added to the waiting requests, and has one of its own.
RequestDestination(s, n, dst, seqno) ==
  LET unit == [dst |-> dst, seqnum |-> seqno, do |-> m_doFlag, rf |-> m_rfFlag]
      add(q) == IF \E u \in q.destinations : u.dst = dst THEN q
                ELSE [q EXCEPT !.destinations = @ \cup {unit}]
      own == [originator |-> s, seqno |-> n.m_hwmpSeqno, metric |-> 0, destinations |-> {unit}]
      waiting == [i \in DOMAIN n.m_myPreq |-> add(n.m_myPreq[i])]
  IN  SendMyPreq(s, [n EXCEPT !.m_myPreq = Append(waiting, own)])

ForwardPerr(s, n, perr) ==
  SendTo(n, {[kind |-> "PERR", from |-> s, to |-> t, destinations |-> perr.destinations] : t \in perr.receivers})

SendMyPerr(s, n) ==
  IF n.m_perrTimer THEN n
  ELSE [ForwardPerr(s, n, n.m_myPerr) EXCEPT !.m_perrTimer = TRUE, !.m_myPerr = NoPerr]

InitiatePerr(s, n, perr) ==
  LET mine == n.m_myPerr.destinations
      new == {d \in perr.destinations : \A e \in mine : e.dst = d.dst => e.seqnum <= d.seqnum}
  IN  SendMyPerr(s, [n EXCEPT !.m_myPerr = [destinations |-> mine \cup new,
                                            receivers |-> @.receivers \cup perr.receivers]])

-------------------------------------------------------------------------------
(* HwmpProtocol *)

SendData(s, n, via, packet, ttl) ==
  SendTo(n, {[kind |-> "DATA", from |-> s, to |-> via, packet |-> packet, ttl |-> ttl]})

\* All packets that wait for the destination leave.
ReactivePathResolved(s, n, d) ==
  LET ready == {p \in n.m_rqueue : p.dst = d}
  IN  [SendTo(n, {[kind |-> "DATA", from |-> s, to |-> n.m_routes[d].retransmitter,
                   packet |-> p, ttl |-> MaxTtl] : p \in ready})
       EXCEPT !.m_rqueue = @ \ ready]

Learn(s, n, d, via, metric, seqnum) ==
  ReactivePathResolved(s, AddReactivePath(n, d, via, metric, seqnum), d)

\* A frame also tells of the neighbour that sent it.
LearnNeighbour(s, n, from, seqnum) ==
  IF Improves(n, from, Metric[<<s, from>>]) THEN Learn(s, n, from, from, Metric[<<s, from>>], seqnum) ELSE n

\* MakePathError forgets the routes; what it tells nobody is not told at all.
MakePathError(n, destinations) ==
  LET receivers == UNION {n.m_routes[d.dst].precursors : d \in destinations}
  IN  IF receivers = {} THEN NoPerr ELSE [destinations |-> destinations, receivers |-> receivers]
Forget(n, destinations) == DeleteReactivePaths(n, {d.dst : d \in destinations})

InitiatePathError(s, n, peer) ==
  LET failed == GetUnreachableDestinations(n, peer)
  IN  InitiatePerr(s, Forget(n, failed), MakePathError(n, failed))

\* SendPrep: the answer that orig can be reached.
Prep(s, to, orig, dst, metric, seqno) ==
  [kind |-> "PREP", from |-> s, to |-> to, originator |-> orig, dst |-> dst, metric |-> metric, seqno |-> seqno]

GetNextHwmpSeqno(n) == [n EXCEPT !.m_hwmpSeqno = @ + 1]

(* The destination answers with a number of its own; the mutant repeats    *)
(* the originator's.                                                       *)
AnswerWithTheirs(s, n, from, q) ==
  IF \A u \in q.destinations : u.dst # s THEN n
  ELSE SendTo(GetNextHwmpSeqno(n), {Prep(s, from, s, q.originator, 0, q.seqno)})
AnswerForMyself(s, n, from, q) ==
  IF \A u \in q.destinations : u.dst # s THEN n
  ELSE LET m == GetNextHwmpSeqno(n)
       IN  SendTo(m, {Prep(s, from, s, q.originator, 0, m.m_hwmpSeqno)})

(* The destinations for which another station answers.  The lifetimes of   *)
(* the routes to ending are in their last unit of 1024 microseconds, which *)
(* counts as 0.  The mutant does not look at the destination-only flag.    *)
AnsweredAlways(s, n, q, ending) ==
  {u \in q.destinations :
    u.dst # s /\ Valid(n, u.dst) /\ u.dst \notin ending /\ n.m_routes[u.dst].seqnum >= u.seqnum}
Answered(s, n, q, ending) ==
  {u \in q.destinations :
    /\ u.dst # s /\ ~u.do
    /\ Valid(n, u.dst) /\ u.dst \notin ending /\ n.m_routes[u.dst].seqnum >= u.seqnum}

AnswerForOthers(s, n, from, q, ending) ==
  LET dsts == {u.dst : u \in Answered(s, n, q, ending)}
      preps == {Prep(s, from, d, q.originator, n.m_routes[d].metric, n.m_routes[d].seqnum) : d \in dsts}
      told == [d \in Station |-> IF d \in dsts THEN [n.m_routes[d] EXCEPT !.precursors = @ \cup {from}]
                                ELSE n.m_routes[d]]
  IN  SendTo([n EXCEPT !.m_routes = told], preps)

\* The destinations that the request goes on with.
Remaining(s, n, q, ending) ==
  LET answered == Answered(s, n, q, ending)
  IN  {u \in q.destinations \ answered : u.dst # s}
      \cup {[u EXCEPT !.do = TRUE, !.rf = FALSE] : u \in {v \in answered : v.rf}}

\* Is the request news about its originator?
AcceptPreq(known, q) == known.seqno < q.seqno \/ (known.seqno = q.seqno /\ known.metric > q.metric)

ReceivePreq(s, n, from, preq, ending) ==
  LET q == [preq EXCEPT !.metric = @ + Metric[<<s, from>>]]
      known == n.m_hwmpSeqnoMetricDatabase[q.originator]
      n1 == [n EXCEPT !.m_hwmpSeqnoMetricDatabase[q.originator] = [seqno |-> q.seqno, metric |-> q.metric]]
      n2 == IF known.seqno # q.seqno \/ Improves(n1, q.originator, q.metric)
            THEN Learn(s, n1, q.originator, from, q.metric, q.seqno) ELSE n1
      n3 == LearnNeighbour(s, n2, from, q.seqno)
      n4 == AnswerForOthers(s, AnswerForMyself(s, n3, from, q), from, q, ending)
      left == Remaining(s, n3, q, ending)
  IN  IF q.originator = s \/ ~AcceptPreq(known, q) THEN n
      ELSE IF left = {} THEN n4
      ELSE SendPreq(s, n4, <<[q EXCEPT !.destinations = left]>>)

\* Is the answer news about its originator?
AcceptPrep(known, p) == known.seqno <= p.seqno

ReceivePrep(s, n, from, prep) ==
  LET p == [prep EXCEPT !.metric = @ + Metric[<<s, from>>]]
      known == n.m_hwmpSeqnoMetricDatabase[p.originator]
      n1 == [n EXCEPT !.m_hwmpSeqnoMetricDatabase[p.originator] = [seqno |-> p.seqno, metric |-> p.metric]]
      back == IF Valid(n, p.dst) THEN n.m_routes[p.dst].retransmitter ELSE None
      added == AddPrecursor(AddReactivePath(n1, p.originator, from, p.metric, p.seqno), p.dst, from)
      n2 == IF known.seqno # p.seqno \/ Improves(n1, p.originator, p.metric)
            THEN ReactivePathResolved(s, IF back = None THEN added ELSE AddPrecursor(added, p.originator, back),
                                      p.originator)
            ELSE n1
      n3 == LearnNeighbour(s, n2, from, p.seqno)
  IN  IF ~AcceptPrep(known, p) THEN n
      ELSE IF p.dst = s \/ back = None THEN n3
      ELSE SendTo(n3, {[p EXCEPT !.from = s, !.to = back]})

ReceivePerr(s, n, from, destinations) ==
  LET mine == {d \in destinations :
                 n.m_routes[d.dst].retransmitter = from /\ n.m_routes[d.dst].seqnum <= d.seqnum}
  IN  ForwardPerr(s, Forget(n, mine), MakePathError(n, mine))

\* ForwardUnicast of a packet from another station
Forward(s, n, packet, ttl) ==
  LET route == n.m_routes[packet.dst]
  IN  IF route.valid THEN SendData(s, n, route.retransmitter, packet, ttl)
      ELSE IF route.retransmitter # None THEN InitiatePathError(s, n, route.retransmitter)
      ELSE n

\* ForwardUnicast of a packet of the station's own
ShouldSendPreq(n, dst) == n.m_preqTimeouts[dst] = 0
QueuePacket(n, packet) ==
  IF Cardinality(n.m_rqueue) > MaxQueueSize THEN n ELSE [n EXCEPT !.m_rqueue = @ \cup {packet}]
Request(s, n, packet) ==
  LET dst == packet.dst
      m == GetNextHwmpSeqno([n EXCEPT !.m_preqTimeouts[dst] = 1])
      seqno == n.m_routes[dst].seqnum
  IN  IF Valid(n, dst) THEN SendData(s, n, n.m_routes[dst].retransmitter, packet, MaxTtl)
      ELSE QueuePacket(IF ShouldSendPreq(n, dst) THEN RequestDestination(s, m, dst, seqno) ELSE n, packet)

\* The mutant retries once too often.
LastRetryLater(n, dst) == n.m_preqTimeouts[dst] > MaxRetries + 1
LastRetry(n, dst) == n.m_preqTimeouts[dst] > MaxRetries

\* The packets that wait are dropped with the discovery; the mutant leaves them.
GiveUpAlone(n, dst) == [n EXCEPT !.m_preqTimeouts[dst] = 0]
GiveUp(n, dst) == [n EXCEPT !.m_preqTimeouts[dst] = 0, !.m_rqueue = {p \in @ : p.dst # dst}]

Retry(s, n, dst) ==
  LET m == GetNextHwmpSeqno([n EXCEPT !.m_preqTimeouts[dst] = @ + 1])
  IN  IF Valid(n, dst) THEN [n EXCEPT !.m_preqTimeouts[dst] = 0]
      ELSE IF LastRetry(n, dst) THEN GiveUp(n, dst)
      ELSE RequestDestination(s, m, dst, n.m_routes[dst].seqnum)

-------------------------------------------------------------------------------
(* The handlers as actions.  Any of the frames they send may be lost.      *)

Handled(s, n, others) ==
  /\ node' = [node EXCEPT ![s] = [n EXCEPT !.out = {}]]
  /\ \E arriving \in SUBSET n.out :
       /\ Cardinality(others \cup arriving) <= MaxFrames
       /\ net' = others \cup arriving
  /\ UNCHANGED flags

RequestRoute ==
  /\ packets < MaxPackets /\ packets' = packets + 1
  /\ \E f \in Flow : Handled(f[1], Request(f[1], node[f[1]], [id |-> packets', dst |-> f[2]]), net)
  /\ UNCHANGED faults

RetryPathDiscovery(s, dst) ==
  /\ node[s].m_preqTimeouts[dst] # 0
  /\ Handled(s, Retry(s, node[s], dst), net)
  /\ UNCHANGED <<packets, faults>>

\* The loop over the elements of a frame: the members after each of them.
AfterPreqs(s, n, from, preqs, ending) ==
  LET after[i \in 0 .. Len(preqs)] ==
        IF i = 0 THEN n ELSE ReceivePreq(s, after[i - 1], from, preqs[i], ending)
  IN  after
ReceivePreqs(s, n, from, preqs, ending) == AfterPreqs(s, n, from, preqs, ending)[Len(preqs)]

ReceiveAction(f) ==
  LET n == node[f.to]
  IN  /\ f.kind # "DATA"
      /\ \E ending \in SUBSET {d \in Station : Valid(n, d)} :
           Handled(f.to, CASE f.kind = "PREQ" -> ReceivePreqs(f.to, n, f.from, f.preqs, ending)
                           [] f.kind = "PREP" -> ReceivePrep(f.to, n, f.from, f)
                           [] f.kind = "PERR" -> ReceivePerr(f.to, n, f.from, f.destinations),
                   net \ {f})
      /\ UNCHANGED <<packets, faults>>

ReceiveData(f) ==
  /\ f.kind = "DATA"
  /\ Handled(f.to, IF f.packet.dst = f.to \/ f.ttl = 1 THEN node[f.to]
                   ELSE Forward(f.to, node[f.to], f.packet, f.ttl - 1),
             net \ {f})
  /\ UNCHANGED <<packets, faults>>

Fault == faults < MaxFaults /\ faults' = faults + 1

\* PeerLinkStatus: the link to the peer was closed.
LinkClosed(s, peer) ==
  /\ Fault
  /\ Handled(s, InitiatePathError(s, node[s], peer), net)
  /\ UNCHANGED packets

PreqTimeout(s) ==
  /\ node[s].m_preqTimer
  /\ Handled(s, SendMyPreq(s, [node[s] EXCEPT !.m_preqTimer = FALSE]), net)
  /\ UNCHANGED <<packets, faults>>

PerrTimeout(s) ==
  /\ node[s].m_perrTimer
  /\ Handled(s, SendMyPerr(s, [node[s] EXCEPT !.m_perrTimer = FALSE]), net)
  /\ UNCHANGED <<packets, faults>>

\* The lifetime of a route ends.
Expire(s, d) ==
  /\ Fault
  /\ Valid(node[s], d)
  /\ node' = [node EXCEPT ![s].m_routes[d].valid = FALSE]
  /\ UNCHANGED <<net, packets, flags>>

Next ==
  \/ RequestRoute
  \/ \E f \in net : ReceiveAction(f) \/ ReceiveData(f)
  \/ \E s, d \in Station : RetryPathDiscovery(s, d) \/ Expire(s, d)
  \/ \E s \in Station : PreqTimeout(s) \/ PerrTimeout(s)
  \/ \E s \in Station : \E t \in Neighbours(s) : LinkClosed(s, t)

Spec == Init /\ [][Next]_vars

FairSpec == Spec /\ \A f \in Flow : WF_vars(RetryPathDiscovery(f[1], f[2]))
-------------------------------------------------------------------------------
(* The members of every station: routes lead to neighbours, a discovery is   *)
(* given up after MaxRetries retries, and a request waits only for the timer *)
(* of the last one.                                                          *)
TypeOK ==
  /\ \A s \in Station :
       LET n == node[s]
       IN  /\ \A d \in Station :
                /\ n.m_routes[d].retransmitter \in Neighbours(s) \cup {None}
                /\ n.m_routes[d].valid => n.m_routes[d].retransmitter # None
                /\ n.m_preqTimeouts[d] \in 0 .. MaxRetries + 1
           /\ n.m_hwmpSeqno \in Nat \ {0}
           /\ n.out = {}
           /\ n.m_preqTimer \/ n.m_myPreq = << >>
  /\ \A f \in net : <<f.from, f.to>> \in DOMAIN Metric
  /\ packets \in 0 .. MaxPackets /\ faults \in 0 .. MaxFaults
  /\ flags \in Flags

(* No packet is forgotten in the queue: whenever one waits, a retry of its   *)
(* discovery is pending, which will send or drop it, and no valid route      *)
(* exists that it could already have taken (QueuePacket, Reactive-           *)
(* PathResolved, RetryPathDiscovery).                                        *)
QueuedIsPending ==
  \A s \in Station : \A p \in node[s].m_rqueue :
    node[s].m_preqTimeouts[p.dst] # 0 /\ ~Valid(node[s], p.dst)

(* MaxQueueSize is the "Maximum number of packets we can store when          *)
(* resolving route".  It is not: QueuePacket tests with > and not >=, and    *)
(* one packet more gets in.                                                  *)
QueueWithinLimit == \A s \in Station : Cardinality(node[s].m_rqueue) <= MaxQueueSize

(* When only destinations answer (m_doFlag), the valid routes to a           *)
(* destination form no loop, whatever is lost, expires or is torn down: no   *)
(* set of stations passes packets for d on among its members only.           *)
(* ReceivePreq and ReceivePrep keep this up in a mesh without cycles; where  *)
(* the mesh has one, an answer can come back to a station that it passed,    *)
(* whose route has expired meanwhile, and is accepted there once more.       *)
LoopFree ==
  m_doFlag =>
  \A d \in Station : \A S \in (SUBSET (Station \ {d})) \ {{}} :
    \E s \in S : ~Valid(node[s], d) \/ node[s].m_routes[d].retransmitter \notin S

(* When only destinations answer, no station believes in a sequence number   *)
(* of another that the other has not issued: by AcceptPreq and AcceptPrep it *)
(* would refuse the genuine ones until they catch up.                        *)
NumbersAreGenuine ==
  m_doFlag =>
  \A s, d \in Station : node[s].m_hwmpSeqnoMetricDatabase[d].seqno <= node[d].m_hwmpSeqno

(* A packet that waits for a path leaves the queue: sent, or dropped after   *)
(* the last retry.                                                           *)
Queued(i) == \E s \in Station : \E p \in node[s].m_rqueue : p.id = i
EveryPacketLeaves == \A i \in 1 .. MaxPackets : Queued(i) ~> ~Queued(i)
-------------------------------------------------------------------------------
(* The inductive invariant behind TypeOK, QueuedIsPending and              *)
(* NumbersAreGenuine.                                                      *)

Route == [retransmitter : Station \cup {None}, metric : Nat, seqnum : Nat, valid : BOOLEAN,
          precursors : SUBSET Station]
Unit == [dst : Station, seqnum : Nat, do : BOOLEAN, rf : BOOLEAN]
Preq == [originator : Station, seqno : Nat, metric : Nat, destinations : SUBSET Unit]
FailedDestination == [dst : Station, seqnum : Nat]
Packet == [id : Nat, dst : Station]
Frame ==
  [kind : {"PREQ"}, from : Station, to : Station, preqs : Seq(Preq)]
  \cup [kind : {"PREP"}, from : Station, to : Station, originator : Station, dst : Station,
        metric : Nat, seqno : Nat]
  \cup [kind : {"PERR"}, from : Station, to : Station, destinations : SUBSET FailedDestination]
  \cup [kind : {"DATA"}, from : Station, to : Station, packet : Packet, ttl : Int]
Members ==
  [m_routes : [Station -> Route],
   m_hwmpSeqnoMetricDatabase : [Station -> [seqno : Int, metric : Nat]],
   m_hwmpSeqno : Nat \ {0},
   m_rqueue : SUBSET Packet,
   m_preqTimeouts : [Station -> 0 .. MaxRetries + 1],
   m_myPreq : Seq(Preq), m_preqTimer : BOOLEAN,
   m_myPerr : [destinations : SUBSET FailedDestination, receivers : SUBSET Station],
   m_perrTimer : BOOLEAN,
   out : SUBSET Frame]

\* When only destinations answer, what is said of d's number was issued by d;
\* N is the number that each station has issued last.
GenuinePreq(q, N) == m_doFlag => q.seqno <= N[q.originator] /\ \A u \in q.destinations : u.do
GenuineFrame(f, N) ==
  /\ <<f.from, f.to>> \in DOMAIN Metric
  /\ f.kind = "PREQ" => \A i \in DOMAIN f.preqs : GenuinePreq(f.preqs[i], N)
  /\ f.kind = "PREP" => (m_doFlag => f.seqno <= N[f.originator])

\* Routes lead to neighbours, and errors go to neighbours.
RoutesLead(s, n) ==
  /\ \A d \in Station :
       /\ n.m_routes[d].retransmitter \in Neighbours(s) \cup {None}
       /\ n.m_routes[d].valid => n.m_routes[d].retransmitter # None
       /\ n.m_routes[d].precursors \subseteq Neighbours(s)
  /\ n.m_myPerr.receivers \subseteq Neighbours(s)

QueueBounded(n) == IsFiniteSet(n.m_rqueue) /\ Cardinality(n.m_rqueue) <= MaxQueueSize + 1
Awaited(n) == \A p \in n.m_rqueue : n.m_preqTimeouts[p.dst] # 0 /\ ~Valid(n, p.dst)
Timed(n) == n.m_preqTimer \/ n.m_myPreq = << >>

Genuine(n, N) ==
  /\ \A i \in DOMAIN n.m_myPreq : GenuinePreq(n.m_myPreq[i], N)
  /\ m_doFlag => \A d \in Station : n.m_hwmpSeqnoMetricDatabase[d].seqno <= N[d]
  /\ \A f \in n.out : GenuineFrame(f, N)

Issued == [s \in Station |-> node[s].m_hwmpSeqno]
HwmpInv ==
  /\ node \in [Station -> Members]
  /\ \A s \in Station :
       LET n == node[s]
       IN  /\ RoutesLead(s, n) /\ QueueBounded(n) /\ Awaited(n) /\ Timed(n)
           /\ Genuine(n, Issued) /\ n.out = {}
  /\ net \subseteq Frame /\ \A f \in net : GenuineFrame(f, Issued)
  /\ packets \in 0 .. MaxPackets /\ faults \in 0 .. MaxFaults
  /\ flags \in Flags
-------------------------------------------------------------------------------
(* Meshes without cycles, and the inductive invariant behind LoopFree in   *)
(* them.                                                                   *)

\* t is the next station on the way from s to d, where dist has the costs of the ways.
Nearer(dist, s, t, d) == dist[s][d] = dist[t][d] + Metric[<<s, t>>]

\* There is one way between two stations, so that of a station's neighbours at
\* most one is nearer to d and the others are farther away.  In a cycle the
\* station with the greatest distance would have two neighbours nearer than it.
Distances(dist) ==
  /\ dist \in [Station -> [Station -> Nat]]
  /\ \A d \in Station : dist[d][d] = 0
  /\ \A s, d \in Station : \A t \in Neighbours(s) :
       /\ Nearer(dist, s, t, d) \/ Nearer(dist, t, s, d)
       /\ \A u \in Neighbours(s) : Nearer(dist, s, t, d) /\ Nearer(dist, s, u, d) => t = u
WithoutCycles == \E dist : Distances(dist)

\* The number and the metric that from tells of d are those it has noted, or its own.
ToldBy(dist, known, from, d, seqno, metric) ==
  metric = dist[from][d] /\ (from = d \/ seqno <= known[d].seqno)

\* Answers go the way from the station that was asked for to the one that asked.
StraightFrame(dist, f, known) ==
  /\ f.kind = "PREQ" => \A i \in DOMAIN f.preqs :
       ToldBy(dist, known, f.from, f.preqs[i].originator, f.preqs[i].seqno, f.preqs[i].metric)
  /\ f.kind = "PREP" =>
       /\ ToldBy(dist, known, f.from, f.originator, f.seqno, f.metric)
       /\ Nearer(dist, f.to, f.from, f.originator) /\ Nearer(dist, f.from, f.to, f.dst)

\* Routes lead the only way, and metrics are the costs of it.
StraightRoutes(dist, s, n) ==
  \A d \in Station :
    /\ n.m_routes[d].retransmitter # None => Nearer(dist, s, n.m_routes[d].retransmitter, d)
    /\ LET known == n.m_hwmpSeqnoMetricDatabase[d] IN known.seqno >= 0 => known.metric = dist[s][d]

\* The costs are known, and news of d reach a station before those that are
\* farther away from d.
StraightInv(dist) ==
  m_doFlag =>
  /\ \A s \in Station : StraightRoutes(dist, s, node[s])
  /\ \A s \in Station : \A i \in DOMAIN node[s].m_myPreq :
       node[s].m_myPreq[i].originator = s /\ node[s].m_myPreq[i].metric = 0
  /\ \A s \in Station : \A t \in Neighbours(s) : \A d \in Station \ {t} :
       Nearer(dist, s, t, d) =>
         node[s].m_hwmpSeqnoMetricDatabase[d].seqno <= node[t].m_hwmpSeqnoMetricDatabase[d].seqno
  /\ \A f \in net : StraightFrame(dist, f, node[f.from].m_hwmpSeqnoMetricDatabase)
===============================================================================
