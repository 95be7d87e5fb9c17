----------------------------- MODULE NetworkGraph -----------------------------
(***************************************************************************)
(* The weighted graph on which the load balancer bases its clustering.     *)
(* Every rank counts the events of each node (IncNodeLoad) and its         *)
(* channels count what they transmit; MergeNetworkGraph brings the graphs  *)
(* of all ranks together on rank 0, which turns traffic into the edge      *)
(* weights it writes for the clustering.                                   *)
(*                                                                         *)
(* One edge per channel: topologies in which no two channels join the same *)
(* nodes.  What else the ranks do between and after the merges is in       *)
(* LoadBalancing.                                                          *)
(***************************************************************************)
EXTENDS Integers, FiniteSetsExt

CONSTANTS
  N,             \* MPI_Comm_size
  Node,          \* the vertices
  Link,          \* the point-to-point channels, the edges
  IsRemote,      \* Rank -> links that are remote channels there
  Garbage,       \* what an uninitialised uint32_t may hold
  W,             \* 2^32: loads and traffic are uint32_t
  MaxWork,       \* events per node, and packets per link, on a rank (a bound)
  MaxIteration   \* reclusterings (a bound)

Rank == 0 .. N - 1

ASSUME SizeAssumption == N \in Nat \ {0} /\ W \in Nat \ {0}
ASSUME RemoteAssumption == IsRemote \in [Rank -> SUBSET Link]
ASSUME GarbageAssumption == Garbage \subseteq 0 .. W - 1 /\ Garbage # {}
ASSUME WorkAssumption == MaxWork \in Nat /\ MaxIteration \in Nat

VARIABLES
  merging,         \* the ranks that are in MergeNetworkGraph
  m_traffic,       \* the channels' counters on each rank
  load, weight,    \* m_networkGraph of each rank: vertex_color, edge_weight
  queue,           \* m_mpiGraphQueue at rank 0, with the senders' ranks
  max_traffic,     \* rank 0's max_traffic
  written,         \* edge weights written for the clustering, times max_traffic
  m_iterationNum,  \* reclusterings each rank has entered
  handled, sent    \* history: events and packets since the start of Run

vars == <<merging, m_traffic, load, weight, queue, max_traffic, written,
          m_iterationNum, handled, sent>>

Count == 0 .. W - 1
Zero(S) == [r \in Rank |-> [x \in S |-> 0]]

\* The remote channel has an m_traffic of its own that its constructor leaves
\* alone; the graph starts with loads and weights 0.
Init ==
  /\ merging = {}
  /\ m_traffic \in [Rank -> [Link -> Garbage \cup {0}]]
  /\ \A r \in Rank : \A l \in Link :
       m_traffic[r][l] \in IF l \in IsRemote[r] THEN Garbage ELSE {0}
  /\ load = Zero(Node)
  /\ weight = Zero(Link)
  /\ queue = {}
  /\ max_traffic = 0
  /\ written = [l \in Link |-> 0]
  /\ m_iterationNum = [r \in Rank |-> 0]
  /\ handled = Zero(Node)
  /\ sent = Zero(Link)

\* ProcessOneEvent takes an event of node n and calls IncNodeLoad, whether or
\* not the rank then invokes the event.
IncNodeLoad(r, n) ==
  /\ r \notin merging
  /\ handled[r][n] < MaxWork
  /\ load' = [load EXCEPT ![r][n] = (@ + 1) % W]
  /\ handled' = [handled EXCEPT ![r][n] = @ + 1]
  /\ UNCHANGED <<merging, m_traffic, weight, queue, max_traffic, written,
                 m_iterationNum, sent>>

\* TransmitStart of either kind of channel, for a packet of size 1
TransmitStart(r, l) ==
  /\ r \notin merging
  /\ sent[r][l] < MaxWork
  /\ m_traffic' = [m_traffic EXCEPT ![r][l] = (@ + 1) % W]
  /\ sent' = [sent EXCEPT ![r][l] = @ + 1]
  /\ UNCHANGED <<merging, load, weight, queue, max_traffic, written,
                 m_iterationNum, handled>>

\* UpdateNetworkGraph overwrites the weights; the mutant adds to them.
UpdateByAdding(r) == [l \in Link |-> weight[r][l] + m_traffic[r][l]]
UpdateNetworkGraph(r) == m_traffic[r]

\* Reclustering: a rank updates its graph, and sends it to rank 0.
EnterMerge(r) ==
  /\ r \notin merging
  /\ m_iterationNum[r] < MaxIteration
  /\ m_iterationNum' = [m_iterationNum EXCEPT ![r] = @ + 1]
  /\ merging' = merging \cup {r}
  /\ weight' = [weight EXCEPT ![r] = UpdateNetworkGraph(r)]
  /\ queue' = IF r = 0 THEN queue
              ELSE queue \cup {[from |-> r, load |-> load[r], weight |-> UpdateNetworkGraph(r)]}
  /\ max_traffic' = IF r = 0 THEN 0 ELSE max_traffic
  /\ UNCHANGED <<m_traffic, load, written, handled, sent>>

\* max_traffic after the edges of one more graph; the mutant looks at what the
\* graph brought instead of the sums.
MaxOfParts(g) == Max({max_traffic} \cup {g.weight[l] : l \in Link})
MaxOfSums(g) == Max({max_traffic} \cup {weight[0][l] + g.weight[l] : l \in Link})

\* Rank 0 adds a graph from the queue to its own.
MergeGraph ==
  /\ merging = Rank
  /\ \E g \in queue :
       /\ queue' = queue \ {g}
       /\ load' = [load EXCEPT ![0] = [n \in Node |-> (@[n] + g.load[n]) % W]]
       /\ weight' = [weight EXCEPT ![0] = [l \in Link |-> @[l] + g.weight[l]]]
       /\ max_traffic' = MaxOfSums(g)
  /\ UNCHANGED <<merging, m_traffic, written, m_iterationNum, handled, sent>>

\* The queue is empty: rank 0 replaces each weight by (max_traffic - weight) /
\* max_traffic, kept here without the division, and writes the file; behind the
\* last barrier the ranks go on.
WriteWeights ==
  /\ merging = Rank
  /\ queue = {}
  /\ written' = [l \in Link |-> max_traffic - weight[0][l]]
  /\ weight' = [weight EXCEPT ![0] = written']
  /\ merging' = {}
  /\ UNCHANGED <<m_traffic, load, queue, max_traffic, m_iterationNum, handled, sent>>

\* The bounds are reached.
Done == merging = {} /\ (\A r \in Rank : m_iterationNum[r] = MaxIteration) /\ UNCHANGED vars

Next ==
  \/ \E r \in Rank :
       \/ \E n \in Node : IncNodeLoad(r, n)
       \/ \E l \in Link : TransmitStart(r, l)
       \/ EnterMerge(r)
  \/ MergeGraph
  \/ WriteWeights
  \/ Done

Spec == Init /\ [][Next]_vars
-------------------------------------------------------------------------------
(* Properties. *)

\* g[0] + ... + g[N - 1]
SumOf(g) ==
  LET sum[r \in Rank] == IF r = 0 THEN g[0] ELSE sum[r - 1] + g[r]
  IN  sum[N - 1]

\* Sum over all ranks of a counter
Total(f, x) == SumOf([r \in Rank |-> f[r][x]])

Merged == merging = Rank /\ queue = {}

\* Loads and traffic are uint32_t, weights sums of traffic.
GraphTypes(Weights) ==
  /\ merging \subseteq Rank
  /\ m_traffic \in [Rank -> [Link -> Count]]
  /\ load \in [Rank -> [Node -> Count]]
  /\ weight \in [Rank -> [Link -> Weights]]
  /\ queue \subseteq [from : Rank, load : [Node -> Count], weight : [Link -> Count]]
  /\ max_traffic \in 0 .. N * W
  /\ m_iterationNum \in [Rank -> 0 .. MaxIteration]
TypeOK == GraphTypes(0 .. N * W)

\* When the graphs are merged, in whatever order they came and in every
\* iteration, an edge's weight is the traffic of its channel on all ranks.
TrafficMerged == Merged => \A l \in Link : weight[0][l] = Total(m_traffic, l)

\* "(max_traffic - weight) / max_traffic": the weights written lie between 0
\* and 1, and some busiest edge gets 0, unless there was no traffic at all or
\* no other rank to take a graph from.
WeightsNormalised ==
  Merged /\ N > 1 =>
    /\ \A l \in Link : weight[0][l] <= max_traffic
    /\ max_traffic = 0 \/ \E l \in Link : weight[0][l] = max_traffic

\* "Get traffic size sended by this channel": the weights are merged from what
\* the channels really sent.
TrafficIsSent == Merged => \A l \in Link : weight[0][l] = Total(sent, l)

\* "vertex_color - load": the merged load of a node is the number of its events.
LoadIsHandled == Merged => \A n \in Node : load[0][n] = Total(handled, n)
-------------------------------------------------------------------------------
(* The inductive invariant behind these properties. *)

\* The ranks whose graphs rank 0 has added to its own, itself included
Added == merging \ {g.from : g \in queue}

\* A graph in the queue is the only one of its rank, whose channels count
\* nothing meanwhile; until all ranks have entered, no graph is taken out.
QueueIsFresh ==
  /\ \A g \in queue : g.from \in merging \ {0} /\ g.weight = m_traffic[g.from]
  /\ \A g, h \in queue : g.from = h.from => g = h
  /\ merging # Rank => Added = merging \cap {0}

\* From the time rank 0 enters, its weights are the sums over the graphs added.
SumsSoFar ==
  0 \in merging => \A l \in Link :
    weight[0][l] = SumOf([r \in Rank |-> IF r \in Added THEN m_traffic[r][l] ELSE 0])

\* From the first graph of another rank on, max_traffic is their maximum, or 0.
MaxSoFar ==
  0 \in merging =>
    IF Added = {0} THEN max_traffic = 0
    ELSE /\ \A l \in Link : weight[0][l] <= max_traffic
         /\ max_traffic = 0 \/ \E l \in Link : weight[0][l] = max_traffic

\* On a single rank max_traffic stays 0 and the weights become negative; what
\* holds even then.
GraphInv == GraphTypes(Int) /\ QueueIsFresh /\ SumsSoFar /\ MaxSoFar
===============================================================================
