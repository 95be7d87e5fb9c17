----------------------------- MODULE LoadBalancing -----------------------------
(***************************************************************************)
(* The load balancer on top of the distributed simulator: every            *)
(* ReclusteringInterval all ranks meet in                                  *)
(* LoadBalancingApplication::MergeNetworkGraph; rank 0 clusters the        *)
(* network graph, the rank that holds a node is told to give it away, and  *)
(* the node's applications are created anew on the rank that gets it.      *)
(*                                                                         *)
(* The ranks meet at the synchronize calls and in the empty () of the      *)
(* distributed queues, which returns true only once every rank's queue is  *)
(* empty.  The weights of the graph are left out: the clustering is any    *)
(* one that Clusterings offers, or it fails.                               *)
(***************************************************************************)
EXTENDS DistributedSimulator

CONSTANT Clusterings   \* results of the clustering: nodes -> their new ranks

ASSUME ClusteringAssumption ==
  \A c \in Clusterings : DOMAIN c \subseteq Node /\ \A n \in DOMAIN c : c[n] \in Rank

VARIABLES
  m_sid,       \* each rank's replica of the nodes' system ids
  m_apps,      \* how many applications each rank's replicas of the nodes have
  moved,       \* nodes whose applications were created on a rank by a move
  nodeQueue,   \* m_mpiNodeQueue: the nodes a rank has to give away
  appsQueue    \* m_mpiApplicationsQueue: the applications a rank has to create

simVars == <<m_currentTs, m_grantedTime, m_stop, m_rxCount, m_txCount, m_pLBTS, net>>
lbVars == <<m_sid, m_apps, moved, nodeQueue, appsQueue>>
allVars == <<vars, lbVars>>

NodeForMoving == [context : Node, new_cluster : Rank]
AppsForMoving == [context : Node, count : Nat]

LbInit ==
  /\ Init
  /\ m_sid = [r \in Rank |-> SystemId]
  /\ m_apps = [r \in Rank |-> [n \in Node |-> IF n \in Installed[r] THEN 1 ELSE 0]]
  /\ moved = [r \in Rank |-> {}]
  /\ nodeQueue = [r \in Rank |-> {}]
  /\ appsQueue = [r \in Rank |-> {}]
-------------------------------------------------------------------------------
(* The rounds of MergeNetworkGraph. *)

AllAt(phase) == \A r \in Rank : pc[r] = phase

\* The reclustering event: StartReclustering enters MergeNetworkGraph.
Reclustering(r) ==
  /\ MayProcess(r)
  /\ PeekNext(r).kind = "recluster"
  /\ Consume(r, {}, 0)
  /\ pc' = [pc EXCEPT ![r] = "graph"]
  /\ UNCHANGED <<m_grantedTime, m_stop, m_rxCount, m_txCount, m_pLBTS, net, lbVars>>

\* Who is told about a move: the old rank, as far as rank 0 knows it.  The
\* mutant tells the new one.
AddresseeNew(v) == v.new_cluster
Addressee(v) == m_sid[0][v.context]

\* ClusterNetworkGraph compares the clustering with rank 0's own system ids.
NodesForMoving(c) ==
  {v \in NodeForMoving : v.context \in DOMAIN c /\ v.new_cluster = c[v.context]
                           /\ v.new_cluster # m_sid[0][v.context]}

\* The graphs are merged, and between the next two barriers rank 0 clusters
\* them; an exception of the clustering leaves the queue empty.
ClusterNetworkGraph ==
  /\ AllAt("graph")
  /\ \/ \E c \in Clusterings :
          nodeQueue' = [r \in Rank |-> {v \in NodesForMoving(c) : Addressee(v) = r}]
     \/ UNCHANGED nodeQueue
  /\ pc' = [r \in Rank |-> "nodes"]
  /\ UNCHANGED <<m_events, m_uid, simVars, m_sid, m_apps, moved, appsQueue>>

\* top and pop of the node queue; the mutant forgets to pop.
TopNode(r, v) == nodeQueue' = nodeQueue
PopNode(r, v) == nodeQueue' = [nodeQueue EXCEPT ![r] = @ \ {v}]

\* A node leaves rank r: SetSystemId on r's replica, and the types of its
\* applications to the new rank.
MoveNode(r) ==
  /\ AllAt("nodes")
  /\ \E v \in nodeQueue[r] :
       /\ PopNode(r, v)
       /\ m_sid' = [m_sid EXCEPT ![r][v.context] = v.new_cluster]
       /\ appsQueue' = [appsQueue EXCEPT ![v.new_cluster] = @ \cup
                          {[context |-> v.context, count |-> m_apps[r][v.context]]}]
  /\ UNCHANGED <<pc, m_events, m_uid, simVars, m_apps, moved>>

\* All node queues are empty, and everybody has reached the barrier behind.
CompleteNodes ==
  /\ AllAt("nodes")
  /\ \A r \in Rank : nodeQueue[r] = {}
  /\ pc' = [r \in Rank |-> "apps"]
  /\ UNCHANGED <<m_events, m_uid, simVars, lbVars>>

\* The two events of application i that is created on rank r: SetStartTime (Now)
\* and Start schedule its StartApplication another Now later, outside of the
\* node's context; AddApplication schedules a second Start, which does nothing.
AppEvents(r, n, i) ==
  { NewEvent(r, 2 * i, 2 * m_currentTs[r], NoContext, "app"),
    NewEvent(r, 2 * i + 1, m_currentTs[r], n, "added") }

\* The applications of a node are created anew on its new rank r.
StartApps(r) ==
  /\ AllAt("apps")
  /\ \E v \in appsQueue[r] :
       /\ appsQueue' = [appsQueue EXCEPT ![r] = @ \ {v}]
       /\ m_apps' = [m_apps EXCEPT ![r][v.context] = @ + v.count]
       /\ moved' = [moved EXCEPT ![r] = IF v.count = 0 THEN @ ELSE @ \cup {v.context}]
       /\ m_events' = [m_events EXCEPT ![r] = @ \cup
                         UNION {AppEvents(r, v.context, i) : i \in 0 .. v.count - 1}]
       /\ m_uid' = [m_uid EXCEPT ![r] = @ + 2 * v.count]
  /\ UNCHANGED <<pc, simVars, m_sid, nodeQueue>>

\* Behind the last barrier every rank schedules its next reclustering.
CompleteApps ==
  /\ AllAt("apps")
  /\ \A r \in Rank : appsQueue[r] = {}
  /\ pc' = [r \in Rank |-> "run"]
  /\ m_events' = [r \in Rank |-> m_events[r] \cup
       {NewEvent(r, 0, m_currentTs[r] + ReclusteringInterval, NoContext, "recluster")}]
  /\ m_uid' = [r \in Rank |-> m_uid[r] + 1]
  /\ UNCHANGED <<simVars, lbVars>>
-------------------------------------------------------------------------------
(* Events of the applications that were moved. *)

\* The handler does nothing, schedules or sends, as a node that was moved here.
\* It belongs to no node's context, so ProcessOneEvent always invokes it.
ProcessApp(r) ==
  /\ MayProcess(r)
  /\ PeekNext(r).kind = "app"
  /\ \/ Consume(r, {}, 0) /\ UNCHANGED <<m_txCount, net>>
     \/ /\ m_uid[r] < MaxUid
        /\ \E d \in StepDelay : Consume(r, {NewEvent(r, 0, NextTs(r) + d, NoContext, "app")}, 1)
        /\ UNCHANGED <<m_txCount, net>>
     \/ /\ m_uid[r] < MaxUid
        /\ \E n \in moved[r] : Transmit(r, m_sid[r], n, NoContext, "app")
  /\ UNCHANGED <<pc, m_grantedTime, m_stop, m_rxCount, m_pLBTS, lbVars>>

\* The second Start of an application that has started.
ProcessAdded(r) ==
  /\ MayProcess(r)
  /\ PeekNext(r).kind = "added"
  /\ Consume(r, {}, 0)
  /\ UNCHANGED <<pc, m_grantedTime, m_stop, m_rxCount, m_txCount, m_pLBTS, net, lbVars>>
-------------------------------------------------------------------------------
\* What a rank does in Run, with its own replica of the system ids
RunStep(r) ==
  /\ \/ ProcessOneEvent(r, m_sid[r])
     \/ EnterLbts(r)
     \/ EnterAllgather(r)
     \/ UpdateGrantedTime(r)
     \/ ExitRun(r)
  /\ UNCHANGED lbVars

LbStep(r) ==
  \/ RunStep(r)
  \/ Reclustering(r)
  \/ MoveNode(r)
  \/ StartApps(r)
  \/ ProcessApp(r)
  \/ ProcessAdded(r)

Receive(r) == ReceiveMessage(r) /\ UNCHANGED lbVars

\* The steps that all ranks take together
Collective ==
  \/ (Allgather \/ Finished) /\ UNCHANGED lbVars
  \/ ClusterNetworkGraph
  \/ CompleteNodes
  \/ CompleteApps

LbNext == (\E r \in Rank : LbStep(r) \/ Receive(r)) \/ Collective

LbFairness ==
  /\ \A r \in Rank : WF_allVars(LbStep(r)) /\ SF_allVars(Receive(r))
  /\ WF_allVars(Collective)

LbSpec == LbInit /\ [][LbNext]_allVars
FairLbSpec == LbSpec /\ LbFairness
-------------------------------------------------------------------------------
(* Properties. *)

Phases == {"graph", "nodes", "apps"}

\* The balancer's variables and, with the phases of MergeNetworkGraph, those of
\* the simulator have their types.
LbTypeOK ==
  /\ pc \in [Rank -> {"run", "recv", "gather", "lbts", "done"} \cup Phases]
  /\ m_events \in [Rank -> SUBSET Event]
  /\ m_uid \in [Rank -> Nat]
  /\ m_currentTs \in [Rank -> Nat]
  /\ m_grantedTime \in [Rank -> Nat]
  /\ m_stop \in [Rank -> BOOLEAN]
  /\ m_rxCount \in [Rank -> 0 .. W - 1]
  /\ m_txCount \in [Rank -> 0 .. W - 1]
  /\ m_pLBTS \in [Rank -> [Rank -> LbtsMessage]]
  /\ net \in [Slot -> Msg \cup {NoMsg}]
  /\ m_sid \in [Rank -> [Node -> Rank]]
  /\ m_apps \in [Rank -> [Node -> Nat]]
  /\ moved \in [Rank -> SUBSET Node]
  /\ nodeQueue \in [Rank -> SUBSET NodeForMoving]
  /\ appsQueue \in [Rank -> SUBSET AppsForMoving]

\* However often nodes are moved, and however stale rank 0's idea of where they
\* are, no two ranks both take themselves for the rank that executes a node.
AtMostOneExecutor ==
  \A n \in Node : \A r, q \in Rank : m_sid[r][n] = r /\ m_sid[q][n] = q => r = q

\* No rank waits in MergeNetworkGraph for one that waits for it in the Allgather
\* of Run, or has returned.
BarriersAgree ==
  \A r, q \in Rank : pc[r] \in Phases => pc[q] \notin {"recv", "gather", "done"}

\* "The rank ... is intended to signify on which LP a node belongs": between
\* reclusterings every node is executed by some rank.
EveryNodeExecuted ==
  (\A r \in Rank : pc[r] \notin Phases) =>
    \A n \in Node : \E r \in Rank : m_sid[r][n] = r

\* "Only the applications are specific to a rank": a node's application is alive
\* on one rank at a time, in the node's context or created there by a move.
RunsApp(r, n) == n \in moved[r] \/ (n \in Installed[r] /\ m_sid[r][n] = r)
AppOnOneRank ==
  (\A r \in Rank : pc[r] \notin Phases) =>
    \A n \in Node : \A r, q \in Rank : RunsApp(r, n) /\ RunsApp(q, n) => r = q
-------------------------------------------------------------------------------
\* The inductive invariant behind AtMostOneExecutor: a rank only ever gives
\* nodes away, so at most a node's first rank still executes it.
ExecutorInv ==
  /\ m_sid \in [Rank -> [Node -> Rank]]
  /\ nodeQueue \in [Rank -> SUBSET NodeForMoving]
  /\ \A r \in Rank : \A v \in nodeQueue[r] : v.new_cluster # r
  /\ \A r \in Rank : \A n \in Node : m_sid[r][n] = r => SystemId[n] = r

\* A rank that has not stopped will; one that has is about to return, or has.
StopKept ==
  \A r \in Rank :
    /\ ~m_stop[r] => StopEvent \in m_events[r] /\ pc[r] # "done"
    /\ m_stop[r] => pc[r] \in {"run", "done"}
    /\ \A e \in m_events[r] : e.kind = "stop" => e = StopEvent

\* On every rank one reclustering is pending, or going to be, or in progress.
OneReclustering ==
  \A r \in Rank :
    LET pending == {e \in m_events[r] : e.kind = "recluster"}
        starts == {e \in m_events[r] : e.kind = "lb"}
    IN  /\ m_uid[r] >= 6 + NumNodes
        /\ \A e \in pending : e.uid >= 6 + NumNodes
        /\ \A e, f \in pending : e = f
        /\ starts \subseteq {LbStartEvent}
        /\ pc[r] \in Phases => pending = {} /\ starts = {}
        /\ pc[r] \notin Phases => (pending = {}) = (starts # {})

\* It is due at the same time t everywhere.  Ranks that wait in Run were not
\* granted t yet, and those that stopped do so before t.
DueAt(t) ==
  \A r \in Rank :
    /\ LbStartEvent \in m_events[r] => t = ReclusteringInterval
    /\ \A e \in m_events[r] : e.kind = "recluster" => e.ts = t
    /\ pc[r] \in Phases => m_currentTs[r] = t /\ m_grantedTime[r] >= t /\ t < StopTime
    /\ pc[r] \in {"recv", "gather"} => m_grantedTime[r] < t
    /\ m_stop[r] => StopTime <= t

\* The phases after the first are entered by all ranks together.
PhasesAgree ==
  \A r, q \in Rank : pc[r] \in {"nodes", "apps"} => pc[q] = pc[r]

\* The inductive invariant behind LbTypeOK, and that behind BarriersAgree when
\* all ranks compute the same lookahead.
LbTyped == LbTypeOK /\ StopKept
Timetable == GrantsAgree /\ OneReclustering /\ PhasesAgree /\ \E t \in Nat : DueAt(t)
===============================================================================
