------------------------ MODULE MCDistributedSimulator ------------------------
(***************************************************************************)
(* Instances of DistributedSimulator for TLC.  The topologies are chains   *)
(* of nodes; a cfg picks the ranks of the nodes and the delays.            *)
(***************************************************************************)
EXTENDS DistributedSimulator, TLC

CONSTANTS l1, l2   \* links: l1 joins nodes 0 and 1, l2 nodes 1 and 2

Chain == l1 :> <<0, 1>> @@ l2 :> <<1, 2>>
ChainDevices == << [node |-> 0, link |-> l1], [node |-> 1, link |-> l1],
                   [node |-> 1, link |-> l2], [node |-> 2, link |-> l2] >>

\* two ranks: node 0 | nodes 1 and 2
TwoRanks == 0 :> 0 @@ 1 :> 1 @@ 2 :> 1
\* two ranks, the other way round: nodes 0 and 1 | node 2
TwoRanksLow == 0 :> 0 @@ 1 :> 0 @@ 2 :> 1
\* one node per rank
ThreeRanks == 0 :> 0 @@ 1 :> 1 @@ 2 :> 2

OwnNodes == [r \in Rank |-> {n \in Node : SystemId[n] = r}]
AllNodes == [r \in Rank |-> Node]

DelayShortLocal == l1 :> 2 @@ l2 :> 1
DelayShortFirst == l1 :> 1 @@ l2 :> 3
DelayEqual == l1 :> 2 @@ l2 :> 2
DelayUnequal == l1 :> 1 @@ l2 :> 3
DelayZeroFirst == l1 :> 0 @@ l2 :> 2

\* Here Run ends before the load balancer's first reclustering.
ASSUME StopBeforeReclustering == StopTime < ReclusteringInterval

Symmetry == Permutations(Slot)
===============================================================================
