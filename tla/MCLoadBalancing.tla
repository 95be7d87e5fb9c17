---------------------------- MODULE MCLoadBalancing ----------------------------
(***************************************************************************)
(* Instances of LoadBalancing for TLC.  Node 0 has no links; the others    *)
(* form a chain.                                                           *)
(***************************************************************************)
EXTENDS LoadBalancing, TLC

CONSTANT l1, l2   \* links: l1 joins nodes 1 and 2, l2 nodes 2 and 3

OneLink == l1 :> <<1, 2>>
OneLinkDevices == << [node |-> 1, link |-> l1], [node |-> 2, link |-> l1] >>
OneDelay == l1 :> 2

Chain == l1 :> <<1, 2>> @@ l2 :> <<2, 3>>
ChainDevices == << [node |-> 1, link |-> l1], [node |-> 2, link |-> l1],
                   [node |-> 2, link |-> l2], [node |-> 3, link |-> l2] >>
EqualDelays == l1 :> 2 @@ l2 :> 2

\* nodes 0 and 1 | node 2
TwoRanks == 0 :> 0 @@ 1 :> 0 @@ 2 :> 1
\* nodes 0, 1 and 2 | node 3
TwoRanksChain == 0 :> 0 @@ 1 :> 0 @@ 2 :> 0 @@ 3 :> 1

\* every node but node 0 runs an application on its rank
OwnNodes == [r \in Rank |-> {n \in Node \ {0} : SystemId[n] = r}]

\* node 0 stays; the others go anywhere
AnyClustering == {c \in [Node -> Rank] : c[0] = 0}

Symmetry == Permutations(Slot)
===============================================================================
