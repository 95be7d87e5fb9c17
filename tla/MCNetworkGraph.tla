---------------------------- MODULE MCNetworkGraph ----------------------------
(***************************************************************************)
(* Instances of NetworkGraph for TLC.                                      *)
(***************************************************************************)
EXTENDS NetworkGraph, TLC

CONSTANTS l1, l2

\* l1 joins nodes of ranks 0 and 1.
TwoRanksOneLink == 0 :> {l1} @@ 1 :> {l1}
\* l1 joins nodes of ranks 0 and 1, l2 of ranks 1 and 2.
ThreeRanks == 0 :> {l1, l2} @@ 1 :> {l1, l2} @@ 2 :> {l1, l2}
===============================================================================
