------------------------------ MODULE MCPeerLink ------------------------------
(* Three stations in a row, s1 in the middle.  s1 admits no second link    *)
(* while it has one and initiates one link, s2 initiates two; s3 is heard  *)
(* by s1 and initiates none.                                               *)
EXTENDS PeerLink, TLC

CONSTANTS s1, s2, s3

MCStation == {s1, s2, s3}
MCPair == {<<s1, s2>>, <<s2, s1>>, <<s1, s3>>, <<s3, s1>>}
MCMaxPeerLinks == s1 :> 0 @@ s2 :> 1 @@ s3 :> 1
MCMaxLinks == s1 :> 1 @@ s2 :> 2 @@ s3 :> 0

\* With a limit of one link, s1 may initiate a link to both others.
OneLinkEach == [s \in MCStation |-> 1]
BothNeighbours == s1 :> 2 @@ s2 :> 1 @@ s3 :> 1
===============================================================================
