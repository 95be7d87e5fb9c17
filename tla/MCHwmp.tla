-------------------------------- MODULE MCHwmp --------------------------------
(* Three stations in a row, a - b - c, of which a and b send to c.         *)
EXTENDS HwmpProtocol

CONSTANTS a, b, c

Stations == {a, b, c}
Row == [l \in {<<a, b>>, <<b, a>>, <<b, c>>, <<c, b>>} |-> 1]
ToC == {<<a, c>>, <<b, c>>}
AllFlags == {<<TRUE, FALSE>>, <<FALSE, FALSE>>, <<FALSE, TRUE>>}
DefaultFlags == {<<FALSE, TRUE>>}

\* The row has no cycle: the costs of the ways along it show it.
ASSUME RowHasNoCycles == \E dist \in [Stations -> [Stations -> 0 .. 2]] : Distances(dist)
===============================================================================
