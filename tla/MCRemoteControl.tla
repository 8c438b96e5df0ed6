--------------------------- MODULE MCRemoteControl ---------------------------
(***************************************************************************)
(* Small instances of RemoteControl: three connections suffice for one that*)
(* ends, one that stays and one that waits to be accepted.                 *)
(***************************************************************************)
EXTENDS RemoteControl, TLC

CONSTANTS c1, c2, c3, server, none

TwoConnections == {c1, c2}
ThreeConnections == {c1, c2, c3}

\* Connections are interchangeable: the first one accepted is any of them.
Symmetry == Permutations(ThreeConnections)
==============================================================================
