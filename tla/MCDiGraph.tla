------------------------------ MODULE MCDiGraph ------------------------------
(***************************************************************************)
(* Graphs over four vertices up to renaming (vertices are added in one     *)
(* order), edges in every order, each vertex with at most Degree others    *)
(* adjacent to it.                                                         *)
(***************************************************************************)
EXTENDS DiGraph

CONSTANT Degree

FixedOrder == ids = [i \in 1..Len(ids) |-> i]
FewEdges == \A v \in DOMAIN adjacent : Len(adjacent[v]) <= Degree
=============================================================================
