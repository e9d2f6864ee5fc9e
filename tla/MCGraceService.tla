--------------------------- MODULE MCGraceService ---------------------------
(* GraceService on two connections, each with two goroutines that close it. *)
EXTENDS GraceService, TLC

CONSTANTS c1, c2, k1, k2

MCConns == {c1, c2}
MCClosers == {k1, k2}
Symm == Permutations(MCConns) \cup Permutations(MCClosers)
=============================================================================
