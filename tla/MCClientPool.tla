---------------------------- MODULE MCClientPool ----------------------------
(* ClientPool with two callers of one service and one of another. *)
EXTENDS ClientPool, TLC

CONSTANTS c1, c2, c3, s1, s2

MCCallers == {c1, c2, c3}
MCServices == {s1, s2}
MCServiceOf == [c \in MCCallers |-> IF c = c3 THEN s2 ELSE s1]
=============================================================================
