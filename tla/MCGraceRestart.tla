--------------------------- MODULE MCGraceRestart ---------------------------
(* GraceRestart on two addresses and two or three processes. *)
EXTENDS GraceRestart, TLC

CONSTANTS a1, a2

TwoAddrs == {a1, a2}

\* Restarts of a program whose servers listen before it is signalled.
HandOver == [registerAllFirst |-> TRUE, whenListening |-> TRUE, settledFirst |-> TRUE,
             killsParent |-> FALSE, procs |-> 3]

\* SIGHUP at any moment, and a child that kills its parent.
AnyTime == [registerAllFirst |-> FALSE, whenListening |-> FALSE, settledFirst |-> FALSE,
            killsParent |-> TRUE, procs |-> 2]

\* SIGHUP to the first process only, as often as the operator likes.
Repeated == [registerAllFirst |-> TRUE, whenListening |-> TRUE, settledFirst |-> FALSE,
             killsParent |-> FALSE, procs |-> 2]

AllEnvs == {HandOver, AnyTime, Repeated}
OnlyRepeated == {Repeated}
=============================================================================
