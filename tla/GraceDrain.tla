----------------------------- MODULE GraceDrain -----------------------------
(***************************************************************************)
(* What package grace promises of one MicroService, with none of its       *)
(* goroutines: connections are admitted only while the service is serving, *)
(* a connection that has finished is never live again, and the service     *)
(* terminates only when its last connection has finished, unless the       *)
(* shutdown timeout has forced it ("whether it finished outstanding        *)
(* requests or not").  Module GraceService implements this specification.  *)
(***************************************************************************)
CONSTANT Conns      \* the connections clients may open

VARIABLES
  phase,    \* "starting", "serving", "draining", "terminated" or "dead"
  live,     \* connections admitted and not finished
  past,     \* connections that have finished
  forced    \* the shutdown timeout has expired

absVars == <<phase, live, past, forced>>

AbsInit ==
  /\ phase = "starting"
  /\ live = {}
  /\ past = {}
  /\ forced = FALSE

\* The service starts accepting.
Start ==
  /\ phase = "starting"
  /\ phase' = "serving"
  /\ UNCHANGED <<live, past, forced>>

\* A new connection is admitted.
Admit(c) ==
  /\ phase = "serving"
  /\ c \notin live \cup past
  /\ live' = live \cup {c}
  /\ UNCHANGED <<phase, past, forced>>

\* A live connection is closed, in any phase.
Finish(c) ==
  /\ c \in live
  /\ live' = live \ {c}
  /\ past' = past \cup {c}
  /\ UNCHANGED <<phase, forced>>

\* The listener is closed: nothing is admitted from here on.
StopAdmitting ==
  /\ phase = "serving"
  /\ phase' = "draining"
  /\ UNCHANGED <<live, past, forced>>

\* The timeout given to shutdown expires.
Force ==
  /\ ~forced
  /\ forced' = TRUE
  /\ UNCHANGED <<phase, live, past>>

\* The service returns to its caller.
Terminate ==
  /\ phase = "draining"
  /\ live = {} \/ forced
  /\ phase' = "terminated"
  /\ UNCHANGED <<live, past, forced>>

\* Forcing may take the whole process down.
Die ==
  /\ forced
  /\ phase # "terminated"
  /\ phase' = "dead"
  /\ UNCHANGED <<live, past, forced>>

AbsNext ==
  \/ Start \/ StopAdmitting \/ Force \/ Terminate \/ Die
  \/ \E c \in Conns : Admit(c) \/ Finish(c)

AbsSpec == AbsInit /\ [][AbsNext]_absVars
=============================================================================
