---------------------------- MODULE ServicePools ----------------------------
(***************************************************************************)
(* What package rpcx promises of the pools of clients, with none of its    *)
(* map, lock and counter: a service gets one pool, made by the first call  *)
(* that finds none and shared by every call from then on; a call panics    *)
(* only over a discovery of its service that failed or over a pool that    *)
(* was closed; and the process may crash while a call stores what it made. *)
(* Module ClientPool implements this specification.                        *)
(***************************************************************************)
CONSTANTS
  Callers,      \* goroutines that make calls
  Services,     \* service names
  ServiceOf,    \* the service each of them calls
  Pools,        \* the pools that may be made
  NoPool        \* no pool

VARIABLES
  own,       \* the pools of each service
  status,    \* "open", "closing" or "closed" for each pool
  call,      \* "idle", "asked", "given" or "panicked" for each caller
  use,       \* the pool a caller was given, while it calls
  failed,    \* the services a discovery of which has failed
  crashed    \* the process has ended

absVars == <<own, status, call, use, failed, crashed>>

AbsInit ==
  /\ own = [s \in Services |-> {}]
  /\ status = [p \in Pools |-> "open"]
  /\ call = [c \in Callers |-> "idle"]
  /\ use = [c \in Callers |-> NoPool]
  /\ failed = {}
  /\ crashed = FALSE

Goes(c, l) == call' = [call EXCEPT ![c] = l]
Gives(c, p) == use' = [use EXCEPT ![c] = p]

\* A call begins.
Ask(c) ==
  /\ call[c] = "idle" /\ Goes(c, "asked")
  /\ UNCHANGED <<own, status, use, failed, crashed>>

\* The pool p is made for a service that has none.
Make(c, p) ==
  /\ call[c] = "asked"
  /\ own[ServiceOf[c]] = {}
  /\ \A s \in Services : p \notin own[s]
  /\ own' = [own EXCEPT ![ServiceOf[c]] = {p}]
  /\ UNCHANGED <<status, call, use, failed, crashed>>

\* The discovery of a service that has no pool fails.
Fail(c) ==
  /\ call[c] = "asked"
  /\ own[ServiceOf[c]] = {}
  /\ failed' = failed \cup {ServiceOf[c]}
  /\ UNCHANGED <<own, status, call, use, crashed>>

\* A call is given the pool of its service.
Give(c) ==
  /\ call[c] = "asked" /\ Goes(c, "given")
  /\ \E p \in own[ServiceOf[c]] : Gives(c, p)
  /\ UNCHANGED <<own, status, failed, crashed>>

\* A call on a pool that is not closed ends.
Return(c) ==
  /\ call[c] = "given" /\ Goes(c, "idle")
  /\ status[use[c]] # "closed"
  /\ Gives(c, NoPool)
  /\ UNCHANGED <<own, status, failed, crashed>>

\* A call panics: for want of a pool after a failure, or on a closed pool.
Panic(c) ==
  /\ \/ call[c] = "asked" /\ ServiceOf[c] \in failed
     \/ call[c] = "given" /\ status[use[c]] = "closed"
  /\ Goes(c, "panicked")
  /\ Gives(c, NoPool)
  /\ UNCHANGED <<own, status, failed, crashed>>

\* The pool of a service is closed, which takes a while.
CloseBegins(s) ==
  /\ \E p \in own[s] : status[p] = "open" /\ status' = [status EXCEPT ![p] = "closing"]
  /\ UNCHANGED <<own, call, use, failed, crashed>>

CloseEnds(p) ==
  /\ status[p] = "closing"
  /\ status' = [status EXCEPT ![p] = "closed"]
  /\ UNCHANGED <<own, call, use, failed, crashed>>

\* The process crashes while a call stores its pool or its failure.
Crashes ==
  /\ \E c \in Callers : /\ call[c] = "asked"
                        /\ own[ServiceOf[c]] # {} \/ ServiceOf[c] \in failed
  /\ crashed' = TRUE
  /\ UNCHANGED <<own, status, call, use, failed>>

AbsNext ==
  /\ ~crashed
  /\ \/ \E c \in Callers : \/ Ask(c) \/ Fail(c) \/ Give(c) \/ Return(c) \/ Panic(c)
                           \/ \E p \in Pools : Make(c, p)
     \/ \E s \in Services : CloseBegins(s)
     \/ \E p \in Pools : CloseEnds(p)
     \/ Crashes

AbsSpec == AbsInit /\ [][AbsNext]_absVars
=============================================================================
