---------------------------- MODULE GraceSockets ----------------------------
(***************************************************************************)
(* What a graceful restart promises of the listening sockets, with none of *)
(* the signals, servers and descriptors: the first process listens, every  *)
(* process hands all of its sockets to the one that it starts, and a       *)
(* process gives a socket up only when a younger process holds it.  Module *)
(* GraceRestart implements this specification where the program registers  *)
(* its servers before it serves and is signalled once they listen.         *)
(***************************************************************************)
EXTENDS Integers

CONSTANTS
  Addrs,      \* the addresses that are served
  MaxProcs    \* process p+1 is started by process p

VARIABLE holders    \* the processes that keep each address from being refused

Procs == 1..MaxProcs

AbsInit == holders = [a \in Addrs |-> {}]

\* The first process listens on an address.
Listen(a) ==
  /\ holders[a] = {}
  /\ holders' = [holders EXCEPT ![a] = {1}]

\* Process p, the youngest that holds anything and a holder of every socket,
\* starts process p+1.
HandOver(p) ==
  /\ \A a \in Addrs : p \in holders[a] /\ \A q \in holders[a] : q <= p
  /\ holders' = [a \in Addrs |-> holders[a] \cup {p + 1}]

\* Process p gives up the sockets of S: its servers are told to stop, or it ends.
Release(p, S) ==
  /\ \A a \in S : p \in holders[a] /\ \E q \in holders[a] : q > p
  /\ holders' = [a \in Addrs |-> IF a \in S THEN holders[a] \ {p} ELSE holders[a]]

AbsNext ==
  \/ \E a \in Addrs : Listen(a)
  \/ \E p \in Procs : \/ p + 1 \in Procs /\ HandOver(p)
                      \/ \E S \in SUBSET Addrs : Release(p, S)

AbsSpec == AbsInit /\ [][AbsNext]_holders
=============================================================================
