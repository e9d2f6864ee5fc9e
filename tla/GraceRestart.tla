---------------------------- MODULE GraceRestart ----------------------------
(***************************************************************************)
(* The graceful restart of a process that serves several addresses with    *)
(* package grace (grace/grace.go, mservices.go).  On SIGHUP the process    *)
(* forks one child, which inherits the listening sockets by position; each *)
(* server of the child takes its socket, sends SIGTERM to the parent and   *)
(* then serves.  Process 1 is started by hand, process p+1 is the child of *)
(* process p.                                                              *)
(*                                                                         *)
(* Every MicroService has a handleSignals goroutine of its own on a        *)
(* channel without a buffer: a signal reaches the goroutines that are      *)
(* waiting for one and is dropped by the others.  How one server drains is *)
(* GraceService; here it is the step from "draining" to "done".            *)
(***************************************************************************)
EXTENDS Integers, Sequences, FiniteSets

CONSTANTS
  Addrs,            \* the addresses main passes to NewServer, each once
  NoSocket,         \* no listener, or a descriptor that is not open
  MaxProcs,         \* bound on the number of processes
  Envs              \* how the program is written and operated, see EnvType

\* registerAllFirst: main calls NewServer for every address before serving.
\* whenListening: SIGHUP comes only when every registered server listens.
\* settledFirst: a child gets SIGHUP once, after its own restart is over.
\* killsParent: ListenAndServeMutualTLS, where the child kills its parent.
\* procs: the processes that may be started in all.
EnvType == [registerAllFirst : BOOLEAN, whenListening : BOOLEAN,
            settledFirst : BOOLEAN, killsParent : BOOLEAN, procs : 1..MaxProcs]

ASSUME RestartAssumption ==
  /\ IsFiniteSet(Addrs)
  /\ NoSocket \notin Addrs
  /\ MaxProcs \in Nat \ {0}
  /\ Envs \subseteq EnvType

VARIABLES
  proc,      \* "none", "up" or "gone"
  order,     \* runningServersOrder: the addresses passed to NewServer so far
  sockOrder, \* the -socketorder argument, <<>> without it
  extra,     \* the inherited descriptors 3, 4, ...: index to socket
  srv,       \* where each server's ListenAndServe is
  lis,       \* the socket of each server's GraceListener, NoSocket if nil
  handler,   \* where each server's handleSignals is
  forked,    \* runningServersForked
  starts,    \* the number of cmd.Start calls of the process
  crashed,   \* the process ended in a panic
  env        \* the member of Envs that holds, chosen once

vars == <<env, proc, order, sockOrder, extra, srv, lis, handler, forked, starts, crashed>>

Procs == 1..MaxProcs
IsChild(p) == p > 1
Registered(p) == {order[p][i] : i \in DOMAIN order[p]}

Init ==
  /\ proc = [p \in Procs |-> IF IsChild(p) THEN "none" ELSE "up"]
  /\ order = [p \in Procs |-> <<>>]
  /\ sockOrder = [p \in Procs |-> <<>>]
  /\ extra = [p \in Procs |-> <<>>]
  /\ srv = [p \in Procs |-> [a \in Addrs |-> "absent"]]
  /\ lis = [p \in Procs |-> [a \in Addrs |-> NoSocket]]
  /\ handler = [p \in Procs |-> [a \in Addrs |-> "off"]]
  /\ forked = [p \in Procs |-> FALSE]
  /\ starts = [p \in Procs |-> 0]
  /\ crashed = [p \in Procs |-> FALSE]
  /\ env \in Envs

\* Position of x in a sequence without repetitions, counted from 0; a Go map
\* gives 0 for a key it does not have.
IndexOr0(s, x) ==
  IF \E i \in DOMAIN s : s[i] = x THEN (CHOOSE i \in DOMAIN s : s[i] = x) - 1 ELSE 0

\* Faulty variant of Offset: offsets counted from 1.
OffsetFromOne(p, a) ==
  IF sockOrder[p] # <<>> THEN IndexOr0(sockOrder[p], a) ELSE 1 + IndexOr0(order[p], a)

\* Faulty variant of Offset: -socketorder is ignored.
OffsetIgnoresArgument(p, a) == IndexOr0(order[p], a)

\* socketPtrOffsetMap[a]: filled from -socketorder, or else in the order of the
\* NewServer calls.
Offset(p, a) ==
  IF sockOrder[p] # <<>> THEN IndexOr0(sockOrder[p], a) ELSE IndexOr0(order[p], a)

-----------------------------------------------------------------------------
(* main, NewServer and ListenAndServe *)

\* main calls NewServer(isChild, socketorder, a).
NewServer(p, a) ==
  /\ proc[p] = "up"
  /\ srv[p][a] = "absent"
  /\ order' = [order EXCEPT ![p] = Append(@, a)]
  /\ srv' = [srv EXCEPT ![p][a] = "new"]
  /\ UNCHANGED <<proc, sockOrder, extra, lis, handler, forked, starts, crashed>>

\* main calls ListenAndServe, which starts handleSignals in a goroutine.
ListenAndServe(p, a) ==
  /\ proc[p] = "up"
  /\ srv[p][a] = "new"
  /\ env.registerAllFirst => Registered(p) = Addrs
  /\ srv' = [srv EXCEPT ![p][a] = "started"]
  /\ UNCHANGED <<proc, order, sockOrder, extra, lis, handler, forked, starts, crashed>>

\* handleSignals has called signal.Notify and receives from sigChan.
HandlerReady(p, a) ==
  /\ proc[p] = "up"
  /\ handler[p][a] = "off"
  /\ srv[p][a] \notin {"absent", "new"}
  /\ handler' = [handler EXCEPT ![p][a] = "idle"]
  /\ UNCHANGED <<proc, order, sockOrder, extra, srv, lis, forked, starts, crashed>>

\* The socket behind descriptor 3 + i of a child.
Inherited(p, i) == IF i + 1 \in DOMAIN extra[p] THEN extra[p][i + 1] ELSE NoSocket

\* Faulty variant of GetListener: a child listens on the address itself, which
\* the parent still holds.
GetListenerAnew(p, a) ==
  /\ proc[p] = "up"
  /\ srv[p][a] = "started"
  /\ srv' = [srv EXCEPT ![p][a] = IF IsChild(p) THEN "failed" ELSE "listening"]
  /\ lis' = [lis EXCEPT ![p][a] = IF IsChild(p) THEN NoSocket ELSE a]
  /\ UNCHANGED <<proc, order, sockOrder, extra, handler, forked, starts, crashed>>

\* getListener and newGraceListener: a child takes the descriptor at its offset,
\* and fails if that is not a socket; the first process listens, which may fail.
GetListener(p, a) ==
  /\ proc[p] = "up"
  /\ srv[p][a] = "started"
  /\ \E s \in IF IsChild(p) THEN {Inherited(p, Offset(p, a))} ELSE {a, NoSocket} :
       /\ lis' = [lis EXCEPT ![p][a] = s]
       /\ srv' = [srv EXCEPT ![p][a] = IF s = NoSocket THEN "failed" ELSE "listening"]
  /\ UNCHANGED <<proc, order, sockOrder, extra, handler, forked, starts, crashed>>

\* A signal reaches the handlers that are waiting for one.
Deliver(p, sig) ==
  handler' = [handler EXCEPT ![p] =
    [a \in Addrs |-> IF handler[p][a] = "idle" THEN sig ELSE handler[p][a]]]

\* A server of the child signals os.Getppid().
SignalParent(p, a) ==
  /\ proc[p] = "up"
  /\ IsChild(p)
  /\ srv[p][a] = "listening"
  /\ proc[p - 1] = "up"
  /\ srv' = [srv EXCEPT ![p][a] = "signalled"]
  /\ \/ /\ ~env.killsParent
        /\ Deliver(p - 1, "term")
        /\ UNCHANGED proc
     \/ /\ env.killsParent
        /\ proc' = [proc EXCEPT ![p - 1] = "gone"]
        /\ handler' = [handler EXCEPT ![p - 1] = [b \in Addrs |-> "off"]]
  /\ UNCHANGED <<order, sockOrder, extra, lis, forked, starts, crashed>>

\* The parent is gone: the signal goes to a process that has ended, or to the
\* process that adopted the child.  Only a privileged child gets no error, and
\* on an error ListenAndServe returns it.
SignalNobody(p, a) ==
  /\ proc[p] = "up"
  /\ IsChild(p)
  /\ srv[p][a] = "listening"
  /\ proc[p - 1] = "gone"
  /\ \E s \in {"signalled", "unserved"} : srv' = [srv EXCEPT ![p][a] = s]
  /\ UNCHANGED <<proc, order, sockOrder, extra, lis, handler, forked, starts, crashed>>

\* Serve: srv.state = StateRunning, and the accept loop
Serve(p, a) ==
  /\ proc[p] = "up"
  /\ srv[p][a] = IF IsChild(p) THEN "signalled" ELSE "listening"
  /\ srv' = [srv EXCEPT ![p][a] = "running"]
  /\ UNCHANGED <<proc, order, sockOrder, extra, lis, handler, forked, starts, crashed>>

\* The last connection of a draining server ends and Serve returns.
Drained(p, a) ==
  /\ proc[p] = "up"
  /\ srv[p][a] = "draining"
  /\ srv' = [srv EXCEPT ![p][a] = "done"]
  /\ UNCHANGED <<proc, order, sockOrder, extra, lis, handler, forked, starts, crashed>>

\* main returns when ListenAndServe has returned for every address; the memory
\* of the process goes with it (srv and lis stay for the properties to refer to).
Exit(p) ==
  /\ proc[p] = "up"
  /\ \A a \in Addrs : srv[p][a] \in {"done", "failed", "unserved"}
  /\ proc' = [proc EXCEPT ![p] = "gone"]
  /\ order' = [order EXCEPT ![p] = <<>>]
  /\ sockOrder' = [sockOrder EXCEPT ![p] = <<>>]
  /\ extra' = [extra EXCEPT ![p] = <<>>]
  /\ handler' = [handler EXCEPT ![p] = [a \in Addrs |-> "off"]]
  /\ UNCHANGED <<srv, lis, forked, starts, crashed, env>>

-----------------------------------------------------------------------------
(* handleSignals *)

\* An operator sends SIGHUP.
SendHup(p) ==
  /\ proc[p] = "up"
  /\ p < env.procs
  /\ \E a \in Addrs : handler[p][a] = "idle"
  /\ env.whenListening => \A a \in Registered(p) : lis[p][a] # NoSocket
  /\ (env.settledFirst /\ IsChild(p)) => /\ starts[p] = 0
                                    /\ \A a \in Addrs : handler[p][a] = "idle"
                                    /\ proc[p - 1] = "gone"
  /\ Deliver(p, "hup")
  /\ UNCHANGED <<proc, order, sockOrder, extra, srv, lis, forked, starts, crashed, env>>

\* shutdown, when the handler has received SIGTERM: ignored unless running.
HandleTerm(p, a) ==
  /\ proc[p] = "up"
  /\ handler[p][a] = "term"
  /\ handler' = [handler EXCEPT ![p][a] = "post"]
  /\ srv' = [srv EXCEPT ![p][a] = IF @ = "running" THEN "draining" ELSE @]
  /\ UNCHANGED <<proc, order, sockOrder, extra, lis, forked, starts, crashed>>

\* The PostSignal hooks return and the handler receives again.
HandlerLoops(p, a) ==
  /\ proc[p] = "up"
  /\ handler[p][a] = "post"
  /\ handler' = [handler EXCEPT ![p][a] = "idle"]
  /\ UNCHANGED <<proc, order, sockOrder, extra, srv, lis, forked, starts, crashed>>

\* fork returns at once if the process has forked.
ForkAgain(p, a) ==
  /\ proc[p] = "up"
  /\ handler[p][a] = "hup"
  /\ forked[p]
  /\ handler' = [handler EXCEPT ![p][a] = "post"]
  /\ UNCHANGED <<proc, order, sockOrder, extra, srv, lis, forked, starts, crashed>>

\* fork panics on a server whose listener is nil, and on an offset that is not
\* an index of files.
ForkPanics(p) ==
  \E a \in Registered(p) : lis[p][a] = NoSocket \/ Offset(p, a) >= Len(order[p])

ForkCrash(p, a) ==
  /\ proc[p] = "up"
  /\ handler[p][a] = "hup"
  /\ ~forked[p]
  /\ ForkPanics(p)
  /\ proc' = [proc EXCEPT ![p] = "gone"]
  /\ crashed' = [crashed EXCEPT ![p] = TRUE]
  /\ UNCHANGED <<order, sockOrder, extra, srv, lis, handler, forked, starts>>

\* File() of a listener: nil once the listener is closed.
FileOf(p, a) == IF srv[p][a] \in {"draining", "done"} THEN NoSocket ELSE lis[p][a]

\* Faulty variant of Files: only one server's socket is handed over.
FilesOfOne(p) ==
  {f \in [1..Len(order[p]) -> Addrs \cup {NoSocket}] :
     \A i \in 1..Len(order[p]) :
       f[i] = IF order[p][1] = order[p][i] THEN FileOf(p, order[p][i]) ELSE NoSocket}

\* What fork puts in cmd.ExtraFiles: at each index the socket of a registered
\* server with that offset (the last one the map iteration meets), or nil.
Files(p) ==
  {f \in [1..Len(order[p]) -> Addrs \cup {NoSocket}] :
     \A i \in 1..Len(order[p]) :
       LET here == {a \in Registered(p) : Offset(p, a) = i - 1}
       IN  f[i] \in IF here = {} THEN {NoSocket} ELSE {FileOf(p, a) : a \in here}}

\* The -socketorder argument, left out for a single server: the address at
\* each offset ("" where there is none, which no server has).
OrderArgs(p) ==
  IF Len(order[p]) < 2 THEN {<<>>}
  ELSE {o \in [1..Len(order[p]) -> Addrs \cup {NoSocket}] :
          \A i \in 1..Len(order[p]) :
            LET here == {a \in Registered(p) : Offset(p, a) = i - 1}
            IN  o[i] \in IF here = {} THEN {NoSocket} ELSE here}

\* Faulty variant of Fork: runningServersForked is not set.
ForkForgets(p, a) ==
  /\ proc[p] = "up"
  /\ handler[p][a] = "hup"
  /\ ~forked[p]
  /\ ~ForkPanics(p)
  /\ starts' = [starts EXCEPT ![p] = @ + 1]
  /\ handler' = [handler EXCEPT ![p][a] = "post"]
  /\ UNCHANGED <<proc, order, sockOrder, extra, srv, lis, forked, crashed>>

\* fork: regLock makes it one step.  cmd.Start may fail, and forked stays set.
Fork(p, a) ==
  /\ proc[p] = "up"
  /\ handler[p][a] = "hup"
  /\ ~forked[p]
  /\ ~ForkPanics(p)
  /\ forked' = [forked EXCEPT ![p] = TRUE]
  /\ starts' = [starts EXCEPT ![p] = @ + 1]
  /\ handler' = [handler EXCEPT ![p][a] = "post"]
  /\ \/ /\ proc' = [proc EXCEPT ![p + 1] = "up"]
        /\ \E f \in Files(p) : extra' = [extra EXCEPT ![p + 1] = f]
        /\ \E o \in OrderArgs(p) : sockOrder' = [sockOrder EXCEPT ![p + 1] = o]
     \/ UNCHANGED <<proc, extra, sockOrder>>
  /\ UNCHANGED <<order, srv, lis, crashed>>

-----------------------------------------------------------------------------
ServerStep(p, a) ==
  /\ UNCHANGED env
  /\ \/ NewServer(p, a) \/ ListenAndServe(p, a) \/ HandlerReady(p, a)
     \/ GetListener(p, a) \/ SignalParent(p, a) \/ SignalNobody(p, a) \/ Serve(p, a)
     \/ Drained(p, a)

HandlerStep(p, a) ==
  /\ UNCHANGED env
  /\ \/ HandleTerm(p, a) \/ HandlerLoops(p, a)
     \/ ForkAgain(p, a) \/ ForkCrash(p, a) \/ Fork(p, a)

Next ==
  \/ \E p \in Procs, a \in Addrs : ServerStep(p, a) \/ HandlerStep(p, a)
  \/ \E p \in Procs : SendHup(p) \/ Exit(p)

Spec == Init /\ [][Next]_vars

\* Every goroutine that serves an address runs when it can.  Nothing is assumed
\* of handlers and hooks, of draining connections or of operators.
Fairness == \A p \in Procs, a \in Addrs : WF_vars(ServerStep(p, a))

FairSpec == Spec /\ Fairness

-----------------------------------------------------------------------------
(* Properties *)

\* The values the variables may take.
TypeOK ==
  /\ proc \in [Procs -> {"none", "up", "gone"}]
  /\ \A p \in Procs :
       /\ order[p] \in Seq(Addrs)
       /\ sockOrder[p] \in Seq(Addrs \cup {NoSocket})
       /\ extra[p] \in Seq(Addrs \cup {NoSocket})
  /\ srv \in [Procs -> [Addrs -> {"absent", "new", "started", "listening", "signalled",
                                  "unserved", "failed", "running", "draining", "done"}]]
  /\ lis \in [Procs -> [Addrs -> Addrs \cup {NoSocket}]]
  /\ handler \in [Procs -> [Addrs -> {"off", "idle", "hup", "term", "post"}]]
  /\ forked \in [Procs -> BOOLEAN]
  /\ starts \in [Procs -> Nat]
  /\ crashed \in [Procs -> BOOLEAN]
  /\ env \in Envs

\* "getListener ... takes the acceptor socket it got passed when restarted"
\* (mservices.go:251): a server listens on the socket of its own address,
\* whatever the order in which the processes call NewServer.
SocketMatchesAddress ==
  env.registerAllFirst =>
    \A p \in Procs, a \in Addrs : lis[p][a] \in {NoSocket, a}

\* Every server's goroutine gets the SIGHUP, and one child is started.
OneForkPerProcess == \A p \in Procs : starts[p] <= 1

\* fork reads a listener that ListenAndServe sets later, and indexes files by a
\* map: whenever SIGHUP comes, it panics only in a process some of whose
\* servers do not listen yet (or could not), and so never in one that listens.
ForkPanicsOnlyAtStart ==
  \A p \in Procs :
    crashed[p] => Registered(p) # Addrs \/ \E a \in Addrs : lis[p][a] = NoSocket

\* Process p keeps connections to a from being refused: it listens, or holds
\* the descriptor that it has yet to turn into a listener.
Holds(p, a) ==
  /\ proc[p] = "up"
  /\ \/ \E b \in Addrs : /\ lis[p][b] = a
                         /\ srv[p][b] \in {"listening", "signalled", "unserved", "running"}
     \/ /\ srv[p][a] \in {"absent", "new", "started"}
        /\ \E i \in DOMAIN extra[p] : extra[p][i] = a

\* main registers every server before it serves, and SIGHUP comes only to a
\* process whose servers listen.
Settled == env.registerAllFirst /\ env.whenListening

\* Once an address is served, some process holds its socket through every
\* restart, failed or not, however often and wherever SIGHUP comes: no
\* connection is refused.
NeverRefused ==
  Settled =>
    \A a \in Addrs : lis[1][a] = a => \E p \in Procs : Holds(p, a)

\* A server stops accepting only when a younger process holds its socket.
StopsAfterHandOver ==
  [][Settled => \A p \in Procs, a \in Addrs :
       (srv[p][a] = "running" /\ srv'[p][a] = "draining")
         => \E q \in Procs : q > p /\ Holds(q, a)]_vars

(* What the restart promises of the sockets, without its servers and signals *)
holdersBar ==
  [a \in Addrs |-> IF Settled THEN {p \in Procs : Holds(p, a)} ELSE {}]

Sharing == INSTANCE GraceSockets WITH holders <- holdersBar

\* The restart is an implementation of GraceSockets: a socket is listened on
\* once, a child is started with every socket of its parent, and a process
\* stops accepting, ends or is killed only when a younger process holds its
\* sockets.
ImplementsSockets == Sharing!AbsSpec

\* In the end every child that was started serves each of its addresses, unless
\* its signal to the parent failed.
ChildServes ==
  <>[](Settled => \A p \in Procs, a \in Addrs :
         (IsChild(p) /\ proc[p] = "up")
           => srv[p][a] \in {"running", "draining", "done", "unserved"})

\* "ListenAndServe listens on the TCP network address srv.Addr and then calls
\* Serve to handle requests" (mservices.go:98): no server that has its listener
\* is left without Serve.
ServesOnceListening == \A p \in Procs, a \in Addrs : srv[p][a] # "unserved"
=============================================================================
