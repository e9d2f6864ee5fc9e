------------------------- MODULE GraceRestartProofs -------------------------
(***************************************************************************)
(* Theorems about GraceRestart, for any number of addresses and processes  *)
(* and every way the program is written and operated.                      *)
(*                                                                         *)
(* OnceInv and OrderInv are about one process and its child; SocketInv     *)
(* follows the sockets from a process to its child by position; HandInv    *)
(* says that whoever has been told to stop has a younger process that      *)
(* holds every socket.                                                     *)
(***************************************************************************)
EXTENDS GraceRestart, FiniteSetTheorems, TLAPS

\* The values of srv, handler and lis.
Places == {"absent", "new", "started", "listening", "signalled",
           "unserved", "failed", "running", "draining", "done"}
Signals == {"off", "idle", "hup", "term", "post"}
Sockets == Addrs \cup {NoSocket}

\* TypeOK, with the domains of the functions.
TypeInv ==
  /\ env \in Envs
  /\ proc \in [Procs -> {"none", "up", "gone"}]
  /\ order \in [Procs -> Seq(Addrs)]
  /\ sockOrder \in [Procs -> Seq(Sockets)]
  /\ extra \in [Procs -> Seq(Sockets)]
  /\ srv \in [Procs -> [Addrs -> Places]]
  /\ lis \in [Procs -> [Addrs -> Sockets]]
  /\ handler \in [Procs -> [Addrs -> Signals]]
  /\ forked \in [Procs -> BOOLEAN]
  /\ starts \in [Procs -> Nat]
  /\ crashed \in [Procs -> BOOLEAN]

\* A process starts one child at most, after which runningServersForked is set;
\* the child is not there before, and what is not there has no state.
OnceInv ==
  \A p \in Procs :
    /\ p = 1 => proc[p] # "none"
    /\ starts[p] <= 1
    /\ starts[p] = 1 => forked[p]
    /\ p + 1 \in Procs /\ ~forked[p] => proc[p + 1] = "none"
    /\ proc[p] = "none" => /\ ~forked[p]
                           /\ \A a \in Addrs : /\ srv[p][a] = "absent" /\ handler[p][a] = "off"
                                              /\ lis[p][a] = NoSocket
    /\ \A a \in Addrs : handler[p][a] = "hup" => p < env.procs

\* The servers that were registered, each once; the argument and the
\* descriptors that a child is given are no more than the addresses.
OrderInv ==
  \A p \in Procs :
    /\ \A i, j \in DOMAIN order[p] : order[p][i] = order[p][j] => i = j
    /\ \A a \in Registered(p) : srv[p][a] # "absent"
    /\ Len(sockOrder[p]) <= Cardinality(Addrs)
    /\ crashed[p] => proc[p] = "gone"
    /\ crashed[p] => Registered(p) # Addrs \/ \E a \in Addrs : lis[p][a] = NoSocket

\* There is one address only, and no -socketorder.
OneAddress == \A a, b \in Addrs : a = b

\* Where main registers every server first, the position of an address in
\* -socketorder is the position of its socket among the descriptors.
SocketOf(p) ==
  /\ \A a \in Addrs : lis[p][a] \in {NoSocket, a}
  /\ sockOrder[p] # <<>> =>
       /\ \A a \in Addrs : \E i \in DOMAIN sockOrder[p] : sockOrder[p][i] = a
       /\ \A a \in Addrs : \A i, j \in DOMAIN sockOrder[p] :
            sockOrder[p][i] = a /\ sockOrder[p][j] = a => i = j
       /\ DOMAIN extra[p] = DOMAIN sockOrder[p]
       /\ \A i \in DOMAIN extra[p] : extra[p][i] \in {NoSocket, sockOrder[p][i]}
  /\ (IsChild(p) /\ proc[p] = "up" /\ sockOrder[p] = <<>>)
       => OneAddress /\ DOMAIN extra[p] \subseteq {1}
  /\ \A a \in Addrs : (proc[p] = "up" /\ srv[p][a] \notin {"absent", "new"}) => Registered(p) = Addrs
  /\ \A a \in Addrs : (proc[p] = "up" /\ handler[p][a] # "off") => srv[p][a] \notin {"absent", "new"}

SocketInv == env.registerAllFirst => \A p \in Procs : SocketOf(p)

\* A server of p was told to stop, or p has ended and not because none could listen.
Over(p) ==
  \/ proc[p] = "gone" /\ \E a \in Addrs : srv[p][a] # "failed"
  \/ \E a \in Addrs : handler[p][a] = "term" \/ srv[p][a] \in {"draining", "done"}

\* A server of p has sent its signal to the parent.
Told(p) == \E a \in Addrs : srv[p][a] \in {"signalled", "running", "draining", "done"}

\* A process whose servers have or inherit their sockets, but for those that
\* could not listen.
Equipped(p) ==
  \A a \in Addrs :
    /\ srv[p][a] \in {"absent", "new", "started"} =>
         /\ lis[p][a] = NoSocket
         /\ IsChild(p) => \E i \in DOMAIN extra[p] : extra[p][i] = a
    /\ srv[p][a] \notin {"absent", "new", "started", "failed"} => lis[p][a] = a

\* Where SIGHUP comes to servers that listen, every process is equipped, only the
\* first can fail to listen, and then has no child, and a process that was told
\* to stop was told by a younger one, and some younger process holds each socket.
HandOf(p) ==
  /\ proc[p] = "up" => Equipped(p)
  /\ proc[p] = "up" => \A a, b \in Addrs : handler[p][a] = "hup" => lis[p][b] # NoSocket
  /\ ~IsChild(p) => extra[p] = <<>>
  /\ forked[p] => \A a \in Addrs : lis[p][a] # NoSocket
  /\ \A a \in Addrs : srv[p][a] = "failed" => ~IsChild(p) /\ lis[p][a] = NoSocket
  /\ \A a \in Addrs : (srv[p][a] = "unserved" => IsChild(p) /\ proc[p - 1] = "gone")
  /\ Over(p) => \A a \in Addrs : /\ p + 1 \in Procs /\ Told(p + 1)
                                 /\ \E q \in Procs : q > p /\ Holds(q, a)

HandInv == Settled => \A p \in Procs : HandOf(p)

-----------------------------------------------------------------------------
(* Types *)

\* No process but the first, and nothing of it has begun.
LEMMA TypeInit == Init => TypeInv
<1> SUFFICES ASSUME Init PROVE TypeInv
  OBVIOUS
<1>1. /\ proc \in [Procs -> {"none", "up", "gone"}]
      /\ srv \in [Procs -> [Addrs -> Places]]
      /\ lis \in [Procs -> [Addrs -> Sockets]]
      /\ handler \in [Procs -> [Addrs -> Signals]]
      /\ starts \in [Procs -> Nat]
  BY DEF Init, Places, Sockets, Signals
<1>2. /\ order \in [Procs -> Seq(Addrs)]
      /\ sockOrder \in [Procs -> Seq(Sockets)]
      /\ extra \in [Procs -> Seq(Sockets)]
  BY DEF Init
<1>3. forked \in [Procs -> BOOLEAN] /\ crashed \in [Procs -> BOOLEAN]
  BY DEF Init
<1>4. QED
  BY <1>1, <1>2, <1>3 DEF Init, TypeInv

\* What fork hands over has the types of what a child inherits.
LEMMA HandedTyped ==
  ASSUME TypeInv, NEW p \in Procs
  PROVE  /\ \A f \in Files(p) : f \in Seq(Sockets)
         /\ \A o \in OrderArgs(p) : o \in Seq(Sockets)
<1>1. Len(order[p]) \in Nat
  BY DEF TypeInv
<1>2. \A f \in [1..Len(order[p]) -> Sockets] : f \in Seq(Sockets)
  BY <1>1
<1>3. /\ Files(p) \subseteq [1..Len(order[p]) -> Sockets]
      /\ OrderArgs(p) \subseteq [1..Len(order[p]) -> Sockets] \cup {<<>>}
  BY DEF Files, OrderArgs, Sockets
<1>4. <<>> \in Seq(Sockets)
  OBVIOUS
<1>5. QED
  BY <1>2, <1>3, <1>4

\* A step of a server of p changes one entry of srv and little else.
LEMMA ServerTyped ==
  ASSUME TypeInv, NEW p \in Procs, NEW a \in Addrs, ServerStep(p, a)
  PROVE  TypeInv'
<1> USE DEF TypeInv
<1>1. CASE NewServer(p, a)
  <2>1. srv' \in [Procs -> [Addrs -> Places]]
    BY <1>1 DEF NewServer, Places
  <2>2. order' \in [Procs -> Seq(Addrs)]
    BY <1>1 DEF NewServer
  <2>3. QED
    BY <1>1, <2>1, <2>2 DEF NewServer, ServerStep
<1>2. CASE ListenAndServe(p, a) \/ Serve(p, a) \/ Drained(p, a) \/ SignalNobody(p, a)
  <2>1. \E s \in Places : srv' = [srv EXCEPT ![p][a] = s]
    BY <1>2 DEF ListenAndServe, Serve, Drained, SignalNobody, Places
  <2>2. srv' \in [Procs -> [Addrs -> Places]]
    BY <2>1
  <2>3. QED
    BY <1>2, <2>2 DEF ListenAndServe, Serve, Drained, SignalNobody, ServerStep
<1>3. CASE HandlerReady(p, a)
  <2>1. handler' \in [Procs -> [Addrs -> Signals]]
    BY <1>3 DEF HandlerReady, Signals
  <2>2. QED
    BY <1>3, <2>1 DEF HandlerReady, ServerStep
<1>4. CASE GetListener(p, a)
  <2>1. PICK s \in IF IsChild(p) THEN {Inherited(p, Offset(p, a))} ELSE {a, NoSocket} :
          lis' = [lis EXCEPT ![p][a] = s]
    BY <1>4 DEF GetListener
  <2>2. lis' \in [Procs -> [Addrs -> Sockets]]
    <3>1. s \in Sockets
      BY DEF Inherited, Sockets
    <3>2. QED
      BY <2>1, <3>1
  <2>3. \E x \in Places : srv' = [srv EXCEPT ![p][a] = x]
    BY <1>4 DEF GetListener, Places
  <2>4. srv' \in [Procs -> [Addrs -> Places]]
    BY <2>3
  <2>5. QED
    BY <1>4, <2>2, <2>4 DEF GetListener, ServerStep
<1>5. CASE SignalParent(p, a)
  <2>1. srv' \in [Procs -> [Addrs -> Places]]
    BY <1>5 DEF SignalParent, Places
  <2>2. \E h \in [Addrs -> Signals] : handler' = [handler EXCEPT ![p - 1] = h]
    <3>1. CASE Deliver(p - 1, "term")
      <4>1. p - 1 \in Procs
        BY <1>5, RestartAssumption DEF RestartAssumption, SignalParent, IsChild, Procs
      <4>2. [b \in Addrs |-> IF handler[p - 1][b] = "idle" THEN "term" ELSE handler[p - 1][b]]
              \in [Addrs -> Signals]
        BY <4>1 DEF Signals
      <4>3. QED
        BY <3>1, <4>2 DEF Deliver
    <3>2. CASE ~Deliver(p - 1, "term")
      <4>1. [b \in Addrs |-> "off"] \in [Addrs -> Signals]
        BY DEF Signals
      <4>2. QED
        BY <1>5, <3>2, <4>1 DEF SignalParent
    <3>3. QED
      BY <3>1, <3>2
  <2>3. handler' \in [Procs -> [Addrs -> Signals]]
    BY <2>2
  <2>4. proc' = proc \/ proc' = [proc EXCEPT ![p - 1] = "gone"]
    BY <1>5 DEF SignalParent
  <2>5. proc' \in [Procs -> {"none", "up", "gone"}]
    BY <2>4
  <2>6. QED
    BY <1>5, <2>1, <2>3, <2>5 DEF SignalParent, ServerStep
<1>6. QED
  BY <1>1, <1>2, <1>3, <1>4, <1>5 DEF ServerStep

\* A step of a handler of p, SIGHUP and the end of p.
LEMMA HandlerTyped ==
  ASSUME TypeInv, NEW p \in Procs, NEW a \in Addrs, HandlerStep(p, a)
  PROVE  TypeInv'
<1> USE DEF TypeInv
<1>1. CASE HandleTerm(p, a)
  <2>1. \E s \in Places : srv' = [srv EXCEPT ![p][a] = s]
    BY <1>1 DEF HandleTerm, Places
  <2>2. srv' \in [Procs -> [Addrs -> Places]]
    BY <2>1
  <2>3. handler' \in [Procs -> [Addrs -> Signals]]
    BY <1>1 DEF HandleTerm, Signals
  <2>4. QED
    BY <1>1, <2>2, <2>3 DEF HandleTerm, HandlerStep
<1>2. CASE HandlerLoops(p, a) \/ ForkAgain(p, a)
  <2>1. \E h \in Signals : handler' = [handler EXCEPT ![p][a] = h]
    BY <1>2 DEF HandlerLoops, ForkAgain, Signals
  <2>2. handler' \in [Procs -> [Addrs -> Signals]]
    BY <2>1
  <2>3. QED
    BY <1>2, <2>2 DEF HandlerLoops, ForkAgain, HandlerStep
<1>3. CASE ForkCrash(p, a)
  <2>1. crashed' \in [Procs -> BOOLEAN]
    BY <1>3, Zenon DEF ForkCrash
  <2>2. proc' \in [Procs -> {"none", "up", "gone"}]
    BY <1>3 DEF ForkCrash
  <2>3. QED
    BY <1>3, <2>1, <2>2 DEF ForkCrash, HandlerStep
<1>4. CASE Fork(p, a)
  <2>1. handler' \in [Procs -> [Addrs -> Signals]]
    BY <1>4 DEF Fork, Signals
  <2>2. forked' \in [Procs -> BOOLEAN]
    BY <1>4, Zenon DEF Fork
  <2>3. starts' \in [Procs -> Nat]
    BY <1>4 DEF Fork
  <2>4. proc' = proc \/ proc' = [proc EXCEPT ![p + 1] = "up"]
    BY <1>4 DEF Fork
  <2>5. proc' \in [Procs -> {"none", "up", "gone"}]
    BY <2>4
  <2>6. extra' = extra \/ \E f \in Seq(Sockets) : extra' = [extra EXCEPT ![p + 1] = f]
    BY <1>4, HandedTyped DEF Fork
  <2>7. extra' \in [Procs -> Seq(Sockets)]
    BY <2>6
  <2>8. \/ sockOrder' = sockOrder
        \/ \E o \in Seq(Sockets) : sockOrder' = [sockOrder EXCEPT ![p + 1] = o]
    BY <1>4, HandedTyped DEF Fork
  <2>9. sockOrder' \in [Procs -> Seq(Sockets)]
    BY <2>8
  <2>10. QED
    BY <1>4, <2>1, <2>2, <2>3, <2>5, <2>7, <2>9 DEF Fork, HandlerStep
<1>5. QED
  BY <1>1, <1>2, <1>3, <1>4 DEF HandlerStep

\* A step keeps the types.
LEMMA TypeStep ==
  ASSUME TypeInv, [Next]_vars
  PROVE  TypeInv'
<1> USE DEF TypeInv
<1>1. CASE UNCHANGED vars
  BY <1>1 DEF vars
<1>2. ASSUME NEW p \in Procs, SendHup(p)
      PROVE  TypeInv'
  <2>1. [b \in Addrs |-> IF handler[p][b] = "idle" THEN "hup" ELSE handler[p][b]]
          \in [Addrs -> Signals]
    BY DEF Signals
  <2>2. handler' \in [Procs -> [Addrs -> Signals]]
    BY <1>2, <2>1 DEF SendHup, Deliver
  <2>3. QED
    BY <1>2, <2>2 DEF SendHup
<1>3. ASSUME NEW p \in Procs, Exit(p)
      PROVE  TypeInv'
  <2>1. [a \in Addrs |-> "off"] \in [Addrs -> Signals]
    BY DEF Signals
  <2>2. handler' \in [Procs -> [Addrs -> Signals]]
    BY <1>3, <2>1 DEF Exit
  <2>3. proc' \in [Procs -> {"none", "up", "gone"}]
    BY <1>3 DEF Exit
  <2>4. /\ order' \in [Procs -> Seq(Addrs)]
        /\ sockOrder' \in [Procs -> Seq(Sockets)]
        /\ extra' \in [Procs -> Seq(Sockets)]
    BY <1>3 DEF Exit
  <2>5. QED
    BY <1>3, <2>2, <2>3, <2>4 DEF Exit
<1>4. QED
  BY <1>1, <1>2, <1>3, ServerTyped, HandlerTyped DEF Next

\* The types of the variables of GraceRestart.
THEOREM TypeTheorem == Spec => []TypeOK
<1>1. TypeInv => TypeOK
  BY DEF TypeInv, TypeOK, Places, Signals, Sockets
<1>2. QED
  BY <1>1, TypeInit, TypeStep, PTL DEF Spec

-----------------------------------------------------------------------------
(* What a step of a process leaves alone *)

\* A step of process p: of its servers and handlers, of an operator who sends it
\* SIGHUP, or its end.
Step(p) ==
  \/ \E a \in Addrs : ServerStep(p, a) \/ HandlerStep(p, a)
  \/ SendHup(p)
  \/ Exit(p)

\* Every step is one of a process, in an environment that stays.
LEMMA NextSteps == Next => \E p \in Procs : Step(p) /\ env' = env
BY DEF Next, Step, ServerStep, HandlerStep, SendHup, Exit

\* A step of p is a step of a process that is up; of the other processes it
\* changes the parent's handlers and what the child inherits.
LEMMA Others ==
  ASSUME TypeInv, NEW p \in Procs, Step(p)
  PROVE  /\ proc[p] = "up"
         /\ \A q \in Procs \ {p} :
              /\ order'[q] = order[q] /\ srv'[q] = srv[q] /\ lis'[q] = lis[q]
              /\ forked'[q] = forked[q] /\ starts'[q] = starts[q] /\ crashed'[q] = crashed[q]
<1> USE DEF TypeInv
<1>1. CASE \E a \in Addrs : ServerStep(p, a)
  <2>1. PICK a \in Addrs : ServerStep(p, a)
    BY <1>1
  <2>2. proc[p] = "up" /\ UNCHANGED <<forked, starts, crashed>>
    BY <2>1 DEF ServerStep, NewServer, ListenAndServe, HandlerReady, GetListener, SignalParent,
                SignalNobody, Serve, Drained
  <2>3. srv' = srv \/ \E s : srv' = [srv EXCEPT ![p][a] = s]
    BY <2>1 DEF ServerStep, NewServer, ListenAndServe, HandlerReady, GetListener, SignalParent,
                SignalNobody, Serve, Drained
  <2>4. order' = order \/ order' = [order EXCEPT ![p] = Append(@, a)]
    BY <2>1 DEF ServerStep, NewServer, ListenAndServe, HandlerReady, GetListener, SignalParent,
                SignalNobody, Serve, Drained
  <2>5. lis' = lis \/ \E s : lis' = [lis EXCEPT ![p][a] = s]
    BY <2>1 DEF ServerStep, NewServer, ListenAndServe, HandlerReady, GetListener, SignalParent,
                SignalNobody, Serve, Drained
  <2>6. QED
    BY <2>2, <2>3, <2>4, <2>5
<1>2. CASE \E a \in Addrs : HandlerStep(p, a)
  <2>1. PICK a \in Addrs : HandlerStep(p, a)
    BY <1>2
  <2>2. proc[p] = "up" /\ UNCHANGED <<order, lis>>
    BY <2>1 DEF HandlerStep, HandleTerm, HandlerLoops, ForkAgain, ForkCrash, Fork
  <2>3. srv' = srv \/ \E s : srv' = [srv EXCEPT ![p][a] = s]
    BY <2>1 DEF HandlerStep, HandleTerm, HandlerLoops, ForkAgain, ForkCrash, Fork
  <2>4. /\ forked' = forked \/ forked' = [forked EXCEPT ![p] = TRUE]
        /\ starts' = starts \/ starts' = [starts EXCEPT ![p] = @ + 1]
        /\ crashed' = crashed \/ crashed' = [crashed EXCEPT ![p] = TRUE]
    BY <2>1 DEF HandlerStep, HandleTerm, HandlerLoops, ForkAgain, ForkCrash, Fork
  <2>5. QED
    BY <2>2, <2>3, <2>4
<1>3. CASE SendHup(p)
  BY <1>3 DEF SendHup
<1>4. CASE Exit(p)
  BY <1>4 DEF Exit
<1>5. QED
  BY <1>1, <1>2, <1>3, <1>4 DEF Step

\* Who starts and ends: the child by fork, the process itself, and the parent
\* of a child that kills it.
LEMMA ProcStep ==
  ASSUME TypeInv, NEW p \in Procs, Step(p)
  PROVE  \/ proc' = proc
         \/ proc' = [proc EXCEPT ![p] = "gone"]
         \/ /\ proc' = [proc EXCEPT ![p - 1] = "gone"]
            /\ IsChild(p) /\ proc[p - 1] = "up"
            /\ \E a \in Addrs : SignalParent(p, a)
         \/ /\ proc' = [proc EXCEPT ![p + 1] = "up"]
            /\ ~forked[p] /\ forked'[p]
            /\ \E a \in Addrs : Fork(p, a) /\ handler[p][a] = "hup"
<1>1. CASE \E a \in Addrs : ServerStep(p, a)
  BY <1>1 DEF ServerStep, NewServer, ListenAndServe, HandlerReady, GetListener, SignalParent,
              SignalNobody, Serve, Drained
<1>2. CASE \E a \in Addrs : HandlerStep(p, a)
  <2>1. PICK a \in Addrs : HandlerStep(p, a)
    BY <1>2
  <2>2. CASE Fork(p, a)
    <3>1. forked'[p]
      BY <2>2 DEF Fork, TypeInv
    <3>2. proc' = proc \/ proc' = [proc EXCEPT ![p + 1] = "up"]
      BY <2>2 DEF Fork
    <3>3. ~forked[p] /\ handler[p][a] = "hup"
      BY <2>2 DEF Fork
    <3>4. QED
      BY <2>2, <3>1, <3>2, <3>3
  <2>3. CASE ~Fork(p, a)
    BY <2>1, <2>3 DEF HandlerStep, HandleTerm, HandlerLoops, ForkAgain, ForkCrash
  <2>4. QED
    BY <2>2, <2>3
<1>3. CASE SendHup(p) \/ Exit(p)
  BY <1>3 DEF SendHup, Exit
<1>4. QED
  BY <1>1, <1>2, <1>3 DEF Step

\* Whose handlers change: those of the process, and the parent's when a server
\* of the process signals it.
LEMMA HandlersStep ==
  ASSUME TypeInv, NEW p \in Procs, Step(p)
  PROVE  \A q \in Procs \ {p} :
           \/ handler'[q] = handler[q]
           \/ /\ q = p - 1 /\ proc[q] = "up"
              /\ \E a \in Addrs : SignalParent(p, a)
              /\ \A b \in Addrs : \/ handler'[q][b] = handler[q][b]
                                  \/ handler'[q][b] = "off"
                                  \/ handler[q][b] = "idle" /\ handler'[q][b] = "term"
<1> USE DEF TypeInv
<1>1. CASE \E a \in Addrs : ServerStep(p, a)
  <2>1. PICK a \in Addrs : ServerStep(p, a)
    BY <1>1
  <2>2. CASE SignalParent(p, a)
    <3>1. p - 1 \in Procs
      BY <2>2, RestartAssumption DEF RestartAssumption, SignalParent, IsChild, Procs
    <3>2. \/ handler' = [handler EXCEPT ![p - 1] = [b \in Addrs |->
                           IF handler[p - 1][b] = "idle" THEN "term" ELSE handler[p - 1][b]]]
          \/ handler' = [handler EXCEPT ![p - 1] = [b \in Addrs |-> "off"]]
      BY <2>2 DEF SignalParent, Deliver
    <3>3. proc[p - 1] = "up"
      BY <2>2 DEF SignalParent
    <3>4. QED
      BY <2>2, <3>1, <3>2, <3>3
  <2>3. CASE ~SignalParent(p, a)
    <3>1. handler' = handler \/ handler' = [handler EXCEPT ![p][a] = "idle"]
      BY <2>1, <2>3 DEF ServerStep, NewServer, ListenAndServe, HandlerReady, GetListener,
                        SignalNobody, Serve, Drained
    <3>2. QED
      BY <3>1
  <2>4. QED
    BY <2>2, <2>3
<1>2. CASE \E a \in Addrs : HandlerStep(p, a)
  <2>1. PICK a \in Addrs : handler' = handler \/ \E h : handler' = [handler EXCEPT ![p][a] = h]
    BY <1>2 DEF HandlerStep, HandleTerm, HandlerLoops, ForkAgain, ForkCrash, Fork
  <2>2. QED
    BY <2>1
<1>3. CASE SendHup(p) \/ Exit(p)
  BY <1>3 DEF SendHup, Exit, Deliver
<1>4. QED
  BY <1>1, <1>2, <1>3 DEF Step

\* What a process has inherited changes when it is started, and when it ends.
LEMMA InheritStep ==
  ASSUME TypeInv, NEW p \in Procs, Step(p)
  PROVE  \A q \in Procs :
           \/ extra'[q] = extra[q] /\ sockOrder'[q] = sockOrder[q]
           \/ q = p /\ extra'[q] = <<>> /\ sockOrder'[q] = <<>> /\ Exit(p)
           \/ /\ q = p + 1 /\ ~forked[p] /\ proc'[q] = "up"
              /\ extra'[q] \in Files(p) /\ sockOrder'[q] \in OrderArgs(p)
              /\ \E a \in Addrs : Fork(p, a)
<1> USE DEF TypeInv
<1>1. CASE \E a \in Addrs : ServerStep(p, a)
  BY <1>1 DEF ServerStep, NewServer, ListenAndServe, HandlerReady, GetListener, SignalParent,
              SignalNobody, Serve, Drained
<1>2. CASE \E a \in Addrs : HandlerStep(p, a)
  <2>1. PICK a \in Addrs : HandlerStep(p, a)
    BY <1>2
  <2>2. CASE Fork(p, a)
    <3>1. CASE UNCHANGED <<proc, extra, sockOrder>>
      BY <3>1
    <3>2. CASE /\ proc' = [proc EXCEPT ![p + 1] = "up"]
               /\ \E f \in Files(p) : extra' = [extra EXCEPT ![p + 1] = f]
               /\ \E o \in OrderArgs(p) : sockOrder' = [sockOrder EXCEPT ![p + 1] = o]
      <4>1. ~forked[p]
        BY <2>2 DEF Fork
      <4>2. QED
        BY <2>2, <3>2, <4>1
    <3>3. QED
      BY <2>2, <3>1, <3>2 DEF Fork
  <2>3. CASE ~Fork(p, a)
    BY <2>1, <2>3 DEF HandlerStep, HandleTerm, HandlerLoops, ForkAgain, ForkCrash
  <2>4. QED
    BY <2>2, <2>3
<1>3. CASE SendHup(p)
  BY <1>3 DEF SendHup
<1>4. CASE Exit(p)
  BY <1>4 DEF Exit
<1>5. QED
  BY <1>1, <1>2, <1>3, <1>4 DEF Step

-----------------------------------------------------------------------------
(* One child of a process *)

\* Processes are numbers, and a child has its parent before it.
LEMMA ProcsAreInts ==
  \A p \in Procs : p \in Int /\ (IsChild(p) => p - 1 \in Procs) /\ p # p + 1 /\ p # p - 1
BY RestartAssumption DEF RestartAssumption, Procs, IsChild

\* A handler of p is given SIGHUP by an operator only.
LEMMA OwnHandler ==
  ASSUME TypeInv, NEW p \in Procs, Step(p), ~SendHup(p),
         NEW a \in Addrs, handler'[p][a] = "hup"
  PROVE  handler[p][a] = "hup"
<1>1. handler \in [Procs -> [Addrs -> Signals]]
  BY DEF TypeInv
<1>2. CASE \E b \in Addrs : SignalParent(p, b)
  <2>1. handler'[p] = handler[p]
    BY <1>1, <1>2, ProcsAreInts DEF SignalParent, Deliver
  <2>2. QED
    BY <2>1
<1>3. CASE \E b \in Addrs : ServerStep(p, b) /\ ~SignalParent(p, b)
  <2>1. PICK b \in Addrs : ServerStep(p, b) /\ ~SignalParent(p, b)
    BY <1>3
  <2>2. handler' = handler \/ handler' = [handler EXCEPT ![p][b] = "idle"]
    BY <2>1 DEF ServerStep, NewServer, ListenAndServe, HandlerReady, GetListener,
                SignalNobody, Serve, Drained
  <2>3. QED
    BY <1>1, <2>2
<1>4. CASE \E b \in Addrs : HandlerStep(p, b)
  <2>1. PICK b \in Addrs : HandlerStep(p, b)
    BY <1>4
  <2>2. \/ handler' = handler
        \/ \E h \in {"post", "idle"} : handler' = [handler EXCEPT ![p][b] = h]
    BY <2>1 DEF HandlerStep, HandleTerm, HandlerLoops, ForkAgain, ForkCrash, Fork
  <2>3. QED
    BY <1>1, <2>2
<1>5. CASE Exit(p)
  BY <1>1, <1>5 DEF Exit
<1>6. QED
  BY <1>2, <1>3, <1>4, <1>5 DEF Step

\* A step keeps OnceInv.
LEMMA OnceStep ==
  ASSUME TypeInv, OnceInv, [Next]_vars
  PROVE  OnceInv'
<1>1. CASE UNCHANGED vars
  BY <1>1 DEF vars, OnceInv
<1>2. CASE Next
  <2>1. PICK p \in Procs : Step(p) /\ env' = env
    BY <1>2, NextSteps
  <2>2. /\ proc[p] = "up"
        /\ \A q \in Procs \ {p} : /\ srv'[q] = srv[q] /\ forked'[q] = forked[q]
                                  /\ starts'[q] = starts[q] /\ lis'[q] = lis[q]
    BY <2>1, Others
  <2>3. starts'[p] <= 1 /\ (starts'[p] = 1 => forked'[p])
    <3>1. CASE \E a \in Addrs : Fork(p, a)
      <4>1. starts[p] \in Nat /\ starts'[p] = starts[p] + 1 /\ ~forked[p] /\ forked'[p]
        BY <3>1 DEF Fork, TypeInv
      <4>2. QED
        BY <4>1 DEF OnceInv
    <3>2. CASE ~\E a \in Addrs : Fork(p, a)
      <4>1. UNCHANGED <<starts, forked>>
        BY <2>1, <3>2 DEF Step, ServerStep, HandlerStep, NewServer, ListenAndServe, HandlerReady,
             GetListener, SignalParent, SignalNobody, Serve, Drained, HandleTerm, HandlerLoops,
             ForkAgain, ForkCrash, SendHup, Exit
      <4>2. QED
        BY <4>1 DEF OnceInv
    <3>3. QED
      BY <3>1, <3>2
  <2>4. forked[p] => forked'[p]
    BY <2>1 DEF TypeInv, Step, ServerStep, HandlerStep, NewServer, ListenAndServe, HandlerReady,
         GetListener, SignalParent, SignalNobody, Serve, Drained, HandleTerm, HandlerLoops,
         ForkAgain, ForkCrash, Fork, SendHup, Exit
  <2>5. \/ proc' = proc
        \/ proc' = [proc EXCEPT ![p] = "gone"]
        \/ proc' = [proc EXCEPT ![p - 1] = "gone"] /\ IsChild(p) /\ proc[p - 1] = "up"
        \/ proc' = [proc EXCEPT ![p + 1] = "up"] /\ ~forked[p] /\ forked'[p]
    BY <2>1, ProcStep
  <2>6. proc \in [Procs -> {"none", "up", "gone"}]
    BY DEF TypeInv
  <2>7. ASSUME NEW q \in Procs, q + 1 \in Procs, ~forked'[q]
        PROVE  proc'[q + 1] = "none"
    <3>1. ~forked[q]
      BY <2>2, <2>4, <2>7
    <3>2. proc[q + 1] = "none"
      BY <2>7, <3>1 DEF OnceInv
    <3>3. CASE proc' = [proc EXCEPT ![p + 1] = "up"] /\ ~forked[p] /\ forked'[p]
      BY <2>6, <2>7, <3>2, <3>3, ProcsAreInts
    <3>4. QED
      BY <2>2, <2>5, <2>6, <2>7, <3>2, <3>3, ProcsAreInts
  <2>8. ASSUME NEW q \in Procs, proc'[q] = "none"
        PROVE  /\ ~forked'[q] /\ q # 1
               /\ \A a \in Addrs : /\ srv'[q][a] = "absent" /\ handler'[q][a] = "off"
                                  /\ lis'[q][a] = NoSocket
    <3>1. proc[q] = "none" /\ q # 1
      BY <2>5, <2>6, <2>8 DEF OnceInv
    <3>2. q # p
      BY <2>2, <3>1
    <3>3. handler'[q] = handler[q]
      BY <2>1, <3>1, <3>2, HandlersStep
    <3>4. QED
      BY <2>2, <3>1, <3>2, <3>3 DEF OnceInv
  <2>9. ASSUME NEW q \in Procs, NEW a \in Addrs, handler'[q][a] = "hup"
        PROVE  q < env.procs
    <3>1. CASE q # p
      <4>1. handler[q][a] = "hup"
        BY <2>1, <2>9, <3>1, HandlersStep
      <4>2. QED
        BY <4>1 DEF OnceInv
    <3>2. CASE q = p
      <4>1. handler[p][a] = "hup" \/ SendHup(p)
        BY <2>1, <2>9, <3>2, OwnHandler
      <4>2. QED
        BY <3>2, <4>1 DEF OnceInv, SendHup
    <3>3. QED
      BY <3>1, <3>2
  <2>10. QED
    BY <2>1, <2>2, <2>3, <2>7, <2>8, <2>9 DEF OnceInv
<1>3. QED
  BY <1>1, <1>2

\* OnceInv holds always.
LEMMA OnceTheorem == Spec => [](TypeInv /\ OnceInv)
<1>1. Init => TypeInv /\ OnceInv
  BY TypeInit DEF Init, OnceInv, IsChild, Procs
<1>2. TypeInv /\ OnceInv /\ [Next]_vars => TypeInv' /\ OnceInv'
  BY TypeStep, OnceStep
<1>3. QED
  BY <1>1, <1>2, PTL DEF Spec

\* OneForkPerProcess: of all the handlers that get SIGHUP, whenever they get it,
\* one starts a child.
THEOREM OneForkTheorem == Spec => []OneForkPerProcess
<1>1. OnceInv => OneForkPerProcess
  BY DEF OnceInv, OneForkPerProcess
<1>2. QED
  BY <1>1, OnceTheorem, PTL

-----------------------------------------------------------------------------
(* The positions of addresses and sockets *)

\* A sequence of addresses without repetitions is no longer than Addrs; one
\* that has every address is no shorter.
LEMMA OrderLength ==
  ASSUME NEW s \in Seq(Addrs)
  PROVE  /\ (\A i, j \in DOMAIN s : s[i] = s[j] => i = j) => Len(s) <= Cardinality(Addrs)
         /\ {s[i] : i \in DOMAIN s} = Addrs => Cardinality(Addrs) <= Len(s)
<1>1. Len(s) \in Nat /\ DOMAIN s = 1..Len(s) /\ s \in [1..Len(s) -> Addrs]
  OBVIOUS
<1>2. IsFiniteSet(1..Len(s)) /\ Cardinality(1..Len(s)) = Len(s)
  BY <1>1, FS_Interval
<1>3. IsFiniteSet(Addrs)
  BY RestartAssumption DEF RestartAssumption
<1>4. ASSUME \A i, j \in DOMAIN s : s[i] = s[j] => i = j
      PROVE  Len(s) <= Cardinality(Addrs)
  <2>1. s \in Injection(1..Len(s), Addrs)
    BY <1>1, <1>4 DEF Injection, IsInjective
  <2>2. QED
    BY <1>2, <1>3, <2>1, FS_Injection
<1>5. ASSUME {s[i] : i \in DOMAIN s} = Addrs
      PROVE  Cardinality(Addrs) <= Len(s)
  <2>1. s \in Surjection(1..Len(s), Addrs)
    BY <1>1, <1>5 DEF Surjection
  <2>2. QED
    BY <1>2, <2>1, FS_Surjection
<1>6. QED
  BY <1>4, <1>5

\* IndexOr0 finds what is there.
LEMMA IndexFinds ==
  ASSUME NEW S, NEW s \in Seq(S), NEW x
  PROVE  /\ IndexOr0(s, x) \in Nat
         /\ IndexOr0(s, x) = 0 \/ IndexOr0(s, x) < Len(s)
         /\ (\E i \in DOMAIN s : s[i] = x) =>
              IndexOr0(s, x) + 1 \in DOMAIN s /\ s[IndexOr0(s, x) + 1] = x
<1>1. CASE \E i \in DOMAIN s : s[i] = x
  <2> DEFINE c == CHOOSE i \in DOMAIN s : s[i] = x
  <2>1. c \in DOMAIN s /\ s[c] = x
    BY <1>1
  <2>2. IndexOr0(s, x) = c - 1
    BY <1>1 DEF IndexOr0
  <2>3. c \in 1..Len(s) /\ Len(s) \in Nat
    BY <2>1
  <2> HIDE DEF c
  <2>4. QED
    BY <2>1, <2>2, <2>3
<1>2. CASE ~\E i \in DOMAIN s : s[i] = x
  BY <1>2 DEF IndexOr0
<1>3. QED
  BY <1>1, <1>2

\* In a process that has registered every server, offsets are indices of files.
LEMMA OffsetInFiles ==
  ASSUME TypeInv, OrderInv, NEW p \in Procs, Registered(p) = Addrs, NEW a \in Addrs
  PROVE  Offset(p, a) \in Nat /\ Offset(p, a) < Len(order[p])
<1>1. order[p] \in Seq(Addrs) /\ sockOrder[p] \in Seq(Sockets)
  BY DEF TypeInv
<1>2. Len(order[p]) \in Nat /\ Len(sockOrder[p]) \in Nat
  BY <1>1
<1>3. Cardinality(Addrs) \in Nat
  BY RestartAssumption, FS_CardinalityType DEF RestartAssumption
<1>4. Len(sockOrder[p]) <= Cardinality(Addrs)
  BY DEF OrderInv
<1>5. Cardinality(Addrs) <= Len(order[p])
  BY <1>1, OrderLength DEF Registered
<1>6. 0 < Len(order[p])
  BY <1>1 DEF Registered
<1>7. /\ IndexOr0(order[p], a) \in Nat
      /\ IndexOr0(order[p], a) = 0 \/ IndexOr0(order[p], a) < Len(order[p])
  BY <1>1, IndexFinds
<1>8. /\ IndexOr0(sockOrder[p], a) \in Nat
      /\ IndexOr0(sockOrder[p], a) = 0 \/ IndexOr0(sockOrder[p], a) < Len(sockOrder[p])
  BY <1>1, IndexFinds
<1>9. QED
  BY <1>2, <1>3, <1>4, <1>5, <1>6, <1>7, <1>8 DEF Offset

\* A step of p registers a server that was absent, ends p, or leaves the order.
LEMMA OrderStep ==
  ASSUME TypeInv, NEW p \in Procs, Step(p)
  PROVE  \/ \E a \in Addrs : NewServer(p, a)
         \/ order'[p] = <<>>
         \/ /\ order'[p] = order[p]
            /\ \A a \in Addrs : srv'[p][a] = "absent" => srv[p][a] = "absent"
<1> USE DEF TypeInv
<1>1. CASE \E a \in Addrs : ServerStep(p, a)
  <2>1. PICK a \in Addrs : ServerStep(p, a)
    BY <1>1
  <2>2. CASE NewServer(p, a)
    BY <2>2
  <2>3. CASE ~NewServer(p, a)
    <3>1. order' = order
      BY <2>1, <2>3 DEF ServerStep, ListenAndServe, HandlerReady, GetListener, SignalParent,
                        SignalNobody, Serve, Drained
    <3>2. srv' = srv \/ \E x : x # "absent" /\ srv' = [srv EXCEPT ![p][a] = x]
      BY <2>1, <2>3 DEF ServerStep, ListenAndServe, HandlerReady, GetListener, SignalParent,
                        SignalNobody, Serve, Drained
    <3>3. QED
      BY <3>1, <3>2
  <2>4. QED
    BY <2>2, <2>3
<1>2. CASE \E a \in Addrs : HandlerStep(p, a)
  <2>1. PICK a \in Addrs : HandlerStep(p, a)
    BY <1>2
  <2>2. order' = order
    BY <2>1 DEF HandlerStep, HandleTerm, HandlerLoops, ForkAgain, ForkCrash, Fork
  <2>3. \/ srv' = srv
        \/ srv' = [srv EXCEPT ![p][a] = "draining"]
        \/ srv' = [srv EXCEPT ![p][a] = @]
    BY <2>1 DEF HandlerStep, HandleTerm, HandlerLoops, ForkAgain, ForkCrash, Fork
  <2>4. QED
    BY <2>2, <2>3
<1>3. CASE SendHup(p)
  BY <1>3 DEF SendHup
<1>4. CASE Exit(p)
  BY <1>4 DEF Exit
<1>5. QED
  BY <1>1, <1>2, <1>3, <1>4 DEF Step

\* A step keeps OrderInv.
LEMMA OrderInvStep ==
  ASSUME TypeInv, OnceInv, OrderInv, [Next]_vars
  PROVE  OrderInv'
<1>1. CASE UNCHANGED vars
  BY <1>1 DEF vars, OrderInv, Registered
<1>2. CASE Next
  <2>1. PICK p \in Procs : Step(p) /\ env' = env
    BY <1>2, NextSteps
  <2>2. /\ proc[p] = "up"
        /\ \A q \in Procs \ {p} : /\ order'[q] = order[q] /\ srv'[q] = srv[q]
                                  /\ lis'[q] = lis[q] /\ crashed'[q] = crashed[q]
    BY <2>1, Others
  <2>3. ASSUME NEW q \in Procs
        PROVE  /\ \A i, j \in DOMAIN order'[q] : order'[q][i] = order'[q][j] => i = j
               /\ \A a \in Registered(q)' : srv'[q][a] # "absent"
    <3>1. CASE q # p
      BY <2>2, <3>1 DEF OrderInv, Registered
    <3>2. CASE q = p /\ \E a \in Addrs : NewServer(p, a)
      <4>1. PICK a \in Addrs : NewServer(p, a)
        BY <3>2
      <4>2. order'[p] = Append(order[p], a) /\ order[p] \in Seq(Addrs)
        BY <4>1 DEF NewServer, TypeInv
      <4>3. /\ srv'[p][a] = "new"
            /\ \A b \in Addrs \ {a} : srv'[p][b] = srv[p][b]
        BY <4>1 DEF NewServer, TypeInv
      <4>4. a \notin Registered(p)
        BY <4>1 DEF NewServer, OrderInv
      <4>5. \A i, j \in DOMAIN order'[p] : order'[p][i] = order'[p][j] => i = j
        BY <4>2, <4>4 DEF Registered, OrderInv
      <4>6. Registered(p)' = Registered(p) \cup {a} /\ Registered(p) \subseteq Addrs
        BY <4>2 DEF Registered
      <4>7. QED
        BY <3>2, <4>3, <4>5, <4>6 DEF OrderInv
    <3>3. CASE q = p /\ order'[p] = <<>>
      BY <3>3 DEF Registered
    <3>4. CASE /\ q = p /\ order'[p] = order[p]
               /\ \A a \in Addrs : srv'[p][a] = "absent" => srv[p][a] = "absent"
      <4>1. Registered(p)' = Registered(p) /\ Registered(p) \subseteq Addrs
        BY <3>4 DEF Registered, TypeInv
      <4>2. QED
        BY <3>4, <4>1 DEF OrderInv
    <3>5. QED
      BY <2>1, <3>1, <3>2, <3>3, <3>4, OrderStep
  <2>4. ASSUME NEW q \in Procs
        PROVE  Len(sockOrder'[q]) <= Cardinality(Addrs)
    <3>1. CASE sockOrder'[q] = sockOrder[q]
      BY <3>1 DEF OrderInv
    <3>2. CASE sockOrder'[q] = <<>>
      BY <3>2, RestartAssumption, FS_CardinalityType DEF RestartAssumption
    <3>3. CASE sockOrder'[q] \in OrderArgs(p) /\ sockOrder'[q] # <<>>
      <4>1. order[p] \in Seq(Addrs)
        BY DEF TypeInv
      <4>2. Len(sockOrder'[q]) = Len(order[p])
        BY <3>3, <4>1 DEF OrderArgs
      <4>3. Len(order[p]) <= Cardinality(Addrs)
        BY <4>1, OrderLength DEF OrderInv
      <4>4. QED
        BY <4>2, <4>3
    <3>4. QED
      BY <2>1, <3>1, <3>2, <3>3, InheritStep
  <2>5. ASSUME NEW q \in Procs, crashed'[q]
        PROVE  /\ proc'[q] = "gone"
               /\ Registered(q)' # Addrs \/ \E a \in Addrs : lis'[q][a] = NoSocket
    <3>1. CASE crashed[q]
      <4>1. proc[q] = "gone" /\ q # p
        BY <2>2, <3>1 DEF OrderInv
      <4>2. proc'[q] = "gone"
        <5>1. ~(q = p + 1 /\ ~forked[p])
          BY <4>1 DEF OnceInv
        <5>2. \/ proc' = proc
              \/ \E r : proc' = [proc EXCEPT ![r] = "gone"]
              \/ proc' = [proc EXCEPT ![p + 1] = "up"] /\ ~forked[p]
          BY <2>1, ProcStep
        <5>3. proc \in [Procs -> {"none", "up", "gone"}]
          BY DEF TypeInv
        <5>4. QED
          BY <4>1, <5>1, <5>2, <5>3
      <4>3. QED
        BY <2>2, <3>1, <4>1, <4>2 DEF OrderInv, Registered
    <3>2. CASE ~crashed[q]
      <4>1. q = p /\ \E a \in Addrs : ForkCrash(p, a)
        BY <2>1, <2>2, <2>5, <3>2 DEF Step, ServerStep, HandlerStep, NewServer, ListenAndServe,
           HandlerReady, GetListener, SignalParent, SignalNobody, Serve, Drained, HandleTerm,
           HandlerLoops, ForkAgain, Fork, SendHup, Exit
      <4>2. /\ ForkPanics(p) /\ proc'[p] = "gone" /\ order' = order /\ lis' = lis
        BY <4>1 DEF ForkCrash, TypeInv
      <4>3. Registered(p) \subseteq Addrs
        BY DEF Registered, TypeInv
      <4>4. Registered(p) # Addrs \/ \E a \in Addrs : lis[p][a] = NoSocket
        <5>1. SUFFICES ASSUME Registered(p) = Addrs
                       PROVE  \E a \in Addrs : lis[p][a] = NoSocket
          OBVIOUS
        <5>2. PICK a \in Addrs : lis[p][a] = NoSocket \/ Offset(p, a) >= Len(order[p])
          BY <4>2, <4>3 DEF ForkPanics
        <5>3. Offset(p, a) \in Nat /\ Offset(p, a) < Len(order[p])
          BY <5>1, OffsetInFiles
        <5>4. Len(order[p]) \in Nat
          BY DEF TypeInv
        <5>5. QED
          BY <5>2, <5>3, <5>4
      <4>5. QED
        BY <4>1, <4>2, <4>4 DEF Registered
    <3>3. QED
      BY <3>1, <3>2
  <2>6. QED
    BY <2>3, <2>4, <2>5 DEF OrderInv
<1>3. QED
  BY <1>1, <1>2

\* OrderInv holds always.
LEMMA OrderTheorem == Spec => [](TypeInv /\ OnceInv /\ OrderInv)
<1>1. Init => OrderInv
  <2>1. Cardinality(Addrs) \in Nat
    BY RestartAssumption, FS_CardinalityType DEF RestartAssumption
  <2>2. QED
    BY <2>1 DEF Init, OrderInv, Registered
<1>2. TypeInv /\ OnceInv /\ OrderInv /\ [Next]_vars => OrderInv'
  BY OrderInvStep
<1>3. QED
  BY <1>1, <1>2, OnceTheorem, PTL DEF Spec

\* ForkPanicsOnlyAtStart: whenever SIGHUP comes, and whatever the order in which
\* parent and child call NewServer, fork panics only in a process one of whose
\* servers was not registered or does not listen.
THEOREM ForkPanicsTheorem == Spec => []ForkPanicsOnlyAtStart
<1>1. OrderInv => ForkPanicsOnlyAtStart
  BY DEF OrderInv, ForkPanicsOnlyAtStart
<1>2. QED
  BY <1>1, OrderTheorem, PTL

-----------------------------------------------------------------------------
(* The sockets that a child gets *)

\* A server of p is registered, then started; its handler follows.
LEMMA PlaceStep ==
  ASSUME TypeInv, NEW p \in Procs, Step(p), NEW b \in Addrs
  PROVE  /\ srv'[p][b] \in {"absent", "new"} => srv[p][b] \in {"absent", "new"}
         /\ srv'[p][b] \notin {"absent", "new"} /\ srv[p][b] \in {"absent", "new"}
              => ListenAndServe(p, b)
         /\ handler'[p][b] # "off" /\ handler[p][b] = "off" => HandlerReady(p, b)
<1>1. /\ srv \in [Procs -> [Addrs -> Places]]
      /\ handler \in [Procs -> [Addrs -> Signals]]
  BY DEF TypeInv
<1>2. CASE \E a \in Addrs : NewServer(p, a)
  BY <1>1, <1>2 DEF NewServer
<1>3. CASE \E a \in Addrs : ListenAndServe(p, a)
  <2>1. PICK a \in Addrs : ListenAndServe(p, a)
    BY <1>3
  <2>2. srv' = [srv EXCEPT ![p][a] = "started"] /\ handler' = handler
    BY <2>1 DEF ListenAndServe
  <2>3. \A c \in Addrs \ {a} : srv'[p][c] = srv[p][c]
    BY <1>1, <2>2
  <2>4. QED
    BY <2>1, <2>2, <2>3 DEF ListenAndServe
<1>4. CASE \E a \in Addrs : HandlerReady(p, a)
  BY <1>1, <1>4 DEF HandlerReady
<1>5. CASE \E a \in Addrs : GetListener(p, a)
  <2>1. PICK a \in Addrs : GetListener(p, a)
    BY <1>5
  <2>2. /\ srv[p][a] = "started" /\ handler' = handler
        /\ \E x \in {"failed", "listening"} : srv' = [srv EXCEPT ![p][a] = x]
    BY <2>1 DEF GetListener
  <2>3. QED
    BY <1>1, <2>2
<1>6. CASE \E a \in Addrs : SignalParent(p, a)
  <2>1. PICK a \in Addrs : SignalParent(p, a)
    BY <1>6
  <2>2. handler'[p] = handler[p]
    BY <1>1, <2>1, ProcsAreInts DEF SignalParent, Deliver
  <2>3. srv[p][a] = "listening" /\ srv' = [srv EXCEPT ![p][a] = "signalled"]
    BY <2>1 DEF SignalParent
  <2>4. QED
    BY <1>1, <2>2, <2>3
<1>7. CASE \E a \in Addrs : SignalNobody(p, a)
  <2>1. PICK a \in Addrs : SignalNobody(p, a)
    BY <1>7
  <2>2. /\ srv[p][a] = "listening" /\ handler' = handler
        /\ \E x \in {"signalled", "unserved"} : srv' = [srv EXCEPT ![p][a] = x]
    BY <2>1 DEF SignalNobody
  <2>3. QED
    BY <1>1, <2>2
<1>8. CASE \E a \in Addrs : Serve(p, a) \/ Drained(p, a)
  <2>1. PICK a \in Addrs : Serve(p, a) \/ Drained(p, a)
    BY <1>8
  <2>2. /\ srv[p][a] \in {"signalled", "listening", "draining"} /\ handler' = handler
        /\ \E x \in {"running", "done"} : srv' = [srv EXCEPT ![p][a] = x]
    BY <2>1 DEF Serve, Drained
  <2>3. QED
    BY <1>1, <2>2
<1>9. CASE \E a \in Addrs : HandlerStep(p, a)
  <2>1. PICK a \in Addrs : HandlerStep(p, a)
    BY <1>9
  <2>2. handler[p][a] # "off" /\ (handler' = handler \/ \E h : handler' = [handler EXCEPT ![p][a] = h])
    BY <2>1 DEF HandlerStep, HandleTerm, HandlerLoops, ForkAgain, ForkCrash, Fork
  <2>3. srv' = srv \/ (srv' = [srv EXCEPT ![p][a] = IF @ = "running" THEN "draining" ELSE @])
    BY <2>1 DEF HandlerStep, HandleTerm, HandlerLoops, ForkAgain, ForkCrash, Fork
  <2>4. QED
    BY <1>1, <2>2, <2>3
<1>10. CASE SendHup(p) \/ Exit(p)
  <2>1. srv' = srv /\ (handler[p][b] = "off" => handler'[p][b] = "off")
    BY <1>1, <1>10 DEF SendHup, Exit, Deliver
  <2>2. QED
    BY <2>1
<1>11. QED
  BY <1>2, <1>3, <1>4, <1>5, <1>6, <1>7, <1>8, <1>9, <1>10 DEF Step, ServerStep

\* A process that comes up is the child that was forked, with what fork hands
\* over; it was not there before.
LEMMA StartStep ==
  ASSUME TypeInv, OnceInv, NEW p \in Procs, Step(p),
         NEW q \in Procs, proc'[q] = "up", proc[q] # "up"
  PROVE  /\ q = p + 1 /\ q # p /\ proc[q] = "none" /\ ~forked[p]
         /\ extra'[q] \in Files(p) /\ sockOrder'[q] \in OrderArgs(p)
         /\ \E a \in Addrs : Fork(p, a)
<1>1. proc \in [Procs -> {"none", "up", "gone"}]
  BY DEF TypeInv
<1>2. proc' = [proc EXCEPT ![p + 1] = "up"] /\ ~forked[p] /\ \E a \in Addrs : Fork(p, a)
  <2>1. \/ proc' = proc
        \/ \E r : proc' = [proc EXCEPT ![r] = "gone"]
        \/ /\ proc' = [proc EXCEPT ![p + 1] = "up"]
           /\ ~forked[p] /\ \E a \in Addrs : Fork(p, a)
    BY ProcStep
  <2>2. proc' # proc /\ ~\E r : proc' = [proc EXCEPT ![r] = "gone"]
    BY <1>1
  <2>3. QED
    BY <2>1, <2>2
<1>3. q = p + 1 /\ q # p
  BY <1>1, <1>2, ProcsAreInts
<1>4. proc[q] = "none"
  BY <1>2, <1>3 DEF OnceInv
<1>5. PICK a \in Addrs : Fork(p, a)
  BY <1>2
<1>6. /\ \E f \in Files(p) : extra' = [extra EXCEPT ![p + 1] = f]
      /\ \E o \in OrderArgs(p) : sockOrder' = [sockOrder EXCEPT ![p + 1] = o]
  BY <1>1, <1>2, <1>3, <1>5 DEF Fork
<1>7. extra'[q] \in Files(p) /\ sockOrder'[q] \in OrderArgs(p)
  BY <1>3, <1>6 DEF TypeInv
<1>8. QED
  BY <1>2, <1>3, <1>4, <1>7

\* Where every server is registered, the offsets of two addresses differ.
LEMMA OffsetsDiffer ==
  ASSUME TypeInv, NEW p \in Procs, SocketOf(p), Registered(p) = Addrs,
         NEW a \in Addrs, NEW b \in Addrs, Offset(p, a) = Offset(p, b)
  PROVE  a = b
<1>1. order[p] \in Seq(Addrs) /\ sockOrder[p] \in Seq(Sockets)
  BY DEF TypeInv
<1>2. CASE sockOrder[p] # <<>>
  <2>1. \A x \in Addrs : \E i \in DOMAIN sockOrder[p] : sockOrder[p][i] = x
    BY <1>2 DEF SocketOf
  <2>2. \A x \in Addrs : sockOrder[p][IndexOr0(sockOrder[p], x) + 1] = x
    BY <1>1, <2>1, IndexFinds
  <2>3. QED
    BY <1>2, <2>2 DEF Offset
<1>3. CASE sockOrder[p] = <<>>
  <2>1. \A x \in Addrs : \E i \in DOMAIN order[p] : order[p][i] = x
    BY DEF Registered
  <2>2. \A x \in Addrs : order[p][IndexOr0(order[p], x) + 1] = x
    BY <1>1, <2>1, IndexFinds
  <2>3. QED
    BY <1>3, <2>2 DEF Offset
<1>4. QED
  BY <1>2, <1>3

\* What fork hands over, then, agrees by position with the addresses.
LEMMA HandedOver ==
  ASSUME TypeInv, OrderInv, NEW p \in Procs, SocketOf(p), Registered(p) = Addrs,
         NEW f \in Files(p), NEW o \in OrderArgs(p)
  PROVE  /\ o # <<>> => /\ \A a \in Addrs : \E i \in DOMAIN o : o[i] = a
                        /\ \A a \in Addrs : \A i, j \in DOMAIN o : o[i] = a /\ o[j] = a => i = j
                        /\ DOMAIN f = DOMAIN o
                        /\ \A i \in DOMAIN f : f[i] \in {NoSocket, o[i]}
         /\ o = <<>> => OneAddress /\ DOMAIN f \subseteq {1}
         /\ (\A a \in Addrs : FileOf(p, a) = a) => \A a \in Addrs : \E i \in DOMAIN f : f[i] = a
<1>1. order[p] \in Seq(Addrs) /\ Len(order[p]) \in Nat
  BY DEF TypeInv
<1>2. \A a \in Addrs : Offset(p, a) + 1 \in 1..Len(order[p]) /\ Offset(p, a) \in Nat
  BY <1>1, OffsetInFiles
<1>3. \A a, b \in Addrs : Offset(p, a) = Offset(p, b) => a = b
  BY OffsetsDiffer
<1> DEFINE Here(i) == {a \in Registered(p) : Offset(p, a) = i - 1}
<1>4. DOMAIN f = 1..Len(order[p])
  BY DEF Files
<1>5. \A i \in 1..Len(order[p]) :
        f[i] \in IF Here(i) = {} THEN {NoSocket} ELSE {FileOf(p, a) : a \in Here(i)}
  BY DEF Files
<1>6. \A a \in Addrs : Here(Offset(p, a) + 1) = {a}
  BY <1>2, <1>3
<1>7. \A a \in Addrs : FileOf(p, a) \in {NoSocket, a}
  BY DEF FileOf, SocketOf
<1>8. \A i : Here(i) = {} \/ \E a \in Addrs : Here(i) = {a}
  BY <1>3
<1> HIDE DEF Here
<1>9. ASSUME NEW i \in 1..Len(order[p]), NEW a \in Addrs, Here(i) = {a}
       PROVE  f[i] = FileOf(p, a)
  BY <1>5, <1>9
<1>10. ASSUME NEW i \in 1..Len(order[p]), Here(i) = {}
       PROVE  f[i] = NoSocket
  BY <1>5, <1>10
<1>11. ASSUME o # <<>>
      PROVE  /\ DOMAIN o = 1..Len(order[p])
             /\ \A i \in 1..Len(order[p]) : o[i] \in IF Here(i) = {} THEN {NoSocket} ELSE Here(i)
  BY <1>11 DEF OrderArgs, Here
<1>12. ASSUME o # <<>>
       PROVE  \A a \in Addrs : \E i \in DOMAIN o : o[i] = a
  <2>1. SUFFICES ASSUME NEW a \in Addrs
                 PROVE  o[Offset(p, a) + 1] = a
    BY <1>2, <1>11, <1>12
  <2>2. QED
    BY <1>2, <1>6, <1>11, <1>12
<1>13. ASSUME o # <<>>, NEW i \in DOMAIN f
       PROVE  f[i] \in {NoSocket, o[i]}
  <2>1. i \in 1..Len(order[p])
    BY <1>4
  <2>2. CASE Here(i) = {}
    BY <1>10, <2>1, <2>2
  <2>3. CASE Here(i) # {}
    <3>1. PICK a \in Addrs : Here(i) = {a}
      BY <1>8, <2>3
    <3>2. f[i] = FileOf(p, a)
      BY <1>9, <2>1, <3>1
    <3>3. o[i] = a
      BY <1>11, <1>13, <2>1, <3>1
    <3>4. QED
      BY <1>7, <3>2, <3>3
  <2>4. QED
    BY <2>2, <2>3
<1>14. ASSUME o = <<>>
       PROVE  OneAddress /\ DOMAIN f \subseteq {1}
  <2>1. Len(order[p]) < 2
    BY <1>1, <1>14 DEF OrderArgs
  <2>2. \A a \in Addrs : Offset(p, a) = 0
    BY <1>1, <1>2, <2>1
  <2>3. OneAddress
    BY <1>3, <2>2 DEF OneAddress
  <2>4. QED
    BY <1>1, <1>4, <2>1, <2>3
<1>15. ASSUME \A a \in Addrs : FileOf(p, a) = a, NEW a \in Addrs
       PROVE  \E i \in DOMAIN f : f[i] = a
  <2>1. f[Offset(p, a) + 1] = a
    BY <1>2, <1>6, <1>15, <1>9
  <2>2. QED
    BY <1>2, <1>4, <2>1
<1>16. ASSUME o # <<>>, NEW a \in Addrs, NEW i \in DOMAIN o, NEW j \in DOMAIN o,
              o[i] = a, o[j] = a
       PROVE  i = j
  <2>1. NoSocket # a /\ i \in 1..Len(order[p]) /\ j \in 1..Len(order[p])
    BY <1>11, <1>16, RestartAssumption DEF RestartAssumption
  <2>2. a \in Here(i) /\ a \in Here(j)
    BY <1>11, <1>16, <2>1
  <2>3. Offset(p, a) = i - 1 /\ Offset(p, a) = j - 1
    BY <2>2 DEF Here
  <2>4. QED
    BY <2>1, <2>3
<1>17. QED
  BY <1>4, <1>11, <1>12, <1>13, <1>14, <1>15, <1>16

\* A server of a child finds its own socket at its offset, or none.
LEMMA InheritsOwn ==
  ASSUME TypeInv, NEW p \in Procs, SocketOf(p), proc[p] = "up", IsChild(p), NEW a \in Addrs
  PROVE  /\ Inherited(p, Offset(p, a)) \in {NoSocket, a}
         /\ sockOrder[p] # <<>> => /\ Offset(p, a) + 1 \in DOMAIN extra[p]
                                  /\ sockOrder[p][Offset(p, a) + 1] = a
<1>1. sockOrder[p] \in Seq(Sockets) /\ extra[p] \in Seq(Sockets)
  BY DEF TypeInv
<1>2. Inherited(p, Offset(p, a)) \in Sockets
  BY <1>1 DEF Inherited, Sockets
<1>3. CASE sockOrder[p] = <<>>
  BY <1>2, <1>3 DEF SocketOf, OneAddress, Sockets
<1>4. CASE sockOrder[p] # <<>>
  <2>1. \E i \in DOMAIN sockOrder[p] : sockOrder[p][i] = a
    BY <1>4 DEF SocketOf
  <2>2. /\ IndexOr0(sockOrder[p], a) + 1 \in DOMAIN sockOrder[p]
        /\ sockOrder[p][IndexOr0(sockOrder[p], a) + 1] = a
    BY <1>1, <2>1, IndexFinds
  <2>3. Offset(p, a) = IndexOr0(sockOrder[p], a)
    BY <1>4 DEF Offset
  <2>4. Offset(p, a) + 1 \in DOMAIN extra[p] /\ sockOrder[p][Offset(p, a) + 1] = a
    BY <1>4, <2>2, <2>3 DEF SocketOf
  <2>5. extra[p][Offset(p, a) + 1] \in {NoSocket, a}
    BY <1>4, <2>4 DEF SocketOf
  <2>6. QED
    BY <2>4, <2>5 DEF Inherited
<1>5. QED
  BY <1>3, <1>4

\* A listener is set by GetListener.
LEMMA ListenerStep ==
  ASSUME TypeInv, NEW p \in Procs, Step(p), NEW a \in Addrs
  PROVE  lis'[p][a] = lis[p][a] \/ GetListener(p, a)
<1>1. lis \in [Procs -> [Addrs -> Sockets]]
  BY DEF TypeInv
<1>2. CASE \E b \in Addrs : GetListener(p, b)
  <2>1. PICK b \in Addrs : GetListener(p, b)
    BY <1>2
  <2>2. \E s : lis' = [lis EXCEPT ![p][b] = s]
    BY <2>1 DEF GetListener
  <2>3. QED
    BY <1>1, <2>1, <2>2
<1>3. CASE ~\E b \in Addrs : GetListener(p, b)
  <2>1. lis' = lis
    BY <1>3 DEF Step, ServerStep, HandlerStep, NewServer, ListenAndServe, HandlerReady, SignalParent,
       SignalNobody, Serve, Drained, HandleTerm, HandlerLoops, ForkAgain, ForkCrash, Fork,
       SendHup, Exit
  <2>2. QED
    BY <2>1
<1>4. QED
  BY <1>2, <1>3

\* When a process forks, its servers are all registered.
LEMMA ForkRegistered ==
  ASSUME TypeInv, NEW p \in Procs, SocketOf(p), \E a \in Addrs : Fork(p, a)
  PROVE  Registered(p) = Addrs
BY DEF Fork, SocketOf

\* The order of a process that stays up is not emptied.
LEMMA NotEmptied ==
  ASSUME TypeInv, NEW p \in Procs, Step(p), proc'[p] = "up", order'[p] = <<>>
  PROVE  order[p] = <<>>
<1>1. proc \in [Procs -> {"none", "up", "gone"}] /\ order[p] \in Seq(Addrs)
  BY DEF TypeInv
<1>2. ~Exit(p)
  BY <1>1 DEF Exit
<1>3. CASE \E b \in Addrs : NewServer(p, b)
  <2>1. PICK b \in Addrs : NewServer(p, b)
    BY <1>3
  <2>2. order'[p] = Append(order[p], b)
    BY <2>1 DEF NewServer, TypeInv
  <2>3. Len(Append(order[p], b)) = Len(order[p]) + 1 /\ Len(order[p]) \in Nat
    BY <1>1
  <2>4. Len(order'[p]) # 0
    BY <2>2, <2>3
  <2>5. QED
    BY <2>4
<1>4. CASE ~\E b \in Addrs : NewServer(p, b)
  <2>1. order' = order
    BY <1>2, <1>4 DEF Step, ServerStep, HandlerStep, ListenAndServe, HandlerReady, GetListener,
       SignalParent, SignalNobody, Serve, Drained, HandleTerm, HandlerLoops, ForkAgain, ForkCrash,
       Fork, SendHup
  <2>2. QED
    BY <2>1
<1>5. QED
  BY <1>3, <1>4

\* A step keeps SocketInv.
LEMMA SocketStep ==
  ASSUME TypeInv, OnceInv, OrderInv, SocketInv, [Next]_vars
  PROVE  SocketInv'
<1>1. CASE UNCHANGED vars
  BY <1>1 DEF vars, SocketInv, SocketOf, Registered
<1>2. CASE Next
  <2>1. PICK p \in Procs : Step(p) /\ env' = env
    BY <1>2, NextSteps
  <2>2. SUFFICES ASSUME env.registerAllFirst, NEW q \in Procs
                 PROVE  SocketOf(q)'
    BY <2>1 DEF SocketInv
  <2>3. SocketOf(p) /\ SocketOf(q)
    BY <2>2 DEF SocketInv
  <2>4. /\ proc[p] = "up"
        /\ q # p => order'[q] = order[q] /\ srv'[q] = srv[q] /\ lis'[q] = lis[q]
    BY <2>1, Others
  <2>5. \A a \in Addrs : lis'[q][a] \in {NoSocket, a}
    <3>1. SUFFICES ASSUME NEW a \in Addrs, q = p, GetListener(p, a)
                   PROVE  lis'[p][a] \in {NoSocket, a}
      BY <2>1, <2>3, <2>4, ListenerStep DEF SocketOf
    <3>2. lis'[p][a] \in IF IsChild(p) THEN {Inherited(p, Offset(p, a))} ELSE {a, NoSocket}
      BY <3>1 DEF GetListener, TypeInv
    <3>3. IsChild(p) => Inherited(p, Offset(p, a)) \in {NoSocket, a}
      BY <2>3, <2>4, InheritsOwn
    <3>4. QED
      BY <3>2, <3>3
  <2>6. ASSUME sockOrder'[q] # <<>>
        PROVE  /\ \A a \in Addrs : \E i \in DOMAIN sockOrder'[q] : sockOrder'[q][i] = a
               /\ \A a \in Addrs : \A i, j \in DOMAIN sockOrder'[q] :
                    sockOrder'[q][i] = a /\ sockOrder'[q][j] = a => i = j
               /\ DOMAIN extra'[q] = DOMAIN sockOrder'[q]
               /\ \A i \in DOMAIN extra'[q] : extra'[q][i] \in {NoSocket, sockOrder'[q][i]}
    <3>1. CASE extra'[q] = extra[q] /\ sockOrder'[q] = sockOrder[q]
      BY <2>3, <2>6, <3>1 DEF SocketOf
    <3>2. CASE /\ extra'[q] \in Files(p) /\ sockOrder'[q] \in OrderArgs(p)
               /\ \E a \in Addrs : Fork(p, a)
      <4>1. Registered(p) = Addrs
        BY <2>3, <3>2, ForkRegistered
      <4>2. QED
        BY <2>3, <2>6, <3>2, <4>1, HandedOver
    <3>3. QED
      BY <2>1, <2>6, <3>1, <3>2, InheritStep
  <2>7. ASSUME IsChild(q), proc'[q] = "up", sockOrder'[q] = <<>>
        PROVE  OneAddress /\ DOMAIN extra'[q] \subseteq {1}
    <3>1. CASE proc[q] = "up"
      <4>1. CASE extra'[q] = extra[q] /\ sockOrder'[q] = sockOrder[q]
        BY <2>3, <2>7, <3>1, <4>1 DEF SocketOf
      <4>2. CASE Exit(p) /\ q = p
        BY <2>7, <4>2 DEF Exit, TypeInv
      <4>3. CASE q = p + 1 /\ ~forked[p]
        BY <3>1, <4>3 DEF OnceInv
      <4>4. QED
        BY <2>1, <4>1, <4>2, <4>3, InheritStep
    <3>2. CASE proc[q] # "up"
      <4>1. sockOrder'[q] \in OrderArgs(p) /\ extra'[q] \in Files(p) /\ \E a \in Addrs : Fork(p, a)
        BY <2>1, <2>7, <3>2, StartStep
      <4>2. Registered(p) = Addrs
        BY <2>3, <4>1, ForkRegistered
      <4>3. QED
        BY <2>3, <2>7, <4>1, <4>2, HandedOver
    <3>3. QED
      BY <3>1, <3>2
  <2>8. ASSUME NEW a \in Addrs, proc'[q] = "up"
        PROVE  /\ srv'[q][a] \notin {"absent", "new"} => Registered(q)' = Addrs
               /\ handler'[q][a] # "off" => srv'[q][a] \notin {"absent", "new"}
    <3>1. CASE proc[q] # "up"
      <4>1. q # p /\ proc[q] = "none"
        BY <2>1, <2>8, <3>1, StartStep
      <4>2. srv[q][a] = "absent" /\ handler[q][a] = "off"
        BY <4>1 DEF OnceInv
      <4>3. handler'[q] = handler[q]
        BY <2>1, <4>1, HandlersStep
      <4>4. QED
        BY <2>4, <4>1, <4>2, <4>3
    <3>2. CASE proc[q] = "up" /\ q # p
      <4>1. handler'[q][a] # "off" => handler[q][a] # "off"
        BY <2>1, <3>2, HandlersStep
      <4>2. QED
        BY <2>3, <2>4, <3>2, <4>1 DEF SocketOf, Registered
    <3>3. CASE q = p
      <4>1. Registered(p) = Addrs => Registered(p)' = Addrs
        <5>1. order'[p] # <<>>
              => \/ order'[p] = order[p]
                 \/ \E b \in Addrs : NewServer(p, b)
          BY <2>1, OrderStep
        <5>2. order'[p] = <<>> => order[p] = <<>>
          BY <2>1, <2>8, <3>3, NotEmptied
        <5>3. ASSUME NEW b \in Addrs, NewServer(p, b)
              PROVE  Registered(p) = Addrs => Registered(p)' = Addrs
          <6>1. order'[p] = Append(order[p], b) /\ order[p] \in Seq(Addrs)
            BY <5>3 DEF NewServer, TypeInv
          <6>2. Registered(p)' = Registered(p) \cup {b}
            BY <6>1 DEF Registered
          <6>3. QED
            BY <6>2
        <5>4. QED
          BY <5>1, <5>2, <5>3 DEF Registered
      <4>2. srv'[p][a] \notin {"absent", "new"} => Registered(p) = Addrs
        <5>1. srv[p][a] \notin {"absent", "new"} => Registered(p) = Addrs
          BY <2>3, <2>4 DEF SocketOf
        <5>2. ListenAndServe(p, a) => Registered(p) = Addrs
          BY <2>2 DEF ListenAndServe
        <5>3. QED
          BY <2>1, <5>1, <5>2, PlaceStep
      <4>3. handler'[p][a] # "off" => srv'[p][a] \notin {"absent", "new"}
        <5>1. handler[p][a] # "off" => srv[p][a] \notin {"absent", "new"}
          BY <2>3, <2>4 DEF SocketOf
        <5>2. HandlerReady(p, a) => srv[p][a] \notin {"absent", "new"}
          BY DEF HandlerReady
        <5>3. QED
          BY <2>1, <5>1, <5>2, PlaceStep
      <4>4. QED
        BY <3>3, <4>1, <4>2, <4>3
    <3>4. QED
      BY <3>1, <3>2, <3>3
  <2>9. QED
    BY <2>5, <2>6, <2>7, <2>8 DEF SocketOf
<1>3. QED
  BY <1>1, <1>2

\* SocketInv holds always.
LEMMA SocketTheorem == Spec => [](TypeInv /\ OnceInv /\ OrderInv /\ SocketInv)
<1>1. Init => SocketInv
  BY DEF Init, SocketInv, SocketOf
<1>2. TypeInv /\ OnceInv /\ OrderInv /\ SocketInv /\ [Next]_vars => SocketInv'
  BY SocketStep
<1>3. QED
  BY <1>1, <1>2, OrderTheorem, PTL DEF Spec

\* SocketMatchesAddress: through any number of restarts, a server gets from its
\* parent the socket of its own address or none, if main registers every server
\* before it serves; the order of the registrations may differ at each restart.
THEOREM SocketMatchesTheorem == Spec => []SocketMatchesAddress
<1>1. SocketInv => SocketMatchesAddress
  BY DEF SocketInv, SocketOf, SocketMatchesAddress
<1>2. QED
  BY <1>1, SocketTheorem, PTL

-----------------------------------------------------------------------------
(* Every socket is held by some process *)

\* The invariants about one process, under the assumption on its environment.
LocalInv == TypeInv /\ OnceInv /\ OrderInv /\ SocketInv

\* The places of a server that has no listener yet.
Waiting == {"absent", "new", "started"}

\* A server of p that waits for its listener has waited before, without one; it
\* only fails to listen in GetListener, and drains when it was told to.
LEMMA WaitStep ==
  ASSUME TypeInv, NEW p \in Procs, Step(p), NEW b \in Addrs
  PROVE  /\ srv'[p][b] \in Waiting => srv[p][b] \in Waiting /\ lis'[p][b] = lis[p][b]
         /\ srv'[p][b] \notin Waiting /\ srv[p][b] \in Waiting
              => \/ ListenAndServe(p, b) /\ srv'[p][b] = "started"
                 \/ GetListener(p, b)
         /\ srv'[p][b] = "failed" /\ srv[p][b] # "failed" => GetListener(p, b)
         /\ srv[p][b] = "failed" => srv'[p][b] = "failed"
         /\ srv'[p][b] = "unserved" /\ srv[p][b] # "unserved" => SignalNobody(p, b)
         /\ srv'[p][b] \in {"draining", "done"} =>
              \/ srv[p][b] \in {"draining", "done"}
              \/ HandleTerm(p, b)
         /\ srv[p][b] \in {"signalled", "running", "draining", "done"}
              => srv'[p][b] \in {"signalled", "running", "draining", "done"}
         /\ srv[p][b] \in {"draining", "done"} => srv'[p][b] \in {"draining", "done"}
<1>1. /\ srv \in [Procs -> [Addrs -> Places]]
      /\ lis \in [Procs -> [Addrs -> Sockets]]
  BY DEF TypeInv
<1> USE DEF Waiting
<1>2. CASE \E a \in Addrs : NewServer(p, a) \/ ListenAndServe(p, a)
  <2>1. PICK a \in Addrs : NewServer(p, a) \/ ListenAndServe(p, a)
    BY <1>2
  <2>2. /\ srv[p][a] \in {"absent", "new"} /\ lis' = lis
        /\ \E x \in {"new", "started"} : srv' = [srv EXCEPT ![p][a] = x]
    BY <2>1 DEF NewServer, ListenAndServe
  <2>3. QED
    BY <1>1, <2>2
<1>3. CASE \E a \in Addrs : GetListener(p, a)
  <2>1. PICK a \in Addrs : GetListener(p, a)
    BY <1>3
  <2>2. /\ srv[p][a] = "started"
        /\ \E x \in {"failed", "listening"} : srv' = [srv EXCEPT ![p][a] = x]
        /\ \E x : lis' = [lis EXCEPT ![p][a] = x]
    BY <2>1 DEF GetListener
  <2>3. QED
    BY <1>1, <2>1, <2>2
<1>4. CASE \E a \in Addrs : SignalNobody(p, a)
  <2>1. PICK a \in Addrs : SignalNobody(p, a)
    BY <1>4
  <2>2. /\ srv[p][a] = "listening" /\ lis' = lis
        /\ \E x \in {"signalled", "unserved"} : srv' = [srv EXCEPT ![p][a] = x]
    BY <2>1 DEF SignalNobody
  <2>3. QED
    BY <1>1, <2>1, <2>2
<1>5. CASE \E a \in Addrs : SignalParent(p, a) \/ Serve(p, a) \/ Drained(p, a)
  <2>1. PICK a \in Addrs : SignalParent(p, a) \/ Serve(p, a) \/ Drained(p, a)
    BY <1>5
  <2>2. /\ \/ /\ srv[p][a] \in {"signalled", "listening"}
              /\ \E x \in {"signalled", "running"} : srv' = [srv EXCEPT ![p][a] = x]
           \/ srv[p][a] = "draining" /\ srv' = [srv EXCEPT ![p][a] = "done"]
        /\ lis' = lis
    BY <2>1 DEF SignalParent, Serve, Drained
  <2>3. QED
    BY <1>1, <2>2
<1>6. CASE \E a \in Addrs : HandleTerm(p, a)
  <2>1. PICK a \in Addrs : HandleTerm(p, a)
    BY <1>6
  <2>2. /\ srv' = [srv EXCEPT ![p][a] = IF srv[p][a] = "running" THEN "draining" ELSE srv[p][a]]
        /\ lis' = lis
    BY <2>1 DEF HandleTerm
  <2>3. QED
    BY <1>1, <2>1, <2>2
<1>7. CASE \/ \E a \in Addrs : \/ HandlerReady(p, a) \/ HandlerLoops(p, a)
                              \/ ForkAgain(p, a) \/ ForkCrash(p, a) \/ Fork(p, a)
           \/ SendHup(p) \/ Exit(p)
  <2>1. srv' = srv /\ lis' = lis
    BY <1>7 DEF HandlerReady, HandlerLoops, ForkAgain, ForkCrash, Fork, SendHup, Exit
  <2>2. QED
    BY <2>1
<1>8. QED
  BY <1>2, <1>3, <1>4, <1>5, <1>6, <1>7 DEF Step, ServerStep, HandlerStep

\* A server of a child that inherited its socket finds it.
LEMMA FindsSocket ==
  ASSUME TypeInv, OrderInv, NEW p \in Procs, SocketOf(p), proc[p] = "up", IsChild(p),
         NEW a \in Addrs, NEW i \in DOMAIN extra[p], extra[p][i] = a
  PROVE  Inherited(p, Offset(p, a)) = a
<1>1. /\ order[p] \in Seq(Addrs) /\ sockOrder[p] \in Seq(Sockets) /\ extra[p] \in Seq(Sockets)
      /\ a # NoSocket
  BY RestartAssumption DEF TypeInv, RestartAssumption
<1>2. CASE sockOrder[p] # <<>>
  <2>1. sockOrder[p][i] = a /\ i \in DOMAIN sockOrder[p]
    BY <1>1, <1>2 DEF SocketOf
  <2>2. /\ Offset(p, a) + 1 \in DOMAIN sockOrder[p]
        /\ sockOrder[p][Offset(p, a) + 1] = a
    BY <1>2, InheritsOwn DEF SocketOf
  <2>3. Offset(p, a) + 1 = i
    BY <1>2, <2>1, <2>2 DEF SocketOf
  <2>4. QED
    BY <2>3 DEF Inherited
<1>3. CASE sockOrder[p] = <<>>
  <2>1. i = 1 /\ OneAddress
    BY <1>3 DEF SocketOf
  <2>2. \A x, y \in DOMAIN order[p] : x = y
    <3>1. \A x, y \in DOMAIN order[p] : order[p][x] = order[p][y]
      BY <1>1, <2>1 DEF OneAddress
    <3>2. QED
      BY <3>1 DEF OrderInv
  <2>3. Len(order[p]) \in Nat /\ (1 < Len(order[p]) => 1 \in DOMAIN order[p] /\ 2 \in DOMAIN order[p])
    BY <1>1
  <2>4. Len(order[p]) <= 1
    BY <2>2, <2>3
  <2>5. IndexOr0(order[p], a) = 0
    BY <1>1, <2>3, <2>4, IndexFinds
  <2>6. Offset(p, a) = 0
    BY <1>3, <2>5 DEF Offset
  <2>7. QED
    BY <2>1, <2>6 DEF Inherited
<1>4. QED
  BY <1>2, <1>3

\* Where SIGHUP comes to servers that listen, fork does not panic.
LEMMA NoCrash ==
  ASSUME LocalInv, HandInv, Settled, NEW p \in Procs, NEW a \in Addrs,
         proc[p] = "up", handler[p][a] = "hup"
  PROVE  Registered(p) = Addrs /\ ~ForkPanics(p)
<1>1. SocketOf(p) /\ HandOf(p)
  BY DEF LocalInv, SocketInv, HandInv, Settled
<1>2. Registered(p) = Addrs
  BY <1>1 DEF SocketOf
<1>3. \A b \in Addrs : lis[p][b] # NoSocket
  BY <1>1 DEF HandOf
<1>4. \A b \in Addrs : Offset(p, b) \in Nat /\ Offset(p, b) < Len(order[p])
  BY <1>2, OffsetInFiles DEF LocalInv
<1>5. Len(order[p]) \in Nat
  BY DEF LocalInv, TypeInv
<1>6. QED
  BY <1>2, <1>3, <1>4, <1>5 DEF ForkPanics

\* A handler of p is given SIGTERM by a child only.
LEMMA OwnTerm ==
  ASSUME TypeInv, NEW p \in Procs, Step(p), NEW a \in Addrs, handler'[p][a] = "term"
  PROVE  handler[p][a] = "term"
<1>1. handler \in [Procs -> [Addrs -> Signals]]
  BY DEF TypeInv
<1>2. CASE \E b \in Addrs : SignalParent(p, b)
  <2>1. handler'[p] = handler[p]
    BY <1>1, <1>2, ProcsAreInts DEF SignalParent, Deliver
  <2>2. QED
    BY <2>1
<1>3. CASE \E b \in Addrs : (ServerStep(p, b) /\ ~SignalParent(p, b)) \/ HandlerStep(p, b)
  <2>1. PICK b \in Addrs : (ServerStep(p, b) /\ ~SignalParent(p, b)) \/ HandlerStep(p, b)
    BY <1>3
  <2>2. \/ handler' = handler
        \/ \E h \in {"post", "idle"} : handler' = [handler EXCEPT ![p][b] = h]
    BY <2>1 DEF ServerStep, NewServer, ListenAndServe, HandlerReady, GetListener,
                SignalNobody, Serve, Drained,
                HandlerStep, HandleTerm, HandlerLoops, ForkAgain, ForkCrash, Fork
  <2>3. QED
    BY <1>1, <2>2
<1>4. CASE SendHup(p) \/ Exit(p)
  BY <1>1, <1>4 DEF SendHup, Exit, Deliver
<1>5. QED
  BY <1>2, <1>3, <1>4 DEF Step

\* A process is told to stop, and ends of itself after that, when it has an address.
LEMMA OverOwn ==
  ASSUME LocalInv, HandInv, Settled, NEW p \in Procs, Step(p), Over(p)', NEW a \in Addrs
  PROVE  Over(p)
<1>1. TypeInv /\ OnceInv /\ HandOf(p)
  BY DEF LocalInv, HandInv
<1>2. proc[p] = "up"
  BY <1>1, Others
<1>3. ASSUME proc'[p] = "gone", NEW d \in Addrs, srv'[p][d] # "failed"
      PROVE  Over(p)
  <2>1. CASE Exit(p)
    <3>1. \A b \in Addrs : srv[p][b] \in {"done", "unserved", "failed"}
      BY <1>1, <1>2, <2>1 DEF Exit
    <3>2. CASE srv[p][d] = "unserved"
      <4>1. IsChild(p) /\ proc[p - 1] = "gone"
        BY <1>1, <3>2 DEF HandOf
      <4>2. p - 1 \in Procs /\ (p - 1) + 1 = p
        BY <4>1, ProcsAreInts
      <4>3. HandOf(p - 1) /\ forked[p - 1]
        BY <1>1, <1>2, <4>2 DEF HandInv, OnceInv
      <4>4. Over(p - 1)
        BY <4>1, <4>3 DEF HandOf, Over
      <4>5. Told((p - 1) + 1)
        BY <4>3, <4>4 DEF HandOf
      <4>6. Told(p)
        BY <4>2, <4>5
      <4>7. QED
        BY <3>1, <4>6 DEF Told, Over
    <3>3. srv[p][d] # "failed"
      BY <1>3, <2>1 DEF Exit
    <3>4. QED
      BY <3>1, <3>2, <3>3 DEF Over
  <2>2. CASE ~Exit(p)
    <3>1. \E b \in Addrs : ForkCrash(p, b)
      <4>1. CASE \E b \in Addrs : SignalParent(p, b)
        BY <1>1, <1>2, <1>3, <4>1, ProcsAreInts DEF SignalParent, TypeInv
      <4>2. CASE \E b \in Addrs : Fork(p, b)
        <5>1. proc' = proc \/ proc' = [proc EXCEPT ![p + 1] = "up"]
          BY <4>2 DEF Fork
        <5>2. QED
          BY <1>1, <1>2, <1>3, <5>1, ProcsAreInts DEF TypeInv
      <4>3. QED
        BY <1>2, <1>3, <2>2, <4>1, <4>2 DEF Step, ServerStep, HandlerStep, NewServer, ListenAndServe,
           HandlerReady, GetListener, SignalNobody, Serve, Drained, HandleTerm, HandlerLoops,
           ForkAgain, SendHup
    <3>2. QED
      BY <3>1, NoCrash DEF ForkCrash
  <2>3. QED
    BY <2>1, <2>2
<1>4. ASSUME NEW b \in Addrs, srv'[p][b] \in {"draining", "done"}
      PROVE  Over(p)
  BY <1>1, <1>4, WaitStep DEF Over, HandleTerm
<1>5. ASSUME NEW b \in Addrs, handler'[p][b] = "term"
      PROVE  handler[p][b] = "term"
  BY <1>1, <1>5, OwnTerm
<1>6. QED
  BY <1>3, <1>4, <1>5 DEF Over

\* Another process is told to stop by a server of its child.
LEMMA OverOther ==
  ASSUME LocalInv, NEW p \in Procs, Step(p), NEW q \in Procs \ {p}, Over(q)', ~Over(q)
  PROVE  q = p - 1 /\ \E b \in Addrs : SignalParent(p, b)
<1>1. TypeInv /\ srv'[q] = srv[q]
  BY Others DEF LocalInv
<1>2. proc \in [Procs -> {"none", "up", "gone"}]
  BY <1>1 DEF TypeInv
<1>3. CASE proc'[q] = "gone" /\ \E a \in Addrs : srv'[q][a] # "failed"
  <2>1. proc[q] # "gone"
    BY <1>1, <1>3 DEF Over
  <2>2. QED
    BY <1>1, <1>2, <1>3, <2>1, ProcStep
<1>4. CASE \E b \in Addrs : handler'[q][b] = "term"
  BY <1>1, <1>4, HandlersStep DEF Over
<1>5. QED
  BY <1>1, <1>3, <1>4 DEF Over

\* A process that has ended stays so, and a signal that was sent stays sent.
LEMMA Stays ==
  ASSUME LocalInv, NEW p \in Procs, Step(p), NEW q \in Procs
  PROVE  /\ proc[q] = "gone" => proc'[q] = "gone"
         /\ Told(q) => Told(q)'
<1>1. TypeInv /\ OnceInv
  BY DEF LocalInv
<1>2. proc \in [Procs -> {"none", "up", "gone"}]
  BY <1>1 DEF TypeInv
<1>3. proc[q] = "gone" => proc'[q] = "gone"
  <2>1. proc'[q] \in {"none", "up", "gone"} /\ (proc'[q] = "none" => proc[q] = "none")
    BY <1>1, <1>2, ProcStep
  <2>2. proc[q] = "gone" => proc'[q] # "up"
    BY <1>1, StartStep
  <2>3. QED
    BY <2>1, <2>2
<1>4. Told(q) => Told(q)'
  <2>1. CASE q = p
    BY <1>1, <2>1, WaitStep DEF Told
  <2>2. CASE q # p
    BY <1>1, <2>2, Others DEF Told
  <2>3. QED
    BY <2>1, <2>2
<1>5. QED
  BY <1>3, <1>4

\* What a process that is up inherited stays, unless it ends.
LEMMA ExtraStays ==
  ASSUME LocalInv, NEW p \in Procs, Step(p), NEW q \in Procs, proc[q] = "up", proc'[q] = "up"
  PROVE  extra'[q] = extra[q] /\ sockOrder'[q] = sockOrder[q]
<1>1. TypeInv /\ OnceInv
  BY DEF LocalInv
<1>2. CASE q = p /\ Exit(p)
  BY <1>1, <1>2 DEF Exit, TypeInv
<1>3. CASE q = p + 1 /\ ~forked[p]
  BY <1>1, <1>3 DEF OnceInv
<1>4. QED
  BY <1>1, <1>2, <1>3, InheritStep

\* A process other than the one that moves holds what it held, or is killed.
LEMMA HoldsOther ==
  ASSUME LocalInv, NEW p \in Procs, Step(p), NEW q \in Procs \ {p}, NEW a \in Addrs, Holds(q, a)
  PROVE  \/ Holds(q, a)'
         \/ q = p - 1 /\ \E b \in Addrs : SignalParent(p, b)
<1>1. TypeInv /\ srv'[q] = srv[q] /\ lis'[q] = lis[q] /\ proc[q] = "up"
  BY Others DEF LocalInv, Holds
<1>2. CASE proc'[q] = "up"
  <2>1. extra'[q] = extra[q]
    BY <1>1, <1>2, ExtraStays
  <2>2. QED
    BY <1>1, <1>2, <2>1 DEF Holds
<1>3. CASE proc'[q] # "up"
  <2>1. proc \in [Procs -> {"none", "up", "gone"}]
    BY <1>1 DEF TypeInv
  <2>2. QED
    BY <1>1, <1>3, <2>1, ProcStep
<1>4. QED
  BY <1>2, <1>3

\* A server listens on its own socket; only the first process can fail to.
LEMMA ListensOrFails ==
  ASSUME LocalInv, HandInv, Settled, NEW p \in Procs, NEW a \in Addrs, GetListener(p, a)
  PROVE  \/ srv'[p][a] = "listening" /\ lis'[p][a] = a
         \/ srv'[p][a] = "failed" /\ ~IsChild(p) /\ lis'[p][a] = NoSocket
<1>1. TypeInv /\ OnceInv /\ OrderInv /\ SocketOf(p) /\ HandOf(p)
  BY DEF LocalInv, HandInv, SocketInv, Settled
<1>2. srv[p][a] = "started" /\ Equipped(p) /\ proc[p] = "up"
  BY <1>1 DEF GetListener, HandOf
<1>3. IsChild(p) => Inherited(p, Offset(p, a)) = a
  BY <1>1, <1>2, FindsSocket DEF Equipped
<1>4. PICK s \in {a, NoSocket} :
        /\ lis' = [lis EXCEPT ![p][a] = s]
        /\ srv' = [srv EXCEPT ![p][a] = IF s = NoSocket THEN "failed" ELSE "listening"]
        /\ IsChild(p) => s = a
  BY <1>3 DEF GetListener
<1>5. lis'[p][a] = s /\ srv'[p][a] = IF s = NoSocket THEN "failed" ELSE "listening"
  BY <1>1, <1>4 DEF TypeInv
<1>6. a # NoSocket
  BY RestartAssumption DEF RestartAssumption
<1>7. QED
  BY <1>4, <1>5, <1>6

\* A server that fails, or has, is the first process's and has no listener; one
\* that had a listener does not fail.
LEMMA FailsFirst ==
  ASSUME LocalInv, HandInv, Settled, NEW p \in Procs, Step(p), NEW q \in Procs, NEW a \in Addrs,
         srv'[q][a] = "failed"
  PROVE  /\ ~IsChild(q) /\ lis'[q][a] = NoSocket
         /\ srv[q][a] # "failed" => lis[q][a] = NoSocket
<1>1. TypeInv /\ OnceInv /\ HandOf(q)
  BY DEF LocalInv, HandInv
<1>2. CASE q # p
  <2>1. srv'[q] = srv[q] /\ lis'[q] = lis[q]
    BY <1>1, <1>2, Others
  <2>2. QED
    BY <1>1, <2>1 DEF HandOf
<1>3. CASE q = p /\ GetListener(p, a)
  <2>1. Equipped(p) /\ srv[p][a] = "started"
    BY <1>1, <1>3 DEF HandOf, GetListener
  <2>2. QED
    BY <1>3, <2>1, ListensOrFails DEF Equipped
<1>4. CASE q = p /\ ~GetListener(p, a)
  <2>1. srv[p][a] = "failed" /\ lis'[p][a] = lis[p][a]
    BY <1>1, <1>4, WaitStep, ListenerStep
  <2>2. QED
    BY <1>1, <1>4, <2>1 DEF HandOf
<1>5. QED
  BY <1>2, <1>3, <1>4

\* A process that has forked has all its listeners.
LEMMA ForkedStep ==
  ASSUME LocalInv, HandInv, Settled, NEW p \in Procs, Step(p), NEW q \in Procs, forked'[q],
         NEW a \in Addrs
  PROVE  lis'[q][a] # NoSocket
<1>1. TypeInv /\ OnceInv /\ HandOf(q)
  BY DEF LocalInv, HandInv
<1>2. lis[q][a] # NoSocket
  <2>1. CASE forked[q]
    BY <1>1, <2>1 DEF HandOf
  <2>2. CASE ~forked[q]
    <3>1. q = p
      BY <1>1, <2>2, Others
    <3>2. PICK b \in Addrs : Fork(p, b)
      BY <1>1, <2>2, <3>1 DEF Step, ServerStep, HandlerStep, NewServer,
         ListenAndServe, HandlerReady, GetListener, SignalParent, SignalNobody, Serve,
         Drained, HandleTerm, HandlerLoops, ForkAgain, ForkCrash, SendHup, Exit
    <3>3. handler[p][b] = "hup" /\ proc[p] = "up"
      BY <3>2 DEF Fork
    <3>4. QED
      BY <1>1, <3>1, <3>3 DEF HandOf
  <2>3. QED
    BY <2>1, <2>2
<1>3. CASE q = p /\ GetListener(p, a)
  BY <1>1, <1>2, <1>3 DEF GetListener, HandOf, Equipped
<1>4. CASE q = p /\ ~GetListener(p, a)
  BY <1>1, <1>2, <1>4, ListenerStep
<1>5. CASE q # p
  BY <1>1, <1>2, <1>5, Others
<1>6. QED
  BY <1>3, <1>4, <1>5

\* A step keeps a process that is up, or comes up, equipped.
LEMMA EquippedStep ==
  ASSUME LocalInv, HandInv, Settled, NEW p \in Procs, Step(p),
         NEW q \in Procs, proc'[q] = "up"
  PROVE  Equipped(q)'
<1>1. TypeInv /\ OnceInv /\ OrderInv /\ SocketOf(p) /\ SocketOf(q) /\ HandOf(p) /\ HandOf(q)
  BY DEF LocalInv, HandInv, SocketInv, Settled
<1>2. \A r \in Procs : r \in Int
  BY ProcsAreInts
<1>3. CASE proc[q] = "up" /\ q # p
  <2>1. srv'[q] = srv[q] /\ lis'[q] = lis[q] /\ extra'[q] = extra[q]
    BY <1>1, <1>3, Others, ExtraStays
  <2>2. QED
    BY <1>1, <1>3, <2>1 DEF HandOf, Equipped
<1>4. CASE proc[q] # "up"
  <2>1. /\ q = p + 1 /\ q # p /\ proc[q] = "none"
        /\ extra'[q] \in Files(p) /\ sockOrder'[q] \in OrderArgs(p)
        /\ \E a \in Addrs : Fork(p, a)
    BY <1>1, <1>4, StartStep
  <2>2. PICK b \in Addrs : Fork(p, b)
    BY <2>1
  <2>3. \A a \in Addrs : srv[p][a] \notin {"draining", "done"}
    <3>1. ~Over(p)
      <4>1. \A a \in Addrs : srv[p + 1][a] = "absent"
        BY <1>1, <2>1 DEF OnceInv
      <4>2. ~Told(p + 1)
        BY <4>1 DEF Told
      <4>3. QED
        BY <1>1, <4>2 DEF HandOf
    <3>2. QED
      BY <3>1 DEF Over
  <2>4. \A a \in Addrs : lis[p][a] = a
    <3>1. proc[p] = "up" /\ handler[p][b] = "hup"
      BY <2>2 DEF Fork
    <3>2. QED
      BY <1>1, <3>1 DEF HandOf, SocketOf
  <2>5. \A a \in Addrs : FileOf(p, a) = a
    BY <2>3, <2>4 DEF FileOf
  <2>6. Registered(p) = Addrs
    BY <1>1, <2>2, ForkRegistered
  <2>7. \A a \in Addrs : \E i \in DOMAIN extra'[q] : extra'[q][i] = a
    BY <1>1, <2>1, <2>5, <2>6, HandedOver
  <2>8. \A a \in Addrs : srv'[q][a] = "absent" /\ lis'[q][a] = NoSocket
    BY <1>1, <2>1, Others DEF OnceInv
  <2>9. QED
    BY <2>7, <2>8 DEF Equipped
<1>5. CASE q = p
  <2>1. proc[p] = "up" /\ Equipped(p)
    BY <1>1, Others DEF HandOf
  <2>2. extra'[p] = extra[p]
    BY <1>5, <2>1, ExtraStays
  <2>3. SUFFICES ASSUME NEW a \in Addrs
                 PROVE  /\ srv'[p][a] \in Waiting =>
                             /\ lis'[p][a] = NoSocket
                             /\ IsChild(p) => \E i \in DOMAIN extra[p] : extra[p][i] = a
                        /\ srv'[p][a] \notin Waiting \cup {"failed"} => lis'[p][a] = a
    BY <1>5, <2>2 DEF Equipped, Waiting
  <2>4. CASE GetListener(p, a)
    <3>1. \/ srv'[p][a] = "listening" /\ lis'[p][a] = a
          \/ srv'[p][a] = "failed"
      BY <1>1, <2>4, ListensOrFails
    <3>2. QED
      BY <3>1 DEF Waiting
  <2>5. CASE ~GetListener(p, a)
    <3>1. lis'[p][a] = lis[p][a]
      BY <1>1, <2>5, ListenerStep
    <3>2. srv'[p][a] \in Waiting <=> srv[p][a] \in Waiting
      BY <1>1, <2>5, WaitStep DEF Waiting
    <3>3. srv'[p][a] = "failed" <=> srv[p][a] = "failed"
      BY <1>1, <2>5, WaitStep
    <3>4. QED
      BY <2>1, <3>1, <3>2, <3>3 DEF Equipped, Waiting
  <2>6. QED
    BY <2>4, <2>5
<1>6. QED
  BY <1>3, <1>4, <1>5

\* The places of servers.
LEMMA ServerPlaces ==
  ASSUME TypeInv, NEW p \in Procs, Step(p)
  PROVE  srv' \in [Procs -> [Addrs -> Places]] /\ proc' \in [Procs -> {"none", "up", "gone"}]
<1>1. CASE \E a \in Addrs : ServerStep(p, a) \/ HandlerStep(p, a)
  BY <1>1, ServerTyped, HandlerTyped DEF TypeInv
<1>2. CASE SendHup(p) \/ Exit(p)
  BY <1>2 DEF SendHup, Exit, TypeInv
<1>3. QED
  BY <1>1, <1>2 DEF Step

\* The process that moves holds what it held, or was told to stop.
LEMMA HoldsOwn ==
  ASSUME LocalInv, HandInv, Settled, NEW p \in Procs, Step(p), NEW a \in Addrs, Holds(p, a)
  PROVE  Holds(p, a)' \/ Over(p)
<1>1. TypeInv /\ SocketOf(p) /\ HandOf(p) /\ proc[p] = "up"
  BY DEF LocalInv, HandInv, SocketInv, Settled, Holds
<1>2. CASE proc'[p] # "up"
  <2>1. proc'[p] = "gone"
    BY <1>1, <1>2, ProcStep DEF TypeInv
  <2>2. PICK b \in Addrs : srv[p][b] # "failed"
    BY DEF Holds
  <2>3. srv'[p][b] # "failed"
    BY <1>1, <1>2, <2>2, WaitStep DEF GetListener
  <2>4. Over(p)'
    BY <2>1, <2>3 DEF Over
  <2>5. QED
    BY <2>4, OverOwn
<1>3. CASE proc'[p] = "up" /\ srv'[p][a] \in {"draining", "done"}
  <2>1. Over(p)'
    BY <1>3 DEF Over
  <2>2. QED
    BY <2>1, OverOwn
<1>4. CASE proc'[p] = "up" /\ srv'[p][a] \notin {"draining", "done"}
  <2>1. Equipped(p) /\ Equipped(p)' /\ extra'[p] = extra[p]
    BY <1>1, <1>4, EquippedStep, ExtraStays DEF HandOf
  <2>2. srv' \in [Procs -> [Addrs -> Places]]
    BY <1>1, ServerPlaces
  <2>3. CASE srv'[p][a] \in Waiting
    <3>1. srv[p][a] \in Waiting
      BY <1>1, <2>3, WaitStep
    <3>2. ~\E b \in Addrs : lis[p][b] = a
      <4>1. lis[p][a] = NoSocket /\ NoSocket \notin Addrs
        BY <2>1, <3>1, RestartAssumption DEF Equipped, Waiting, RestartAssumption
      <4>2. QED
        BY <1>1, <4>1 DEF SocketOf
    <3>3. \E i \in DOMAIN extra[p] : extra[p][i] = a
      BY <3>2 DEF Holds
    <3>4. QED
      BY <1>4, <2>1, <2>3, <3>3 DEF Holds, Waiting
  <2>4. CASE srv'[p][a] \notin Waiting
    <3>1. srv[p][a] # "failed" /\ (lis[p][a] = NoSocket => IsChild(p))
      <4>1. \A b \in Addrs : lis[p][b] = a => b = a
        BY <1>1, RestartAssumption DEF SocketOf, RestartAssumption
      <4>2. a # NoSocket
        BY RestartAssumption DEF RestartAssumption
      <4>3. QED
        BY <1>1, <4>1, <4>2 DEF HandOf, Holds
    <3>2. srv'[p][a] # "failed"
      BY <3>1, FailsFirst
    <3>3. lis'[p][a] = a
      BY <2>1, <2>4, <3>2 DEF Equipped, Waiting
    <3>4. srv'[p][a] \in {"listening", "signalled", "unserved", "running"}
      BY <1>4, <2>2, <2>4, <3>2 DEF Places, Waiting
    <3>5. QED
      BY <1>4, <3>3, <3>4 DEF Holds
  <2>5. QED
    BY <2>3, <2>4
<1>5. QED
  BY <1>2, <1>3, <1>4

\* SIGHUP comes from the operator.
LEMMA HupOnlySent ==
  ASSUME TypeInv, NEW p \in Procs, Step(p), NEW a \in Addrs,
         handler'[p][a] = "hup", handler[p][a] # "hup"
  PROVE  SendHup(p)
<1>1. handler \in [Procs -> [Addrs -> Signals]]
  BY DEF TypeInv
<1>2. CASE \E b \in Addrs : SignalParent(p, b)
  <2>1. handler'[p] = handler[p]
    BY <1>1, <1>2, ProcsAreInts DEF SignalParent, Deliver
  <2>2. QED
    BY <2>1
<1>3. CASE \E b \in Addrs : (ServerStep(p, b) /\ ~SignalParent(p, b)) \/ HandlerStep(p, b)
  <2>1. PICK b \in Addrs : (ServerStep(p, b) /\ ~SignalParent(p, b)) \/ HandlerStep(p, b)
    BY <1>3
  <2>2. \/ handler' = handler
        \/ \E h \in {"post", "idle"} : handler' = [handler EXCEPT ![p][b] = h]
    BY <2>1 DEF ServerStep, NewServer, ListenAndServe, HandlerReady, GetListener,
                SignalNobody, Serve, Drained,
                HandlerStep, HandleTerm, HandlerLoops, ForkAgain, ForkCrash, Fork
  <2>3. QED
    BY <1>1, <2>2
<1>4. CASE Exit(p)
  BY <1>1, <1>4 DEF Exit
<1>5. QED
  BY <1>2, <1>3, <1>4 DEF Step

\* A child that signals its parent, and was not told to stop itself, holds every
\* socket afterwards.
LEMMA SignalHolds ==
  ASSUME LocalInv, HandInv, Settled, NEW p \in Procs, Step(p), ~Over(p),
         NEW b \in Addrs, SignalParent(p, b), NEW a \in Addrs
  PROVE  Holds(p, a)'
<1>1. TypeInv /\ proc[p] = "up" /\ IsChild(p)
  BY DEF LocalInv, SignalParent
<1>2. proc'[p] = "up"
  <2>1. proc' = proc \/ proc' = [proc EXCEPT ![p - 1] = "gone"]
    BY DEF SignalParent
  <2>2. QED
    BY <1>1, <2>1, ProcsAreInts DEF TypeInv
<1>3. Equipped(p)'
  BY <1>2, EquippedStep
<1>4. ~Over(p)'
  BY OverOwn
<1>5. srv'[p][a] \in Places /\ srv'[p][a] \notin {"draining", "done"}
  BY <1>1, <1>4, ServerPlaces DEF Over
<1>6. CASE srv'[p][a] \in Waiting
  BY <1>1, <1>2, <1>3, <1>6 DEF Equipped, Holds, Waiting
<1>7. CASE srv'[p][a] \notin Waiting
  <2>a. srv'[p][a] # "failed"
    BY <1>1, FailsFirst
  <2>1. lis'[p][a] = a /\ srv'[p][a] # "failed"
    BY <1>3, <1>7, <2>a DEF Equipped, Waiting
  <2>2. srv'[p][a] \in {"listening", "signalled", "unserved", "running"}
    BY <1>5, <1>7, <2>1 DEF Places, Waiting
  <2>3. QED
    BY <1>2, <2>1, <2>2 DEF Holds
<1>8. QED
  BY <1>6, <1>7

\* What is younger than a process that was told to stop is not disturbed by it.
LEMMA Survive ==
  ASSUME LocalInv, HandInv, Settled, NEW p \in Procs, Step(p), Over(p), NEW a \in Addrs
  PROVE  \E r \in Procs : r > p /\ Holds(r, a)'
<1>1. PICK r \in Procs : r > p /\ Holds(r, a)
  BY DEF HandInv, HandOf
<1>2. p \in Int /\ r \in Int
  BY ProcsAreInts
<1>3. r # p /\ r # p - 1
  BY <1>1, <1>2
<1>4. Holds(r, a)'
  BY <1>1, <1>3, HoldsOther
<1>5. QED
  BY <1>1, <1>4

\* A step that would end the holding of a socket by r leaves it with a younger
\* process.
LEMMA Younger ==
  ASSUME LocalInv, HandInv, Settled, NEW p \in Procs, Step(p), NEW a \in Addrs,
         NEW r \in Procs, Holds(r, a)
  PROVE  \E s \in Procs : s >= r /\ Holds(s, a)'
<1>1. p \in Int /\ r \in Int /\ \A s \in Procs : s \in Int
  BY ProcsAreInts
<1>2. CASE Over(p) /\ r <= p
  BY <1>1, <1>2, Survive
<1>3. CASE r = p
  BY <1>1, <1>2, <1>3, HoldsOwn
<1>4. CASE r # p
  <2>1. CASE Holds(r, a)'
    BY <1>1, <2>1
  <2>2. CASE r = p - 1 /\ \E b \in Addrs : SignalParent(p, b)
    <3>1. ~Over(p) => Holds(p, a)'
      BY <2>2, SignalHolds
    <3>2. r <= p
      BY <1>1, <2>2
    <3>3. QED
      BY <1>2, <3>1, <3>2
  <2>3. QED
    BY <1>4, <2>1, <2>2, HoldsOther
<1>5. QED
  BY <1>3, <1>4

\* A step keeps a server that SIGHUP has reached listening.
LEMMA HupStep ==
  ASSUME LocalInv, HandInv, Settled, NEW p \in Procs, Step(p), NEW q \in Procs,
         proc'[q] = "up", NEW a \in Addrs, handler'[q][a] = "hup", NEW b \in Addrs
  PROVE  lis'[q][b] # NoSocket
<1>1. TypeInv /\ OnceInv /\ SocketOf(q) /\ HandOf(q)
  BY DEF LocalInv, HandInv, SocketInv, Settled
<1>2. handler \in [Procs -> [Addrs -> Signals]]
  BY <1>1 DEF TypeInv
<1>3. CASE proc[q] # "up"
  <2>1. q # p /\ proc[q] = "none" /\ q # p - 1
    <3>1. q = p + 1 /\ q # p /\ proc[q] = "none"
      BY <1>1, <1>3, StartStep
    <3>2. QED
      BY <3>1, ProcsAreInts
  <2>2. handler'[q] = handler[q]
    BY <1>1, <2>1, HandlersStep
  <2>3. QED
    BY <1>1, <2>1, <2>2 DEF OnceInv
<1>4. CASE proc[q] = "up" /\ handler[q][a] = "hup"
  <2>1. lis[q][b] # NoSocket
    BY <1>1, <1>4 DEF HandOf
  <2>2. CASE q = p
    <3>1. ~GetListener(p, b)
      BY <1>1, <1>4, <2>1, <2>2 DEF GetListener, HandOf, Equipped
    <3>2. QED
      BY <1>1, <2>1, <2>2, <3>1, ListenerStep
  <2>3. CASE q # p
    BY <1>1, <2>1, <2>3, Others
  <2>4. QED
    BY <2>2, <2>3
<1>5. CASE proc[q] = "up" /\ handler[q][a] # "hup"
  <2>1. q = p
    BY <1>1, <1>5, HandlersStep
  <2>2. SendHup(p)
    BY <1>1, <1>5, <2>1, HupOnlySent
  <2>3. handler[p][a] = "idle"
    BY <1>2, <1>5, <2>1, <2>2 DEF SendHup, Deliver
  <2>4. Registered(p) = Addrs
    BY <1>1, <1>5, <2>1, <2>3 DEF SocketOf
  <2>5. QED
    BY <2>1, <2>2, <2>4 DEF SendHup, Settled
<1>6. QED
  BY <1>3, <1>4, <1>5

\* A step keeps every process equipped, and every socket held.
LEMMA HandStep ==
  ASSUME LocalInv, HandInv, [Next]_vars
  PROVE  HandInv'
<1>1. CASE UNCHANGED vars
  BY <1>1 DEF vars, HandInv, HandOf, Settled, Equipped, Over, Told, Holds
<1>2. CASE Next
  <2>1. PICK p \in Procs : Step(p) /\ env' = env
    BY <1>2, NextSteps
  <2>2. SUFFICES ASSUME Settled, NEW q \in Procs
                 PROVE  HandOf(q)'
    BY <2>1 DEF HandInv, Settled
  <2>3. TypeInv /\ HandOf(q) /\ HandOf(p)
    BY <2>2 DEF LocalInv, HandInv
  <2>4. p \in Int /\ q \in Int /\ \A s \in Procs : s \in Int
    BY ProcsAreInts
  <2>5. proc'[q] = "up" => Equipped(q)'
    BY <2>1, <2>2, EquippedStep
  <2>6. proc'[q] = "up" => \A a, b \in Addrs : handler'[q][a] = "hup" => lis'[q][b] # NoSocket
    BY <2>1, <2>2, HupStep
  <2>c. ~IsChild(q) => extra'[q] = <<>>
    <3>1. ~IsChild(q) => q # p + 1
      BY <2>4, ProcsAreInts DEF IsChild, Procs
    <3>2. QED
      BY <2>1, <2>3, <3>1, InheritStep DEF HandOf
  <2>a. forked'[q] => \A a \in Addrs : lis'[q][a] # NoSocket
    BY <2>1, <2>2, ForkedStep
  <2>b. \A a \in Addrs : srv'[q][a] = "failed" => ~IsChild(q) /\ lis'[q][a] = NoSocket
    BY <2>1, <2>2, FailsFirst
  <2>7. ASSUME NEW a \in Addrs, srv'[q][a] = "unserved"
        PROVE  IsChild(q) /\ proc'[q - 1] = "gone"
    <3>1. IsChild(q) /\ proc[q - 1] = "gone"
      <4>1. CASE srv[q][a] = "unserved"
        BY <2>3, <4>1 DEF HandOf
      <4>2. CASE srv[q][a] # "unserved"
        <5>1. q = p
          BY <2>1, <2>3, <2>7, <4>2, Others
        <5>2. SignalNobody(p, a)
          BY <2>1, <2>3, <2>7, <4>2, <5>1, WaitStep
        <5>3. QED
          BY <5>1, <5>2 DEF SignalNobody
      <4>3. QED
        BY <4>1, <4>2
    <3>2. q - 1 \in Procs
      BY <3>1, ProcsAreInts
    <3>3. QED
      BY <2>1, <3>1, <3>2, Stays
  <2>8. ASSUME Over(q)', NEW a \in Addrs
        PROVE  q + 1 \in Procs /\ Told(q + 1)' /\ \E r \in Procs : r > q /\ Holds(r, a)'
    <3>1. CASE Over(q)
      <4>1. q + 1 \in Procs /\ Told(q + 1) /\ \E r \in Procs : r > q /\ Holds(r, a)
        BY <2>3, <2>8, <3>1 DEF HandOf
      <4>2. PICK r \in Procs : r > q /\ Holds(r, a)
        BY <4>1
      <4>3. PICK s \in Procs : s >= r /\ Holds(s, a)'
        BY <2>1, <2>2, <2>8, <4>2, Younger
      <4>4. s > q
        BY <2>4, <4>2, <4>3
      <4>5. Told(q + 1)'
        BY <2>1, <4>1, Stays
      <4>6. QED
        BY <4>1, <4>3, <4>4, <4>5
    <3>2. CASE ~Over(q)
      <4>1. q # p
        BY <2>1, <2>2, <2>8, <3>2, OverOwn
      <4>2. q = p - 1 /\ \E b \in Addrs : SignalParent(p, b)
        BY <2>1, <2>8, <3>2, <4>1, OverOther
      <4>3. PICK b \in Addrs : SignalParent(p, b)
        BY <4>2
      <4>4. q + 1 = p /\ p > q
        BY <2>4, <4>2
      <4>5. srv'[p][b] = "signalled"
        BY <2>3, <4>3 DEF SignalParent, TypeInv
      <4>6. Told(q + 1)'
        BY <4>4, <4>5 DEF Told
      <4>7. CASE Over(p)
        <5>1. PICK r \in Procs : r > p /\ Holds(r, a)'
          BY <2>1, <2>2, <2>8, <4>7, Survive
        <5>2. r > q
          BY <2>4, <4>4, <5>1
        <5>3. QED
          BY <4>4, <4>6, <5>1, <5>2
      <4>8. CASE ~Over(p)
        <5>1. Holds(p, a)'
          BY <2>1, <2>2, <2>8, <4>3, <4>8, SignalHolds
        <5>2. QED
          BY <4>4, <4>6, <5>1
      <4>9. QED
        BY <4>7, <4>8
    <3>3. QED
      BY <3>1, <3>2
  <2>9. QED
    BY <2>5, <2>6, <2>7, <2>8, <2>a, <2>b, <2>c DEF HandOf
<1>3. QED
  BY <1>1, <1>2

\* HandInv holds always, and with it the invariants it rests on.
LEMMA HandTheorem == Spec => [](LocalInv /\ HandInv)
<1>1. Init => HandInv
  <2> SUFFICES ASSUME Init, NEW p \in Procs
               PROVE  HandOf(p)
    BY DEF HandInv
  <2>1. ~Over(p)
    BY DEF Init, Over
  <2>2. proc[p] = "up" => ~IsChild(p)
    BY DEF Init
  <2>3. QED
    BY <2>1, <2>2 DEF Init, HandOf, Equipped
<1>2. LocalInv /\ HandInv /\ [Next]_vars => HandInv'
  BY HandStep
<1>3. Spec => []LocalInv
  BY SocketTheorem DEF LocalInv
<1>4. Spec => [][Next]_vars /\ HandInv
  BY <1>1, PTL DEF Spec
<1>5. QED
  BY <1>2, <1>3, <1>4, PTL

\* NeverRefused: once an address is served, some process listens on its socket
\* or holds the descriptor, through restarts that fail, that follow each other
\* at once, or whose SIGHUP comes to a parent and its child together.
THEOREM NeverRefusedTheorem == Spec => []NeverRefused
<1>1. LocalInv /\ HandInv => NeverRefused
  <2> SUFFICES ASSUME LocalInv, HandInv, Settled, NEW a \in Addrs, lis[1][a] = a
               PROVE  \E p \in Procs : Holds(p, a)
    BY DEF NeverRefused
  <2>1. 1 \in Procs /\ HandOf(1) /\ TypeInv /\ OnceInv
    BY RestartAssumption DEF RestartAssumption, Procs, HandInv, LocalInv
  <2>2. CASE Over(1)
    BY <2>1, <2>2 DEF HandOf
  <2>3. CASE ~Over(1)
    <3>a. a # NoSocket
      BY RestartAssumption DEF RestartAssumption
    <3>b. srv[1][a] # "failed"
      BY <2>1, <3>a DEF HandOf
    <3>1. proc[1] = "up"
      BY <2>1, <2>3, <3>b DEF Over, OnceInv, TypeInv
    <3>2. Equipped(1)
      BY <2>1, <3>1 DEF HandOf
    <3>3. srv[1][a] \notin Waiting /\ srv[1][a] # "failed"
      BY <3>2, <3>a, <3>b DEF Equipped, Waiting
    <3>4. srv[1][a] \in Places /\ srv[1][a] \notin {"draining", "done"}
      BY <2>1, <2>3 DEF TypeInv, Over
    <3>5. srv[1][a] \in {"listening", "signalled", "unserved", "running"}
      BY <3>3, <3>4 DEF Places, Waiting
    <3>6. QED
      BY <2>1, <3>1, <3>5 DEF Holds
  <2>4. QED
    BY <2>2, <2>3
<1>2. QED
  BY <1>1, HandTheorem, PTL

\* StopsAfterHandOver: a server leaves its accept loop only when a younger
\* process holds its socket.
THEOREM StopsAfterHandOverTheorem == Spec => StopsAfterHandOver
<1>1. LocalInv /\ HandInv /\ [Next]_vars =>
        [Settled => \A p \in Procs, a \in Addrs :
           (srv[p][a] = "running" /\ srv'[p][a] = "draining")
             => \E q \in Procs : q > p /\ Holds(q, a)]_vars
  <2> SUFFICES ASSUME LocalInv, HandInv, Next, Settled, NEW q \in Procs, NEW a \in Addrs,
                      srv[q][a] = "running", srv'[q][a] = "draining"
               PROVE  \E r \in Procs : r > q /\ Holds(r, a)
    OBVIOUS
  <2>1. PICK p \in Procs : Step(p)
    BY NextSteps
  <2>2. TypeInv /\ HandOf(q)
    BY DEF LocalInv, HandInv
  <2>3. q = p
    BY <2>1, <2>2, Others
  <2>4. HandleTerm(q, a)
    BY <2>1, <2>2, <2>3, WaitStep
  <2>5. Over(q)
    BY <2>4 DEF HandleTerm, Over
  <2>6. QED
    BY <2>2, <2>5 DEF HandOf
<1>2. Spec => [](LocalInv /\ HandInv) /\ [][Next]_vars
  BY HandTheorem, PTL DEF Spec
<1>3. QED
  BY <1>1, <1>2, PTL DEF StopsAfterHandOver

-----------------------------------------------------------------------------
(* The sockets that the processes share *)

\* The processes that were started come before those that were not; the first
\* inherits nothing, and a process that has forked has its listeners.
ChainInv ==
  /\ \A p, q \in Procs : proc[p] = "none" /\ q > p => proc[q] = "none"
  /\ Settled => \A p \in Procs, a \in Addrs : forked[p] => srv[p][a] \notin Waiting

\* A step keeps the processes in a row.
LEMMA ChainStep ==
  ASSUME LocalInv, HandInv, ChainInv, [Next]_vars
  PROVE  ChainInv'
<1>1. CASE UNCHANGED vars
  BY <1>1 DEF vars, ChainInv, Settled
<1>2. CASE Next
  <2>1. PICK p \in Procs : Step(p) /\ env' = env
    BY <1>2, NextSteps
  <2>2. TypeInv /\ OnceInv /\ proc[p] = "up"
    BY <2>1, Others DEF LocalInv
  <2>3. 1 \in Procs /\ 1 # p + 1 /\ \A q \in Procs : q \in Int
    BY RestartAssumption DEF RestartAssumption, Procs
  <2>5. ASSUME NEW r \in Procs, NEW q \in Procs, proc'[r] = "none", q > r
        PROVE  proc'[q] = "none"
    <3>1. proc \in [Procs -> {"none", "up", "gone"}]
      BY <2>2 DEF TypeInv
    <3>2. proc[r] = "none"
      BY <2>1, <2>2, <2>5, <3>1, ProcStep
    <3>3. proc[q] = "none"
      BY <2>5, <3>2 DEF ChainInv
    <3>4. q # p + 1
      <4>1. r # p /\ ~(p > r)
        BY <2>2, <3>2 DEF ChainInv
      <4>2. QED
        BY <2>3, <2>5, <4>1
    <3>5. QED
      BY <2>1, <2>2, <3>1, <3>3, <3>4, ProcStep
  <2>6. ASSUME Settled, NEW q \in Procs, NEW a \in Addrs, forked'[q]
        PROVE  srv'[q][a] \notin Waiting
    <3>1. srv[q][a] \notin Waiting
      <4>1. CASE forked[q]
        BY <2>6, <4>1 DEF ChainInv
      <4>2. CASE ~forked[q]
        <5>1. q = p
          BY <2>1, <2>2, <2>6, <4>2, Others
        <5>2. PICK b \in Addrs : Fork(p, b)
          BY <2>1, <2>2, <2>6, <4>2, <5>1 DEF Step, ServerStep, HandlerStep, NewServer,
             ListenAndServe, HandlerReady, GetListener, SignalParent, SignalNobody, Serve,
             Drained, HandleTerm, HandlerLoops, ForkAgain, ForkCrash, SendHup, Exit
        <5>3. handler[p][b] = "hup"
          BY <5>2 DEF Fork
        <5>4. Equipped(p) /\ lis[p][a] # NoSocket
          BY <2>2, <2>6, <5>3 DEF HandInv, HandOf
        <5>5. QED
          BY <5>1, <5>4 DEF Equipped, Waiting
      <4>3. QED
        BY <4>1, <4>2
    <3>2. CASE q = p
      BY <2>1, <2>2, <3>1, <3>2, WaitStep
    <3>3. CASE q # p
      BY <2>1, <2>2, <3>1, <3>3, Others
    <3>4. QED
      BY <3>2, <3>3
  <2>7. QED
    BY <2>1, <2>5, <2>6 DEF ChainInv, Settled
<1>3. QED
  BY <1>1, <1>2

\* The invariants behind the sharing of the sockets hold always.
LEMMA ChainTheorem == Spec => [](LocalInv /\ HandInv /\ ChainInv)
<1>1. Init => ChainInv
  BY RestartAssumption DEF RestartAssumption, Init, ChainInv, Procs, IsChild
<1>2. LocalInv /\ HandInv /\ ChainInv /\ [Next]_vars => ChainInv'
  BY ChainStep
<1>3. QED
  BY <1>1, <1>2, HandTheorem, PTL DEF Spec

\* Where a server is when its process holds its socket.
Listens == {"listening", "signalled", "unserved", "running"}
HeldByPlace ==
  \A p \in Procs, a \in Addrs :
    Holds(p, a) <=> /\ proc[p] = "up"
                    /\ srv[p][a] \in Listens \/ (srv[p][a] \in Waiting /\ IsChild(p))

\* A process holds the sockets that it listens on, and those that it inherited
\* and does not listen on yet.
LEMMA HoldsAt == LocalInv /\ HandInv /\ ChainInv /\ Settled => HeldByPlace
<1> SUFFICES ASSUME LocalInv, HandInv, ChainInv, Settled, NEW p \in Procs, NEW a \in Addrs,
                    proc[p] = "up"
             PROVE  Holds(p, a) <=> \/ srv[p][a] \in Listens
                                    \/ srv[p][a] \in Waiting /\ IsChild(p)
  BY DEF HeldByPlace, Holds
<1>1. SocketOf(p) /\ Equipped(p) /\ HandOf(p)
  BY DEF LocalInv, SocketInv, HandInv, HandOf, Settled
<1>2. \A b \in Addrs : lis[p][b] = a => b = a
  BY <1>1, RestartAssumption DEF SocketOf, RestartAssumption
<1>3. a # NoSocket
  BY RestartAssumption DEF RestartAssumption
<1>4. CASE srv[p][a] \in Waiting
  <2>1. lis[p][a] = NoSocket /\ (IsChild(p) => \E i \in DOMAIN extra[p] : extra[p][i] = a)
    BY <1>1, <1>4 DEF Equipped, Waiting
  <2>3. ~IsChild(p) => DOMAIN extra[p] = {}
    BY <1>1 DEF HandOf
  <2>4. Holds(p, a) <=> \E i \in DOMAIN extra[p] : extra[p][i] = a
    BY <1>2, <1>3, <1>4, <2>1 DEF Holds, Waiting
  <2>5. srv[p][a] \notin Listens
    BY <1>4 DEF Waiting, Listens
  <2>6. QED
    BY <1>4, <2>1, <2>3, <2>4, <2>5
<1>5. CASE srv[p][a] \notin Waiting \cup {"failed"}
  <2>1. lis[p][a] = a
    BY <1>1, <1>5 DEF Equipped, Waiting
  <2>2. QED
    BY <1>2, <1>5, <2>1 DEF Holds, Waiting, Listens
<1>6. CASE srv[p][a] = "failed"
  <2>1. \A b \in Addrs : lis[p][b] # a
    BY <1>1, <1>2, <1>3, <1>6 DEF HandOf
  <2>2. QED
    BY <1>6, <2>1 DEF Holds, Waiting, Listens
<1>7. QED
  BY <1>4, <1>5, <1>6

\* Who holds an address.
HoldersOf(a) == {q \in Procs : Holds(q, a)}

\* The holders under the assumption on the environment, and without it.
LEMMA BarHolders ==
  /\ Settled => holdersBar = [a \in Addrs |-> HoldersOf(a)]
  /\ ~Settled => holdersBar = [a \in Addrs |-> {}]
BY DEF holdersBar, HoldersOf

\* Nothing is held at first.
LEMMA SharingInit == Init => Sharing!AbsInit
<1> SUFFICES ASSUME Init
             PROVE  holdersBar = [a \in Addrs |-> {}]
  BY DEF Sharing!AbsInit
<1>1. \A p \in Procs, a \in Addrs : ~Holds(p, a)
  <2> SUFFICES ASSUME NEW p \in Procs, NEW a \in Addrs, Holds(p, a)
               PROVE  FALSE
    OBVIOUS
  <2>1. \A b \in Addrs : srv[p][b] = "absent"
    BY DEF Init
  <2>2. extra[p] = <<>>
    BY DEF Init
  <2>3. QED
    BY <2>1, <2>2 DEF Holds
<1>2. \A a \in Addrs : HoldersOf(a) = {}
  BY <1>1 DEF HoldersOf
<1>3. QED
  BY <1>2, BarHolders

\* A child is started with every socket of its parent, the youngest process.
LEMMA StartShares ==
  ASSUME LocalInv, HandInv, ChainInv, Settled, HeldByPlace, HeldByPlace',
         NEW p \in Procs, Step(p), NEW q \in Procs, proc'[q] = "up", proc[q] # "up"
  PROVE  /\ q = p + 1
         /\ \A a \in Addrs : /\ p \in HoldersOf(a)
                             /\ \A r \in HoldersOf(a) : r <= p
                             /\ HoldersOf(a)' = HoldersOf(a) \cup {p + 1}
<1>1. TypeInv /\ OnceInv /\ HandOf(p) /\ proc[p] = "up"
  BY Others DEF LocalInv, HandInv
<1>2. q = p + 1 /\ q # p /\ proc[q] = "none" /\ \E b \in Addrs : Fork(p, b)
  BY <1>1, StartStep
<1>3. PICK b \in Addrs : Fork(p, b)
  BY <1>2
<1>4. handler[p][b] = "hup" /\ srv' = srv
  BY <1>3 DEF Fork
<1>5. proc' = [proc EXCEPT ![p + 1] = "up"]
  <2>1. proc' = proc \/ proc' = [proc EXCEPT ![p + 1] = "up"]
    BY <1>3 DEF Fork
  <2>2. QED
    BY <2>1
<1>6. \A r \in Procs \ {q} : proc'[r] = proc[r]
  BY <1>1, <1>2, <1>5 DEF TypeInv
<1>7. SUFFICES ASSUME NEW a \in Addrs
               PROVE  /\ p \in HoldersOf(a)
                      /\ \A r \in HoldersOf(a) : r <= p
                      /\ HoldersOf(a)' = HoldersOf(a) \cup {p + 1}
  BY <1>2
<1>8. srv[p][a] \in Listens
  <2>1. lis[p][a] # NoSocket /\ Equipped(p)
    BY <1>1, <1>4 DEF HandOf
  <2>2. srv[p][a] \notin Waiting /\ srv[p][a] # "failed"
    BY <1>1, <2>1 DEF HandOf, Equipped, Waiting
  <2>3. \A c \in Addrs : srv[p + 1][c] = "absent"
    BY <1>1, <1>2 DEF OnceInv
  <2>4. ~Over(p)
    BY <1>1, <2>3 DEF Told, HandOf
  <2>5. srv[p][a] \in Places /\ srv[p][a] \notin {"draining", "done"}
    BY <1>1, <2>4 DEF Over, TypeInv
  <2>6. QED
    BY <2>2, <2>5 DEF Places, Waiting, Listens
<1>9. p \in HoldersOf(a)
  BY <1>1, <1>8 DEF HeldByPlace, HoldersOf
<1>10. ASSUME NEW r \in HoldersOf(a)
       PROVE  r <= p
  <2>1. r \in Procs /\ proc[r] = "up"
    BY DEF HoldersOf, Holds
  <2>2. r # q /\ ~(r > q)
    BY <1>2, <2>1 DEF ChainInv
  <2>3. QED
    BY <1>2, <2>1, <2>2, ProcsAreInts
<1>11. Holds(q, a)'
  <2>1. srv'[q][a] = "absent"
    BY <1>1, <1>2, <1>4 DEF OnceInv
  <2>2. IsChild(q)
    BY <1>2, RestartAssumption DEF RestartAssumption, IsChild, Procs
  <2>3. QED
    BY <2>1, <2>2 DEF HeldByPlace, Waiting
<1>12. \A r \in Procs \ {q} : Holds(r, a)' <=> Holds(r, a)
  BY <1>4, <1>6 DEF HeldByPlace
<1>13. QED
  BY <1>2, <1>9, <1>10, <1>11, <1>12 DEF HoldersOf

\* The first process listens on an address that nobody holds, if it can.
LEMMA ListenShares ==
  ASSUME LocalInv, HandInv, ChainInv, Settled, HeldByPlace, HeldByPlace',
         NEW a \in Addrs, GetListener(1, a), srv'[1][a] # "failed"
  PROVE  /\ HoldersOf(a) = {} /\ HoldersOf(a)' = {1}
         /\ \A b \in Addrs \ {a} : HoldersOf(b)' = HoldersOf(b)
<1>1. TypeInv /\ OnceInv /\ 1 \in Procs /\ ~IsChild(1) /\ a # NoSocket
  BY RestartAssumption DEF RestartAssumption, LocalInv, Procs, IsChild
<1>2. /\ proc[1] = "up" /\ srv[1][a] = "started" /\ proc' = proc
      /\ srv' = [srv EXCEPT ![1][a] = "listening"]
  <2>1. PICK x \in {"failed", "listening"} : srv' = [srv EXCEPT ![1][a] = x]
    BY DEF GetListener
  <2>2. x = "listening"
    BY <1>1, <2>1 DEF TypeInv
  <2>3. QED
    BY <2>1, <2>2 DEF GetListener
<1>3. ~forked[1]
  BY <1>1, <1>2 DEF ChainInv, Waiting
<1>4. \A q \in Procs \ {1} : proc[q] = "none"
  <2> SUFFICES ASSUME NEW q \in Procs \ {1}
               PROVE  proc[q] = "none"
    OBVIOUS
  <2>1. 2 \in Procs /\ 2 = 1 + 1 /\ (q = 2 \/ q > 2)
    BY RestartAssumption DEF RestartAssumption, Procs
  <2>2. proc[2] = "none"
    BY <1>1, <1>3, <2>1 DEF OnceInv
  <2>3. QED
    BY <2>1, <2>2 DEF ChainInv
<1>5. /\ srv'[1][a] = "listening"
      /\ \A q \in Procs, b \in Addrs : <<q, b>> # <<1, a>> => srv'[q][b] = srv[q][b]
  BY <1>1, <1>2 DEF TypeInv
<1>6. \A q \in Procs, b \in Addrs : <<q, b>> # <<1, a>> => (Holds(q, b)' <=> Holds(q, b))
  BY <1>2, <1>5 DEF HeldByPlace
<1>7. Holds(1, a)' /\ ~Holds(1, a)
  BY <1>1, <1>2, <1>5 DEF HeldByPlace, Listens
<1>8. \A q \in Procs \ {1} : ~Holds(q, a)
  BY <1>4 DEF Holds
<1>9. QED
  BY <1>1, <1>6, <1>7, <1>8 DEF HoldersOf

\* No other step gives a process a socket.
LEMMA NoneGained ==
  ASSUME LocalInv, HandInv, Settled, HeldByPlace, HeldByPlace', NEW p \in Procs, Step(p),
         NEW a \in Addrs, ~(p = 1 /\ GetListener(p, a) /\ srv'[p][a] # "failed"),
         NEW q \in Procs, Holds(q, a)', proc[q] = "up"
  PROVE  Holds(q, a)
<1>1. TypeInv /\ proc'[q] = "up"
  BY DEF LocalInv, Holds
<1>2. srv'[q][a] \in Listens \/ (srv'[q][a] \in Waiting /\ IsChild(q))
  BY DEF HeldByPlace
<1>3. CASE q # p
  <2>1. srv'[q] = srv[q]
    BY <1>1, <1>3, Others
  <2>2. QED
    BY <1>2, <2>1 DEF HeldByPlace
<1>4. CASE q = p
  <2>1. CASE srv'[p][a] \in Waiting
    BY <1>1, <1>2, <1>4, <2>1, WaitStep DEF HeldByPlace, Waiting, Listens
  <2>2. CASE srv'[p][a] \in Listens /\ srv[p][a] \in Waiting
    <3>1. GetListener(p, a)
      BY <1>1, <2>2, WaitStep DEF Waiting, Listens
    <3>2. p # 1
      BY <2>2, <3>1 DEF Listens
    <3>3. IsChild(p)
      BY <3>2, RestartAssumption DEF RestartAssumption, IsChild, Procs
    <3>4. QED
      BY <1>4, <2>2, <3>3 DEF HeldByPlace
  <2>3. CASE srv'[p][a] \in Listens /\ srv[p][a] \notin Waiting
    <3>1. srv[p][a] \notin {"draining", "done"}
      BY <1>1, <2>3, WaitStep DEF Listens
    <3>2. srv[p][a] # "failed"
      BY <1>1, <2>3, WaitStep DEF Listens
    <3>3. srv[p][a] \in Places
      BY <1>1 DEF TypeInv
    <3>4. QED
      BY <1>4, <2>3, <3>1, <3>2, <3>3 DEF HeldByPlace, Places, Waiting, Listens
  <2>4. QED
    BY <1>2, <1>4, <2>1, <2>2, <2>3
<1>5. QED
  BY <1>3, <1>4

\* The process that gives up sockets in a step of p: the parent, when a server
\* of p signals it, and else p itself.
Loser(p) == IF \E b \in Addrs : SignalParent(p, b) THEN p - 1 ELSE p

\* A process gives up a socket only when a younger process holds it.
LEMMA LostToYounger ==
  ASSUME LocalInv, HandInv, Settled, HeldByPlace, HeldByPlace', NEW p \in Procs, Step(p),
         NEW a \in Addrs, NEW q \in Procs, Holds(q, a), ~Holds(q, a)'
  PROVE  q = Loser(p) /\ \E r \in Procs : r > q /\ Holds(r, a)
<1>1. TypeInv /\ HandOf(p) /\ proc[p] = "up" /\ \A r \in Procs : r \in Int
  BY Others, ProcsAreInts DEF LocalInv, HandInv
<1>2. CASE q = p
  <2>1. Over(p)
    BY <1>2, HoldsOwn
  <2>2. \E r \in Procs : r > q /\ Holds(r, a)
    BY <1>1, <1>2, <2>1 DEF HandOf
  <2>3. ASSUME NEW b \in Addrs, SignalParent(p, b)
        PROVE  FALSE
    <3>1. proc'[p] = "up"
      <4>1. proc' = proc \/ proc' = [proc EXCEPT ![p - 1] = "gone"]
        BY <2>3 DEF SignalParent
      <4>2. QED
        BY <1>1, <4>1, ProcsAreInts DEF TypeInv
    <3>2. srv[p][b] = "listening" /\ srv' = [srv EXCEPT ![p][b] = "signalled"]
      BY <2>3 DEF SignalParent
    <3>3. srv'[p][a] = srv[p][a] \/ (srv[p][a] = "listening" /\ srv'[p][a] = "signalled")
      BY <1>1, <3>2 DEF TypeInv
    <3>4. QED
      BY <1>2, <3>1, <3>3 DEF HeldByPlace, Listens, Waiting
  <2>4. QED
    BY <1>2, <2>2, <2>3 DEF Loser
<1>3. CASE q # p
  <2>1. PICK b \in Addrs : q = p - 1 /\ SignalParent(p, b)
    BY <1>3, HoldsOther
  <2>2. p > q /\ IsChild(p)
    BY <1>1, <2>1 DEF SignalParent
  <2>3. CASE Over(p)
    <3>1. PICK r \in Procs : r > p /\ Holds(r, a)
      BY <1>1, <2>3 DEF HandOf
    <3>2. r > q
      BY <1>1, <2>2, <3>1
    <3>3. QED
      BY <2>1, <3>1, <3>2 DEF Loser
  <2>4. CASE ~Over(p)
    <3>1. srv[p][a] \in Places /\ srv[p][a] \notin {"draining", "done"} /\ srv[p][a] # "failed"
      BY <1>1, <2>2, <2>4 DEF TypeInv, Over, HandOf
    <3>2. Holds(p, a)
      BY <1>1, <2>2, <3>1 DEF HeldByPlace, Places, Waiting, Listens
    <3>3. QED
      BY <2>1, <2>2, <3>2 DEF Loser
  <2>5. QED
    BY <2>3, <2>4
<1>4. QED
  BY <1>2, <1>3

\* Every step is a step of GraceSockets, or leaves the holders as they are.
LEMMA SharingStep ==
  ASSUME LocalInv, HandInv, ChainInv, Settled => HeldByPlace, Settled' => HeldByPlace',
         [Next]_vars
  PROVE  [Sharing!AbsNext]_holdersBar
<1>1. CASE UNCHANGED vars
  BY <1>1 DEF vars, holdersBar, Settled, Holds
<1>2. CASE Next
  <2>1. PICK p \in Procs : Step(p) /\ env' = env
    BY <1>2, NextSteps
  <2>2. Settled' <=> Settled
    BY <2>1 DEF Settled
  <2>3. CASE ~Settled
    BY <2>2, <2>3 DEF holdersBar
  <2>4. CASE Settled
    <3>1. /\ holdersBar = [a \in Addrs |-> HoldersOf(a)]
          /\ holdersBar' = [a \in Addrs |-> HoldersOf(a)']
      BY <2>2, <2>4 DEF holdersBar, HoldersOf
    <3>2. HeldByPlace /\ HeldByPlace' /\ TypeInv
      BY <2>2, <2>4 DEF LocalInv
    <3>3. proc[p] = "up"
      BY <2>1, <3>2, Others
    <3>4. CASE \E q \in Procs : proc'[q] = "up" /\ proc[q] # "up"
      <4>1. /\ p + 1 \in Procs
            /\ \A a \in Addrs : /\ p \in HoldersOf(a)
                                /\ \A r \in HoldersOf(a) : r <= p
                                /\ HoldersOf(a)' = HoldersOf(a) \cup {p + 1}
        BY <2>1, <2>4, <3>2, <3>4, StartShares
      <4>2. Sharing!HandOver(p)
        BY <3>1, <4>1 DEF Sharing!HandOver
      <4>3. QED
        BY <4>1, <4>2 DEF Sharing!AbsNext, Sharing!Procs, Procs
    <3>5. CASE p = 1 /\ \E a \in Addrs : GetListener(p, a) /\ srv'[p][a] # "failed"
      <4>1. PICK a \in Addrs : GetListener(1, a) /\ srv'[1][a] # "failed"
        BY <3>5
      <4>2. /\ HoldersOf(a) = {} /\ HoldersOf(a)' = {1}
            /\ \A b \in Addrs \ {a} : HoldersOf(b)' = HoldersOf(b)
        BY <2>4, <3>2, <4>1, ListenShares
      <4>3. Sharing!Listen(a)
        BY <3>1, <4>2 DEF Sharing!Listen
      <4>4. QED
        BY <4>3 DEF Sharing!AbsNext
    <3>6. CASE /\ ~\E q \in Procs : proc'[q] = "up" /\ proc[q] # "up"
               /\ ~(p = 1 /\ \E a \in Addrs : GetListener(p, a) /\ srv'[p][a] # "failed")
      <4> DEFINE w == Loser(p)
                 S == {a \in Addrs : w \in HoldersOf(a) /\ w \notin HoldersOf(a)'}
      <4>1. w \in Procs
        BY ProcsAreInts DEF Loser, SignalParent
      <4>2. ASSUME NEW a \in Addrs, NEW q \in HoldersOf(a)'
            PROVE  q \in HoldersOf(a)
        <5>1. q \in Procs /\ Holds(q, a)' /\ proc'[q] = "up"
          BY <4>2 DEF HoldersOf, Holds
        <5>2. proc[q] = "up"
          BY <3>6, <5>1
        <5>3. Holds(q, a)
          BY <2>1, <2>4, <3>2, <3>6, <5>1, <5>2, NoneGained
        <5>4. QED
          BY <5>1, <5>3 DEF HoldersOf
      <4>3. ASSUME NEW a \in Addrs, NEW q \in HoldersOf(a), q \notin HoldersOf(a)'
            PROVE  q = w /\ \E r \in HoldersOf(a) : r > q
        <5>1. q \in Procs /\ Holds(q, a) /\ ~Holds(q, a)'
          BY <4>3 DEF HoldersOf
        <5>2. q = w /\ \E r \in Procs : r > q /\ Holds(r, a)
          BY <2>1, <2>4, <3>2, <5>1, LostToYounger
        <5>3. QED
          BY <5>2 DEF HoldersOf
      <4> HIDE DEF w
      <4>4. \A a \in Addrs : HoldersOf(a)' = IF a \in S THEN HoldersOf(a) \ {w} ELSE HoldersOf(a)
        BY <4>2, <4>3
      <4>5. \A a \in S : w \in HoldersOf(a) /\ \E r \in HoldersOf(a) : r > w
        BY <4>3
      <4>6. S \in SUBSET Addrs
        OBVIOUS
      <4> HIDE DEF S
      <4>7. Sharing!Release(w, S)
        BY <3>1, <4>4, <4>5, <4>6 DEF Sharing!Release
      <4>8. QED
        BY <4>1, <4>6, <4>7 DEF Sharing!AbsNext, Sharing!Procs, Procs
    <3>7. QED
      BY <3>4, <3>5, <3>6
  <2>5. QED
    BY <2>3, <2>4
<1>3. QED
  BY <1>1, <1>2

\* ImplementsSockets: an address is listened on once, its socket goes from
\* parent to child, and every holder that gives it up leaves it with a younger
\* one, whichever of the servers signal, drain, end or are killed first.
THEOREM SharingRefinement == Spec => ImplementsSockets
<1>1. Init => Sharing!AbsInit
  BY SharingInit
<1>2. LocalInv /\ HandInv /\ ChainInv => (Settled => HeldByPlace)
  BY HoldsAt
<1>3. /\ LocalInv /\ HandInv /\ ChainInv
      /\ (Settled => HeldByPlace) /\ (Settled => HeldByPlace)'
      /\ [Next]_vars
      => [Sharing!AbsNext]_holdersBar
  BY SharingStep
<1>4. QED
  BY <1>1, <1>2, <1>3, ChainTheorem, PTL DEF Spec, ImplementsSockets, Sharing!AbsSpec

=============================================================================
