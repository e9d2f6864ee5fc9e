---------------------------- MODULE GraceService ----------------------------
(***************************************************************************)
(* One grace.MicroService from ListenAndServe to the end of Serve          *)
(* (grace/mservices.go, listener.go, conn.go).  Its goroutines are         *)
(*                                                                         *)
(*   Serve       getListener has returned; sets Running, accepts, closes   *)
(*               the listener when Accept fails, waits for the WaitGroup,  *)
(*               sets Terminate                                            *)
(*   stopper     the goroutine newGraceListener starts, which closes the   *)
(*               socket when asked over the unbuffered channel el.stop     *)
(*   signal      handleSignals, which runs shutdown in its own goroutine   *)
(*   hammer      serverTimeout, started by shutdown                        *)
(*   closers     the goroutines that call Close on a connection: the       *)
(*               net/http one and, on a hijacked connection, the handler's *)
(*                                                                         *)
(* srv.state and gl.stopped are plain fields read and written without a    *)
(* lock: every access is a step of its own.  The sync.WaitGroup is modelled*)
(* by its behaviour, panics included, see DoneOutcome.                     *)
(***************************************************************************)
EXTENDS Integers, FiniteSets

CONSTANTS
  Conns,          \* connections clients open
  Closers,        \* goroutines that may call Close on one connection
  NoOne,          \* the owner of a free mutex
  HammerOn,       \* DefaultTimeout >= 0: shutdown starts serverTimeout
  AcceptMayFail   \* Accept may fail while the listener is open (ENETDOWN, ...)

ASSUME ConstantsAssumption ==
  /\ IsFiniteSet(Conns)
  /\ NoOne \notin Closers
  /\ HammerOn \in BOOLEAN
  /\ AcceptMayFail \in BOOLEAN

VARIABLES
  state,      \* srv.state
  serve,      \* where the Serve goroutine is
  sig,        \* where handleSignals is
  hammer,     \* where serverTimeout is
  stopper,    \* where the goroutine of newGraceListener is
  stopped,    \* graceListener.stopped
  lisOpen,    \* the listening socket accepts connections
  lclose,     \* where each caller of graceListener.Close is
  conn,       \* "new", "accepted" (by the kernel) or "serving" (counted in wg)
  closed,     \* graceConn.closed
  mutex,      \* the owner of graceConn.m
  cclose,     \* where each caller of graceConn.Close is
  wg,         \* the counter of srv.wg
  waiters     \* the goroutines blocked in srv.wg.Wait

connVars == <<conn, closed, mutex, cclose>>
lisVars  == <<stopper, stopped, lisOpen, lclose>>
wgVars   == <<wg, waiters>>
vars == <<state, serve, sig, hammer, lisVars, connVars, wgVars>>

ListenerClosers == {"Serve", "shutdown"}

Init ==
  /\ state = "Init"
  /\ serve = "init"
  /\ sig = "idle"
  /\ hammer = "off"
  /\ stopper = "recv"
  /\ stopped = FALSE
  /\ lisOpen = TRUE
  /\ lclose = [x \in ListenerClosers |-> "out"]
  /\ conn = [c \in Conns |-> "new"]
  /\ closed = [c \in Conns |-> FALSE]
  /\ mutex = [c \in Conns |-> NoOne]
  /\ cclose = [c \in Conns |-> [k \in Closers |-> "out"]]
  /\ wg = 0
  /\ waiters = 0

\* An unrecovered panic in Serve ends the process and every goroutine in it.
Alive == serve # "panicked"

-----------------------------------------------------------------------------
(***************************************************************************)
(* sync.WaitGroup.  Done is one atomic decrement of the word that holds    *)
(* the counter and the waiters.  It panics below zero and returns above it *)
(* or with no waiter; otherwise a second step releases the waiters, after  *)
(* checking that the word did not change in between.                       *)
(***************************************************************************)
DoneOutcome ==
  CASE wg - 1 < 0                -> "panic"
    [] wg - 1 = 0 /\ waiters > 0 -> "release"
    [] OTHER                     -> "return"

\* The waiter is let go only if nobody touched the word since the decrement.
ReleaseValid == wg = 0 /\ waiters > 0

-----------------------------------------------------------------------------
(* graceListener.Close, called by shutdown and by net/http when Accept fails *)

\* Faulty variant of CloseTest: stopped is not consulted.
CloseTestAlwaysSends(x) ==
  /\ lclose[x] = "test"
  /\ lclose' = [lclose EXCEPT ![x] = "send"]
  /\ UNCHANGED <<state, serve, sig, hammer, stopper, stopped, lisOpen,
                 connVars, wgVars>>

\* if gl.stopped { return syscall.EINVAL }
CloseTest(x) ==
  /\ lclose[x] = "test"
  /\ lclose' = [lclose EXCEPT ![x] = IF stopped THEN "ret" ELSE "send"]
  /\ UNCHANGED <<state, serve, sig, hammer, stopper, stopped, lisOpen,
                 connVars, wgVars>>

\* gl.stop <- nil meets the first receive of the stopper.
StopAsked(x) ==
  /\ lclose[x] = "send"
  /\ stopper = "recv"
  /\ lclose' = [lclose EXCEPT ![x] = "recv"]
  /\ stopper' = "mark"
  /\ UNCHANGED <<state, serve, sig, hammer, stopped, lisOpen, connVars, wgVars>>

\* gl.stop <- nil meets the <-gl.stop of the other caller, which takes the
\* nil for the result of closing the listener.
StopCrossed(x, y) ==
  /\ lclose[x] = "send"
  /\ lclose[y] = "recv"
  /\ lclose' = [lclose EXCEPT ![x] = "recv", ![y] = "ret"]
  /\ UNCHANGED <<state, serve, sig, hammer, stopper, stopped, lisOpen,
                 connVars, wgVars>>

\* el.stop <- el.Listener.Close() meets a caller's <-gl.stop.
StopAnswered(x) ==
  /\ lclose[x] = "recv"
  /\ stopper = "send"
  /\ lclose' = [lclose EXCEPT ![x] = "ret"]
  /\ stopper' = "done"
  /\ UNCHANGED <<state, serve, sig, hammer, stopped, lisOpen, connVars, wgVars>>

\* el.stopped = true
StopperMark ==
  /\ stopper = "mark"
  /\ stopped' = TRUE
  /\ stopper' = "close"
  /\ UNCHANGED <<state, serve, sig, hammer, lisOpen, lclose, connVars, wgVars>>

\* Faulty variant of StopperClose: the answer is sent, the socket left open.
StopperAnswersOnly ==
  /\ stopper = "close"
  /\ stopper' = "send"
  /\ UNCHANGED <<state, serve, sig, hammer, stopped, lisOpen, lclose, connVars, wgVars>>

\* el.Listener.Close()
StopperClose ==
  /\ stopper = "close"
  /\ lisOpen' = FALSE
  /\ stopper' = "send"
  /\ UNCHANGED <<state, serve, sig, hammer, stopped, lclose, connVars, wgVars>>

-----------------------------------------------------------------------------
(* The Serve goroutine *)

\* srv.state = StateRunning
ServeRunning ==
  /\ serve = "init"
  /\ state' = "Running"
  /\ serve' = "accept"
  /\ UNCHANGED <<sig, hammer, lisVars, connVars, wgVars>>

\* AcceptTCP returns a connection; it is not yet counted.
AcceptTCP(c) ==
  /\ serve = "accept"
  /\ lisOpen
  /\ conn[c] = "new"
  /\ conn' = [conn EXCEPT ![c] = "accepted"]
  /\ serve' = "add"
  /\ UNCHANGED <<state, sig, hammer, lisVars, closed, mutex, cclose, wgVars>>

\* Faulty variant of AcceptAdd: the connection is counted twice.
AcceptAddTwice(c) ==
  /\ serve = "add"
  /\ conn[c] = "accepted"
  /\ wg' = wg + 2
  /\ serve' = "accept"
  /\ conn' = [conn EXCEPT ![c] = "serving"]
  /\ UNCHANGED <<state, sig, hammer, lisVars, closed, mutex, cclose, waiters>>

\* gl.server.wg.Add(1), then net/http serves the connection in a goroutine.
\* Add panics when the counter is still negative after it.
AcceptAdd(c) ==
  /\ serve = "add"
  /\ conn[c] = "accepted"
  /\ wg' = wg + 1
  /\ \/ /\ wg + 1 < 0
        /\ serve' = "panicked"
        /\ UNCHANGED conn
     \/ /\ wg + 1 >= 0
        /\ serve' = "accept"
        /\ conn' = [conn EXCEPT ![c] = "serving"]
  /\ UNCHANGED <<state, sig, hammer, lisVars, closed, mutex, cclose, waiters>>

\* Accept fails: http.Server.Serve returns and its deferred call closes the
\* listener a second time.
AcceptError ==
  /\ serve = "accept"
  /\ ~lisOpen \/ AcceptMayFail
  /\ serve' = "closing"
  /\ lclose' = [lclose EXCEPT !["Serve"] = "test"]
  /\ UNCHANGED <<state, sig, hammer, stopper, stopped, lisOpen, connVars, wgVars>>

\* The deferred Close has returned.
ServeReturns ==
  /\ serve = "closing"
  /\ lclose["Serve"] = "ret"
  /\ serve' = "wait"
  /\ UNCHANGED <<state, sig, hammer, lisVars, connVars, wgVars>>

\* Faulty variant of WaitEnter: Serve does not wait.
WaitSkipped ==
  /\ serve = "wait"
  /\ serve' = "terminate"
  /\ UNCHANGED <<state, sig, hammer, lisVars, connVars, wgVars>>

\* srv.wg.Wait(): returns at once on a zero counter, otherwise blocks, on a
\* negative counter too.
WaitEnter ==
  /\ serve = "wait"
  /\ \/ /\ wg = 0
        /\ serve' = "terminate"
        /\ UNCHANGED waiters
     \/ /\ wg # 0
        /\ serve' = "waiting"
        /\ waiters' = waiters + 1
  /\ UNCHANGED <<state, sig, hammer, lisVars, connVars, wg>>

\* A released waiter panics if the WaitGroup was used before it woke up.
WaitWake ==
  /\ serve = "waiting"
  /\ waiters = 0
  /\ serve' = IF wg = 0 THEN "terminate" ELSE "panicked"
  /\ UNCHANGED <<state, sig, hammer, lisVars, connVars, wgVars>>

\* srv.state = StateTerminate
ServeTerminate ==
  /\ serve = "terminate"
  /\ state' = "Terminate"
  /\ serve' = "done"
  /\ UNCHANGED <<sig, hammer, lisVars, connVars, wgVars>>

-----------------------------------------------------------------------------
(* handleSignals and shutdown *)

\* A SIGINT or SIGTERM reaches handleSignals; sigChan has no buffer, so a
\* signal that comes while the goroutine is elsewhere is dropped.
SignalReceived ==
  /\ sig = "idle"
  /\ sig' = "check"
  /\ UNCHANGED <<state, serve, hammer, lisVars, connVars, wgVars>>

\* Faulty variant of ShutdownCheck: shutdown runs in any state.
ShutdownUnchecked ==
  /\ sig = "check"
  /\ sig' = "mark"
  /\ UNCHANGED <<state, serve, hammer, lisVars, connVars, wgVars>>

\* if srv.state != StateRunning { return }
ShutdownCheck ==
  /\ sig = "check"
  /\ sig' = IF state = "Running" THEN "mark" ELSE "idle"
  /\ UNCHANGED <<state, serve, hammer, lisVars, connVars, wgVars>>

\* srv.state = StateShuttingDown; go srv.serverTimeout(DefaultTimeout);
\* srv.GraceListener.Close() begins
ShutdownMark ==
  /\ sig = "mark"
  /\ state' = "ShuttingDown"
  /\ hammer' = IF HammerOn THEN "start" ELSE "off"
  /\ lclose' = [lclose EXCEPT !["shutdown"] = "test"]
  /\ sig' = "close"
  /\ UNCHANGED <<serve, stopper, stopped, lisOpen, connVars, wgVars>>

\* GraceListener.Close() has returned to shutdown, and shutdown to the loop.
ShutdownReturns ==
  /\ sig = "close"
  /\ lclose["shutdown"] = "ret"
  /\ sig' = "idle"
  /\ UNCHANGED <<state, serve, hammer, lisVars, connVars, wgVars>>

-----------------------------------------------------------------------------
(* serverTimeout *)

\* if srv.state != StateShuttingDown { return }
HammerStart ==
  /\ hammer = "start"
  /\ hammer' = IF state = "ShuttingDown" THEN "sleep" ELSE "left"
  /\ UNCHANGED <<state, serve, sig, lisVars, connVars, wgVars>>

\* time.Sleep(d) returns.
HammerFires ==
  /\ hammer = "sleep"
  /\ hammer' = "loop"
  /\ UNCHANGED <<state, serve, sig, lisVars, connVars, wgVars>>

\* if srv.state == StateTerminate { break }
HammerCheck ==
  /\ hammer = "loop"
  /\ hammer' = IF state = "Terminate" THEN "broke" ELSE "dec"
  /\ UNCHANGED <<state, serve, sig, lisVars, connVars, wgVars>>

\* Faulty variant of HammerDone: one Done, without the loop.
HammerDoneOnce ==
  /\ hammer = "dec"
  /\ wg' = wg - 1
  /\ hammer' = CASE DoneOutcome = "panic"   -> "recovered"
                 [] DoneOutcome = "release" -> "rel"
                 [] DoneOutcome = "return"  -> "broke"
  /\ UNCHANGED <<state, serve, sig, lisVars, connVars, waiters>>

\* srv.wg.Done(), its panic recovered by the deferred function
HammerDone ==
  /\ hammer = "dec"
  /\ wg' = wg - 1
  /\ hammer' = CASE DoneOutcome = "panic"   -> "recovered"
                 [] DoneOutcome = "release" -> "rel"
                 [] DoneOutcome = "return"  -> "loop"
  /\ UNCHANGED <<state, serve, sig, lisVars, connVars, waiters>>

HammerRelease ==
  /\ hammer = "rel"
  /\ \/ /\ ReleaseValid
        /\ waiters' = 0
        /\ hammer' = "loop"
     \/ /\ ~ReleaseValid
        /\ hammer' = "recovered"
        /\ UNCHANGED waiters
  /\ UNCHANGED <<state, serve, sig, lisVars, connVars, wg>>

-----------------------------------------------------------------------------
(* graceConn.Close *)

\* The net/http goroutine, or the owner of a hijacked connection, calls Close.
ConnCloseCall(c, k) ==
  /\ conn[c] = "serving"
  /\ cclose[c][k] = "out"
  /\ cclose' = [cclose EXCEPT ![c][k] = "lock"]
  /\ UNCHANGED <<state, serve, sig, hammer, lisVars, conn, closed, mutex, wgVars>>

\* Faulty variant of ConnCloseLock: closed is not consulted.
ConnCloseLockUnchecked(c, k) ==
  /\ cclose[c][k] = "lock"
  /\ mutex[c] = NoOne
  /\ cclose' = [cclose EXCEPT ![c][k] = "crit"]
  /\ mutex' = [mutex EXCEPT ![c] = k]
  /\ UNCHANGED <<state, serve, sig, hammer, lisVars, conn, closed, wgVars>>

\* c.m.Lock(); if c.closed { c.m.Unlock(); return }
ConnCloseLock(c, k) ==
  /\ cclose[c][k] = "lock"
  /\ mutex[c] = NoOne
  /\ \/ /\ closed[c]
        /\ cclose' = [cclose EXCEPT ![c][k] = "ret"]
        /\ UNCHANGED mutex
     \/ /\ ~closed[c]
        /\ cclose' = [cclose EXCEPT ![c][k] = "crit"]
        /\ mutex' = [mutex EXCEPT ![c] = k]
  /\ UNCHANGED <<state, serve, sig, hammer, lisVars, conn, closed, wgVars>>

\* c.server.wg.Done().  A panic is recovered by the deferred function, which
\* does not unlock m: the mutex stays taken, closed stays false and the socket
\* stays open.
ConnCloseDone(c, k) ==
  /\ cclose[c][k] = "crit"
  /\ wg' = wg - 1
  /\ cclose' = [cclose EXCEPT ![c][k] =
       CASE DoneOutcome = "panic"   -> "panic"
         [] DoneOutcome = "release" -> "rel"
         [] DoneOutcome = "return"  -> "unlock"]
  /\ UNCHANGED <<state, serve, sig, hammer, lisVars, conn, closed, mutex, waiters>>

\* wg.Done releases the waiter of Serve.
ConnCloseRelease(c, k) ==
  /\ cclose[c][k] = "rel"
  /\ \/ /\ ReleaseValid
        /\ waiters' = 0
        /\ cclose' = [cclose EXCEPT ![c][k] = "unlock"]
     \/ /\ ~ReleaseValid
        /\ cclose' = [cclose EXCEPT ![c][k] = "panic"]
        /\ UNCHANGED waiters
  /\ UNCHANGED <<state, serve, sig, hammer, lisVars, conn, closed, mutex, wg>>

\* Faulty variant of ConnCloseUnlock: closed is never set.
ConnCloseUnlockForgets(c, k) ==
  /\ cclose[c][k] = "unlock"
  /\ mutex' = [mutex EXCEPT ![c] = NoOne]
  /\ cclose' = [cclose EXCEPT ![c][k] = "sock"]
  /\ UNCHANGED <<state, serve, sig, hammer, lisVars, conn, closed, wgVars>>

\* c.closed = true; c.m.Unlock()
ConnCloseUnlock(c, k) ==
  /\ cclose[c][k] = "unlock"
  /\ closed' = [closed EXCEPT ![c] = TRUE]
  /\ mutex' = [mutex EXCEPT ![c] = NoOne]
  /\ cclose' = [cclose EXCEPT ![c][k] = "sock"]
  /\ UNCHANGED <<state, serve, sig, hammer, lisVars, conn, wgVars>>

\* return c.Conn.Close()
ConnCloseSocket(c, k) ==
  /\ cclose[c][k] = "sock"
  /\ cclose' = [cclose EXCEPT ![c][k] = "ret"]
  /\ UNCHANGED <<state, serve, sig, hammer, lisVars, conn, closed, mutex, wgVars>>

-----------------------------------------------------------------------------
(* The steps of each goroutine, taken only while the process lives *)

ServeStep ==
  /\ Alive
  /\ \/ ServeRunning \/ AcceptError \/ ServeReturns
     \/ WaitEnter \/ WaitWake \/ ServeTerminate
     \/ CloseTest("Serve") \/ StopAsked("Serve") \/ StopAnswered("Serve")
     \/ StopCrossed("Serve", "shutdown")
     \/ \E c \in Conns : AcceptAdd(c)

ClientConnects == Alive /\ \E c \in Conns : AcceptTCP(c)

ShutdownStep ==
  /\ Alive
  /\ \/ ShutdownCheck \/ ShutdownMark \/ ShutdownReturns
     \/ CloseTest("shutdown") \/ StopAsked("shutdown") \/ StopAnswered("shutdown")
     \/ StopCrossed("shutdown", "Serve")

SignalStep == Alive /\ SignalReceived

StopperStep == Alive /\ (StopperMark \/ StopperClose)

HammerStep ==
  /\ Alive
  /\ \/ HammerStart \/ HammerFires \/ HammerCheck \/ HammerDone \/ HammerRelease

\* A Close that has been called runs to its end.
ConnStep(c, k) ==
  /\ Alive
  /\ \/ ConnCloseLock(c, k) \/ ConnCloseDone(c, k) \/ ConnCloseRelease(c, k)
     \/ ConnCloseUnlock(c, k) \/ ConnCloseSocket(c, k)

ConnEnds(c, k) == Alive /\ ConnCloseCall(c, k)

Next ==
  \/ ServeStep \/ ClientConnects \/ ShutdownStep \/ SignalStep
  \/ StopperStep \/ HammerStep
  \/ \E c \in Conns, k \in Closers : ConnStep(c, k) \/ ConnEnds(c, k)

Spec == Init /\ [][Next]_vars

\* Every goroutine that can run eventually runs; nothing makes a client
\* connect, a signal arrive or a request end.
GoroutineFairness ==
  /\ WF_vars(ServeStep)
  /\ WF_vars(ShutdownStep)
  /\ WF_vars(StopperStep)
  /\ WF_vars(HammerStep)
  /\ \A c \in Conns, k \in Closers : WF_vars(ConnStep(c, k))

\* With Read/WriteTimeout set, net/http closes every connection in the end.
ConnsEnd == \A c \in Conns : WF_vars(\E k \in Closers : ConnEnds(c, k))

FairSpec == Spec /\ GoroutineFairness
DrainingSpec == FairSpec /\ ConnsEnd

-----------------------------------------------------------------------------
(* Properties *)

\* The values the fields and program counters of the goroutines may take.
TypeOK ==
  /\ state \in {"Init", "Running", "ShuttingDown", "Terminate"}
  /\ serve \in {"init", "accept", "add", "closing", "wait", "waiting",
                "terminate", "done", "panicked"}
  /\ sig \in {"idle", "check", "mark", "close"}
  /\ hammer \in {"off", "start", "sleep", "left", "loop", "dec", "rel",
                 "broke", "recovered"}
  /\ stopper \in {"recv", "mark", "close", "send", "done"}
  /\ stopped \in BOOLEAN
  /\ lisOpen \in BOOLEAN
  /\ lclose \in [ListenerClosers -> {"out", "test", "send", "recv", "ret"}]
  /\ conn \in [Conns -> {"new", "accepted", "serving"}]
  /\ closed \in [Conns -> BOOLEAN]
  /\ mutex \in [Conns -> Closers \cup {NoOne}]
  /\ cclose \in [Conns -> [Closers -> {"out", "lock", "crit", "rel", "unlock",
                                       "sock", "ret", "panic"}]]
  /\ wg \in Int
  /\ waiters \in Nat

\* The timeout has expired and serverTimeout may have called wg.Done.
Hammered == hammer \in {"loop", "dec", "rel", "broke", "recovered"}

\* A connection counted by Accept for which no Close has yet called wg.Done.
Held(c) ==
  /\ conn[c] = "serving"
  /\ ~closed[c]
  /\ \A k \in Closers : cclose[c][k] \notin {"rel", "unlock", "panic"}

HeldConns == {c \in Conns : Held(c)}

\* Until the timeout expires the WaitGroup counts exactly the connections
\* that are held, whoever closes them and however often (conn.go).
WgCountsConnections == ~Hammered => wg = Cardinality(HeldConns)

\* Until the timeout expires Serve returns only when no connection is held:
\* wg.Wait drains what was accepted (mservices.go:92-94).
ServeReturnsDrained ==
  (serve \in {"terminate", "done"} /\ ~Hammered) => HeldConns = {}

\* The WaitGroup panics, in Serve or in a Close that then keeps the mutex of
\* its connection, only once serverTimeout is calling Done.
PanicOnlyWhenHammered ==
  ((serve = "panicked") \/ (\E c \in Conns, k \in Closers : cclose[c][k] = "panic"))
    => Hammered

\* No caller of graceListener.Close is left waiting on the channel once the
\* stopper goroutine has given its answer (listener.go).
NoCloserStranded ==
  stopper = "done" => \A x \in ListenerClosers : lclose[x] \notin {"send", "recv"}

\* "shutdown closes the listener so that no new connections are accepted":
\* none is once shutdown's call of Close has returned.
NoAcceptAfterShutdown ==
  [][lclose["shutdown"] = "ret"
       => \A c \in Conns : conn[c] = "new" => conn'[c] = "new"]_vars

\* srv.state goes Init, Running, ShuttingDown, Terminate, although shutdown's
\* check and its write are two unlocked steps: the only step back is that write
\* over the Terminate of a Serve that Accept's own failure has ended in between,
\* and shutdown gets there once, so that serverTimeout is started once.
StateOrder == [s \in {"Init", "Running", "ShuttingDown", "Terminate"} |->
  CASE s = "Init" -> 0 [] s = "Running" -> 1
    [] s = "ShuttingDown" -> 2 [] s = "Terminate" -> 3]
Overtaken ==
  /\ AcceptMayFail
  /\ sig = "mark" /\ state = "Terminate" /\ state' = "ShuttingDown"
StateNeverGoesBack ==
  [][ /\ StateOrder[state] <= StateOrder[state'] \/ Overtaken
      /\ (sig = "mark" /\ sig' = "close") => hammer = "off" /\ lclose["shutdown"] = "out" ]_vars

\* Once shutdown has begun, and every connection ends, Serve returns.
ShutdownCompletes == state = "ShuttingDown" ~> serve = "done"

\* "a connection could hang": when no connection is being closed any more, a
\* Serve blocked in Wait gets out of it once the timeout expires.
Hung == \A c \in Conns, k \in Closers : cclose[c][k] \notin {"crit", "rel"}
HammerReleasesWait ==
  [](hammer = "loop" /\ serve = "waiting" /\ wg > 0 /\ []Hung
       => <>(serve # "waiting"))

\* "serverTimeout forces the server to shutdown in a given timeout - whether
\* it finished outstanding requests or not" (mservices.go:340): Serve ends,
\* if only by a panic, once the timeout has expired.
TimeoutForcesShutdown == hammer = "loop" ~> serve \in {"done", "panicked"}

(* What the service promises, without its goroutines *)
phaseBar ==
  CASE serve = "init" -> "starting"
    [] serve \in {"accept", "add"} -> "serving"
    [] serve \in {"closing", "wait", "waiting", "terminate"} -> "draining"
    [] serve = "done" -> "terminated"
    [] serve = "panicked" -> "dead"

pastBar == {c \in Conns : conn[c] = "serving" /\ ~Held(c)}

Drain == INSTANCE GraceDrain WITH
  phase <- phaseBar, live <- HeldConns, past <- pastBar, forced <- Hammered

\* The service is an implementation of GraceDrain.
ImplementsDrain == Drain!AbsSpec

-----------------------------------------------------------------------------
(* The inductive invariant behind the safety properties *)

\* Where a Close stands between taking the mutex and giving it back.
InMutex == {"crit", "rel", "unlock", "panic"}

\* graceConn.m: its holder is the only goroutine between Lock and Unlock, and
\* closed is set by the one Close that called Done.
MutexInv ==
  \A c \in Conns :
    /\ closed[c] => conn[c] = "serving"
    /\ \A k \in Closers :
         /\ cclose[c][k] # "out" => conn[c] = "serving"
         /\ cclose[c][k] \in InMutex => mutex[c] = k /\ ~closed[c]

\* Only Serve waits on the WaitGroup.
WaiterInv == waiters <= 1 /\ (waiters > 0 => serve = "waiting")

\* shutdown gets past its check once: serverTimeout is started once, by it, and
\* it closes the listener once.
OnceInv ==
  /\ serve = "init" => state = "Init" /\ sig # "mark"
  /\ (state \in {"Init", "Running"} \/ sig = "mark") =>
       hammer = "off" /\ lclose["shutdown"] = "out"

\* Serve is past wg.Wait, or has been let out of it.
WaitOver ==
  \/ serve \in {"terminate", "done"}
  \/ serve = "waiting" /\ waiters = 0

\* Until the timeout expires no WaitGroup call panics: the counter is the
\* number of held connections, it is zero once the wait is over, and only the
\* Close of the last connection is about to release the waiter.
CountInv ==
  ~Hammered =>
    /\ serve # "panicked"
    /\ wg = Cardinality(HeldConns)
    /\ WaitOver => wg = 0
    /\ \A c \in Conns, k \in Closers :
         /\ cclose[c][k] # "panic"
         /\ cclose[c][k] = "rel" =>
              /\ wg = 0
              /\ waiters > 0
              /\ \A d \in Conns, j \in Closers : cclose[d][j] = "rel" => d = c /\ j = k

\* The parts together are inductive, and the safety properties above follow.
IInv == TypeOK /\ MutexInv /\ WaiterInv /\ OnceInv /\ CountInv

\* graceListener: the socket is closed before the stopper answers; it was asked
\* by the shutdown that waits for it, or Serve has stopped accepting.
StopInv ==
  /\ stopped => stopper \notin {"recv", "mark"}
  /\ stopper \in {"send", "done"} => ~lisOpen
  /\ stopper \in {"mark", "close"} => lclose["shutdown"] = "recv" \/ lclose["Serve"] # "out"
  /\ lclose["shutdown"] = "ret" => ~lisOpen \/ lclose["Serve"] # "out"
  /\ lclose["Serve"] # "out" => serve \notin {"init", "accept", "add"}
  /\ sig # "close" => lclose["shutdown"] \in {"out", "ret"}

\* If Accept does not fail of itself, Serve accepts until shutdown's write of
\* srv.state, and shutdown's check still holds when it writes.
RunningInv ==
  /\ sig = "mark" => state = "Running"
  /\ serve = "init" <=> state = "Init"
  /\ state \in {"Init", "Running"} =>
       /\ serve \in {"init", "accept", "add", "panicked"}
       /\ lisOpen
       /\ \A x \in ListenerClosers : lclose[x] = "out"
       /\ stopper = "recv"

\* If Accept does not fail of itself, shutdown alone uses the channel el.stop:
\* the call by Serve finds that the listener was stopped.
CloseInv ==
  /\ stopped <=> stopper \in {"close", "send", "done"}
  /\ ~lisOpen => stopped
  /\ lclose["Serve"] \in {"out", "test", "ret"}
  /\ lclose["Serve"] # "out" => stopped
  /\ stopper = "recv" => lclose["shutdown"] \in {"out", "test", "send"}
  /\ stopper \in {"mark", "close", "send"} => lclose["shutdown"] = "recv"
  /\ stopper = "done" => lclose["shutdown"] = "ret"
=============================================================================
