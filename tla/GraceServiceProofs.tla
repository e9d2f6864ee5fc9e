------------------------- MODULE GraceServiceProofs -------------------------
(***************************************************************************)
(* Theorems about GraceService for every set of connections and closers,   *)
(* with and without the shutdown timeout: type correctness, the exact      *)
(* count of the WaitGroup, the drained return of Serve, and that the       *)
(* service implements GraceDrain; then that what has been stopped stays    *)
(* stopped: no connection is accepted once shutdown's call of Close has    *)
(* returned, and srv.state never goes back and nobody who closes the       *)
(* listener is left waiting, unless Accept fails of itself.                *)
(***************************************************************************)
EXTENDS GraceService, FiniteSetTheorems, TLAPS

\* The steps that touch neither a connection nor the WaitGroup.
ControlStep ==
  \/ ServeRunning \/ AcceptError \/ ServeReturns \/ ServeTerminate
  \/ ShutdownCheck \/ ShutdownMark \/ ShutdownReturns \/ SignalReceived
  \/ StopperMark \/ StopperClose
  \/ HammerStart \/ HammerFires \/ HammerCheck
  \/ \E x \in ListenerClosers :
       CloseTest(x) \/ StopAsked(x) \/ StopAnswered(x)
       \/ \E y \in ListenerClosers : StopCrossed(x, y)

\* Every step of the service is one of the steps of the goroutines, taken by
\* a live process.
LEMMA NextCases ==
  ASSUME Next
  PROVE  /\ Alive
         /\ \/ ControlStep
            \/ WaitEnter \/ WaitWake \/ HammerDone \/ HammerRelease
            \/ \E c \in Conns : AcceptTCP(c) \/ AcceptAdd(c)
            \/ \E c \in Conns, k \in Closers :
                 \/ ConnCloseCall(c, k) \/ ConnCloseLock(c, k)
                 \/ ConnCloseDone(c, k) \/ ConnCloseRelease(c, k)
                 \/ ConnCloseUnlock(c, k) \/ ConnCloseSocket(c, k)
<1>1. CASE ServeStep
  BY <1>1 DEF ServeStep, ControlStep, ListenerClosers
<1>2. CASE ClientConnects
  BY <1>2 DEF ClientConnects
<1>3. CASE ShutdownStep
  BY <1>3 DEF ShutdownStep, ControlStep, ListenerClosers
<1>4. CASE SignalStep \/ StopperStep \/ HammerStep
  BY <1>4 DEF SignalStep, StopperStep, HammerStep, ControlStep
<1>5. CASE \E c \in Conns, k \in Closers : ConnStep(c, k) \/ ConnEnds(c, k)
  BY <1>5 DEF ConnStep, ConnEnds
<1>6. QED
  BY <1>1, <1>2, <1>3, <1>4, <1>5 DEF Next

-----------------------------------------------------------------------------
(* Type correctness *)

\* Nothing has begun.
LEMMA InitTyped == Init => TypeOK
<1> SUFFICES ASSUME Init PROVE TypeOK
  OBVIOUS
<1>1. /\ state \in {"Init", "Running", "ShuttingDown", "Terminate"}
      /\ serve = "init" /\ sig = "idle" /\ hammer = "off" /\ stopper = "recv"
      /\ wg \in Int /\ waiters \in Nat
  BY DEF Init
<1>2. stopped \in BOOLEAN /\ lisOpen \in BOOLEAN
  BY DEF Init
<1>3. lclose \in [ListenerClosers -> {"out", "test", "send", "recv", "ret"}]
  BY DEF Init
<1>4. /\ conn \in [Conns -> {"new", "accepted", "serving"}]
      /\ closed \in [Conns -> BOOLEAN]
      /\ mutex \in [Conns -> Closers \cup {NoOne}]
  BY DEF Init
<1>5. cclose \in [Conns -> [Closers -> {"out", "lock", "crit", "rel", "unlock",
                                       "sock", "ret", "panic"}]]
  BY DEF Init
<1> QED
  BY <1>1, <1>2, <1>3, <1>4, <1>5 DEF TypeOK

\* A step that leaves connections and the WaitGroup alone keeps the types.
LEMMA ControlTyped ==
  ASSUME TypeOK, ControlStep
  PROVE  TypeOK'
<1> USE DEF TypeOK, connVars, wgVars, lisVars, ListenerClosers
<1>1. CASE ServeRunning \/ AcceptError \/ ServeReturns \/ ServeTerminate
  BY <1>1 DEF ServeRunning, AcceptError, ServeReturns, ServeTerminate
<1>2. CASE ShutdownCheck \/ ShutdownMark \/ ShutdownReturns \/ SignalReceived
  BY <1>2 DEF ShutdownCheck, ShutdownMark, ShutdownReturns, SignalReceived
<1>3. CASE StopperMark \/ StopperClose
  BY <1>3 DEF StopperMark, StopperClose
<1>4. CASE HammerStart \/ HammerFires \/ HammerCheck
  BY <1>4 DEF HammerStart, HammerFires, HammerCheck
<1>5. ASSUME NEW x \in ListenerClosers,
             CloseTest(x) \/ StopAsked(x) \/ StopAnswered(x)
      PROVE  TypeOK'
  BY <1>5 DEF CloseTest, StopAsked, StopAnswered
<1>6. ASSUME NEW x \in ListenerClosers, NEW y \in ListenerClosers,
             StopCrossed(x, y)
      PROVE  TypeOK'
  BY <1>6 DEF StopCrossed
<1>7. QED
  BY <1>1, <1>2, <1>3, <1>4, <1>5, <1>6 DEF ControlStep

\* Every step keeps the types.
LEMMA NextTyped ==
  ASSUME TypeOK, [Next]_vars
  PROVE  TypeOK'
<1> USE DEF TypeOK, connVars, wgVars, lisVars
<1>1. CASE UNCHANGED vars
  BY <1>1 DEF vars
<1>2. CASE ControlStep
  BY <1>2, ControlTyped
<1>3. CASE WaitEnter \/ WaitWake
  BY <1>3 DEF WaitEnter, WaitWake
<1>4. CASE HammerDone \/ HammerRelease
  BY <1>4 DEF HammerDone, HammerRelease, DoneOutcome
<1>5. ASSUME NEW c \in Conns, AcceptTCP(c) \/ AcceptAdd(c)
      PROVE  TypeOK'
  BY <1>5 DEF AcceptTCP, AcceptAdd
<1>6. ASSUME NEW c \in Conns, NEW k \in Closers,
             \/ ConnCloseCall(c, k) \/ ConnCloseLock(c, k)
             \/ ConnCloseSocket(c, k) \/ ConnCloseUnlock(c, k)
      PROVE  TypeOK'
  <2>1. CASE ConnCloseCall(c, k)
    BY <2>1 DEF ConnCloseCall
  <2>2. CASE ConnCloseLock(c, k)
    BY <2>2 DEF ConnCloseLock
  <2>3. CASE ConnCloseSocket(c, k)
    BY <2>3 DEF ConnCloseSocket
  <2>4. CASE ConnCloseUnlock(c, k)
    BY <2>4 DEF ConnCloseUnlock
  <2>5. QED
    BY <1>6, <2>1, <2>2, <2>3, <2>4
<1>7. ASSUME NEW c \in Conns, NEW k \in Closers,
             ConnCloseDone(c, k) \/ ConnCloseRelease(c, k)
      PROVE  TypeOK'
  BY <1>7 DEF ConnCloseDone, ConnCloseRelease, DoneOutcome
<1>8. QED
  BY <1>1, <1>2, <1>3, <1>4, <1>5, <1>6, <1>7, NextCases

\* The fields and program counters keep their types.
THEOREM TypeCorrect == Spec => []TypeOK
<1>1. Init => TypeOK
  BY InitTyped
<1>2. TypeOK /\ [Next]_vars => TypeOK'
  BY NextTyped
<1>3. QED
  BY <1>1, <1>2, PTL DEF Spec

-----------------------------------------------------------------------------
(* What the steps leave alone *)

\* A control step changes neither a connection nor the WaitGroup; Serve does
\* not pass its wait in it, and the timeout does not un-expire.
LEMMA ControlFrame ==
  ASSUME TypeOK, OnceInv, ControlStep
  PROVE  /\ UNCHANGED <<connVars, wgVars>>
         /\ Hammered => Hammered'
         /\ serve' \in {"terminate", "done"} => serve \in {"terminate", "done"}
         /\ serve' = "waiting" <=> serve = "waiting"
         /\ serve' = "panicked" => serve = "panicked"
<1> USE DEF Hammered
<1>1. CASE ServeRunning \/ AcceptError \/ ServeReturns \/ ServeTerminate
  BY <1>1 DEF ServeRunning, AcceptError, ServeReturns, ServeTerminate
<1>2. CASE ShutdownCheck \/ ShutdownReturns \/ SignalReceived
  BY <1>2 DEF ShutdownCheck, ShutdownReturns, SignalReceived
<1>3. CASE ShutdownMark
  BY <1>3 DEF ShutdownMark, OnceInv
<1>4. CASE StopperMark \/ StopperClose
  BY <1>4 DEF StopperMark, StopperClose
<1>5. CASE HammerStart \/ HammerFires \/ HammerCheck
  BY <1>5 DEF HammerStart, HammerFires, HammerCheck
<1>6. ASSUME NEW x \in ListenerClosers,
             CloseTest(x) \/ StopAsked(x) \/ StopAnswered(x)
      PROVE  UNCHANGED <<serve, hammer, connVars, wgVars>>
  BY <1>6 DEF CloseTest, StopAsked, StopAnswered
<1>7. ASSUME NEW x \in ListenerClosers, NEW y \in ListenerClosers,
             StopCrossed(x, y)
      PROVE  UNCHANGED <<serve, hammer, connVars, wgVars>>
  BY <1>7 DEF StopCrossed
<1>8. QED
  BY <1>1, <1>2, <1>3, <1>4, <1>5, <1>6, <1>7 DEF ControlStep

\* The held connections depend on the connections only.
LEMMA HeldFrame ==
  ASSUME UNCHANGED connVars
  PROVE  HeldConns' = HeldConns
BY DEF connVars, HeldConns, Held

\* There are finitely many held connections.
LEMMA HeldFinite ==
  /\ IsFiniteSet(HeldConns)
  /\ Cardinality(HeldConns) \in Nat
<1>1. HeldConns \in SUBSET Conns
  BY DEF HeldConns
<1>2. QED
  BY <1>1, ConstantsAssumption, FS_Subset, FS_CardinalityType DEF ConstantsAssumption

\* Accept's Add counts one more connection as held.
LEMMA AddHolds ==
  ASSUME TypeOK, MutexInv, NEW c \in Conns, AcceptAdd(c), serve' # "panicked"
  PROVE  /\ c \notin HeldConns
         /\ HeldConns' = HeldConns \cup {c}
         /\ Cardinality(HeldConns') = Cardinality(HeldConns) + 1
<1>1. /\ conn[c] = "accepted"
      /\ conn' = [conn EXCEPT ![c] = "serving"]
      /\ UNCHANGED <<closed, cclose>>
  BY DEF AcceptAdd
<1>2. c \notin HeldConns
  BY <1>1 DEF HeldConns, Held
<1>3. Held(c)'
  <2>1. ~closed[c]
    BY <1>1 DEF MutexInv
  <2>2. \A k \in Closers : cclose[c][k] = "out"
    BY <1>1 DEF MutexInv
  <2>3. conn'[c] = "serving"
    BY <1>1 DEF TypeOK
  <2>4. QED
    BY <1>1, <2>1, <2>2, <2>3 DEF Held
<1>4. \A d \in Conns \ {c} : Held(d)' <=> Held(d)
  BY <1>1 DEF Held, TypeOK
<1>5. HeldConns' = HeldConns \cup {c}
  BY <1>3, <1>4 DEF HeldConns
<1>6. QED
  BY <1>2, <1>5, HeldFinite, FS_AddElement

\* The Close that calls Done closes a held connection, which is then no
\* longer held.
LEMMA DoneReleases ==
  ASSUME TypeOK, MutexInv, NEW c \in Conns, NEW k \in Closers,
         ConnCloseDone(c, k)
  PROVE  /\ c \in HeldConns
         /\ HeldConns' = HeldConns \ {c}
         /\ Cardinality(HeldConns') = Cardinality(HeldConns) - 1
         /\ Cardinality(HeldConns) > 0
<1>1. /\ cclose[c][k] = "crit"
      /\ UNCHANGED <<conn, closed>>
  BY DEF ConnCloseDone
<1>2. c \in HeldConns
  <2>1. conn[c] = "serving" /\ ~closed[c] /\ mutex[c] = k
    BY <1>1 DEF MutexInv, InMutex
  <2>2. \A j \in Closers : cclose[c][j] \notin {"rel", "unlock", "panic"}
    BY <1>1, <2>1 DEF MutexInv, InMutex
  <2>3. QED
    BY <2>1, <2>2 DEF HeldConns, Held
<1>3. ~Held(c)'
  <2>1. cclose'[c][k] \in {"rel", "unlock", "panic"}
    BY DEF ConnCloseDone, DoneOutcome, TypeOK
  <2>2. QED
    BY <2>1 DEF Held
<1>4. \A d \in Conns \ {c} : Held(d)' <=> Held(d)
  BY <1>1 DEF Held, TypeOK, ConnCloseDone
<1>5. HeldConns' = HeldConns \ {c}
  BY <1>3, <1>4 DEF HeldConns
<1>6. Cardinality(HeldConns') = Cardinality(HeldConns) - 1
  BY <1>2, <1>5, HeldFinite, FS_RemoveElement
<1>7. Cardinality(HeldConns) > 0
  BY <1>2, HeldFinite, FS_EmptySet
<1>8. QED
  BY <1>2, <1>5, <1>6, <1>7

\* The other steps of Close do not change which connections are held.
LEMMA CloseFrame ==
  ASSUME TypeOK, MutexInv, NEW c \in Conns, NEW k \in Closers,
         \/ ConnCloseCall(c, k) \/ ConnCloseLock(c, k) \/ ConnCloseRelease(c, k)
         \/ ConnCloseUnlock(c, k) \/ ConnCloseSocket(c, k)
  PROVE  HeldConns' = HeldConns
<1> SUFFICES \A d \in Conns : Held(d)' <=> Held(d)
  BY DEF HeldConns
<1> USE DEF Held, TypeOK, MutexInv, InMutex
<1>1. CASE ConnCloseCall(c, k)
  BY <1>1 DEF ConnCloseCall
<1>2. CASE ConnCloseLock(c, k)
  BY <1>2 DEF ConnCloseLock
<1>3. CASE ConnCloseRelease(c, k)
  BY <1>3 DEF ConnCloseRelease
<1>4. CASE ConnCloseUnlock(c, k)
  BY <1>4 DEF ConnCloseUnlock
<1>5. CASE ConnCloseSocket(c, k)
  BY <1>5 DEF ConnCloseSocket
<1>6. QED
  BY <1>1, <1>2, <1>3, <1>4, <1>5

-----------------------------------------------------------------------------
(* The inductive invariant *)

\* The invariant holds before ListenAndServe's goroutines have done anything.
LEMMA InitInvariant == Init => IInv
<1> SUFFICES ASSUME Init PROVE IInv
  OBVIOUS
<1>1. TypeOK
  BY InitTyped
<1>2. MutexInv
  BY DEF Init, MutexInv, InMutex
<1>3. WaiterInv /\ OnceInv
  BY DEF Init, WaiterInv, OnceInv, ListenerClosers
<1>4. CountInv
  <2>1. HeldConns = {}
    BY DEF Init, HeldConns, Held
  <2>2. wg = Cardinality(HeldConns)
    BY <2>1, FS_EmptySet DEF Init
  <2>3. \A c \in Conns, k \in Closers : cclose[c][k] = "out"
    BY DEF Init
  <2>4. QED
    BY <2>2, <2>3 DEF Init, CountInv
<1>5. QED
  BY <1>1, <1>2, <1>3, <1>4 DEF IInv

\* shutdown gets past its check once, whatever the other goroutines do.
LEMMA OnceStep ==
  ASSUME TypeOK, OnceInv, [Next]_vars
  PROVE  OnceInv'
<1> USE DEF OnceInv, TypeOK, lisVars, ListenerClosers
<1>1. CASE UNCHANGED vars
  BY <1>1 DEF vars
<1>2. CASE ControlStep
  <2>1. CASE ServeRunning \/ AcceptError \/ ServeReturns \/ ServeTerminate
    BY <2>1 DEF ServeRunning, AcceptError, ServeReturns, ServeTerminate
  <2>2. CASE ShutdownCheck \/ ShutdownMark \/ ShutdownReturns \/ SignalReceived
    BY <2>2 DEF ShutdownCheck, ShutdownMark, ShutdownReturns, SignalReceived
  <2>3. CASE StopperMark \/ StopperClose
    BY <2>3 DEF StopperMark, StopperClose
  <2>4. CASE HammerStart \/ HammerFires \/ HammerCheck
    BY <2>4 DEF HammerStart, HammerFires, HammerCheck
  <2>5. CASE \E x \in ListenerClosers :
               CloseTest(x) \/ StopAsked(x) \/ StopAnswered(x)
               \/ \E y \in ListenerClosers : StopCrossed(x, y)
    BY <2>5 DEF CloseTest, StopAsked, StopAnswered, StopCrossed
  <2>6. QED
    BY <1>2, <2>1, <2>2, <2>3, <2>4, <2>5 DEF ControlStep
<1>3. CASE WaitEnter \/ WaitWake \/ HammerDone \/ HammerRelease
  BY <1>3 DEF WaitEnter, WaitWake, HammerDone, HammerRelease
<1>4. CASE \E c \in Conns : AcceptTCP(c) \/ AcceptAdd(c)
  BY <1>4 DEF AcceptTCP, AcceptAdd
<1>5. CASE \E c \in Conns, k \in Closers :
             \/ ConnCloseCall(c, k) \/ ConnCloseLock(c, k)
             \/ ConnCloseDone(c, k) \/ ConnCloseRelease(c, k)
             \/ ConnCloseUnlock(c, k) \/ ConnCloseSocket(c, k)
  BY <1>5 DEF ConnCloseCall, ConnCloseLock, ConnCloseDone, ConnCloseRelease,
              ConnCloseUnlock, ConnCloseSocket
<1>6. QED
  BY <1>1, <1>2, <1>3, <1>4, <1>5, NextCases

\* graceConn.m is held by one goroutine, which alone may set closed.
LEMMA MutexStep ==
  ASSUME TypeOK, OnceInv, MutexInv, [Next]_vars
  PROVE  MutexInv'
<1>1. CASE UNCHANGED connVars
  BY <1>1 DEF connVars, MutexInv, InMutex
<1>2. CASE ControlStep
  BY <1>2, <1>1, ControlFrame
<1>3. CASE WaitEnter \/ WaitWake \/ HammerDone \/ HammerRelease
  BY <1>3, <1>1 DEF WaitEnter, WaitWake, HammerDone, HammerRelease
<1>4. ASSUME NEW c \in Conns, AcceptTCP(c) \/ AcceptAdd(c)
      PROVE  MutexInv'
  BY <1>4 DEF AcceptTCP, AcceptAdd, MutexInv, InMutex, TypeOK
<1>5. ASSUME NEW c \in Conns, NEW k \in Closers,
             \/ ConnCloseCall(c, k) \/ ConnCloseLock(c, k)
             \/ ConnCloseDone(c, k) \/ ConnCloseRelease(c, k)
             \/ ConnCloseUnlock(c, k) \/ ConnCloseSocket(c, k)
      PROVE  MutexInv'
  <2> USE DEF MutexInv, InMutex, TypeOK
  <2>1. CASE ConnCloseCall(c, k)
    BY <2>1 DEF ConnCloseCall
  <2>2. CASE ConnCloseLock(c, k)
    <3>1. CASE closed[c]
      BY <2>2, <3>1 DEF ConnCloseLock
    <3>2. CASE ~closed[c]
      <4>1. /\ mutex[c] = NoOne
            /\ cclose' = [cclose EXCEPT ![c][k] = "crit"]
            /\ mutex' = [mutex EXCEPT ![c] = k]
            /\ UNCHANGED <<conn, closed>>
        BY <2>2, <3>2 DEF ConnCloseLock
      <4>2. \A j \in Closers : cclose[c][j] \notin {"crit", "rel", "unlock", "panic"}
        BY <4>1, ConstantsAssumption DEF ConstantsAssumption
      <4>3. conn[c] = "serving"
        BY <2>2 DEF ConnCloseLock
      <4>4. QED
        BY <3>2, <4>1, <4>2, <4>3
    <3>3. QED
      BY <3>1, <3>2
  <2>3. CASE ConnCloseDone(c, k)
    BY <2>3 DEF ConnCloseDone, DoneOutcome
  <2>4. CASE ConnCloseRelease(c, k)
    BY <2>4 DEF ConnCloseRelease
  <2>5. CASE ConnCloseUnlock(c, k)
    BY <2>5 DEF ConnCloseUnlock
  <2>6. CASE ConnCloseSocket(c, k)
    BY <2>6 DEF ConnCloseSocket
  <2>7. QED
    BY <1>5, <2>1, <2>2, <2>3, <2>4, <2>5, <2>6
<1>6. QED
  BY <1>1, <1>2, <1>3, <1>4, <1>5, NextCases DEF vars

\* There is at most one waiter, and it is Serve.
LEMMA WaiterStep ==
  ASSUME TypeOK, OnceInv, WaiterInv, [Next]_vars
  PROVE  WaiterInv'
<1> USE DEF WaiterInv
<1>1. CASE UNCHANGED vars
  BY <1>1 DEF vars, wgVars
<1>2. CASE ControlStep
  BY <1>2, ControlFrame DEF wgVars
<1>3. CASE WaitEnter \/ WaitWake \/ HammerDone \/ HammerRelease
  BY <1>3 DEF WaitEnter, WaitWake, HammerDone, HammerRelease, TypeOK, wgVars
<1>4. ASSUME NEW c \in Conns, AcceptTCP(c) \/ AcceptAdd(c)
      PROVE  WaiterInv'
  BY <1>4 DEF AcceptTCP, AcceptAdd, wgVars, TypeOK
<1>5. ASSUME NEW c \in Conns, NEW k \in Closers,
             \/ ConnCloseCall(c, k) \/ ConnCloseLock(c, k)
             \/ ConnCloseDone(c, k) \/ ConnCloseRelease(c, k)
             \/ ConnCloseUnlock(c, k) \/ ConnCloseSocket(c, k)
      PROVE  WaiterInv'
  BY <1>5 DEF ConnCloseCall, ConnCloseLock, ConnCloseDone, ConnCloseRelease,
              ConnCloseUnlock, ConnCloseSocket, wgVars
<1>6. QED
  BY <1>1, <1>2, <1>3, <1>4, <1>5, NextCases

\* Until the timeout expires the counter stays exact and nothing panics.
LEMMA CountStep ==
  ASSUME IInv, [Next]_vars
  PROVE  CountInv'
<1> SUFFICES ASSUME ~Hammered' PROVE CountInv'
  BY DEF CountInv
<1> USE DEF IInv
<1>1. CASE UNCHANGED vars
  <2>1. HeldConns' = HeldConns /\ (Hammered' <=> Hammered) /\ (WaitOver' <=> WaitOver)
    BY <1>1, HeldFrame DEF vars, Hammered, WaitOver, wgVars
  <2>2. QED
    BY <1>1, <2>1 DEF CountInv, vars, connVars, wgVars
<1>2. CASE ControlStep
  <2>1. ~Hammered /\ HeldConns' = HeldConns
    BY <1>2, ControlFrame, HeldFrame
  <2>2. WaitOver' => WaitOver
    BY <1>2, ControlFrame DEF WaitOver, wgVars
  <2>3. QED
    BY <1>2, <2>1, <2>2, ControlFrame DEF CountInv, connVars, wgVars
<1>3. CASE WaitEnter \/ WaitWake
  <2>1. ~Hammered /\ HeldConns' = HeldConns
    BY <1>3, HeldFrame DEF WaitEnter, WaitWake, Hammered
  <2>2. CASE WaitEnter
    BY <2>1, <2>2 DEF WaitEnter, CountInv, WaitOver, connVars, WaiterInv, TypeOK
  <2>3. CASE WaitWake
    BY <2>1, <2>3 DEF WaitWake, CountInv, WaitOver, connVars, wgVars
  <2>4. QED
    BY <1>3, <2>2, <2>3
<1>4. CASE HammerDone \/ HammerRelease
  BY <1>4 DEF HammerDone, HammerRelease, Hammered, DoneOutcome
<1>5. ASSUME NEW c \in Conns, AcceptTCP(c)
      PROVE  CountInv'
  <2>1. ~Hammered
    BY <1>5 DEF AcceptTCP, Hammered
  <2>2. HeldConns' = HeldConns
    BY <1>5 DEF AcceptTCP, HeldConns, Held, TypeOK
  <2>3. QED
    BY <1>5, <2>1, <2>2 DEF AcceptTCP, CountInv, WaitOver, wgVars
<1>6. ASSUME NEW c \in Conns, AcceptAdd(c)
      PROVE  CountInv'
  <2>1. ~Hammered
    BY <1>6 DEF AcceptAdd, Hammered
  <2>2. wg = Cardinality(HeldConns) /\ wg >= 0
    BY <2>1, HeldFinite DEF CountInv
  <2>3. serve' = "accept"
    BY <1>6, <2>2 DEF AcceptAdd, TypeOK
  <2>4. wg' = Cardinality(HeldConns')
    BY <1>6, <2>2, <2>3, AddHolds DEF AcceptAdd
  <2>5. \A d \in Conns, j \in Closers : cclose[d][j] # "rel"
    BY <1>6, <2>1 DEF AcceptAdd, CountInv, WaiterInv
  <2>6. QED
    BY <1>6, <2>1, <2>3, <2>4, <2>5 DEF AcceptAdd, CountInv, WaitOver
<1>7. ASSUME NEW c \in Conns, NEW k \in Closers, ConnCloseDone(c, k)
      PROVE  CountInv'
  <2>1. ~Hammered
    BY <1>7 DEF ConnCloseDone, Hammered
  <2>2. /\ wg = Cardinality(HeldConns)
        /\ wg > 0
        /\ wg' = wg - 1
        /\ wg' = Cardinality(HeldConns')
    BY <1>7, <2>1, DoneReleases DEF CountInv, ConnCloseDone
  <2>3. ~WaitOver /\ ~WaitOver'
    BY <1>7, <2>1, <2>2 DEF CountInv, ConnCloseDone, WaitOver
  <2>4. \A d \in Conns, j \in Closers : cclose[d][j] # "rel"
    BY <2>1, <2>2 DEF CountInv
  <2>5. /\ cclose'[c][k] = IF wg' = 0 /\ waiters > 0 THEN "rel" ELSE "unlock"
        /\ \A d \in Conns, j \in Closers :
              (d # c \/ j # k) => cclose'[d][j] = cclose[d][j]
    BY <1>7, <2>2 DEF ConnCloseDone, DoneOutcome, TypeOK
  <2>6. serve' = serve /\ waiters' = waiters
    BY <1>7 DEF ConnCloseDone
  <2>7. QED
    BY <2>1, <2>2, <2>3, <2>4, <2>5, <2>6 DEF CountInv
<1>8. ASSUME NEW c \in Conns, NEW k \in Closers, ConnCloseRelease(c, k)
      PROVE  CountInv'
  <2>1. ~Hammered
    BY <1>8 DEF ConnCloseRelease, Hammered
  <2>2. cclose[c][k] = "rel" /\ wg = 0 /\ waiters > 0
    BY <1>8, <2>1 DEF ConnCloseRelease, CountInv
  <2>3. /\ cclose' = [cclose EXCEPT ![c][k] = "unlock"]
        /\ UNCHANGED <<serve, wg>>
    BY <1>8, <2>2 DEF ConnCloseRelease, ReleaseValid
  <2>4. \A d \in Conns, j \in Closers : cclose'[d][j] \notin {"rel", "panic"}
    BY <2>1, <2>2, <2>3 DEF CountInv, TypeOK
  <2>5. HeldConns' = HeldConns
    BY <1>8, CloseFrame
  <2>6. QED
    BY <2>1, <2>2, <2>3, <2>4, <2>5 DEF CountInv
<1>9. ASSUME NEW c \in Conns, NEW k \in Closers,
             \/ ConnCloseCall(c, k) \/ ConnCloseLock(c, k)
             \/ ConnCloseUnlock(c, k) \/ ConnCloseSocket(c, k)
      PROVE  CountInv'
  <2>1. /\ ~Hammered
        /\ UNCHANGED <<serve, wg, waiters>>
    BY <1>9 DEF ConnCloseCall, ConnCloseLock, ConnCloseUnlock, ConnCloseSocket,
                Hammered, wgVars
  <2>2. HeldConns' = HeldConns
    BY <1>9, CloseFrame
  <2>3. \A d \in Conns, j \in Closers :
          cclose'[d][j] \in {"rel", "panic"} => cclose'[d][j] = cclose[d][j]
    BY <1>9 DEF ConnCloseCall, ConnCloseLock, ConnCloseUnlock, ConnCloseSocket, TypeOK
  <2>4. QED
    BY <2>1, <2>2, <2>3 DEF CountInv, WaitOver
<1>10. QED
  BY <1>1, <1>2, <1>3, <1>4, <1>5, <1>6, <1>7, <1>8, <1>9, NextCases

\* IInv holds in every reachable state.
THEOREM Invariant == Spec => []IInv
<1>1. Init => IInv
  BY InitInvariant
<1>2. IInv /\ [Next]_vars => IInv'
  BY NextTyped, MutexStep, WaiterStep, OnceStep, CountStep DEF IInv
<1>3. QED
  BY <1>1, <1>2, PTL DEF Spec

\* Until the timeout expires the WaitGroup counts the held connections.
THEOREM CountCorrect == Spec => []WgCountsConnections
<1>1. IInv => WgCountsConnections
  BY DEF IInv, CountInv, WgCountsConnections
<1>2. QED
  BY <1>1, Invariant, PTL

\* Until the timeout expires Serve returns only when no connection is held.
THEOREM DrainCorrect == Spec => []ServeReturnsDrained
<1>1. IInv => ServeReturnsDrained
  <2> SUFFICES ASSUME IInv, serve \in {"terminate", "done"}, ~Hammered
               PROVE  HeldConns = {}
    BY DEF ServeReturnsDrained
  <2>1. Cardinality(HeldConns) = 0
    BY DEF IInv, CountInv, WaitOver
  <2>2. QED
    BY <2>1, HeldFinite, FS_EmptySet
<1>2. QED
  BY <1>1, Invariant, PTL

\* The WaitGroup panics only once the timeout has expired.
THEOREM PanicCorrect == Spec => []PanicOnlyWhenHammered
<1>1. IInv => PanicOnlyWhenHammered
  BY DEF IInv, CountInv, PanicOnlyWhenHammered
<1>2. QED
  BY <1>1, Invariant, PTL

-----------------------------------------------------------------------------
(* The service implements GraceDrain *)

\* What has finished depends on the connections only.
LEMMA PastFrame ==
  ASSUME UNCHANGED connVars
  PROVE  pastBar' = pastBar
BY DEF connVars, pastBar, Held

\* The initial states of the service are those of GraceDrain.
LEMMA InitRefines == Init => Drain!AbsInit
<1> SUFFICES ASSUME Init PROVE Drain!AbsInit
  OBVIOUS
<1>1. phaseBar = "starting"
  BY DEF Init, phaseBar
<1>2. HeldConns = {} /\ pastBar = {}
  BY DEF Init, HeldConns, pastBar, Held
<1>3. Hammered = FALSE
  BY DEF Init, Hammered
<1>4. QED
  BY <1>1, <1>2, <1>3 DEF Drain!AbsInit

\* A step outside the connections and the WaitGroup is a step of GraceDrain
\* between its phases, the expiry of the timeout, or no step of it.
LEMMA ControlRefines ==
  ASSUME IInv, ControlStep
  PROVE  [Drain!AbsNext]_Drain!absVars
<1> USE DEF IInv, Drain!AbsNext, Drain!absVars
<1>1. HeldConns' = HeldConns /\ pastBar' = pastBar
  BY ControlFrame, HeldFrame, PastFrame
<1>2. CASE ServeRunning
  BY <1>1, <1>2 DEF ServeRunning, phaseBar, Hammered, Drain!Start
<1>3. CASE AcceptError
  BY <1>1, <1>3 DEF AcceptError, phaseBar, Hammered, Drain!StopAdmitting
<1>4. CASE ServeReturns
  BY <1>1, <1>4 DEF ServeReturns, phaseBar, Hammered
<1>5. CASE ServeTerminate
  <2>1. HeldConns = {} \/ Hammered
    <3>1. ASSUME ~Hammered PROVE HeldConns = {}
      BY <1>5, <3>1, HeldFinite, FS_EmptySet DEF ServeTerminate, CountInv, WaitOver
    <3>2. QED
      BY <3>1
  <2>2. QED
    BY <1>1, <1>5, <2>1 DEF ServeTerminate, phaseBar, Hammered, Drain!Terminate
<1>6. CASE ShutdownCheck \/ ShutdownReturns \/ SignalReceived
  BY <1>1, <1>6 DEF ShutdownCheck, ShutdownReturns, SignalReceived, phaseBar, Hammered
<1>7. CASE ShutdownMark
  BY <1>1, <1>7 DEF ShutdownMark, OnceInv, phaseBar, Hammered
<1>8. CASE StopperMark \/ StopperClose
  BY <1>1, <1>8 DEF StopperMark, StopperClose, phaseBar, Hammered
<1>9. CASE HammerFires
  BY <1>1, <1>9 DEF HammerFires, phaseBar, Hammered, Drain!Force
<1>10. CASE HammerStart \/ HammerCheck
  <2>1. serve' = serve
    BY <1>10 DEF HammerStart, HammerCheck
  <2>2. phaseBar' = phaseBar
    BY <2>1 DEF phaseBar
  <2>3. Hammered' <=> Hammered
    BY <1>10 DEF HammerStart, HammerCheck, Hammered
  <2>4. QED
    BY <1>1, <2>2, <2>3
<1>11. CASE \E x \in ListenerClosers :
              CloseTest(x) \/ StopAsked(x) \/ StopAnswered(x)
              \/ \E y \in ListenerClosers : StopCrossed(x, y)
  BY <1>1, <1>11 DEF CloseTest, StopAsked, StopAnswered, StopCrossed, phaseBar, Hammered
<1>12. QED
  BY <1>2, <1>3, <1>4, <1>5, <1>6, <1>7, <1>8, <1>9, <1>10, <1>11 DEF ControlStep

\* Every step of the service is a step of GraceDrain or no step of it.
LEMMA StepRefines ==
  ASSUME IInv, IInv', [Next]_vars
  PROVE  [Drain!AbsNext]_Drain!absVars
<1> USE DEF IInv, Drain!AbsNext, Drain!absVars
<1>1. CASE UNCHANGED vars
  BY <1>1, HeldFrame, PastFrame DEF vars, phaseBar, Hammered
<1>2. CASE ControlStep
  BY <1>2, ControlRefines
<1>3. CASE WaitEnter
  BY <1>3, HeldFrame, PastFrame DEF WaitEnter, phaseBar, Hammered
<1>4. CASE WaitWake
  <2>1. HeldConns' = HeldConns /\ pastBar' = pastBar /\ (Hammered' <=> Hammered)
    BY <1>4, HeldFrame, PastFrame DEF WaitWake, Hammered
  <2>2. CASE wg = 0
    BY <1>4, <2>1, <2>2 DEF WaitWake, phaseBar
  <2>3. CASE wg # 0
    <3>1. Hammered
      BY <1>4, <2>1, <2>3 DEF WaitWake, CountInv
    <3>2. QED
      BY <1>4, <2>1, <2>3, <3>1 DEF WaitWake, phaseBar, Drain!Die
  <2>4. QED
    BY <2>2, <2>3
<1>5. CASE HammerDone \/ HammerRelease
  <2>1. HeldConns' = HeldConns /\ pastBar' = pastBar
    BY <1>5, HeldFrame, PastFrame DEF HammerDone, HammerRelease
  <2>2. serve' = serve
    BY <1>5 DEF HammerDone, HammerRelease
  <2>3. phaseBar' = phaseBar
    BY <2>2 DEF phaseBar
  <2>4. Hammered /\ Hammered'
    BY <1>5 DEF HammerDone, HammerRelease, Hammered, DoneOutcome
  <2>5. QED
    BY <2>1, <2>3, <2>4
<1>6. ASSUME NEW c \in Conns, AcceptTCP(c)
      PROVE  [Drain!AbsNext]_Drain!absVars
  <2>1. HeldConns' = HeldConns /\ pastBar' = pastBar
    BY <1>6 DEF AcceptTCP, HeldConns, pastBar, Held, TypeOK
  <2>2. QED
    BY <1>6, <2>1 DEF AcceptTCP, phaseBar, Hammered
<1>7. ASSUME NEW c \in Conns, AcceptAdd(c)
      PROVE  [Drain!AbsNext]_Drain!absVars
  <2>1. CASE serve' = "panicked"
    <3>1. Hammered /\ Hammered'
      BY <1>7, <2>1 DEF AcceptAdd, CountInv, Hammered
    <3>2. UNCHANGED connVars
      BY <1>7, <2>1 DEF AcceptAdd, connVars
    <3>3. QED
      BY <1>7, <2>1, <3>1, <3>2, HeldFrame, PastFrame
         DEF AcceptAdd, phaseBar, Drain!Die
  <2>2. CASE serve' # "panicked"
    <3>1. /\ serve = "add" /\ serve' = "accept"
          /\ conn[c] = "accepted"
          /\ conn' = [conn EXCEPT ![c] = "serving"]
          /\ UNCHANGED <<closed, cclose, hammer>>
      BY <1>7, <2>2 DEF AcceptAdd
    <3>2. c \notin HeldConns /\ HeldConns' = HeldConns \cup {c}
      BY <1>7, <2>2, AddHolds
    <3>3. pastBar' = pastBar /\ c \notin pastBar
      <4>1. Held(c)'
        BY <3>2 DEF HeldConns
      <4>2. \A d \in Conns \ {c} : /\ Held(d)' <=> Held(d)
                                    /\ conn'[d] = conn[d]
        BY <3>1 DEF Held, TypeOK
      <4>3. QED
        BY <3>1, <4>1, <4>2 DEF pastBar
    <3>4. QED
      BY <3>1, <3>2, <3>3 DEF phaseBar, Hammered, Drain!Admit
  <2>3. QED
    BY <2>1, <2>2
<1>8. ASSUME NEW c \in Conns, NEW k \in Closers, ConnCloseDone(c, k)
      PROVE  [Drain!AbsNext]_Drain!absVars
  <2>1. c \in HeldConns /\ HeldConns' = HeldConns \ {c}
    BY <1>8, DoneReleases
  <2>2. conn' = conn /\ serve' = serve /\ hammer' = hammer
    BY <1>8 DEF ConnCloseDone
  <2>3. pastBar' = pastBar \cup {c}
    BY <2>1, <2>2 DEF pastBar, HeldConns, Held
  <2>4. QED
    BY <2>1, <2>2, <2>3 DEF phaseBar, Hammered, Drain!Finish
<1>9. ASSUME NEW c \in Conns, NEW k \in Closers,
             \/ ConnCloseCall(c, k) \/ ConnCloseLock(c, k) \/ ConnCloseRelease(c, k)
             \/ ConnCloseUnlock(c, k) \/ ConnCloseSocket(c, k)
      PROVE  [Drain!AbsNext]_Drain!absVars
  <2>1. HeldConns' = HeldConns
    BY <1>9, CloseFrame
  <2>2. UNCHANGED <<conn, serve, hammer>>
    BY <1>9 DEF ConnCloseCall, ConnCloseLock, ConnCloseRelease, ConnCloseUnlock,
                ConnCloseSocket
  <2>3. pastBar' = pastBar
    <3>1. pastBar = {d \in Conns : conn[d] = "serving" /\ d \notin HeldConns}
      BY DEF pastBar, HeldConns
    <3>2. pastBar' = {d \in Conns : conn'[d] = "serving" /\ d \notin HeldConns'}
      BY DEF pastBar, HeldConns
    <3>3. QED
      BY <3>1, <3>2, <2>1, <2>2
  <2>4. QED
    BY <2>1, <2>2, <2>3 DEF phaseBar, Hammered
<1>10. QED
  BY <1>1, <1>2, <1>3, <1>4, <1>5, <1>6, <1>7, <1>8, <1>9, NextCases

\* The goroutines of the service implement the abstract promise of GraceDrain:
\* admission only while serving, each connection finishing once, and a return
\* that leaves no connection unless the timeout has forced it.
THEOREM DrainRefinement == Spec => ImplementsDrain
<1>1. Init => Drain!AbsInit
  BY InitRefines
<1>2. IInv /\ IInv' /\ [Next]_vars => [Drain!AbsNext]_Drain!absVars
  BY StepRefines
<1>3. QED
  BY <1>1, <1>2, Invariant, PTL DEF Spec, ImplementsDrain, Drain!AbsSpec

-----------------------------------------------------------------------------
(* What has been stopped stays stopped *)

\* The steps that change none of the variables of StopInv and RunningInv.
ElsewhereStep ==
  /\ UNCHANGED <<state, sig, lisVars>>
  /\ \/ UNCHANGED serve
     \/ serve = "accept" /\ serve' = "add"
     \/ serve = "add" /\ serve' \in {"accept", "panicked"}
     \/ serve = "wait" /\ serve' \in {"waiting", "terminate"}
     \/ serve = "waiting" /\ serve' \in {"terminate", "panicked"}

\* The steps of connections, of serverTimeout, and of Serve's wait are such.
LEMMA ElsewhereSteps ==
  ASSUME Next
  PROVE  \/ ElsewhereStep
         \/ ServeRunning \/ AcceptError \/ ServeReturns \/ ServeTerminate
         \/ ShutdownCheck \/ ShutdownMark \/ ShutdownReturns \/ SignalReceived
         \/ StopperMark \/ StopperClose
         \/ \E x \in ListenerClosers :
              CloseTest(x) \/ StopAsked(x) \/ StopAnswered(x)
                \/ \E y \in ListenerClosers : StopCrossed(x, y)
<1>1. CASE WaitEnter \/ WaitWake
  BY <1>1 DEF WaitEnter, WaitWake, ElsewhereStep
<1>2. CASE HammerDone \/ HammerRelease \/ HammerStart \/ HammerFires \/ HammerCheck
  BY <1>2 DEF HammerDone, HammerRelease, HammerStart, HammerFires, HammerCheck, ElsewhereStep
<1>3. CASE \E c \in Conns : AcceptTCP(c) \/ AcceptAdd(c)
  BY <1>3 DEF AcceptTCP, AcceptAdd, ElsewhereStep
<1>4. CASE \E c \in Conns, k \in Closers :
             \/ ConnCloseCall(c, k) \/ ConnCloseLock(c, k)
             \/ ConnCloseDone(c, k) \/ ConnCloseRelease(c, k)
             \/ ConnCloseUnlock(c, k) \/ ConnCloseSocket(c, k)
  BY <1>4 DEF ConnCloseCall, ConnCloseLock, ConnCloseDone, ConnCloseRelease,
              ConnCloseUnlock, ConnCloseSocket, ElsewhereStep
<1>5. QED
  BY <1>1, <1>2, <1>3, <1>4, NextCases DEF ControlStep

-----------------------------------------------------------------------------
(* shutdown stops the accepting *)

\* The service starts with an open listener that nobody closes.
LEMMA InitStop == Init => StopInv
BY DEF Init, StopInv, ListenerClosers

\* Every step keeps StopInv, those of two crossing calls of Close included.
LEMMA StopStep ==
  ASSUME TypeOK, StopInv, Next
  PROVE  StopInv'
<1> USE DEF StopInv, TypeOK, lisVars
<1>1. CASE ElsewhereStep
  BY <1>1 DEF ElsewhereStep
<1>2. CASE ServeRunning \/ ServeReturns \/ ServeTerminate
  BY <1>2 DEF ServeRunning, ServeReturns, ServeTerminate
<1>3. CASE AcceptError
  BY <1>3 DEF AcceptError, ListenerClosers
<1>4. CASE ShutdownCheck \/ ShutdownReturns \/ SignalReceived
  BY <1>4 DEF ShutdownCheck, ShutdownReturns, SignalReceived
<1>5. CASE ShutdownMark
  BY <1>5 DEF ShutdownMark, ListenerClosers
<1>6. CASE StopperMark \/ StopperClose
  BY <1>6 DEF StopperMark, StopperClose
<1>7. CASE \E x \in ListenerClosers : CloseTest(x)
  BY <1>7 DEF CloseTest, ListenerClosers
<1>8. CASE \E x \in ListenerClosers : StopAsked(x)
  BY <1>8 DEF StopAsked, ListenerClosers
<1>9. CASE \E x \in ListenerClosers : StopAnswered(x)
  BY <1>9 DEF StopAnswered, ListenerClosers
<1>10. CASE \E x, y \in ListenerClosers : StopCrossed(x, y)
  BY <1>10 DEF StopCrossed, ListenerClosers
<1>11. QED
  BY <1>1, <1>2, <1>3, <1>4, <1>5, <1>6, <1>7, <1>8, <1>9, <1>10, ElsewhereSteps

\* StopInv holds in every reachable state.
THEOREM StopInvariant == Spec => []StopInv
<1>1. TypeOK /\ StopInv /\ [Next]_vars => StopInv'
  <2>1. StopInv /\ UNCHANGED vars => StopInv'
    BY DEF StopInv, vars, lisVars
  <2>2. QED
    BY <2>1, StopStep
<1>2. QED
  BY <1>1, InitStop, TypeCorrect, PTL DEF Spec

\* A new connection is accepted by the accept call of Serve alone.
LEMMA AcceptOnly ==
  ASSUME TypeOK, Next, NEW c \in Conns, conn[c] = "new", conn'[c] # "new"
  PROVE  serve = "accept" /\ lisOpen
<1>1. CASE ControlStep \/ WaitEnter \/ WaitWake \/ HammerDone \/ HammerRelease
  <2>1. UNCHANGED conn
    BY <1>1 DEF ControlStep, ServeRunning, AcceptError, ServeReturns, ServeTerminate,
       ShutdownCheck, ShutdownMark, ShutdownReturns, SignalReceived, StopperMark,
       StopperClose, HammerStart, HammerFires, HammerCheck, CloseTest, StopAsked,
       StopAnswered, StopCrossed, WaitEnter, WaitWake, HammerDone, HammerRelease, connVars
  <2>2. QED
    BY <2>1
<1>2. CASE \E d \in Conns : AcceptTCP(d) \/ AcceptAdd(d)
  BY <1>2 DEF AcceptTCP, AcceptAdd, TypeOK
<1>3. CASE \E d \in Conns, k \in Closers :
             \/ ConnCloseCall(d, k) \/ ConnCloseLock(d, k)
             \/ ConnCloseDone(d, k) \/ ConnCloseRelease(d, k)
             \/ ConnCloseUnlock(d, k) \/ ConnCloseSocket(d, k)
  BY <1>3 DEF ConnCloseCall, ConnCloseLock, ConnCloseDone, ConnCloseRelease,
              ConnCloseUnlock, ConnCloseSocket
<1>4. QED
  BY <1>1, <1>2, <1>3, NextCases

\* No connection is accepted once shutdown's call of Close has returned, also
\* when its channel operations met those of net/http's call.
THEOREM StopCorrect == Spec => NoAcceptAfterShutdown
<1>1. TypeOK /\ StopInv /\ [Next]_vars =>
        [lclose["shutdown"] = "ret"
           => \A c \in Conns : conn[c] = "new" => conn'[c] = "new"]_vars
  <2> SUFFICES ASSUME TypeOK, StopInv, Next, lclose["shutdown"] = "ret",
                      NEW c \in Conns, conn[c] = "new", conn'[c] # "new"
               PROVE  FALSE
    BY DEF vars
  <2>1. serve = "accept" /\ lisOpen
    BY AcceptOnly
  <2>2. QED
    BY <2>1 DEF StopInv
<1>2. QED
  BY <1>1, StopInvariant, TypeCorrect, PTL DEF Spec, NoAcceptAfterShutdown

-----------------------------------------------------------------------------
(* srv.state goes forward *)

\* Nothing is stopped at the start.
LEMMA InitRunning == Init => RunningInv
BY DEF Init, RunningInv

\* While Accept does not fail, only shutdown makes Serve stop.
LEMMA RunningStep ==
  ASSUME ~AcceptMayFail, TypeOK, RunningInv, Next
  PROVE  RunningInv'
<1> USE DEF RunningInv, TypeOK, lisVars
<1>1. CASE ElsewhereStep
  BY <1>1 DEF ElsewhereStep
<1>2. CASE ServeRunning \/ ServeReturns \/ ServeTerminate
  BY <1>2 DEF ServeRunning, ServeReturns, ServeTerminate
<1>3. CASE AcceptError
  BY <1>3 DEF AcceptError
<1>4. CASE ShutdownCheck \/ ShutdownReturns \/ SignalReceived
  BY <1>4 DEF ShutdownCheck, ShutdownReturns, SignalReceived
<1>5. CASE ShutdownMark
  BY <1>5 DEF ShutdownMark
<1>6. CASE StopperMark \/ StopperClose
  BY <1>6 DEF StopperMark, StopperClose
<1>7. CASE \E x \in ListenerClosers :
             CloseTest(x) \/ StopAsked(x) \/ StopAnswered(x)
               \/ \E y \in ListenerClosers : StopCrossed(x, y)
  BY <1>7 DEF CloseTest, StopAsked, StopAnswered, StopCrossed
<1>8. QED
  BY <1>1, <1>2, <1>3, <1>4, <1>5, <1>6, <1>7, ElsewhereSteps

\* If Accept does not fail of itself, RunningInv holds in every reachable state.
THEOREM RunningInvariant == ASSUME ~AcceptMayFail PROVE Spec => []RunningInv
<1>1. TypeOK /\ RunningInv /\ [Next]_vars => RunningInv'
  <2>1. RunningInv /\ UNCHANGED vars => RunningInv'
    BY DEF RunningInv, vars, lisVars
  <2>2. QED
    BY <2>1, RunningStep
<1>2. QED
  BY <1>1, InitRunning, TypeCorrect, PTL DEF Spec

\* shutdown's unlocked check and write take srv.state back only over the
\* Terminate of a Serve that Accept's failure ended, and shutdown gets to that
\* write once, before it has started serverTimeout or closed the listener.
THEOREM StateCorrect == Spec => StateNeverGoesBack
<1> DEFINE Kept == /\ StateOrder[state] <= StateOrder[state'] \/ Overtaken
                   /\ (sig = "mark" /\ sig' = "close") =>
                        hammer = "off" /\ lclose["shutdown"] = "out"
<1>1. ASSUME IInv, ~AcceptMayFail => RunningInv, [Next]_vars
      PROVE  [Kept]_vars
  <2> SUFFICES ASSUME Next PROVE Kept
    BY <1>1
  <2>1. \/ UNCHANGED state
        \/ state = "Init" /\ state' = "Running"
        \/ sig = "mark" /\ state' = "ShuttingDown"
        \/ state' = "Terminate"
    <3>1. CASE ElsewhereStep
      BY <3>1 DEF ElsewhereStep
    <3>2. CASE ServeRunning \/ ServeTerminate \/ ShutdownMark
      BY <1>1, <3>2 DEF ServeRunning, ServeTerminate, ShutdownMark, IInv, OnceInv
    <3>3. QED
      BY <3>1, <3>2, ElsewhereSteps DEF AcceptError, ServeReturns, ShutdownCheck,
         ShutdownReturns, SignalReceived, StopperMark, StopperClose, CloseTest,
         StopAsked, StopAnswered, StopCrossed
  <2>2. state \in {"Init", "Running", "ShuttingDown", "Terminate"}
    BY <1>1 DEF IInv, TypeOK
  <2>3. sig = "mark" /\ state' = "ShuttingDown" /\ state = "Terminate" => Overtaken
    BY <1>1 DEF RunningInv, Overtaken
  <2>4. StateOrder[state] <= StateOrder[state'] \/ Overtaken
    BY <2>1, <2>2, <2>3 DEF StateOrder
  <2>5. sig = "mark" => hammer = "off" /\ lclose["shutdown"] = "out"
    BY <1>1 DEF IInv, OnceInv
  <2>6. QED
    BY <2>4, <2>5
<1>2. ASSUME AcceptMayFail
      PROVE  Spec => StateNeverGoesBack
  <2>1. IInv /\ [Next]_vars => [Kept]_vars
    BY <1>1, <1>2
  <2>2. QED
    BY <2>1, Invariant, PTL DEF Spec, StateNeverGoesBack
<1>3. ASSUME ~AcceptMayFail
      PROVE  Spec => StateNeverGoesBack
  <2>1. IInv /\ RunningInv /\ [Next]_vars => [Kept]_vars
    BY <1>1
  <2>2. QED
    BY <1>3, <2>1, RunningInvariant, Invariant, PTL DEF Spec, StateNeverGoesBack
<1>4. QED
  BY <1>2, <1>3

-----------------------------------------------------------------------------
(* Nobody waits for the stopper in vain *)

\* While Accept does not fail, the channel el.stop is used by shutdown alone.
LEMMA CloseStep ==
  ASSUME ~AcceptMayFail, TypeOK, RunningInv, CloseInv, Next
  PROVE  CloseInv'
<1> USE DEF CloseInv, TypeOK, lisVars
<1>1. CASE ElsewhereStep
  BY <1>1 DEF ElsewhereStep
<1>2. CASE ServeRunning \/ ServeReturns \/ ServeTerminate
  BY <1>2 DEF ServeRunning, ServeReturns, ServeTerminate
<1>3. CASE AcceptError
  BY <1>3 DEF AcceptError, ListenerClosers
<1>4. CASE ShutdownCheck \/ ShutdownReturns \/ SignalReceived
  BY <1>4 DEF ShutdownCheck, ShutdownReturns, SignalReceived
<1>5. CASE ShutdownMark
  <2>1. stopper = "recv" /\ ~stopped
    BY <1>5 DEF ShutdownMark, RunningInv
  <2>2. QED
    BY <1>5, <2>1 DEF ShutdownMark, ListenerClosers
<1>6. CASE StopperMark \/ StopperClose
  BY <1>6 DEF StopperMark, StopperClose
<1>7. CASE \E x \in ListenerClosers : CloseTest(x)
  BY <1>7 DEF CloseTest, ListenerClosers
<1>8. CASE \E x \in ListenerClosers : StopAsked(x)
  BY <1>8 DEF StopAsked, ListenerClosers
<1>9. CASE \E x \in ListenerClosers : StopAnswered(x)
  BY <1>9 DEF StopAnswered, ListenerClosers
<1>10. CASE \E x, y \in ListenerClosers : StopCrossed(x, y)
  BY <1>10 DEF StopCrossed, ListenerClosers
<1>11. QED
  BY <1>1, <1>2, <1>3, <1>4, <1>5, <1>6, <1>7, <1>8, <1>9, <1>10, ElsewhereSteps

\* If Accept does not fail of itself, no caller of Close waits on the channel
\* after the one answer of the stopper.
THEOREM StrandedCorrect == ASSUME ~AcceptMayFail PROVE Spec => []NoCloserStranded
<1>1. Init => CloseInv
  BY DEF Init, CloseInv, ListenerClosers
<1>2. TypeOK /\ RunningInv /\ CloseInv /\ [Next]_vars => CloseInv'
  <2>1. CloseInv /\ UNCHANGED vars => CloseInv'
    BY DEF CloseInv, vars, lisVars
  <2>2. QED
    BY <2>1, CloseStep
<1>3. CloseInv => NoCloserStranded
  BY DEF CloseInv, NoCloserStranded, ListenerClosers
<1>4. Spec => []RunningInv
  BY RunningInvariant
<1>5. QED
  BY <1>1, <1>2, <1>3, <1>4, TypeCorrect, PTL DEF Spec
=============================================================================
