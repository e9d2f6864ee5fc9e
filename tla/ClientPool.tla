----------------------------- MODULE ClientPool -----------------------------
(***************************************************************************)
(* The pools of rpcx clients a process keeps, one per service name, in the *)
(* map rpcx.ClientPool (rpcx/client.go, xclient_pool.go).  Goroutines that *)
(* call RpcxCall look their pool up without the lock, make it under the    *)
(* lock when it is not there, and take its clients in turn with an atomic  *)
(* counter.  Client.Close closes a pool and leaves it in the map.          *)
(*                                                                         *)
(* A Go map detects, but not always, that it is read or written while      *)
(* another goroutine is writing it, and then ends the process: a write has *)
(* a begin and an end here, and an access in between may crash.            *)
(***************************************************************************)
EXTENDS Integers, FiniteSets

CONSTANTS
  Callers,       \* goroutines that call RpcxCall
  Services,      \* service names
  ServiceOf,     \* the service each of them calls
  NoOne,         \* the owner of a free lock
  NoPool,        \* the nil *XClientPool
  Absent,        \* no entry in the map
  PoolSize,      \* Client.poolsize: XClients in a pool
  IndexValues,   \* how many values XClientPool.index, a uint64, has: 2^64 in the code
  MaxPools,      \* bound on the pools made
  MaxCalls,      \* bound on the Get calls on a pool after which no call begins
  DiscoveryFails,\* NewConsulDiscovery, ... may return an error or panic
  MayClose       \* someone calls Client.Close

ASSUME PoolAssumption ==
  /\ ServiceOf \in [Callers -> Services]
  /\ NoOne \notin Callers
  /\ {PoolSize, IndexValues, MaxPools, MaxCalls} \subseteq Nat \ {0}
  /\ {DiscoveryFails, MayClose} \subseteq BOOLEAN

PoolIds == 1..MaxPools
Clients == 0..(PoolSize - 1)

ASSUME PoolValues == NoPool \notin PoolIds /\ Absent \notin PoolIds \cup {NoPool} \cup Services

VARIABLES
  pools,    \* the map ClientPool: an id, NoPool or Absent for each service
  writing,  \* the goroutine that is writing the map
  lock,     \* the owner of the package's lock
  pc,       \* where each caller is
  mine,     \* the pool a caller has made or found
  pick,     \* the picked index of a caller in XClientPool.Get
  made,     \* the service each pool was made for
  index,    \* XClientPool.index
  wraps,    \* how often index went around
  closing,  \* XClientPool.Close: "open", "closing" or "closed" (xclients is nil)
  load,     \* how often each client of a pool was picked
  failed,   \* the services a discovery of which has failed
  crashed   \* the process ended with "concurrent map read and map write"

vars == <<pools, writing, lock, pc, mine, pick, made, index, wraps, closing,
          load, failed, crashed>>
mapVars == <<pools, writing, crashed>>
poolVars == <<made, index, wraps, closing, load>>

Init ==
  /\ pools = [s \in Services |-> Absent]
  /\ writing = NoOne
  /\ lock = NoOne
  /\ pc = [c \in Callers |-> "idle"]
  /\ mine = [c \in Callers |-> NoPool]
  /\ pick = [c \in Callers |-> 0]
  /\ made = [p \in PoolIds |-> Absent]
  /\ index = [p \in PoolIds |-> 0]
  /\ wraps = [p \in PoolIds |-> 0]
  /\ closing = [p \in PoolIds |-> "open"]
  /\ load = [p \in PoolIds |-> [i \in Clients |-> 0]]
  /\ failed = {}
  /\ crashed = FALSE

Goto(c, l) == pc' = [pc EXCEPT ![c] = l]
Free(p) == made[p] = Absent

\* c reads or starts to write the map: fatal, perhaps, if someone is writing.
Racing(c) == writing \notin {NoOne, c}
Crash == crashed' = TRUE /\ UNCHANGED <<pools, writing, lock, pc, mine, pick, poolVars, failed>>

-----------------------------------------------------------------------------
(* GetClientPool *)

\* Get has been called on p this often.
Gets(p) == wraps[p] * IndexValues + index[p]
MayCall == \A p \in PoolIds : Gets(p) < MaxCalls

\* Faulty variant of Lookup: ok is not looked at.
LookupUnchecked(c) ==
  /\ pc[c] = "idle" /\ MayCall
  /\ LET p == pools[ServiceOf[c]]
     IN  mine' = [mine EXCEPT ![c] = IF p = Absent THEN NoPool ELSE p]
  /\ Goto(c, "get")
  /\ UNCHANGED <<mapVars, lock, pick, poolVars, failed>>

\* if pc, ok := ClientPool[c.serviceName]; ok { return pc }, without the lock
Lookup(c) ==
  /\ pc[c] = "idle" /\ MayCall
  /\ LET p == pools[ServiceOf[c]]
     IN  IF p = Absent
         THEN Goto(c, "lock") /\ UNCHANGED mine
         ELSE Goto(c, "get") /\ mine' = [mine EXCEPT ![c] = p]
  /\ UNCHANGED <<mapVars, lock, pick, poolVars, failed>>

\* The lookup meets a write of the map.
LookupCrash(c) == pc[c] = "idle" /\ MayCall /\ Racing(c) /\ Crash

\* lock.Lock()
Lock(c) ==
  /\ pc[c] = "lock"
  /\ lock = NoOne
  /\ lock' = c
  /\ Goto(c, "recheck")
  /\ UNCHANGED <<mapVars, mine, pick, poolVars, failed>>

\* Faulty variant of Recheck: the pool is made whatever happened before the lock.
RecheckSkipped(c) ==
  /\ pc[c] = "recheck"
  /\ Goto(c, "make")
  /\ UNCHANGED <<mapVars, lock, mine, pick, poolVars, failed>>

\* if ClientPool[c.serviceName] == nil: no entry, or the nil of a failure
Recheck(c) ==
  /\ pc[c] = "recheck"
  /\ Goto(c, IF pools[ServiceOf[c]] \in {Absent, NoPool} THEN "make" ELSE "reread")
  /\ UNCHANGED <<mapVars, lock, mine, pick, poolVars, failed>>

\* Faulty variant of Discover: an error leaves the lock taken.
DiscoverKeepsLock(c) ==
  /\ pc[c] = "make"
  /\ \/ /\ \E p \in PoolIds :
             /\ Free(p) /\ \A q \in PoolIds : q < p => ~Free(q)
             /\ made' = [made EXCEPT ![p] = ServiceOf[c]]
             /\ mine' = [mine EXCEPT ![c] = p]
        /\ Goto(c, "write")
        /\ UNCHANGED failed
     \/ /\ DiscoveryFails
        /\ failed' = failed \cup {ServiceOf[c]}
        /\ mine' = [mine EXCEPT ![c] = NoPool]
        /\ Goto(c, "get")
        /\ UNCHANGED made
  /\ UNCHANGED <<mapVars, lock, pick, index, wraps, closing, load>>

\* NewClientPool: the service discovery, then NewXClientPool with PoolSize
\* clients.  An error, or a panic it recovers from, gives a nil pool.
Discover(c) ==
  /\ pc[c] = "make"
  /\ \/ /\ \E p \in PoolIds :
             /\ Free(p) /\ \A q \in PoolIds : q < p => ~Free(q)
             /\ made' = [made EXCEPT ![p] = ServiceOf[c]]
             /\ mine' = [mine EXCEPT ![c] = p]
        /\ Goto(c, "write")
        /\ UNCHANGED failed
     \/ /\ DiscoveryFails
        /\ failed' = failed \cup {ServiceOf[c]}
        /\ mine' = [mine EXCEPT ![c] = NoPool]
        /\ Goto(c, "rewrite")
        /\ UNCHANGED made
  /\ UNCHANGED <<mapVars, lock, pick, index, wraps, closing, load>>

\* NewClientPool stores the pool, and GetClientPool stores its result again:
\* ClientPool[serviceName] = xc, twice.
WriteBegin(c) ==
  /\ pc[c] \in {"write", "rewrite"}
  /\ writing' = c
  /\ Goto(c, IF pc[c] = "write" THEN "writing" ELSE "rewriting")
  /\ UNCHANGED <<pools, crashed, lock, mine, pick, poolVars, failed>>

WriteEnd(c) ==
  /\ pc[c] \in {"writing", "rewriting"}
  /\ writing' = NoOne
  /\ pools' = [pools EXCEPT ![ServiceOf[c]] = mine[c]]
  /\ Goto(c, IF pc[c] = "writing" THEN "rewrite" ELSE "reread")
  /\ UNCHANGED <<crashed, lock, mine, pick, poolVars, failed>>

\* return ClientPool[c.serviceName]; the deferred Unlock
Reread(c) ==
  /\ pc[c] = "reread"
  /\ mine' = [mine EXCEPT ![c] = pools[ServiceOf[c]]]
  /\ lock' = NoOne
  /\ Goto(c, "get")
  /\ UNCHANGED <<mapVars, pick, poolVars, failed>>

-----------------------------------------------------------------------------
(* XClientPool.Get *)

\* The value of index after atomic.AddUint64(&p.index, 1)
Next64(p) == (index[p] + 1) % IndexValues

\* pc.Get() on a nil pool: the address of its index is no address.
GetNil(c) ==
  /\ pc[c] = "get"
  /\ mine[c] = NoPool
  /\ Goto(c, "panicked")
  /\ UNCHANGED <<mapVars, lock, mine, pick, poolVars, failed>>

\* Faulty variant of GetAdd: an increment that is not atomic may be lost.
GetAddNotAtomic(c) ==
  /\ pc[c] = "get"
  /\ mine[c] # NoPool
  /\ LET p == mine[c]
         picked == Next64(p) % PoolSize
     IN  /\ \E i \in {index[p], Next64(p)} : index' = [index EXCEPT ![p] = i]
         /\ wraps' = [wraps EXCEPT ![p] = IF Next64(p) = 0 THEN @ + 1 ELSE @]
         /\ pick' = [pick EXCEPT ![c] = picked]
         /\ load' = [load EXCEPT ![p][picked] = @ + 1]
  /\ Goto(c, "pick")
  /\ UNCHANGED <<mapVars, lock, mine, made, closing, failed>>

\* i := atomic.AddUint64(&p.index, 1); picked := int(i % p.count)
GetAdd(c) ==
  /\ pc[c] = "get"
  /\ mine[c] # NoPool
  /\ LET p == mine[c]
         picked == Next64(p) % PoolSize
     IN  /\ index' = [index EXCEPT ![p] = Next64(p)]
         /\ wraps' = [wraps EXCEPT ![p] = IF Next64(p) = 0 THEN @ + 1 ELSE @]
         /\ pick' = [pick EXCEPT ![c] = picked]
         /\ load' = [load EXCEPT ![p][picked] = @ + 1]
  /\ Goto(c, "pick")
  /\ UNCHANGED <<mapVars, lock, mine, made, closing, failed>>

\* return p.xclients[picked], out of range once Close has dropped the slice;
\* the call on the client then ends, well or not.
GetClient(c) ==
  /\ pc[c] = "pick"
  /\ Goto(c, IF closing[mine[c]] = "closed" \/ pick[c] \notin Clients THEN "panicked" ELSE "idle")
  /\ UNCHANGED <<mapVars, lock, mine, pick, poolVars, failed>>

-----------------------------------------------------------------------------
(* Client.Close *)

\* pc := ClientPool[c.serviceName], without the lock; pc.Close(): the clients are
\* closed one by one.  Without a pool it panics in the goroutine that closes.
CloseBegin(s) ==
  /\ MayClose
  /\ pools[s] \in PoolIds
  /\ closing[pools[s]] = "open"
  /\ closing' = [closing EXCEPT ![pools[s]] = "closing"]
  /\ UNCHANGED <<mapVars, lock, pc, mine, pick, made, index, wraps, load, failed>>

\* Close's lookup meets a write of the map.
CloseCrash == MayClose /\ writing # NoOne /\ Crash

\* p.xclients = nil
CloseEnd(p) ==
  /\ closing[p] = "closing"
  /\ closing' = [closing EXCEPT ![p] = "closed"]
  /\ UNCHANGED <<mapVars, lock, pc, mine, pick, made, index, wraps, load, failed>>

-----------------------------------------------------------------------------
CallStep(c) ==
  /\ ~crashed
  /\ \/ Lock(c) \/ Recheck(c) \/ Discover(c) \/ WriteBegin(c) \/ WriteEnd(c)
     \/ Reread(c) \/ GetNil(c) \/ GetAdd(c) \/ GetClient(c)

CallBegins(c) == ~crashed /\ (Lookup(c) \/ LookupCrash(c))

CloseStep ==
  /\ ~crashed
  /\ \/ \E s \in Services : CloseBegin(s)
     \/ \E p \in PoolIds : CloseEnd(p)
     \/ CloseCrash

Next == (\E c \in Callers : CallStep(c) \/ CallBegins(c)) \/ CloseStep

Spec == Init /\ [][Next]_vars

\* A call that has begun goes on; lock is a sync.Mutex, which starves nobody.
FairSpec == Spec /\ \A c \in Callers : WF_vars(CallStep(c))

-----------------------------------------------------------------------------
(* Properties *)

\* The values the variables may take.
TypeOK ==
  /\ pools \in [Services -> PoolIds \cup {NoPool, Absent}]
  /\ writing \in Callers \cup {NoOne}
  /\ lock \in Callers \cup {NoOne}
  /\ pc \in [Callers -> {"idle", "lock", "recheck", "make", "write", "writing", "rewrite",
                         "rewriting", "reread", "get", "pick", "panicked"}]
  /\ mine \in [Callers -> PoolIds \cup {NoPool}]
  /\ pick \in [Callers -> Clients]
  /\ made \in [PoolIds -> Services \cup {Absent}]
  /\ index \in [PoolIds -> 0..(IndexValues - 1)]
  /\ wraps \in [PoolIds -> Nat]
  /\ closing \in [PoolIds -> {"open", "closing", "closed"}]
  /\ load \in [PoolIds -> [Clients -> Nat]]
  /\ failed \subseteq Services
  /\ crashed \in BOOLEAN

\* However the callers interleave and discoveries fail, one pool of XClients at
\* most is made for a service: none is dropped with its connections open.
OnePoolPerService ==
  \A s \in Services : Cardinality({p \in PoolIds : made[p] = s}) <= 1

\* Between the lock and the return of GetClientPool.
InLock == {"recheck", "make", "write", "writing", "rewrite", "rewriting", "reread"}

\* A goroutine makes a pool and writes the map only as the owner of lock
\* (client.go:201-205).
MapWritersHoldLock ==
  \A c \in Callers : pc[c] \in InLock => lock = c

\* A call panics only if a discovery of its service has failed, when the nil
\* pool stays in the map, or its pool was closed.
PanicOnlyAfterFailureOrClose ==
  \A c \in Callers :
    pc[c] = "panicked" =>
      \/ mine[c] = NoPool /\ ServiceOf[c] \in failed
      \/ mine[c] # NoPool /\ closing[mine[c]] = "closed"

\* "It uses roundrobin algorithm to call its xclients" (xclient_pool.go:10): the
\* clients of a pool are picked equally often, up to one, and up to one more for
\* every time index has gone around.
Balanced ==
  \A p \in PoolIds, i, j \in Clients : load[p][i] - load[p][j] <= 1 + wraps[p]

\* Every call ends, unless the process does: nobody keeps lock.
CallsEnd == \A c \in Callers : pc[c] = "lock" ~> pc[c] \in {"idle", "panicked"} \/ crashed

-----------------------------------------------------------------------------
(* What the pools promise, without the map, the lock and the counter *)

ownBar == [s \in Services |-> {p \in PoolIds : made[p] = s}]

\* How far a caller's call is, by where the caller is.
Stage(l) == CASE l \in {"idle", "panicked"} -> l
              [] l = "pick" -> "given"
              [] OTHER -> "asked"

callBar == [c \in Callers |-> Stage(pc[c])]

useBar == [c \in Callers |-> IF pc[c] = "pick" THEN mine[c] ELSE NoPool]

Promise == INSTANCE ServicePools WITH
  Pools <- PoolIds, own <- ownBar, status <- closing, call <- callBar, use <- useBar

\* The pools are an implementation of ServicePools: the callers of a service,
\* who look their pool up without the lock, share one, and panic only over a
\* failure of their own service or over a pool that was closed.
ImplementsPools == Promise!AbsSpec

-----------------------------------------------------------------------------
(* The inductive invariant behind OnePoolPerService *)

\* The types that matter for the map and the lock.
MapTyped ==
  /\ pools \in [Services -> PoolIds \cup {NoPool, Absent}]
  /\ pc \in [Callers -> InLock \cup {"idle", "lock", "get", "pick", "panicked"}]
  /\ mine \in [Callers -> PoolIds \cup {NoPool}]
  /\ made \in [PoolIds -> Services \cup {Absent}]

\* c has made p and not yet stored it.
Storing(c, p) == lock = c /\ pc[c] \in {"write", "writing"} /\ mine[c] = p

\* A pool that was made is in the map, or its maker is about to store it.
MadeIsKept ==
  \A p \in PoolIds : made[p] # Absent =>
    \/ pools[made[p]] = p
    \/ \E c \in Callers : Storing(c, p) /\ ServiceOf[c] = made[p]

\* The owner of the lock makes and stores a pool only where none is, and stores
\* again only what is there already, or the nil of a failure.
StoresOnce ==
  \A c \in Callers :
    /\ pc[c] \in {"make", "write", "writing"} => pools[ServiceOf[c]] \notin PoolIds
    /\ pc[c] \in {"rewrite", "rewriting"} =>
         \/ pools[ServiceOf[c]] = mine[c]
         \/ mine[c] = NoPool /\ pools[ServiceOf[c]] \notin PoolIds
    /\ pc[c] = "reread" => pools[ServiceOf[c]] # Absent

\* The parts together are inductive, and OnePoolPerService follows.
PoolInv == MapTyped /\ MapWritersHoldLock /\ MadeIsKept /\ StoresOnce

-----------------------------------------------------------------------------
(* The inductive invariants behind PanicOnlyAfterFailureOrClose and Balanced *)

\* A nil pool, in the map or in the hands of a caller, is what a failed discovery
\* of the service left; a caller has its pool from before it stores it, and
\* while it takes a client.
NilIsFailure ==
  /\ \A s \in Services : pools[s] = NoPool => s \in failed
  /\ \A c \in Callers :
       /\ pc[c] \in {"rewrite", "rewriting", "get"} /\ mine[c] = NoPool => ServiceOf[c] \in failed
       /\ pc[c] \in {"write", "writing", "pick"} => mine[c] # NoPool

\* What a nil pool means, and the property itself.
FailInv == NilIsFailure /\ PanicOnlyAfterFailureOrClose

\* A caller holds pools of its own service only, the map has pools of theirs, and
\* the goroutine that is writing the map is where WriteBegin left it.
OwnPool ==
  /\ \A c \in Callers : mine[c] \in PoolIds => made[mine[c]] = ServiceOf[c]
  /\ \A s \in Services : pools[s] \in PoolIds => made[pools[s]] = s
  /\ writing # NoOne => pc[writing] \in {"writing", "rewriting"}

\* 1 if client i of p has had its pick of the round that index is in: a round
\* picks client 1 first and client 0 last.
Ahead(p, i) == IF 1 <= i /\ i <= index[p] % PoolSize THEN 1 ELSE 0

\* Two clients of a pool differ by their picks of this round, and by one for
\* every time index has gone around and cut a round short.
RoundInv ==
  \A p \in PoolIds, i, j \in Clients :
    load[p][i] - load[p][j] <= wraps[p] + Ahead(p, i) - Ahead(p, j)
=============================================================================
