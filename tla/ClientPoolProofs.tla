-------------------------- MODULE ClientPoolProofs --------------------------
(***************************************************************************)
(* Theorems about ClientPool: whatever the callers do, discoveries fail    *)
(* and pools are closed, a pool is made and stored under the lock only,    *)
(* and each service gets one at most; a call panics over a failure or a    *)
(* Close only; the clients of a pool are used in turn.                     *)
(***************************************************************************)
EXTENDS ClientPool, FiniteSetTheorems, TLAPS

lockVars == <<pools, lock, pc, mine, made>>

\* The steps of a caller that neither take the lock nor hold it.
OutsideLock(c) ==
  Lookup(c) \/ GetNil(c) \/ GetAdd(c) \/ GetClient(c)

\* Every step is one of a caller, or leaves the map, the lock and the callers
\* alone.
LEMMA NextCases ==
  ASSUME Next
  PROVE  \/ UNCHANGED lockVars
         \/ \E c \in Callers :
              \/ OutsideLock(c) \/ Lock(c) \/ Recheck(c) \/ Discover(c)
              \/ WriteBegin(c) \/ WriteEnd(c) \/ Reread(c)
<1>1. CASE \E c \in Callers : CallStep(c)
  BY <1>1 DEF CallStep, OutsideLock
<1>2. CASE \E c \in Callers : CallBegins(c)
  BY <1>2 DEF CallBegins, LookupCrash, Crash, OutsideLock, poolVars, lockVars
<1>3. CASE CloseStep
  BY <1>3 DEF CloseStep, CloseBegin, CloseEnd, CloseCrash, Crash, mapVars, poolVars, lockVars
<1>4. QED
  BY <1>1, <1>2, <1>3 DEF Next

\* The invariant holds while no caller has begun.
LEMMA InitInvariant == Init => PoolInv
<1> SUFFICES ASSUME Init PROVE PoolInv
  OBVIOUS
<1>1. MapTyped
  BY DEF Init, MapTyped
<1>2. MapWritersHoldLock
  BY DEF Init, MapWritersHoldLock, InLock
<1>3. MadeIsKept
  BY DEF Init, MadeIsKept
<1>4. StoresOnce
  BY DEF Init, StoresOnce
<1>5. QED
  BY <1>1, <1>2, <1>3, <1>4 DEF PoolInv

\* Two callers are not both between the lock and the return.
LEMMA OneInLock ==
  ASSUME MapWritersHoldLock, NEW c \in Callers, NEW d \in Callers,
         pc[c] \in InLock, pc[d] \in InLock
  PROVE  c = d
BY DEF MapWritersHoldLock

\* A step outside the lock moves its caller between places outside the lock, or
\* to the lock.
LEMMA OutsideStep ==
  ASSUME PoolInv, NEW c \in Callers, OutsideLock(c)
  PROVE  PoolInv'
<1> USE DEF PoolInv
<1>1. /\ UNCHANGED <<pools, lock, made>>
      /\ pc[c] \in {"idle", "get", "pick"}
      /\ \E l \in {"idle", "lock", "get", "pick", "panicked"} : pc' = [pc EXCEPT ![c] = l]
      /\ \/ mine' = mine
         \/ \E p \in PoolIds \cup {NoPool} : mine' = [mine EXCEPT ![c] = p]
  <2>1. CASE Lookup(c)
    <3>1. pools[ServiceOf[c]] \in PoolIds \cup {NoPool, Absent}
      BY PoolAssumption DEF MapTyped, PoolAssumption
    <3>2. QED
      BY <2>1, <3>1 DEF Lookup, Goto, mapVars, poolVars
  <2>2. CASE GetNil(c)
    BY <2>2 DEF GetNil, Goto, mapVars, poolVars
  <2>3. CASE GetAdd(c)
    BY <2>3 DEF GetAdd, Goto, mapVars
  <2>4. CASE GetClient(c)
    BY <2>4 DEF GetClient, Goto, mapVars, poolVars
  <2>5. QED
    BY <2>1, <2>2, <2>3, <2>4 DEF OutsideLock
<1>2. PICK l \in {"idle", "lock", "get", "pick", "panicked"} : pc' = [pc EXCEPT ![c] = l]
  BY <1>1
<1>3. MapTyped'
  BY <1>1, <1>2 DEF MapTyped, InLock
<1>4. \A d \in Callers : d # c => pc'[d] = pc[d] /\ mine'[d] = mine[d]
  BY <1>1, <1>2 DEF MapTyped
<1>5. pc'[c] \notin InLock
  BY <1>2 DEF MapTyped, InLock
<1>6. MapWritersHoldLock'
  BY <1>1, <1>4, <1>5 DEF MapWritersHoldLock
<1>7. MadeIsKept'
  BY <1>1, <1>4 DEF MadeIsKept, Storing
<1>8. StoresOnce'
  BY <1>1, <1>4, <1>5 DEF StoresOnce, InLock
<1>9. QED
  BY <1>3, <1>6, <1>7, <1>8

\* A step that moves its caller from between the lock and the return, or to it,
\* and leaves the map and the made pools alone.
LEMMA MoveStep ==
  ASSUME PoolInv, NEW c \in Callers,
         Lock(c) \/ Recheck(c) \/ WriteBegin(c) \/ Reread(c)
  PROVE  PoolInv'
<1> USE DEF PoolInv
<1>1. UNCHANGED <<pools, made>>
  BY DEF Lock, Recheck, WriteBegin, Reread, mapVars, poolVars
<1>2. CASE Lock(c)
  <2>1. UNCHANGED mine /\ pc' = [pc EXCEPT ![c] = "recheck"] /\ lock' = c /\ lock = NoOne
    BY <1>2 DEF Lock, Goto
  <2>2. \A d \in Callers : pc[d] \notin InLock
    BY <2>1, PoolAssumption DEF MapWritersHoldLock, PoolAssumption
  <2>3. MapTyped'
    BY <1>1, <2>1 DEF MapTyped, InLock
  <2>4. MapWritersHoldLock'
    BY <2>1, <2>2 DEF MapTyped, MapWritersHoldLock
  <2>5. MadeIsKept'
    BY <1>1, <2>1, <2>2, PoolAssumption DEF MadeIsKept, Storing, PoolAssumption
  <2>6. StoresOnce'
    BY <1>1, <2>1, <2>2 DEF MapTyped, StoresOnce, InLock
  <2>7. QED
    BY <2>3, <2>4, <2>5, <2>6
<1>3. CASE Recheck(c)
  <2>1. /\ UNCHANGED <<mine, lock>> /\ pc[c] = "recheck"
        /\ pc' = [pc EXCEPT ![c] =
                     IF pools[ServiceOf[c]] \in {Absent, NoPool} THEN "make" ELSE "reread"]
    BY <1>3 DEF Recheck, Goto, mapVars
  <2>2. pc'[c] \in {"make", "reread"}
    BY <2>1 DEF MapTyped
  <2>3. MapTyped'
    BY <1>1, <2>1, <2>2 DEF MapTyped, InLock
  <2>4. MapWritersHoldLock'
    BY <2>1, <2>2 DEF MapTyped, MapWritersHoldLock, InLock
  <2>5. MadeIsKept'
    BY <1>1, <2>1, <2>2 DEF MapTyped, MadeIsKept, Storing
  <2>6. StoresOnce'
    BY <1>1, <2>1, <2>2, PoolValues DEF MapTyped, StoresOnce
  <2>7. QED
    BY <2>3, <2>4, <2>5, <2>6
<1>4. CASE WriteBegin(c)
  <2>1. /\ UNCHANGED <<mine, lock>> /\ pc[c] \in {"write", "rewrite"}
        /\ pc' = [pc EXCEPT ![c] = IF pc[c] = "write" THEN "writing" ELSE "rewriting"]
    BY <1>4 DEF WriteBegin, Goto
  <2>2. MapTyped'
    BY <1>1, <2>1 DEF MapTyped, InLock
  <2>3. MapWritersHoldLock'
    BY <2>1 DEF MapTyped, MapWritersHoldLock, InLock
  <2>4. MadeIsKept'
    BY <1>1, <2>1 DEF MapTyped, MadeIsKept, Storing
  <2>5. StoresOnce'
    BY <1>1, <2>1 DEF MapTyped, StoresOnce
  <2>6. QED
    BY <2>2, <2>3, <2>4, <2>5
<1>5. CASE Reread(c)
  <2>1. /\ pc[c] = "reread" /\ lock' = NoOne
        /\ pc' = [pc EXCEPT ![c] = "get"]
        /\ mine' = [mine EXCEPT ![c] = pools[ServiceOf[c]]]
    BY <1>5 DEF Reread, Goto
  <2>2. \A d \in Callers : d # c => pc[d] \notin InLock
    BY <2>1, OneInLock DEF InLock
  <2>3. \A p \in PoolIds : made[p] # Absent => pools[made[p]] = p
    BY <2>1, <2>2 DEF MadeIsKept, Storing, InLock
  <2>4. pools[ServiceOf[c]] \in PoolIds \cup {NoPool}
    BY <2>1, PoolAssumption DEF MapTyped, StoresOnce, PoolAssumption
  <2>5. MapTyped'
    BY <1>1, <2>1, <2>4 DEF MapTyped
  <2>6. MapWritersHoldLock'
    BY <2>1, <2>2 DEF MapTyped, MapWritersHoldLock, InLock
  <2>7. MadeIsKept'
    BY <1>1, <2>3 DEF MadeIsKept
  <2>8. StoresOnce'
    BY <1>1, <2>1, <2>2 DEF MapTyped, StoresOnce, InLock
  <2>9. QED
    BY <2>5, <2>6, <2>7, <2>8
<1>6. QED
  BY <1>2, <1>3, <1>4, <1>5

\* A pool is made, or the discovery fails, where there is none.
LEMMA DiscoverStep ==
  ASSUME PoolInv, NEW c \in Callers, Discover(c)
  PROVE  PoolInv'
<1> USE DEF PoolInv
<1>1. UNCHANGED <<pools, lock>> /\ pc[c] = "make"
  BY DEF Discover, mapVars
<1>2. \A d \in Callers : d # c => pc[d] \notin InLock
  BY <1>1, OneInLock DEF InLock
<1>3. pools[ServiceOf[c]] \notin PoolIds
  BY <1>1 DEF StoresOnce
<1>4. \A p \in PoolIds : made[p] # Absent => pools[made[p]] = p
  BY <1>1, <1>2 DEF MadeIsKept, Storing, InLock
<1>5. CASE \E p \in PoolIds :
             /\ made' = [made EXCEPT ![p] = ServiceOf[c]]
             /\ mine' = [mine EXCEPT ![c] = p]
             /\ pc' = [pc EXCEPT ![c] = "write"]
  <2>1. PICK p \in PoolIds : /\ made' = [made EXCEPT ![p] = ServiceOf[c]]
                             /\ mine' = [mine EXCEPT ![c] = p]
                             /\ pc' = [pc EXCEPT ![c] = "write"]
    BY <1>5
  <2>2. MapTyped'
    BY <1>1, <2>1, PoolAssumption DEF MapTyped, InLock, PoolAssumption
  <2>3. MapWritersHoldLock'
    BY <1>1, <2>1 DEF MapTyped, MapWritersHoldLock, InLock
  <2>4. lock = c
    BY <1>1 DEF MapWritersHoldLock, InLock
  <2>5. Storing(c, p)' /\ made'[p] = ServiceOf[c]
    BY <1>1, <2>1, <2>4 DEF MapTyped, Storing
  <2>6. \A q \in PoolIds : q # p => made'[q] = made[q]
    BY <2>1 DEF MapTyped
  <2>7. MadeIsKept'
    BY <1>1, <1>4, <2>5, <2>6 DEF MadeIsKept
  <2>8. StoresOnce'
    BY <1>1, <1>2, <1>3, <2>1 DEF MapTyped, StoresOnce, InLock
  <2>9. QED
    BY <2>2, <2>3, <2>7, <2>8
<1>6. CASE /\ UNCHANGED made
           /\ mine' = [mine EXCEPT ![c] = NoPool]
           /\ pc' = [pc EXCEPT ![c] = "rewrite"]
  <2>1. MapTyped'
    BY <1>1, <1>6 DEF MapTyped, InLock
  <2>2. MapWritersHoldLock'
    BY <1>1, <1>6 DEF MapTyped, MapWritersHoldLock, InLock
  <2>3. MadeIsKept'
    BY <1>1, <1>4, <1>6 DEF MadeIsKept
  <2>4. StoresOnce'
    BY <1>1, <1>2, <1>3, <1>6 DEF MapTyped, StoresOnce, InLock
  <2>5. QED
    BY <2>1, <2>2, <2>3, <2>4
<1>7. QED
  BY <1>5, <1>6 DEF Discover, Goto

\* What is stored is the pool just made, the one that is there, or nil where
\* there is none.
LEMMA StoreStep ==
  ASSUME PoolInv, NEW c \in Callers, WriteEnd(c)
  PROVE  PoolInv'
<1> USE DEF PoolInv
<1> DEFINE s == ServiceOf[c]
<1>1. /\ UNCHANGED <<mine, made, lock>>
      /\ pools' = [pools EXCEPT ![s] = mine[c]]
      /\ pc[c] \in {"writing", "rewriting"}
      /\ pc' = [pc EXCEPT ![c] = IF pc[c] = "writing" THEN "rewrite" ELSE "reread"]
  BY DEF WriteEnd, Goto, poolVars
<1>2. \A d \in Callers : d # c => pc[d] \notin InLock
  BY <1>1, OneInLock DEF InLock
<1>3. s \in Services /\ mine[c] \in PoolIds \cup {NoPool}
  BY PoolAssumption DEF PoolAssumption, MapTyped
<1>4. MapTyped'
  BY <1>1, <1>3 DEF MapTyped, InLock
<1>5. MapWritersHoldLock'
  BY <1>1 DEF MapTyped, MapWritersHoldLock, InLock
<1>6. \A t \in Services : pools'[t] = IF t = s THEN mine[c] ELSE pools[t]
  BY <1>1 DEF MapTyped
<1>7. MadeIsKept'
  <2> SUFFICES ASSUME NEW p \in PoolIds, made[p] # Absent
               PROVE  pools'[made[p]] = p
    BY <1>1 DEF MadeIsKept
  <2>1. made[p] \in Services
    BY DEF MapTyped
  <2>2. CASE pools[made[p]] = p
    <3>1. made[p] = s => pc[c] = "rewriting" /\ mine[c] = p
      BY <1>1, <2>2 DEF StoresOnce
    <3>2. QED
      BY <1>6, <2>1, <2>2, <3>1
  <2>3. CASE \E d \in Callers : Storing(d, p) /\ ServiceOf[d] = made[p]
    BY <1>2, <1>6, <2>1, <2>3 DEF Storing, InLock
  <2>4. QED
    BY <2>2, <2>3 DEF MadeIsKept
<1>8. StoresOnce'
  <2>1. pools'[s] = mine[c] /\ mine[c] # Absent
    BY <1>3, <1>6, PoolValues
  <2>2. pc'[c] \in {"rewrite", "reread"}
    BY <1>1 DEF MapTyped
  <2>3. \A d \in Callers : d # c => pc'[d] = pc[d]
    BY <1>1 DEF MapTyped
  <2>4. QED
    BY <1>1, <1>2, <2>1, <2>2, <2>3 DEF StoresOnce, InLock
<1>9. QED
  BY <1>4, <1>5, <1>7, <1>8

\* PoolInv holds in every reachable state.
THEOREM PoolInvariant == Spec => []PoolInv
<1>1. PoolInv /\ [Next]_vars => PoolInv'
  <2> SUFFICES ASSUME PoolInv, [Next]_vars PROVE PoolInv'
    OBVIOUS
  <2>1. CASE UNCHANGED lockVars
    BY <2>1 DEF lockVars, PoolInv, MapTyped, MapWritersHoldLock, MadeIsKept, StoresOnce, Storing
  <2>2. CASE Next
    BY <2>1, <2>2, NextCases, OutsideStep, MoveStep, DiscoverStep, StoreStep
  <2>3. QED
    BY <2>1, <2>2 DEF vars, poolVars, lockVars
<1>2. QED
  BY <1>1, InitInvariant, PTL DEF Spec

\* The map is written, and a pool made, by the owner of the lock only.
THEOREM MapWritersCorrect == Spec => []MapWritersHoldLock
<1>1. PoolInv => MapWritersHoldLock
  BY DEF PoolInv
<1>2. QED
  BY <1>1, PoolInvariant, PTL

\* However many callers there are, one pool at most is made for a service.
THEOREM OnePoolCorrect == Spec => []OnePoolPerService
<1>1. PoolInv => OnePoolPerService
  <2> SUFFICES ASSUME PoolInv, NEW s \in Services
               PROVE  Cardinality({p \in PoolIds : made[p] = s}) <= 1
    BY DEF OnePoolPerService
  <2> DEFINE Of == {p \in PoolIds : made[p] = s}
  <2>1. s # Absent
    BY PoolValues
  <2>2. ASSUME NEW p \in Of, NEW q \in Of PROVE p = q
    <3>1. \A i \in Of : pools[s] = i \/ \E c \in Callers : Storing(c, i) /\ ServiceOf[c] = s
      BY <2>1 DEF PoolInv, MadeIsKept
    <3>2. \A c \in Callers, i \in Of :
             Storing(c, i) /\ ServiceOf[c] = s => pools[s] \notin PoolIds
      BY DEF PoolInv, StoresOnce, Storing
    <3>3. \A c, d \in Callers, i, j \in Of : Storing(c, i) /\ Storing(d, j) => i = j
      BY DEF Storing
    <3>4. QED
      BY <3>1, <3>2, <3>3
  <2>3. CASE Of = {}
    BY <2>3, FS_EmptySet
  <2>4. CASE Of # {}
    <3>1. PICK p \in Of : TRUE
      BY <2>4
    <3>2. Of = {p}
      BY <2>2, <3>1
    <3>3. Cardinality({p}) = 1
      BY FS_Singleton
    <3>4. QED
      BY <3>2, <3>3
  <2>5. QED
    BY <2>3, <2>4
<1>2. QED
  BY <1>1, PoolInvariant, PTL

-----------------------------------------------------------------------------
(* Panics and failures *)

\* The constants as the provers want them.
LEMMA Bounds ==
  /\ PoolSize \in Nat \ {0} /\ IndexValues \in Nat \ {0}
  /\ \A c \in Callers : ServiceOf[c] \in Services
BY PoolAssumption DEF PoolAssumption

\* A remainder is less than its divisor.
LEMMA Remainder ==
  ASSUME NEW s \in Nat \ {0}, NEW x \in Nat
  PROVE  x % s \in 0..(s - 1)
OBVIOUS

\* No caller has begun, and nothing was made.
LEMMA InitTyped == Init => TypeOK
<1> SUFFICES ASSUME Init PROVE TypeOK
  OBVIOUS
<1>1. 0 \in Clients /\ 0 \in 0..(IndexValues - 1)
  BY Bounds DEF Clients
<1>2. /\ pick \in [Callers -> Clients]
      /\ index \in [PoolIds -> 0..(IndexValues - 1)]
      /\ load \in [PoolIds -> [Clients -> Nat]]
  BY <1>1 DEF Init
<1>3. QED
  BY <1>2 DEF Init, TypeOK

\* What Get leaves in the counter and in the picks is of its type.
LEMMA GetTyped ==
  ASSUME TypeOK, NEW p \in PoolIds
  PROVE  /\ Next64(p) \in 0..(IndexValues - 1)
         /\ Next64(p) % PoolSize \in Clients
<1>1. index[p] + 1 \in Nat
  BY Bounds DEF TypeOK
<1>2. Next64(p) \in 0..(IndexValues - 1)
  BY <1>1, Bounds, Remainder DEF Next64
<1>3. Next64(p) % PoolSize \in Clients
  BY <1>2, Bounds, Remainder DEF Clients
<1>4. QED
  BY <1>2, <1>3

\* Every variable keeps its type.  That the map has an entry when it is read
\* again is what PoolInv adds.
LEMMA NextTyped == PoolInv /\ TypeOK /\ [Next]_vars => TypeOK'
<1> SUFFICES ASSUME PoolInv, TypeOK, [Next]_vars PROVE TypeOK'
  OBVIOUS
<1>1. CASE UNCHANGED vars
  BY <1>1 DEF vars, poolVars, TypeOK
<1>2. ASSUME NEW c \in Callers, Lookup(c) PROVE TypeOK'
  <2>1. pools[ServiceOf[c]] # Absent => pools[ServiceOf[c]] \in PoolIds \cup {NoPool}
    BY Bounds DEF TypeOK
  <2>2. mine' \in [Callers -> PoolIds \cup {NoPool}]
    BY <1>2, <2>1 DEF Lookup, TypeOK
  <2>3. QED
    BY <1>2, <2>2 DEF Lookup, Goto, mapVars, poolVars, TypeOK
<1>3. ASSUME Crash PROVE TypeOK'
  BY <1>3 DEF Crash, poolVars, TypeOK
<1>4. ASSUME NEW c \in Callers, Lock(c) PROVE TypeOK'
  BY <1>4 DEF Lock, Goto, mapVars, poolVars, TypeOK
<1>5. ASSUME NEW c \in Callers, Recheck(c) PROVE TypeOK'
  BY <1>5 DEF Recheck, Goto, mapVars, poolVars, TypeOK
<1>6. ASSUME NEW c \in Callers, Discover(c) PROVE TypeOK'
  <2>1. UNCHANGED <<mapVars, lock, pick, index, wraps, closing, load>>
    BY <1>6 DEF Discover
  <2>2. /\ pc' \in [Callers -> {"idle", "lock", "recheck", "make", "write", "writing", "rewrite",
                                "rewriting", "reread", "get", "pick", "panicked"}]
        /\ mine' \in [Callers -> PoolIds \cup {NoPool}]
        /\ made' \in [PoolIds -> Services \cup {Absent}]
        /\ failed' \subseteq Services
    BY <1>6, Bounds DEF Discover, Goto, TypeOK
  <2>3. QED
    BY <2>1, <2>2 DEF mapVars, TypeOK
<1>7. ASSUME NEW c \in Callers, WriteBegin(c) PROVE TypeOK'
  BY <1>7 DEF WriteBegin, Goto, poolVars, TypeOK
<1>8. ASSUME NEW c \in Callers, WriteEnd(c) PROVE TypeOK'
  <2>1. pools' \in [Services -> PoolIds \cup {NoPool, Absent}]
    BY <1>8 DEF WriteEnd, TypeOK
  <2>2. QED
    BY <1>8, <2>1 DEF WriteEnd, Goto, poolVars, TypeOK
<1>9. ASSUME NEW c \in Callers, Reread(c) PROVE TypeOK'
  <2>1. pools[ServiceOf[c]] \in PoolIds \cup {NoPool}
    BY <1>9, Bounds DEF Reread, PoolInv, StoresOnce, TypeOK
  <2>2. mine' \in [Callers -> PoolIds \cup {NoPool}]
    BY <1>9, <2>1 DEF Reread, TypeOK
  <2>3. QED
    BY <1>9, <2>2 DEF Reread, Goto, mapVars, poolVars, TypeOK
<1>10. ASSUME NEW c \in Callers, GetNil(c) PROVE TypeOK'
  BY <1>10 DEF GetNil, Goto, mapVars, poolVars, TypeOK
<1>11. ASSUME NEW c \in Callers, GetAdd(c) PROVE TypeOK'
  <2> DEFINE p == mine[c]
             picked == Next64(p) % PoolSize
  <2>1. p \in PoolIds
    BY <1>11 DEF GetAdd, TypeOK
  <2>2. Next64(p) \in 0..(IndexValues - 1) /\ picked \in Clients
    BY <2>1, GetTyped
  <2>3. /\ index' = [index EXCEPT ![p] = Next64(p)]
        /\ wraps' = [wraps EXCEPT ![p] = IF Next64(p) = 0 THEN @ + 1 ELSE @]
        /\ pick' = [pick EXCEPT ![c] = picked]
        /\ load' = [load EXCEPT ![p][picked] = @ + 1]
        /\ pc' = [pc EXCEPT ![c] = "pick"]
        /\ UNCHANGED <<mapVars, lock, mine, made, closing, failed>>
    BY <1>11 DEF GetAdd, Goto
  <2> HIDE DEF p, picked
  <2>4. index' \in [PoolIds -> 0..(IndexValues - 1)]
    BY <2>2, <2>3 DEF TypeOK
  <2>5. wraps' \in [PoolIds -> Nat]
    BY <2>1, <2>3 DEF TypeOK
  <2>6. pick' \in [Callers -> Clients]
    BY <2>2, <2>3 DEF TypeOK
  <2>7. load' \in [PoolIds -> [Clients -> Nat]]
    <3>1. load[p] \in [Clients -> Nat]
      BY <2>1 DEF TypeOK
    <3>2. [load[p] EXCEPT ![picked] = @ + 1] \in [Clients -> Nat]
      BY <2>2, <3>1
    <3>3. load' = [load EXCEPT ![p] = [load[p] EXCEPT ![picked] = @ + 1]]
      BY <2>3
    <3>4. QED
      BY <2>1, <3>2, <3>3 DEF TypeOK
  <2>8. QED
    BY <2>3, <2>4, <2>5, <2>6, <2>7 DEF mapVars, TypeOK
<1>12. ASSUME NEW c \in Callers, GetClient(c) PROVE TypeOK'
  BY <1>12 DEF GetClient, Goto, mapVars, poolVars, TypeOK
<1>13. ASSUME NEW s \in Services, CloseBegin(s) PROVE TypeOK'
  BY <1>13 DEF CloseBegin, mapVars, TypeOK
<1>14. ASSUME NEW p \in PoolIds, CloseEnd(p) PROVE TypeOK'
  BY <1>14 DEF CloseEnd, mapVars, TypeOK
<1>15. CASE Next
  BY <1>15, <1>2, <1>3, <1>4, <1>5, <1>6, <1>7, <1>8, <1>9, <1>10, <1>11, <1>12, <1>13, <1>14
     DEF Next, CallStep, CallBegins, LookupCrash, CloseStep, CloseCrash
<1>16. QED
  BY <1>1, <1>15

\* Every variable has its type in every reachable state.
THEOREM TypeTheorem == Spec => []TypeOK
<1>1. QED
  BY InitTyped, NextTyped, PoolInvariant, PTL DEF Spec

\* A step of a caller changes the place and the pool of that caller only.
LEMMA FailStep ==
  ASSUME FailInv, NEW c \in Callers,
         UNCHANGED <<pools, closing, failed>>,
         \A d \in Callers : d # c => pc'[d] = pc[d] /\ mine'[d] = mine[d],
         pc'[c] \in {"rewrite", "rewriting", "get"} /\ mine'[c] = NoPool => ServiceOf[c] \in failed,
         pc'[c] \in {"write", "writing", "pick"} => mine'[c] # NoPool,
         pc'[c] = "panicked" => \/ mine'[c] = NoPool /\ ServiceOf[c] \in failed
                                \/ mine'[c] # NoPool /\ closing[mine'[c]] = "closed"
  PROVE  FailInv'
<1>1. NilIsFailure'
  BY DEF FailInv, NilIsFailure
<1>2. PanicOnlyAfterFailureOrClose'
  BY DEF FailInv, PanicOnlyAfterFailureOrClose
<1>3. QED
  BY <1>1, <1>2 DEF FailInv

\* Nil pools come from failed discoveries only, and closed pools stay closed.
LEMMA NextFail == TypeOK /\ FailInv /\ [Next]_vars => FailInv'
<1> SUFFICES ASSUME TypeOK, FailInv, [Next]_vars PROVE FailInv'
  OBVIOUS
<1>1. ASSUME UNCHANGED <<pools, pc, mine, closing, failed>> PROVE FailInv'
  BY <1>1 DEF FailInv, NilIsFailure, PanicOnlyAfterFailureOrClose
<1>2. ASSUME NEW c \in Callers, Lookup(c) PROVE FailInv'
  <2>1. UNCHANGED <<pools, closing, failed>>
    BY <1>2 DEF Lookup, mapVars, poolVars
  <2>2. CASE pools[ServiceOf[c]] = Absent
    <3>1. pc' = [pc EXCEPT ![c] = "lock"] /\ mine' = [mine EXCEPT ![c] = mine[c]]
      BY <1>2, <2>2 DEF Lookup, Goto, TypeOK
    <3>2. QED
      BY <2>1, <3>1, FailStep DEF TypeOK
  <2>3. CASE pools[ServiceOf[c]] # Absent
    <3>1. pc' = [pc EXCEPT ![c] = "get"] /\ mine' = [mine EXCEPT ![c] = pools[ServiceOf[c]]]
      BY <1>2, <2>3 DEF Lookup, Goto
    <3>2. pools[ServiceOf[c]] = NoPool => ServiceOf[c] \in failed
      BY Bounds DEF FailInv, NilIsFailure
    <3>3. QED
      BY <2>1, <3>1, <3>2, FailStep DEF TypeOK
  <2>4. QED
    BY <2>2, <2>3
<1>3. ASSUME NEW c \in Callers, Lock(c) \/ Recheck(c) PROVE FailInv'
  <2>1. UNCHANGED <<pools, closing, failed>> /\ mine' = [mine EXCEPT ![c] = mine[c]]
    BY <1>3 DEF Lock, Recheck, mapVars, poolVars, TypeOK
  <2>2. \E l \in {"recheck", "make", "reread"} : pc' = [pc EXCEPT ![c] = l]
    BY <1>3 DEF Lock, Recheck, Goto
  <2>3. QED
    BY <2>1, <2>2, FailStep DEF TypeOK
<1>4. ASSUME NEW c \in Callers, Discover(c) PROVE FailInv'
  <2>1. UNCHANGED <<pools, closing>>
    BY <1>4 DEF Discover, mapVars
  <2>2. CASE \E p \in PoolIds : /\ mine' = [mine EXCEPT ![c] = p]
                                /\ pc' = [pc EXCEPT ![c] = "write"] /\ UNCHANGED failed
    <3>1. PICK p \in PoolIds : /\ mine' = [mine EXCEPT ![c] = p]
                               /\ pc' = [pc EXCEPT ![c] = "write"] /\ UNCHANGED failed
      BY <2>2
    <3>2. p # NoPool
      BY PoolValues
    <3>3. QED
      BY <2>1, <3>1, <3>2, FailStep DEF TypeOK
  <2>3. CASE /\ failed' = failed \cup {ServiceOf[c]}
             /\ mine' = [mine EXCEPT ![c] = NoPool]
             /\ pc' = [pc EXCEPT ![c] = "rewrite"]
    <3>1. /\ \A d \in Callers : pc'[d] = IF d = c THEN "rewrite" ELSE pc[d]
          /\ \A d \in Callers : mine'[d] = IF d = c THEN NoPool ELSE mine[d]
      BY <2>3 DEF TypeOK
    <3>2. NilIsFailure'
      BY <2>1, <2>3, <3>1 DEF FailInv, NilIsFailure
    <3>3. PanicOnlyAfterFailureOrClose'
      BY <2>1, <2>3, <3>1 DEF FailInv, PanicOnlyAfterFailureOrClose
    <3>4. QED
      BY <3>2, <3>3 DEF FailInv
  <2>4. QED
    BY <1>4, <2>2, <2>3 DEF Discover, Goto
<1>5. ASSUME NEW c \in Callers, WriteBegin(c) PROVE FailInv'
  <2>1. UNCHANGED <<pools, closing, failed>> /\ mine' = [mine EXCEPT ![c] = mine[c]]
    BY <1>5 DEF WriteBegin, poolVars, TypeOK
  <2>2. CASE pc[c] = "write"
    <3>1. pc' = [pc EXCEPT ![c] = "writing"] /\ mine[c] # NoPool
      BY <1>5, <2>2 DEF WriteBegin, Goto, FailInv, NilIsFailure
    <3>2. QED
      BY <2>1, <3>1, FailStep DEF TypeOK
  <2>3. CASE pc[c] = "rewrite"
    <3>1. pc' = [pc EXCEPT ![c] = "rewriting"] /\ (mine[c] = NoPool => ServiceOf[c] \in failed)
      BY <1>5, <2>3 DEF WriteBegin, Goto, FailInv, NilIsFailure
    <3>2. QED
      BY <2>1, <3>1, FailStep DEF TypeOK
  <2>4. QED
    BY <1>5, <2>2, <2>3 DEF WriteBegin
<1>6. ASSUME NEW c \in Callers, WriteEnd(c) PROVE FailInv'
  <2>1. /\ UNCHANGED <<mine, closing, failed>>
        /\ pools' = [pools EXCEPT ![ServiceOf[c]] = mine[c]]
        /\ pc[c] \in {"writing", "rewriting"}
        /\ pc' = [pc EXCEPT ![c] = IF pc[c] = "writing" THEN "rewrite" ELSE "reread"]
    BY <1>6 DEF WriteEnd, Goto, poolVars
  <2>2. mine[c] = NoPool => pc[c] = "rewriting" /\ ServiceOf[c] \in failed
    BY <2>1 DEF FailInv, NilIsFailure
  <2>3. \A s \in Services : pools'[s] = IF s = ServiceOf[c] THEN mine[c] ELSE pools[s]
    BY <2>1 DEF TypeOK
  <2>4. \A d \in Callers : d # c => pc'[d] = pc[d]
    BY <2>1 DEF TypeOK
  <2>5. pc'[c] = "reread" \/ (pc'[c] = "rewrite" /\ mine[c] # NoPool)
    BY <2>1, <2>2 DEF TypeOK
  <2>6. NilIsFailure'
    BY <2>1, <2>2, <2>3, <2>4, <2>5 DEF FailInv, NilIsFailure
  <2>7. PanicOnlyAfterFailureOrClose'
    BY <2>1, <2>4, <2>5 DEF FailInv, PanicOnlyAfterFailureOrClose
  <2>8. QED
    BY <2>6, <2>7 DEF FailInv
<1>7. ASSUME NEW c \in Callers, Reread(c) PROVE FailInv'
  <2>1. /\ UNCHANGED <<pools, closing, failed>> /\ pc' = [pc EXCEPT ![c] = "get"]
        /\ mine' = [mine EXCEPT ![c] = pools[ServiceOf[c]]]
    BY <1>7 DEF Reread, Goto, mapVars, poolVars
  <2>2. pools[ServiceOf[c]] = NoPool => ServiceOf[c] \in failed
    BY Bounds DEF FailInv, NilIsFailure
  <2>3. QED
    BY <2>1, <2>2, FailStep DEF TypeOK
<1>8. ASSUME NEW c \in Callers, GetNil(c) PROVE FailInv'
  <2>1. /\ UNCHANGED <<pools, closing, failed>> /\ mine' = [mine EXCEPT ![c] = mine[c]]
        /\ pc' = [pc EXCEPT ![c] = "panicked"] /\ mine[c] = NoPool /\ pc[c] = "get"
    BY <1>8 DEF GetNil, Goto, mapVars, poolVars, TypeOK
  <2>2. ServiceOf[c] \in failed
    BY <2>1 DEF FailInv, NilIsFailure
  <2>3. QED
    BY <2>1, <2>2, FailStep DEF TypeOK
<1>9. ASSUME NEW c \in Callers, GetAdd(c) PROVE FailInv'
  <2>1. /\ UNCHANGED <<pools, closing, failed>> /\ mine' = [mine EXCEPT ![c] = mine[c]]
        /\ pc' = [pc EXCEPT ![c] = "pick"] /\ mine[c] # NoPool
    BY <1>9 DEF GetAdd, Goto, mapVars, TypeOK
  <2>2. QED
    BY <2>1, FailStep DEF TypeOK
<1>10. ASSUME NEW c \in Callers, GetClient(c) PROVE FailInv'
  <2>1. /\ UNCHANGED <<pools, closing, failed>> /\ mine' = [mine EXCEPT ![c] = mine[c]]
        /\ pc[c] = "pick"
    BY <1>10 DEF GetClient, Goto, mapVars, poolVars, TypeOK
  <2>2. pick[c] \in Clients
    BY DEF TypeOK
  <2>3. mine[c] # NoPool
    BY <2>1 DEF FailInv, NilIsFailure
  <2>4. CASE closing[mine[c]] = "closed"
    <3>1. pc' = [pc EXCEPT ![c] = "panicked"]
      BY <1>10, <2>4 DEF GetClient, Goto
    <3>2. QED
      BY <2>1, <2>3, <2>4, <3>1, FailStep DEF TypeOK
  <2>5. CASE closing[mine[c]] # "closed"
    <3>1. pc' = [pc EXCEPT ![c] = "idle"]
      BY <1>10, <2>2, <2>5 DEF GetClient, Goto
    <3>2. QED
      BY <2>1, <3>1, FailStep DEF TypeOK
  <2>6. QED
    BY <2>4, <2>5
<1>11. ASSUME UNCHANGED <<pools, pc, mine, failed>>,
              NEW p \in PoolIds, closing[p] # "closed",
              NEW k, closing' = [closing EXCEPT ![p] = k]
       PROVE  FailInv'
  <2>1. NilIsFailure'
    BY <1>11 DEF FailInv, NilIsFailure
  <2>2. \A q \in PoolIds : closing[q] = "closed" => closing'[q] = "closed"
    BY <1>11 DEF TypeOK
  <2>3. \A c \in Callers : mine[c] # NoPool => mine[c] \in PoolIds
    BY DEF TypeOK
  <2>4. PanicOnlyAfterFailureOrClose'
    BY <1>11, <2>2, <2>3 DEF FailInv, PanicOnlyAfterFailureOrClose
  <2>5. QED
    BY <2>1, <2>4 DEF FailInv
<1>12. ASSUME NEW s \in Services, CloseBegin(s) PROVE FailInv'
  <2>1. /\ pools[s] \in PoolIds /\ closing[pools[s]] # "closed"
        /\ closing' = [closing EXCEPT ![pools[s]] = "closing"]
        /\ UNCHANGED <<pools, pc, mine, failed>>
    BY <1>12 DEF CloseBegin, mapVars
  <2>2. QED
    BY <2>1, <1>11
<1>13. ASSUME NEW p \in PoolIds, CloseEnd(p) PROVE FailInv'
  <2>1. /\ closing[p] # "closed" /\ closing' = [closing EXCEPT ![p] = "closed"]
        /\ UNCHANGED <<pools, pc, mine, failed>>
    BY <1>13 DEF CloseEnd, mapVars
  <2>2. QED
    BY <2>1, <1>11
<1>14. CASE Crash
  BY <1>1, <1>14 DEF Crash, poolVars
<1>15. CASE UNCHANGED vars
  BY <1>1, <1>15 DEF vars, poolVars
<1>16. CASE Next
  BY <1>16, <1>2, <1>3, <1>4, <1>5, <1>6, <1>7, <1>8, <1>9, <1>10, <1>12, <1>13, <1>14
     DEF Next, CallStep, CallBegins, LookupCrash, CloseStep, CloseCrash
<1>17. QED
  BY <1>15, <1>16

\* FailInv holds in every reachable state.
LEMMA FailTheorem == Spec => []FailInv
<1>1. Init => FailInv
  BY PoolValues DEF Init, FailInv, NilIsFailure, PanicOnlyAfterFailureOrClose
<1>2. QED
  BY <1>1, NextFail, TypeTheorem, PTL DEF Spec

\* No call panics but on the nil pool of a failed discovery or on a closed pool.
THEOREM PanicTheorem == Spec => []PanicOnlyAfterFailureOrClose
<1>1. FailInv => PanicOnlyAfterFailureOrClose
  BY DEF FailInv
<1>2. QED
  BY <1>1, FailTheorem, PTL

-----------------------------------------------------------------------------
(* Taking turns *)

\* Division with remainder.
LEMMA DivMod ==
  ASSUME NEW s \in Nat \ {0}, NEW x \in Nat
  PROVE  x \div s \in Int /\ x = s * (x \div s) + (x % s)
<1>1. x \div s \in Int
  OBVIOUS
<1>2. x % s = x - s * (x \div s)
  BY SMT
<1>3. QED
  BY <1>1, <1>2

\* The remainder is the only one.
LEMMA RemainderIsUnique ==
  ASSUME NEW s \in Nat \ {0}, NEW q \in Int, NEW r \in 0..(s - 1)
  PROVE  (s * q + r) % s = r
BY SMTT(20)

\* The remainder of the next number is the next remainder, or 0 after the last.
LEMMA NextRemainder ==
  ASSUME NEW s \in Nat \ {0}, NEW x \in Nat
  PROVE  (x + 1) % s = IF x % s = s - 1 THEN 0 ELSE (x % s) + 1
<1> DEFINE q == x \div s
           r == x % s
<1>1. q \in Int /\ x = s * q + r /\ r \in 0..(s - 1)
  BY DivMod, Remainder
<1> HIDE DEF q, r
<1>2. CASE r = s - 1
  <2>1. x + 1 = s * (q + 1) + 0
    BY <1>1, <1>2
  <2>2. (s * (q + 1) + 0) % s = 0
    BY <1>1, RemainderIsUnique
  <2>3. QED
    BY <2>1, <2>2, <1>2 DEF r
<1>3. CASE r # s - 1
  <2>1. x + 1 = s * q + (r + 1)
    BY <1>1
  <2>2. (s * q + (r + 1)) % s = r + 1
    BY <1>1, <1>3, RemainderIsUnique
  <2>3. QED
    BY <2>1, <2>2, <1>3 DEF r
<1>4. QED
  BY <1>2, <1>3

\* A number that is less than its divisor is its own remainder, and 0 is that of
\* the divisor.
LEMMA SmallRemainder ==
  ASSUME NEW s \in Nat \ {0}
  PROVE  s % s = 0 /\ 0 % s = 0 /\ \A x \in 0..(s - 1) : x % s = x
<1>1. s % s = 0
  OBVIOUS
<1>2. ASSUME NEW x \in 0..(s - 1) PROVE x % s = x
  OBVIOUS
<1>3. QED
  BY <1>1, <1>2

\* A pick adds one to the next client of the round, or begins a round with client
\* 0: after the last client, or when index goes around, which cuts the round short.
LEMMA GetRound ==
  ASSUME TypeOK, RoundInv, NEW c \in Callers, GetAdd(c)
  PROVE  RoundInv'
<1>1. PICK p \in PoolIds : p = mine[c]
  BY DEF GetAdd, TypeOK
<1> DEFINE n == index[p] % PoolSize
           m == Next64(p) % PoolSize
<1>2. /\ index' = [index EXCEPT ![p] = Next64(p)]
      /\ wraps' = [wraps EXCEPT ![p] = IF Next64(p) = 0 THEN @ + 1 ELSE @]
      /\ load' = [load EXCEPT ![p][m] = @ + 1]
  BY <1>1 DEF GetAdd
<1>3. index[p] \in 0..(IndexValues - 1) /\ index[p] \in Nat
  BY <1>1, Bounds DEF TypeOK
<1>4. n \in 0..(PoolSize - 1) /\ m \in 0..(PoolSize - 1)
  BY <1>1, <1>3, Bounds, Remainder, GetTyped DEF Clients
<1>5. Next64(p) = 0 \/ Next64(p) = index[p] + 1
  <2>1. CASE index[p] = IndexValues - 1
    BY <1>3, <2>1, Bounds, SmallRemainder DEF Next64
  <2>2. CASE index[p] # IndexValues - 1
    <3>1. index[p] + 1 \in 0..(IndexValues - 1)
      BY <1>3, <2>2, Bounds
    <3>2. QED
      BY <3>1, Bounds, SmallRemainder DEF Next64
  <2>3. QED
    BY <2>1, <2>2
<1>6. \/ m = 0 /\ Next64(p) = 0
      \/ m = (IF n = PoolSize - 1 THEN 0 ELSE n + 1) /\ Next64(p) # 0
  BY <1>3, <1>5, Bounds, NextRemainder, SmallRemainder
<1>7. /\ \A q \in PoolIds : q # p => /\ index'[q] = index[q] /\ wraps'[q] = wraps[q]
                                     /\ load'[q] = load[q]
      /\ index'[p] = Next64(p)
      /\ wraps'[p] = IF Next64(p) = 0 THEN wraps[p] + 1 ELSE wraps[p]
  BY <1>1, <1>2 DEF TypeOK
<1>8. \A i \in Clients : load'[p][i] = IF i = m THEN load[p][i] + 1 ELSE load[p][i]
  <2>1. load[p] \in [Clients -> Nat]
    BY <1>1 DEF TypeOK
  <2>2. load'[p] = [load[p] EXCEPT ![m] = @ + 1]
    BY <1>1, <1>2 DEF TypeOK
  <2>3. QED
    BY <2>1, <2>2
<1>9. /\ \A i \in Clients : Ahead(p, i) = IF 1 <= i /\ i <= n THEN 1 ELSE 0
      /\ \A i \in Clients : Ahead(p, i)' = IF 1 <= i /\ i <= m THEN 1 ELSE 0
  BY <1>7 DEF Ahead
<1>10. wraps[p] \in Nat /\ load[p] \in [Clients -> Nat]
  BY <1>1 DEF TypeOK
<1>11. ASSUME NEW i \in Clients, NEW j \in Clients
       PROVE  load'[p][i] - load'[p][j] <= wraps'[p] + Ahead(p, i)' - Ahead(p, j)'
  <2> DEFINE Li == load[p][i]
             Lj == load[p][j]
             w == wraps[p]
  <2>1. /\ i \in Nat /\ j \in Nat /\ i < PoolSize /\ j < PoolSize
        /\ Li \in Nat /\ Lj \in Nat /\ w \in Nat /\ PoolSize \in Nat
    BY <1>10, Bounds DEF Clients
  <2>2. Li - Lj <= w + (IF 1 <= i /\ i <= n THEN 1 ELSE 0) - (IF 1 <= j /\ j <= n THEN 1 ELSE 0)
    BY <1>1, <1>9 DEF RoundInv
  <2>3. /\ load'[p][i] = IF i = m THEN Li + 1 ELSE Li
        /\ load'[p][j] = IF j = m THEN Lj + 1 ELSE Lj
        /\ wraps'[p] = IF Next64(p) = 0 THEN w + 1 ELSE w
        /\ Ahead(p, i)' = IF 1 <= i /\ i <= m THEN 1 ELSE 0
        /\ Ahead(p, j)' = IF 1 <= j /\ j <= m THEN 1 ELSE 0
    BY <1>7, <1>8, <1>9
  <2> HIDE DEF Li, Lj, w, n, m
  <2>4. CASE Next64(p) = 0
    BY <2>1, <2>2, <2>3, <2>4, <1>4, <1>6
  <2>5. CASE Next64(p) # 0
    BY <2>1, <2>2, <2>3, <2>5, <1>4, <1>6
  <2>6. QED
    BY <2>4, <2>5
<1>12. ASSUME NEW q \in PoolIds, q # p, NEW i \in Clients, NEW j \in Clients
       PROVE  load'[q][i] - load'[q][j] <= wraps'[q] + Ahead(q, i)' - Ahead(q, j)'
  BY <1>7, <1>12 DEF RoundInv, Ahead
<1>13. QED
  BY <1>11, <1>12 DEF RoundInv

\* Every other step leaves the counters and the loads alone.
LEMMA NextRound == TypeOK /\ RoundInv /\ [Next]_vars => RoundInv'
<1> SUFFICES ASSUME TypeOK, RoundInv, [Next]_vars PROVE RoundInv'
  OBVIOUS
<1>1. \/ UNCHANGED <<index, wraps, load>>
      \/ \E c \in Callers : GetAdd(c)
  BY DEF Next, CallStep, CallBegins, CloseStep, Lookup, LookupCrash, Lock, Recheck, Discover,
         WriteBegin, WriteEnd, Reread, GetNil, GetClient, CloseBegin, CloseEnd, CloseCrash,
         Crash, poolVars, vars
<1>2. CASE UNCHANGED <<index, wraps, load>>
  BY <1>2 DEF RoundInv, Ahead
<1>3. QED
  BY <1>1, <1>2, GetRound

\* Whatever the size of a pool, the counter's width and the callers, the clients
\* of a pool take turns.
THEOREM BalancedTheorem == Spec => []Balanced
<1>1. Init => RoundInv
  <2> SUFFICES ASSUME Init, NEW p \in PoolIds, NEW i \in Clients, NEW j \in Clients
               PROVE  load[p][i] - load[p][j] <= wraps[p] + Ahead(p, i) - Ahead(p, j)
    BY DEF RoundInv
  <2>1. load[p][i] = 0 /\ load[p][j] = 0 /\ wraps[p] = 0 /\ index[p] = 0
    BY DEF Init
  <2>2. 0 % PoolSize = 0
    BY Bounds, SmallRemainder
  <2>3. Ahead(p, i) = 0 /\ Ahead(p, j) = 0
    BY <2>1, <2>2 DEF Ahead, Clients
  <2>4. QED
    BY <2>1, <2>3
<1>2. Spec => []RoundInv
  BY <1>1, NextRound, TypeTheorem, PTL DEF Spec
<1>3. TypeOK /\ RoundInv => Balanced
  <2> SUFFICES ASSUME TypeOK, RoundInv, NEW p \in PoolIds, NEW i \in Clients, NEW j \in Clients
               PROVE  load[p][i] - load[p][j] <= 1 + wraps[p]
    BY DEF Balanced
  <2>1. load[p][i] \in Nat /\ load[p][j] \in Nat /\ wraps[p] \in Nat
    BY DEF TypeOK
  <2>2. Ahead(p, i) \in {0, 1} /\ Ahead(p, j) \in {0, 1}
    BY DEF Ahead
  <2>3. load[p][i] - load[p][j] <= wraps[p] + Ahead(p, i) - Ahead(p, j)
    BY DEF RoundInv
  <2>4. QED
    BY <2>1, <2>2, <2>3
<1>4. QED
  BY <1>2, <1>3, TypeTheorem, PTL

-----------------------------------------------------------------------------
(* The pools as ServicePools *)

\* Pools are stored and handed out for the service that they were made for.
LEMMA OwnStep ==
  ASSUME TypeOK, PoolInv, OwnPool, [Next]_vars
  PROVE  OwnPool'
<1> USE Bounds, PoolValues DEF TypeOK, OwnPool
<1>1. ASSUME UNCHANGED <<pools, writing, mine, made>>, writing # NoOne => pc'[writing] = pc[writing]
      PROVE  OwnPool'
  BY <1>1
<1>2. ASSUME NEW c \in Callers, Lookup(c) PROVE OwnPool'
  <2>1. UNCHANGED <<pools, writing, made>> /\ pc[c] = "idle"
    BY <1>2 DEF Lookup, mapVars, poolVars
  <2>2. /\ \A d \in Callers : d # c => pc'[d] = pc[d] /\ mine'[d] = mine[d]
        /\ mine'[c] = mine[c] \/ mine'[c] = pools[ServiceOf[c]]
    BY <1>2 DEF Lookup, Goto
  <2>3. QED
    BY <2>1, <2>2
<1>3. ASSUME NEW c \in Callers, Lock(c) \/ Recheck(c) \/ GetNil(c) \/ GetAdd(c) \/ GetClient(c)
      PROVE  OwnPool'
  <2>1. UNCHANGED <<pools, writing, mine, made>> /\ pc[c] \notin {"writing", "rewriting"}
    BY <1>3 DEF Lock, Recheck, GetNil, GetAdd, GetClient, mapVars, poolVars
  <2>2. \A d \in Callers : d # c => pc'[d] = pc[d]
    BY <1>3 DEF Lock, Recheck, GetNil, GetAdd, GetClient, Goto
  <2>3. QED
    BY <2>1, <2>2
<1>4. ASSUME NEW c \in Callers, Discover(c) PROVE OwnPool'
  <2>1. UNCHANGED <<pools, writing>> /\ pc[c] = "make"
    BY <1>4 DEF Discover, mapVars
  <2>2. \A d \in Callers : d # c => pc'[d] = pc[d] /\ mine'[d] = mine[d]
    BY <1>4 DEF Discover, Goto
  <2>3. CASE \E p \in PoolIds : /\ Free(p) /\ made' = [made EXCEPT ![p] = ServiceOf[c]]
                                /\ mine' = [mine EXCEPT ![c] = p]
    <3>1. PICK p \in PoolIds : /\ Free(p) /\ made' = [made EXCEPT ![p] = ServiceOf[c]]
                               /\ mine' = [mine EXCEPT ![c] = p]
      BY <2>3
    <3>2. \A q \in PoolIds : made[q] # Absent => made'[q] = made[q]
      BY <3>1 DEF Free
    <3>3. mine'[c] = p /\ made'[p] = ServiceOf[c]
      BY <3>1
    <3>4. QED
      BY <2>1, <2>2, <3>2, <3>3
  <2>4. CASE mine' = [mine EXCEPT ![c] = NoPool] /\ UNCHANGED made
    BY <2>1, <2>2, <2>4
  <2>5. QED
    BY <1>4, <2>3, <2>4 DEF Discover
<1>5. ASSUME NEW c \in Callers, WriteBegin(c) PROVE OwnPool'
  BY <1>5 DEF WriteBegin, Goto, poolVars
<1>6. ASSUME NEW c \in Callers, WriteEnd(c) PROVE OwnPool'
  BY <1>6 DEF WriteEnd, Goto, poolVars
<1>7. ASSUME NEW c \in Callers, Reread(c) PROVE OwnPool'
  <2>1. UNCHANGED <<pools, writing, made>> /\ pc[c] = "reread"
    BY <1>7 DEF Reread, mapVars, poolVars
  <2>2. /\ \A d \in Callers : d # c => pc'[d] = pc[d] /\ mine'[d] = mine[d]
        /\ mine'[c] = pools[ServiceOf[c]]
    BY <1>7 DEF Reread, Goto
  <2>3. QED
    BY <2>1, <2>2
<1>8. CASE Crash \/ UNCHANGED vars
  BY <1>8 DEF Crash, poolVars, vars
<1>9. CASE CloseStep
  BY <1>8, <1>9 DEF CloseStep, CloseBegin, CloseEnd, CloseCrash, mapVars
<1>10. QED
  BY <1>2, <1>3, <1>4, <1>5, <1>6, <1>7, <1>8, <1>9
     DEF Next, CallStep, CallBegins, LookupCrash

\* What the refinement rests on.
PromiseInv == TypeOK /\ PoolInv /\ FailInv /\ OwnPool

\* PromiseInv holds in every reachable state.
LEMMA PromiseTheorem == Spec => []PromiseInv
<1>1. Init => OwnPool
  BY PoolValues DEF Init, OwnPool
<1>2. Spec => []OwnPool
  BY <1>1, OwnStep, TypeTheorem, PoolInvariant, PTL DEF Spec
<1>3. QED
  BY <1>2, TypeTheorem, PoolInvariant, FailTheorem, PTL DEF PromiseInv

\* No service has a pool and no call has begun.
LEMMA PromiseInit == Init => Promise!AbsInit
BY PoolValues DEF Init, Promise!AbsInit, ownBar, callBar, useBar, Stage

\* A caller that moves changes its own call and its own pool only.
LEMMA CallMoves ==
  ASSUME TypeOK, NEW c \in Callers, NEW l, pc' = [pc EXCEPT ![c] = l],
         \A d \in Callers : d # c => mine'[d] = mine[d]
  PROVE  /\ callBar' = [callBar EXCEPT ![c] = Stage(l)]
         /\ useBar' = [useBar EXCEPT ![c] = IF l = "pick" THEN mine'[c] ELSE NoPool]
         /\ callBar[c] = Stage(pc[c])
<1>1. \A d \in Callers : pc'[d] = IF d = c THEN l ELSE pc[d]
  BY DEF TypeOK
<1>2. callBar' = [callBar EXCEPT ![c] = Stage(l)] /\ callBar[c] = Stage(pc[c])
  <2>1. \A d \in Callers : Stage(pc'[d]) = IF d = c THEN Stage(l) ELSE Stage(pc[d])
    BY <1>1
  <2>2. callBar' = [d \in Callers |-> IF d = c THEN Stage(l) ELSE Stage(pc[d])]
    BY <2>1 DEF callBar
  <2>3. QED
    BY <2>2 DEF callBar
<1>3. useBar' = [useBar EXCEPT ![c] = IF l = "pick" THEN mine'[c] ELSE NoPool]
  BY <1>1 DEF useBar
<1>4. QED
  BY <1>2, <1>3

\* While it looks for its pool a call has only asked.
Asking == {"lock", "recheck", "make", "write", "writing", "rewrite", "rewriting", "reread", "get"}

\* A caller that goes on looking for its pool changes nothing that was promised.
LEMMA StillAsking ==
  ASSUME TypeOK, NEW c \in Callers, pc[c] \in Asking, NEW l \in Asking,
         pc' = [pc EXCEPT ![c] = l],
         \A d \in Callers : d # c => mine'[d] = mine[d]
  PROVE  callBar' = callBar /\ useBar' = useBar
<1>1. Stage(pc[c]) = "asked" /\ Stage(l) = "asked"
  BY DEF Stage, Asking
<1>2. callBar' = callBar
  <2>1. \A d \in Callers : Stage(pc'[d]) = Stage(pc[d])
    BY <1>1 DEF TypeOK
  <2>2. QED
    BY <2>1 DEF callBar
<1>3. useBar' = useBar
  <2>1. l # "pick" /\ pc[c] # "pick"
    BY DEF Asking
  <2>2. \A d \in Callers : (IF pc'[d] = "pick" THEN mine'[d] ELSE NoPool)
                            = (IF pc[d] = "pick" THEN mine[d] ELSE NoPool)
    BY <2>1 DEF TypeOK
  <2>3. QED
    BY <2>2 DEF useBar
<1>4. QED
  BY <1>2, <1>3

\* A pool is made, or a discovery fails, for a service that has no pool.
LEMMA DiscoverPromised ==
  ASSUME PromiseInv, NEW c \in Callers, Discover(c), ~crashed
  PROVE  Promise!AbsNext
<1> DEFINE s == ServiceOf[c]
<1>1. TypeOK /\ PoolInv /\ s \in Services /\ pc[c] = "make"
  BY Bounds DEF PromiseInv, Discover
<1>2. /\ UNCHANGED <<closing, crashed>>
      /\ \E l \in {"write", "rewrite"} : pc' = [pc EXCEPT ![c] = l]
      /\ \A d \in Callers : d # c => mine'[d] = mine[d]
  BY <1>1 DEF Discover, Goto, mapVars, TypeOK
<1>3. UNCHANGED <<callBar, useBar>> /\ callBar[c] = "asked"
  <2>1. pc[c] \in Asking /\ \A l \in {"write", "rewrite"} : l \in Asking
    BY <1>1 DEF Asking
  <2>2. UNCHANGED <<callBar, useBar>>
    BY <1>1, <1>2, <2>1, StillAsking
  <2>3. QED
    BY <1>1, <2>2 DEF callBar, Stage
<1>4. ownBar[s] = {}
  <2>1. pools[s] \notin PoolIds
    BY <1>1 DEF PoolInv, StoresOnce
  <2>2. ASSUME NEW p \in PoolIds, made[p] = s
        PROVE  FALSE
    <3>1. made[p] # Absent /\ pools[made[p]] # p
      BY <1>1, <2>1, <2>2, PoolValues
    <3>2. PICK d \in Callers : Storing(d, p)
      BY <1>1, <3>1 DEF PoolInv, MadeIsKept
    <3>3. lock = c /\ lock = d
      BY <1>1, <3>2 DEF PoolInv, MapWritersHoldLock, InLock, Storing
    <3>4. QED
      BY <1>1, <3>2, <3>3 DEF Storing
  <2>3. QED
    BY <1>1, <2>2 DEF ownBar
<1>5. CASE \E p \in PoolIds : /\ Free(p) /\ made' = [made EXCEPT ![p] = s]
                              /\ UNCHANGED failed
  <2>1. PICK p \in PoolIds : /\ Free(p) /\ made' = [made EXCEPT ![p] = s]
                             /\ UNCHANGED failed
    BY <1>5
  <2>2. \A t \in Services : p \notin ownBar[t]
    BY <2>1, PoolValues DEF ownBar, Free
  <2>3. \A q \in PoolIds : made'[q] = IF q = p THEN s ELSE made[q]
    BY <1>1, <2>1 DEF TypeOK
  <2>4. ownBar' = [ownBar EXCEPT ![s] = {p}]
    <3>1. \A t \in Services : {q \in PoolIds : made'[q] = t} = IF t = s THEN {p} ELSE ownBar[t]
      BY <1>1, <1>4, <2>2, <2>3 DEF ownBar
    <3>2. QED
      BY <3>1 DEF ownBar
  <2>5. Promise!Make(c, p)
    BY <1>2, <1>3, <1>4, <2>1, <2>2, <2>4 DEF Promise!Make
  <2>6. QED
    BY <2>5 DEF Promise!AbsNext
<1>6. CASE failed' = failed \cup {s} /\ UNCHANGED made
  <2>1. Promise!Fail(c)
    BY <1>2, <1>3, <1>4, <1>6 DEF Promise!Fail, ownBar
  <2>2. QED
    BY <2>1 DEF Promise!AbsNext
<1>7. QED
  BY <1>5, <1>6 DEF Discover

\* A call is given the pool of its service, panics for want of it, or ends.
LEMMA GetPromised ==
  ASSUME PromiseInv, NEW c \in Callers, GetNil(c) \/ GetAdd(c) \/ GetClient(c), ~crashed
  PROVE  Promise!AbsNext
<1>1. TypeOK /\ FailInv /\ ServiceOf[c] \in Services
  BY Bounds DEF PromiseInv
<1>2. UNCHANGED <<made, closing, failed, crashed, mine, ownBar>>
  BY DEF GetNil, GetAdd, GetClient, mapVars, poolVars, ownBar
<1>3. CASE GetNil(c)
  <2>1. pc[c] = "get" /\ pc' = [pc EXCEPT ![c] = "panicked"] /\ mine[c] = NoPool
    BY <1>3 DEF GetNil, Goto
  <2>2. ServiceOf[c] \in failed
    BY <1>1, <2>1 DEF FailInv, NilIsFailure
  <2>3. /\ callBar' = [callBar EXCEPT ![c] = "panicked"] /\ callBar[c] = "asked"
        /\ useBar' = [useBar EXCEPT ![c] = NoPool]
    BY <1>1, <1>2, <2>1, CallMoves DEF Stage
  <2>4. Promise!Panic(c)
    BY <1>2, <2>2, <2>3 DEF Promise!Panic, Promise!Goes, Promise!Gives
  <2>5. QED
    BY <2>4 DEF Promise!AbsNext
<1>4. CASE GetAdd(c)
  <2>1. pc[c] = "get" /\ pc' = [pc EXCEPT ![c] = "pick"] /\ mine[c] # NoPool
    BY <1>4 DEF GetAdd, Goto
  <2>2. mine[c] \in ownBar[ServiceOf[c]]
    BY <1>1, <2>1 DEF PromiseInv, OwnPool, TypeOK, ownBar
  <2>3. /\ callBar' = [callBar EXCEPT ![c] = "given"] /\ callBar[c] = "asked"
        /\ useBar' = [useBar EXCEPT ![c] = mine[c]]
    BY <1>1, <1>2, <2>1, CallMoves DEF Stage
  <2>4. Promise!Give(c)
    BY <1>2, <2>2, <2>3 DEF Promise!Give, Promise!Goes, Promise!Gives
  <2>5. QED
    BY <2>4 DEF Promise!AbsNext
<1>5. CASE GetClient(c)
  <2>1. pc[c] = "pick" /\ pick[c] \in Clients
    BY <1>1, <1>5 DEF GetClient, TypeOK
  <2>2. useBar[c] = mine[c]
    BY <2>1 DEF useBar
  <2>3. CASE closing[mine[c]] = "closed"
    <3>1. pc' = [pc EXCEPT ![c] = "panicked"]
      BY <1>5, <2>3 DEF GetClient, Goto
    <3>2. /\ callBar' = [callBar EXCEPT ![c] = "panicked"] /\ callBar[c] = "given"
          /\ useBar' = [useBar EXCEPT ![c] = NoPool]
      <4>1. Stage("pick") = "given" /\ Stage("panicked") = "panicked" /\ "panicked" # "pick"
        BY DEF Stage
      <4>2. \A d \in Callers : d # c => mine'[d] = mine[d]
        BY <1>2
      <4>3. /\ callBar' = [callBar EXCEPT ![c] = Stage("panicked")]
            /\ useBar' = [useBar EXCEPT ![c] = IF "panicked" = "pick" THEN mine'[c] ELSE NoPool]
            /\ callBar[c] = Stage(pc[c])
        BY <1>1, <3>1, <4>2, CallMoves
      <4>4. QED
        BY <2>1, <4>1, <4>3
    <3>3. Promise!Panic(c)
      BY <1>2, <2>2, <2>3, <3>2 DEF Promise!Panic, Promise!Goes, Promise!Gives
    <3>4. QED
      BY <3>3 DEF Promise!AbsNext
  <2>4. CASE closing[mine[c]] # "closed"
    <3>1. pc' = [pc EXCEPT ![c] = "idle"]
      BY <1>5, <2>1, <2>4 DEF GetClient, Goto
    <3>2. /\ callBar' = [callBar EXCEPT ![c] = "idle"] /\ callBar[c] = "given"
          /\ useBar' = [useBar EXCEPT ![c] = NoPool]
      <4>1. Stage("pick") = "given" /\ Stage("idle") = "idle" /\ "idle" # "pick"
        BY DEF Stage
      <4>2. \A d \in Callers : d # c => mine'[d] = mine[d]
        BY <1>2
      <4>3. /\ callBar' = [callBar EXCEPT ![c] = Stage("idle")]
            /\ useBar' = [useBar EXCEPT ![c] = IF "idle" = "pick" THEN mine'[c] ELSE NoPool]
            /\ callBar[c] = Stage(pc[c])
        BY <1>1, <3>1, <4>2, CallMoves
      <4>4. QED
        BY <2>1, <4>1, <4>3
    <3>3. Promise!Return(c)
      BY <1>2, <2>2, <2>4, <3>2 DEF Promise!Return, Promise!Goes, Promise!Gives
    <3>4. QED
      BY <3>3 DEF Promise!AbsNext
  <2>5. QED
    BY <2>3, <2>4
<1>6. QED
  BY <1>3, <1>4, <1>5

\* A call begins, and takes its pool from the map or goes to make it.
LEMMA LookupPromised ==
  ASSUME PromiseInv, NEW c \in Callers, Lookup(c), ~crashed
  PROVE  Promise!AbsNext
<1>1. TypeOK
  BY DEF PromiseInv
<1>2. /\ UNCHANGED <<made, closing, failed, crashed>> /\ pc[c] = "idle"
      /\ \A d \in Callers : d # c => mine'[d] = mine[d]
      /\ \E l \in {"lock", "get"} : pc' = [pc EXCEPT ![c] = l]
  BY <1>1 DEF Lookup, Goto, mapVars, poolVars, TypeOK
<1>3. PICK l \in {"lock", "get"} : pc' = [pc EXCEPT ![c] = l]
  BY <1>2
<1>4. /\ callBar' = [callBar EXCEPT ![c] = "asked"] /\ callBar[c] = "idle"
      /\ useBar' = [useBar EXCEPT ![c] = NoPool]
  BY <1>1, <1>2, <1>3, CallMoves DEF Stage
<1>5. useBar' = useBar
  BY <1>2, <1>4 DEF useBar
<1>6. Promise!Ask(c)
  BY <1>2, <1>4, <1>5 DEF Promise!Ask, Promise!Goes, ownBar
<1>7. QED
  BY <1>6 DEF Promise!AbsNext

\* The map is written by a call that has made a pool or failed to.
LEMMA CrashPromised ==
  ASSUME PromiseInv, Crash, writing # NoOne, ~crashed
  PROVE  Promise!AbsNext
<1>1. TypeOK /\ FailInv /\ writing \in Callers /\ pc[writing] \in {"writing", "rewriting"}
  BY DEF PromiseInv, TypeOK, OwnPool
<1>2. callBar[writing] = "asked"
  BY <1>1 DEF callBar, Stage
<1>3. ownBar[ServiceOf[writing]] # {} \/ ServiceOf[writing] \in failed
  <2>1. CASE mine[writing] = NoPool
    BY <1>1, <2>1 DEF FailInv, NilIsFailure
  <2>2. CASE mine[writing] # NoPool
    BY <1>1, <2>2, Bounds DEF PromiseInv, TypeOK, OwnPool, ownBar
  <2>3. QED
    BY <2>1, <2>2
<1>4. UNCHANGED <<ownBar, callBar, useBar, closing, failed>> /\ crashed' = TRUE
  BY DEF Crash, poolVars, ownBar, callBar, useBar
<1>5. Promise!Crashes
  BY <1>1, <1>2, <1>3, <1>4 DEF Promise!Crashes
<1>6. QED
  BY <1>5 DEF Promise!AbsNext

\* A pool is closed for its service.
LEMMA ClosePromised ==
  ASSUME PromiseInv, ~crashed,
         (\E s \in Services : CloseBegin(s)) \/ (\E p \in PoolIds : CloseEnd(p))
  PROVE  Promise!AbsNext
<1>1. UNCHANGED <<ownBar, callBar, useBar, failed, crashed>>
  BY DEF CloseBegin, CloseEnd, mapVars, ownBar, callBar, useBar
<1>2. ASSUME NEW s \in Services, CloseBegin(s) PROVE Promise!AbsNext
  <2>1. pools[s] \in ownBar[s]
    BY <1>2 DEF CloseBegin, PromiseInv, OwnPool, ownBar
  <2>2. Promise!CloseBegins(s)
    BY <1>1, <1>2, <2>1 DEF CloseBegin, Promise!CloseBegins
  <2>3. QED
    BY <2>2 DEF Promise!AbsNext
<1>3. ASSUME NEW p \in PoolIds, CloseEnd(p) PROVE Promise!AbsNext
  <2>1. Promise!CloseEnds(p)
    BY <1>1, <1>3 DEF CloseEnd, Promise!CloseEnds
  <2>2. QED
    BY <2>1 DEF Promise!AbsNext
<1>4. QED
  BY <1>2, <1>3

\* Every step is one of ServicePools, or changes nothing that is promised.
LEMMA PromiseStep ==
  ASSUME PromiseInv, [Next]_vars
  PROVE  [Promise!AbsNext]_Promise!absVars
<1>1. CASE UNCHANGED vars
  BY <1>1 DEF vars, poolVars, Promise!absVars, ownBar, callBar, useBar
<1>2. ASSUME NEW c \in Callers, ~crashed,
             Lock(c) \/ Recheck(c) \/ WriteBegin(c) \/ WriteEnd(c) \/ Reread(c)
      PROVE  UNCHANGED Promise!absVars
  <2>1. TypeOK /\ UNCHANGED <<ownBar, closing, failed, crashed>>
    BY <1>2 DEF PromiseInv, Lock, Recheck, WriteBegin, WriteEnd, Reread, mapVars, poolVars, ownBar
  <2>2. \A d \in Callers : d # c => mine'[d] = mine[d]
    BY <1>2, <2>1 DEF TypeOK, Lock, Recheck, WriteBegin, WriteEnd, Reread
  <2>3. pc[c] \in Asking /\ \E l \in Asking : pc' = [pc EXCEPT ![c] = l]
    BY <1>2 DEF Lock, Recheck, WriteBegin, WriteEnd, Reread, Goto, Asking
  <2>4. callBar' = callBar /\ useBar' = useBar
    BY <2>1, <2>2, <2>3, StillAsking
  <2>5. QED
    BY <2>1, <2>4 DEF Promise!absVars
<1>3. CASE \E c \in Callers : CallStep(c)
  BY <1>2, <1>3, DiscoverPromised, GetPromised DEF CallStep
<1>4. CASE \E c \in Callers : CallBegins(c)
  BY <1>4, LookupPromised, CrashPromised DEF CallBegins, LookupCrash, Racing
<1>5. CASE CloseStep
  BY <1>5, ClosePromised, CrashPromised DEF CloseStep, CloseCrash
<1>6. QED
  BY <1>1, <1>3, <1>4, <1>5 DEF Next

\* ImplementsPools: however the unlocked lookups meet the locked writes, the
\* callers of a service share the one pool that was made for it, and panic only
\* over a failed discovery of it or a Close.
THEOREM PoolsRefinement == Spec => ImplementsPools
BY PromiseInit, PromiseStep, PromiseTheorem, PTL DEF Spec, ImplementsPools, Promise!AbsSpec

=============================================================================
