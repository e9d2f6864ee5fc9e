--------------------------- MODULE RateLimitProofs ---------------------------
(***************************************************************************)
(* Theorems about RateLimit: for every rate, every time to keep an entry   *)
(* and every number of visitors, the sweep takes the right entries, and    *)
(* no visitor gets through faster than the rate.                           *)
(***************************************************************************)
EXTENDS RateLimit, FiniteSetTheorems, TLAPS

\* The constants as the provers want them.
LEMMA Bounds ==
  /\ Keep \in Nat /\ Slack \in Nat /\ MaxTime \in Nat /\ MaxLimiters \in Nat
  /\ Sweep \in Nat \ {0} /\ Interval \in Nat \ {0}
  /\ \A r \in Requests : IpOf[r] \in IPs
  /\ IsFiniteSet(Requests)
BY RateAssumption DEF RateAssumption

\* No visitor has come yet.
LEMMA InitInvariant == Init => LimitInv
<1> SUFFICES ASSUME Init PROVE LimitInv
  OBVIOUS
<1>1. TypeOK
  BY Bounds DEF Init, TypeOK
<1>2. SweepInv
  BY Bounds DEF Init, SweepInv, Known
<1>3. WaitInv
  BY DEF Init, WaitInv
<1>4. QED
  BY <1>1, <1>2, <1>3 DEF LimitInv

\* What getVisitor returns and leaves in the map.
LEMMA GetVisitorStep ==
  ASSUME LimitInv, NEW r \in Requests, GetVisitor(r)
  PROVE  LimitInv'
<1> USE DEF LimitInv
<1> DEFINE ip == IpOf[r]
           l == LimiterOf(ip)
<1>1. ip \in IPs
  BY Bounds
<1>2. /\ pc[r] = "idle"
      /\ ~Known(ip) => fresh \in Limiters
      /\ visitors' = [visitors EXCEPT ![ip] = [lim |-> l, seen |-> now]]
      /\ lim' = [lim EXCEPT ![r] = l]
      /\ slot' = IF ~Known(ip) THEN [slot EXCEPT ![l] = now - Interval] ELSE slot
      /\ fresh' = IF ~Known(ip) THEN fresh + 1 ELSE fresh
      /\ since' = [since EXCEPT ![r] = now]
      /\ pc' = [pc EXCEPT ![r] = "take"]
      /\ UNCHANGED <<now, grant, nextSweep, passed, longest>>
  BY DEF GetVisitor, Return
<1>3. Known(ip) => visitors[ip] \in Entries
  BY <1>1 DEF TypeOK, Known
<1>4. l \in Limiters
  BY <1>2, <1>3 DEF LimiterOf, Entries
<1>5. [lim |-> l, seen |-> now] \in Entries
  BY <1>4 DEF TypeOK, Entries
<1>6. Known(ip)' /\ visitors'[ip] = [lim |-> l, seen |-> now]
  BY <1>1, <1>2, <1>5, VisitorAssumption DEF TypeOK, Known
<1>7. \A i \in IPs : i # ip => visitors'[i] = visitors[i]
  BY <1>2 DEF TypeOK
<1>8. TypeOK'
  <2>1. fresh' \in 1..(MaxLimiters + 1)
    BY <1>2, Bounds DEF TypeOK, Limiters
  <2>2. slot' \in [Limiters -> Int]
    BY <1>2, <1>4, Bounds DEF TypeOK
  <2>3. visitors' \in [IPs -> Entries \cup {NoVisitor}]
    BY <1>2, <1>5 DEF TypeOK
  <2>4. /\ pc' \in [Requests -> {"idle", "take", "wait"}]
        /\ lim' \in [Requests -> Limiters \cup {0}]
        /\ since' \in [Requests -> Nat]
    BY <1>2, <1>4 DEF TypeOK
  <2>5. UNCHANGED <<now, grant, nextSweep, passed, longest>>
    BY <1>2
  <2>6. QED
    BY <2>1, <2>2, <2>3, <2>4, <2>5 DEF TypeOK
<1>9. SweepInv'
  <2> SUFFICES ASSUME NEW i \in IPs, Known(i)'
               PROVE  nextSweep' - Sweep - visitors'[i].seen <= Keep
    BY <1>2 DEF SweepInv
  <2>1. CASE i = ip
    BY <2>1, <1>2, <1>6, Bounds DEF SweepInv, TypeOK
  <2>2. CASE i # ip
    BY <2>2, <1>2, <1>7 DEF SweepInv, Known
  <2>3. QED
    BY <2>1, <2>2
<1>10. WaitInv'
  <2> SUFFICES ASSUME NEW q \in Requests
               PROVE  /\ since'[q] <= now'
                      /\ pc'[q] = "take" => since'[q] = now'
                      /\ pc'[q] = "wait" => now' <= grant'[q]
                      /\ (pc'[q] # "idle" /\ (pc'[q] = "wait" => grant'[q] - since'[q] <= Keep)) =>
                           /\ Known(IpOf[q])'
                           /\ visitors'[IpOf[q]].lim = lim'[q]
                           /\ since'[q] <= visitors'[IpOf[q]].seen
    BY DEF WaitInv
  <2>1. CASE q = r
    BY <2>1, <1>2, <1>6 DEF TypeOK
  <2>2. CASE q # r /\ IpOf[q] # ip
    BY <2>2, <1>2, <1>7, Bounds DEF WaitInv, TypeOK, Known
  <2>3. CASE q # r /\ IpOf[q] = ip
    <3>1. pc'[q] = pc[q] /\ since'[q] = since[q] /\ lim'[q] = lim[q] /\ grant'[q] = grant[q]
      BY <2>3, <1>2 DEF TypeOK
    <3>2. Known(ip) => visitors[ip].seen \in Nat /\ l = visitors[ip].lim
      BY <1>3 DEF Entries, LimiterOf
    <3>3. (pc[q] # "idle" /\ (pc[q] = "wait" => grant[q] - since[q] <= Keep)) => Known(ip)
      BY <2>3 DEF WaitInv
    <3>4. pc[q] # "idle" => since[q] <= now
      BY DEF WaitInv
    <3>5. QED
      BY <2>3, <3>1, <3>2, <3>3, <3>4, <1>2, <1>6 DEF WaitInv
  <2>4. QED
    BY <2>1, <2>2, <2>3
<1>11. QED
  BY <1>8, <1>9, <1>10

\* Take reserves a permission that is not in the past.
LEMMA TakeStep ==
  ASSUME LimitInv, NEW r \in Requests, Take(r)
  PROVE  LimitInv'
<1> USE DEF LimitInv
<1> DEFINE g == Larger(slot[lim[r]] + Interval, now - Slack * Interval)
<1>1. /\ pc[r] = "take"
      /\ slot' = [slot EXCEPT ![lim[r]] = g]
      /\ grant' = [grant EXCEPT ![r] = Larger(g, now)]
      /\ longest' = [longest EXCEPT ![IpOf[r]] = Larger(@, g - since[r])]
      /\ pc' = [pc EXCEPT ![r] = "wait"]
      /\ UNCHANGED <<now, visitors, fresh, lim, since, nextSweep, passed>>
  BY DEF Take
<1>2. Known(IpOf[r]) /\ visitors[IpOf[r]].lim = lim[r]
  BY <1>1 DEF WaitInv
<1>3. lim[r] \in Limiters
  BY <1>2, Bounds DEF TypeOK, Known, Entries
<1>4. g \in Int
  <2>1. Slack * Interval \in Nat
    BY Bounds
  <2>2. slot[lim[r]] + Interval \in Int /\ now - Slack * Interval \in Int
    BY <1>3, <2>1, Bounds DEF TypeOK
  <2>3. QED
    BY <2>2 DEF Larger
<1>5. Larger(g, now) \in Nat /\ now <= Larger(g, now)
  BY <1>4 DEF TypeOK, Larger
<1>6. Larger(longest[IpOf[r]], g - since[r]) \in Int
  BY <1>4, Bounds DEF TypeOK, Larger
<1>7. TypeOK'
  BY <1>1, <1>4, <1>5, <1>6 DEF TypeOK
<1>8. SweepInv'
  BY <1>1 DEF SweepInv, Known
<1>9. WaitInv'
  BY <1>1, <1>5 DEF TypeOK, WaitInv, Known
<1>10. QED
  BY <1>7, <1>8, <1>9

\* A request that goes on is not waiting any more.
LEMMA PassStep ==
  ASSUME LimitInv, NEW r \in Requests, Pass(r)
  PROVE  LimitInv'
<1> USE DEF LimitInv
<1>1. TypeOK'
  BY Bounds DEF Pass, TypeOK
<1>2. SweepInv'
  BY DEF Pass, SweepInv, Known
<1>3. WaitInv'
  BY DEF Pass, TypeOK, WaitInv, Known
<1>4. QED
  BY <1>1, <1>2, <1>3

\* The sweep leaves entries that were seen Keep ago or later, among them those of
\* the requests that are to wait no longer.
LEMMA CleanupStep ==
  ASSUME LimitInv, CleanupVisitors
  PROVE  LimitInv'
<1> USE DEF LimitInv
<1>1. /\ now = nextSweep
      /\ visitors' = [ip \in IPs |-> IF Expired(ip) THEN NoVisitor ELSE visitors[ip]]
      /\ nextSweep' = now + Sweep
      /\ UNCHANGED <<now, slot, fresh, pc, lim, since, grant, passed, longest>>
  BY DEF CleanupVisitors
<1>2. \A ip \in IPs : Known(ip)' => Known(ip) /\ ~Expired(ip) /\ visitors'[ip] = visitors[ip]
  BY <1>1 DEF Known, Expired
<1>3. \A ip \in IPs : Known(ip) => visitors[ip].seen \in Nat
  BY DEF TypeOK, Known, Entries
<1>4. TypeOK'
  BY <1>1, Bounds DEF TypeOK
<1>5. SweepInv'
  BY <1>1, <1>2, <1>3, Bounds DEF TypeOK, SweepInv, Expired
<1>6. WaitInv'
  <2> SUFFICES ASSUME NEW r \in Requests, pc[r] # "idle",
                      pc[r] = "wait" => grant[r] - since[r] <= Keep
               PROVE  Known(IpOf[r])' /\ visitors'[IpOf[r]] = visitors[IpOf[r]]
    BY <1>1 DEF WaitInv
  <2>1. Known(IpOf[r]) /\ since[r] <= visitors[IpOf[r]].seen
    BY DEF WaitInv
  <2>2. now - since[r] <= Keep
    BY Bounds DEF WaitInv, TypeOK
  <2>3. ~Expired(IpOf[r])
    BY <1>3, <2>1, <2>2, Bounds DEF TypeOK, Expired
  <2>4. QED
    BY <1>1, <2>1, <2>3, Bounds DEF Known
<1>7. QED
  BY <1>4, <1>5, <1>6

\* Time passes only while nothing is due.
LEMMA TickStep ==
  ASSUME LimitInv, Tick
  PROVE  LimitInv'
<1> USE DEF LimitInv
<1>1. TypeOK'
  BY DEF Tick, TypeOK
<1>2. SweepInv'
  BY Bounds DEF Tick, TypeOK, SweepInv, Known
<1>3. WaitInv'
  BY DEF Tick, TypeOK, WaitInv, Known
<1>4. QED
  BY <1>1, <1>2, <1>3

\* LimitInv holds in every reachable state.
THEOREM LimitInvariant == Spec => []LimitInv
<1>1. LimitInv /\ [Next]_vars => LimitInv'
  <2>1. LimitInv /\ UNCHANGED vars => LimitInv'
    BY DEF LimitInv, TypeOK, SweepInv, WaitInv, Known, vars
  <2>2. QED
    BY <2>1, GetVisitorStep, TakeStep, PassStep, CleanupStep, TickStep DEF Next
<1>2. QED
  BY <1>1, InitInvariant, PTL DEF Spec

\* A request that waits no longer than Keep keeps the limiter that its visitor's
\* next request will get.
THEOREM WaitersCorrect == Spec => []WaitersKeepLimiter
<1>1. LimitInv => WaitersKeepLimiter
  BY DEF LimitInv, WaitInv, WaitersKeepLimiter
<1>2. QED
  BY <1>1, LimitInvariant, PTL

\* No entry gets older than Keep and one pause of the sweep together.
THEOREM StaleCorrect == Spec => []StaleGone
<1>1. LimitInv => StaleGone
  <2> SUFFICES ASSUME LimitInv, NEW ip \in IPs, Known(ip)
               PROVE  now - visitors[ip].seen <= Keep + Sweep
    BY DEF StaleGone
  <2>1. visitors[ip].seen \in Nat
    BY DEF LimitInv, TypeOK, Known, Entries
  <2>2. QED
    BY <2>1, Bounds DEF LimitInv, TypeOK, SweepInv
<1>2. QED
  BY <1>1, LimitInvariant, PTL

-----------------------------------------------------------------------------
(* The rate *)

\* One more permission, and more permissions, take their time.
LEMMA ProductNext ==
  ASSUME NEW a \in Nat, NEW b \in Nat
  PROVE  (a + 1) * b = a * b + b
OBVIOUS

\* A product grows with its factors.
LEMMA ProductMonotone ==
  ASSUME NEW a \in Nat, NEW b \in Nat, NEW c \in Nat, a <= c
  PROVE  a * b <= c * b
OBVIOUS

\* A positive factor cancels.
LEMMA ProductLess ==
  ASSUME NEW a \in Int, NEW b \in Nat \ {0}, NEW c \in Int, a * b < c * b
  PROVE  a < c
OBVIOUS

\* How many intervals of length s fit into time x, with one to begin with.
LEMMA Intervals ==
  ASSUME NEW s \in Nat \ {0}, NEW x \in Nat, NEW n \in Nat, n * s <= x + s
  PROVE  n <= 1 + x \div s
<1> DEFINE q == x \div s
           r == x % s
<1>1. q \in Int
  OBVIOUS
<1>2. r = x - s * q
  BY SMT
<1>3. r \in 0..(s - 1)
  OBVIOUS
<1> HIDE DEF q, r
<1>4. n * s < (q + 2) * s
  BY <1>1, <1>2, <1>3
<1>5. n < q + 2
  BY <1>1, <1>4, ProductLess
<1>6. QED
  BY <1>1, <1>5 DEF q

\* The waiting requests can be counted, and those that wait until t are no more.
LEMMA Counted ==
  ASSUME NEW ip \in IPs, NEW t, passed \in [IPs -> Nat]
  PROVE  /\ IsFiniteSet(Waiting(ip))
         /\ IsFiniteSet({r \in Waiting(ip) : grant[r] <= t})
         /\ Granted(ip) \in Nat /\ GrantedBy(ip, t) \in Nat
         /\ passed[ip] <= GrantedBy(ip, t)
         /\ GrantedBy(ip, t) <= Granted(ip)
<1> DEFINE W == Waiting(ip)
           By == {r \in W : grant[r] <= t}
<1>1. IsFiniteSet(W)
  <2>1. W \in SUBSET Requests
    BY DEF Waiting
  <2>2. QED
    BY <2>1, Bounds, FS_Subset
<1>2. By \in SUBSET W
  OBVIOUS
<1> HIDE DEF W, By
<1>3. IsFiniteSet(By) /\ Cardinality(By) <= Cardinality(W)
  BY <1>1, <1>2, FS_Subset
<1>4. Cardinality(W) \in Nat /\ Cardinality(By) \in Nat
  BY <1>1, <1>3, FS_CardinalityType
<1>5. QED
  BY <1>1, <1>3, <1>4 DEF W, By, Granted, GrantedBy

\* A step that leaves the waiting requests of a visitor alone leaves its counts
\* alone.
LEMMA SameCounts ==
  ASSUME NEW ip \in IPs, passed'[ip] = passed[ip],
         \A r \in Requests : IpOf[r] = ip =>
           /\ pc'[r] = "wait" <=> pc[r] = "wait"
           /\ pc[r] = "wait" => grant'[r] = grant[r]
  PROVE  /\ Granted(ip)' = Granted(ip)
         /\ \A t \in Nat : GrantedBy(ip, t)' = GrantedBy(ip, t)
<1>1. Waiting(ip)' = Waiting(ip)
  BY DEF Waiting
<1>2. ASSUME NEW t \in Nat
      PROVE  {r \in Waiting(ip)' : grant'[r] <= t} = {r \in Waiting(ip) : grant[r] <= t}
  BY <1>1 DEF Waiting
<1>3. QED
  BY <1>1, <1>2 DEF Granted, GrantedBy

\* An entry's limiter, and what its visitor's count may be.
LEMMA EntryTyped ==
  ASSUME TypeOK, NEW ip \in IPs, Known(ip)
  PROVE  /\ visitors[ip].lim \in Limiters
         /\ visitors[ip].seen \in Nat
         /\ slot[visitors[ip].lim] \in Int
BY DEF TypeOK, Known, Entries

\* No visitor has come yet.
LEMMA InitRate == Init => RateInv
<1> SUFFICES ASSUME Init PROVE RateInv
  OBVIOUS
<1>1. \A ip \in IPs : ~Known(ip)
  BY DEF Init, Known
<1>2. LimiterInv /\ LongestInv
  BY <1>1 DEF Init, LimiterInv, LongestInv
<1>3. ASSUME NEW ip \in IPs, NEW t \in Nat
      PROVE  Granted(ip) = 0 /\ GrantedBy(ip, t) = 0
  <2>1. Waiting(ip) = {} /\ {r \in Waiting(ip) : grant[r] <= t} = {} /\ passed[ip] = 0
    BY DEF Init, Waiting
  <2>2. QED
    BY <2>1, FS_EmptySet DEF Granted, GrantedBy
<1>4. now = 0 /\ 0 * Interval = 0
  BY Bounds DEF Init
<1>5. SpacedInv
  <2> SUFFICES ASSUME NEW ip \in IPs
               PROVE  /\ Granted(ip) * Interval <= now
                      /\ \A t \in Nat : now <= t => GrantedBy(ip, t) * Interval <= t + Interval
    BY <1>1 DEF SpacedInv
  <2>1. Granted(ip) * Interval <= now
    BY <1>3, <1>4
  <2>2. ASSUME NEW t \in Nat PROVE GrantedBy(ip, t) * Interval <= t + Interval
    BY <1>3, <1>4, Bounds
  <2>3. QED
    BY <2>1, <2>2
<1>6. QED
  BY <1>2, <1>5 DEF RateInv

\* A limiter that is made gives its first permission no earlier than Interval
\* after the last one of the limiter its visitor had.
LEMMA RateGetVisitor ==
  ASSUME LimitInv, RateInv, NEW r \in Requests, GetVisitor(r)
  PROVE  RateInv'
<1> USE DEF LimitInv, RateInv
<1> DEFINE ip == IpOf[r]
           l == LimiterOf(ip)
<1>1. ip \in IPs /\ now \in Nat
  BY Bounds DEF TypeOK
<1>2. /\ pc[r] = "idle"
      /\ ~Known(ip) => fresh \in Limiters
      /\ visitors' = [visitors EXCEPT ![ip] = [lim |-> l, seen |-> now]]
      /\ slot' = IF ~Known(ip) THEN [slot EXCEPT ![l] = now - Interval] ELSE slot
      /\ fresh' = IF ~Known(ip) THEN fresh + 1 ELSE fresh
      /\ pc' = [pc EXCEPT ![r] = "take"]
      /\ UNCHANGED <<now, grant, passed, longest>>
  BY DEF GetVisitor, Return
<1>3. l \in Limiters
  BY <1>1, <1>2, EntryTyped DEF LimiterOf
<1>4. Known(ip)' /\ visitors'[ip] = [lim |-> l, seen |-> now]
  <2>1. [lim |-> l, seen |-> now] \in Entries
    BY <1>1, <1>3 DEF Entries
  <2>2. QED
    BY <1>1, <1>2, <2>1, VisitorAssumption DEF TypeOK, Known
<1>5. \A i \in IPs : i # ip => visitors'[i] = visitors[i] /\ (Known(i)' <=> Known(i))
  BY <1>2 DEF TypeOK, Known
<1>6. fresh \in Nat /\ (Known(ip) => l = visitors[ip].lim) /\ (~Known(ip) => l = fresh)
  BY Bounds DEF TypeOK, LimiterOf
<1>7. \A i \in IPs : Known(i) /\ i # ip => visitors[i].lim < fresh /\ visitors[i].lim # l
  <2> SUFFICES ASSUME NEW i \in IPs, Known(i), i # ip
               PROVE  visitors[i].lim < fresh /\ visitors[i].lim # l
    OBVIOUS
  <2>1. visitors[i].lim < fresh /\ visitors[i].lim \in Int
    BY EntryTyped DEF LimiterInv, Limiters
  <2>2. Known(ip) => visitors[ip].lim # visitors[i].lim
    BY <1>1 DEF LimiterInv
  <2>3. QED
    BY <1>6, <2>1, <2>2
<1>8. \A i \in IPs : Known(i) /\ i # ip => slot'[visitors[i].lim] = slot[visitors[i].lim]
  BY <1>2, <1>7, EntryTyped DEF TypeOK
<1>9. ~Known(ip) => slot'[l] = now - Interval
  BY <1>2, <1>3 DEF TypeOK
<1> HIDE DEF l
<1>10. LimiterInv'
  <2>1. l < fresh'
    BY <1>1, <1>2, <1>6 DEF LimiterInv
  <2>2. \A i \in IPs : Known(i) /\ i # ip => visitors[i].lim < fresh'
    BY <1>2, <1>7, <1>6, EntryTyped DEF Limiters
  <2>3. QED
    BY <1>1, <1>2, <1>4, <1>5, <1>7, <2>1, <2>2 DEF LimiterInv
<1>11. LongestInv'
  <2>1. slot'[l] <= now + longest[ip]
    <3>1. longest[ip] \in Int /\ longest[ip] >= 0
      BY <1>1 DEF LongestInv, TypeOK
    <3>2. CASE Known(ip)
      BY <1>1, <1>2, <1>6, <3>1, <3>2, EntryTyped DEF LongestInv, LimiterInv
    <3>3. CASE ~Known(ip)
      BY <1>1, <1>9, <3>1, <3>3, Bounds
    <3>4. QED
      BY <3>2, <3>3
  <2>2. QED
    BY <1>2, <1>4, <1>5, <1>8, <2>1 DEF LongestInv
<1>12. \A i \in IPs : /\ Granted(i)' = Granted(i)
                      /\ \A t \in Nat : GrantedBy(i, t)' = GrantedBy(i, t)
  <2>1. \A q \in Requests : pc'[q] = "wait" <=> pc[q] = "wait"
    BY <1>2 DEF TypeOK
  <2>2. QED
    BY <1>2, <2>1, SameCounts
<1>13. SpacedInv'
  <2> SUFFICES ASSUME NEW i \in IPs, Patient(i)'
               PROVE  /\ Granted(i)' * Interval <=
                           IF Known(i)' THEN slot'[visitors'[i].lim] + Interval ELSE now'
                      /\ \A t \in Nat : now' <= t => GrantedBy(i, t)' * Interval <= t + Interval
    BY DEF SpacedInv
  <2>1. Patient(i)
    BY <1>2 DEF Patient
  <2>2. \A t \in Nat : now' <= t => GrantedBy(i, t)' * Interval <= t + Interval
    BY <1>2, <1>12, <2>1 DEF SpacedInv
  <2>3. Granted(i) * Interval <= IF Known(i) THEN slot[visitors[i].lim] + Interval ELSE now
    BY <2>1 DEF SpacedInv
  <2>4. CASE i # ip
    BY <1>2, <1>5, <1>8, <1>12, <2>2, <2>3, <2>4
  <2>5. CASE i = ip /\ Known(ip)
    BY <1>2, <1>4, <1>6, <1>12, <2>2, <2>3, <2>5
  <2>6. CASE i = ip /\ ~Known(ip)
    <3>1. now = now - Interval + Interval
      BY <1>1, Bounds
    <3>2. QED
      BY <1>4, <1>9, <1>12, <2>2, <2>3, <2>6, <3>1
  <2>7. QED
    BY <2>4, <2>5, <2>6
<1>14. QED
  BY <1>10, <1>11, <1>13

\* A permission comes Interval after the last one of its limiter, or later.
LEMMA RateTake ==
  ASSUME LimitInv, RateInv, NEW r \in Requests, Take(r)
  PROVE  RateInv'
<1> USE DEF LimitInv, RateInv
<1> DEFINE ip == IpOf[r]
           l == lim[r]
           g == Larger(slot[l] + Interval, now - Slack * Interval)
<1>1. /\ pc[r] = "take"
      /\ slot' = [slot EXCEPT ![l] = g]
      /\ grant' = [grant EXCEPT ![r] = Larger(g, now)]
      /\ longest' = [longest EXCEPT ![ip] = Larger(@, g - since[r])]
      /\ pc' = [pc EXCEPT ![r] = "wait"]
      /\ UNCHANGED <<now, visitors, fresh, passed>>
  BY DEF Take
<1>2. ip \in IPs /\ now \in Nat
  BY Bounds DEF TypeOK
<1>3. Known(ip) /\ visitors[ip].lim = l /\ since[r] <= visitors[ip].seen /\ since[r] \in Nat
  BY <1>1 DEF WaitInv, TypeOK
<1>4. l \in Limiters /\ slot[l] \in Int /\ visitors[ip].seen \in Nat
  BY <1>2, <1>3, EntryTyped
<1>5. g \in Int /\ slot[l] + Interval <= g
  <2>1. Slack * Interval \in Nat
    BY Bounds
  <2>2. slot[l] + Interval \in Int /\ now - Slack * Interval \in Int
    BY <1>2, <1>4, <2>1, Bounds
  <2>3. QED
    BY <2>2 DEF Larger
<1> HIDE DEF g
<1>6. \A i \in IPs : Known(i) /\ i # ip => visitors[i].lim # l
  BY <1>2, <1>3 DEF LimiterInv
<1>7. slot'[l] = g /\ \A i \in IPs : Known(i) /\ i # ip => slot'[visitors[i].lim] = slot[visitors[i].lim]
  BY <1>1, <1>4, <1>6, EntryTyped DEF TypeOK
<1>8. /\ longest'[ip] = Larger(longest[ip], g - since[r])
      /\ \A i \in IPs : i # ip => longest'[i] = longest[i]
  BY <1>1, <1>2 DEF TypeOK
<1>9. \A i \in IPs : Known(i)' <=> Known(i)
  BY <1>1 DEF Known
<1>10. /\ longest[ip] <= longest'[ip] /\ g - since[r] <= longest'[ip]
       /\ longest[ip] \in Int /\ longest'[ip] \in Int
  <2>1. longest[ip] \in Int /\ g - since[r] \in Int
    BY <1>2, <1>3, <1>5 DEF TypeOK
  <2>2. QED
    BY <1>8, <2>1 DEF Larger
<1>11. LimiterInv'
  BY <1>1, <1>9 DEF LimiterInv
<1>12. LongestInv'
  <2>1. longest'[ip] >= 0
    BY <1>2, <1>10 DEF LongestInv
  <2>2. g <= visitors[ip].seen + longest'[ip]
    BY <1>3, <1>4, <1>5, <1>10
  <2>3. QED
    BY <1>1, <1>3, <1>7, <1>8, <1>9, <2>1, <2>2 DEF LongestInv
<1>13. ASSUME NEW i \in IPs, i # ip
       PROVE  /\ Granted(i)' = Granted(i)
              /\ \A t \in Nat : GrantedBy(i, t)' = GrantedBy(i, t)
  <2>1. \A q \in Requests : IpOf[q] = i => pc'[q] = pc[q] /\ grant'[q] = grant[q]
    BY <1>1, <1>13 DEF TypeOK
  <2>2. QED
    BY <1>1, <2>1, SameCounts
<1>14. Waiting(ip)' = Waiting(ip) \cup {r} /\ r \notin Waiting(ip)
  BY <1>1 DEF Waiting, TypeOK
<1>15. Granted(ip)' = Granted(ip) + 1 /\ Granted(ip) \in Nat
  <2>1. Cardinality(Waiting(ip) \cup {r}) = Cardinality(Waiting(ip)) + 1
    BY <1>2, <1>14, Counted, FS_AddElement DEF TypeOK
  <2>2. Cardinality(Waiting(ip)) \in Nat /\ passed[ip] \in Nat
    BY <1>2, Counted, FS_CardinalityType DEF TypeOK
  <2>3. QED
    BY <1>1, <1>14, <2>1, <2>2 DEF Granted
<1>16. SpacedInv'
  <2> SUFFICES ASSUME NEW i \in IPs, Patient(i)'
               PROVE  /\ Granted(i)' * Interval <=
                           IF Known(i)' THEN slot'[visitors'[i].lim] + Interval ELSE now'
                      /\ \A t \in Nat : now' <= t => GrantedBy(i, t)' * Interval <= t + Interval
    BY DEF SpacedInv
  <2>1. CASE i # ip
    <3>1. Patient(i)
      BY <1>8, <2>1 DEF Patient
    <3>2. QED
      BY <1>1, <1>7, <1>9, <1>13, <2>1, <3>1 DEF SpacedInv
  <2>2. CASE i = ip
    <3>1. Patient(ip)
      BY <1>10, <2>2, Bounds DEF Patient
    <3>2. Granted(ip) * Interval <= slot[l] + Interval
      BY <1>2, <1>3, <3>1 DEF SpacedInv
    <3>3. Granted(ip)' * Interval <= g + Interval
      <4>1. (Granted(ip) + 1) * Interval = Granted(ip) * Interval + Interval
        BY <1>15, Bounds, ProductNext
      <4>2. Granted(ip) * Interval \in Nat
        BY <1>15, Bounds
      <4>3. QED
        BY <1>4, <1>5, <1>15, <3>2, <4>1, <4>2, Bounds
    <3>4. ASSUME NEW t \in Nat, now <= t
          PROVE  GrantedBy(ip, t)' * Interval <= t + Interval
      <4>1. CASE Larger(g, now) <= t
        <5>1. g <= t
          BY <1>2, <1>5, <4>1 DEF Larger
        <5>2. /\ GrantedBy(ip, t)' <= Granted(ip)'
              /\ GrantedBy(ip, t)' \in Nat /\ Granted(ip)' \in Nat
          <6>1. passed' \in [IPs -> Nat]
            BY <1>1 DEF TypeOK
          <6>2. IsFiniteSet(Waiting(ip)')
            <7>1. IsFiniteSet(Waiting(ip))
              BY <1>2, Counted DEF TypeOK
            <7>2. QED
              BY <1>14, <7>1, FS_AddElement
          <6> DEFINE W == Waiting(ip)'
                     By == {q \in W : grant'[q] <= t}
          <6>3. By \in SUBSET W
            OBVIOUS
          <6> HIDE DEF By, W
          <6>4. Cardinality(By) <= Cardinality(W) /\ Cardinality(By) \in Nat /\ Cardinality(W) \in Nat
            BY <6>2, <6>3, FS_Subset, FS_CardinalityType DEF W
          <6>5. Granted(ip)' = passed'[ip] + Cardinality(W)
            BY DEF Granted, W
          <6>6. GrantedBy(ip, t)' = passed'[ip] + Cardinality(By)
            BY DEF GrantedBy, W, By
          <6>7. passed'[ip] \in Nat
            BY <1>2, <6>1
          <6>8. QED
            BY <6>4, <6>5, <6>6, <6>7
        <5>3. GrantedBy(ip, t)' * Interval <= Granted(ip)' * Interval
          BY <5>2, Bounds, ProductMonotone
        <5>4. GrantedBy(ip, t)' * Interval \in Nat /\ Granted(ip)' * Interval \in Nat
          BY <5>2, Bounds
        <5>5. QED
          BY <1>5, <3>3, <5>1, <5>3, <5>4, Bounds
      <4>2. CASE ~(Larger(g, now) <= t)
        <5>1. {q \in Waiting(ip)' : grant'[q] <= t} = {q \in Waiting(ip) : grant[q] <= t}
          BY <1>1, <1>14, <4>2 DEF TypeOK, Waiting
        <5>2. GrantedBy(ip, t)' = GrantedBy(ip, t)
          BY <1>1, <5>1 DEF GrantedBy
        <5>3. QED
          BY <1>2, <3>1, <3>4, <5>2 DEF SpacedInv
      <4>3. QED
        BY <4>1, <4>2
    <3>5. Known(ip)' /\ slot'[visitors'[ip].lim] = g
      BY <1>1, <1>2, <1>3, <1>7, <1>9
    <3>6. QED
      BY <1>1, <2>2, <3>3, <3>4, <3>5
  <2>3. QED
    BY <2>1, <2>2
<1>17. QED
  BY <1>11, <1>12, <1>16

\* A request that goes on had a permission that was due: no count changes.
LEMMA RatePass ==
  ASSUME LimitInv, RateInv, NEW r \in Requests, Pass(r)
  PROVE  RateInv'
<1> USE DEF LimitInv, RateInv
<1> DEFINE ip == IpOf[r]
<1>1. /\ pc[r] = "wait" /\ grant[r] <= now
      /\ pc' = [pc EXCEPT ![r] = "idle"]
      /\ passed' = [passed EXCEPT ![ip] = @ + 1]
      /\ grant' = [grant EXCEPT ![r] = 0]
      /\ UNCHANGED <<now, visitors, slot, fresh, longest>>
  BY DEF Pass
<1>2. ip \in IPs /\ now \in Nat
  BY Bounds DEF TypeOK
<1>3. \A i \in IPs : Known(i)' <=> Known(i)
  BY <1>1 DEF Known
<1>4. LimiterInv'
  BY <1>1, <1>3 DEF LimiterInv
<1>5. LongestInv'
  BY <1>1, <1>3 DEF LongestInv
<1>6. ASSUME NEW i \in IPs, i # ip
      PROVE  /\ Granted(i)' = Granted(i)
             /\ \A t \in Nat : GrantedBy(i, t)' = GrantedBy(i, t)
  <2>1. \A q \in Requests : IpOf[q] = i => pc'[q] = pc[q] /\ grant'[q] = grant[q]
    BY <1>1, <1>6 DEF TypeOK
  <2>2. passed'[i] = passed[i]
    BY <1>1, <1>6 DEF TypeOK
  <2>3. QED
    BY <2>1, <2>2, SameCounts
<1>7. /\ Waiting(ip)' = Waiting(ip) \ {r} /\ r \in Waiting(ip)
      /\ passed'[ip] = passed[ip] + 1 /\ passed[ip] \in Nat
  BY <1>1, <1>2 DEF Waiting, TypeOK
<1>8. Granted(ip)' = Granted(ip)
  <2>1. IsFiniteSet(Waiting(ip))
    BY <1>2, Counted DEF TypeOK
  <2>2. Cardinality(Waiting(ip)') = Cardinality(Waiting(ip)) - 1 /\ Cardinality(Waiting(ip)) \in Nat
    BY <1>7, <2>1, FS_RemoveElement, FS_CardinalityType
  <2>3. QED
    BY <1>7, <2>2 DEF Granted
<1>9. ASSUME NEW t \in Nat, now <= t
      PROVE  GrantedBy(ip, t)' = GrantedBy(ip, t)
  <2> DEFINE By == {q \in Waiting(ip) : grant[q] <= t}
             Rest == {q \in Waiting(ip)' : grant'[q] <= t}
  <2>1. IsFiniteSet(By)
    BY <1>2, Counted DEF TypeOK
  <2>2. r \in By
    BY <1>1, <1>2, <1>7, <1>9 DEF TypeOK
  <2>3. Rest = By \ {r}
    BY <1>1, <1>7 DEF TypeOK, Waiting
  <2>4. GrantedBy(ip, t) = passed[ip] + Cardinality(By)
    BY DEF GrantedBy
  <2>5. GrantedBy(ip, t)' = passed'[ip] + Cardinality(Rest)
    BY DEF GrantedBy
  <2> HIDE DEF By, Rest
  <2>6. Cardinality(Rest) = Cardinality(By) - 1 /\ Cardinality(By) \in Nat
    BY <2>1, <2>2, <2>3, FS_RemoveElement, FS_CardinalityType
  <2>7. QED
    BY <1>7, <2>4, <2>5, <2>6
<1>10. SpacedInv'
  <2> SUFFICES ASSUME NEW i \in IPs, Patient(i)'
               PROVE  /\ Granted(i)' * Interval <=
                           IF Known(i)' THEN slot'[visitors'[i].lim] + Interval ELSE now'
                      /\ \A t \in Nat : now' <= t => GrantedBy(i, t)' * Interval <= t + Interval
    BY DEF SpacedInv
  <2>1. Patient(i)
    BY <1>1 DEF Patient
  <2>2. Granted(i)' = Granted(i) /\ \A t \in Nat : now <= t => GrantedBy(i, t)' = GrantedBy(i, t)
    BY <1>6, <1>8, <1>9
  <2>3. QED
    BY <1>1, <1>3, <2>1, <2>2 DEF SpacedInv
<1>11. QED
  BY <1>4, <1>5, <1>10

\* The sweep removes a visitor's limiter only when a new one cannot give its
\* first permission too early.
LEMMA RateCleanup ==
  ASSUME LimitInv, RateInv, CleanupVisitors
  PROVE  RateInv'
<1> USE DEF LimitInv, RateInv
<1>1. /\ visitors' = [ip \in IPs |-> IF Expired(ip) THEN NoVisitor ELSE visitors[ip]]
      /\ UNCHANGED <<now, slot, fresh, pc, grant, passed, longest>>
  BY DEF CleanupVisitors
<1>2. \A ip \in IPs : Known(ip)' => Known(ip) /\ visitors'[ip] = visitors[ip]
  BY <1>1 DEF Known, Expired
<1>3. \A ip \in IPs : Known(ip) /\ ~Known(ip)' => Expired(ip)
  BY <1>1 DEF Known
<1>4. LimiterInv'
  BY <1>1, <1>2 DEF LimiterInv
<1>5. LongestInv'
  BY <1>1, <1>2 DEF LongestInv
<1>6. \A i \in IPs : /\ Granted(i)' = Granted(i)
                     /\ \A t \in Nat : GrantedBy(i, t)' = GrantedBy(i, t)
  BY <1>1, SameCounts
<1>7. SpacedInv'
  <2> SUFFICES ASSUME NEW i \in IPs, Patient(i)'
               PROVE  /\ Granted(i)' * Interval <=
                           IF Known(i)' THEN slot'[visitors'[i].lim] + Interval ELSE now'
                      /\ \A t \in Nat : now' <= t => GrantedBy(i, t)' * Interval <= t + Interval
    BY DEF SpacedInv
  <2>1. Patient(i)
    BY <1>1 DEF Patient
  <2>2. Granted(i) * Interval <= IF Known(i) THEN slot[visitors[i].lim] + Interval ELSE now
    BY <2>1 DEF SpacedInv
  <2>3. \A t \in Nat : now' <= t => GrantedBy(i, t)' * Interval <= t + Interval
    BY <1>1, <1>6, <2>1 DEF SpacedInv
  <2>4. CASE Known(i)' \/ ~Known(i)
    BY <1>1, <1>2, <1>6, <2>2, <2>3, <2>4
  <2>5. CASE Known(i) /\ ~Known(i)'
    <3> DEFINE s == slot[visitors[i].lim]
    <3>1. now - visitors[i].seen > Keep
      BY <1>3, <2>5 DEF Expired
    <3>2. s <= visitors[i].seen + longest[i] /\ longest[i] + Interval <= Keep
      BY <2>1, <2>5 DEF LongestInv, Patient
    <3>3. /\ s \in Int /\ visitors[i].seen \in Nat /\ now \in Nat /\ longest[i] \in Int
      BY <2>5, EntryTyped DEF TypeOK
    <3> HIDE DEF s
    <3>4. s + Interval <= now
      BY <3>1, <3>2, <3>3, Bounds
    <3>5. Granted(i) * Interval \in Int
      <4>1. Granted(i) \in Nat
        BY Counted DEF TypeOK
      <4>2. QED
        BY <4>1, Bounds
    <3>6. Granted(i) * Interval <= now
      BY <2>2, <2>5, <3>3, <3>4, <3>5, Bounds DEF s
    <3>7. QED
      BY <1>1, <1>6, <2>3, <2>5, <3>6
  <2>6. QED
    BY <2>4, <2>5
<1>8. QED
  BY <1>4, <1>5, <1>7

\* Time only makes room for more permissions.
LEMMA RateTick ==
  ASSUME LimitInv, RateInv, Tick
  PROVE  RateInv'
<1> USE DEF LimitInv, RateInv
<1>1. now' = now + 1 /\ now \in Nat
      /\ UNCHANGED <<visitors, slot, fresh, pc, grant, passed, longest>>
  BY DEF Tick, TypeOK
<1>2. \A i \in IPs : Known(i)' <=> Known(i)
  BY <1>1 DEF Known
<1>3. LimiterInv'
  <2>1. \A i \in IPs : Known(i) => visitors[i].seen <= now'
    BY <1>1, EntryTyped DEF LimiterInv
  <2>2. QED
    BY <1>1, <1>2, <2>1 DEF LimiterInv
<1>4. LongestInv'
  BY <1>1, <1>2 DEF LongestInv
<1>5. \A i \in IPs : /\ Granted(i)' = Granted(i)
                     /\ \A t \in Nat : GrantedBy(i, t)' = GrantedBy(i, t)
  BY <1>1, SameCounts
<1>6. SpacedInv'
  <2> SUFFICES ASSUME NEW i \in IPs, Patient(i)'
               PROVE  /\ Granted(i)' * Interval <=
                           IF Known(i)' THEN slot'[visitors'[i].lim] + Interval ELSE now'
                      /\ \A t \in Nat : now' <= t => GrantedBy(i, t)' * Interval <= t + Interval
    BY DEF SpacedInv
  <2>1. Patient(i)
    BY <1>1 DEF Patient
  <2>2. Granted(i) * Interval <= IF Known(i) THEN slot[visitors[i].lim] + Interval ELSE now
    BY <2>1 DEF SpacedInv
  <2>3. \A t \in Nat : now' <= t => now <= t
    BY <1>1
  <2>4. \A t \in Nat : now' <= t => GrantedBy(i, t)' * Interval <= t + Interval
    BY <1>5, <2>1, <2>3 DEF SpacedInv
  <2>5. Granted(i) * Interval \in Int
    <3>1. Granted(i) \in Nat
      BY Counted DEF TypeOK
    <3>2. QED
      BY <3>1, Bounds
  <2>6. CASE Known(i)
    BY <1>1, <1>2, <1>5, <2>2, <2>4, <2>6
  <2>7. CASE ~Known(i)
    BY <1>1, <1>2, <1>5, <2>2, <2>4, <2>5, <2>7
  <2>8. QED
    BY <2>6, <2>7
<1>7. QED
  BY <1>3, <1>4, <1>6

\* LimitInv and RateInv together hold in every reachable state.
LEMMA RateInvariant == Spec => []RateInv
<1>1. LimitInv /\ RateInv /\ [Next]_vars => RateInv'
  <2>1. LimitInv /\ RateInv /\ UNCHANGED vars => RateInv'
    <3> SUFFICES ASSUME LimitInv, RateInv, UNCHANGED vars PROVE RateInv'
      OBVIOUS
    <3>1. UNCHANGED <<now, visitors, slot, fresh, pc, grant, passed, longest>>
      BY DEF vars
    <3>2. \A i \in IPs : Known(i)' <=> Known(i)
      BY <3>1 DEF Known
    <3>3. \A i \in IPs : /\ Granted(i)' = Granted(i)
                         /\ \A t \in Nat : GrantedBy(i, t)' = GrantedBy(i, t)
      BY <3>1, SameCounts
    <3>4. LimiterInv' /\ LongestInv'
      BY <3>1, <3>2 DEF RateInv, LimiterInv, LongestInv
    <3>5. SpacedInv'
      BY <3>1, <3>2, <3>3 DEF RateInv, SpacedInv, Patient
    <3>6. QED
      BY <3>4, <3>5 DEF RateInv
  <2>2. QED
    BY <2>1, RateGetVisitor, RateTake, RatePass, RateCleanup, RateTick DEF Next
<1>2. QED
  BY <1>1, InitRate, LimitInvariant, PTL DEF Spec

\* Whatever the rate, the times, the requests and the removals of its entry, a
\* visitor gets one permission, and one more for every Interval, as long as none
\* of its requests waits for nearly as long as an entry is kept.
THEOREM RateTheorem == Spec => []RateHonoured
<1>1. LimitInv /\ RateInv => RateHonoured
  <2> SUFFICES ASSUME LimitInv, RateInv, NEW ip \in IPs, longest[ip] + Interval <= Keep
               PROVE  passed[ip] <= 1 + now \div Interval
    BY DEF RateHonoured
  <2>1. now \in Nat /\ passed \in [IPs -> Nat]
    BY DEF LimitInv, TypeOK
  <2>2. GrantedBy(ip, now) * Interval <= now + Interval
    BY <2>1 DEF RateInv, SpacedInv, Patient
  <2>3. GrantedBy(ip, now) \in Nat /\ passed[ip] <= GrantedBy(ip, now) /\ passed[ip] \in Nat
    BY <2>1, Counted
  <2>4. passed[ip] * Interval <= GrantedBy(ip, now) * Interval
    BY <2>3, Bounds, ProductMonotone
  <2>5. passed[ip] * Interval <= now + Interval
    <3>1. passed[ip] * Interval \in Nat /\ GrantedBy(ip, now) * Interval \in Nat
      BY <2>3, Bounds
    <3>2. QED
      BY <2>1, <2>2, <2>4, <3>1, Bounds
  <2>6. QED
    BY <2>1, <2>3, <2>5, Bounds, Intervals
<1>2. QED
  BY <1>1, LimitInvariant, RateInvariant, PTL
=============================================================================
