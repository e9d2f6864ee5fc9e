------------------------------ MODULE RateLimit ------------------------------
(***************************************************************************)
(* The per-visitor rate limit of ratelimit/limiter.go: a map from address  *)
(* to limiter and time last seen, guarded by a mutex, that a background    *)
(* goroutine sweeps.  A request looks its limiter up under the mutex and   *)
(* then waits in Take without it, so the sweep may remove the entry of a   *)
(* visitor that is still waiting.                                          *)
(*                                                                         *)
(* Time is counted in units of any length.  Looking up, Take's reservation *)
(* and the sweep take none: the clock waits for what is due.               *)
(***************************************************************************)
EXTENDS Integers, FiniteSets

CONSTANTS
  Requests,   \* the requests that may be outstanding at once
  IPs,        \* visitors
  IpOf,       \* the visitor each request comes from
  NoVisitor,  \* no entry in the map
  Keep,       \* 3 minutes: an entry not seen for longer is removed
  Sweep,      \* 1 minute: the time between two sweeps
  Interval,   \* the time between two permissions of a limiter, 1/rate
  Slack,      \* permissions a limiter saves up while it is not used
  MaxTime,    \* bound on the clock
  MaxLimiters \* bound on the limiters made

ASSUME RateAssumption ==
  /\ IpOf \in [Requests -> IPs]
  /\ {Sweep, Interval} \subseteq Nat \ {0}
  /\ {Keep, Slack, MaxTime, MaxLimiters} \subseteq Nat
  /\ IsFiniteSet(Requests)

Limiters == 1..MaxLimiters
Entries == [lim : Limiters, seen : Nat]

ASSUME VisitorAssumption == NoVisitor \notin Entries

VARIABLES
  now,       \* the clock
  visitors,  \* the map: an entry [lim, seen] or NoVisitor for each address
  slot,      \* the last permission each limiter has given away
  fresh,     \* the next limiter ratelimit.New makes
  pc,        \* "idle", "take" or "wait"
  lim,       \* the limiter getVisitor returned to each request
  since,     \* when the request called getVisitor
  grant,     \* the time Take returns to it
  nextSweep, \* when cleanupVisitors wakes up
  passed,    \* requests let through, per visitor
  longest    \* the longest a request of the visitor has had to wait

vars == <<now, visitors, slot, fresh, pc, lim, since, grant, nextSweep, passed, longest>>

Init ==
  /\ now = 0
  /\ visitors = [ip \in IPs |-> NoVisitor]
  /\ slot = [l \in Limiters |-> 0]
  /\ fresh = 1
  /\ pc = [r \in Requests |-> "idle"]
  /\ lim = [r \in Requests |-> 0]
  /\ since = [r \in Requests |-> 0]
  /\ grant = [r \in Requests |-> 0]
  /\ nextSweep = Sweep
  /\ passed = [ip \in IPs |-> 0]
  /\ longest = [ip \in IPs |-> 0]

Larger(a, b) == IF a >= b THEN a ELSE b

-----------------------------------------------------------------------------
Known(ip) == visitors[ip] # NoVisitor

\* The limiter a request gets: the one in the map, or a new one.
LimiterOf(ip) == IF Known(ip) THEN visitors[ip].lim ELSE fresh

\* getVisitor returns limiter l, leaving entry in the map; made says that
\* ratelimit.New was called.
Return(r, l, entry, made) ==
  /\ pc[r] = "idle"
  /\ made => fresh \in Limiters
  /\ visitors' = [visitors EXCEPT ![IpOf[r]] = entry]
  /\ lim' = [lim EXCEPT ![r] = l]
  /\ slot' = IF made THEN [slot EXCEPT ![l] = now - Interval] ELSE slot
  /\ fresh' = IF made THEN fresh + 1 ELSE fresh
  /\ since' = [since EXCEPT ![r] = now]
  /\ pc' = [pc EXCEPT ![r] = "take"]
  /\ UNCHANGED <<now, grant, nextSweep, passed, longest>>

\* Faulty variant of GetVisitor: lastSeen keeps the time of the first request.
GetVisitorSeenOnce(r) ==
  LET ip == IpOf[r]
      l == LimiterOf(ip)
  IN  Return(r, l, [lim |-> l, seen |-> IF Known(ip) THEN visitors[ip].seen ELSE now], ~Known(ip))

\* getVisitor: the visitor's limiter, made if there is none, and the time seen.
GetVisitor(r) ==
  LET l == LimiterOf(IpOf[r])
  IN  Return(r, l, [lim |-> l, seen |-> now], ~Known(IpOf[r]))

\* limiter.Take() reserves the next permission, at most Slack of them in the
\* past, and sleeps until its time.
Take(r) ==
  /\ pc[r] = "take"
  /\ LET g == Larger(slot[lim[r]] + Interval, now - Slack * Interval)
     IN  /\ slot' = [slot EXCEPT ![lim[r]] = g]
         /\ grant' = [grant EXCEPT ![r] = Larger(g, now)]
         /\ longest' = [longest EXCEPT ![IpOf[r]] = Larger(@, g - since[r])]
  /\ pc' = [pc EXCEPT ![r] = "wait"]
  /\ UNCHANGED <<now, visitors, fresh, lim, since, nextSweep, passed>>

\* Take returns; the request goes on and another one may come.
Pass(r) ==
  /\ pc[r] = "wait"
  /\ grant[r] <= now
  /\ pc' = [pc EXCEPT ![r] = "idle"]
  /\ passed' = [passed EXCEPT ![IpOf[r]] = @ + 1]
  /\ lim' = [lim EXCEPT ![r] = 0]
  /\ since' = [since EXCEPT ![r] = 0]
  /\ grant' = [grant EXCEPT ![r] = 0]
  /\ UNCHANGED <<now, visitors, slot, fresh, nextSweep, longest>>

\* The entries cleanupVisitors removes: time.Since(v.lastSeen) > 3*time.Minute
Expired(ip) == Known(ip) /\ now - visitors[ip].seen > Keep

\* Faulty variant of CleanupVisitors: it runs once, not in a loop.
CleanupOnce ==
  /\ now = nextSweep
  /\ visitors' = [ip \in IPs |-> IF Expired(ip) THEN NoVisitor ELSE visitors[ip]]
  /\ nextSweep' = MaxTime + 1
  /\ UNCHANGED <<now, slot, fresh, pc, lim, since, grant, passed, longest>>

\* cleanupVisitors: one pass over the map under the mutex, then the sleep.
CleanupVisitors ==
  /\ now = nextSweep
  /\ visitors' = [ip \in IPs |-> IF Expired(ip) THEN NoVisitor ELSE visitors[ip]]
  /\ nextSweep' = now + Sweep
  /\ UNCHANGED <<now, slot, fresh, pc, lim, since, grant, passed, longest>>

\* Time passes when nothing is due.
Tick ==
  /\ now < MaxTime
  /\ now < nextSweep
  /\ \A r \in Requests : pc[r] = "idle" \/ (pc[r] = "wait" /\ grant[r] > now)
  /\ now' = now + 1
  /\ UNCHANGED <<visitors, slot, fresh, pc, lim, since, grant, nextSweep, passed, longest>>

Next ==
  \/ \E r \in Requests : GetVisitor(r) \/ Take(r) \/ Pass(r)
  \/ CleanupVisitors \/ Tick

Spec == Init /\ [][Next]_vars

-----------------------------------------------------------------------------
(* Properties *)

\* The values the variables may take.
TypeOK ==
  /\ now \in Nat
  /\ visitors \in [IPs -> Entries \cup {NoVisitor}]
  /\ slot \in [Limiters -> Int]
  /\ fresh \in 1..(MaxLimiters + 1)
  /\ pc \in [Requests -> {"idle", "take", "wait"}]
  /\ lim \in [Requests -> Limiters \cup {0}]
  /\ since \in [Requests -> Nat]
  /\ grant \in [Requests -> Nat]
  /\ nextSweep \in Nat
  /\ passed \in [IPs -> Nat]
  /\ longest \in [IPs -> Int]

\* A request that waits no longer than Keep waits at the limiter its visitor's
\* next request will get: the sweep does not remove it meanwhile (limiter.go:58).
WaitersKeepLimiter ==
  \A r \in Requests :
    (pc[r] # "idle" /\ (pc[r] = "wait" => grant[r] - since[r] <= Keep))
      => Known(IpOf[r]) /\ visitors[IpOf[r]].lim = lim[r]

\* As long as no request of a visitor has had to wait for so long that its turn
\* and the one after it lie beyond Keep, the visitor's rate is kept to over the
\* whole run, through all removals of its entry (limiter.go:33-64): one request,
\* and one more for every Interval.
RateHonoured ==
  \A ip \in IPs : longest[ip] + Interval <= Keep => passed[ip] <= 1 + now \div Interval

\* "delete the entries" of "visitors that haven't been seen for more than 3
\* minutes", "every minute" (limiter.go:50): none is older than both together.
StaleGone ==
  \A ip \in IPs :
    Known(ip) => now - visitors[ip].seen <= Keep + Sweep

-----------------------------------------------------------------------------
(* The inductive invariant behind StaleGone and WaitersKeepLimiter *)

\* No sweep is missed, and the last one left nothing that was older than Keep.
SweepInv ==
  /\ nextSweep - now \in 0..Sweep
  /\ \A ip \in IPs : Known(ip) => nextSweep - Sweep - visitors[ip].seen <= Keep

\* Take reserves at once and returns on time; a request that is to wait no
\* longer than Keep finds its entry, seen when it came or later.
WaitInv ==
  \A r \in Requests :
    /\ since[r] <= now
    /\ pc[r] = "take" => since[r] = now
    /\ pc[r] = "wait" => now <= grant[r]
    /\ (pc[r] # "idle" /\ (pc[r] = "wait" => grant[r] - since[r] <= Keep)) =>
         /\ Known(IpOf[r])
         /\ visitors[IpOf[r]].lim = lim[r]
         /\ since[r] <= visitors[IpOf[r]].seen

\* The types and the parts together are inductive.
LimitInv == TypeOK /\ SweepInv /\ WaitInv

-----------------------------------------------------------------------------
(* The inductive invariant behind RateHonoured *)

\* The requests of a visitor that have a permission and sleep.
Waiting(ip) == {r \in Requests : IpOf[r] = ip /\ pc[r] = "wait"}

\* How many permissions a visitor was given, and how many up to time t.
Granted(ip) == passed[ip] + Cardinality(Waiting(ip))
GrantedBy(ip, t) == passed[ip] + Cardinality({r \in Waiting(ip) : grant[r] <= t})

\* No two visitors share a limiter, and the next one is new.
LimiterInv ==
  \A ip \in IPs : Known(ip) =>
    /\ visitors[ip].lim < fresh
    /\ visitors[ip].seen <= now
    /\ \A other \in IPs \ {ip} : Known(other) => visitors[other].lim # visitors[ip].lim

\* A limiter's last permission is due no later than longest after its visitor
\* was last seen.
LongestInv ==
  \A ip \in IPs :
    /\ longest[ip] >= 0
    /\ Known(ip) => slot[visitors[ip].lim] <= visitors[ip].seen + longest[ip]

\* While nobody of ip has to wait for so long that the sweep takes the limiter
\* away early.
Patient(ip) == longest[ip] + Interval <= Keep

\* The permissions of all the limiters a visitor has had are Interval apart: the
\* last one tells how many they can be, and so does any time from now on.
SpacedInv ==
  \A ip \in IPs : Patient(ip) =>
    /\ Granted(ip) * Interval <= IF Known(ip) THEN slot[visitors[ip].lim] + Interval ELSE now
    /\ \A t \in Nat : now <= t => GrantedBy(ip, t) * Interval <= t + Interval

\* Together with LimitInv the parts are inductive, and RateHonoured follows.
RateInv == LimiterInv /\ LongestInv /\ SpacedInv
=============================================================================
