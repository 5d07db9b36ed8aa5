------------------------------ MODULE RateLimit ------------------------------
(***************************************************************************)
(* The per-source token bucket of src/dns64/ratelimit.go.  Callers read    *)
(* the rate and the clock before they take the lock, so they may enter in  *)
(* another order than their clock readings.  A tick is 1/Scale of a second *)
(* and tokens are counted in units of 1/Scale, which keeps the refill      *)
(* integral: elapsed ticks times the rate.                                 *)
(*                                                                         *)
(* Beside the limiter runs an ideal one that never forgets a source; it    *)
(* only observes.  Callers already waiting when limiting is disabled are   *)
(* still charged, at a rate of zero; the two are compared, and brought in  *)
(* line again, while limiting is enabled.                                  *)
(***************************************************************************)
EXTENDS Integers, FiniteSets

CONSTANTS
  Src, Caller,
  Rates,       \* the configured rates; 0 disables limiting
  MaxRate,
  Scale,
  MinBurst,    \* rateLimitMinBurst
  MaxBuckets,  \* maxRateBuckets
  IdleTicks,   \* rateBucketIdle
  Skew,        \* how long a caller may wait for the lock
  MaxReloads,  \* bound on the updates
  MaxTime      \* bound on the clock

VARIABLES
  now, rate, burst,
  buckets,   \* a function on the sources that have one
  caller,    \* callers of allow: source and clock reading
  ideal,     \* the buckets of the ideal limiter
  since,     \* when the limiter was last updated
  reloads,   \* how often it has been
  admitted   \* admissions per source since then

settings == <<rate, burst, since, reloads>>
limiterVars == <<now, settings, buckets, caller, ideal, admitted>>

Least(a, b) == IF a < b THEN a ELSE b
Most(a, b) == IF a < b THEN b ELSE a

BurstOf(r) == Scale * Most(2 * r, MinBurst)

\* What late callers can leave a bucket owing.  A caller whose clock reading
\* is older than the bucket's takes tokens back at the rate of the moment; a
\* debt survives a reload, and another can come on top of it.
Debt == (MaxReloads + 1) * (MaxRate * Skew)

\* An idle bucket has refilled long before it is evicted, at any rate, even
\* for a caller that is late and from the largest debt: five minutes against
\* a burst of max(10, 2r) and microseconds of waiting.
ASSUME RateConstants ==
  /\ MaxRate \in Nat /\ Rates \subseteq 0..MaxRate
  /\ Scale \in Nat \ {0} /\ MinBurst \in Nat \ {0} /\ MaxBuckets \in Nat \ {0}
  /\ Skew \in Nat /\ IdleTicks \in Nat /\ MaxReloads \in Nat /\ MaxTime \in Nat
  /\ \A r \in Rates \ {0} : (IdleTicks - Skew) * r >= BurstOf(r) + Debt

Bucket(tokens, last) == [tokens |-> tokens, last |-> last]

NotCalling == [pc |-> "idle"]

LimiterInit ==
  /\ now = 0
  /\ rate \in Rates \ {0} /\ burst = BurstOf(rate)
  /\ buckets = [s \in {} |-> Bucket(0, 0)]
  /\ caller = [c \in Caller |-> NotCalling]
  /\ ideal = buckets
  /\ since = 0 /\ reloads = 0 /\ admitted = [s \in Src |-> 0]
-----------------------------------------------------------------------------
\* The unlocked part of allow: a rate of zero admits, otherwise the clock
\* has been read and the caller goes for the lock.
Enter(c) ==
  /\ caller[c].pc = "idle"
  /\ IF rate > 0
     THEN \E s \in Src : caller' = [caller EXCEPT ![c] = [pc |-> "lock", src |-> s, at |-> now]]
     ELSE UNCHANGED caller
  /\ UNCHANGED <<now, settings, buckets, ideal, admitted>>

\* Mutant of Swept: the sweep makes room at any price.
SweptAll(t) == [s \in {} |-> buckets[s]]

\* sweepLocked at time t.
Swept(t) == [s \in {k \in DOMAIN buckets : buckets[k].last >= t - IdleTicks} |-> buckets[s]]

\* The table in which src is looked up: swept if src is new and it is full.
Table(s, t) ==
  IF s \notin DOMAIN buckets /\ Cardinality(DOMAIN buckets) >= MaxBuckets
  THEN Swept(t) ELSE buckets

\* The tokens of bucket b at time t.
Refilled(b, t) == Least(b.tokens + (t - b.last) * rate, burst)

\* Mutant of Found: the time of the refill is not recorded.
FoundStale(T, s, t) ==
  IF s \in DOMAIN T THEN Bucket(Refilled(T[s], t), T[s].last) ELSE Bucket(burst, t)

\* The bucket of s in table T at time t, before a token is taken.
Found(T, s, t) == Bucket(IF s \in DOMAIN T THEN Refilled(T[s], t) ELSE burst, t)

Spent(b) == IF b.tokens >= Scale THEN [b EXCEPT !.tokens = @ - Scale] ELSE b

With(T, s, b) == [k \in DOMAIN T \cup {s} |-> IF k = s THEN b ELSE T[k]]

\* The locked part of allow.
Allow(c) ==
  /\ caller[c].pc = "lock"
  /\ LET s == caller[c].src
         t == caller[c].at
         b == Found(Table(s, t), s, t)
     IN  /\ buckets' = With(Table(s, t), s, Spent(b))
         /\ ideal' = With(ideal, s, Spent(Found(ideal, s, t)))
         /\ admitted' = [admitted EXCEPT ![s] = IF b.tokens >= Scale THEN @ + 1 ELSE @]
  /\ caller' = [caller EXCEPT ![c] = NotCalling]
  /\ UNCHANGED <<now, settings>>

Recapped(T, max) == [s \in DOMAIN T |-> [T[s] EXCEPT !.tokens = Least(@, max)]]

\* update on a reload.  A rate of zero leaves burst and buckets alone.
Update(r) ==
  /\ reloads < MaxReloads
  /\ r \in Rates \ {rate}
  /\ rate' = r
  /\ IF r > 0
     THEN /\ burst' = BurstOf(r)
          /\ buckets' = Recapped(buckets, BurstOf(r))
          /\ ideal' = Recapped([s \in DOMAIN ideal |->
                                  IF s \in DOMAIN buckets THEN buckets[s] ELSE ideal[s]], BurstOf(r))
     ELSE UNCHANGED <<burst, buckets, ideal>>
  /\ since' = now /\ reloads' = reloads + 1 /\ admitted' = [s \in Src |-> 0]
  /\ UNCHANGED <<now, caller>>

\* Time passes, but not beyond what a caller may wait for the lock.
Advance ==
  /\ now < MaxTime
  /\ \A c \in Caller : caller[c].pc = "lock" => now < caller[c].at + Skew
  /\ now' = now + 1
  /\ UNCHANGED <<settings, buckets, caller, ideal, admitted>>

LimiterNext ==
  \/ \E c \in Caller : Enter(c) \/ Allow(c)
  \/ \E r \in Rates : Update(r)
  \/ Advance

LimiterSpec == LimiterInit /\ [][LimiterNext]_limiterVars
-----------------------------------------------------------------------------
(***************************************************************************)
(* Properties.                                                             *)
(***************************************************************************)
\* No source gets more than its burst plus what its rate allows for the
\* time since the last update, up to the skew of callers that were waiting:
\* neither callers entering out of order nor a bucket evicted and created
\* anew give anything away.
RateBounded ==
  \A s \in Src : Scale * admitted[s] <= burst + rate * (now - since + Skew)

\* Forgetting an idle source changes no decision: a source that still has a
\* bucket has the tokens it would have without eviction, and one that has
\* been evicted would by now, at any enabled rate, be back at its burst.
EvictionInvisible ==
  rate > 0 => \A s \in DOMAIN ideal :
    IF s \in DOMAIN buckets THEN buckets[s] = ideal[s]
    ELSE \A r \in Rates \ {0} : ideal[s].tokens + (now - Skew - ideal[s].last) * r >= BurstOf(r)

=============================================================================
