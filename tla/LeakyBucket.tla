---------------------------- MODULE LeakyBucket -----------------------------
(***************************************************************************)
(* Admission of Admin GraphQL requests in the Shopify twin: the leaky bucket*)
(* rate limiter and the handler of /admin/api/:version/graphql.json that    *)
(* charges a request its estimated cost, awaits its execution, and refunds  *)
(* what it did not use. The handler yields at yoga.fetch: other requests,   *)
(* POST /admin/reset and time run between the charge and the refund.        *)
(*                                                                          *)
(* Time is Date.now() in milliseconds. Amounts are kept in units such that  *)
(* RestoreRate points a second are RestoreRate units a millisecond: a point *)
(* is Second units. The code's fractions are then whole numbers. The clock  *)
(* is taken to be monotonic, and the limiter to be enabled.                 *)
(***************************************************************************)
EXTENDS Integers, FiniteSets

CONSTANTS
  Requests,      \* requests that may be in flight at the same time
  Keys,          \* access tokens (or 'anonymous')
  KeyOf,         \* the token a request carries
  Costs,         \* what calculateQueryCost may return, in points
  MaxAvailable,  \* LeakyBucketRateLimiter.maxAvailable, in points
  RestoreRate,   \* LeakyBucketRateLimiter.restoreRate, in points a second
  Second,        \* milliseconds in a second: 1000 in the code, less for TLC
  MaxTime,       \* bound on the clock
  MaxResets      \* bound on the number of POST /admin/reset

ASSUME RequestAssumption == KeyOf \in [Requests -> Keys]
ASSUME CostAssumption == Costs \subseteq Int
ASSUME BucketAssumption ==
  /\ MaxAvailable \in Nat \ {0}
  /\ RestoreRate \in Nat \ {0}
  /\ Second \in Nat \ {0}
ASSUME BoundAssumption == MaxTime \in Nat /\ MaxResets \in Nat

VARIABLES
  now,         \* Date.now()
  buckets,     \* the keys of LeakyBucketRateLimiter.buckets
  available,   \* BucketState.available
  lastRefill,  \* BucketState.lastRefill
  executing,   \* the requests awaiting yoga.fetch
  reqCost,     \* queryCost of a request, in units
  retryAt,     \* history: when a throttled client was told to come back, or 0
  billed,      \* history: net charge of a bucket's requests since its creation
  born,        \* history: when the bucket was created
  epoch,       \* history: resets when the request was charged
  resets       \* how many resets have happened

limiterVars == <<buckets, available, lastRefill>>
requestVars == <<executing, reqCost, epoch>>
historyVars == <<retryAt, billed, born>>
vars == <<now, limiterVars, requestVars, historyVars, resets>>

-----------------------------------------------------------------------------
Least(m, n) == IF m < n THEN m ELSE n

Ceiling(m, n) == (m + n - 1) \div n

Capacity == MaxAvailable * Second

(* A slip: the refill is not capped. *)
RefilledUncapped(k) ==
  IF k \in buckets THEN available[k] + (now - lastRefill[k]) * RestoreRate ELSE Capacity

(* What tryConsume finds in a bucket: a new one is full.                     *)
Refilled(k) ==
  IF k \in buckets
  THEN Least(Capacity, available[k] + (now - lastRefill[k]) * RestoreRate)
  ELSE Capacity

(* A slip: the deficit is waited for, without the one point above it.        *)
RetryAfterShort(level) == Ceiling(-level, RestoreRate)

(* retryAfterMs, for a bucket at a level that is not positive.               *)
RetryAfterMs(level) == Ceiling(Second - level, RestoreRate)

(* The Retry-After header is in whole seconds, rounded up.                   *)
RetryAfterSeconds(level) == Ceiling(RetryAfterMs(level), Second)

(* computeActualCost: at least 1, at most the requested cost, which is not   *)
(* touched when it is 1 or less. How many items the answer holds is the      *)
(* environment's choice. Costs are in units.                                 *)
ActualCosts(cost) ==
  IF cost <= Second THEN {cost} ELSE {n * Second : n \in 1..(cost \div Second)}

Init ==
  /\ now        = 0
  /\ buckets    = {}
  /\ available  = [k \in Keys |-> Capacity]
  /\ lastRefill = [k \in Keys |-> 0]
  /\ executing  = {}
  /\ reqCost    = [r \in Requests |-> 0]
  /\ retryAt    = [k \in Keys |-> 0]
  /\ billed     = [k \in Keys |-> 0]
  /\ born       = [k \in Keys |-> 0]
  /\ epoch      = [r \in Requests |-> 0]
  /\ resets     = 0

-----------------------------------------------------------------------------
(* The limiter. *)

(* tryConsume writes the refilled bucket back, less what it charges.         *)
Store(k, level) ==
  /\ buckets' = buckets \cup {k}
  /\ available' = [available EXCEPT ![k] = level]
  /\ lastRefill' = [lastRefill EXCEPT ![k] = now]
  /\ born' = IF k \in buckets THEN born ELSE [born EXCEPT ![k] = now]

(* refund: nothing for an amount that is not positive or a bucket that is    *)
(* gone. It does not refill first.                                           *)
Refund(k, points) ==
  /\ available' = IF points > 0 /\ k \in buckets
                  THEN [available EXCEPT ![k] = Least(Capacity, @ + points)]
                  ELSE available
  /\ UNCHANGED <<buckets, lastRefill>>

-----------------------------------------------------------------------------
(* The handler. *)

(* A slip: a request is admitted when the bucket is empty. *)
AdmitAtZero(r, points) ==
  LET k == KeyOf[r]
      cost == points * Second
  IN  /\ r \notin executing
      /\ Refilled(k) >= 0
      /\ Store(k, Refilled(k) - cost)
      /\ executing' = executing \cup {r}
      /\ reqCost' = [reqCost EXCEPT ![r] = cost]
      /\ epoch' = [epoch EXCEPT ![r] = resets]
      /\ billed' = [billed EXCEPT ![k] = (IF k \in buckets THEN @ ELSE 0) + cost]
      /\ retryAt' = [retryAt EXCEPT ![k] = 0]
      /\ UNCHANGED <<now, resets>>

(* A request that finds its bucket positive is charged in full and starts to *)
(* execute, even when that overdraws the bucket.                             *)
Admit(r, points) ==
  LET k == KeyOf[r]
      cost == points * Second
  IN  /\ r \notin executing
      /\ Refilled(k) > 0
      /\ Store(k, Refilled(k) - cost)
      /\ executing' = executing \cup {r}
      /\ reqCost' = [reqCost EXCEPT ![r] = cost]
      /\ epoch' = [epoch EXCEPT ![r] = resets]
      /\ billed' = [billed EXCEPT ![k] = (IF k \in buckets THEN @ ELSE 0) + cost]
      /\ retryAt' = [retryAt EXCEPT ![k] = 0]
      /\ UNCHANGED <<now, resets>>

(* The others are answered 429 with a Retry-After.                           *)
Throttle(k) ==
  LET due == now + RetryAfterSeconds(Refilled(k)) * Second
  IN  /\ Refilled(k) <= 0
      /\ Store(k, Refilled(k))
      /\ retryAt' = [retryAt EXCEPT ![k] = IF @ = 0 THEN due ELSE Least(@, due)]
      /\ UNCHANGED <<now, requestVars, billed, resets>>

(* The handler returns and its locals go out of scope. *)
Gone(r) ==
  /\ executing' = executing \ {r}
  /\ reqCost' = [reqCost EXCEPT ![r] = 0]
  /\ epoch' = [epoch EXCEPT ![r] = 0]

(* A slip: the refund is what was used, not what was not. *)
FinishSwapped(r, actual) ==
  /\ r \in executing
  /\ Refund(KeyOf[r], actual)
  /\ billed' = IF epoch[r] = resets
               THEN [billed EXCEPT ![KeyOf[r]] = @ - (reqCost[r] - actual)]
               ELSE billed
  /\ Gone(r)
  /\ UNCHANGED <<now, retryAt, born, resets>>

(* A JSON answer: the difference to the actual cost is refunded, to whatever *)
(* bucket the key has by now.                                                *)
Finish(r, actual) ==
  /\ r \in executing
  /\ Refund(KeyOf[r], reqCost[r] - actual)
  /\ billed' = IF epoch[r] = resets
               THEN [billed EXCEPT ![KeyOf[r]] = @ - (reqCost[r] - actual)]
               ELSE billed
  /\ Gone(r)
  /\ UNCHANGED <<now, retryAt, born, resets>>

(* A non-JSON answer, or yoga.fetch rejects: the charge is kept.             *)
FinishUncredited(r) ==
  /\ r \in executing
  /\ Gone(r)
  /\ UNCHANGED <<now, limiterVars, historyVars, resets>>

(* POST /admin/reset: buckets.clear(). Requests go on executing.             *)
Reset ==
  /\ resets < MaxResets
  /\ resets' = resets + 1
  /\ buckets' = {}
  /\ billed' = [k \in Keys |-> 0]
  /\ retryAt' = [k \in Keys |-> 0]
  /\ UNCHANGED <<now, available, lastRefill, requestVars, born>>

Tick ==
  /\ now < MaxTime
  /\ now' = now + 1
  /\ UNCHANGED <<limiterVars, requestVars, historyVars, resets>>

RequestStep(r) ==
  \/ \E c \in Costs : Admit(r, c)
  \/ \E a \in ActualCosts(reqCost[r]) : Finish(r, a)
  \/ FinishUncredited(r)

Next ==
  \/ \E r \in Requests : RequestStep(r)
  \/ \E k \in Keys : Throttle(k)
  \/ Reset
  \/ Tick

Spec == Init /\ [][Next]_vars

-----------------------------------------------------------------------------
(* Properties. *)

(* Every variable keeps its type. *)
TypeOK ==
  /\ now \in 0..MaxTime
  /\ buckets \subseteq Keys
  /\ available \in [Keys -> Int]
  /\ lastRefill \in [Keys -> 0..now]
  /\ executing \subseteq Requests
  /\ reqCost \in [Requests -> Int]
  /\ retryAt \in [Keys -> Nat]
  /\ billed \in [Keys -> Int]
  /\ born \in [Keys -> 0..now]
  /\ epoch \in [Requests -> 0..resets]
  /\ resets \in 0..MaxResets

(* "Each shop (key) has a bucket with a maximum capacity": no sequence of    *)
(* refills, charges, and refunds leaves more in a bucket than it can hold.   *)
WithinCapacity == \A k \in buckets : available[k] <= Capacity

(* A bucket is overdrawn by one request at most: however many are admitted   *)
(* before any of them finishes, the debt is less than the largest charge.    *)
OverdraftBounded ==
  \A k \in buckets : \E c \in Costs \cup {0} : available[k] > -(c * Second)

(* A client that was throttled and waits for the Retry-After it was given is *)
(* not throttled again, unless another request of its key was admitted       *)
(* meanwhile: the refunds and refills of others cannot make it wait longer.  *)
RetryAfterSuffices ==
  \A k \in Keys : retryAt[k] > 0 /\ now >= retryAt[k] => Refilled(k) > 0

(* "Bucket refills at a fixed rate (restoreRate pts/sec)": what a bucket     *)
(* holds and what its requests were charged, refunds taken off, came from    *)
(* its initial filling and from the time that passed. Refunds of requests    *)
(* charged before a reset go to a bucket that was never charged.             *)
RefillsAtFixedRate ==
  \A k \in buckets :
    Refilled(k) + billed[k] <= Capacity + (now - born[k]) * RestoreRate

(* The same, in a twin that was not reset.                                   *)
BudgetKept == resets = 0 => RefillsAtFixedRate

(* The lazily refilled buckets implement the eagerly refilled budgets.       *)
Amounts == UNION {0..(c * Second) : c \in Costs}

Policy == INSTANCE ThrottlePolicy WITH
  Rate <- RestoreRate, budget <- [k \in Keys |-> Refilled(k)]

ImplementsPolicy == Policy!Spec

=============================================================================
