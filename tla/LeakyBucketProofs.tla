------------------------- MODULE LeakyBucketProofs --------------------------
(***************************************************************************)
(* Proofs about LeakyBucket, for every capacity, restore rate, set of       *)
(* requests, keys and costs, and with no bound on the clock but its name:   *)
(* the limiter's invariants, and that the lazily refilled buckets implement *)
(* ThrottlePolicy. All but TypeCorrect need costs that are not negative;    *)
(* WithinCapacity is false without that.                                    *)
(***************************************************************************)
EXTENDS LeakyBucket, TLAPS

NonNegativeCosts == Costs \subseteq Nat

-----------------------------------------------------------------------------
(* Arithmetic. *)

(* Rounding up loses nothing. *)
LEMMA CeilingCovers ==
  ASSUME NEW m \in Int, NEW n \in Nat \ {0}
  PROVE  Ceiling(m, n) \in Int /\ Ceiling(m, n) * n >= m
  BY Z3 DEF Ceiling

LEMMA QuotientFits ==
  ASSUME NEW m \in Int, NEW n \in Nat \ {0}, NEW q \in 1..(m \div n)
  PROVE  q * n <= m
  BY Z3

(* What is restored over two consecutive periods. *)
LEMMA Elapse ==
  ASSUME NEW a \in Int, NEW b \in Int, NEW c \in Int, NEW n \in Nat
  PROVE  /\ (a - b) * n + (b - c) * n = (a - c) * n
         /\ a >= b => (a - b) * n >= 0
         /\ (a - b) * n \in Int
  BY Z3

LEMMA CapacityType == Capacity \in Nat \ {0}
  BY BucketAssumption, Z3 DEF Capacity

(* The actual cost is a whole number of points between 0 and the estimate.   *)
LEMMA ActualWithinCost ==
  ASSUME NEW cost \in Int, NEW actual \in ActualCosts(cost)
  PROVE  /\ actual \in Int
         /\ cost >= 0 => 0 <= actual /\ actual <= cost
<1> USE BucketAssumption
<1>1. CASE cost <= Second
  BY <1>1 DEF ActualCosts
<1>2. CASE ~(cost <= Second)
  <2>1. PICK n \in 1..(cost \div Second) : actual = n * Second
    BY <1>2 DEF ActualCosts
  <2>2. n \in Nat /\ n * Second <= cost
    BY QuotientFits
  <2>3. n * Second \in Nat
    BY <2>2, Z3
  <2>4. QED
    BY <2>1, <2>2, <2>3
<1>3. QED
  BY <1>1, <1>2

-----------------------------------------------------------------------------
(* Type correctness, whatever the costs. *)

LEMMA RefilledType ==
  ASSUME TypeOK, NEW k \in Keys
  PROVE  Refilled(k) \in Int /\ Refilled(k) <= Capacity
<1> USE CapacityType, BucketAssumption
<1>1. (now - lastRefill[k]) * RestoreRate \in Int
  BY Elapse, BoundAssumption DEF TypeOK
<1>2. QED
  BY <1>1 DEF TypeOK, Refilled, Least

LEMMA StoreType ==
  ASSUME TypeOK, NEW k \in Keys, NEW level \in Int, Store(k, level), now' = now
  PROVE  /\ buckets' \subseteq Keys
         /\ available' \in [Keys -> Int]
         /\ lastRefill' \in [Keys -> 0..now']
         /\ born' \in [Keys -> 0..now']
  BY BoundAssumption DEF TypeOK, Store

LEMMA RefundType ==
  ASSUME TypeOK, NEW k \in Keys, NEW points \in Int, Refund(k, points)
  PROVE  /\ available' \in [Keys -> Int]
         /\ buckets' = buckets /\ lastRefill' = lastRefill
  BY CapacityType DEF TypeOK, Refund, Least

(* What time a throttled client is given: a whole number of seconds in which *)
(* more is restored than the bucket lacks.                                   *)
LEMMA RetryAfterCovers ==
  ASSUME NEW level \in Int, level <= 0
  PROVE  /\ RetryAfterSeconds(level) * Second \in Nat \ {0}
         /\ level + (RetryAfterSeconds(level) * Second) * RestoreRate > 0
<1> USE BucketAssumption
<1> DEFINE ms == RetryAfterMs(level)
           wait == RetryAfterSeconds(level) * Second
<1>1. ms \in Int /\ ms * RestoreRate >= Second - level
  BY CeilingCovers DEF RetryAfterMs
<1>2. wait \in Int /\ wait >= ms
  <2>1. RetryAfterSeconds(level) \in Int /\ wait >= ms
    BY <1>1, CeilingCovers DEF RetryAfterSeconds
  <2>2. QED
    BY <2>1
<1> HIDE DEF ms, wait
<1>3. ms > 0
  BY <1>1, Z3
<1>4. wait * RestoreRate >= ms * RestoreRate
  BY <1>1, <1>2, Z3
<1>5. level + wait * RestoreRate > 0
  BY <1>1, <1>2, <1>4
<1>6. QED
  BY <1>2, <1>3, <1>5, <1>1 DEF wait

LEMMA InitType == Init => TypeOK
  BY CapacityType, BoundAssumption DEF Init, TypeOK

LEMMA StepType == TypeOK /\ [Next]_vars => TypeOK'
<1> SUFFICES ASSUME TypeOK, [Next]_vars PROVE TypeOK'
  OBVIOUS
<1> USE BoundAssumption, BucketAssumption, RequestAssumption, CostAssumption
<1>1. ASSUME NEW r \in Requests, NEW c \in Costs, Admit(r, c) PROVE TypeOK'
  <2> DEFINE k == KeyOf[r]
  <2>1. /\ k \in Keys /\ c * Second \in Int /\ now' = now /\ resets' = resets
        /\ Refilled(k) - c * Second \in Int
    BY <1>1, RefilledType DEF Admit
  <2>2. /\ Store(k, Refilled(k) - c * Second)
        /\ executing' = executing \cup {r}
        /\ reqCost' = [reqCost EXCEPT ![r] = c * Second]
        /\ epoch' = [epoch EXCEPT ![r] = resets]
        /\ billed' = [billed EXCEPT ![k] = (IF k \in buckets THEN billed[k] ELSE 0) + c * Second]
        /\ retryAt' = [retryAt EXCEPT ![k] = 0]
    BY <1>1 DEF Admit
  <2> HIDE DEF k
  <2>3. QED
    BY <2>1, <2>2, StoreType DEF TypeOK
<1>2. ASSUME NEW r \in Requests, NEW a \in ActualCosts(reqCost[r]), Finish(r, a)
      PROVE  TypeOK'
  <2>1. a \in Int /\ reqCost[r] - a \in Int
    BY <1>2, ActualWithinCost DEF TypeOK
  <2>2. /\ available' \in [Keys -> Int]
        /\ buckets' = buckets /\ lastRefill' = lastRefill
    BY <1>2, <2>1, RefundType DEF Finish
  <2>3. QED
    BY <1>2, <2>1, <2>2 DEF Finish, Gone, TypeOK
<1>3. ASSUME NEW r \in Requests, FinishUncredited(r) PROVE TypeOK'
  BY <1>3 DEF FinishUncredited, Gone, TypeOK, limiterVars, historyVars
<1>4. ASSUME NEW k \in Keys, Throttle(k) PROVE TypeOK'
  <2>1. /\ Refilled(k) \in Int /\ Refilled(k) <= 0 /\ Store(k, Refilled(k))
        /\ UNCHANGED <<now, requestVars, billed, resets>>
    BY <1>4, RefilledType DEF Throttle
  <2>2. now + RetryAfterSeconds(Refilled(k)) * Second \in Nat
    BY <2>1, RetryAfterCovers DEF TypeOK
  <2>3. retryAt' \in [Keys -> Nat]
    BY <1>4, <2>2 DEF Throttle, Least, TypeOK
  <2>4. QED
    BY <2>1, <2>3, StoreType DEF TypeOK, requestVars
<1>5. CASE Reset
  BY <1>5 DEF Reset, TypeOK, requestVars
<1>6. CASE Tick
  BY <1>6 DEF Tick, TypeOK, limiterVars, requestVars, historyVars
<1>7. CASE UNCHANGED vars
  BY <1>7 DEF vars, TypeOK, limiterVars, requestVars, historyVars
<1>8. QED
  BY <1>1, <1>2, <1>3, <1>4, <1>5, <1>6, <1>7 DEF Next, RequestStep

(* Every variable keeps its type, for every cost a query may be given.       *)
THEOREM TypeCorrect == Spec => []TypeOK
  BY InitType, StepType, PTL DEF Spec

-----------------------------------------------------------------------------
(***************************************************************************)
(* The inductive invariant. RetryAfterSuffices speaks of the moment a client*)
(* comes back; RetryEnough says of any earlier moment that the bucket will  *)
(* be positive by then. BudgetKept refers to the refilled bucket; Balance   *)
(* says it of what is stored. Charged ties a request to its refund.         *)
(***************************************************************************)
Charged ==
  \A r \in Requests : reqCost[r] = 0 \/ \E c \in Costs : reqCost[r] = c * Second

RetryEnough ==
  \A k \in Keys : retryAt[k] > 0 =>
    /\ k \in buckets
    /\ lastRefill[k] <= retryAt[k]
    /\ available[k] + (retryAt[k] - lastRefill[k]) * RestoreRate > 0

Balance ==
  resets = 0 => \A k \in buckets :
    available[k] + billed[k] <= Capacity + (lastRefill[k] - born[k]) * RestoreRate

IInv ==
  TypeOK /\ WithinCapacity /\ OverdraftBounded /\ Charged /\ RetryEnough /\ Balance

LEMMA ChargedIsNatural ==
  ASSUME NonNegativeCosts, TypeOK, Charged, NEW r \in Requests
  PROVE  reqCost[r] \in Nat
<1>1. CASE \E c \in Costs : reqCost[r] = c * Second
  <2>1. PICK c \in Costs : reqCost[r] = c * Second
    BY <1>1
  <2>2. c \in Nat
    BY DEF NonNegativeCosts
  <2>3. c * Second \in Nat
    BY <2>2, BucketAssumption
  <2>4. QED
    BY <2>1, <2>3
<1>2. QED
  BY <1>1 DEF Charged

(* Refilling a bucket adds what was restored since it was last stored, less  *)
(* what does not fit.                                                        *)
LEMMA RefilledBounds ==
  ASSUME TypeOK, WithinCapacity, NEW k \in buckets
  PROVE  /\ Refilled(k) >= available[k]
         /\ Refilled(k) <= available[k] + (now - lastRefill[k]) * RestoreRate
         /\ Refilled(k) <= 0 =>
              Refilled(k) = available[k] + (now - lastRefill[k]) * RestoreRate
<1>1. /\ (now - lastRefill[k]) * RestoreRate \in Int
      /\ (now - lastRefill[k]) * RestoreRate >= 0
  BY Elapse, BoundAssumption, BucketAssumption DEF TypeOK
<1>2. QED
  BY <1>1, CapacityType DEF TypeOK, WithinCapacity, Refilled, Least

LEMMA InitIInv == Init => IInv
<1> SUFFICES ASSUME Init PROVE IInv
  OBVIOUS
<1>1. TypeOK
  BY InitType
<1>2. QED
  BY <1>1 DEF Init, IInv, WithinCapacity, OverdraftBounded, Charged, RetryEnough, Balance

(* The conjuncts about one bucket, after tryConsume stored it: admitted with *)
(* a charge, or refused with none.                                           *)
LEMMA AdmitIInv ==
  ASSUME NonNegativeCosts, IInv, NEW r \in Requests, NEW c \in Costs, Admit(r, c)
  PROVE  WithinCapacity' /\ OverdraftBounded' /\ Charged' /\ RetryEnough' /\ Balance'
<1> USE BucketAssumption, BoundAssumption, CapacityType
<1> DEFINE k == KeyOf[r]
           cost == c * Second
           level == Refilled(k)
<1>1. /\ k \in Keys /\ cost \in Nat /\ level \in Int /\ level <= Capacity /\ level > 0
  <2>1. c \in Nat
    BY DEF NonNegativeCosts
  <2>2. QED
    BY <2>1, RequestAssumption, RefilledType DEF IInv, Admit
<1>2. /\ buckets' = buckets \cup {k}
      /\ available' = [available EXCEPT ![k] = level - cost]
      /\ lastRefill' = [lastRefill EXCEPT ![k] = now]
      /\ born' = IF k \in buckets THEN born ELSE [born EXCEPT ![k] = now]
      /\ reqCost' = [reqCost EXCEPT ![r] = cost]
      /\ billed' = [billed EXCEPT ![k] = (IF k \in buckets THEN billed[k] ELSE 0) + cost]
      /\ retryAt' = [retryAt EXCEPT ![k] = 0]
      /\ resets' = resets
  BY DEF Admit, Store
<1>3. k \in buckets =>
        level + billed[k] <= available[k] + billed[k] + (now - lastRefill[k]) * RestoreRate
  <2>1. k \in buckets => (now - lastRefill[k]) * RestoreRate \in Int
    BY <1>1, Elapse DEF IInv, TypeOK
  <2>2. QED
    BY <1>1, <2>1, RefilledBounds DEF IInv, TypeOK
<1>4. k \notin buckets => level = Capacity
  BY DEF Refilled
<1> HIDE DEF k, cost, level
<1>5. WithinCapacity'
  BY <1>1, <1>2 DEF IInv, TypeOK, WithinCapacity
<1>6. OverdraftBounded'
  <2>1. level - cost > -(c * Second)
    BY <1>1 DEF cost
  <2>2. QED
    BY <1>1, <1>2, <2>1 DEF IInv, TypeOK, OverdraftBounded
<1>7. Charged'
  BY <1>1, <1>2 DEF IInv, TypeOK, Charged, cost
<1>8. RetryEnough'
  BY <1>1, <1>2 DEF IInv, TypeOK, RetryEnough
<1>9. Balance'
  <2> SUFFICES ASSUME resets = 0, NEW l \in buckets'
               PROVE  available'[l] + billed'[l]
                        <= Capacity + (lastRefill'[l] - born'[l]) * RestoreRate
    BY <1>2 DEF Balance
  <2>1. CASE l # k
    BY <2>1, <1>1, <1>2 DEF IInv, TypeOK, Balance
  <2>2. CASE l = k /\ k \notin buckets
    <3>1. (now - now) * RestoreRate = 0
      BY Z3 DEF IInv, TypeOK
    <3>2. QED
      BY <2>2, <1>1, <1>2, <1>4, <3>1 DEF IInv, TypeOK
  <2>3. CASE l = k /\ k \in buckets
    <3>1. available[k] + billed[k] <= Capacity + (lastRefill[k] - born[k]) * RestoreRate
      BY <2>3 DEF IInv, Balance
    <3>2. /\ (now - lastRefill[k]) * RestoreRate + (lastRefill[k] - born[k]) * RestoreRate
               = (now - born[k]) * RestoreRate
          /\ (now - lastRefill[k]) * RestoreRate \in Int
          /\ (lastRefill[k] - born[k]) * RestoreRate \in Int
      BY <1>1, Elapse DEF IInv, TypeOK
    <3>3. level + billed[k] <= Capacity + (now - born[k]) * RestoreRate
      BY <2>3, <1>1, <1>3, <3>1, <3>2 DEF IInv, TypeOK
    <3>4. available'[k] + billed'[k] = level + billed[k]
      BY <2>3, <1>1, <1>2 DEF IInv, TypeOK
    <3>5. lastRefill'[k] = now /\ born'[k] = born[k]
      BY <2>3, <1>1, <1>2 DEF IInv, TypeOK
    <3>6. QED
      BY <2>3, <3>3, <3>4, <3>5
  <2>4. QED
    BY <2>1, <2>2, <2>3
<1>10. QED
  BY <1>5, <1>6, <1>7, <1>8, <1>9

LEMMA ThrottleIInv ==
  ASSUME IInv, NEW k \in Keys, Throttle(k)
  PROVE  WithinCapacity' /\ OverdraftBounded' /\ Charged' /\ RetryEnough' /\ Balance'
<1> USE BucketAssumption, BoundAssumption, CapacityType
<1> DEFINE level == Refilled(k)
           wait == RetryAfterSeconds(level) * Second
<1>1. level \in Int /\ level <= 0 /\ k \in buckets
  BY RefilledType DEF IInv, Throttle, Refilled
<1>2. wait \in Nat \ {0} /\ level + wait * RestoreRate > 0
  BY <1>1, RetryAfterCovers
<1>3. /\ level >= available[k]
      /\ level = available[k] + (now - lastRefill[k]) * RestoreRate
  BY <1>1, RefilledBounds DEF IInv
<1>4. /\ buckets' = buckets
      /\ available' = [available EXCEPT ![k] = level]
      /\ lastRefill' = [lastRefill EXCEPT ![k] = now]
      /\ retryAt' = [retryAt EXCEPT ![k] =
            IF retryAt[k] = 0 THEN now + wait ELSE Least(retryAt[k], now + wait)]
      /\ UNCHANGED <<now, born, reqCost, billed, resets>>
  BY <1>1 DEF Throttle, Store, requestVars
<1> HIDE DEF level, wait
<1>5. WithinCapacity'
  BY <1>1, <1>4 DEF IInv, TypeOK, WithinCapacity
<1>6. OverdraftBounded'
  <2> SUFFICES ASSUME NEW l \in buckets
               PROVE  \E c \in Costs \cup {0} : available'[l] > -(c * Second)
    BY <1>4 DEF OverdraftBounded
  <2>1. PICK c \in Costs \cup {0} : available[l] > -(c * Second)
    BY DEF IInv, OverdraftBounded
  <2>2. c * Second \in Int /\ available'[l] >= available[l]
    BY <1>1, <1>3, <1>4, CostAssumption DEF IInv, TypeOK
  <2>3. available'[l] \in Int /\ available[l] \in Int
    BY <1>1, <1>4 DEF IInv, TypeOK
  <2>4. QED
    BY <2>1, <2>2, <2>3
<1>7. Charged'
  BY <1>4 DEF IInv, Charged
<1>8. RetryEnough'
  <2> SUFFICES ASSUME NEW l \in Keys, retryAt'[l] > 0
               PROVE  /\ l \in buckets
                      /\ lastRefill'[l] <= retryAt'[l]
                      /\ available'[l] + (retryAt'[l] - lastRefill'[l]) * RestoreRate > 0
    BY <1>4 DEF RetryEnough
  <2>1. CASE l # k
    BY <2>1, <1>4 DEF IInv, TypeOK, RetryEnough
  <2>2. CASE l = k /\ retryAt'[k] = now + wait
    <3>1. (now + wait - now) * RestoreRate = wait * RestoreRate
      BY <1>2 DEF IInv, TypeOK
    <3>2. QED
      BY <2>2, <1>1, <1>2, <1>4, <3>1 DEF IInv, TypeOK
  <2>3. CASE l = k /\ retryAt'[k] # now + wait
    <3>1. retryAt[k] > 0 /\ retryAt'[k] = retryAt[k]
      BY <2>3, <1>2, <1>4 DEF IInv, TypeOK, Least
    <3>2. available[k] + (retryAt[k] - lastRefill[k]) * RestoreRate > 0
      BY <3>1 DEF IInv, RetryEnough
    <3>3. /\ (retryAt[k] - now) * RestoreRate + (now - lastRefill[k]) * RestoreRate
               = (retryAt[k] - lastRefill[k]) * RestoreRate
          /\ (retryAt[k] - now) * RestoreRate \in Int
          /\ (now - lastRefill[k]) * RestoreRate \in Int
          /\ now >= retryAt[k] => (now - retryAt[k]) * RestoreRate >= 0
          /\ (now - retryAt[k]) * RestoreRate + (retryAt[k] - now) * RestoreRate
               = (now - now) * RestoreRate
          /\ (now - retryAt[k]) * RestoreRate \in Int
      BY Elapse DEF IInv, TypeOK
    <3>4. level + (retryAt[k] - now) * RestoreRate > 0
      BY <1>1, <1>3, <3>2, <3>3 DEF IInv, TypeOK
    <3>5. now <= retryAt[k]
      <4>1. (now - now) * RestoreRate = 0
        BY DEF IInv, TypeOK
      <4>2. QED
        BY <1>1, <3>3, <3>4, <4>1 DEF IInv, TypeOK
    <3>6. QED
      BY <2>3, <1>1, <1>4, <3>1, <3>4, <3>5 DEF IInv, TypeOK
  <2>4. QED
    BY <2>1, <2>2, <2>3
<1>9. Balance'
  <2> SUFFICES ASSUME resets = 0, NEW l \in buckets
               PROVE  available'[l] + billed[l]
                        <= Capacity + (lastRefill'[l] - born[l]) * RestoreRate
    BY <1>4 DEF Balance
  <2>1. available[l] + billed[l] <= Capacity + (lastRefill[l] - born[l]) * RestoreRate
    BY DEF IInv, Balance
  <2>2. CASE l # k
    BY <2>1, <2>2, <1>4 DEF IInv, TypeOK
  <2>3. CASE l = k
    <3>1. /\ (now - lastRefill[k]) * RestoreRate + (lastRefill[k] - born[k]) * RestoreRate
               = (now - born[k]) * RestoreRate
          /\ (now - lastRefill[k]) * RestoreRate \in Int
          /\ (lastRefill[k] - born[k]) * RestoreRate \in Int
      BY Elapse DEF IInv, TypeOK
    <3>2. available'[k] = level /\ lastRefill'[k] = now
      BY <1>4 DEF IInv, TypeOK
    <3>3. QED
      BY <2>1, <2>3, <1>1, <1>3, <3>1, <3>2 DEF IInv, TypeOK
  <2>4. QED
    BY <2>2, <2>3
<1>10. QED
  BY <1>5, <1>6, <1>7, <1>8, <1>9

(* A refund raises one bucket by at most what it takes off its bill.         *)
LEMMA FinishIInv ==
  ASSUME NonNegativeCosts, IInv, NEW r \in Requests,
         NEW actual \in ActualCosts(reqCost[r]), Finish(r, actual)
  PROVE  WithinCapacity' /\ OverdraftBounded' /\ Charged' /\ RetryEnough' /\ Balance'
<1> USE BucketAssumption, BoundAssumption, CapacityType
<1> DEFINE k == KeyOf[r]
           unused == reqCost[r] - actual
<1>1. k \in Keys /\ unused \in Nat
  BY RequestAssumption, ActualWithinCost, ChargedIsNatural DEF IInv
<1>2. /\ UNCHANGED <<buckets, now, lastRefill, retryAt, born, resets>>
      /\ reqCost' = [reqCost EXCEPT ![r] = 0]
      /\ billed' = IF epoch[r] = resets THEN [billed EXCEPT ![k] = billed[k] - unused]
                   ELSE billed
      /\ available' = IF unused > 0 /\ k \in buckets
                      THEN [available EXCEPT ![k] = Least(Capacity, available[k] + unused)]
                      ELSE available
  BY DEF Finish, Gone, Refund
<1> HIDE DEF k, unused
<1>3. \A l \in buckets :
        /\ available[l] \in Int /\ available'[l] \in Int
        /\ available'[l] >= available[l] /\ available'[l] <= Capacity
        /\ available'[l] <= available[l] + (IF l = k THEN unused ELSE 0)
  BY <1>1, <1>2 DEF IInv, TypeOK, WithinCapacity, Least
<1>4. WithinCapacity'
  BY <1>2, <1>3 DEF WithinCapacity
<1>5. OverdraftBounded'
  <2> SUFFICES ASSUME NEW l \in buckets
               PROVE  \E c \in Costs \cup {0} : available'[l] > -(c * Second)
    BY <1>2 DEF OverdraftBounded
  <2>1. PICK c \in Costs \cup {0} : available[l] > -(c * Second)
    BY DEF IInv, OverdraftBounded
  <2>2. c * Second \in Int
    BY CostAssumption
  <2>3. QED
    BY <1>3, <2>1, <2>2
<1>6. Charged'
  BY <1>2 DEF IInv, TypeOK, Charged
<1>7. RetryEnough'
  <2> SUFFICES ASSUME NEW l \in Keys, retryAt[l] > 0
               PROVE  /\ l \in buckets /\ lastRefill[l] <= retryAt[l]
                      /\ available'[l] + (retryAt[l] - lastRefill[l]) * RestoreRate > 0
    BY <1>2 DEF RetryEnough
  <2>1. /\ l \in buckets /\ lastRefill[l] <= retryAt[l]
        /\ available[l] + (retryAt[l] - lastRefill[l]) * RestoreRate > 0
    BY DEF IInv, RetryEnough
  <2>2. (retryAt[l] - lastRefill[l]) * RestoreRate \in Int
    BY Elapse DEF IInv, TypeOK
  <2>3. QED
    BY <1>3, <2>1, <2>2
<1>8. Balance'
  <2> SUFFICES ASSUME resets = 0, NEW l \in buckets
               PROVE  available'[l] + billed'[l]
                        <= Capacity + (lastRefill[l] - born[l]) * RestoreRate
    BY <1>2 DEF Balance
  <2>1. epoch[r] = resets
    BY DEF IInv, TypeOK
  <2>2. billed'[l] = billed[l] - (IF l = k THEN unused ELSE 0)
    BY <1>1, <1>2, <2>1 DEF IInv, TypeOK
  <2>3. available[l] + billed[l] <= Capacity + (lastRefill[l] - born[l]) * RestoreRate
    BY DEF IInv, Balance
  <2>4. (lastRefill[l] - born[l]) * RestoreRate \in Int
    BY Elapse DEF IInv, TypeOK
  <2>5. QED
    BY <1>1, <1>3, <2>2, <2>3, <2>4 DEF IInv, TypeOK
<1>9. QED
  BY <1>4, <1>5, <1>6, <1>7, <1>8

LEMMA StepIInv ==
  ASSUME NonNegativeCosts, IInv, [Next]_vars
  PROVE  IInv'
<1>1. TypeOK'
  BY StepType DEF IInv
<1>2. WithinCapacity' /\ OverdraftBounded' /\ Charged' /\ RetryEnough' /\ Balance'
  <2>1. CASE \E r \in Requests : \E c \in Costs : Admit(r, c)
    BY <2>1, AdmitIInv
  <2>2. CASE \E r \in Requests : \E a \in ActualCosts(reqCost[r]) : Finish(r, a)
    BY <2>2, FinishIInv
  <2>3. ASSUME NEW r \in Requests, FinishUncredited(r)
        PROVE  WithinCapacity' /\ OverdraftBounded' /\ Charged' /\ RetryEnough' /\ Balance'
    BY <2>3 DEF FinishUncredited, Gone, limiterVars, historyVars, IInv, TypeOK,
                WithinCapacity, OverdraftBounded, Charged, RetryEnough, Balance
  <2>4. CASE \E k \in Keys : Throttle(k)
    BY <2>4, ThrottleIInv
  <2>5. CASE Reset
    BY <2>5, BoundAssumption DEF Reset, requestVars, IInv, TypeOK,
       WithinCapacity, OverdraftBounded, Charged, RetryEnough, Balance
  <2>6. CASE Tick
    BY <2>6 DEF Tick, limiterVars, requestVars, historyVars, IInv,
       WithinCapacity, OverdraftBounded, Charged, RetryEnough, Balance
  <2>7. CASE UNCHANGED vars
    BY <2>7 DEF vars, limiterVars, requestVars, historyVars, IInv,
       WithinCapacity, OverdraftBounded, Charged, RetryEnough, Balance
  <2>8. QED
    BY <2>1, <2>2, <2>3, <2>4, <2>5, <2>6, <2>7 DEF Next, RequestStep
<1>3. QED
  BY <1>1, <1>2 DEF IInv

LEMMA Invariance == ASSUME NonNegativeCosts PROVE Spec => []IInv
<1>1. IInv /\ [Next]_vars => IInv'
  BY StepIInv
<1>2. QED
  BY InitIInv, <1>1, PTL DEF Spec

-----------------------------------------------------------------------------
(* "Each shop (key) has a bucket with a maximum capacity": a bucket never    *)
(* holds more than that, whatever refunds overlap.                           *)
THEOREM CapacityHolds ==
  ASSUME NonNegativeCosts
  PROVE  Spec => []WithinCapacity
<1>1. IInv => WithinCapacity
  BY DEF IInv
<1>2. QED
  BY <1>1, Invariance, PTL

(* A bucket is overdrawn by less than its largest request, however many are  *)
(* admitted before one ends.                                                 *)
THEOREM OverdraftHolds ==
  ASSUME NonNegativeCosts
  PROVE  Spec => []OverdraftBounded
<1>1. IInv => OverdraftBounded
  BY DEF IInv
<1>2. QED
  BY <1>1, Invariance, PTL

(* A throttled client that waits for its Retry-After finds its bucket        *)
(* positive, unless another request of its key was admitted meanwhile.       *)
THEOREM RetryAfterHonoured ==
  ASSUME NonNegativeCosts
  PROVE  Spec => []RetryAfterSuffices
<1>1. ASSUME IInv PROVE RetryAfterSuffices
  <2> SUFFICES ASSUME NEW k \in Keys, retryAt[k] > 0, now >= retryAt[k]
               PROVE  Refilled(k) > 0
    BY DEF RetryAfterSuffices
  <2>1. /\ k \in buckets
        /\ available[k] + (retryAt[k] - lastRefill[k]) * RestoreRate > 0
    BY <1>1 DEF IInv, RetryEnough
  <2>2. /\ (now - retryAt[k]) * RestoreRate + (retryAt[k] - lastRefill[k]) * RestoreRate
             = (now - lastRefill[k]) * RestoreRate
        /\ (now - retryAt[k]) * RestoreRate \in Int
        /\ (now - retryAt[k]) * RestoreRate >= 0
        /\ (retryAt[k] - lastRefill[k]) * RestoreRate \in Int
    BY <1>1, Elapse, BucketAssumption, BoundAssumption DEF IInv, TypeOK
  <2>3. available[k] + (now - lastRefill[k]) * RestoreRate > 0
    BY <1>1, <2>1, <2>2 DEF IInv, TypeOK
  <2>4. QED
    BY <2>1, <2>3, CapacityType DEF Refilled, Least
<1>2. QED
  BY <1>1, Invariance, PTL

(* Without a reset, what a bucket holds and what its requests were charged   *)
(* came from its filling and the restore rate: no refund creates points.     *)
THEOREM NoFreePoints ==
  ASSUME NonNegativeCosts
  PROVE  Spec => []BudgetKept
<1>1. ASSUME IInv PROVE BudgetKept
  <2> SUFFICES ASSUME resets = 0, NEW k \in buckets
               PROVE  Refilled(k) + billed[k] <= Capacity + (now - born[k]) * RestoreRate
    BY DEF BudgetKept, RefillsAtFixedRate
  <2>1. available[k] + billed[k] <= Capacity + (lastRefill[k] - born[k]) * RestoreRate
    BY <1>1 DEF IInv, Balance
  <2>2. Refilled(k) <= available[k] + (now - lastRefill[k]) * RestoreRate
    BY <1>1, RefilledBounds DEF IInv
  <2>3. /\ (now - lastRefill[k]) * RestoreRate + (lastRefill[k] - born[k]) * RestoreRate
             = (now - born[k]) * RestoreRate
        /\ (now - lastRefill[k]) * RestoreRate \in Int
        /\ (lastRefill[k] - born[k]) * RestoreRate \in Int
    BY <1>1, Elapse, BucketAssumption, BoundAssumption DEF IInv, TypeOK
  <2>4. Refilled(k) \in Int
    BY <1>1, RefilledType DEF IInv, TypeOK
  <2>5. QED
    BY <1>1, <2>1, <2>2, <2>3, <2>4, CapacityType DEF IInv, TypeOK
<1>2. QED
  BY <1>1, Invariance, PTL

-----------------------------------------------------------------------------
(* The refinement. Storing a refilled bucket does not change its budget, a   *)
(* refund that does not refill first commutes with the refill, and a tick    *)
(* restores every budget by the rate.                                        *)

(* Capping before and after an addition is capping once.                     *)
LEMMA CappedOnce ==
  ASSUME NEW a \in Int, NEW e \in Nat, NEW p \in Nat
  PROVE  /\ Least(Capacity, Least(Capacity, a + p) + e)
               = Policy!Capped(Least(Capacity, a + e) + p)
         /\ Least(Capacity, a + (p + e)) = Policy!Capped(Least(Capacity, a + e) + p)
  BY CapacityType DEF Least, Policy!Capped

LEMMA StoredBudget ==
  ASSUME TypeOK, NEW k \in Keys, NEW level \in Int, level <= Capacity,
         Store(k, level), now' = now
  PROVE  \A l \in Keys : Refilled(l)' = IF l = k THEN level ELSE Refilled(l)
<1> USE CapacityType
<1>1. (now - now) * RestoreRate = 0
  BY BucketAssumption DEF TypeOK
<1>2. ASSUME NEW l \in Keys, l = k PROVE Refilled(l)' = level
  BY <1>1, <1>2 DEF Store, TypeOK, Refilled, Least
<1>3. ASSUME NEW l \in Keys, l # k PROVE Refilled(l)' = Refilled(l)
  BY <1>3 DEF Store, TypeOK, Refilled
<1>4. QED
  BY <1>2, <1>3

LEMMA RefundedBudget ==
  ASSUME TypeOK, NEW k \in Keys, NEW points \in Nat, Refund(k, points), now' = now
  PROVE  \A l \in Keys :
           Refilled(l)' = IF l = k THEN Policy!Capped(Refilled(l) + points) ELSE Refilled(l)
<1> USE CapacityType
<1>1. \A l \in Keys : (now - lastRefill[l]) * RestoreRate \in Int
                      /\ (now - lastRefill[l]) * RestoreRate >= 0
  BY Elapse, BucketAssumption, BoundAssumption DEF TypeOK
<1>2. \A l \in Keys : Refilled(l) \in Int /\ Refilled(l) <= Capacity
  BY RefilledType
<1>3. ASSUME NEW l \in Keys, l # k PROVE Refilled(l)' = Refilled(l)
  BY <1>3 DEF Refund, TypeOK, Refilled
<1>4. Refilled(k)' = Policy!Capped(Refilled(k) + points)
  <2>1. CASE k \notin buckets
    BY <2>1 DEF Refund, TypeOK, Refilled, Policy!Capped
  <2>2. CASE k \in buckets /\ points = 0
    <3>1. Refilled(k)' = Refilled(k)
      BY <2>2 DEF Refund, Refilled
    <3>2. Policy!Capped(Refilled(k) + 0) = Refilled(k)
      BY <1>2 DEF Policy!Capped
    <3>3. QED
      BY <2>2, <3>1, <3>2
  <2>3. CASE k \in buckets /\ points > 0
    <3>1. available'[k] = Least(Capacity, available[k] + points)
      BY <2>3 DEF Refund, TypeOK
    <3>2. Refilled(k)' = Least(Capacity, available'[k] + (now - lastRefill[k]) * RestoreRate)
      BY <2>3 DEF Refund, Refilled
    <3>3. Refilled(k) = Least(Capacity, available[k] + (now - lastRefill[k]) * RestoreRate)
      BY <2>3 DEF Refilled
    <3>4. QED
      BY <1>1, <3>1, <3>2, <3>3, CappedOnce DEF TypeOK
  <2>4. QED
    BY <2>1, <2>2, <2>3
<1>5. QED
  BY <1>3, <1>4

LEMMA TickedBudget ==
  ASSUME TypeOK, WithinCapacity, Tick
  PROVE  \A k \in Keys : Refilled(k)' = Policy!Capped(Refilled(k) + RestoreRate)
<1> USE CapacityType, BucketAssumption, BoundAssumption
<1> SUFFICES ASSUME NEW k \in Keys
             PROVE  Refilled(k)' = Policy!Capped(Refilled(k) + RestoreRate)
  OBVIOUS
<1>1. CASE k \notin buckets
  BY <1>1 DEF Tick, limiterVars, Refilled, Policy!Capped
<1>2. CASE k \in buckets
  <2>1. /\ ((now + 1) - now) * RestoreRate + (now - lastRefill[k]) * RestoreRate
             = ((now + 1) - lastRefill[k]) * RestoreRate
        /\ (now - lastRefill[k]) * RestoreRate \in Int
    BY Elapse DEF TypeOK
  <2>2. ((now + 1) - now) * RestoreRate = RestoreRate
    BY DEF TypeOK
  <2>3. Refilled(k) = Least(Capacity, available[k] + (now - lastRefill[k]) * RestoreRate)
    BY <1>2 DEF Refilled
  <2>4. Refilled(k)' = Least(Capacity, available[k] + ((now + 1) - lastRefill[k]) * RestoreRate)
    BY <1>2 DEF Tick, limiterVars, Refilled
  <2>5. available[k] \in Int /\ (now - lastRefill[k]) * RestoreRate \in Nat
    BY Elapse DEF TypeOK
  <2>6. Refilled(k)' =
          Least(Capacity, available[k] + (RestoreRate + (now - lastRefill[k]) * RestoreRate))
    BY <2>1, <2>2, <2>4
  <2>7. QED
    BY <2>3, <2>5, <2>6, CappedOnce
<1>3. QED
  BY <1>1, <1>2

LEMMA PolicyInit == Init => Policy!Init
  BY DEF Init, Policy!Init, Refilled

LEMMA PolicyStep ==
  ASSUME NonNegativeCosts, IInv, [Next]_vars
  PROVE  [Policy!Next]_(Policy!vars)
<1> USE CapacityType, BucketAssumption DEF Policy!vars
<1>0. TypeOK /\ \A k \in Keys : Refilled(k) \in Int
  BY RefilledType DEF IInv
<1>1. ASSUME NEW r \in Requests, NEW c \in Costs, Admit(r, c)
      PROVE  Policy!Next
  <2> DEFINE k == KeyOf[r]
  <2>1. c * Second \in Nat /\ k \in Keys
    BY RequestAssumption, BucketAssumption DEF NonNegativeCosts
  <2>2. c * Second \in Amounts
    BY <2>1 DEF Amounts
  <2>3. /\ Store(k, Refilled(k) - c * Second) /\ now' = now
        /\ Refilled(k) > 0 /\ Refilled(k) - c * Second <= Capacity
    BY <1>1, <1>0, <2>1, RefilledType DEF Admit
  <2> HIDE DEF k
  <2>4. \A l \in Keys : Refilled(l)' =
          IF l = k THEN Refilled(k) - c * Second ELSE Refilled(l)
    BY <1>0, <2>1, <2>3, StoredBudget
  <2>5. Policy!Admit(k, c * Second)
    BY <2>1, <2>3, <2>4 DEF Policy!Admit
  <2>6. QED
    BY <2>1, <2>2, <2>5 DEF Policy!Next
<1>2. ASSUME NEW r \in Requests, NEW a \in ActualCosts(reqCost[r]), Finish(r, a)
      PROVE  Policy!Next \/ UNCHANGED Policy!vars
  <2> DEFINE k == KeyOf[r]
             unused == reqCost[r] - a
  <2>1. k \in Keys /\ unused \in Nat /\ unused <= reqCost[r]
    BY RequestAssumption, ActualWithinCost, ChargedIsNatural DEF IInv
  <2>2. Refund(k, unused) /\ now' = now
    BY <1>2 DEF Finish
  <2> HIDE DEF k, unused
  <2>3. \A l \in Keys : Refilled(l)' =
          IF l = k THEN Policy!Capped(Refilled(k) + unused) ELSE Refilled(l)
    BY <1>0, <2>1, <2>2, RefundedBudget
  <2>4. Policy!Credit(k, unused)
    BY <2>1, <2>2, <2>3 DEF Policy!Credit
  <2>5. CASE reqCost[r] = 0
    <3>1. unused = 0
      BY <2>1, <2>5
    <3>2. Policy!Capped(Refilled(k) + 0) = Refilled(k)
      BY <1>0, <2>1, RefilledType DEF Policy!Capped
    <3>3. QED
      BY <2>1, <2>2, <2>3, <3>1, <3>2
  <2>6. CASE reqCost[r] # 0
    <3>1. PICK c \in Costs : reqCost[r] = c * Second
      BY <2>6 DEF IInv, Charged
    <3>2. unused \in Amounts
      BY <2>1, <3>1 DEF Amounts
    <3>3. QED
      BY <2>1, <2>4, <3>2 DEF Policy!Next
  <2>7. QED
    BY <2>5, <2>6
<1>3. ASSUME NEW r \in Requests, FinishUncredited(r) PROVE UNCHANGED Policy!vars
  BY <1>3 DEF FinishUncredited, limiterVars, Refilled
<1>4. ASSUME NEW k \in Keys, Throttle(k) PROVE UNCHANGED Policy!vars
  <2>1. Store(k, Refilled(k)) /\ now' = now
    BY <1>4 DEF Throttle
  <2>2. QED
    BY <1>0, <2>1, StoredBudget, RefilledType
<1>5. CASE Reset
  BY <1>5 DEF Reset, Refilled, Policy!Next, Policy!Forgive
<1>6. CASE Tick
  BY <1>6, TickedBudget DEF IInv, Tick, Policy!Next, Policy!Tick
<1>7. CASE UNCHANGED vars
  BY <1>7 DEF vars, limiterVars, Refilled
<1>8. QED
  BY <1>1, <1>2, <1>3, <1>4, <1>5, <1>6, <1>7 DEF Next, RequestStep

(* The buckets, refilled only when a request looks at them, implement the    *)
(* budgets of ThrottlePolicy, restored at every tick.                        *)
THEOREM LazyRefillIsEager ==
  ASSUME NonNegativeCosts
  PROVE  Spec => ImplementsPolicy
<1>1. IInv /\ [Next]_vars => [Policy!Next]_(Policy!vars)
  BY PolicyStep
<1>2. QED
  BY PolicyInit, <1>1, Invariance, PTL DEF Spec, ImplementsPolicy, Policy!Spec

=============================================================================
