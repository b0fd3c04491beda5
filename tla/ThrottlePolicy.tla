--------------------------- MODULE ThrottlePolicy ---------------------------
(***************************************************************************)
(* What a throttled API promises its clients: every key has a budget that is*)
(* restored by Rate in every instant and never exceeds Capacity, a request  *)
(* is admitted while the budget is positive and may overdraw it, and points *)
(* can be credited back. Here the budget is restored eagerly, at each tick: *)
(* LeakyBucket stores it lazily and is shown to implement this module.      *)
(***************************************************************************)
EXTENDS Integers

CONSTANTS Keys, Capacity, Rate,
  Amounts   \* what can be charged or credited at once

VARIABLES now, budget

vars == <<now, budget>>

Capped(n) == IF n < Capacity THEN n ELSE Capacity

Init ==
  /\ now = 0
  /\ budget = [k \in Keys |-> Capacity]

Tick ==
  /\ now' = now + 1
  /\ budget' = [k \in Keys |-> Capped(budget[k] + Rate)]

Admit(k, cost) ==
  /\ budget[k] > 0
  /\ budget' = [budget EXCEPT ![k] = @ - cost]
  /\ UNCHANGED now

Credit(k, points) ==
  /\ budget' = [budget EXCEPT ![k] = Capped(@ + points)]
  /\ UNCHANGED now

(* Every key starts afresh. *)
Forgive ==
  /\ budget' = [k \in Keys |-> Capacity]
  /\ UNCHANGED now

Next ==
  \/ Tick
  \/ \E k \in Keys, n \in Amounts : Admit(k, n) \/ Credit(k, n)
  \/ Forgive

Spec == Init /\ [][Next]_vars

=============================================================================
