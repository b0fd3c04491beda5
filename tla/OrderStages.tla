----------------------------- MODULE OrderStages ----------------------------
(***************************************************************************)
(* The life of an order as order-lifecycle.ts announces it: an order is     *)
(* placed open, a fulfillment makes it fulfilled, and it may be closed once *)
(* it is fulfilled and its payment is complete. It never goes back; only    *)
(* resetting the twin makes orders disappear, all of them at once.          *)
(***************************************************************************)
CONSTANT Orders

VARIABLES
  stage,    \* the stage of an order
  settled   \* the orders placed with a complete payment

vars == <<stage, settled>>

Init ==
  /\ stage = [o \in Orders |-> "absent"]
  /\ settled = {}

Place(o) ==
  /\ stage[o] = "absent"
  /\ stage' = [stage EXCEPT ![o] = "open"]
  /\ settled' = settled \/ settled' = settled \cup {o}

Fulfil(o) ==
  /\ stage[o] = "open"
  /\ stage' = [stage EXCEPT ![o] = "fulfilled"]
  /\ UNCHANGED settled

Close(o) ==
  /\ stage[o] = "fulfilled"
  /\ o \in settled
  /\ stage' = [stage EXCEPT ![o] = "closed"]
  /\ UNCHANGED settled

Forget == Init'

Next == (\E o \in Orders : Place(o) \/ Fulfil(o) \/ Close(o)) \/ Forget

Spec == Init /\ [][Next]_vars

=============================================================================
