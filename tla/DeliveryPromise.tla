--------------------------- MODULE DeliveryPromise ---------------------------
(***************************************************************************)
(* What a webhook queue promises about each job, without its timers, its    *)
(* map and its store: a job that was accepted is owed at most MaxTries      *)
(* POSTs, ends delivered, dead (only after all its tries) or gone (given up *)
(* on purpose), and never comes back. A job given up while a POST is in the *)
(* air is orphaned: that POST may still settle it, and no other is sent.    *)
(***************************************************************************)
EXTENDS Integers

CONSTANTS Jobs, MaxTries

VARIABLES status, tries

Status == {"new", "owed", "orphaned", "delivered", "dead", "gone"}

Init ==
  /\ status = [j \in Jobs |-> "new"]
  /\ tries = [j \in Jobs |-> 0]

Moves(j, from, to) == status[j] \in from /\ status'[j] = to

Keeps(j) == tries'[j] = tries[j]

(* The job is accepted, and its first POST may leave at once. *)
Accepted(j) ==
  /\ Moves(j, {"new"}, "owed")
  /\ tries'[j] \in 0..1

(* One more POST for a job that is still owed one. *)
Tried(j) ==
  /\ Moves(j, {"owed"}, "owed")
  /\ tries[j] < MaxTries
  /\ tries'[j] = tries[j] + 1

Delivered(j) == Moves(j, {"owed", "orphaned"}, "delivered") /\ tries[j] > 0 /\ Keeps(j)

Died(j) == Moves(j, {"owed", "orphaned"}, "dead") /\ tries[j] = MaxTries /\ Keeps(j)

GivenUp(j) == Moves(j, {"owed"}, "orphaned") /\ tries[j] > 0 /\ Keeps(j)

Dropped(j) == Moves(j, {"owed", "orphaned", "dead"}, "gone") /\ Keeps(j)

Idle(j) == status'[j] = status[j] /\ Keeps(j)

(* Jobs are independent, and one step may move several of them. *)
Next ==
  \A j \in Jobs :
    \/ Accepted(j) \/ Tried(j) \/ Delivered(j) \/ Died(j)
    \/ GivenUp(j) \/ Dropped(j) \/ Idle(j)

Spec == Init /\ [][Next]_<<status, tries>>

=============================================================================
