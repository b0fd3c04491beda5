--------------------------- MODULE MCWebhookQueue ---------------------------
(* Small instances of WebhookQueue for TLC. *)
EXTENDS WebhookQueue

(* An immediate first attempt, an immediate retry, then a timed one. *)
ThreeDelays == <<0, 0, 5>>

(* The smallest queue with a timed retry. *)
TwoDelays == <<0, 1>>

=============================================================================
