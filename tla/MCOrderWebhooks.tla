-------------------------- MODULE MCOrderWebhooks ---------------------------
(* Small instances of OrderWebhooks for TLC. *)
EXTENDS OrderWebhooks, TLC

CONSTANTS s1, s2, s3

(* Two subscribers of orders/update, one of fulfillments/create. *)
TopicAssignment == (s1 :> "orders/update") @@ (s2 :> "orders/update") @@ (s3 :> "fulfillments/create")

=============================================================================
