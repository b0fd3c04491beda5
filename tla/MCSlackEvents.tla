---------------------------- MODULE MCSlackEvents ----------------------------
(* Small instances of SlackEvents for TLC. *)
EXTENDS SlackEvents, TLC

CONSTANTS m1, m2, alice, bot, general, random, a1, a2

(* A message of a user that mentions the bot, and a follow-up of the bot in  *)
(* the same channel.                                                         *)
Places == (m1 :> general) @@ (m2 :> general)
Authors == (m1 :> alice) @@ (m2 :> bot)

(* One subscription to everything, one to messages. *)
Wishes == (a1 :> {"*"}) @@ (a2 :> {"message"})

=============================================================================
