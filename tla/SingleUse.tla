------------------------------ MODULE SingleUse ------------------------------
(***************************************************************************)
(* What an authorization code promises, whichever twin issued it: it is     *)
(* issued once, it can be redeemed once, and a code that was redeemed or    *)
(* lost is never good again.                                                *)
(***************************************************************************)
EXTENDS Naturals

CONSTANT Codes

VARIABLES
  phase, \* what has become of each code
  grants \* how often each code was exchanged for tokens

codeVars == <<phase, grants>>

Init ==
  /\ phase  = [c \in Codes |-> "unissued"]
  /\ grants = [c \in Codes |-> 0]

Issue(c) ==
  /\ phase[c] = "unissued"
  /\ phase' = [phase EXCEPT ![c] = "open"]
  /\ UNCHANGED grants

Redeem(c) ==
  /\ phase[c] = "open"
  /\ phase'  = [phase EXCEPT ![c] = "spent"]
  /\ grants' = [grants EXCEPT ![c] = @ + 1]

\* A crash, a reset or the age of the codes makes some of them worthless.
Lose(lost) ==
  /\ \A c \in lost : phase[c] = "open"
  /\ phase' = [c \in Codes |-> IF c \in lost THEN "lost" ELSE phase[c]]
  /\ UNCHANGED grants

Next ==
  \/ \E c \in Codes : Issue(c) \/ Redeem(c)
  \/ \E lost \in SUBSET Codes : Lose(lost)

Spec == Init /\ [][Next]_codeVars
=============================================================================
