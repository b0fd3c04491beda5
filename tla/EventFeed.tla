------------------------------ MODULE EventFeed ------------------------------
(***************************************************************************)
(* What a subscriber may rely on: an event is announced once, to a set of   *)
(* subscriptions that is fixed then, and each of those is posted to exactly *)
(* once; nobody else is.                                                    *)
(***************************************************************************)
EXTENDS Integers

CONSTANTS Events, Apps

VARIABLES
  announced,  \* the events that were announced
  owed,       \* the subscriptions that an event is still to be posted to
  posts       \* how often an event was posted to a subscription

vars == <<announced, owed, posts>>

Init ==
  /\ announced = {}
  /\ owed = [e \in Events |-> {}]
  /\ posts = [e \in Events |-> [a \in Apps |-> 0]]

Once(S) == [a \in Apps |-> IF a \in S THEN 1 ELSE 0]

(* The first post may leave together with the announcement. *)
Announced(e) ==
  /\ e \notin announced /\ e \in announced'
  /\ posts[e] = Once({})
  /\ \/ posts'[e] = Once({})
     \/ \E a \in Apps : a \notin owed'[e] /\ posts'[e] = Once({a})

Posted(e) ==
  /\ e \in announced /\ e \in announced'
  /\ \E a \in owed[e] : /\ posts[e][a] = 0
                        /\ owed'[e] = owed[e] \ {a}
                        /\ posts'[e] = [posts[e] EXCEPT ![a] = 1]

Same(e) ==
  /\ e \in announced <=> e \in announced'
  /\ owed'[e] = owed[e]
  /\ posts'[e] = posts[e]

(* One step may announce several events. *)
Next == \A e \in Events : Announced(e) \/ Posted(e) \/ Same(e)

Spec == Init /\ [][Next]_vars

=============================================================================
