--------------------------- MODULE OrderWebhooks ----------------------------
(***************************************************************************)
(* The order mutations of the Shopify twin (orderCreate, orderUpdate,       *)
(* orderClose, fulfillmentCreate) and the fan-out of each change to the     *)
(* webhook subscriptions of its topic.                                      *)
(*                                                                          *)
(* A resolver runs alone on the event loop until it awaits: busy names the  *)
(* handler that runs, and only a handler that awaits lets others in. It     *)
(* awaits enqueue() for every subscription, which in sync mode waits for    *)
(* the HTTP POST and otherwise only for its turn, and enqueueWebhooks() for *)
(* every topic. The statements of one mutation are not a transaction: a     *)
(* crash may fall between two of them, so they are steps of their own.      *)
(***************************************************************************)
EXTENDS Integers, Sequences, FiniteSets

CONSTANTS
  Orders,       \* the rows that the table of orders may hold
  Handlers,     \* GraphQL mutations that may be in progress
  Subscribers,  \* webhook subscriptions that may be created
  TopicOf,      \* the topic of a subscription
  None,         \* no handler
  MaxCrashes,   \* bound on the number of crashes
  MaxResets     \* bound on the number of POST /admin/reset

TopicNames == {"orders/create", "orders/update", "fulfillments/create"}

ASSUME NoneAssumption == None \notin Handlers
ASSUME TopicAssumption == TopicOf \in [Subscribers -> TopicNames]
ASSUME BoundAssumption == MaxCrashes \in Nat /\ MaxResets \in Nat

VARIABLES
  syncMode,      \* WebhookQueueOptions.syncMode, chosen once
  persistent,    \* DB_PATH names a file (TRUE) or is ':memory:' (FALSE), chosen once
  row,           \* "absent", "temp" (inserted, gid not canonical yet) or "canonical"
  fulfilled,     \* the orders whose display_fulfillment_status is FULFILLED
  complete,      \* the orders whose financial status is PAID or a refund
  closed,        \* the orders with a closed_at
  fulfillments,  \* how many rows of fulfillments refer to an order
  subscribed,    \* the rows of webhook_subscriptions
  busy,          \* the handler on the event loop, or None
  pc,            \* where a handler is
  target,        \* the order a handler works on
  topics,        \* the topics a handler has still to fan out
  rest,          \* the subscriptions a handler's fan-out has still to serve
  due,           \* history: the events a committed change owes
  announced,     \* history: the events that reached enqueue()
  crashes,       \* how many crashes have happened
  resets         \* how many resets have happened

tableVars   == <<row, fulfilled, complete, closed, fulfillments, subscribed>>
handlerVars == <<busy, pc, target, topics, rest>>
historyVars == <<due, announced>>
modeVars    == <<syncMode, persistent>>
boundVars   == <<modeVars, crashes, resets>>
vars == <<tableVars, handlerVars, historyVars, boundVars>>

(* Where a handler is while it is not on the event loop: it has no mutation, *)
(* or it awaits enqueue(), or the end of the first of two fan-outs.          *)
Off == {"idle", "enqueue", "between"}

Places == Off \cup {"setGid", "setFulfilled", "fanOut", "deliver"}

Init ==
  /\ syncMode     \in BOOLEAN
  /\ persistent   \in BOOLEAN
  /\ row          = [o \in Orders |-> "absent"]
  /\ fulfilled    = {}
  /\ complete     = {}
  /\ closed       = {}
  /\ fulfillments = [o \in Orders |-> 0]
  /\ subscribed   = {}
  /\ busy         = None
  /\ pc           = [h \in Handlers |-> "idle"]
  /\ target       \in [Handlers -> Orders]
  /\ topics       = [h \in Handlers |-> <<>>]
  /\ rest         = [h \in Handlers |-> {}]
  /\ due          = {}
  /\ announced    = {}
  /\ crashes      = 0
  /\ resets       = 0

-----------------------------------------------------------------------------
(* The mutations: one step per SQL statement that changes a table. *)

(* order-lifecycle.ts: which transitions of an order are allowed.            *)
ValidFulfillment(o) == o \notin closed /\ o \notin fulfilled

(* A slip: the financial status is not looked at. *)
PaidOrNot(o) == o \notin closed /\ o \in fulfilled

ValidClose(o) == o \notin closed /\ o \in fulfilled /\ o \in complete

(* A handler is started on an order when the event loop is free. *)
Start(h, o, place) ==
  /\ busy = None /\ pc[h] = "idle"
  /\ busy' = h
  /\ target' = [target EXCEPT ![h] = o]
  /\ pc' = [pc EXCEPT ![h] = place]
  /\ UNCHANGED rest

(* The change is committed and is to be announced under these topics.        *)
Announce(h, o, ts) ==
  /\ topics' = [topics EXCEPT ![h] = ts]
  /\ due' = due \cup {<<o, s>> : s \in {s \in subscribed : \E i \in DOMAIN ts : TopicOf[s] = ts[i]}}
  /\ UNCHANGED announced

(* orderCreate: the row is inserted under a temporary gid ...                *)
CreateInsert(h, o) ==
  /\ row[o] = "absent"
  /\ row' = [row EXCEPT ![o] = "temp"]
  /\ complete' \in {complete, complete \cup {o}}
  /\ Start(h, o, "setGid")
  /\ UNCHANGED <<fulfilled, closed, fulfillments, subscribed, topics, historyVars, boundVars>>

(* ... and updated to the gid made of its row id.                            *)
CreateSetGid(h) ==
  /\ busy = h /\ pc[h] = "setGid"
  /\ row' = [row EXCEPT ![target[h]] = "canonical"]
  /\ pc' = [pc EXCEPT ![h] = "fanOut"]
  /\ Announce(h, target[h], <<"orders/create">>)
  /\ UNCHANGED <<fulfilled, complete, closed, fulfillments, subscribed, busy, target, rest,
                 boundVars>>

(* orderUpdate: the columns it writes do not matter here.                    *)
UpdateOrder(h, o) ==
  /\ row[o] = "canonical"
  /\ Start(h, o, "fanOut")
  /\ Announce(h, o, <<"orders/update">>)
  /\ UNCHANGED <<tableVars, boundVars>>

(* A slip: the resolver awaits between its check and its writes.             *)
FulfilAwaits(h, o) ==
  /\ row[o] = "canonical"
  /\ ValidFulfillment(o)
  /\ busy = None /\ pc[h] = "idle"
  /\ fulfillments' = [fulfillments EXCEPT ![o] = @ + 1]
  /\ target' = [target EXCEPT ![h] = o]
  /\ pc' = [pc EXCEPT ![h] = "setFulfilled"]
  /\ UNCHANGED <<row, fulfilled, complete, closed, subscribed, busy, topics, rest, historyVars,
                 boundVars>>

(* fulfillmentCreate: validateFulfillment, then the fulfillment is inserted ...*)
FulfilInsert(h, o) ==
  /\ row[o] = "canonical"
  /\ ValidFulfillment(o)
  /\ fulfillments' = [fulfillments EXCEPT ![o] = @ + 1]
  /\ Start(h, o, "setFulfilled")
  /\ UNCHANGED <<row, fulfilled, complete, closed, subscribed, topics, historyVars, boundVars>>

(* ... and the order is marked. Two fan-outs follow.                         *)
FulfilSet(h) ==
  /\ busy = h /\ pc[h] = "setFulfilled"
  /\ fulfilled' = fulfilled \cup {target[h]}
  /\ pc' = [pc EXCEPT ![h] = "fanOut"]
  /\ Announce(h, target[h], <<"fulfillments/create", "orders/update">>)
  /\ UNCHANGED <<row, complete, closed, fulfillments, subscribed, busy, target, rest, boundVars>>

(* orderClose: validateClose, then one UPDATE.                               *)
CloseOrder(h, o) ==
  /\ row[o] = "canonical"
  /\ ValidClose(o)
  /\ closed' = closed \cup {o}
  /\ Start(h, o, "fanOut")
  /\ Announce(h, o, <<"orders/update">>)
  /\ UNCHANGED <<row, fulfilled, complete, fulfillments, subscribed, boundVars>>

-----------------------------------------------------------------------------
(* enqueueWebhooks. *)

Matching(topic) == {s \in subscribed : TopicOf[s] = topic}

(* A slip: find instead of filter.                                           *)
FanOutFirst(h) ==
  /\ busy = h /\ pc[h] = "fanOut"
  /\ rest' \in [Handlers -> SUBSET Subscribers]
  /\ \A g \in Handlers \ {h} : rest'[g] = rest[g]
  /\ rest'[h] \subseteq Matching(Head(topics[h]))
  /\ Cardinality(rest'[h]) = (IF Matching(Head(topics[h])) = {} THEN 0 ELSE 1)
  /\ topics' = [topics EXCEPT ![h] = Tail(@)]
  /\ pc' = [pc EXCEPT ![h] = "deliver"]
  /\ UNCHANGED <<tableVars, busy, target, historyVars, boundVars>>

(* A slip: the topic is not taken off the list.                              *)
FanOutAgain(h) ==
  /\ busy = h /\ pc[h] = "fanOut"
  /\ rest' = [rest EXCEPT ![h] = Matching(Head(topics[h]))]
  /\ pc' = [pc EXCEPT ![h] = "deliver"]
  /\ UNCHANGED <<tableVars, busy, target, topics, historyVars, boundVars>>

(* The subscriptions are listed anew for every topic.                        *)
FanOut(h) ==
  /\ busy = h /\ pc[h] = "fanOut"
  /\ rest' = [rest EXCEPT ![h] = Matching(Head(topics[h]))]
  /\ topics' = [topics EXCEPT ![h] = Tail(@)]
  /\ pc' = [pc EXCEPT ![h] = "deliver"]
  /\ UNCHANGED <<tableVars, busy, target, historyVars, boundVars>>

(* One turn of the loop. The order of the list is created_at, which leaves   *)
(* open how rows of the same second are ordered. The handler leaves the      *)
(* event loop until enqueue() is done.                                       *)
Deliver(h, s) ==
  /\ busy = h /\ pc[h] = "deliver" /\ s \in rest[h]
  /\ rest' = [rest EXCEPT ![h] = @ \ {s}]
  /\ announced' = announced \cup {<<target[h], s>>}
  /\ busy' = None
  /\ pc' = [pc EXCEPT ![h] = "enqueue"]
  /\ UNCHANGED <<tableVars, target, topics, due, boundVars>>

(* The loop is over: the mutation is answered, or its next topic waits for   *)
(* its turn.                                                                 *)
LoopEnds(h) ==
  /\ busy = h /\ pc[h] = "deliver" /\ rest[h] = {}
  /\ busy' = None
  /\ pc' = [pc EXCEPT ![h] = IF topics[h] = <<>> THEN "idle" ELSE "between"]
  /\ UNCHANGED <<tableVars, target, topics, rest, historyVars, boundVars>>

(* What the handler awaits is done: the delivery is in the queue, or its POST*)
(* has succeeded.                                                            *)
Continue(h) ==
  /\ busy = None
  /\ \/ pc[h] = "enqueue" /\ pc' = [pc EXCEPT ![h] = "deliver"]
     \/ pc[h] = "between" /\ pc' = [pc EXCEPT ![h] = "fanOut"]
  /\ busy' = h
  /\ UNCHANGED <<tableVars, target, topics, rest, historyVars, boundVars>>

(* The POST of sync mode fails: enqueue throws through the loop and the      *)
(* mutation answers with an error, although its change is committed.         *)
PostFails(h) ==
  /\ syncMode
  /\ busy = None /\ pc[h] = "enqueue"
  /\ pc' = [pc EXCEPT ![h] = "idle"]
  /\ rest' = [rest EXCEPT ![h] = {}]
  /\ topics' = [topics EXCEPT ![h] = <<>>]
  /\ UNCHANGED <<tableVars, busy, target, historyVars, boundVars>>

-----------------------------------------------------------------------------
(* The environment: subscriptions, resets, crashes. *)

Subscribe(s) ==
  /\ busy = None
  /\ s \notin subscribed
  /\ subscribed' = subscribed \cup {s}
  /\ UNCHANGED <<row, fulfilled, complete, closed, fulfillments, handlerVars, historyVars,
                 boundVars>>

(* The tables of a database that was dropped. *)
EmptyTables ==
  /\ row' = [o \in Orders |-> "absent"]
  /\ fulfilled' = {} /\ complete' = {} /\ closed' = {}
  /\ fulfillments' = [o \in Orders |-> 0]
  /\ subscribed' = {}
  /\ due' = {} /\ announced' = {}

(* POST /admin/reset closes the database and opens it again: only ':memory:' *)
(* is empty afterwards. Handlers that await go on with the lists they hold.  *)
Reset ==
  /\ busy = None
  /\ resets < MaxResets
  /\ resets' = resets + 1
  /\ \/ ~persistent /\ EmptyTables
     \/ persistent /\ UNCHANGED <<tableVars, historyVars>>
  /\ UNCHANGED <<handlerVars, modeVars, crashes>>

(* The process dies, between any two statements, and starts again.           *)
Crash ==
  /\ crashes < MaxCrashes
  /\ crashes' = crashes + 1
  /\ busy' = None
  /\ pc' = [h \in Handlers |-> "idle"]
  /\ topics' = [h \in Handlers |-> <<>>]
  /\ rest' = [h \in Handlers |-> {}]
  /\ \/ ~persistent /\ EmptyTables
     \/ persistent /\ UNCHANGED <<tableVars, historyVars>>
  /\ UNCHANGED <<target, modeVars, resets>>

-----------------------------------------------------------------------------
MutationStep(h, o) ==
  \/ CreateInsert(h, o)
  \/ UpdateOrder(h, o)
  \/ FulfilInsert(h, o)
  \/ CloseOrder(h, o)

Resume(h) ==
  \/ CreateSetGid(h)
  \/ FulfilSet(h)
  \/ FanOut(h)
  \/ \E s \in Subscribers : Deliver(h, s)
  \/ LoopEnds(h)

Answer(h) == Continue(h) \/ PostFails(h)

Next ==
  \/ \E h \in Handlers : \/ \E o \in Orders : MutationStep(h, o)
                         \/ Resume(h)
                         \/ Answer(h)
  \/ \E s \in Subscribers : Subscribe(s)
  \/ Reset
  \/ Crash

Spec == Init /\ [][Next]_vars

(* A handler on the event loop runs on, and a POST ends, at its timeout at   *)
(* the latest. While a handler awaits, others may keep the event loop busy   *)
(* each time the answer could be taken in, but the answer waits in the       *)
(* queue of the loop and is taken in turn.                                   *)
Fairness ==
  \A h \in Handlers : WF_vars(Resume(h)) /\ SF_vars(Answer(h))

FairSpec == Spec /\ Fairness

-----------------------------------------------------------------------------
(* Properties. *)

(* Every variable keeps its type, only the handler on the event loop is      *)
(* between two statements, and a fan-out has a topic.                        *)
TypeOK ==
  /\ syncMode \in BOOLEAN /\ persistent \in BOOLEAN
  /\ row \in [Orders -> {"absent", "temp", "canonical"}]
  /\ fulfilled \subseteq Orders
  /\ complete \subseteq Orders
  /\ closed \subseteq Orders
  /\ fulfillments \in [Orders -> Nat]
  /\ subscribed \subseteq Subscribers
  /\ busy \in Handlers \cup {None}
  /\ pc \in [Handlers -> Places]
  /\ target \in [Handlers -> Orders]
  /\ topics \in [Handlers -> Seq(TopicNames)]
  /\ rest \in [Handlers -> SUBSET Subscribers]
  /\ due \subseteq Orders \X Subscribers
  /\ announced \subseteq Orders \X Subscribers
  /\ crashes \in 0..MaxCrashes
  /\ resets \in 0..MaxResets
  /\ \A h \in Handlers : pc[h] \in Off \/ busy = h
  /\ \A h \in Handlers : pc[h] \in {"fanOut", "between"} => topics[h] # <<>>

(* "A fulfillment must be created to transition to FULFILLED": whatever      *)
(* crash or overlap, an order that is marked has its fulfillment.            *)
FulfilledHasFulfillment == \A o \in fulfilled : fulfillments[o] > 0

(* "Order is already fulfilled": overlapping mutations never fulfil an order *)
(* twice. A crash between the insertion and the mark would allow a second    *)
(* fulfillment: the two statements are not a transaction.                    *)
FulfilledOnce == crashes = 0 => \A o \in Orders : fulfillments[o] <= 1

(* An order can always be reached by its gid once no handler works on it,    *)
(* unless a crash fell between the insertion and the update of the gid.      *)
GidIsCanonical ==
  crashes = 0 /\ busy = None => \A o \in Orders : row[o] # "temp"

(* "Enqueue a webhook delivery to all subscriptions for a given topic": when *)
(* no mutation is in progress, every subscription that existed when a change *)
(* was committed under its topic was served. Crashes are excluded, and sync  *)
(* mode, where the first receiver that fails ends the loop.                  *)
ChangesAnnounced ==
  crashes = 0 /\ ~syncMode /\ (\A h \in Handlers : pc[h] = "idle") => due \subseteq announced

(* Every mutation is answered.                                               *)
MutationsEnd == \A h \in Handlers : pc[h] # "idle" ~> pc[h] = "idle"

(* The tables take every order through the stages of OrderStages.            *)
stage == [o \in Orders |->
  IF row[o] = "absent" THEN "absent"
  ELSE IF o \in closed THEN "closed"
  ELSE IF o \in fulfilled THEN "fulfilled"
  ELSE "open"]

Stages == INSTANCE OrderStages WITH settled <- complete

LifecycleKept == Stages!Spec

=============================================================================
