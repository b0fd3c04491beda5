------------------------ MODULE OrderWebhooksProofs -------------------------
(***************************************************************************)
(* Proofs about OrderWebhooks, for every set of orders, of overlapping      *)
(* mutations and of subscriptions, in both modes, over both kinds of        *)
(* database, with any number of resets and of crashes.                      *)
(***************************************************************************)
EXTENDS OrderWebhooks, SequenceTheorems, TLAPS

(***************************************************************************)
(* The inductive invariant. Halfway says what is in the tables while a      *)
(* handler is between its two statements; Whole, that without a crash no    *)
(* trace of such a state is left once the handler goes on.                  *)
(***************************************************************************)
Rows ==
  /\ closed \subseteq fulfilled
  /\ \A o \in fulfilled : row[o] = "canonical"

Halfway ==
  \A h \in Handlers :
    /\ pc[h] = "setGid" => row[target[h]] = "temp"
    /\ pc[h] = "setFulfilled" =>
         /\ row[target[h]] = "canonical"
         /\ target[h] \notin fulfilled
         /\ fulfillments[target[h]] > 0

Within(place, o) == \E h \in Handlers : busy = h /\ pc[h] = place /\ target[h] = o

Whole ==
  crashes = 0 => \A o \in Orders :
    /\ row[o] = "temp" => Within("setGid", o)
    /\ fulfillments[o] <= 1
    /\ o \notin fulfilled /\ fulfillments[o] > 0 => Within("setFulfilled", o)

IInv == TypeOK /\ FulfilledHasFulfillment /\ Rows /\ Halfway /\ Whole

LEMMA InitIInv == Init => IInv
  BY BoundAssumption
  DEF Init, IInv, TypeOK, Off, Places, FulfilledHasFulfillment, Rows, Halfway, Whole

-----------------------------------------------------------------------------
(* What the parts of an action do to the handlers and to the history.        *)

LEMMA AnnounceType ==
  ASSUME TypeOK, NEW h \in Handlers, NEW o \in Orders, NEW ts \in Seq(TopicNames),
         Announce(h, o, ts)
  PROVE  /\ topics' = [topics EXCEPT ![h] = ts]
         /\ topics' \in [Handlers -> Seq(TopicNames)]
         /\ due' \subseteq Orders \X Subscribers
         /\ announced' = announced
<1>1. {<<o, s>> : s \in {s \in subscribed : \E i \in DOMAIN ts : TopicOf[s] = ts[i]}}
        \subseteq Orders \X Subscribers
  BY DEF TypeOK
<1>2. QED
  BY <1>1 DEF TypeOK, Announce

(* A step that leaves the tables of orders alone keeps what is said of them, *)
(* if no handler is or gets between two statements.                          *)
LEMMA TablesUntouched ==
  ASSUME IInv, TypeOK',
         UNCHANGED <<row, fulfilled, closed, fulfillments, crashes>>,
         \A h \in Handlers : pc'[h] \notin {"setGid", "setFulfilled"},
         \A h \in Handlers : busy = h => pc[h] \notin {"setGid", "setFulfilled"}
  PROVE  IInv'
<1>1. FulfilledHasFulfillment' /\ Rows'
  BY DEF IInv, FulfilledHasFulfillment, Rows
<1>2. Halfway'
  BY DEF Halfway
<1>3. Whole'
  BY DEF IInv, Whole, Within
<1>4. QED
  BY <1>1, <1>2, <1>3 DEF IInv

-----------------------------------------------------------------------------
(* The mutations. *)

LEMMA CreateInsertIInv ==
  ASSUME IInv, NEW h \in Handlers, NEW o \in Orders, CreateInsert(h, o)
  PROVE  IInv'
<1> USE NoneAssumption DEF historyVars, boundVars, modeVars
<1>1. /\ row[o] = "absent" /\ busy = None /\ pc[h] = "idle"
      /\ row' = [row EXCEPT ![o] = "temp"]
      /\ busy' = h
      /\ target' = [target EXCEPT ![h] = o]
      /\ pc' = [pc EXCEPT ![h] = "setGid"]
      /\ complete' \in {complete, complete \cup {o}}
      /\ UNCHANGED <<fulfilled, closed, fulfillments, subscribed, topics, rest,
                     due, announced, crashes, resets,
                     syncMode, persistent>>
  BY DEF CreateInsert, Start
<1>2. \A g \in Handlers : pc[g] \in Off
  BY <1>1 DEF Off, IInv, TypeOK
<1>3. TypeOK'
  BY <1>1, <1>2 DEF Off, IInv, TypeOK, Places
<1>4. FulfilledHasFulfillment' /\ Rows'
  BY <1>1 DEF Off, IInv, TypeOK, FulfilledHasFulfillment, Rows
<1>5. Halfway'
  BY <1>1, <1>2 DEF Off, IInv, TypeOK, Halfway
<1>6. Whole'
  BY <1>1, <1>2 DEF Off, IInv, TypeOK, Whole, Within
<1>7. QED
  BY <1>3, <1>4, <1>5, <1>6 DEF IInv

LEMMA CreateSetGidIInv ==
  ASSUME IInv, NEW h \in Handlers, CreateSetGid(h)
  PROVE  IInv'
<1> USE NoneAssumption DEF boundVars, modeVars
<1>1. /\ busy = h /\ pc[h] = "setGid" /\ target[h] \in Orders
      /\ row[target[h]] = "temp"
      /\ row' = [row EXCEPT ![target[h]] = "canonical"]
      /\ pc' = [pc EXCEPT ![h] = "fanOut"]
      /\ topics' = [topics EXCEPT ![h] = <<"orders/create">>]
      /\ topics' \in [Handlers -> Seq(TopicNames)]
      /\ due' \subseteq Orders \X Subscribers
      /\ UNCHANGED <<fulfilled, complete, closed, fulfillments, subscribed, busy, target,
                     rest, announced, crashes, resets,
                     syncMode, persistent>>
  <2>1. target[h] \in Orders /\ TypeOK /\ <<"orders/create">> \in Seq(TopicNames)
    BY DEF Off, IInv, TypeOK, TopicNames
  <2>2. Announce(h, target[h], <<"orders/create">>)
    BY DEF CreateSetGid
  <2>3. /\ topics' = [topics EXCEPT ![h] = <<"orders/create">>]
        /\ topics' \in [Handlers -> Seq(TopicNames)]
        /\ due' \subseteq Orders \X Subscribers
        /\ announced' = announced
    BY <2>1, <2>2, AnnounceType
  <2>4. QED
    BY <2>1, <2>3 DEF CreateSetGid, IInv, Halfway
<1>2. \A g \in Handlers : g # h => pc[g] \in Off
  BY <1>1 DEF Off, IInv, TypeOK
<1>3. TypeOK'
  BY <1>1, <1>2 DEF Off, IInv, TypeOK, Places
<1>4. FulfilledHasFulfillment' /\ Rows'
  BY <1>1 DEF Off, IInv, TypeOK, FulfilledHasFulfillment, Rows
<1>5. Halfway'
  BY <1>1, <1>2 DEF Off, IInv, TypeOK, Halfway
<1>6. Whole'
  BY <1>1, <1>2 DEF Off, IInv, TypeOK, Whole, Within
<1>7. QED
  BY <1>3, <1>4, <1>5, <1>6 DEF IInv

LEMMA FulfilInsertIInv ==
  ASSUME IInv, NEW h \in Handlers, NEW o \in Orders, FulfilInsert(h, o)
  PROVE  IInv'
<1> USE NoneAssumption DEF historyVars, boundVars, modeVars
<1>1. /\ row[o] = "canonical" /\ o \notin fulfilled /\ busy = None
      /\ fulfillments' = [fulfillments EXCEPT ![o] = fulfillments[o] + 1]
      /\ busy' = h
      /\ target' = [target EXCEPT ![h] = o]
      /\ pc' = [pc EXCEPT ![h] = "setFulfilled"]
      /\ UNCHANGED <<row, fulfilled, complete, closed, subscribed, topics, rest,
                     due, announced, crashes, resets,
                     syncMode, persistent>>
  BY DEF FulfilInsert, ValidFulfillment, Start
<1>2. \A g \in Handlers : pc[g] \in Off
  BY <1>1 DEF Off, IInv, TypeOK
<1>3. crashes = 0 => fulfillments[o] = 0
  BY <1>1 DEF Off, IInv, TypeOK, Whole, Within
<1>4. TypeOK'
  BY <1>1, <1>2 DEF Off, IInv, TypeOK, Places
<1>5. FulfilledHasFulfillment' /\ Rows'
  BY <1>1 DEF Off, IInv, TypeOK, FulfilledHasFulfillment, Rows
<1>6. Halfway'
  BY <1>1, <1>2 DEF Off, IInv, TypeOK, Halfway
<1>7. Whole'
  BY <1>1, <1>2, <1>3 DEF Off, IInv, TypeOK, Whole, Within
<1>8. QED
  BY <1>4, <1>5, <1>6, <1>7 DEF IInv

LEMMA FulfilSetIInv ==
  ASSUME IInv, NEW h \in Handlers, FulfilSet(h)
  PROVE  IInv'
<1> USE NoneAssumption DEF boundVars, modeVars
<1>1. /\ busy = h /\ pc[h] = "setFulfilled" /\ target[h] \in Orders
      /\ row[target[h]] = "canonical" /\ fulfillments[target[h]] > 0
      /\ fulfilled' = fulfilled \cup {target[h]}
      /\ pc' = [pc EXCEPT ![h] = "fanOut"]
      /\ topics' = [topics EXCEPT ![h] = <<"fulfillments/create", "orders/update">>]
      /\ topics' \in [Handlers -> Seq(TopicNames)]
      /\ due' \subseteq Orders \X Subscribers
      /\ UNCHANGED <<row, complete, closed, fulfillments, subscribed, busy, target,
                     rest, announced, crashes, resets,
                     syncMode, persistent>>
  <2> DEFINE ts == <<"fulfillments/create", "orders/update">>
  <2>1. target[h] \in Orders /\ TypeOK /\ ts \in Seq(TopicNames)
    BY DEF Off, IInv, TypeOK, TopicNames
  <2>2. Announce(h, target[h], ts)
    BY DEF FulfilSet
  <2> HIDE DEF ts
  <2>3. /\ topics' = [topics EXCEPT ![h] = ts]
        /\ topics' \in [Handlers -> Seq(TopicNames)]
        /\ due' \subseteq Orders \X Subscribers
        /\ announced' = announced
    BY <2>1, <2>2, AnnounceType
  <2>4. QED
    BY <2>1, <2>3 DEF FulfilSet, IInv, Halfway, ts
<1>2. \A g \in Handlers : g # h => pc[g] \in Off
  BY <1>1 DEF Off, IInv, TypeOK
<1>3. TypeOK'
  BY <1>1, <1>2 DEF Off, IInv, TypeOK, Places
<1>4. FulfilledHasFulfillment' /\ Rows'
  BY <1>1 DEF Off, IInv, TypeOK, FulfilledHasFulfillment, Rows
<1>5. Halfway'
  BY <1>1, <1>2 DEF Off, IInv, TypeOK, Halfway
<1>6. Whole'
  BY <1>1, <1>2 DEF Off, IInv, TypeOK, Whole, Within
<1>7. QED
  BY <1>3, <1>4, <1>5, <1>6 DEF IInv

(* orderUpdate and orderClose, which is the same but for the mark it sets.   *)
LEMMA UpdateOrCloseIInv ==
  ASSUME IInv, NEW h \in Handlers, NEW o \in Orders,
         UpdateOrder(h, o) \/ CloseOrder(h, o)
  PROVE  IInv'
<1> USE NoneAssumption DEF boundVars, modeVars, tableVars
<1>1. /\ row[o] = "canonical" /\ busy = None /\ busy' = h
      /\ target' = [target EXCEPT ![h] = o]
      /\ pc' = [pc EXCEPT ![h] = "fanOut"]
      /\ topics' = [topics EXCEPT ![h] = <<"orders/update">>]
      /\ topics' \in [Handlers -> Seq(TopicNames)]
      /\ due' \subseteq Orders \X Subscribers
      /\ closed' = closed \/ (o \in fulfilled /\ closed' = closed \cup {o})
      /\ UNCHANGED <<row, fulfilled, complete, fulfillments, subscribed, rest, announced,
                     crashes, resets,
                     syncMode, persistent>>
  <2>1. TypeOK /\ <<"orders/update">> \in Seq(TopicNames)
    BY DEF IInv, TopicNames
  <2>2. Announce(h, o, <<"orders/update">>)
    BY DEF UpdateOrder, CloseOrder
  <2>3. /\ topics' = [topics EXCEPT ![h] = <<"orders/update">>]
        /\ topics' \in [Handlers -> Seq(TopicNames)]
        /\ due' \subseteq Orders \X Subscribers
        /\ announced' = announced
    BY <2>1, <2>2, AnnounceType
  <2>4. QED
    BY <2>3 DEF UpdateOrder, CloseOrder, ValidClose, Start
<1>2. \A g \in Handlers : pc[g] \in Off
  BY <1>1 DEF Off, IInv, TypeOK
<1>3. TypeOK'
  BY <1>1, <1>2 DEF Off, IInv, TypeOK, Places
<1>4. FulfilledHasFulfillment' /\ Rows'
  BY <1>1 DEF Off, IInv, TypeOK, FulfilledHasFulfillment, Rows
<1>5. Halfway'
  BY <1>1, <1>2 DEF Off, IInv, TypeOK, Halfway
<1>6. Whole'
  BY <1>1, <1>2 DEF Off, IInv, TypeOK, Whole, Within
<1>7. QED
  BY <1>3, <1>4, <1>5, <1>6 DEF IInv

-----------------------------------------------------------------------------
(* The fan-out, and the environment. *)

LEMMA FanOutIInv ==
  ASSUME IInv, NEW h \in Handlers, FanOut(h)
  PROVE  IInv'
<1> USE DEF tableVars, historyVars, boundVars, modeVars
<1>1. /\ busy = h /\ pc[h] = "fanOut" /\ topics[h] \in Seq(TopicNames) /\ topics[h] # <<>>
      /\ Matching(Head(topics[h])) \subseteq Subscribers
      /\ rest' = [rest EXCEPT ![h] = Matching(Head(topics[h]))]
      /\ topics' = [topics EXCEPT ![h] = Tail(topics[h])]
      /\ pc' = [pc EXCEPT ![h] = "deliver"]
      /\ UNCHANGED <<row, fulfilled, complete, closed, fulfillments, subscribed,
                     busy, target, due, announced, crashes, resets,
                     syncMode, persistent>>
  BY DEF FanOut, Matching, IInv, TypeOK
<1>2. \A g \in Handlers : g # h => pc[g] \in Off
  BY <1>1, NoneAssumption DEF Off, IInv, TypeOK
<1>3. Tail(topics[h]) \in Seq(TopicNames)
  BY <1>1, HeadTailProperties
<1>4. TypeOK'
  BY <1>1, <1>2, <1>3 DEF Off, IInv, TypeOK, Places
<1>5. \A g \in Handlers : pc'[g] \notin {"setGid", "setFulfilled"}
  BY <1>1, <1>2 DEF Off, IInv, TypeOK
<1>6. QED
  BY <1>1, <1>4, <1>5, TablesUntouched

LEMMA DeliverIInv ==
  ASSUME IInv, NEW h \in Handlers, NEW s \in Subscribers, Deliver(h, s)
  PROVE  IInv'
<1> USE DEF tableVars, historyVars, boundVars, modeVars
<1>1. /\ busy = h /\ pc[h] = "deliver"
      /\ rest' = [rest EXCEPT ![h] = rest[h] \ {s}]
      /\ announced' = announced \cup {<<target[h], s>>}
      /\ busy' = None /\ pc' = [pc EXCEPT ![h] = "enqueue"]
      /\ UNCHANGED <<row, fulfilled, complete, closed, fulfillments, subscribed,
                     target, topics, due, crashes, resets,
                     syncMode, persistent>>
  BY DEF Deliver
<1>2. \A g \in Handlers : g # h => pc[g] \in Off
  BY <1>1, NoneAssumption DEF Off, IInv, TypeOK
<1>3. /\ rest' \in [Handlers -> SUBSET Subscribers]
      /\ announced' \subseteq Orders \X Subscribers
  <2>1. rest \in [Handlers -> SUBSET Subscribers] /\ target[h] \in Orders
        /\ announced \subseteq Orders \X Subscribers
    BY DEF Off, IInv, TypeOK
  <2>2. QED
    BY <1>1, <2>1
<1>4. TypeOK'
  BY <1>1, <1>2, <1>3 DEF Off, IInv, TypeOK, Places
<1>5. \A g \in Handlers : pc'[g] \notin {"setGid", "setFulfilled"}
  BY <1>1, <1>2 DEF Off, IInv, TypeOK
<1>6. QED
  BY <1>1, <1>4, <1>5, TablesUntouched

LEMMA LoopEndsIInv ==
  ASSUME IInv, NEW h \in Handlers, LoopEnds(h)
  PROVE  IInv'
<1> USE DEF tableVars, historyVars, boundVars, modeVars
<1>1. /\ busy = h /\ pc[h] = "deliver"
      /\ busy' = None
      /\ pc' = [pc EXCEPT ![h] = IF topics[h] = <<>> THEN "idle" ELSE "between"]
      /\ UNCHANGED <<row, fulfilled, complete, closed, fulfillments, subscribed,
                     target, topics, rest, due, announced, crashes, resets,
                     syncMode, persistent>>
  BY DEF LoopEnds
<1>2. \A g \in Handlers : g # h => pc[g] \in Off
  BY <1>1, NoneAssumption DEF Off, IInv, TypeOK
<1>3. TypeOK'
  BY <1>1, <1>2 DEF Off, IInv, TypeOK, Places
<1>4. \A g \in Handlers : pc'[g] \notin {"setGid", "setFulfilled"}
  BY <1>1, <1>2 DEF Off, IInv, TypeOK
<1>5. QED
  BY <1>1, <1>3, <1>4, TablesUntouched

LEMMA AnswerIInv ==
  ASSUME IInv, NEW h \in Handlers, Answer(h)
  PROVE  IInv'
<1> USE NoneAssumption DEF tableVars, historyVars, boundVars, modeVars
<1>1. /\ busy = None
      /\ \/ /\ pc[h] = "enqueue" /\ pc' = [pc EXCEPT ![h] = "deliver"]
            /\ busy' = h /\ UNCHANGED <<rest, topics>>
         \/ /\ pc[h] = "between" /\ pc' = [pc EXCEPT ![h] = "fanOut"]
            /\ busy' = h /\ UNCHANGED <<rest, topics>>
         \/ /\ busy' = busy /\ pc' = [pc EXCEPT ![h] = "idle"]
            /\ rest' = [rest EXCEPT ![h] = {}]
            /\ topics' = [topics EXCEPT ![h] = <<>>]
      /\ UNCHANGED <<row, fulfilled, complete, closed, fulfillments, subscribed,
                     target, due, announced, crashes, resets,
                     syncMode, persistent>>
  BY DEF Answer, Continue, PostFails
<1>2. \A g \in Handlers : pc[g] \in Off
  BY <1>1 DEF Off, IInv, TypeOK
<1>3. topics' \in [Handlers -> Seq(TopicNames)] /\ rest' \in [Handlers -> SUBSET Subscribers]
  <2>1. topics \in [Handlers -> Seq(TopicNames)] /\ rest \in [Handlers -> SUBSET Subscribers]
    BY DEF Off, IInv, TypeOK
  <2>2. <<>> \in Seq(TopicNames)
    OBVIOUS
  <2>3. QED
    BY <1>1, <2>1, <2>2
<1>4. TypeOK'
  BY <1>1, <1>2, <1>3 DEF Off, IInv, TypeOK, Places
<1>5. \A g \in Handlers : pc'[g] \notin {"setGid", "setFulfilled"}
  BY <1>1, <1>2 DEF Off, IInv, TypeOK
<1>6. QED
  BY <1>1, <1>4, <1>5, TablesUntouched

LEMMA EnvironmentIInv ==
  ASSUME IInv, (\E s \in Subscribers : Subscribe(s)) \/ Reset \/ Crash
  PROVE  IInv'
<1> USE NoneAssumption, BoundAssumption
    DEF tableVars, handlerVars, historyVars, boundVars, modeVars
<1>1. ASSUME NEW s \in Subscribers, Subscribe(s) PROVE IInv'
  <2>1. TypeOK'
    BY <1>1 DEF Subscribe, Off, IInv, TypeOK
  <2>2. \A h \in Handlers : pc'[h] \notin {"setGid", "setFulfilled"}
    BY <1>1 DEF Subscribe, Off, IInv, TypeOK
  <2>3. QED
    BY <1>1, <2>1, <2>2, TablesUntouched DEF Subscribe
<1>2. CASE Reset
  <2>1. TypeOK'
    BY <1>2 DEF Reset, EmptyTables, Off, IInv, TypeOK
  <2>2. \A h \in Handlers : pc[h] \in Off
    BY <1>2 DEF Reset, Off, IInv, TypeOK
  <2>3. CASE EmptyTables
    <3>1. FulfilledHasFulfillment' /\ Rows'
      BY <2>3 DEF EmptyTables, FulfilledHasFulfillment, Rows
    <3>2. Halfway'
      BY <1>2, <2>2 DEF Reset, Off, Halfway
    <3>3. Whole'
      BY <2>3 DEF EmptyTables, Whole
    <3>4. QED
      BY <2>1, <3>1, <3>2, <3>3 DEF IInv
  <2>4. CASE UNCHANGED <<tableVars, historyVars>>
    BY <1>2, <2>1, <2>2, <2>4, TablesUntouched DEF Reset, Off
  <2>5. QED
    BY <1>2, <2>3, <2>4 DEF Reset
<1>3. CASE Crash
  <2>1. TypeOK'
    BY <1>3 DEF Crash, EmptyTables, IInv, TypeOK, Off, Places
  <2>2. crashes' # 0
    BY <1>3 DEF Crash, IInv, TypeOK
  <2>3. Halfway' /\ Whole'
    BY <1>3, <2>2 DEF Crash, Off, Halfway, Whole
  <2>4. FulfilledHasFulfillment' /\ Rows'
    BY <1>3 DEF Crash, EmptyTables, IInv, FulfilledHasFulfillment, Rows
  <2>5. QED
    BY <2>1, <2>3, <2>4 DEF IInv
<1>4. QED
  BY <1>1, <1>2, <1>3

LEMMA StepIInv == IInv /\ [Next]_vars => IInv'
<1> SUFFICES ASSUME IInv, [Next]_vars PROVE IInv'
  OBVIOUS
<1>1. ASSUME NEW h \in Handlers, NEW o \in Orders, MutationStep(h, o) PROVE IInv'
  BY <1>1, CreateInsertIInv, FulfilInsertIInv, UpdateOrCloseIInv DEF MutationStep
<1>2. ASSUME NEW h \in Handlers, Resume(h) PROVE IInv'
  BY <1>2, CreateSetGidIInv, FulfilSetIInv, FanOutIInv, DeliverIInv, LoopEndsIInv DEF Resume
<1>3. ASSUME NEW h \in Handlers, Answer(h) PROVE IInv'
  BY <1>3, AnswerIInv
<1>4. CASE (\E s \in Subscribers : Subscribe(s)) \/ Reset \/ Crash
  BY <1>4, EnvironmentIInv
<1>5. CASE UNCHANGED vars
  BY <1>5 DEF vars, tableVars, handlerVars, historyVars, boundVars, modeVars, IInv, TypeOK,
     FulfilledHasFulfillment, Rows, Halfway, Whole, Within
<1>6. QED
  BY <1>1, <1>2, <1>3, <1>4, <1>5 DEF Next

LEMMA Invariance == Spec => []IInv
  BY InitIInv, StepIInv, PTL DEF Spec

-----------------------------------------------------------------------------
(* Every variable keeps its type, and a handler is between two statements    *)
(* only while it holds the event loop.                                       *)
THEOREM TypeCorrect == Spec => []TypeOK
<1>1. IInv => TypeOK
  BY DEF IInv
<1>2. QED
  BY <1>1, Invariance, PTL

(* An order that is marked fulfilled has a fulfillment, crashes or not.      *)
THEOREM FulfillmentFirst == Spec => []FulfilledHasFulfillment
<1>1. IInv => FulfilledHasFulfillment
  BY DEF IInv
<1>2. QED
  BY <1>1, Invariance, PTL

(* "Order is already fulfilled": without a crash no overlap of mutations     *)
(* fulfils an order twice.                                                   *)
THEOREM OrdersFulfilledOnce == Spec => []FulfilledOnce
<1>1. IInv => FulfilledOnce
  BY DEF IInv, Whole, FulfilledOnce
<1>2. QED
  BY <1>1, Invariance, PTL

(* Without a crash no order is left under its temporary gid.                 *)
THEOREM OrdersKeepTheirGid == Spec => []GidIsCanonical
<1>1. IInv => GidIsCanonical
  BY NoneAssumption DEF IInv, Whole, Within, GidIsCanonical
<1>2. QED
  BY <1>1, Invariance, PTL

-----------------------------------------------------------------------------
(***************************************************************************)
(* The announcements. A handler owes an event while its list of             *)
(* subscriptions still holds the receiver or its list of topics still names *)
(* the receiver's. Quiet says where these lists are empty, Listed that no   *)
(* event is due to a subscription that a later listing would miss.          *)
(***************************************************************************)
Quiet ==
  \A h \in Handlers :
    /\ pc[h] \in {"idle", "setGid", "setFulfilled"} => topics[h] = <<>>
    /\ pc[h] # "deliver" /\ pc[h] # "enqueue" => rest[h] = {}

Listed == \A o \in Orders, s \in Subscribers : <<o, s>> \in due => s \in subscribed

OwedBy(h, o, s) ==
  /\ target[h] = o
  /\ \/ s \in rest[h]
     \/ \E i \in DOMAIN topics[h] : TopicOf[s] = topics[h][i]

Owed ==
  crashes = 0 /\ ~syncMode =>
    \A o \in Orders, s \in Subscribers :
      <<o, s>> \in due \ announced => \E h \in Handlers : OwedBy(h, o, s)

Announcing == Quiet /\ Listed /\ Owed

LEMMA InitAnnouncing == Init => Announcing
  BY DEF Init, Announcing, Quiet, Listed, Owed

(* A topic of a list is its first one or one of the rest.                    *)
LEMMA HeadOrTail ==
  ASSUME NEW ts \in Seq(TopicNames), ts # <<>>, NEW t,
         \E i \in DOMAIN ts : t = ts[i]
  PROVE  t = Head(ts) \/ \E i \in DOMAIN Tail(ts) : t = Tail(ts)[i]
<1>1. PICK i \in 1..Len(ts) : t = ts[i]
  OBVIOUS
<1>2. CASE i = 1
  BY <1>1, <1>2
<1>3. CASE i # 1
  <2>1. i - 1 \in 1..Len(Tail(ts)) /\ Tail(ts)[i - 1] = ts[i]
    BY <1>3
  <2>2. i - 1 \in DOMAIN Tail(ts)
    BY <2>1
  <2>3. QED
    BY <1>1, <2>1, <2>2
<1>4. QED
  BY <1>2, <1>3

(* A handler that starts a mutation owed nothing before, so nothing is lost  *)
(* with the target it had.                                                   *)
LEMMA StartOwes ==
  ASSUME IInv, Announcing, NEW h \in Handlers, NEW o \in Orders,
         NEW place \in {"setGid", "setFulfilled", "fanOut"}, Start(h, o, place),
         UNCHANGED <<announced, subscribed, crashes, syncMode>>
  PROVE  /\ UNCHANGED <<topics, due>> /\ place # "fanOut" => Announcing'
         /\ \A ts \in Seq(TopicNames) : Announce(h, o, ts) /\ place = "fanOut" => Announcing'
<1>1. /\ topics[h] = <<>> /\ rest[h] = {} /\ rest' = rest
      /\ target' = [target EXCEPT ![h] = o] /\ pc' = [pc EXCEPT ![h] = place]
  BY DEF Start, Announcing, Quiet
<1>2. \A p \in Orders, s \in Subscribers : ~OwedBy(h, p, s)
  BY <1>1 DEF OwedBy
<1>3. ASSUME UNCHANGED <<topics, due>>, place # "fanOut"
      PROVE  Announcing'
  <2>1. Quiet' /\ Listed'
    BY <1>1, <1>3 DEF IInv, TypeOK, Announcing, Quiet, Listed
  <2>2. \A g \in Handlers, p \in Orders, s \in Subscribers :
          OwedBy(g, p, s) => OwedBy(g, p, s)'
    BY <1>1, <1>2, <1>3 DEF IInv, TypeOK, OwedBy
  <2>3. Owed'
    BY <1>3, <2>2 DEF Announcing, Owed
  <2>4. QED
    BY <2>1, <2>3 DEF Announcing
<1>4. ASSUME NEW ts \in Seq(TopicNames), Announce(h, o, ts), place = "fanOut"
      PROVE  Announcing'
  <2>1. /\ topics' = [topics EXCEPT ![h] = ts]
        /\ due' = due \cup {<<o, s>> : s \in {s \in subscribed :
                                                \E i \in DOMAIN ts : TopicOf[s] = ts[i]}}
    BY <1>4 DEF Announce
  <2>2. Quiet' /\ Listed'
    BY <1>1, <1>4, <2>1 DEF IInv, TypeOK, Announcing, Quiet, Listed
  <2>3. \A g \in Handlers, p \in Orders, s \in Subscribers :
          OwedBy(g, p, s) => OwedBy(g, p, s)'
    BY <1>1, <1>2, <2>1 DEF IInv, TypeOK, OwedBy
  <2>4. \A p \in Orders, s \in Subscribers :
          <<p, s>> \in due' \ due => OwedBy(h, p, s)'
    BY <1>1, <2>1 DEF IInv, TypeOK, OwedBy
  <2>5. Owed'
    BY <2>3, <2>4 DEF Announcing, Owed
  <2>6. QED
    BY <2>2, <2>5 DEF Announcing
<1>5. QED
  BY <1>3, <1>4

LEMMA MutationAnnounces ==
  ASSUME IInv, Announcing, NEW h \in Handlers, NEW o \in Orders, MutationStep(h, o)
  PROVE  Announcing'
<1> USE DEF boundVars, modeVars, historyVars, tableVars
<1>1. CASE CreateInsert(h, o)
  BY <1>1, StartOwes DEF CreateInsert
<1>2. CASE FulfilInsert(h, o)
  BY <1>2, StartOwes DEF FulfilInsert
<1>3. CASE UpdateOrder(h, o)
  <2>1. <<"orders/update">> \in Seq(TopicNames)
    BY DEF TopicNames
  <2>2. QED
    BY <1>3, <2>1, StartOwes DEF UpdateOrder, Announce
<1>4. CASE CloseOrder(h, o)
  <2>1. <<"orders/update">> \in Seq(TopicNames)
    BY DEF TopicNames
  <2>2. QED
    BY <1>4, <2>1, StartOwes DEF CloseOrder, Announce
<1>5. QED
  BY <1>1, <1>2, <1>3, <1>4 DEF MutationStep

(* The second statement of a mutation announces its change.                  *)
LEMMA SecondAnnounces ==
  ASSUME IInv, Announcing, NEW h \in Handlers, CreateSetGid(h) \/ FulfilSet(h)
  PROVE  Announcing'
<1> USE DEF boundVars, modeVars, historyVars, tableVars
<1> DEFINE o == target[h]
<1>1. PICK ts \in Seq(TopicNames) : Announce(h, o, ts)
  <2>1. /\ <<"orders/create">> \in Seq(TopicNames)
        /\ <<"fulfillments/create", "orders/update">> \in Seq(TopicNames)
    BY DEF TopicNames
  <2>2. QED
    BY <2>1 DEF CreateSetGid, FulfilSet
<1>2. /\ topics[h] = <<>> /\ rest[h] = {} /\ rest' = rest /\ target' = target
      /\ target[h] = o
      /\ pc' = [pc EXCEPT ![h] = "fanOut"] /\ topics' = [topics EXCEPT ![h] = ts]
      /\ due' = due \cup {<<o, s>> : s \in {s \in subscribed :
                                              \E i \in DOMAIN ts : TopicOf[s] = ts[i]}}
      /\ UNCHANGED <<announced, subscribed, crashes, syncMode>>
  BY <1>1 DEF CreateSetGid, FulfilSet, Announce, Announcing, Quiet
<1> HIDE DEF o
<1>3. Quiet' /\ Listed'
  BY <1>2 DEF IInv, TypeOK, Announcing, Quiet, Listed
<1>4. ASSUME NEW g \in Handlers, NEW p \in Orders, NEW s \in Subscribers, OwedBy(g, p, s)
      PROVE  OwedBy(g, p, s)'
  <2>1. g # h
    BY <1>2, <1>4 DEF OwedBy
  <2>2. topics'[g] = topics[g] /\ rest'[g] = rest[g] /\ target'[g] = target[g]
    BY <1>2, <2>1 DEF IInv, TypeOK
  <2>3. QED
    BY <1>4, <2>2 DEF OwedBy
<1>5. \A p \in Orders, s \in Subscribers : <<p, s>> \in due' \ due => OwedBy(h, p, s)'
  <2>1. topics'[h] = ts
    BY <1>2 DEF IInv, TypeOK
  <2>2. QED
    BY <1>2, <2>1 DEF OwedBy
<1>6. Owed'
  BY <1>2, <1>4, <1>5 DEF Announcing, Owed
<1>7. QED
  BY <1>3, <1>6 DEF Announcing

(* The listing of a topic takes over what the topic owed.                    *)
LEMMA FanOutAnnounces ==
  ASSUME IInv, Announcing, NEW h \in Handlers, FanOut(h)
  PROVE  Announcing'
<1> USE DEF boundVars, modeVars, historyVars, tableVars
<1>1. /\ topics[h] # <<>> /\ topics[h] \in Seq(TopicNames) /\ rest[h] = {}
      /\ rest' = [rest EXCEPT ![h] = Matching(Head(topics[h]))]
      /\ topics' = [topics EXCEPT ![h] = Tail(topics[h])]
      /\ pc' = [pc EXCEPT ![h] = "deliver"]
      /\ UNCHANGED <<target, due, announced, subscribed, crashes, syncMode>>
  BY DEF FanOut, IInv, TypeOK, Announcing, Quiet
<1>2. Quiet' /\ Listed'
  BY <1>1 DEF IInv, TypeOK, Announcing, Quiet, Listed
<1>3. ASSUME NEW g \in Handlers, NEW p \in Orders, NEW s \in Subscribers,
             OwedBy(g, p, s), s \in subscribed
      PROVE  OwedBy(g, p, s)'
  <2>1. CASE g # h
    BY <1>1, <1>3, <2>1 DEF IInv, TypeOK, OwedBy
  <2>2. CASE g = h
    <3>1. \/ TopicOf[s] = Head(topics[h])
          \/ \E i \in DOMAIN Tail(topics[h]) : TopicOf[s] = Tail(topics[h])[i]
      BY <1>1, <1>3, <2>2, HeadOrTail DEF OwedBy
    <3>2. topics'[h] = Tail(topics[h]) /\ rest'[h] = Matching(Head(topics[h]))
      BY <1>1 DEF IInv, TypeOK
    <3>3. target'[h] = p
      BY <1>1, <1>3, <2>2 DEF OwedBy
    <3>4. QED
      BY <1>3, <2>2, <3>1, <3>2, <3>3 DEF OwedBy, Matching
  <2>3. QED
    BY <2>1, <2>2
<1>4. Owed'
  BY <1>1, <1>3 DEF Announcing, Owed, Listed
<1>5. QED
  BY <1>2, <1>4 DEF Announcing

(* Steps that leave what is due, and take from a list what they announce.    *)
LEMMA LoopAnnounces ==
  ASSUME IInv, Announcing, NEW h \in Handlers,
         (\E s \in Subscribers : Deliver(h, s)) \/ LoopEnds(h) \/ Answer(h)
  PROVE  Announcing'
<1> USE DEF boundVars, modeVars, historyVars, tableVars
<1>1. ASSUME NEW s \in Subscribers, Deliver(h, s) PROVE Announcing'
  <2>1. /\ s \in rest[h] /\ rest' = [rest EXCEPT ![h] = rest[h] \ {s}]
        /\ announced' = announced \cup {<<target[h], s>>}
        /\ pc' = [pc EXCEPT ![h] = "enqueue"]
        /\ UNCHANGED <<target, topics, due, subscribed, crashes, syncMode>>
    BY <1>1 DEF Deliver
  <2>2. Quiet' /\ Listed'
    BY <2>1 DEF IInv, TypeOK, Announcing, Quiet, Listed
  <2>3. ASSUME NEW g \in Handlers, NEW p \in Orders, NEW r \in Subscribers,
               OwedBy(g, p, r), <<p, r>> \notin announced'
        PROVE  OwedBy(g, p, r)'
    BY <2>1, <2>3 DEF IInv, TypeOK, OwedBy
  <2>4. Owed'
    BY <2>1, <2>3 DEF Announcing, Owed
  <2>5. QED
    BY <2>2, <2>4 DEF Announcing
<1>2. CASE LoopEnds(h) \/ Continue(h)
  <2>1. /\ UNCHANGED <<target, topics, rest, due, announced, subscribed, crashes, syncMode>>
        /\ \A g \in Handlers : g # h => pc'[g] = pc[g]
        /\ \/ pc[h] = "deliver" /\ rest[h] = {} /\ topics[h] = <<>> /\ pc'[h] = "idle"
           \/ pc[h] = "deliver" /\ rest[h] = {} /\ topics[h] # <<>> /\ pc'[h] = "between"
           \/ pc[h] = "enqueue" /\ pc'[h] = "deliver"
           \/ pc[h] = "between" /\ pc'[h] = "fanOut"
    BY <1>2 DEF LoopEnds, Continue, IInv, TypeOK
  <2>2. Quiet' /\ Listed'
    BY <2>1 DEF Announcing, Quiet, Listed
  <2>3. Owed'
    BY <2>1 DEF Announcing, Owed, OwedBy
  <2>4. QED
    BY <2>2, <2>3 DEF Announcing
<1>3. CASE PostFails(h)
  <2>1. /\ syncMode /\ syncMode' = syncMode
        /\ pc' = [pc EXCEPT ![h] = "idle"] /\ rest' = [rest EXCEPT ![h] = {}]
        /\ topics' = [topics EXCEPT ![h] = <<>>]
        /\ UNCHANGED <<due, subscribed>>
    BY <1>3 DEF PostFails
  <2>2. QED
    BY <2>1 DEF IInv, TypeOK, Announcing, Quiet, Listed, Owed
<1>4. QED
  BY <1>1, <1>2, <1>3 DEF Answer

LEMMA EnvironmentAnnounces ==
  ASSUME IInv, Announcing, (\E s \in Subscribers : Subscribe(s)) \/ Reset \/ Crash
  PROVE  Announcing'
<1> USE DEF boundVars, modeVars, historyVars, tableVars, handlerVars
<1>1. CASE \E s \in Subscribers : Subscribe(s)
  BY <1>1 DEF Subscribe, Announcing, Quiet, Listed, Owed, OwedBy
<1>2. CASE Reset
  BY <1>2 DEF Reset, EmptyTables, Announcing, Quiet, Listed, Owed, OwedBy
<1>3. CASE Crash
  <2>1. crashes' # 0
    BY <1>3, BoundAssumption DEF Crash, IInv, TypeOK
  <2>2. QED
    BY <1>3, <2>1 DEF Crash, EmptyTables, Announcing, Quiet, Listed, Owed
<1>4. QED
  BY <1>1, <1>2, <1>3

(* "Enqueue a webhook delivery to all subscriptions for a given topic": with *)
(* the asynchronous queue and without a crash, every event of a committed    *)
(* change has reached enqueue() once the mutations are answered.             *)
THEOREM EveryChangeAnnounced == Spec => []ChangesAnnounced
<1>1. IInv /\ Announcing => ChangesAnnounced
  <2> SUFFICES ASSUME IInv, Announcing, crashes = 0, ~syncMode,
                      \A h \in Handlers : pc[h] = "idle", NEW e \in due
               PROVE  e \in announced
    BY DEF ChangesAnnounced
  <2>1. PICK o \in Orders, s \in Subscribers : e = <<o, s>>
    BY DEF IInv, TypeOK
  <2>2. \A h \in Handlers : ~OwedBy(h, o, s)
    BY DEF Announcing, Quiet, OwedBy
  <2>3. QED
    BY <2>1, <2>2 DEF Announcing, Owed
<1>2. ASSUME IInv, Announcing, [Next]_vars
      PROVE  Announcing'
  <2>1. CASE UNCHANGED vars
    BY <1>2, <2>1 DEF vars, tableVars, handlerVars, historyVars, boundVars, modeVars,
       Announcing, Quiet, Listed, Owed, OwedBy
  <2>2. CASE Next
    BY <1>2, <2>2, MutationAnnounces, SecondAnnounces, FanOutAnnounces, LoopAnnounces,
       EnvironmentAnnounces DEF Next, Resume
  <2>3. QED
    BY <1>2, <2>1, <2>2
<1>3. QED
  BY <1>1, <1>2, InitAnnouncing, Invariance, PTL DEF Spec

-----------------------------------------------------------------------------
(* The refinement. *)

LEMMA StagesInit == Init => Stages!Init
  BY DEF Init, stage, Stages!Init

(* A step that leaves the tables of orders alone changes no stage.           *)
LEMMA StageKept ==
  ASSUME UNCHANGED <<row, fulfilled, closed>>
  PROVE  stage' = stage
  BY DEF stage

LEMMA StagesForgotten == ASSUME EmptyTables PROVE Stages!Forget
  BY DEF EmptyTables, stage, Stages!Forget, Stages!Init

LEMMA StagesStep ==
  ASSUME IInv, [Next]_vars
  PROVE  [Stages!Next]_(Stages!vars)
<1> USE DEF Stages!vars
<1>1. ASSUME NEW h \in Handlers, NEW o \in Orders, CreateInsert(h, o)
      PROVE  Stages!Next
  <2>1. stage[o] = "absent" /\ o \notin closed /\ o \notin fulfilled
    BY <1>1 DEF CreateInsert, IInv, Rows, stage
  <2>2. stage' = [stage EXCEPT ![o] = "open"]
    BY <1>1, <2>1 DEF CreateInsert, IInv, TypeOK, stage
  <2>3. Stages!Place(o)
    BY <1>1, <2>1, <2>2 DEF CreateInsert, Stages!Place
  <2>4. QED
    BY <2>3 DEF Stages!Next
<1>2. ASSUME NEW h \in Handlers, CreateSetGid(h) PROVE UNCHANGED Stages!vars
  <2>1. target[h] \in Orders /\ row[target[h]] = "temp"
    BY <1>2 DEF CreateSetGid, IInv, TypeOK, Halfway
  <2>2. stage' = stage
    BY <1>2, <2>1 DEF CreateSetGid, IInv, TypeOK, stage
  <2>3. QED
    BY <1>2, <2>2 DEF CreateSetGid
<1>3. ASSUME NEW h \in Handlers, FulfilSet(h) PROVE Stages!Next
  <2> DEFINE o == target[h]
  <2>1. o \in Orders /\ row[o] = "canonical" /\ o \notin fulfilled /\ o \notin closed
    BY <1>3 DEF FulfilSet, IInv, TypeOK, Halfway, Rows
  <2>2. UNCHANGED <<row, closed, complete>> /\ fulfilled' = fulfilled \cup {o}
    BY <1>3 DEF FulfilSet
  <2> HIDE DEF o
  <2>3. stage[o] = "open" /\ stage' = [stage EXCEPT ![o] = "fulfilled"]
    BY <2>1, <2>2 DEF stage
  <2>4. QED
    BY <2>1, <2>2, <2>3 DEF Stages!Next, Stages!Fulfil
<1>4. ASSUME NEW h \in Handlers, NEW o \in Orders, CloseOrder(h, o) PROVE Stages!Next
  <2>1. /\ row[o] = "canonical" /\ o \in fulfilled /\ o \notin closed /\ o \in complete
        /\ UNCHANGED <<row, fulfilled, complete>> /\ closed' = closed \cup {o}
    BY <1>4 DEF CloseOrder, ValidClose
  <2>2. stage[o] = "fulfilled" /\ stage' = [stage EXCEPT ![o] = "closed"]
    BY <2>1 DEF stage
  <2>3. QED
    BY <2>1, <2>2 DEF Stages!Next, Stages!Close
<1>5. CASE Reset \/ Crash
  BY <1>5, StagesForgotten, StageKept DEF Reset, Crash, tableVars, Stages!Next
<1>6. ASSUME NEW h \in Handlers, NEW o \in Orders, UpdateOrder(h, o) \/ FulfilInsert(h, o)
      PROVE  UNCHANGED Stages!vars
  BY <1>6, StageKept DEF UpdateOrder, FulfilInsert, tableVars
<1>7. ASSUME NEW h \in Handlers,
             FanOut(h) \/ (\E s \in Subscribers : Deliver(h, s)) \/ LoopEnds(h) \/ Answer(h)
      PROVE  UNCHANGED Stages!vars
  BY <1>7, StageKept DEF FanOut, Deliver, LoopEnds, Answer, Continue, PostFails, tableVars
<1>8. ASSUME NEW s \in Subscribers, Subscribe(s) PROVE UNCHANGED Stages!vars
  BY <1>8, StageKept DEF Subscribe
<1>9. CASE UNCHANGED vars
  BY <1>9, StageKept DEF vars, tableVars
<1>10. QED
  BY <1>1, <1>2, <1>3, <1>4, <1>5, <1>6, <1>7, <1>8, <1>9
  DEF Next, MutationStep, Resume

(* The tables take every order through the stages that order-lifecycle.ts    *)
(* announces, whatever mutations overlap and wherever the process crashes.   *)
THEOREM OrdersKeepLifecycle == Spec => LifecycleKept
<1>1. IInv /\ [Next]_vars => [Stages!Next]_(Stages!vars)
  BY StagesStep
<1>2. QED
  BY StagesInit, <1>1, Invariance, PTL DEF Spec, LifecycleKept, Stages!Spec

=============================================================================
