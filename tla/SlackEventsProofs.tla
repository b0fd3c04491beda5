-------------------------- MODULE SlackEventsProofs --------------------------
(***************************************************************************)
(* What SlackEvents keeps for any messages, subscriptions, response URLs   *)
(* and bounds. UrlBounded needs that a URL that was not issued was never    *)
(* honoured; DeletedStaysDeleted that a row has a timestamp that is used;   *)
(* FeedKept that an event is posted to nobody before its message exists and *)
(* to none of those that its dispatch still waits to post to.               *)
(***************************************************************************)
EXTENDS SlackEvents, TLAPS

(* The response URLs: nothing was honoured before a URL was issued. *)
UrlInv ==
  /\ UrlBounded
  /\ \A u \in Urls \ minted : effects[u] = 0

(* The dispatches: none begins before its message is created, and none posts *)
(* to a subscription that it waits to post to.                               *)
DispatchInv ==
  \A e \in Events :
    /\ e[2] \notin used => posting[e] = None /\ waiting[e] = {} /\ posts[e] = [a \in Apps |-> 0]
    /\ \A a \in waiting[e] : posts[e][a] = 0

LEMMA EventPair == \A e \in Events : e[1] \in Types /\ e[2] \in Messages
BY DEF Events

(* The next fetch of a loop is to one of the subscriptions it is about.      *)
LEMMA NextIsOfLoop ==
  ASSUME NEW S \in SUBSET Apps, NEW a \in Apps \cup {None}, NextOf(S, a)
  PROVE  a = None \/ a \in S
BY AppAssumption DEF NextOf

-----------------------------------------------------------------------------
LEMMA TypeInit == Init => TypeOK
BY UrlAssumption, BoundAssumption DEF Init, TypeOK, Entries

LEMMA CreateType ==
  ASSUME TypeOK, NEW m \in Messages, Create(m)
  PROVE  /\ rows' \subseteq used' /\ used' \subseteq Messages /\ edited' \subseteq rows'
BY DEF TypeOK, Create

LEMMA DispatchType ==
  ASSUME TypeOK, NEW opened \in SUBSET Events, Dispatch(opened)
  PROVE  /\ posting' \in [Events -> Apps \cup {None}]
         /\ waiting' \in [Events -> SUBSET Apps]
         /\ posts' \in [Events -> [Apps -> Nat]]
<1>1. PICK first \in [opened -> Apps \cup {None}] :
        /\ posting' = [e \in Events |-> IF e \in opened THEN first[e] ELSE posting[e]]
        /\ waiting' = [e \in Events |-> IF e \in opened THEN Interested(e[1]) \ {first[e]}
                                                        ELSE waiting[e]]
        /\ posts' = [e \in Events |-> IF e \in opened
             THEN [a \in Apps |-> IF a = first[e] THEN posts[e][a] + 1 ELSE posts[e][a]]
             ELSE posts[e]]
  BY DEF Dispatch
<1>2. \A e \in Events : Interested(e[1]) \subseteq Apps
  BY DEF Interested, TypeOK
<1>3. posting' \in [Events -> Apps \cup {None}]
  BY <1>1 DEF TypeOK
<1>4. waiting' \in [Events -> SUBSET Apps]
  BY <1>1, <1>2 DEF TypeOK
<1>5. posts' \in [Events -> [Apps -> Nat]]
  BY <1>1 DEF TypeOK
<1> QED BY <1>3, <1>4, <1>5

LEMMA TypeStep == TypeOK /\ [Next]_vars => TypeOK'
<1> SUFFICES ASSUME TypeOK, [Next]_vars PROVE TypeOK' OBVIOUS
<1> USE UrlAssumption, BoundAssumption
<1>1. ASSUME NEW m \in Messages, PostMessage(m) PROVE TypeOK'
  <2>1. Create(m) /\ UNCHANGED <<subs, responseUrls, effects, minted, now, resets>>
    BY <1>1 DEF PostMessage, urlVars
  <2>2. Dispatch(Opened(m)) /\ Opened(m) \in SUBSET Events
    BY <1>1 DEF PostMessage, Opened
  <2> QED BY <2>1, <2>2, CreateType, DispatchType DEF TypeOK
<1>2. ASSUME NEW m \in Messages, MeMessage(m) PROVE TypeOK'
  BY <1>2, CreateType DEF MeMessage, TypeOK, dispatchVars, urlVars
<1>3. ASSUME NEW m \in Messages, NEW user, NEW c, Update(m, user, c) PROVE TypeOK'
  BY <1>3 DEF Update, Write, TypeOK, dispatchVars, urlVars
<1>4. ASSUME NEW m \in Messages, NEW user, NEW c, Delete(m, user, c) PROVE TypeOK'
  BY <1>4 DEF Delete, TypeOK, dispatchVars, urlVars
<1>5. ASSUME NEW e \in Events, FetchEnds(e) PROVE TypeOK'
  <2>1. PICK a \in Apps \cup {None} :
          /\ posting' = [posting EXCEPT ![e] = a]
          /\ waiting' = [waiting EXCEPT ![e] = @ \ {a}]
          /\ posts' = [posts EXCEPT ![e] = [b \in Apps |-> IF b = a THEN @[b] + 1 ELSE @[b]]]
    BY <1>5 DEF FetchEnds
  <2>2. posting' \in [Events -> Apps \cup {None}] /\ waiting' \in [Events -> SUBSET Apps]
    BY <2>1 DEF TypeOK
  <2>3. posts' \in [Events -> [Apps -> Nat]]
    BY <2>1 DEF TypeOK
  <2> QED BY <1>5, <2>2, <2>3 DEF FetchEnds, TypeOK, messageVars, urlVars
<1>6. ASSUME NEW u \in Urls, NEW m \in Messages, NEW c \in Channels, Trigger(u, m, c)
      PROVE  TypeOK'
  <2>1. \A v \in DOMAIN responseUrls' : responseUrls'[v] \in Entries
    BY <1>6 DEF Trigger, TypeOK, Entries
  <2>2. DOMAIN responseUrls' \subseteq minted' /\ minted' \subseteq Urls
    BY <1>6 DEF Trigger, TypeOK
  <2> QED BY <1>6, <2>1, <2>2 DEF Trigger, TypeOK, messageVars, dispatchVars, Entries
<1>7. ASSUME NEW u \in Urls, UseUrl(u) PROVE TypeOK'
  <2>1. u \in DOMAIN responseUrls /\ responseUrls[u] \in Entries
        /\ responseUrls[u].usesRemaining > 0
    BY <1>7 DEF UseUrl, Usable, TypeOK
  <2>2. \A v \in DOMAIN responseUrls' : responseUrls'[v] \in Entries
    BY <1>7, <2>1 DEF UseUrl, TypeOK, Entries
  <2>3. DOMAIN responseUrls' \subseteq minted' /\ effects' \in [Urls -> Nat]
    BY <1>7 DEF UseUrl, TypeOK
  <2>4. rows' \subseteq used' /\ used' \subseteq Messages /\ edited' \subseteq rows'
    BY <1>7, CreateType DEF UseUrl, DeleteOriginal, Write, FollowUp, TypeOK
  <2> QED BY <1>7, <2>2, <2>3, <2>4 DEF UseUrl, TypeOK, dispatchVars, Entries
<1>8. ASSUME NEW u \in Urls, RefuseUrl(u) PROVE TypeOK'
  BY <1>8 DEF RefuseUrl, TypeOK, messageVars, dispatchVars, Entries
<1>9. ASSUME NEW a \in Apps, Subscribe(a) PROVE TypeOK'
  BY <1>9 DEF Subscribe, TypeOK, messageVars, dispatchVars, urlVars, Entries
<1>10. ASSUME Reset PROVE TypeOK'
  BY <1>10 DEF Reset, Surviving, TypeOK, dispatchVars, urlVars, Entries
<1>11. ASSUME Tick PROVE TypeOK'
  BY <1>11 DEF Tick, TypeOK, messageVars, dispatchVars, urlVars, Entries
<1>12. ASSUME UNCHANGED vars PROVE TypeOK'
  BY <1>12 DEF vars, TypeOK, messageVars, dispatchVars, urlVars, Entries
<1> QED
  BY <1>1, <1>2, <1>3, <1>4, <1>5, <1>6, <1>7, <1>8, <1>9, <1>10, <1>11, <1>12
  DEF Next, MessageStep, UrlStep

(* Every variable of the chat methods, the dispatcher and the response URLs  *)
(* keeps its type.                                                           *)
THEOREM TypeCorrect == Spec => []TypeOK
BY TypeInit, TypeStep, PTL DEF Spec

-----------------------------------------------------------------------------
(* The response URLs. *)

LEMMA UrlStepKept == TypeOK /\ UrlInv /\ [Next]_vars => UrlInv'
<1> SUFFICES ASSUME TypeOK, UrlInv, [Next]_vars PROVE UrlInv' OBVIOUS
<1> USE UrlAssumption DEF UrlInv, UrlBounded
<1>1. ASSUME UNCHANGED urlVars PROVE UrlInv'
  BY <1>1 DEF urlVars
<1>2. ASSUME NEW u \in Urls, NEW m \in Messages, NEW c \in Channels, Trigger(u, m, c)
      PROVE  UrlInv'
  BY <1>2 DEF Trigger, TypeOK
<1>3. ASSUME NEW u \in Urls, UseUrl(u) PROVE UrlInv'
  <2>1. /\ u \in DOMAIN responseUrls /\ u \in minted
        /\ responseUrls[u] \in Entries /\ responseUrls[u].usesRemaining > 0
    BY <1>3 DEF UseUrl, Usable, TypeOK
  <2>2. /\ effects' = [effects EXCEPT ![u] = @ + 1] /\ minted' = minted
        /\ responseUrls' = [responseUrls EXCEPT ![u].usesRemaining = @ - 1]
    BY <1>3 DEF UseUrl
  <2>3. effects[u] + responseUrls[u].usesRemaining = UrlUses
    BY <2>1
  <2>4. /\ DOMAIN responseUrls' = DOMAIN responseUrls
        /\ responseUrls'[u].usesRemaining = responseUrls[u].usesRemaining - 1
        /\ \A v \in DOMAIN responseUrls \ {u} : responseUrls'[v] = responseUrls[v]
    BY <2>1, <2>2 DEF Entries
  <2>5. /\ effects'[u] = effects[u] + 1 /\ effects[u] \in Nat
        /\ responseUrls[u].usesRemaining \in Nat
        /\ \A v \in Urls \ {u} : effects'[v] = effects[v]
    BY <2>1, <2>2 DEF TypeOK, Entries
  <2>6. \A v \in Urls : effects'[v] <= UrlUses
    BY <2>1, <2>3, <2>5
  <2>7. \A v \in DOMAIN responseUrls' : effects'[v] + responseUrls'[v].usesRemaining = UrlUses
    <3>1. effects'[u] + responseUrls'[u].usesRemaining = UrlUses
      BY <2>3, <2>4, <2>5
    <3>2. \A v \in DOMAIN responseUrls \ {u} :
            effects'[v] + responseUrls'[v].usesRemaining = UrlUses
      BY <2>4, <2>5 DEF TypeOK
    <3> QED BY <2>4, <3>1, <3>2
  <2>8. \A v \in Urls \ minted' : effects'[v] = 0
    BY <2>1, <2>2, <2>5
  <2> QED BY <2>6, <2>7, <2>8
<1>4. ASSUME NEW u \in Urls, RefuseUrl(u) PROVE UrlInv'
  BY <1>4 DEF RefuseUrl, TypeOK
<1>5. CASE UNCHANGED vars
  BY <1>1, <1>5 DEF vars
<1> QED
  BY <1>1, <1>2, <1>3, <1>4, <1>5
  DEF Next, MessageStep, UrlStep, PostMessage, MeMessage, Update, Delete, FetchEnds,
      Subscribe, Reset, Tick

(* "Response URLs are usable 5 times": for any number of URLs and of uses,   *)
(* whatever was deleted or reset meanwhile.                                  *)
THEOREM UrlsAreBounded == Spec => []UrlBounded
<1>1. Init => UrlInv
  BY UrlAssumption DEF Init, UrlInv, UrlBounded
<1>2. UrlInv => UrlBounded
  BY DEF UrlInv
<1> QED BY <1>1, <1>2, UrlStepKept, TypeCorrect, PTL DEF Spec

-----------------------------------------------------------------------------
(* A deleted message never comes back, not even by a replace_original that   *)
(* arrives after the deletion: only a new message gets a row.                *)
THEOREM DeletedForGood == Spec => DeletedStaysDeleted
<1>1. ASSUME TypeOK, [Next]_vars, NEW m \in used \ rows PROVE m \notin rows'
  <2>1. CASE UNCHANGED rows
    BY <1>1, <2>1
  <2>2. ASSUME NEW n \in Messages, Create(n) PROVE m \notin rows'
    BY <1>1, <2>2 DEF Create
  <2>3. CASE rows' \subseteq rows
    BY <1>1, <2>3
  <2>4. ASSUME NEW u \in Urls, UseUrl(u) PROVE m \notin rows'
    BY <2>1, <2>2, <2>3, <2>4 DEF UseUrl, DeleteOriginal, Write, FollowUp
  <2> QED
    BY <1>1, <2>1, <2>2, <2>3, <2>4
    DEF Next, MessageStep, UrlStep, PostMessage, MeMessage, Update, Write, Delete, FetchEnds,
        Trigger, RefuseUrl, Subscribe, Reset, Surviving, Tick, vars, messageVars
<1>2. TypeOK /\ [Next]_vars => [\A m \in used \ rows : m \notin rows']_vars
  BY <1>1
<1> QED BY <1>2, TypeCorrect, PTL DEF Spec, DeletedStaysDeleted

-----------------------------------------------------------------------------
(* The dispatches. *)

LEMMA DispatchInit == Init => DispatchInv
BY DEF Init, DispatchInv

(* What a dispatch of the new message m does to each event.                  *)
LEMMA DispatchEffect ==
  ASSUME TypeOK, DispatchInv, NEW m \in Messages \ used, Dispatch(Opened(m)),
         NEW e \in Events
  PROVE  \/ /\ e[2] = m
            /\ \E a \in Apps \cup {None} :
                 /\ a \notin waiting'[e]
                 /\ posts'[e] = [b \in Apps |-> IF b = a THEN 1 ELSE 0]
         \/ /\ posting'[e] = posting[e]
            /\ waiting'[e] = waiting[e]
            /\ posts'[e] = posts[e]
<1>1. PICK first \in [Opened(m) -> Apps \cup {None}] :
        /\ \A d \in Opened(m) : NextOf(Interested(d[1]), first[d])
        /\ posting' = [d \in Events |-> IF d \in Opened(m) THEN first[d] ELSE posting[d]]
        /\ waiting' = [d \in Events |-> IF d \in Opened(m) THEN Interested(d[1]) \ {first[d]}
                                                           ELSE waiting[d]]
        /\ posts' = [d \in Events |-> IF d \in Opened(m)
             THEN [a \in Apps |-> IF a = first[d] THEN posts[d][a] + 1 ELSE posts[d][a]]
             ELSE posts[d]]
  BY DEF Dispatch
<1>2. CASE e \in Opened(m)
  <2>1. e[2] = m /\ first[e] \in Apps \cup {None}
    BY <1>2 DEF Opened
  <2>2. posts[e] = [a \in Apps |-> 0]
    BY <2>1 DEF DispatchInv
  <2>3. posts'[e] = [b \in Apps |-> IF b = first[e] THEN 1 ELSE 0]
    BY <1>1, <1>2, <2>2
  <2>4. first[e] \notin waiting'[e]
    BY <1>1, <1>2
  <2> QED BY <2>1, <2>3, <2>4
<1>3. CASE e \notin Opened(m)
  BY <1>1, <1>3
<1> QED BY <1>2, <1>3

(* What a fetch that ends does to its event.                                 *)
LEMMA FetchEffect ==
  ASSUME TypeOK, DispatchInv, NEW e \in Events, FetchEnds(e)
  PROVE  /\ e[2] \in used
         /\ \A d \in Events \ {e} : /\ posting'[d] = posting[d]
                                    /\ waiting'[d] = waiting[d]
                                    /\ posts'[d] = posts[d]
         /\ \/ waiting'[e] = waiting[e] /\ posts'[e] = posts[e]
            \/ \E a \in waiting[e] : /\ posts[e][a] = 0
                                     /\ waiting'[e] = waiting[e] \ {a}
                                     /\ posts'[e] = [posts[e] EXCEPT ![a] = 1]
<1>1. PICK a \in Apps \cup {None} :
        /\ NextOf(waiting[e], a)
        /\ posting' = [posting EXCEPT ![e] = a]
        /\ waiting' = [waiting EXCEPT ![e] = @ \ {a}]
        /\ posts' = [posts EXCEPT ![e] = [b \in Apps |-> IF b = a THEN @[b] + 1 ELSE @[b]]]
  BY DEF FetchEnds
<1>2. e[2] \in used
  BY DEF FetchEnds, DispatchInv
<1>3. \A d \in Events \ {e} : /\ posting'[d] = posting[d]
                              /\ waiting'[d] = waiting[d]
                              /\ posts'[d] = posts[d]
  BY <1>1 DEF TypeOK
<1>4. waiting[e] \in SUBSET Apps /\ posts[e] \in [Apps -> Nat]
  BY DEF TypeOK
<1>5. /\ waiting'[e] = waiting[e] \ {a}
      /\ posts'[e] = [b \in Apps |-> IF b = a THEN posts[e][b] + 1 ELSE posts[e][b]]
  BY <1>1 DEF TypeOK
<1>6. CASE a = None
  <2>1. None \notin Apps
    BY AppAssumption
  <2>2. waiting'[e] = waiting[e]
    BY <1>4, <1>5, <1>6, <2>1
  <2>3. posts'[e] = posts[e]
    BY <1>4, <1>5, <1>6, <2>1
  <2> QED BY <1>2, <1>3, <2>2, <2>3
<1>7. CASE a \in waiting[e]
  <2>1. posts[e][a] = 0
    BY <1>7 DEF DispatchInv
  <2>2. posts'[e] = [posts[e] EXCEPT ![a] = 1]
    BY <1>4, <1>5, <1>7, <2>1
  <2> QED BY <1>2, <1>3, <1>5, <1>7, <2>1, <2>2
<1>8. a = None \/ a \in waiting[e]
  BY <1>1, <1>4, NextIsOfLoop
<1> QED BY <1>6, <1>7, <1>8

(* What every other step does to the events: nothing is posted, and a        *)
(* timestamp that is used stays so.                                          *)
LEMMA OtherSteps ==
  ASSUME TypeOK, [Next]_vars
  PROVE  \/ \E m \in Messages : PostMessage(m)
         \/ \E e \in Events : FetchEnds(e)
         \/ UNCHANGED dispatchVars /\ used \subseteq used'
BY DEF Next, MessageStep, UrlStep, MeMessage, Create, Update, Write, Delete, Trigger, UseUrl,
       DeleteOriginal, FollowUp, RefuseUrl, Subscribe, Reset, Tick, vars, messageVars

LEMMA DispatchStep == TypeOK /\ DispatchInv /\ [Next]_vars => DispatchInv'
<1> SUFFICES ASSUME TypeOK, DispatchInv, [Next]_vars, NEW e \in Events
             PROVE  /\ e[2] \notin used' => /\ posting'[e] = None /\ waiting'[e] = {}
                                            /\ posts'[e] = [a \in Apps |-> 0]
                    /\ \A a \in waiting'[e] : posts'[e][a] = 0
  BY DEF DispatchInv
<1> DEFINE Same == posting'[e] = posting[e] /\ waiting'[e] = waiting[e] /\ posts'[e] = posts[e]
<1>1. CASE Same /\ used \subseteq used'
  BY <1>1 DEF DispatchInv
<1> DEFINE Goal == /\ e[2] \notin used' => /\ posting'[e] = None /\ waiting'[e] = {}
                                             /\ posts'[e] = [a \in Apps |-> 0]
                   /\ \A a \in waiting'[e] : posts'[e][a] = 0
<1>2. ASSUME NEW m \in Messages, PostMessage(m) PROVE Goal
  <2>1. m \notin used /\ used' = used \cup {m} /\ Dispatch(Opened(m))
    BY <1>2 DEF PostMessage, Create
  <2>2. CASE Same
    BY <1>1, <2>1, <2>2
  <2>3. ASSUME e[2] = m, NEW a \in Apps \cup {None}, a \notin waiting'[e],
               posts'[e] = [b \in Apps |-> IF b = a THEN 1 ELSE 0]
        PROVE  Goal
    <3>1. waiting'[e] \subseteq Apps
      BY TypeStep DEF TypeOK
    <3> QED BY <2>1, <2>3, <3>1
  <2> QED BY <2>1, <2>2, <2>3, DispatchEffect
<1>3. ASSUME NEW d \in Events, FetchEnds(d) PROVE Goal
  <2>1. used' = used
    BY <1>3 DEF FetchEnds, messageVars
  <2>2. CASE e # d
    BY <1>1, <1>3, <2>1, <2>2, FetchEffect
  <2>3. CASE e = d
    <3>1. e[2] \in used'
      BY <1>3, <2>1, <2>3, FetchEffect
    <3>2. CASE waiting'[e] = waiting[e] /\ posts'[e] = posts[e]
      BY <3>1, <3>2 DEF DispatchInv
    <3>3. ASSUME NEW a \in waiting[e], waiting'[e] = waiting[e] \ {a},
                 posts'[e] = [posts[e] EXCEPT ![a] = 1]
          PROVE  Goal
      <4>1. \A b \in waiting'[e] : b # a /\ b \in waiting[e]
        BY <3>3
      <4>2. waiting[e] \subseteq Apps /\ posts[e] \in [Apps -> Nat]
        BY DEF TypeOK
      <4>3. \A b \in waiting'[e] : posts'[e][b] = 0
        BY <3>3, <4>1, <4>2 DEF DispatchInv
      <4> QED BY <3>1, <4>3
    <3> QED BY <1>3, <2>3, <3>2, <3>3, FetchEffect
  <2> QED BY <2>2, <2>3
<1>4. CASE UNCHANGED dispatchVars /\ used \subseteq used'
  BY <1>1, <1>4 DEF dispatchVars
<1> QED BY <1>2, <1>3, <1>4, OtherSteps

(* The dispatches implement EventFeed: an event is announced once, to the    *)
(* subscriptions that were listed then, and each is posted to exactly once,  *)
(* whatever is created, posted, subscribed or reset meanwhile.               *)
THEOREM FeedIsKept == Spec => FeedKept
<1>a. ASSUME NEW e \in Events, e[2] \in used <=> e[2] \in used',
             waiting'[e] = waiting[e], posts'[e] = posts[e]
      PROVE  Feed!Same(e)
  BY <1>a DEF Feed!Same
<1>b. ASSUME NEW e \in Events, e[2] \notin used, e[2] \in used', posts[e] = [b \in Apps |-> 0],
             \/ posts'[e] = posts[e]
             \/ \E a \in Apps \cup {None} : /\ a \notin waiting'[e]
                                            /\ posts'[e] = [b \in Apps |-> IF b = a THEN 1 ELSE 0]
      PROVE  Feed!Announced(e)
  <2>1. posts[e] = Feed!Once({})
    BY <1>b DEF Feed!Once
  <2>2. CASE posts'[e] = posts[e]
    BY <1>b, <2>1, <2>2 DEF Feed!Announced
  <2>3. ASSUME NEW a \in Apps \cup {None}, a \notin waiting'[e],
               posts'[e] = [b \in Apps |-> IF b = a THEN 1 ELSE 0]
        PROVE  Feed!Announced(e)
    <3>1. CASE a \in Apps
      <4>1. posts'[e] = Feed!Once({a})
        BY <2>3 DEF Feed!Once
      <4> QED BY <1>b, <2>1, <2>3, <3>1, <4>1 DEF Feed!Announced
    <3>2. CASE a = None
      <4>1. posts'[e] = [b \in Apps |-> 0]
        BY <2>3, <3>2, AppAssumption
      <4> QED BY <1>b, <2>1, <4>1 DEF Feed!Announced
    <3> QED BY <3>1, <3>2
  <2> QED BY <1>b, <2>2, <2>3
<1>c. ASSUME NEW e \in Events, e[2] \in used, e[2] \in used',
             NEW a \in waiting[e], posts[e][a] = 0, waiting'[e] = waiting[e] \ {a},
             posts'[e] = [posts[e] EXCEPT ![a] = 1]
      PROVE  Feed!Posted(e)
  BY <1>c DEF Feed!Posted
<1>1. Init => Feed!Init
  BY DEF Init, Feed!Init
<1>2. ASSUME TypeOK, DispatchInv, [Next]_vars PROVE [Feed!Next]_(Feed!vars)
  <2>1. ASSUME NEW m \in Messages, PostMessage(m), NEW e \in Events
        PROVE  Feed!Announced(e) \/ Feed!Same(e)
    <3>1. m \notin used /\ used' = used \cup {m} /\ Dispatch(Opened(m))
      BY <2>1 DEF PostMessage, Create
    <3>2. CASE e[2] = m
      <4>1. e[2] \notin used /\ e[2] \in used' /\ posts[e] = [b \in Apps |-> 0]
        BY <1>2, <3>1, <3>2 DEF DispatchInv
      <4>2. \/ posts'[e] = posts[e]
            \/ \E a \in Apps \cup {None} :
                 /\ a \notin waiting'[e]
                 /\ posts'[e] = [b \in Apps |-> IF b = a THEN 1 ELSE 0]
        BY <1>2, <3>1, DispatchEffect
      <4> QED BY <4>1, <4>2, <1>b
    <3>3. CASE e[2] # m
      BY <1>2, <3>1, <3>3, <1>a, DispatchEffect
    <3> QED BY <3>2, <3>3
  <2>2. ASSUME NEW d \in Events, FetchEnds(d), NEW e \in Events
        PROVE  Feed!Posted(e) \/ Feed!Same(e)
    <3>1. used' = used
      BY <2>2 DEF FetchEnds, messageVars
    <3>2. CASE e # d
      BY <1>2, <2>2, <3>1, <3>2, <1>a, FetchEffect
    <3>3. CASE e = d
      <4>1. e[2] \in used /\ e[2] \in used'
        BY <1>2, <2>2, <3>1, <3>3, FetchEffect
      <4>2. CASE waiting'[e] = waiting[e] /\ posts'[e] = posts[e]
        BY <3>1, <4>2, <1>a
      <4>3. ASSUME NEW a \in waiting[e], posts[e][a] = 0, waiting'[e] = waiting[e] \ {a},
                   posts'[e] = [posts[e] EXCEPT ![a] = 1]
            PROVE  Feed!Posted(e)
        BY <4>1, <4>3, <1>c
      <4> QED BY <1>2, <2>2, <3>3, <4>2, <4>3, FetchEffect
    <3> QED BY <3>2, <3>3
  <2>3. ASSUME UNCHANGED dispatchVars, used \subseteq used', NEW e \in Events
        PROVE  Feed!Announced(e) \/ Feed!Same(e)
    <3>1. waiting'[e] = waiting[e] /\ posts'[e] = posts[e]
      BY <2>3 DEF dispatchVars
    <3>2. CASE e[2] \in used <=> e[2] \in used'
      BY <3>1, <3>2, <1>a
    <3>3. CASE e[2] \notin used /\ e[2] \in used'
      BY <1>2, <3>1, <3>3, <1>b DEF DispatchInv
    <3> QED BY <2>3, <3>2, <3>3
  <2> QED BY <1>2, <2>1, <2>2, <2>3, OtherSteps DEF Feed!Next
<1> QED BY <1>1, <1>2, DispatchInit, DispatchStep, TypeCorrect, PTL
        DEF Spec, FeedKept, Feed!Spec

=============================================================================
