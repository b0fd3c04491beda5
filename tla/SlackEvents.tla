----------------------------- MODULE SlackEvents -----------------------------
(***************************************************************************)
(* The messages of the Slack twin and what acts on them beside each other:  *)
(* the chat methods, the Events API dispatcher, the response URLs of        *)
(* interactions and POST /admin/reset.                                      *)
(*                                                                          *)
(* A handler runs alone until it awaits. dispatch() is called without await *)
(* (fire-and-forget): it runs up to its first fetch within the handler, and *)
(* from then on beside every other dispatch and handler. It posts to the    *)
(* subscriptions that it listed at its start, one after the other.          *)
(*                                                                          *)
(* A message is identified with its ts, which generateMessageTs never       *)
(* repeats within a process, not even after a reset. Fixtures, which bring  *)
(* their own ts, and restarts are left out.                                 *)
(***************************************************************************)
EXTENDS Integers, FiniteSets

CONSTANTS
  Messages,   \* the messages that can be created
  ChannelOf,  \* the channel a message is created in
  AuthorOf,   \* the user whose token creates it
  Mentioning, \* the messages whose text mentions the bot
  Channels,
  Users,
  Bot,        \* U_BOT_TWIN, the author of follow-ups
  Apps,       \* rows of slack_event_subscriptions that can be created
  Interests,  \* the event types of a subscription, "*" included
  None,       \* no app
  Urls,       \* response URLs that can be issued
  UrlUses,    \* usesRemaining of a new entry
  UrlLife,    \* expiresAt - Date.now() of a new entry
  Persistent, \* DB_PATH names a file (TRUE) or is ':memory:' (FALSE)
  MaxTime,    \* bound on the clock
  MaxResets   \* bound on the number of POST /admin/reset

Types == {"message", "app_mention"}

ASSUME MessageAssumption ==
  /\ Bot \in Users
  /\ ChannelOf \in [Messages -> Channels]
  /\ AuthorOf \in [Messages -> Users]
  /\ Mentioning \subseteq Messages
ASSUME AppAssumption == Interests \in [Apps -> SUBSET (Types \cup {"*"})] /\ None \notin Apps
ASSUME UrlAssumption == UrlUses \in Nat \ {0} /\ UrlLife \in Nat
ASSUME ModeAssumption == Persistent \in BOOLEAN
ASSUME BoundAssumption == MaxTime \in Nat /\ MaxResets \in Nat

Events == Types \X Messages

VARIABLES
  rows,      \* slack_messages
  used,      \* the timestamps that were generated
  edited,    \* the messages whose edited_ts is set
  subs,      \* slack_event_subscriptions
  posting,   \* the subscription a dispatch awaits the fetch to, or None
  waiting,   \* the subscriptions a dispatch has still to look at
  responseUrls, \* InteractionHandler.responseUrls: an entry for each live URL
  now,       \* Date.now()
  posts,     \* history: how often an event was posted to a subscription
  effects,   \* history: how often a response URL was honoured
  minted,    \* history: the response URLs that were issued
  resets     \* how many resets have happened

messageVars  == <<rows, used, edited>>
dispatchVars == <<posting, waiting, posts>>
urlVars      == <<responseUrls, effects, minted>>
vars == <<messageVars, subs, dispatchVars, urlVars, now, resets>>

Init ==
  /\ rows     = {}
  /\ used     = {}
  /\ edited   = {}
  /\ subs     = {}
  /\ posting  = [e \in Events |-> None]
  /\ waiting  = [e \in Events |-> {}]
  /\ responseUrls = [u \in {} |-> {}]
  /\ now      = 0
  /\ posts    = [e \in Events |-> [a \in Apps |-> 0]]
  /\ effects  = [u \in Urls |-> 0]
  /\ minted   = {}
  /\ resets   = 0

-----------------------------------------------------------------------------
(* The dispatcher. *)

(* The subscriptions that are interested in events of a type. *)
Interested(type) == {a \in subs : {"*", type} \cap Interests[a] # {}}

(* The next fetch of a loop over S: a is posted to, unless S is empty.       *)
NextOf(S, a) == (S = {} /\ a = None) \/ a \in S

(* The dispatches that creating m begins, each up to its first fetch.        *)
Opened(m) == {e \in Events : e[2] = m /\ (e[1] = "message" \/ m \in Mentioning)}

Dispatch(opened) ==
  \E first \in [opened -> Apps \cup {None}] :
    /\ \A e \in opened : NextOf(Interested(e[1]), first[e])
    /\ posting' = [e \in Events |-> IF e \in opened THEN first[e] ELSE posting[e]]
    /\ waiting' = [e \in Events |-> IF e \in opened THEN Interested(e[1]) \ {first[e]}
                                                    ELSE waiting[e]]
    /\ posts' = [e \in Events |-> IF e \in opened
                   THEN [a \in Apps |-> IF a = first[e] THEN posts[e][a] + 1 ELSE posts[e][a]]
                   ELSE posts[e]]

(* A slip: the subscriptions are listed anew after every fetch. *)
FetchEndsAnew(e) ==
  /\ posting[e] # None
  /\ \E a \in Apps \cup {None} :
       /\ NextOf(Interested(e[1]) \ {posting[e]}, a)
       /\ posting' = [posting EXCEPT ![e] = a]
       /\ waiting' = [waiting EXCEPT ![e] = (Interested(e[1]) \ {posting[e]}) \ {a}]
       /\ posts' = [posts EXCEPT ![e] = [b \in Apps |-> IF b = a THEN @[b] + 1 ELSE @[b]]]
  /\ UNCHANGED <<messageVars, subs, urlVars, now, resets>>

(* A slip: a failing delivery leaves the loop. *)
FetchFailsAll(e) ==
  /\ posting[e] # None
  /\ \/ \E a \in Apps \cup {None} :
          /\ NextOf(waiting[e], a)
          /\ posting' = [posting EXCEPT ![e] = a]
          /\ waiting' = [waiting EXCEPT ![e] = @ \ {a}]
          /\ posts' = [posts EXCEPT ![e] = [b \in Apps |-> IF b = a THEN @[b] + 1 ELSE @[b]]]
     \/ /\ posting' = [posting EXCEPT ![e] = None]
        /\ UNCHANGED <<waiting, posts>>
  /\ UNCHANGED <<messageVars, subs, urlVars, now, resets>>

(* A fetch is answered, refused or timed out, which is logged at most, and   *)
(* the loop goes on to the next interested subscription.                     *)
FetchEnds(e) ==
  /\ posting[e] # None
  /\ \E a \in Apps \cup {None} :
       /\ NextOf(waiting[e], a)
       /\ posting' = [posting EXCEPT ![e] = a]
       /\ waiting' = [waiting EXCEPT ![e] = @ \ {a}]
       /\ posts' = [posts EXCEPT ![e] = [b \in Apps |-> IF b = a THEN @[b] + 1 ELSE @[b]]]
  /\ UNCHANGED <<messageVars, subs, urlVars, now, resets>>

-----------------------------------------------------------------------------
(* The chat methods, past the checks of token, scope and rate. *)

(* The row of a message with a new ts. *)
Create(m) ==
  /\ m \notin used
  /\ used' = used \cup {m}
  /\ rows' = rows \cup {m}
  /\ UNCHANGED edited

(* chat.postMessage *)
PostMessage(m) ==
  /\ Create(m)
  /\ Dispatch(Opened(m))
  /\ UNCHANGED <<subs, urlVars, now, resets>>

(* chat.meMessage, which dispatches nothing *)
MeMessage(m) ==
  /\ Create(m)
  /\ UNCHANGED <<subs, dispatchVars, urlVars, now, resets>>

(* A slip: the row is not looked for. *)
WriteBlindly(m) ==
  /\ rows' = rows \cup {m}
  /\ edited' = edited \cup {m}
  /\ UNCHANGED used

(* SlackStateManager.updateMessage *)
Write(m) ==
  /\ \/ m \in rows /\ edited' = edited \cup {m}
     \/ m \notin rows /\ UNCHANGED edited
  /\ UNCHANGED <<rows, used>>

(* chat.update, for the author and the channel of the message only *)
Update(m, user, c) ==
  /\ m \in rows
  /\ c = ChannelOf[m] /\ user = AuthorOf[m]
  /\ Write(m)
  /\ UNCHANGED <<subs, dispatchVars, urlVars, now, resets>>

(* chat.delete, likewise *)
Delete(m, user, c) ==
  /\ m \in rows
  /\ c = ChannelOf[m] /\ user = AuthorOf[m]
  /\ rows' = rows \ {m}
  /\ edited' = edited \ {m}
  /\ UNCHANGED <<used, subs, dispatchVars, urlVars, now, resets>>

-----------------------------------------------------------------------------
(* Response URLs. *)

(* ResponseUrlEntry *)
Entries == [messageTs: Messages, channelId: Channels, usesRemaining: 0..UrlUses, expiresAt: Nat]

(* POST /admin/interactions/trigger: neither the message nor that it is in   *)
(* that channel is verified. The payload is posted while the URL is valid.   *)
Trigger(u, m, c) ==
  /\ u \notin minted
  /\ minted' = minted \cup {u}
  /\ responseUrls' = [v \in DOMAIN responseUrls \cup {u} |->
       IF v = u THEN [messageTs |-> m, channelId |-> c,
                      usesRemaining |-> UrlUses, expiresAt |-> now + UrlLife]
                ELSE responseUrls[v]]
  /\ UNCHANGED <<messageVars, subs, dispatchVars, now, effects, resets>>

(* A slip: a URL whose uses are spent is looked at once more. *)
UsableOnceMore(u) ==
  /\ u \in DOMAIN responseUrls
  /\ now <= responseUrls[u].expiresAt

(* A URL that is neither expired nor spent. *)
Usable(u) ==
  /\ u \in DOMAIN responseUrls
  /\ now <= responseUrls[u].expiresAt
  /\ responseUrls[u].usesRemaining > 0

(* delete_original: by ts and channel *)
DeleteOriginal(m, c) ==
  /\ \/ ChannelOf[m] = c /\ rows' = rows \ {m} /\ edited' = edited \ {m}
     \/ ChannelOf[m] # c /\ UNCHANGED <<rows, edited>>
  /\ UNCHANGED used

(* The default: a follow-up, for which nothing is dispatched. *)
FollowUp(c) ==
  \E m \in Messages : ChannelOf[m] = c /\ AuthorOf[m] = Bot /\ Create(m)

(* POST /response-url/:id. The use is counted whether or not the original is *)
(* still there, which replace_original looks for by ts alone.                *)
UseUrl(u) ==
  /\ Usable(u)
  /\ responseUrls' = [responseUrls EXCEPT ![u].usesRemaining = @ - 1]
  /\ effects' = [effects EXCEPT ![u] = @ + 1]
  /\ \/ DeleteOriginal(responseUrls[u].messageTs, responseUrls[u].channelId)
     \/ Write(responseUrls[u].messageTs)
     \/ FollowUp(responseUrls[u].channelId)
  /\ UNCHANGED <<minted, subs, dispatchVars, now, resets>>

(* The call that finds its URL expired or spent forgets it: 410. *)
RefuseUrl(u) ==
  /\ u \in DOMAIN responseUrls /\ ~Usable(u)
  /\ responseUrls' = [v \in DOMAIN responseUrls \ {u} |-> responseUrls[v]]
  /\ UNCHANGED <<messageVars, subs, dispatchVars, effects, minted, now, resets>>

-----------------------------------------------------------------------------
Subscribe(a) ==
  /\ a \notin subs
  /\ subs' = subs \cup {a}
  /\ UNCHANGED <<messageVars, dispatchVars, urlVars, now, resets>>

(* What is left of a table once its database was closed and opened again.    *)
Surviving(table) == IF Persistent THEN table ELSE {}

(* POST /admin/reset. Dispatches that are under way and response URLs are no *)
(* state of the SlackStateManager.                                           *)
Reset ==
  /\ resets < MaxResets
  /\ resets' = resets + 1
  /\ rows' = Surviving(rows)
  /\ edited' = Surviving(edited)
  /\ subs' = Surviving(subs)
  /\ UNCHANGED <<used, dispatchVars, urlVars, now>>

Tick ==
  /\ now < MaxTime
  /\ now' = now + 1
  /\ UNCHANGED <<messageVars, subs, dispatchVars, urlVars, resets>>

MessageStep(m) ==
  \/ PostMessage(m)
  \/ MeMessage(m)
  \/ \E user \in Users, c \in Channels : Update(m, user, c) \/ Delete(m, user, c)

UrlStep(u) ==
  \/ \E m \in Messages, c \in Channels : Trigger(u, m, c)
  \/ UseUrl(u)
  \/ RefuseUrl(u)

Next ==
  \/ \E m \in Messages : MessageStep(m)
  \/ \E e \in Events : FetchEnds(e)
  \/ \E u \in Urls : UrlStep(u)
  \/ \E a \in Apps : Subscribe(a)
  \/ Reset
  \/ Tick

Spec == Init /\ [][Next]_vars

(* Every fetch ends, after five seconds at the latest. *)
Fairness == \A e \in Events : WF_vars(FetchEnds(e))

FairSpec == Spec /\ Fairness

-----------------------------------------------------------------------------
(* Properties. *)

(* Every variable keeps its type. *)
TypeOK ==
  /\ rows \subseteq used
  /\ used \subseteq Messages
  /\ edited \subseteq rows
  /\ subs \subseteq Apps
  /\ posting \in [Events -> Apps \cup {None}]
  /\ waiting \in [Events -> SUBSET Apps]
  /\ DOMAIN responseUrls \subseteq minted
  /\ \A u \in DOMAIN responseUrls : responseUrls[u] \in Entries
  /\ minted \subseteq Urls
  /\ now \in 0..MaxTime
  /\ posts \in [Events -> [Apps -> Nat]]
  /\ effects \in [Urls -> Nat]
  /\ resets \in 0..MaxResets

(* "Response URLs are usable 5 times": the uses that an entry has left and   *)
(* those that were honoured always add up, and a URL that was forgotten is   *)
(* never honoured again, whatever became of its message and of the workspace *)
(* meanwhile.                                                                *)
UrlBounded ==
  /\ \A u \in Urls : effects[u] <= UrlUses
  /\ \A u \in DOMAIN responseUrls : effects[u] + responseUrls[u].usesRemaining = UrlUses

(* A message that was deleted, by its author, by a response URL or by a      *)
(* reset, never comes back: replace_original may arrive after the deletion.  *)
DeletedStaysDeleted == [][\A m \in used \ rows : m \notin rows']_vars

(* "individual delivery failure is non-fatal": a dispatch works off all the   *)
(* subscriptions that it listed, whatever they answer and even if the twin   *)
(* is reset meanwhile. By FeedKept it leaves none out.                       *)
EveryAppServed == \A e \in Events : waiting[e] # {} ~> waiting[e] = {}

(* The dispatches, seen from the subscribers: see EventFeed.                 *)
Feed == INSTANCE EventFeed WITH
  announced <- {e \in Events : e[2] \in used}, owed <- waiting

FeedKept == Feed!Spec

=============================================================================
