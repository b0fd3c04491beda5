--------------------------- MODULE SlackWorkspace ---------------------------
(***************************************************************************)
(* The workspace of the Slack twin: channels, users, membership, messages,  *)
(* reactions, pins and modal views, as the Web API, the UI and the fixtures *)
(* change them, across resets and restarts, in memory or over a file.       *)
(*                                                                          *)
(* Every table is independent of the others: no foreign key, no cascade and *)
(* hardly any check that a row named by a call exists. Calls are those that *)
(* passed the checks of SlackAccess; a handler never awaits, so that each   *)
(* is one step. The methods that only answer (join, leave, close, mark,     *)
(* Slack Connect, publish, the user setters) change nothing.                *)
(*                                                                          *)
(* A name, a topic and a purpose are each written by one call and kept by   *)
(* the others: one label stands for the three. The clock counts seconds and *)
(* never goes back; the ts of a fixture lies before it.                     *)
(***************************************************************************)
EXTENDS Ranking, Sequences

CONSTANTS
  General,  \* C_GENERAL
  Bot,      \* U_BOT_TWIN
  Ids,      \* channel ids that the program draws
  Users,    \* the users of the workspace but the bot, ordered as their ids
  Lists,    \* the lists of users given to conversations.open
  Batches,  \* bodies of POST /admin/fixtures/load: records of channels, messages
  Emojis,
  ViewIds,
  Labels,   \* what a channel or a view can be named
  None,     \* an absent parameter
  MaxTime,  \* bound on the clock, in seconds
  MaxPosts, \* bound on the messages posted by one process
  MaxCalls  \* bound on the calls

NoLabel == "" \* the label of a direct channel, and of C_GENERAL

\* A list of users is joined to the id of their direct channel, in the order of
\* their ids: it tells how often each of them is named, and nothing else.
DirectIdAsGiven(list) == <<"D", list>>

SortedUsers(list) == [k \in 1 .. Len(list) |-> list[InOrder(1 .. Len(list), list)[k]]]

DirectId(list) == <<"D", SortedUsers(list)>>

\* The ids that the program draws are nobody else's; fixtures are of the past.
ASSUME UserAssumption == Users \subseteq Nat /\ Lists \subseteq Seq(Users)
ASSUME BatchAssumption ==
  \A b \in Batches : b.channels \cap Ids = {} /\ b.messages \in Seq({0} \X Nat)
ASSUME IdAssumption == General \notin Ids /\ \A l \in Lists : DirectId(l) \notin Ids
ASSUME LabelAssumption == None \notin Labels /\ NoLabel \notin Labels
ASSUME BoundAssumption == {MaxTime, MaxPosts, MaxCalls} \subseteq Nat /\ MaxTime > 0

VARIABLES
  onDisk,    \* DB_PATH names a file
  channels,  \* slack_channels
  users,     \* slack_users
  members,   \* slack_channel_members
  messages,  \* slack_messages: the channel of each ts
  reactions, \* slack_reactions
  pins,      \* slack_pins
  views,     \* slack_views
  counter,   \* messageCounter of id-generator.ts
  now,       \* the second
  drawn,     \* the random ids in use or used
  refused,   \* history: the seconds in which a post failed on the UNIQUE ts
  restarted, \* history: the seconds in which a process over a file restarted
  calls

tables  == <<channels, users, members, messages, reactions, pins, views>>
history == <<refused, restarted>>
vars    == <<onDisk, tables, counter, now, drawn, history, calls>>

Seeded == [label |-> NoLabel, archived |-> FALSE]

Init ==
  /\ onDisk    \in BOOLEAN
  /\ channels  = [c \in {General} |-> Seeded]
  /\ users     = {Bot}
  /\ members   = {}
  /\ messages  = [t \in {} |-> General]
  /\ reactions = {}
  /\ pins      = {}
  /\ views     = [v \in {} |-> NoLabel]
  /\ counter   = 0
  /\ now       = 1
  /\ drawn     = {}
  /\ refused   = {}
  /\ restarted = {}
  /\ calls     = 0

\* What every call leaves as it is.
Call == calls < MaxCalls /\ calls' = calls + 1 /\ UNCHANGED <<onDisk, now, restarted>>

\* rows with a row x under key k, in place of the one there may be.
Replaced(rows, k, x) == [i \in DOMAIN rows \cup {k} |-> IF i = k THEN x ELSE rows[i]]
Without(rows, k) == [i \in DOMAIN rows \ {k} |-> rows[i]]

-----------------------------------------------------------------------------
(* Channels                                                                 *)

ChannelFrame == UNCHANGED <<users, members, messages, reactions, pins, views, counter, refused>>

CreateChannel(c, l) ==
  /\ c \in Ids \ drawn /\ drawn' = drawn \cup {c}
  /\ channels' = Replaced(channels, c, [label |-> l, archived |-> FALSE])
  /\ Call /\ ChannelFrame

UiCreateChannel(c, l) == CreateChannel(c, l)

\* updateChannel: the columns that the call does not name keep their value.
UpdateChannel(c, l, archived) ==
  /\ c \in DOMAIN channels
  /\ channels' = Replaced(channels, c,
       [label    |-> IF l = None THEN channels[c].label ELSE l,
        archived |-> IF archived = None THEN channels[c].archived ELSE archived])
  /\ UNCHANGED drawn /\ Call /\ ChannelFrame

Archive(c) == UpdateChannel(c, None, TRUE)
Unarchive(c) == UpdateChannel(c, None, FALSE)
Rename(c, l) == UpdateChannel(c, l, None)
SetPurpose(c, l) == UpdateChannel(c, l, None)
SetTopic(c, l) == UpdateChannel(c, l, None)
UiUpdateChannel(c, l) == UpdateChannel(c, l, None)

\* The rows of the other tables that name the channel stay.
UiDeleteChannel(c) ==
  /\ c \in DOMAIN channels
  /\ channels' = Without(channels, c)
  /\ UNCHANGED drawn /\ Call /\ ChannelFrame

\* A direct channel is created once, and answered as it is from then on.
Opened(list) ==
  IF DirectId(list) \in DOMAIN channels THEN channels
  ELSE Replaced(channels, DirectId(list), Seeded)

Open(list) ==
  /\ channels' = Opened(list)
  /\ UNCHANGED drawn /\ Call /\ ChannelFrame

\* Without users the id is drawn.
OpenEmpty(c) == CreateChannel(c, NoLabel)

-----------------------------------------------------------------------------
(* Members, pins, reactions                                                 *)

SetFrame == UNCHANGED <<channels, users, messages, views, counter, drawn, refused>>

\* The users invited need not exist, nor is num_members kept.
Invite(c, us) ==
  /\ c \in DOMAIN channels
  /\ members' = members \cup ({c} \X us)
  /\ UNCHANGED <<reactions, pins>> /\ Call /\ SetFrame

Kick(c, u) ==
  /\ c \in DOMAIN channels
  /\ members' = members \ {<<c, u>>}
  /\ UNCHANGED <<reactions, pins>> /\ Call /\ SetFrame

\* Every ts a client may have seen: stored, deleted, or of another channel.
Stamps == DOMAIN messages \cup {r.ts : r \in reactions} \cup {p[2] : p \in pins}

Reaction(t, c, u, e) == [ts |-> t, channel |-> c, user |-> u, name |-> e]

\* The unique index refuses the second one: already_reacted.
AddReaction(t, c, u, e) ==
  /\ Reaction(t, c, u, e) \notin reactions
  /\ reactions' = reactions \cup {Reaction(t, c, u, e)}
  /\ UNCHANGED <<members, pins>> /\ Call /\ SetFrame

AllOfThem(t, c, u, e) == {r \in reactions : r.ts = t /\ r.channel = c /\ r.name = e}

Mine(t, c, u, e) == {r \in reactions : r = Reaction(t, c, u, e)}

RemoveReaction(t, c, u, e) ==
  /\ reactions' = reactions \ Mine(t, c, u, e)
  /\ UNCHANGED <<members, pins>> /\ Call /\ SetFrame

AddPin(c, t) ==
  /\ <<c, t>> \notin pins
  /\ pins' = pins \cup {<<c, t>>}
  /\ UNCHANGED <<members, reactions>> /\ Call /\ SetFrame

RemovePin(c, t) ==
  /\ pins' = pins \ {<<c, t>>}
  /\ UNCHANGED <<members, reactions>> /\ Call /\ SetFrame

-----------------------------------------------------------------------------
(* Messages                                                                 *)

StoredAnyway(rows, t, c) == Replaced(rows, t, c)

\* createMessage: the UNIQUE ts refuses a second row and keeps the first.
Stored(rows, t, c) == IF t \in DOMAIN rows THEN rows ELSE Replaced(rows, t, c)

\* generateMessageTs counts first; the channel of POST /ui/channels/:id/message
\* need not exist.
Post(c) ==
  LET t == <<now, counter + 1>>
  IN
  /\ counter < MaxPosts /\ counter' = counter + 1
  /\ messages' = Stored(messages, t, c)
  /\ refused' = IF t \in DOMAIN messages THEN refused \cup {now} ELSE refused
  /\ UNCHANGED <<channels, users, members, reactions, pins, views, drawn>> /\ Call

\* chat.delete leaves the reactions and the pins of the message.
DeleteMessage(t) ==
  /\ t \in DOMAIN messages
  /\ messages' = Without(messages, t)
  /\ UNCHANGED <<channels, users, members, reactions, pins, views, counter, drawn, refused>>
  /\ Call

-----------------------------------------------------------------------------
(* Views and users                                                          *)

ViewFrame == UNCHANGED <<channels, users, members, messages, reactions, pins, counter, refused>>

\* views.open and views.push store a view under an id they draw.
OpenView(v, l) ==
  /\ v \in ViewIds \ drawn /\ drawn' = drawn \cup {v}
  /\ views' = Replaced(views, v, l)
  /\ Call /\ ViewFrame

PushView(v, l) == OpenView(v, l)

\* An update that names no such view changes nothing.
UpdateView(v, l) ==
  /\ v \in DOMAIN views
  /\ views' = Replaced(views, v, IF l = None THEN views[v] ELSE l)
  /\ UNCHANGED drawn /\ Call /\ ViewFrame

SetUsers(us) ==
  /\ users' = us
  /\ UNCHANGED <<channels, members, messages, reactions, pins, views, counter, drawn, refused>>
  /\ Call

UiCreateUser(u) == u \notin users /\ SetUsers(users \cup {u})
UiDeleteUser(u) == u \in users /\ SetUsers(users \ {u})

-----------------------------------------------------------------------------
(* Fixtures                                                                 *)

\* The messages of a batch that come before the first whose ts is taken, by a
\* row or by a message of the batch.
Accepted(rows, ts) ==
  {i \in DOMAIN ts : \A j \in 1 .. i :
     ts[j] \notin DOMAIN rows /\ \A k \in 1 .. j - 1 : ts[k] # ts[j]}

\* They are inserted one by one; the channel of one that names none is General.
Inserted(rows, ts) ==
  [t \in DOMAIN rows \cup {ts[i] : i \in Accepted(rows, ts)} |->
     IF t \in DOMAIN rows THEN rows[t] ELSE General]

\* A channel that exists is replaced: it loses its topic and its archiving.
LoadFixtures(b) ==
  /\ channels' = [c \in DOMAIN channels \cup b.channels |->
                    IF c \in b.channels THEN Seeded ELSE channels[c]]
  /\ messages' = Inserted(messages, b.messages)
  /\ UNCHANGED <<users, members, reactions, pins, views, counter, drawn, refused>> /\ Call

\* POST /ui/admin/fixtures draws its ids, so that each use adds its rows again.
UiFixtures(c, d) ==
  /\ c # d /\ {c, d} \subseteq Ids \ drawn /\ drawn' = drawn \cup {c, d}
  /\ \E l \in Labels : channels' = Replaced(Replaced(channels, c, [label |-> l, archived |-> FALSE]),
                                            d, [label |-> l, archived |-> FALSE])
  /\ users' = users \cup Users
  /\ UNCHANGED <<members, messages, reactions, pins, views, counter, refused>> /\ Call

-----------------------------------------------------------------------------
(* Reset and restart: ':memory:' starts anew, a file keeps its rows; either *)
(* way the defaults are written over what is there.                         *)

SeedDefaults ==
  /\ channels' = Replaced(IF onDisk THEN channels ELSE [c \in {} |-> Seeded], General, Seeded)
  /\ users'    = (IF onDisk THEN users ELSE {}) \cup {Bot}

Kept(rows, none) == IF onDisk THEN rows ELSE none

Reopen ==
  /\ SeedDefaults
  /\ members'   = Kept(members, {})
  /\ messages'  = Kept(messages, [t \in {} |-> General])
  /\ reactions' = Kept(reactions, {})
  /\ pins'      = Kept(pins, {})
  /\ views'     = Kept(views, [v \in {} |-> NoLabel])
  /\ calls < MaxCalls /\ calls' = calls + 1
  /\ UNCHANGED <<onDisk, now, drawn, refused>>

CounterRewound == 0

\* The counter belongs to the process, not to the state manager.
CounterAfterReset == counter

Reset ==
  /\ Reopen
  /\ counter' = CounterAfterReset
  /\ UNCHANGED restarted

\* A crash or a stop, and a start of the program.
Restart ==
  /\ Reopen
  /\ counter' = 0
  /\ restarted' = IF onDisk THEN restarted \cup {now} ELSE restarted

Tick ==
  /\ now < MaxTime /\ now' = now + 1
  /\ UNCHANGED <<onDisk, tables, counter, drawn, history, calls>>

-----------------------------------------------------------------------------
Everyone == Users \cup {Bot}
DirectIds == {DirectId(l) : l \in Lists}
AllChannels == {General} \cup Ids \cup DirectIds \cup UNION {b.channels : b \in Batches}

Channeled ==
  \/ \E c \in Ids, l \in Labels : CreateChannel(c, l) \/ UiCreateChannel(c, l)
  \/ \E c \in DOMAIN channels :
        \/ Archive(c) \/ Unarchive(c) \/ UiDeleteChannel(c)
        \/ \E l \in Labels : Rename(c, l) \/ UiUpdateChannel(c, l)
        \/ \E l \in Labels \cup {NoLabel} : SetTopic(c, l) \/ SetPurpose(c, l)
  \/ \E l \in Lists : Open(l)
  \/ \E c \in Ids : OpenEmpty(c)

Related ==
  \/ \E c \in DOMAIN channels, u \in Everyone : Invite(c, {u}) \/ Kick(c, u)
  \/ \E c \in DOMAIN channels : Invite(c, Users)
  \/ \E t \in Stamps, c \in {General} \cup Ids :
        \/ AddPin(c, t) \/ RemovePin(c, t)
        \/ \E u \in Everyone, e \in Emojis : AddReaction(t, c, u, e) \/ RemoveReaction(t, c, u, e)

Written ==
  \/ \E c \in {General} \cup Ids : Post(c)
  \/ \E t \in DOMAIN messages : DeleteMessage(t)
  \/ \E v \in ViewIds, l \in Labels : OpenView(v, l) \/ PushView(v, l)
  \/ \E v \in ViewIds, l \in Labels \cup {None} : UpdateView(v, l)
  \/ \E u \in Users : UiCreateUser(u)
  \/ \E u \in Everyone : UiDeleteUser(u)

Administered ==
  \/ \E b \in Batches : LoadFixtures(b)
  \/ \E c, d \in Ids : UiFixtures(c, d)
  \/ Reset \/ Restart

Next == Channeled \/ Related \/ Written \/ Administered \/ Tick

Spec == Init /\ [][Next]_vars

-----------------------------------------------------------------------------
(* Every row is of a kind the program writes; a message has a channel.       *)
TypeOK ==
  /\ onDisk \in BOOLEAN
  /\ DOMAIN channels \subseteq AllChannels
  /\ \A c \in DOMAIN channels :
        channels[c] \in [label : Labels \cup {NoLabel}, archived : BOOLEAN]
  /\ users \subseteq Everyone
  /\ members \subseteq AllChannels \X Everyone
  /\ \A t \in DOMAIN messages : messages[t] \in AllChannels
  /\ pins \subseteq ({General} \cup Ids) \X Stamps
  /\ DOMAIN views \subseteq ViewIds
  /\ counter \in 0 .. MaxPosts /\ now \in 1 .. MaxTime
  /\ drawn \subseteq Ids \cup ViewIds
  /\ refused \subseteq 1 .. MaxTime /\ restarted \subseteq 1 .. MaxTime

(* Two people, or a group, have one direct channel: in whatever order its    *)
(* users are named and however often the call is retried, conversations.open *)
(* never makes a second one.                                                *)
OneDirectPerGroup ==
  \A c, d \in DOMAIN channels \cap DirectIds :
    (\A u \in Users : Cardinality({i \in DOMAIN c[2] : c[2][i] = u})
                        = Cardinality({i \in DOMAIN d[2] : d[2][i] = u})) => c = d

(* An archived channel is live again only by conversations.unarchive, by     *)
(* fixtures that name it or, C_GENERAL alone, by the defaults that a reset   *)
(* or a restart writes: opening a direct channel again does not revive it.   *)
ArchivedStays ==
  [][\A c \in DOMAIN channels \cap DOMAIN channels' :
       (channels[c].archived /\ ~channels'[c].archived) =>
         \/ Unarchive(c)
         \/ \E b \in Batches : c \in b.channels /\ LoadFixtures(b)
         \/ c = General /\ (Reset \/ Restart)]_vars

(* A call takes away at most one reaction, pin or membership, whoever else   *)
(* reacted, pinned or joined, and a channel or a message that is deleted     *)
(* takes none with it; only an empty database loses more.                    *)
NoCollateralLoss ==
  [][(~onDisk /\ (Reset \/ Restart)) \/
       Cardinality(reactions \ reactions') + Cardinality(pins \ pins')
         + Cardinality(members \ members') <= 1]_vars

(* A message that is stored is never replaced by one that got the same ts.   *)
MessagesStay ==
  [][\A t \in DOMAIN messages \cap DOMAIN messages' : messages'[t] = messages[t]]_vars

(* A post fails on its ts only over a file, in the second of a restart: the  *)
(* counter starts again beside the rows of the process before. A reset, as   *)
(* often as it comes, never makes a post fail.                               *)
RefusedOnlyByRestart == refused \subseteq restarted
=============================================================================
