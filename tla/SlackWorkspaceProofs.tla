------------------------- MODULE SlackWorkspaceProofs -------------------------
(***************************************************************************)
(* SlackWorkspace and Paging for any users, channels, lists, fixtures, page *)
(* sizes and bounds. Both rest on sorting, so that what is known of Ranking *)
(* comes first: the id of a direct channel is a sorted list, and a page is  *)
(* a part of one. What else they declare has nothing to do with each other. *)
(***************************************************************************)
EXTENDS SlackWorkspace, Paging, FiniteSetTheorems, FunctionTheorems, SequenceTheorems, TLAPS

-----------------------------------------------------------------------------
(* Sorting                                                                  *)

\* The numbers up to n.
LEMMA UpTo ==
  ASSUME NEW n \in Nat
  PROVE  /\ IsFiniteSet(1 .. n) /\ Cardinality(1 .. n) = n
         /\ \A m \in Nat : 1 .. m = 1 .. n => m = n
<1>1. IsFiniteSet(1 .. n) /\ Cardinality(1 .. n) = IF 1 > n THEN 0 ELSE n - 1 + 1
  BY FS_Interval
<1>2. ASSUME NEW m \in Nat, 1 .. m = 1 .. n PROVE m = n
  <2>1. m \in 1 .. m \/ m = 0
    OBVIOUS
  <2>2. n \in 1 .. n \/ n = 0
    OBVIOUS
  <2> QED BY <1>2, <2>1, <2>2
<1> QED BY <1>1, <1>2

LEMMA PrecedesIsOrder ==
  ASSUME NEW S, S \subseteq Int, NEW key, \A i \in S : key[i] \in Int
  PROVE  /\ \A i \in S : ~Precedes(key, i, i)
         /\ \A i, j, k \in S : Precedes(key, i, j) /\ Precedes(key, j, k) => Precedes(key, i, k)
         /\ \A i, j \in S : i = j \/ Precedes(key, i, j) \/ Precedes(key, j, i)
BY DEF Precedes

\* What comes before an element comes before the next one too, and so does the
\* element.
LEMMA AheadGrows ==
  ASSUME NEW S, IsFiniteSet(S), S \subseteq Int, NEW key, \A i \in S : key[i] \in Int,
         NEW i \in S, NEW j \in S, Precedes(key, i, j)
  PROVE  Cardinality(Ahead(S, key, i)) < Cardinality(Ahead(S, key, j))
<1>1. Ahead(S, key, i) \cup {i} \subseteq Ahead(S, key, j)
  BY PrecedesIsOrder DEF Ahead
<1>2. i \notin Ahead(S, key, i)
  BY PrecedesIsOrder DEF Ahead
<1>3. IsFiniteSet(Ahead(S, key, i)) /\ IsFiniteSet(Ahead(S, key, j))
  BY FS_Subset DEF Ahead
<1>4. Cardinality(Ahead(S, key, i) \cup {i}) = Cardinality(Ahead(S, key, i)) + 1
  BY <1>2, <1>3, FS_AddElement
<1>5. Cardinality(Ahead(S, key, i) \cup {i}) <= Cardinality(Ahead(S, key, j))
  BY <1>1, <1>3, FS_Subset
<1> QED BY <1>3, <1>4, <1>5, FS_CardinalityType

\* No two elements take the same place.
LEMMA PlacesDiffer ==
  ASSUME NEW S, IsFiniteSet(S), S \subseteq Int, NEW key, \A i \in S : key[i] \in Int,
         NEW i \in S, NEW j \in S,
         Cardinality(Ahead(S, key, i)) >= Cardinality(Ahead(S, key, j))
  PROVE  ~Precedes(key, i, j)
<1> SUFFICES ASSUME Precedes(key, i, j) PROVE FALSE
  OBVIOUS
<1>1. Cardinality(Ahead(S, key, i)) < Cardinality(Ahead(S, key, j))
  BY AheadGrows
<1>2. IsFiniteSet(Ahead(S, key, i)) /\ IsFiniteSet(Ahead(S, key, j))
  BY FS_Subset DEF Ahead
<1>3. Cardinality(Ahead(S, key, i)) \in Nat /\ Cardinality(Ahead(S, key, j)) \in Nat
  BY <1>2, FS_CardinalityType
<1> QED BY <1>1, <1>3

\* Every place is taken by one element.
LEMMA EveryPlaceTaken ==
  ASSUME NEW S, IsFiniteSet(S), S \subseteq Int, NEW key, \A i \in S : key[i] \in Int
  PROVE  \A k \in 1 .. Cardinality(S) : \E i \in S : Cardinality(Ahead(S, key, i)) = k - 1
<1> DEFINE n     == Cardinality(S)
           place == [i \in S |-> Cardinality(Ahead(S, key, i)) + 1]
<1>1. n \in Nat /\ IsFiniteSet(1 .. n) /\ Cardinality(1 .. n) = n
  <2>1. n \in Nat
    BY FS_CardinalityType
  <2> HIDE DEF n
  <2> QED BY <2>1, UpTo
<1>2. ASSUME NEW i \in S PROVE Cardinality(Ahead(S, key, i)) \in 0 .. n - 1
  <2>1. Ahead(S, key, i) \subseteq S \ {i}
    <3>1. ~Precedes(key, i, i)
      BY PrecedesIsOrder
    <3> QED BY <3>1 DEF Ahead
  <2>2. IsFiniteSet(S \ {i}) /\ Cardinality(S \ {i}) = n - 1
    BY FS_RemoveElement
  <2>3. /\ IsFiniteSet(Ahead(S, key, i)) /\ Cardinality(Ahead(S, key, i)) <= n - 1
    BY <2>1, <2>2, FS_Subset
  <2>4. Cardinality(Ahead(S, key, i)) \in Nat
    BY <2>3, FS_CardinalityType
  <2> HIDE DEF n
  <2> QED BY <2>3, <2>4, <1>1
<1> HIDE DEF n
<1>3. place \in [S -> 1 .. n]
  BY <1>1, <1>2
<1>4. ASSUME NEW i \in S, NEW j \in S, place[i] = place[j] PROVE i = j
  <2>1. Cardinality(Ahead(S, key, i)) = Cardinality(Ahead(S, key, j))
    BY <1>1, <1>2, <1>4
  <2>2. ~Precedes(key, i, j) /\ ~Precedes(key, j, i)
    <3>1. /\ Cardinality(Ahead(S, key, i)) >= Cardinality(Ahead(S, key, j))
          /\ Cardinality(Ahead(S, key, j)) >= Cardinality(Ahead(S, key, i))
      BY <1>1, <1>2, <2>1
    <3> QED BY <3>1, PlacesDiffer
  <2> QED BY <2>2, PrecedesIsOrder
<1> HIDE DEF place
<1>5. place \in Injection(S, 1 .. n)
  BY <1>3, <1>4, Fun_IsInj
<1>6. place \in Surjection(S, 1 .. n)
  <2>1. Cardinality(S) = Cardinality(1 .. n)
    BY <1>1 DEF n
  <2> DEFINE T == 1 .. n
  <2>2. IsFiniteSet(T) /\ place \in Injection(S, T) /\ Cardinality(S) = Cardinality(T)
    BY <1>1, <1>5, <2>1
  <2> HIDE DEF T
  <2>3. place \in Surjection(S, T)
    BY <2>2, FS_Injection
  <2> QED BY <2>3 DEF T
<1>7. ASSUME NEW k \in 1 .. n PROVE \E i \in S : Cardinality(Ahead(S, key, i)) = k - 1
  <2>1. PICK i \in S : place[i] = k
    BY <1>6 DEF Surjection
  <2>2. Cardinality(Ahead(S, key, i)) = k - 1
    BY <2>1, <1>1, <1>2 DEF place
  <2> QED BY <2>2
<1> QED BY <1>7 DEF n

\* Sorting: every element, once, and each before those it precedes.
LEMMA InOrderSorts ==
  ASSUME NEW S, IsFiniteSet(S), S \subseteq Int, NEW key, \A i \in S : key[i] \in Int
  PROVE  /\ InOrder(S, key) \in Seq(S)
         /\ Len(InOrder(S, key)) = Cardinality(S)
         /\ \A i \in S : \E k \in 1 .. Cardinality(S) : InOrder(S, key)[k] = i
         /\ \A a, b \in 1 .. Cardinality(S) :
              a < b => Precedes(key, InOrder(S, key)[a], InOrder(S, key)[b])
<1> DEFINE n   == Cardinality(S)
           all == InOrder(S, key)
<1>1. n \in Nat
  BY FS_CardinalityType
<1>2. ASSUME NEW k \in 1 .. n
      PROVE  all[k] \in S /\ Cardinality(Ahead(S, key, all[k])) = k - 1
  <2>1. \E i \in S : Cardinality(Ahead(S, key, i)) = k - 1
    BY EveryPlaceTaken
  <2>2. all[k] = CHOOSE i \in S : Cardinality(Ahead(S, key, i)) = k - 1
    BY DEF InOrder
  <2> HIDE DEF all, n
  <2> QED BY <2>1, <2>2
<1>3. all \in [1 .. n -> S]
  <2>1. all = [k \in 1 .. n |-> all[k]]
    BY DEF InOrder
  <2> HIDE DEF all
  <2> QED BY <2>1, <1>2
<1> HIDE DEF all, n
<1>4. all \in Seq(S) /\ Len(all) = n
  <2>1. all \in Seq(S)
    BY <1>1, <1>3, SeqDef
  <2>2. Len(all) \in Nat /\ DOMAIN all = 1 .. Len(all)
    BY <2>1, LenProperties
  <2>3. DOMAIN all = 1 .. n
    BY <1>3
  <2> QED BY <1>1, <2>1, <2>2, <2>3, UpTo
<1>5. \A i \in S : IsFiniteSet(Ahead(S, key, i)) /\ Cardinality(Ahead(S, key, i)) \in Nat
  <2>1. ASSUME NEW i \in S PROVE IsFiniteSet(Ahead(S, key, i))
    BY FS_Subset DEF Ahead
  <2> QED BY <2>1, FS_CardinalityType
<1>6. ASSUME NEW i \in S PROVE \E k \in 1 .. n : all[k] = i
  <2>1. Ahead(S, key, i) \subseteq S \ {i}
    <3>1. ~Precedes(key, i, i)
      BY PrecedesIsOrder
    <3> QED BY <3>1 DEF Ahead
  <2>2. IsFiniteSet(S \ {i}) /\ Cardinality(S \ {i}) = n - 1
    BY FS_RemoveElement DEF n
  <2>3. Cardinality(Ahead(S, key, i)) <= n - 1
    BY <2>1, <2>2, FS_Subset
  <2>4. Cardinality(Ahead(S, key, i)) + 1 \in 1 .. n
    BY <2>3, <1>1, <1>5
  <2> DEFINE k == Cardinality(Ahead(S, key, i)) + 1
  <2>5. all[k] \in S /\ Cardinality(Ahead(S, key, all[k])) = Cardinality(Ahead(S, key, i))
    BY <1>2, <1>5, <2>4
  <2> HIDE DEF k
  <2>6. ~Precedes(key, all[k], i) /\ ~Precedes(key, i, all[k])
    <3>1. /\ Cardinality(Ahead(S, key, all[k])) >= Cardinality(Ahead(S, key, i))
          /\ Cardinality(Ahead(S, key, i)) >= Cardinality(Ahead(S, key, all[k]))
      BY <1>5, <2>5
    <3> QED BY <2>5, <3>1, PlacesDiffer
  <2>7. all[k] = i
    BY <2>5, <2>6, PrecedesIsOrder
  <2> QED BY <2>4, <2>7 DEF k
<1>7. ASSUME NEW a \in 1 .. n, NEW b \in 1 .. n, a < b
      PROVE  Precedes(key, all[a], all[b])
  <2>1. /\ all[a] \in S /\ Cardinality(Ahead(S, key, all[a])) = a - 1
        /\ all[b] \in S /\ Cardinality(Ahead(S, key, all[b])) = b - 1
    BY <1>2
  <2>2. ~Precedes(key, all[b], all[a])
    <3>1. Cardinality(Ahead(S, key, all[b])) >= Cardinality(Ahead(S, key, all[a]))
      BY <2>1, <1>1, <1>7
    <3> QED BY <2>1, <3>1, PlacesDiffer
  <2>3. all[a] # all[b]
    BY <2>1, <1>1, <1>7
  <2> QED BY <2>1, <2>2, <2>3, PrecedesIsOrder
<1> QED BY <1>4, <1>6, <1>7 DEF all, n

-----------------------------------------------------------------------------
(* The workspace                                                            *)

ChannelType == [label : Labels \cup {NoLabel}, archived : BOOLEAN]

\* A channel under a drawn id was drawn, so that no later one gets its id.
Channels ==
  /\ DOMAIN channels \subseteq AllChannels
  /\ \A c \in DOMAIN channels : channels[c] \in ChannelType
  /\ DOMAIN channels \cap Ids \subseteq drawn
  /\ drawn \subseteq Ids \cup ViewIds

\* Unless the counter started again in this second, it is beyond every message
\* of the second; none is of a later one.
Stamped ==
  \A t \in DOMAIN messages :
    /\ t \in Nat \X Nat /\ t[1] <= now
    /\ t[1] = now /\ now \notin restarted => t[2] <= counter

Clock ==
  /\ now \in 1 .. MaxTime /\ counter \in 0 .. MaxPosts
  /\ restarted \subseteq 1 .. MaxTime /\ refused \subseteq 1 .. MaxTime

Relations ==
  /\ onDisk \in BOOLEAN
  /\ users \subseteq Everyone
  /\ members \subseteq AllChannels \X Everyone
  /\ \A t \in DOMAIN messages : messages[t] \in AllChannels
  /\ pins \subseteq ({General} \cup Ids) \X Stamps
  /\ DOMAIN views \subseteq ViewIds

IInv == Channels /\ Stamped /\ Clock /\ Relations /\ RefusedOnlyByRestart

LEMMA InitIInv == Init => IInv
<1> SUFFICES ASSUME Init PROVE IInv
  OBVIOUS
<1> USE DEF Init
<1>1. Channels
  BY IdAssumption DEF Channels, ChannelType, AllChannels, Seeded
<1>2. Stamped /\ Clock
  BY BoundAssumption DEF Stamped, Clock
<1>3. Relations /\ RefusedOnlyByRestart
  BY DEF Relations, RefusedOnlyByRestart, Everyone
<1> QED BY <1>1, <1>2, <1>3 DEF IInv

-----------------------------------------------------------------------------
(* Rows                                                                     *)

LEMMA ReplacedRow ==
  ASSUME NEW kept, NEW k, NEW x
  PROVE  /\ DOMAIN Replaced(kept, k, x) = DOMAIN kept \cup {k}
         /\ Replaced(kept, k, x)[k] = x
         /\ \A i \in DOMAIN kept \ {k} : Replaced(kept, k, x)[i] = kept[i]
BY DEF Replaced

LEMMA WithoutRow ==
  ASSUME NEW kept, NEW k
  PROVE  /\ DOMAIN Without(kept, k) = DOMAIN kept \ {k}
         /\ \A i \in DOMAIN kept \ {k} : Without(kept, k)[i] = kept[i]
BY DEF Without

LEMMA InsertedRows ==
  ASSUME NEW kept, NEW ts \in Seq({0} \X Nat)
  PROVE  /\ DOMAIN kept \subseteq DOMAIN Inserted(kept, ts)
         /\ \A t \in DOMAIN kept : Inserted(kept, ts)[t] = kept[t]
         /\ \A t \in DOMAIN Inserted(kept, ts) \ DOMAIN kept :
              t \in {0} \X Nat /\ Inserted(kept, ts)[t] = General
<1>1. \A i \in Accepted(kept, ts) : ts[i] \in {0} \X Nat
  BY DEF Accepted
<1> QED BY <1>1 DEF Inserted

LEMMA ColumnsUpdated ==
  ASSUME NEW r \in ChannelType, NEW l \in Labels \cup {NoLabel, None}, NEW archived \in BOOLEAN \cup {None}
  PROVE  [label    |-> IF l = None THEN r.label ELSE l,
          archived |-> IF archived = None THEN r.archived ELSE archived] \in ChannelType
BY DEF ChannelType

-----------------------------------------------------------------------------
(* Channels                                                                 *)

\* A step on the channels alone, that draws its ids.
LEMMA ChannelStep ==
  ASSUME IInv, ChannelFrame, Call, drawn \subseteq drawn', drawn' \subseteq Ids \cup ViewIds,
         \A c \in DOMAIN channels' :
            /\ channels'[c] \in ChannelType
            /\ \/ c \in DOMAIN channels
               \/ c \in DirectIds /\ c \notin Ids
               \/ c \in drawn' /\ c \in Ids
  PROVE  IInv'
<1> USE DEF IInv, Call, ChannelFrame
<1>1. DOMAIN channels' \subseteq AllChannels /\ DOMAIN channels' \cap Ids \subseteq drawn'
  BY DEF Channels, AllChannels
<1>2. Channels'
  BY <1>1 DEF Channels
<1>3. Stamped' /\ Clock' /\ Relations' /\ RefusedOnlyByRestart'
  BY DEF Stamped, Clock, Relations, RefusedOnlyByRestart, Stamps
<1> QED BY <1>2, <1>3

LEMMA CreateChannelKeeps ==
  ASSUME IInv, NEW c \in Ids, NEW l \in Labels \cup {NoLabel}, CreateChannel(c, l)
  PROVE  IInv' /\ c \notin DOMAIN channels
         /\ \A d \in DOMAIN channels : channels'[d] = channels[d]
<1> DEFINE row == [label |-> l, archived |-> FALSE]
<1>1. /\ c \notin drawn /\ drawn' = drawn \cup {c} /\ channels' = Replaced(channels, c, row)
      /\ ChannelFrame /\ Call
  BY DEF CreateChannel
<1>2. row \in ChannelType
  BY DEF ChannelType
<1>3. c \notin DOMAIN channels /\ drawn' \subseteq Ids \cup ViewIds
  BY <1>1 DEF IInv, Channels
<1> HIDE DEF row
<1>4. /\ DOMAIN channels' = DOMAIN channels \cup {c} /\ channels'[c] = row
      /\ \A d \in DOMAIN channels : channels'[d] = channels[d]
  BY <1>1, <1>3 DEF Replaced
<1>5. \A d \in DOMAIN channels' :
        /\ channels'[d] \in ChannelType
        /\ d \in DOMAIN channels \/ (d \in drawn' /\ d \in Ids)
  BY <1>1, <1>2, <1>4 DEF IInv, Channels
<1> QED BY <1>1, <1>3, <1>4, <1>5, ChannelStep

LEMMA UpdateChannelKeeps ==
  ASSUME IInv, NEW c, NEW l \in Labels \cup {NoLabel, None}, NEW archived \in BOOLEAN \cup {None},
         UpdateChannel(c, l, archived)
  PROVE  IInv' /\ \A d \in DOMAIN channels \ {c} : channels'[d] = channels[d]
<1> DEFINE row == [label    |-> IF l = None THEN channels[c].label ELSE l,
                   archived |-> IF archived = None THEN channels[c].archived ELSE archived]
<1>1. /\ c \in DOMAIN channels /\ channels' = Replaced(channels, c, row) /\ drawn' = drawn
      /\ ChannelFrame /\ Call
  BY DEF UpdateChannel
<1>2. channels[c] \in ChannelType
  BY <1>1 DEF IInv, Channels
<1>3. row \in ChannelType
  BY <1>2, ColumnsUpdated
<1> HIDE DEF row
<1>5. /\ DOMAIN channels' = DOMAIN channels /\ channels'[c] = row
      /\ \A d \in DOMAIN channels \ {c} : channels'[d] = channels[d]
  BY <1>1 DEF Replaced
<1>6. \A d \in DOMAIN channels' : channels'[d] \in ChannelType /\ d \in DOMAIN channels
  BY <1>3, <1>5 DEF IInv, Channels
<1>7. drawn \subseteq drawn' /\ drawn' \subseteq Ids \cup ViewIds
  BY <1>1 DEF IInv, Channels
<1>8. IInv'
  BY <1>1, <1>6, <1>7, ChannelStep
<1> QED BY <1>5, <1>8

\* Unless it says FALSE, a call leaves an archived channel archived.
LEMMA UpdateKeepsArchived ==
  ASSUME NEW c, NEW l, NEW archived \in {TRUE, None}, UpdateChannel(c, l, archived),
         channels[c].archived
  PROVE  channels'[c].archived
BY DEF UpdateChannel, Replaced

LEMMA UiDeleteChannelKeeps ==
  ASSUME IInv, NEW c, UiDeleteChannel(c)
  PROVE  IInv' /\ \A d \in DOMAIN channels' : channels'[d] = channels[d]
<1>1. /\ channels' = Without(channels, c) /\ drawn' = drawn /\ ChannelFrame /\ Call
  BY DEF UiDeleteChannel
<1>2. /\ DOMAIN channels' \subseteq DOMAIN channels
      /\ \A d \in DOMAIN channels' : channels'[d] = channels[d]
  BY <1>1, WithoutRow
<1>3. \A d \in DOMAIN channels' : channels'[d] \in ChannelType /\ d \in DOMAIN channels
  BY <1>2 DEF IInv, Channels
<1>4. drawn \subseteq drawn' /\ drawn' \subseteq Ids \cup ViewIds
  BY <1>1 DEF IInv, Channels
<1> QED BY <1>1, <1>2, <1>3, <1>4, ChannelStep

LEMMA OpenKeeps ==
  ASSUME IInv, NEW list \in Lists, Open(list)
  PROVE  IInv' /\ \A d \in DOMAIN channels : channels'[d] = channels[d]
<1> DEFINE id == DirectId(list)
<1>1. channels' = Opened(list) /\ drawn' = drawn /\ ChannelFrame /\ Call
  BY DEF Open
<1>2. id \in DirectIds /\ id \notin Ids /\ Seeded \in ChannelType
  BY IdAssumption DEF DirectIds, Seeded, ChannelType
<1>3. channels' = IF id \in DOMAIN channels THEN channels ELSE Replaced(channels, id, Seeded)
  BY <1>1 DEF Opened
<1> HIDE DEF id
<1>4. /\ \A d \in DOMAIN channels : d \in DOMAIN channels' /\ channels'[d] = channels[d]
      /\ \A d \in DOMAIN channels' \ DOMAIN channels : d = id /\ channels'[d] = Seeded
  <2>1. CASE id \in DOMAIN channels
    BY <1>3, <2>1
  <2>2. CASE id \notin DOMAIN channels
    BY <1>3, <2>2 DEF Replaced
  <2> QED BY <2>1, <2>2
<1>5. \A d \in DOMAIN channels' :
        /\ channels'[d] \in ChannelType
        /\ d \in DOMAIN channels \/ (d \in DirectIds /\ d \notin Ids)
  BY <1>2, <1>4 DEF IInv, Channels
<1>6. drawn \subseteq drawn' /\ drawn' \subseteq Ids \cup ViewIds
  BY <1>1 DEF IInv, Channels
<1> QED BY <1>1, <1>4, <1>5, <1>6, ChannelStep

-----------------------------------------------------------------------------
(* The tables of pairs                                                      *)

\* A step on members, reactions or pins alone, with rows of the right kind.
LEMMA RelationStep ==
  ASSUME IInv, SetFrame, Call,
         members' \subseteq AllChannels \X Everyone,
         pins' \subseteq ({General} \cup Ids) \X Stamps'
  PROVE  IInv'
<1> USE DEF IInv, Call, SetFrame
<1>1. Channels'
  BY DEF Channels
<1>2. Stamped' /\ Clock' /\ Relations' /\ RefusedOnlyByRestart'
  BY DEF Stamped, Clock, Relations, RefusedOnlyByRestart
<1> QED BY <1>1, <1>2

\* A pin names a ts, which counts as seen as long as the pin stays.
LEMMA PinsSeen ==
  ASSUME NEW S, pins' \subseteq ({General} \cup Ids) \X S
  PROVE  pins' \subseteq ({General} \cup Ids) \X Stamps'
<1>1. \A p \in pins' : p[2] \in Stamps'
  BY DEF Stamps
<1> QED BY <1>1

LEMMA RelatedKeeps ==
  ASSUME IInv, Related
  PROVE  IInv' /\ messages' = messages /\ channels' = channels /\ refused' = refused
<1> USE DEF IInv
<1>1. CASE \E c \in DOMAIN channels, us \in SUBSET Everyone : Invite(c, us)
  <2>1. PICK c \in DOMAIN channels, us \in SUBSET Everyone : Invite(c, us)
    BY <1>1
  <2>2. members' \subseteq AllChannels \X Everyone /\ pins' = pins
    BY <2>1 DEF Invite, Channels, Relations
  <2>3. pins' \subseteq ({General} \cup Ids) \X Stamps'
    BY <2>2, PinsSeen DEF Relations
  <2> QED BY <2>1, <2>2, <2>3, RelationStep DEF Invite, SetFrame
<1>2. CASE \E c \in DOMAIN channels, u \in Everyone : Kick(c, u)
  <2>1. PICK c \in DOMAIN channels, u \in Everyone : Kick(c, u)
    BY <1>2
  <2>2. members' \subseteq AllChannels \X Everyone /\ pins' = pins
    BY <2>1 DEF Kick, Relations
  <2>3. pins' \subseteq ({General} \cup Ids) \X Stamps'
    BY <2>2, PinsSeen DEF Relations
  <2> QED BY <2>1, <2>2, <2>3, RelationStep DEF Kick, SetFrame
<1>3. CASE \E t \in Stamps, c \in {General} \cup Ids : AddPin(c, t) \/ RemovePin(c, t)
  <2>1. PICK t \in Stamps, c \in {General} \cup Ids : AddPin(c, t) \/ RemovePin(c, t)
    BY <1>3
  <2>2. SetFrame /\ Call /\ members' = members
    BY <2>1 DEF AddPin, RemovePin
  <2>3. pins' \subseteq ({General} \cup Ids) \X Stamps
    BY <2>1 DEF AddPin, RemovePin, Relations
  <2>4. pins' \subseteq ({General} \cup Ids) \X Stamps'
    BY <2>3, PinsSeen
  <2> QED BY <2>2, <2>4, RelationStep DEF SetFrame, Relations
<1>4. CASE \E t \in Stamps, c \in {General} \cup Ids, u \in Everyone, e \in Emojis :
             AddReaction(t, c, u, e) \/ RemoveReaction(t, c, u, e)
  <2>1. PICK t \in Stamps, c \in {General} \cup Ids, u \in Everyone, e \in Emojis :
             AddReaction(t, c, u, e) \/ RemoveReaction(t, c, u, e)
    BY <1>4
  <2>2. SetFrame /\ Call /\ members' = members /\ pins' = pins
    BY <2>1 DEF AddReaction, RemoveReaction
  <2>3. pins' \subseteq ({General} \cup Ids) \X Stamps'
    BY <2>2, PinsSeen DEF Relations
  <2> QED BY <2>2, <2>3, RelationStep DEF SetFrame, Relations
<1> QED BY <1>1, <1>2, <1>3, <1>4 DEF Related, Everyone

-----------------------------------------------------------------------------
(* Messages, views and users                                                *)

\* Where channels, pins and members stay, the clock and the rows are what to check.
LEMMA RowStep ==
  ASSUME IInv, Call, UNCHANGED <<channels, members, pins>>,
         drawn \subseteq drawn', drawn' \subseteq Ids \cup ViewIds,
         users' \subseteq Everyone, DOMAIN views' \subseteq ViewIds,
         counter' \in 0 .. MaxPosts, counter <= counter', refused' \subseteq restarted,
         \A t \in DOMAIN messages' :
            \/ t \in DOMAIN messages /\ messages'[t] = messages[t]
            \/ /\ t \in Nat \X Nat /\ messages'[t] \in AllChannels
               /\ t[1] <= now /\ (t[1] = now => t[2] <= counter')
  PROVE  IInv'
<1> USE DEF IInv, Call
<1>1. Channels'
  BY DEF Channels
<1>2. Stamped'
  <2> SUFFICES ASSUME NEW t \in DOMAIN messages'
               PROVE  /\ t \in Nat \X Nat /\ t[1] <= now
                      /\ t[1] = now /\ now \notin restarted => t[2] <= counter'
    BY DEF Stamped
  <2>1. CASE t \in DOMAIN messages
    <3>1. t \in Nat \X Nat /\ t[1] <= now /\ (t[1] = now /\ now \notin restarted => t[2] <= counter)
      BY <2>1 DEF Stamped
    <3>2. t[2] \in Nat /\ counter \in Int /\ counter' \in Int
      BY <3>1, BoundAssumption DEF Clock
    <3> QED BY <3>1, <3>2
  <2> QED BY <2>1
<1>3. Clock' /\ RefusedOnlyByRestart'
  BY DEF Clock, RefusedOnlyByRestart
<1>4. pins' \subseteq ({General} \cup Ids) \X Stamps'
  BY PinsSeen DEF Relations
<1>5. Relations'
  BY <1>4 DEF Relations
<1> QED BY <1>1, <1>2, <1>3, <1>5

LEMMA PostKeeps ==
  ASSUME IInv, NEW c \in {General} \cup Ids, Post(c)
  PROVE  IInv' /\ \A t \in DOMAIN messages : messages'[t] = messages[t]
<1> DEFINE t == <<now, counter + 1>>
<1>1. /\ counter < MaxPosts /\ counter' = counter + 1 /\ Call
      /\ messages' = Stored(messages, t, c)
      /\ refused' = IF t \in DOMAIN messages THEN refused \cup {now} ELSE refused
      /\ UNCHANGED <<channels, users, members, reactions, pins, views, drawn>>
  BY DEF Post
<1>2. /\ now \in Nat /\ counter \in Nat /\ counter' \in 0 .. MaxPosts /\ counter <= counter'
      /\ t \in Nat \X Nat /\ t[1] = now /\ t[2] = counter'
  BY <1>1, BoundAssumption DEF IInv, Clock
<1>3. c \in AllChannels
  BY DEF AllChannels
<1>4. ASSUME t \in DOMAIN messages PROVE now \in restarted
  BY <1>1, <1>2, <1>4 DEF IInv, Stamped
<1> HIDE DEF t
<1>5. /\ \A s \in DOMAIN messages : messages'[s] = messages[s]
      /\ \A s \in DOMAIN messages' \ DOMAIN messages : s = t /\ messages'[s] = c
  <2>1. CASE t \in DOMAIN messages
    BY <1>1, <2>1 DEF Stored
  <2>2. CASE t \notin DOMAIN messages
    BY <1>1, <2>2 DEF Stored, Replaced
  <2> QED BY <2>1, <2>2
<1>6. refused' \subseteq restarted
  BY <1>1, <1>4 DEF IInv, RefusedOnlyByRestart
<1>7. users' \subseteq Everyone /\ DOMAIN views' \subseteq ViewIds /\ drawn' \subseteq Ids \cup ViewIds
  BY <1>1 DEF IInv, Relations, Channels
<1>8. \A s \in DOMAIN messages' :
        \/ s \in DOMAIN messages /\ messages'[s] = messages[s]
        \/ /\ s \in Nat \X Nat /\ messages'[s] \in AllChannels
           /\ s[1] <= now /\ (s[1] = now => s[2] <= counter')
  BY <1>2, <1>3, <1>5
<1> QED BY <1>1, <1>2, <1>5, <1>6, <1>7, <1>8, RowStep

LEMMA WrittenKeeps ==
  ASSUME IInv, Written
  PROVE  /\ IInv' /\ channels' = channels
         /\ \A t \in DOMAIN messages \cap DOMAIN messages' : messages'[t] = messages[t]
<1>1. CASE \E c \in {General} \cup Ids : Post(c)
  BY <1>1, PostKeeps DEF Post
<1>2. CASE \E t \in DOMAIN messages : DeleteMessage(t)
  <2>1. PICK t \in DOMAIN messages : DeleteMessage(t)
    BY <1>2
  <2>2. /\ Call /\ messages' = Without(messages, t)
        /\ UNCHANGED <<channels, users, members, reactions, pins, views, counter, drawn, refused>>
    BY <2>1 DEF DeleteMessage
  <2>3. \A s \in DOMAIN messages' : s \in DOMAIN messages /\ messages'[s] = messages[s]
    BY <2>2 DEF Without
  <2>4. /\ users' \subseteq Everyone /\ DOMAIN views' \subseteq ViewIds /\ drawn' \subseteq Ids \cup ViewIds
        /\ counter' \in 0 .. MaxPosts /\ counter <= counter' /\ refused' \subseteq restarted
    BY <2>2, BoundAssumption DEF IInv, Relations, Channels, Clock, RefusedOnlyByRestart
  <2> QED BY <2>2, <2>3, <2>4, RowStep
<1>3. CASE \/ \E v \in ViewIds, l \in Labels : OpenView(v, l) \/ PushView(v, l)
           \/ \E v \in ViewIds, l \in Labels \cup {None} : UpdateView(v, l)
  <2>1. PICK v \in ViewIds, l \in Labels \cup {None} : OpenView(v, l) \/ UpdateView(v, l)
    BY <1>3 DEF PushView
  <2>2. ViewFrame /\ Call /\ drawn \subseteq drawn' /\ drawn' \subseteq drawn \cup {v}
    BY <2>1 DEF OpenView, UpdateView
  <2>3. DOMAIN views' = DOMAIN views \cup {v}
    BY <2>1 DEF OpenView, UpdateView, Replaced
  <2>4. /\ users' \subseteq Everyone /\ DOMAIN views' \subseteq ViewIds /\ drawn' \subseteq Ids \cup ViewIds
        /\ counter' \in 0 .. MaxPosts /\ counter <= counter' /\ refused' \subseteq restarted
    BY <2>2, <2>3, BoundAssumption DEF IInv, Relations, Channels, Clock, RefusedOnlyByRestart, ViewFrame
  <2>5. channels' = channels /\ members' = members /\ messages' = messages /\ pins' = pins
    BY <2>2 DEF ViewFrame
  <2>6. \A t \in DOMAIN messages' : t \in DOMAIN messages /\ messages'[t] = messages[t]
    BY <2>5
  <2>7. IInv'
    BY <2>2, <2>4, <2>5, <2>6, RowStep
  <2> QED BY <2>5, <2>6, <2>7
<1>4. CASE (\E u \in Users : UiCreateUser(u)) \/ (\E u \in Everyone : UiDeleteUser(u))
  <2>1. users' \subseteq Everyone
    BY <1>4 DEF UiCreateUser, UiDeleteUser, SetUsers, IInv, Relations, Everyone
  <2>2. Call /\ UNCHANGED <<channels, members, messages, reactions, pins, views, counter, drawn, refused>>
    BY <1>4 DEF UiCreateUser, UiDeleteUser, SetUsers
  <2>3. /\ users' \subseteq Everyone /\ DOMAIN views' \subseteq ViewIds /\ drawn' \subseteq Ids \cup ViewIds
        /\ counter' \in 0 .. MaxPosts /\ counter <= counter' /\ refused' \subseteq restarted
    BY <2>1, <2>2, BoundAssumption DEF IInv, Relations, Channels, Clock, RefusedOnlyByRestart
  <2> QED BY <2>2, <2>3, RowStep
<1> QED BY <1>1, <1>2, <1>3, <1>4 DEF Written

LEMMA ChanneledKeeps ==
  ASSUME IInv, Channeled
  PROVE  /\ IInv' /\ messages' = messages
         /\ \A c \in DOMAIN channels \cap DOMAIN channels' :
               (channels[c].archived /\ ~channels'[c].archived) => Unarchive(c)
<1>1. CASE \E c \in Ids, l \in Labels \cup {NoLabel} : CreateChannel(c, l)
  BY <1>1, CreateChannelKeeps DEF CreateChannel, ChannelFrame
<1>2. CASE \E c \in DOMAIN channels, l \in Labels \cup {NoLabel, None}, a \in {TRUE, None} :
             UpdateChannel(c, l, a)
  <2>1. PICK c \in DOMAIN channels, l \in Labels \cup {NoLabel, None}, a \in {TRUE, None} :
             UpdateChannel(c, l, a)
    BY <1>2
  <2>2. a \in BOOLEAN \cup {None} /\ l \in Labels \cup {NoLabel, None}
    OBVIOUS
  <2>3. IInv' /\ \A d \in DOMAIN channels \ {c} : channels'[d] = channels[d]
    BY <2>1, <2>2, UpdateChannelKeeps
  <2>4. channels[c].archived => channels'[c].archived
    BY <2>1, UpdateKeepsArchived
  <2>5. messages' = messages
    BY <2>1 DEF UpdateChannel, ChannelFrame
  <2> QED BY <2>3, <2>4, <2>5
<1>3. CASE \E c \in DOMAIN channels : Unarchive(c)
  <2>1. PICK c \in DOMAIN channels : Unarchive(c)
    BY <1>3
  <2>2. UpdateChannel(c, None, FALSE)
    BY <2>1 DEF Unarchive
  <2>3. IInv' /\ \A d \in DOMAIN channels \ {c} : channels'[d] = channels[d]
    BY <2>2, UpdateChannelKeeps
  <2>4. messages' = messages
    BY <2>2 DEF UpdateChannel, ChannelFrame
  <2> QED BY <2>1, <2>3, <2>4
<1>4. CASE \E c \in DOMAIN channels : UiDeleteChannel(c)
  BY <1>4, UiDeleteChannelKeeps DEF UiDeleteChannel, ChannelFrame
<1>5. CASE \E l \in Lists : Open(l)
  BY <1>5, OpenKeeps DEF Open, ChannelFrame
<1> QED
  BY <1>1, <1>2, <1>3, <1>4, <1>5
  DEF Channeled, UiCreateChannel, OpenEmpty, Archive, Rename, SetTopic, SetPurpose, UiUpdateChannel

-----------------------------------------------------------------------------
(* Fixtures, resets and restarts                                            *)

LEMMA LoadFixturesKeeps ==
  ASSUME IInv, NEW b \in Batches, LoadFixtures(b)
  PROVE  /\ IInv' /\ \A t \in DOMAIN messages : messages'[t] = messages[t]
         /\ \A c \in DOMAIN channels \ b.channels : channels'[c] = channels[c]
<1>1. /\ b.channels \cap Ids = {} /\ b.messages \in Seq({0} \X Nat)
      /\ b.channels \subseteq AllChannels
  BY BatchAssumption DEF AllChannels
<1>2. /\ Call /\ messages' = Inserted(messages, b.messages)
      /\ channels' = [c \in DOMAIN channels \cup b.channels |->
                        IF c \in b.channels THEN Seeded ELSE channels[c]]
      /\ UNCHANGED <<users, members, reactions, pins, views, counter, drawn, refused>>
  BY DEF LoadFixtures
<1>3. Channels'
  <2>1. Seeded \in ChannelType
    BY DEF Seeded, ChannelType
  <2>2. /\ DOMAIN channels' = DOMAIN channels \cup b.channels
        /\ \A c \in DOMAIN channels' : channels'[c] \in ChannelType
    BY <1>2, <2>1 DEF IInv, Channels
  <2> QED BY <1>1, <1>2, <2>2 DEF IInv, Channels
<1>4. /\ \A t \in DOMAIN messages : messages'[t] = messages[t]
      /\ \A t \in DOMAIN messages' \ DOMAIN messages : t \in {0} \X Nat /\ messages'[t] = General
  BY <1>1, <1>2, InsertedRows
<1>5. now \in 1 .. MaxTime /\ now' = now /\ restarted' = restarted
  BY <1>2 DEF Call, IInv, Clock
<1>6. Stamped'
  <2> SUFFICES ASSUME NEW t \in DOMAIN messages'
               PROVE  /\ t \in Nat \X Nat /\ t[1] <= now
                      /\ t[1] = now /\ now \notin restarted => t[2] <= counter
    BY <1>2, <1>5 DEF Stamped
  <2>1. CASE t \in DOMAIN messages
    BY <2>1 DEF IInv, Stamped
  <2>2. CASE t \notin DOMAIN messages
    BY <1>4, <1>5, <2>2, BoundAssumption
  <2> QED BY <2>1, <2>2
<1>7. \A t \in DOMAIN messages' : messages'[t] \in AllChannels
  BY <1>4 DEF IInv, Relations, AllChannels
<1>8. pins' \subseteq ({General} \cup Ids) \X Stamps'
  BY <1>2, PinsSeen DEF IInv, Relations
<1>9. Relations' /\ Clock' /\ RefusedOnlyByRestart'
  BY <1>2, <1>7, <1>8 DEF Call, IInv, Relations, Clock, RefusedOnlyByRestart
<1> QED BY <1>2, <1>3, <1>4, <1>6, <1>9 DEF IInv

LEMMA UiFixturesKeeps ==
  ASSUME IInv, NEW c \in Ids, NEW d \in Ids, UiFixtures(c, d)
  PROVE  IInv' /\ messages' = messages /\ \A e \in DOMAIN channels : channels'[e] = channels[e]
<1>1. /\ Call /\ {c, d} \subseteq Ids \ drawn /\ drawn' = drawn \cup {c, d}
      /\ users' = users \cup Users
      /\ UNCHANGED <<members, messages, reactions, pins, views, counter, refused>>
  BY DEF UiFixtures
<1>2. PICK row \in ChannelType : channels' = Replaced(Replaced(channels, c, row), d, row)
  BY DEF UiFixtures, ChannelType
<1>3. /\ DOMAIN channels' = DOMAIN channels \cup {c, d}
      /\ \A e \in DOMAIN channels \ {c, d} : channels'[e] = channels[e]
      /\ channels'[c] = row /\ channels'[d] = row
  BY <1>2 DEF Replaced
<1>4. DOMAIN channels \cap {c, d} = {}
  BY <1>1 DEF IInv, Channels
<1>5. \A e \in DOMAIN channels' : channels'[e] \in ChannelType
  BY <1>2, <1>3 DEF IInv, Channels
<1>6. Channels'
  BY <1>1, <1>3, <1>5 DEF IInv, Channels, AllChannels
<1>7. pins' \subseteq ({General} \cup Ids) \X Stamps'
  BY <1>1, PinsSeen DEF IInv, Relations
<1>8. Stamped' /\ Clock' /\ Relations' /\ RefusedOnlyByRestart'
  BY <1>1, <1>7 DEF Call, IInv, Stamped, Clock, Relations, RefusedOnlyByRestart, Everyone
<1> QED BY <1>1, <1>3, <1>4, <1>6, <1>8 DEF IInv

\* Over a file the rows stay, in memory there are none.
LEMMA ReopenKeeps ==
  ASSUME IInv, Reset \/ Restart
  PROVE  /\ IInv'
         /\ \A c \in (DOMAIN channels \cap DOMAIN channels') \ {General} : channels'[c] = channels[c]
         /\ \A t \in DOMAIN messages \cap DOMAIN messages' : messages'[t] = messages[t]
<1>1. /\ Reopen /\ UNCHANGED <<onDisk, now, drawn, refused>>
      /\ \/ counter' = counter /\ restarted' = restarted
         \/ counter' = 0 /\ restarted' = IF onDisk THEN restarted \cup {now} ELSE restarted
  BY DEF Reset, Restart, Reopen, CounterAfterReset
<1>2. Seeded \in ChannelType /\ General \in AllChannels
  BY DEF Seeded, ChannelType, AllChannels
<1>3. Clock'
  <2>1. counter' \in 0 .. MaxPosts
    BY <1>1, BoundAssumption DEF IInv, Clock
  <2>2. restarted' \subseteq restarted \cup {now}
    BY <1>1
  <2> QED BY <1>1, <2>1, <2>2 DEF IInv, Clock
<1>4. RefusedOnlyByRestart'
  BY <1>1 DEF IInv, RefusedOnlyByRestart
<1>5. /\ DOMAIN channels' \subseteq DOMAIN channels \cup {General}
      /\ \A c \in DOMAIN channels' \ {General} : channels'[c] = channels[c]
      /\ channels'[General] = Seeded
  <2>1. CASE onDisk
    BY <1>1, <2>1 DEF Reopen, SeedDefaults, Replaced
  <2>2. CASE ~onDisk
    BY <1>1, <2>2 DEF Reopen, SeedDefaults, Replaced
  <2> QED BY <2>1, <2>2
<1>6. \A c \in DOMAIN channels' : channels'[c] \in ChannelType
  BY <1>2, <1>5 DEF IInv, Channels
<1>7. Channels'
  BY <1>1, <1>2, <1>5, <1>6, IdAssumption DEF IInv, Channels
<1>8. \/ messages' = messages /\ onDisk
      \/ DOMAIN messages' = {}
  BY <1>1 DEF Reopen, Kept
<1>9. Stamped'
  BY <1>1, <1>8, BoundAssumption DEF IInv, Stamped, Clock
<1>10. /\ users' \subseteq Everyone /\ members' \subseteq members
       /\ pins' \subseteq pins /\ DOMAIN views' \subseteq ViewIds
  BY <1>1 DEF IInv, Relations, Reopen, SeedDefaults, Kept, Everyone
<1>11. pins' \subseteq ({General} \cup Ids) \X Stamps'
  BY <1>10, PinsSeen DEF IInv, Relations
<1>12. Relations'
  BY <1>1, <1>8, <1>10, <1>11 DEF IInv, Relations
<1> QED BY <1>3, <1>4, <1>5, <1>7, <1>8, <1>9, <1>12 DEF IInv

LEMMA TickKeeps == IInv /\ Tick => IInv' /\ UNCHANGED tables
<1> SUFFICES ASSUME IInv, Tick PROVE IInv' /\ UNCHANGED tables
  OBVIOUS
<1> USE DEF IInv, Tick, tables, history
<1>1. Channels' /\ Relations' /\ RefusedOnlyByRestart'
  BY DEF Channels, Relations, RefusedOnlyByRestart, Stamps
<1>2. Clock'
  BY BoundAssumption DEF Clock
<1>3. Stamped'
  <2> SUFFICES ASSUME NEW t \in DOMAIN messages
               PROVE t \in Nat \X Nat /\ t[1] <= now' /\ t[1] # now'
    BY DEF Stamped
  <2>1. t \in Nat \X Nat /\ t[1] <= now
    BY DEF Stamped
  <2> QED BY <2>1, BoundAssumption DEF Clock
<1> QED BY <1>1, <1>2, <1>3

-----------------------------------------------------------------------------
(* The invariant and what follows                                           *)

LEMMA AdministeredKeeps ==
  ASSUME IInv, Administered
  PROVE  /\ IInv' /\ \A t \in DOMAIN messages \cap DOMAIN messages' : messages'[t] = messages[t]
         /\ \A c \in DOMAIN channels \cap DOMAIN channels' :
               \/ channels'[c] = channels[c]
               \/ \E b \in Batches : c \in b.channels /\ LoadFixtures(b)
               \/ c = General /\ (Reset \/ Restart)
<1>1. CASE \E b \in Batches : LoadFixtures(b)
  BY <1>1, LoadFixturesKeeps
<1>2. CASE \E c, d \in Ids : UiFixtures(c, d)
  BY <1>2, UiFixturesKeeps
<1>3. CASE Reset \/ Restart
  BY <1>3, ReopenKeeps
<1> QED BY <1>1, <1>2, <1>3 DEF Administered

LEMMA Step == IInv /\ [Next]_vars => IInv'
<1> SUFFICES ASSUME IInv, [Next]_vars PROVE IInv'
  OBVIOUS
<1>1. CASE UNCHANGED vars
  BY <1>1 DEF vars, tables, history, IInv, Channels, Stamped, Clock, Relations, Stamps,
              RefusedOnlyByRestart
<1> QED
  BY <1>1, ChanneledKeeps, RelatedKeeps, WrittenKeeps, AdministeredKeeps, TickKeeps DEF Next

LEMMA Invariance == Spec => []IInv
BY InitIInv, Step, PTL DEF Spec

\* What a step may do to a message and to an archived channel.
LEMMA RowsKept ==
  ASSUME IInv, [Next]_vars
  PROVE  /\ \A t \in DOMAIN messages \cap DOMAIN messages' : messages'[t] = messages[t]
         /\ \A c \in DOMAIN channels \cap DOMAIN channels' :
              (channels[c].archived /\ ~channels'[c].archived) =>
                \/ Unarchive(c)
                \/ \E b \in Batches : c \in b.channels /\ LoadFixtures(b)
                \/ c = General /\ (Reset \/ Restart)
<1>1. CASE Channeled
  BY <1>1, ChanneledKeeps
<1>2. CASE Related
  BY <1>2, RelatedKeeps
<1>3. CASE Written
  BY <1>3, WrittenKeeps
<1>4. CASE Administered
  BY <1>4, AdministeredKeeps
<1>5. CASE Tick
  BY <1>5, TickKeeps DEF tables
<1>6. CASE UNCHANGED vars
  BY <1>6 DEF vars, tables
<1> QED BY <1>1, <1>2, <1>3, <1>4, <1>5, <1>6 DEF Next

(* Every row of the workspace stays of a kind the program writes, through    *)
(* any fixtures, resets and restarts.                                       *)
THEOREM TypeCorrect == Spec => []TypeOK
<1>1. IInv => TypeOK
  BY DEF IInv, Channels, Clock, Relations, ChannelType, TypeOK
<1> QED BY <1>1, Invariance, PTL

(* A post is refused for its ts only over a file, in the second in which a   *)
(* process started: within a process the counter never comes to a ts twice.  *)
THEOREM PostsAreRefusedOnlyByRestart == Spec => []RefusedOnlyByRestart
<1>1. IInv => RefusedOnlyByRestart
  BY DEF IInv
<1> QED BY <1>1, Invariance, PTL

(* Whatever gets the ts of a stored message, createMessage or a fixture, the *)
(* stored one stays as it was.                                              *)
THEOREM NoMessageIsReplaced == Spec => MessagesStay
<1>1. IInv /\ [Next]_vars =>
        [\A t \in DOMAIN messages \cap DOMAIN messages' : messages'[t] = messages[t]]_vars
  BY RowsKept
<1> QED BY <1>1, Invariance, PTL DEF Spec, MessagesStay

(* Only conversations.unarchive, a fixture that names the channel and, for   *)
(* C_GENERAL, the defaults bring an archived channel back.                  *)
THEOREM NoChannelRevives == Spec => ArchivedStays
<1>1. IInv /\ [Next]_vars =>
        [\A c \in DOMAIN channels \cap DOMAIN channels' :
           (channels[c].archived /\ ~channels'[c].archived) =>
             \/ Unarchive(c)
             \/ \E b \in Batches : c \in b.channels /\ LoadFixtures(b)
             \/ c = General /\ (Reset \/ Restart)]_vars
  BY RowsKept
<1> QED BY <1>1, Invariance, PTL DEF Spec, ArchivedStays

-----------------------------------------------------------------------------
(* What a call takes away                                                   *)

\* At most one row leaves, of one of three tables.
LEMMA OneAtMost ==
  ASSUME NEW R, NEW P, NEW M, NEW x,
         R \subseteq {x}, P \subseteq {x}, M \subseteq {x},
         \/ R = {} /\ P = {}
         \/ R = {} /\ M = {}
         \/ P = {} /\ M = {}
  PROVE  Cardinality(R) + Cardinality(P) + Cardinality(M) <= 1
<1>1. \A S : S \subseteq {x} => S = {} \/ S = {x}
  OBVIOUS
<1>2. Cardinality({}) = 0 /\ Cardinality({x}) = 1
  BY FS_EmptySet, FS_Singleton
<1>3. \A S : S \subseteq {x} => Cardinality(S) \in {0, 1}
  BY <1>1, <1>2
<1>4. Cardinality(R) \in {0, 1} /\ Cardinality(P) \in {0, 1} /\ Cardinality(M) \in {0, 1}
  BY <1>3
<1>5. CASE R = {} /\ P = {}
  BY <1>2, <1>4, <1>5
<1>6. CASE R = {} /\ M = {}
  BY <1>2, <1>4, <1>6
<1>7. CASE P = {} /\ M = {}
  BY <1>2, <1>4, <1>7
<1> QED BY <1>5, <1>6, <1>7

Lost ==
  Cardinality(reactions \ reactions') + Cardinality(pins \ pins')
    + Cardinality(members \ members') <= 1

LEMMA NothingLost ==
  ASSUME reactions \subseteq reactions', pins \subseteq pins', members \subseteq members'
  PROVE  Lost
<1>1. reactions \ reactions' = {} /\ pins \ pins' = {} /\ members \ members' = {}
  OBVIOUS
<1> QED BY <1>1, OneAtMost DEF Lost

LEMMA RelatedLoses ==
  ASSUME Related
  PROVE  Lost
<1>1. ASSUME NEW c, NEW u, Kick(c, u) PROVE Lost
  <2>1. members \ members' \subseteq {<<c, u>>} /\ reactions \ reactions' = {} /\ pins \ pins' = {}
    BY <1>1 DEF Kick
  <2> QED BY <2>1, OneAtMost DEF Lost
<1>2. ASSUME NEW c, NEW t, RemovePin(c, t) PROVE Lost
  <2>1. pins \ pins' \subseteq {<<c, t>>} /\ reactions \ reactions' = {} /\ members \ members' = {}
    BY <1>2 DEF RemovePin
  <2> QED BY <2>1, OneAtMost DEF Lost
<1>3. ASSUME NEW t, NEW c, NEW u, NEW e, RemoveReaction(t, c, u, e) PROVE Lost
  <2>1. /\ reactions \ reactions' \subseteq {Reaction(t, c, u, e)}
        /\ pins \ pins' = {} /\ members \ members' = {}
    BY <1>3 DEF RemoveReaction, Mine
  <2> QED BY <2>1, OneAtMost DEF Lost
<1>4. ASSUME NEW c, NEW us, Invite(c, us) PROVE Lost
  BY <1>4, NothingLost DEF Invite
<1>5. ASSUME NEW c, NEW t, AddPin(c, t) PROVE Lost
  BY <1>5, NothingLost DEF AddPin
<1>6. ASSUME NEW t, NEW c, NEW u, NEW e, AddReaction(t, c, u, e) PROVE Lost
  BY <1>6, NothingLost DEF AddReaction
<1> QED BY <1>1, <1>2, <1>3, <1>4, <1>5, <1>6 DEF Related

\* No other call touches the three tables.
LEMMA OthersKeepRelations ==
  ASSUME Channeled \/ Written \/ Tick \/ (\E b \in Batches : LoadFixtures(b))
           \/ (\E c, d \in Ids : UiFixtures(c, d))
  PROVE  reactions' = reactions /\ pins' = pins /\ members' = members
<1>1. CASE Channeled
  BY <1>1 DEF Channeled, CreateChannel, UiCreateChannel, UpdateChannel, Archive, Unarchive, Rename,
              SetPurpose, SetTopic, UiUpdateChannel, UiDeleteChannel, Open, OpenEmpty, ChannelFrame
<1>2. CASE Written
  BY <1>2 DEF Written, Post, DeleteMessage, OpenView, PushView, UpdateView, ViewFrame, UiCreateUser,
              UiDeleteUser, SetUsers
<1>3. CASE Tick
  BY <1>3 DEF Tick, tables
<1>4. CASE (\E b \in Batches : LoadFixtures(b)) \/ (\E c, d \in Ids : UiFixtures(c, d))
  BY <1>4 DEF LoadFixtures, UiFixtures
<1> QED BY <1>1, <1>2, <1>3, <1>4

(* A call of one user takes away at most one reaction, pin or membership, no *)
(* deletion cascades, and a reset or a restart over a file takes none.       *)
THEOREM CallsTakeOneRow == Spec => NoCollateralLoss
<1>1. ASSUME [Next]_vars PROVE [(~onDisk /\ (Reset \/ Restart)) \/ Lost]_vars
  <2>1. CASE Related
    BY <2>1, RelatedLoses
  <2>2. CASE Reset \/ Restart
    <3>1. onDisk => reactions' = reactions /\ pins' = pins /\ members' = members
      BY <2>2 DEF Reset, Restart, Reopen, Kept
    <3> QED BY <2>2, <3>1, NothingLost
  <2>3. CASE Channeled \/ Written \/ Tick \/ (\E b \in Batches : LoadFixtures(b))
               \/ (\E c, d \in Ids : UiFixtures(c, d))
    BY <2>3, OthersKeepRelations, NothingLost
  <2>4. CASE UNCHANGED vars
    BY <2>4
  <2> QED BY <1>1, <2>1, <2>2, <2>3, <2>4 DEF Next, Administered
<1> QED BY <1>1, PTL DEF Spec, NoCollateralLoss, Lost

-----------------------------------------------------------------------------
(* Direct channels: two lists that name everybody equally often sort alike  *)

HowOften(list, u) == {i \in DOMAIN list : list[i] = u}

Ascending(list, n) == \A i, j \in 1 .. n : i < j => list[i] <= list[j]

Alike(S, list, other) ==
  \A u \in S : Cardinality(HowOften(list, u)) = Cardinality(HowOften(other, u))

LEMMA SortedUsersSorts ==
  ASSUME NEW S, S \subseteq Nat, NEW list \in Seq(S)
  PROVE  /\ SortedUsers(list) \in [1 .. Len(list) -> S] /\ Len(list) \in Nat
         /\ Ascending(SortedUsers(list), Len(list))
<1> DEFINE n     == Len(list)
           place == InOrder(1 .. n, list)
<1>1. n \in Nat /\ list \in [1 .. n -> S]
  BY LenProperties
<1>2. IsFiniteSet(1 .. n) /\ Cardinality(1 .. n) = n
  BY <1>1, UpTo
<1> HIDE DEF n
<1>3. 1 .. n \subseteq Int /\ \A i \in 1 .. n : list[i] \in Int
  <2>1. \A i \in 1 .. n : list[i] \in S
    BY <1>1
  <2>2. \A x \in S : x \in Int
    OBVIOUS
  <2>3. 1 .. n \subseteq Int
    BY <1>1
  <2>4. \A i \in 1 .. n : list[i] \in Int
    BY <2>1, <2>2
  <2> QED BY <2>3, <2>4
<1>4. /\ place \in Seq(1 .. n) /\ Len(place) = n
      /\ \A a, b \in 1 .. n : a < b => Precedes(list, place[a], place[b])
  BY <1>1, <1>2, <1>3, InOrderSorts
<1> HIDE DEF place
<1>5. place \in [1 .. n -> 1 .. n]
  BY <1>4, LenProperties
<1>6. \A k \in 1 .. n : list[place[k]] \in S
  BY <1>1, <1>5
<1>7. SortedUsers(list) = [k \in 1 .. n |-> list[place[k]]]
  BY DEF SortedUsers, n, place
<1>8. ASSUME NEW i \in 1 .. n, NEW j \in 1 .. n, i < j
      PROVE  list[place[i]] <= list[place[j]]
  <2>1. Precedes(list, place[i], place[j])
    BY <1>4, <1>8
  <2>2. list[place[i]] \in Nat /\ list[place[j]] \in Nat
    BY <1>6
  <2> QED BY <2>1, <2>2 DEF Precedes
<1> QED BY <1>1, <1>6, <1>7, <1>8 DEF n, Ascending

\* Where two sorted lists first differ, an element of the one is missing in the
\* other: their counts of it differ.
LEMMA FirstDifference ==
  ASSUME NEW m \in Nat, NEW n \in Nat, NEW s \in [1 .. m -> Nat], NEW t \in [1 .. n -> Nat],
         NEW k \in 1 .. m,
         \A i \in 1 .. k - 1 : i \in 1 .. n /\ s[i] = t[i],
         \A i \in 1 .. n : i >= k => t[i] # s[k]
  PROVE  Cardinality(HowOften(t, s[k])) < Cardinality(HowOften(s, s[k]))
<1> DEFINE mine   == HowOften(s, s[k])
           theirs == HowOften(t, s[k])
<1>1. k \in mine /\ mine \subseteq 1 .. m
  BY DEF HowOften
<1>2. theirs \subseteq mine \ {k}
  <2> SUFFICES ASSUME NEW i \in theirs PROVE i \in mine /\ i # k
    OBVIOUS
  <2>1. i \in 1 .. n /\ t[i] = s[k]
    BY DEF HowOften
  <2>2. i < k
    BY <2>1
  <2>3. i \in 1 .. k - 1
    BY <2>1, <2>2
  <2> QED BY <2>1, <2>2, <2>3 DEF HowOften
<1> HIDE DEF mine, theirs
<1>3. IsFiniteSet(mine)
  BY <1>1, UpTo, FS_Subset
<1>4. /\ IsFiniteSet(mine \ {k}) /\ Cardinality(mine \ {k}) = Cardinality(mine) - 1
      /\ Cardinality(mine) \in Nat
  BY <1>1, <1>3, FS_RemoveElement, FS_CardinalityType
<1>5. IsFiniteSet(theirs) /\ Cardinality(theirs) <= Cardinality(mine \ {k})
  BY <1>2, <1>4, FS_Subset
<1>6. Cardinality(theirs) \in Nat
  BY <1>5, FS_CardinalityType
<1> QED BY <1>4, <1>5, <1>6 DEF mine, theirs

\* A nonempty set of numbers has a least one.
LEMMA LeastNumber ==
  ASSUME NEW T, T \subseteq Nat, T # {}
  PROVE  \E k \in T : \A j \in T : k <= j
<1>1. PICK k \in T : \A j \in T : ~(<<j, k>> \in OpToRel(<, Nat))
  BY NatLessThanWellFounded, WFMin
<1>2. \A j \in T : ~(j < k)
  BY <1>1 DEF OpToRel
<1> QED BY <1>2

\* Two sorted lists that name everybody equally often are the same list.
LEMMA SortedIsUnique ==
  ASSUME NEW S, S \subseteq Nat, NEW m \in Nat, NEW n \in Nat,
         NEW s \in [1 .. m -> S], NEW t \in [1 .. n -> S],
         Ascending(s, m), Ascending(t, n), Alike(S, s, t)
  PROVE  s = t
<1> DEFINE differ == {k \in Nat \ {0} : ~(k \in 1 .. m <=> k \in 1 .. n) \/ (k \in 1 .. m /\ k \in 1 .. n /\ s[k] # t[k])}
<1>1. CASE differ = {}
  <2>1. \A k \in Nat \ {0} : k \in 1 .. m <=> k \in 1 .. n
    BY <1>1
  <2>2. m = n
    <3>1. m > 0 => m <= n
      BY <2>1
    <3>2. n > 0 => n <= m
      BY <2>1
    <3> QED BY <3>1, <3>2
  <2>3. \A k \in 1 .. m : s[k] = t[k]
    BY <1>1, <2>2
  <2> QED BY <2>2, <2>3
<1>2. CASE differ # {}
  <2>1. differ \subseteq Nat
    OBVIOUS
  <2> HIDE DEF differ
  <2>2. PICK k \in differ : \A j \in differ : k <= j
    BY <1>2, <2>1, LeastNumber
  <2>3. /\ k \in Nat \ {0}
        /\ ~(k \in 1 .. m <=> k \in 1 .. n) \/ (k \in 1 .. m /\ k \in 1 .. n /\ s[k] # t[k])
    BY DEF differ
  <2>4. ASSUME NEW i \in 1 .. k - 1
        PROVE  (i \in 1 .. m <=> i \in 1 .. n) /\ (i \in 1 .. m => s[i] = t[i])
    <3>1. i \in Nat \ {0} /\ i \notin differ
      BY <2>2, <2>3
    <3> QED BY <3>1 DEF differ
  <2>5. \A i \in 1 .. m : s[i] \in Nat
    OBVIOUS
  <2>6. \A i \in 1 .. n : t[i] \in Nat
    OBVIOUS
  <2>7. ASSUME k \in 1 .. m, k \in 1 .. n => s[k] < t[k] PROVE FALSE
    <3>1. \A i \in 1 .. k - 1 : i \in 1 .. n /\ s[i] = t[i]
      BY <2>3, <2>4, <2>7
    <3>2. ASSUME NEW i \in 1 .. n, i >= k PROVE t[i] # s[k]
      <4>1. k \in 1 .. n
        BY <2>3, <3>2
      <4>2. t[k] <= t[i]
        BY <2>6, <3>2, <4>1 DEF Ascending
      <4> QED BY <2>5, <2>6, <2>7, <4>1, <4>2
    <3>3. s \in [1 .. m -> Nat] /\ t \in [1 .. n -> Nat]
      OBVIOUS
    <3>4. Cardinality(HowOften(t, s[k])) < Cardinality(HowOften(s, s[k]))
      BY <2>7, <3>1, <3>2, <3>3, FirstDifference
    <3>5. s[k] \in S
      BY <2>7
    <3>6. Cardinality(HowOften(s, s[k])) = Cardinality(HowOften(t, s[k]))
      BY <3>5 DEF Alike
    <3>7. IsFiniteSet(HowOften(s, s[k]))
      <4>1. HowOften(s, s[k]) \subseteq 1 .. m
        BY DEF HowOften
      <4> QED BY <4>1, UpTo, FS_Subset
    <3> QED BY <3>4, <3>6, <3>7, FS_CardinalityType
  <2>8. ASSUME k \in 1 .. n, k \in 1 .. m => t[k] < s[k] PROVE FALSE
    <3>1. \A i \in 1 .. k - 1 : i \in 1 .. m /\ t[i] = s[i]
      BY <2>3, <2>4, <2>8
    <3>2. ASSUME NEW i \in 1 .. m, i >= k PROVE s[i] # t[k]
      <4>1. k \in 1 .. m
        BY <2>3, <3>2
      <4>2. s[k] <= s[i]
        BY <2>5, <3>2, <4>1 DEF Ascending
      <4> QED BY <2>5, <2>6, <2>8, <4>1, <4>2
    <3>3. s \in [1 .. m -> Nat] /\ t \in [1 .. n -> Nat]
      OBVIOUS
    <3>4. Cardinality(HowOften(s, t[k])) < Cardinality(HowOften(t, t[k]))
      BY <2>8, <3>1, <3>2, <3>3, FirstDifference
    <3>5. t[k] \in S
      BY <2>8
    <3>6. Cardinality(HowOften(s, t[k])) = Cardinality(HowOften(t, t[k]))
      BY <3>5 DEF Alike
    <3>7. IsFiniteSet(HowOften(t, t[k]))
      <4>1. HowOften(t, t[k]) \subseteq 1 .. n
        BY DEF HowOften
      <4> QED BY <4>1, UpTo, FS_Subset
    <3> QED BY <3>4, <3>6, <3>7, FS_CardinalityType
  <2> QED BY <2>3, <2>5, <2>6, <2>7, <2>8
<1> QED BY <1>1, <1>2

(* In whatever order the users of a group are named, and whatever was opened, *)
(* deleted, reset or restarted before, conversations.open makes one channel   *)
(* for them.                                                                  *)
THEOREM DirectChannelsAreUnique == Spec => []OneDirectPerGroup
<1>1. OneDirectPerGroup
  <2> SUFFICES ASSUME NEW c \in DirectIds, NEW d \in DirectIds,
                      \A u \in Users : Cardinality({i \in DOMAIN c[2] : c[2][i] = u})
                                         = Cardinality({i \in DOMAIN d[2] : d[2][i] = u})
               PROVE  c = d
    BY DEF OneDirectPerGroup
  <2>1. PICK k \in Lists : c = DirectId(k)
    BY DEF DirectIds
  <2>2. PICK l \in Lists : d = DirectId(l)
    BY DEF DirectIds
  <2>3. k \in Seq(Users) /\ l \in Seq(Users) /\ Users \subseteq Nat
    BY UserAssumption
  <2>4. c[2] = SortedUsers(k) /\ d[2] = SortedUsers(l)
    BY <2>1, <2>2 DEF DirectId
  <2>5. Alike(Users, SortedUsers(k), SortedUsers(l))
    BY <2>4 DEF Alike, HowOften
  <2>6. SortedUsers(k) = SortedUsers(l)
    <3> DEFINE m == Len(k)
               n == Len(l)
               s == SortedUsers(k)
               t == SortedUsers(l)
    <3>1. s \in [1 .. m -> Users] /\ m \in Nat /\ Ascending(s, m)
      BY <2>3, SortedUsersSorts
    <3>2. t \in [1 .. n -> Users] /\ n \in Nat /\ Ascending(t, n)
      BY <2>3, SortedUsersSorts
    <3>3. Alike(Users, s, t)
      BY <2>5
    <3> HIDE DEF m, n, s, t
    <3>4. s = t
      <4>1. Users \subseteq Nat
        BY <2>3
      <4>2. s \in [1 .. m -> Users] /\ t \in [1 .. n -> Users] /\ m \in Nat /\ n \in Nat
        BY <3>1, <3>2
      <4> QED BY <3>1, <3>2, <3>3, <4>1, <4>2, SortedIsUnique
    <3> QED BY <3>4 DEF s, t
  <2> QED BY <2>1, <2>2, <2>6 DEF DirectId
<1> QED BY <1>1, PTL

-----------------------------------------------------------------------------
(* Paging                                                                   *)

\* The least and the greatest of two numbers.
LEMMA MinOfTwo ==
  ASSUME NEW m \in Int, NEW n \in Int
  PROVE  /\ Min({m, n}) = IF m <= n THEN m ELSE n
         /\ Max({m, n}) = IF m <= n THEN n ELSE m
<1>1. Min({m, n}) = IF m <= n THEN m ELSE n
  BY DEF Min
<1>2. Max({m, n}) = IF m <= n THEN n ELSE m
  BY DEF Max
<1> QED BY <1>1, <1>2

\* Min is the least number of a set.
LEMMA LeastOf ==
  ASSUME NEW T, T \subseteq Nat, T # {}
  PROVE  Min(T) \in T /\ \A j \in T : Min(T) <= j
BY LeastNumber DEF Min

-----------------------------------------------------------------------------
(* The rows in their order                                                  *)

\* Ids are below nextId; only the rows of the Slack lists sort by something else.
Table ==
  /\ DOMAIN rows \subseteq RowIds /\ \A i \in DOMAIN rows : i < nextId /\ rows[i] \in RowIds
  /\ lister # "list" => \A i \in DOMAIN rows : rows[i] = i

\* all is the list of the rows ids in the order of the table.
Ordered(all, ids) ==
  /\ all \in Seq(ids)
  /\ \A i \in ids : \E k \in 1 .. Len(all) : all[k] = i
  /\ \A m, n \in 1 .. Len(all) : m < n => Precedes(rows, all[m], all[n])

\* The rows are finitely many numbers, sorted by numbers.
LEMMA RowsFinite ==
  ASSUME Table, NEW ids, ids \subseteq DOMAIN rows
  PROVE  /\ ids \subseteq RowIds /\ ids \subseteq Int /\ IsFiniteSet(ids)
         /\ \A i \in ids : rows[i] \in Int
<1>1. MaxRow \in Nat /\ ids \subseteq RowIds
  BY PageAssumption DEF Table
<1>2. ids \subseteq Int
  BY <1>1 DEF RowIds
<1>3. IsFiniteSet(ids)
  BY <1>1, UpTo, FS_Subset DEF RowIds
<1>4. \A i \in RowIds : i \in Int
  BY DEF RowIds
<1>5. \A i \in ids : rows[i] \in RowIds
  BY DEF Table
<1> QED BY <1>1, <1>2, <1>3, <1>4, <1>5

\* Every list that the listers read is in order.
LEMMA RowsAreOrdered ==
  ASSUME Table, NEW ids, ids \subseteq DOMAIN rows
  PROVE  Ordered(Sorted(ids), ids)
<1> DEFINE all == Sorted(ids)
<1>1. /\ all \in Seq(ids) /\ Len(all) = Cardinality(ids)
      /\ \A i \in ids : \E k \in 1 .. Cardinality(ids) : all[k] = i
      /\ \A m, n \in 1 .. Cardinality(ids) : m < n => Precedes(rows, all[m], all[n])
  <2>1. IsFiniteSet(ids) /\ ids \subseteq Int
    BY RowsFinite
  <2>2. \A i \in ids : rows[i] \in Int
    BY RowsFinite
  <2>3. /\ InOrder(ids, rows) \in Seq(ids) /\ Len(InOrder(ids, rows)) = Cardinality(ids)
        /\ \A i \in ids : \E k \in 1 .. Cardinality(ids) : InOrder(ids, rows)[k] = i
        /\ \A m, n \in 1 .. Cardinality(ids) :
             m < n => Precedes(rows, InOrder(ids, rows)[m], InOrder(ids, rows)[n])
    BY <2>1, <2>2, InOrderSorts
  <2> QED BY <2>3 DEF Sorted
<1> HIDE DEF all
<1>2. Ordered(all, ids)
  BY <1>1 DEF Ordered
<1> QED BY <1>2 DEF all

\* Part of a list, from one place to another.
LEMMA PartOf ==
  ASSUME NEW S, NEW all \in Seq(S), NEW from \in Int, NEW to \in Int,
         1 <= from, from <= to + 1, to <= Len(all)
  PROVE  LET part == SubSeq(all, from, to) IN
         /\ part \in Seq(S) /\ Len(part) = to - from + 1
         /\ \A x : x \in ToSet(part) <=> \E k \in from .. to : x = all[k]
         /\ from <= to => part # <<>> /\ Head(part) = all[from] /\ Last(part) = all[to]
<1> DEFINE part == SubSeq(all, from, to)
<1>1. Len(all) \in Nat /\ \A k \in 1 .. Len(all) : all[k] \in S
  BY LenProperties
<1>2. \A k \in from .. to : k \in 1 .. Len(all) /\ all[k] \in S
  BY <1>1
<1>3. /\ part \in Seq(S) /\ Len(part) = to - from + 1
      /\ \A k \in 1 .. to - from + 1 : part[k] = all[from + k - 1]
  BY <1>2, SubSeqProperties
<1> HIDE DEF part
<1>4. DOMAIN part = 1 .. to - from + 1
  BY <1>3, LenProperties
<1>5. \A x : x \in ToSet(part) <=> \E k \in from .. to : x = all[k]
  <2>1. ASSUME NEW x \in ToSet(part) PROVE \E k \in from .. to : x = all[k]
    <3>1. PICK k \in 1 .. to - from + 1 : x = part[k]
      BY <1>4 DEF ToSet
    <3>2. from + k - 1 \in from .. to /\ x = all[from + k - 1]
      BY <1>3, <3>1
    <3> QED BY <3>2
  <2>2. ASSUME NEW k \in from .. to PROVE all[k] \in ToSet(part)
    <3>1. k - from + 1 \in 1 .. to - from + 1 /\ from + (k - from + 1) - 1 = k
      OBVIOUS
    <3>2. part[k - from + 1] = all[k]
      BY <1>3, <3>1
    <3> QED BY <1>4, <3>1, <3>2 DEF ToSet
  <2> QED BY <2>1, <2>2
<1>6. ASSUME from <= to PROVE part # <<>> /\ Head(part) = all[from] /\ Last(part) = all[to]
  <2>1. 1 \in 1 .. to - from + 1 /\ to - from + 1 \in 1 .. to - from + 1
    BY <1>6
  <2>2. part[1] = all[from] /\ part[to - from + 1] = all[to]
    BY <1>3, <2>1
  <2>3. part # <<>>
    BY <1>3, <1>6
  <2> QED BY <1>3, <2>2, <2>3 DEF Last
<1> QED BY <1>3, <1>5, <1>6 DEF part

\* These are the elements of a list after one place and up to another.
Shows(items, all, start, stop) ==
  \A x : x \in ToSet(items) <=> \E k \in 1 .. Len(all) : x = all[k] /\ start < k /\ k <= stop

\* The elements of a list beyond start, up to stop.
Cut(all, start, stop) == SubSeq(all, start + 1, Min({stop, Len(all)}))

LEMMA CutIs ==
  ASSUME NEW S, NEW all \in Seq(S), NEW start \in 0 .. Len(all), NEW stop \in Nat, start < stop
  PROVE  LET part == Cut(all, start, stop) IN
         /\ part \in Seq(S) /\ Shows(part, all, start, stop)
         /\ start < Len(all) => part # <<>> /\ Head(part) = all[start + 1]
         /\ stop <= Len(all) => Last(part) = all[stop] /\ Len(part) = stop - start
         /\ start >= Len(all) => part = <<>>
<1> DEFINE n    == Len(all)
           from == start + 1
           last == IF stop <= n THEN stop ELSE n
           part == SubSeq(all, from, last)
<1>1. n \in Nat
  BY LenProperties
<1>2. Min({stop, n}) = last
  <2>1. stop \in Int /\ n \in Int
    BY <1>1
  <2> HIDE DEF n
  <2> QED BY <2>1, MinOfTwo
<1>3. from \in Int /\ last \in Int /\ 1 <= from /\ from <= last + 1 /\ last <= Len(all)
  BY <1>1
<1>4. \A k : k \in from .. last <=> (k \in 1 .. Len(all) /\ start < k /\ k <= stop)
  BY <1>1
<1>5. start < n => from <= last
  BY <1>1
<1>6. stop <= n => from <= last /\ last = stop /\ last - from + 1 = stop - start
  BY <1>1
<1>7. start >= n => last < from
  BY <1>1
<1> HIDE DEF last, from
<1>8. /\ part \in Seq(S) /\ \A x : x \in ToSet(part) <=> \E k \in from .. last : x = all[k]
      /\ from <= last => part # <<>> /\ Head(part) = all[from] /\ Last(part) = all[last]
      /\ Len(part) = last - from + 1
  BY <1>3, PartOf
<1>9. last < from => part = <<>>
  BY <1>3, SubSeqEmpty
<1>10. Shows(part, all, start, stop)
  BY <1>4, <1>8 DEF Shows
<1>11. Cut(all, start, stop) = part
  BY <1>2 DEF from, Cut
<1> HIDE DEF part
<1> QED BY <1>5, <1>6, <1>7, <1>8, <1>9, <1>10, <1>11 DEF from

-----------------------------------------------------------------------------
(* Pages                                                                    *)

\* What a walk that stands at the cursor c has still to come to.
Follows(kind, key, c, i) ==
  \/ kind \in {"rest", "graphql"} /\ i > c
  \/ kind = "reverse" /\ (c = 0 \/ i < c)
  \/ kind = "list" /\ (c \notin DOMAIN key \/ Precedes(key, c, i))
  \/ kind = "history"

\* The row i comes after the cursor c.
After(c, i) == Follows(lister, rows, c, i)

\* What of ids comes after the cursor c.
Later(ids, c) == {i \in ids : After(c, i)}

\* A page shows rows that are still to come, and its cursor leaves for later
\* what it does not show, and that alone.
Contract(ids, c, answer) ==
  LET shown == ToSet(answer.items) IN
  /\ answer.items \in Seq(ids) /\ shown \subseteq Later(ids, c)
  /\ answer.next \in ids \cup {End}
  /\ answer.next = End => Later(ids, c) \subseteq shown
  /\ answer.next # End =>
       /\ answer.next \in shown
       /\ \A i \in Later(ids, c) : After(answer.next, i) \/ i \in shown
       /\ lister # "history" => \A i \in shown : ~After(answer.next, i)

LEMMA AnswerIs ==
  ASSUME NEW x, NEW y, NEW z
  PROVE  /\ Answer(x, y, z).items = x /\ Answer(x, y, z).next = y
         /\ Answer(x, y, z).prev = z
BY DEF Answer

\* After a row comes what follows it in the order of the list.
LEMMA AfterIsOrder ==
  ASSUME Table, NEW i \in DOMAIN rows, NEW j \in DOMAIN rows
  PROVE  /\ lister \in {"rest", "graphql", "list"} => (After(i, j) <=> Precedes(rows, i, j))
         /\ lister = "reverse" => (After(i, j) <=> Precedes(rows, j, i))
<1>1. i \in Int /\ j \in Int /\ i # 0 /\ j # 0
  BY PageAssumption DEF Table, RowIds
<1>2. lister # "list" => rows[i] = i /\ rows[j] = j
  BY DEF Table
<1> QED BY <1>1, <1>2 DEF After, Follows, Precedes

\* In a list in order, what precedes is what stands at a lower place.
LEMMA OrderedPlaces ==
  ASSUME Table, NEW ids, ids \subseteq DOMAIN rows, NEW all, Ordered(all, ids)
  PROVE  /\ Len(all) \in Nat /\ DOMAIN all = 1 .. Len(all)
         /\ \A k \in 1 .. Len(all) : all[k] \in ids
         /\ \A m, n \in 1 .. Len(all) : Precedes(rows, all[m], all[n]) <=> m < n
<1>1. Len(all) \in Nat /\ DOMAIN all = 1 .. Len(all) /\ \A k \in 1 .. Len(all) : all[k] \in ids
  BY LenProperties DEF Ordered
<1>2. ASSUME NEW m \in 1 .. Len(all), NEW n \in 1 .. Len(all), Precedes(rows, all[m], all[n]), ~(m < n)
      PROVE  FALSE
  <2>1. all[m] \in ids /\ all[n] \in ids
    BY <1>1
  <2>2. n = m \/ Precedes(rows, all[n], all[m])
    BY <1>1, <1>2 DEF Ordered
  <2>3. rows[all[m]] \in Int /\ rows[all[n]] \in Int /\ all[m] \in Int /\ all[n] \in Int
    BY <2>1, RowsFinite
  <2> QED BY <1>2, <2>2, <2>3 DEF Precedes
<1> QED BY <1>1, <1>2 DEF Ordered

\* A page of a list read forward from the place of its cursor.
LEMMA ForwardPage ==
  ASSUME Table, lister \in {"rest", "graphql", "list"},
         NEW ids, ids \subseteq DOMAIN rows, NEW all, Ordered(all, ids),
         NEW start \in 0 .. Len(all), NEW stop \in Nat, start < stop,
         NEW c, \A k \in 1 .. Len(all) : After(c, all[k]) <=> start < k,
         NEW answer, answer.items \in Seq(ids),
         Shows(answer.items, all, start, stop),
         answer.next = IF stop < Len(all) THEN all[stop] ELSE End
  PROVE  Contract(ids, c, answer)
<1> DEFINE n     == Len(all)
           shown == ToSet(answer.items)
<1>1. /\ n \in Nat /\ \A k \in 1 .. n : all[k] \in ids
      /\ \A k, m \in 1 .. n : Precedes(rows, all[k], all[m]) <=> k < m
      /\ \A i \in ids : \E k \in 1 .. n : all[k] = i
  <2>1. /\ n \in Nat /\ \A k \in 1 .. n : all[k] \in ids
        /\ \A k, m \in 1 .. n : Precedes(rows, all[k], all[m]) <=> k < m
    BY OrderedPlaces
  <2>2. \A i \in ids : \E k \in 1 .. n : all[k] = i
    BY DEF Ordered
  <2> QED BY <2>1, <2>2
<1>4. \A i : i \in shown <=> \E k \in 1 .. n : i = all[k] /\ start < k /\ k <= stop
  BY DEF Shows
<1>5. answer.next = IF stop < n THEN all[stop] ELSE End
  OBVIOUS
<1>6. \A k \in 1 .. n : After(c, all[k]) <=> start < k
  OBVIOUS
<1> HIDE DEF n, shown
<1>7. shown \subseteq Later(ids, c)
  BY <1>1, <1>4, <1>6 DEF Later
<1>8. ASSUME NEW i \in Later(ids, c)
      PROVE  \E k \in 1 .. n : i = all[k] /\ start < k
  BY <1>1, <1>6, <1>8 DEF Later
<1>9. CASE stop >= n
  <2>1. answer.next = End
    BY <1>1, <1>5, <1>9
  <2>2. Later(ids, c) \subseteq shown
    <3> SUFFICES ASSUME NEW i \in Later(ids, c) PROVE i \in shown
      OBVIOUS
    <3>1. PICK k \in 1 .. n : i = all[k] /\ start < k
      BY <1>8
    <3>2. k <= stop
      BY <1>1, <1>9
    <3> QED BY <1>4, <3>1, <3>2
  <2> QED BY <1>7, <2>1, <2>2 DEF Contract, shown
<1>10. CASE stop < n
  <2>1. answer.next = all[stop] /\ stop \in 1 .. n
    BY <1>1, <1>5, <1>10
  <2>2. answer.next \in ids /\ answer.next \in shown
    BY <1>1, <1>4, <2>1
  <2>3. answer.next # End
    <3>1. answer.next \in RowIds
      BY <2>2 DEF Table
    <3> QED BY <3>1, PageAssumption DEF RowIds
  <2>4. \A k \in 1 .. n : After(answer.next, all[k]) <=> stop < k
    <3> SUFFICES ASSUME NEW k \in 1 .. n PROVE After(answer.next, all[k]) <=> stop < k
      OBVIOUS
    <3>1. all[stop] \in DOMAIN rows /\ all[k] \in DOMAIN rows
      BY <1>1, <2>1
    <3>2. After(all[stop], all[k]) <=> Precedes(rows, all[stop], all[k])
      BY <3>1, AfterIsOrder
    <3> QED BY <1>1, <2>1, <3>2
  <2>5. ASSUME NEW i \in Later(ids, c) PROVE After(answer.next, i) \/ i \in shown
    <3>1. PICK k \in 1 .. n : i = all[k] /\ start < k
      BY <1>8
    <3>2. stop < k \/ k <= stop
      BY <1>1
    <3> QED BY <1>4, <2>4, <3>1, <3>2
  <2>6. ASSUME NEW i \in shown PROVE ~After(answer.next, i)
    <3>1. PICK k \in 1 .. n : i = all[k] /\ k <= stop
      BY <1>4
    <3>2. ~(stop < k)
      BY <1>1, <3>1
    <3> QED BY <2>4, <3>1, <3>2
  <2> QED BY <1>7, <2>2, <2>3, <2>5, <2>6 DEF Contract, shown
<1> QED BY <1>1, <1>9, <1>10

LEMMA OrderedShows ==
  ASSUME Table, NEW ids, ids \subseteq DOMAIN rows, NEW all, Ordered(all, ids)
  PROVE  ToSet(all) = ids
<1>1. DOMAIN all = 1 .. Len(all) /\ \A k \in 1 .. Len(all) : all[k] \in ids
  BY OrderedPlaces
<1>2. \A i \in ids : \E k \in 1 .. Len(all) : all[k] = i
  BY DEF Ordered
<1> QED BY <1>1, <1>2 DEF ToSet

\* Except in a Slack list, rows come by their ids.
LEMMA RowsAscend ==
  ASSUME Table, lister # "list", NEW ids, ids \subseteq DOMAIN rows, NEW all, Ordered(all, ids)
  PROVE  /\ Len(all) \in Nat /\ DOMAIN all = 1 .. Len(all)
         /\ \A k \in 1 .. Len(all) : all[k] \in ids /\ all[k] \in Nat \ {0}
         /\ \A m, n \in 1 .. Len(all) : m < n => all[m] < all[n]
<1>1. /\ Len(all) \in Nat /\ DOMAIN all = 1 .. Len(all)
      /\ \A k \in 1 .. Len(all) : all[k] \in ids
      /\ \A m, n \in 1 .. Len(all) : Precedes(rows, all[m], all[n]) <=> m < n
  BY OrderedPlaces
<1>2. \A i \in ids : i \in Nat \ {0} /\ rows[i] = i
  BY PageAssumption DEF Table, RowIds
<1>3. ASSUME NEW m \in 1 .. Len(all), NEW n \in 1 .. Len(all), m < n PROVE all[m] < all[n]
  <2>1. Precedes(rows, all[m], all[n]) /\ all[m] \in ids /\ all[n] \in ids
    BY <1>1, <1>3
  <2> QED BY <1>2, <2>1 DEF Precedes
<1> QED BY <1>1, <1>2, <1>3

\* Where a REST page starts, all that is beyond the cursor lies ahead.
LEMMA StartIs ==
  ASSUME Table, lister = "rest", NEW ids, ids \subseteq DOMAIN rows,
         NEW all, Ordered(all, ids), NEW c \in Nat
  PROVE  \/ StartIdx(all, c) = -1 /\ c # 0 /\ Later(ids, c) = {}
         \/ /\ StartIdx(all, c) \in 0 .. Len(all)
            /\ \A k \in 1 .. Len(all) : After(c, all[k]) <=> StartIdx(all, c) < k
<1>1. /\ Len(all) \in Nat /\ DOMAIN all = 1 .. Len(all)
      /\ \A k \in 1 .. Len(all) : all[k] \in ids /\ all[k] \in Nat \ {0}
      /\ \A m, n \in 1 .. Len(all) : m < n => all[m] < all[n]
  BY RowsAscend
<1>2. \A i \in ids : After(c, i) <=> i > c
  BY DEF After, Follows
<1>3. CASE c = 0
  BY <1>1, <1>2, <1>3 DEF StartIdx
<1>4. CASE c # 0 /\ Beyond(all, c) = {}
  <2>1. \A k \in 1 .. Len(all) : ~(all[k] > c)
    BY <1>1, <1>4 DEF Beyond
  <2>2. Later(ids, c) = {}
    BY <1>2, <2>1 DEF Later, Ordered
  <2> QED BY <1>4, <2>2 DEF StartIdx
<1>5. CASE c # 0 /\ Beyond(all, c) # {}
  <2> DEFINE m == Min(Beyond(all, c))
  <2>1. m \in 1 .. Len(all) /\ all[m] > c /\ \A k \in 1 .. Len(all) : all[k] > c => m <= k
    <3>1. Beyond(all, c) \subseteq Nat
      BY <1>1 DEF Beyond
    <3>2. m \in Beyond(all, c) /\ \A k \in Beyond(all, c) : m <= k
      BY <1>5, <3>1, LeastOf
    <3> QED BY <1>1, <3>2 DEF Beyond
  <2>2. StartIdx(all, c) = m - 1
    BY <1>5 DEF StartIdx
  <2> HIDE DEF m
  <2>3. ASSUME NEW k \in 1 .. Len(all) PROVE After(c, all[k]) <=> m <= k
    <3>1. m < k => all[m] < all[k]
      BY <1>1, <2>1
    <3>2. all[k] \in Nat /\ all[m] \in Nat /\ all[k] \in ids
      BY <1>1, <2>1
    <3>3. all[k] > c <=> m <= k
      BY <2>1, <3>1, <3>2
    <3> QED BY <1>2, <3>2, <3>3
  <2>4. m - 1 \in 0 .. Len(all) /\ \A k \in 1 .. Len(all) : m - 1 < k <=> m <= k
    BY <1>1, <2>1
  <2> QED BY <2>2, <2>3, <2>4
<1> QED BY <1>3, <1>4, <1>5

\* A REST page is a part of the list, with the previous link.
LEMMA RestPageIs ==
  ASSUME Table, lister = "rest", NEW ids, ids \subseteq DOMAIN rows,
         NEW all, Ordered(all, ids), NEW c \in Nat, NEW n \in Nat \ {0}
  PROVE  LET answer == RestPage(all, c, n)
             start  == StartIdx(all, c)
             back   == PrevStart(start, n)
         IN /\ answer.prev = IF c = 0 THEN End ELSE IF back \in DOMAIN all THEN all[back] ELSE back
            /\ \/ /\ start = -1 /\ c # 0 /\ Later(ids, c) = {}
                  /\ answer.items = <<>> /\ answer.next = End
               \/ /\ start \in 0 .. Len(all)
                  /\ \A k \in 1 .. Len(all) : After(c, all[k]) <=> start < k
                  /\ answer.items \in Seq(ids) /\ Shows(answer.items, all, start, start + n)
                  /\ start < Len(all) => Head(answer.items) = all[start + 1]
                  /\ start >= Len(all) => answer.items = <<>>
                  /\ answer.next = IF start + n < Len(all) THEN all[start + n] ELSE End
<1> DEFINE start  == StartIdx(all, c)
           back   == PrevStart(start, n)
           answer == RestPage(all, c, n)
           items  == IF start = -1 THEN <<>> ELSE Slice(all, start, n)
           prev   == IF c = 0 THEN End ELSE IF back \in DOMAIN all THEN all[back] ELSE back
<1>1. /\ answer.items = items /\ answer.prev = prev
      /\ answer.next = IF start # -1 /\ start + n < Len(all) /\ items # <<>> THEN Last(items) ELSE End
  BY AnswerIs DEF RestPage
<1>2. \/ start = -1 /\ c # 0 /\ Later(ids, c) = {}
      \/ start \in 0 .. Len(all) /\ \A k \in 1 .. Len(all) : After(c, all[k]) <=> start < k
  BY StartIs
<1> SUFFICES /\ answer.prev = prev
             /\ \/ /\ start = -1 /\ c # 0 /\ Later(ids, c) = {}
                   /\ answer.items = <<>> /\ answer.next = End
                \/ /\ start \in 0 .. Len(all)
                   /\ \A k \in 1 .. Len(all) : After(c, all[k]) <=> start < k
                   /\ answer.items \in Seq(ids) /\ Shows(answer.items, all, start, start + n)
                   /\ start < Len(all) => Head(answer.items) = all[start + 1]
                   /\ start >= Len(all) => answer.items = <<>>
                   /\ answer.next = IF start + n < Len(all) THEN all[start + n] ELSE End
  OBVIOUS
<1> HIDE DEF answer, start, prev
<1>3. CASE start = -1 /\ c # 0 /\ Later(ids, c) = {}
  BY <1>1, <1>3
<1>4. CASE start \in 0 .. Len(all) /\ \A k \in 1 .. Len(all) : After(c, all[k]) <=> start < k
  <2> DEFINE stop == start + n
  <2>1. Len(all) \in Nat /\ all \in Seq(ids)
    BY OrderedPlaces DEF Ordered
  <2>2. start \in 0 .. Len(all) /\ stop \in Nat /\ start < stop /\ start # -1
    BY <1>4, <2>1
  <2>3. items = Cut(all, start, stop)
    <3>1. items = Slice(all, start, n)
      BY <2>2
    <3> HIDE DEF items
    <3> QED BY <3>1 DEF Slice, Cut
  <2> HIDE DEF items
  <2>4. answer.next = IF stop < Len(all) /\ items # <<>> THEN Last(items) ELSE End
    BY <1>1, <2>2
  <2>5. stop = start + n
    OBVIOUS
  <2> HIDE DEF stop
  <2>6. /\ items \in Seq(ids) /\ Shows(items, all, start, stop)
        /\ stop <= Len(all) => Last(items) = all[stop]
        /\ start < Len(all) => items # <<>> /\ Head(items) = all[start + 1]
        /\ start >= Len(all) => items = <<>>
    <3> DEFINE part == Cut(all, start, stop)
    <3>1. all \in Seq(ids) /\ start \in 0 .. Len(all) /\ stop \in Nat /\ start < stop
      BY <2>1, <2>2
    <3>2. /\ part \in Seq(ids) /\ Shows(part, all, start, stop)
          /\ stop <= Len(all) => Last(part) = all[stop]
          /\ start < Len(all) => part # <<>> /\ Head(part) = all[start + 1]
          /\ start >= Len(all) => part = <<>>
      BY <3>1, CutIs
    <3> HIDE DEF part
    <3>3. items = part
      BY <2>3 DEF part
    <3> QED BY <3>2, <3>3
  <2>7. answer.next = IF stop < Len(all) THEN all[stop] ELSE End
    BY <2>1, <2>2, <2>4, <2>6
  <2> QED BY <1>1, <1>4, <2>5, <2>6, <2>7
<1> QED BY <1>1, <1>2, <1>3, <1>4

LEMMA RestPageKeeps ==
  ASSUME Table, lister = "rest", NEW ids, ids \subseteq DOMAIN rows,
         NEW all, Ordered(all, ids), NEW c \in Nat, NEW n \in Nat \ {0}
  PROVE  Contract(ids, c, RestPage(all, c, n))
<1> DEFINE start  == StartIdx(all, c)
           stop   == start + n
           answer == RestPage(all, c, n)
<1> SUFFICES Contract(ids, c, answer)
  OBVIOUS
<1>1. \/ /\ start = -1 /\ Later(ids, c) = {}
         /\ answer.items = <<>> /\ answer.next = End
      \/ /\ start \in 0 .. Len(all)
         /\ \A k \in 1 .. Len(all) : After(c, all[k]) <=> start < k
         /\ answer.items \in Seq(ids) /\ Shows(answer.items, all, start, stop)
         /\ answer.next = IF stop < Len(all) THEN all[stop] ELSE End
  BY RestPageIs
<1> HIDE DEF start, answer
<1>2. CASE answer.items = <<>> /\ answer.next = End /\ Later(ids, c) = {}
  <2>1. answer.items \in Seq(ids) /\ ToSet(answer.items) = {}
    BY <1>2 DEF ToSet
  <2> QED BY <1>2, <2>1 DEF Contract
<1>3. CASE /\ start \in 0 .. Len(all)
           /\ \A k \in 1 .. Len(all) : After(c, all[k]) <=> start < k
           /\ answer.items \in Seq(ids) /\ Shows(answer.items, all, start, stop)
           /\ answer.next = IF stop < Len(all) THEN all[stop] ELSE End
  <2>1. Len(all) \in Nat
    BY OrderedPlaces
  <2>2. stop \in Nat /\ start < stop
    BY <1>3, <2>1
  <2> HIDE DEF stop
  <2> QED BY <1>3, <2>2, ForwardPage
<1> QED BY <1>1, <1>2, <1>3

\* A sequence over a set is one over any larger set.
LEMMA SeqOfMore ==
  ASSUME NEW S, NEW T, S \subseteq T, NEW s \in Seq(S)
  PROVE  s \in Seq(T)
<1>1. Len(s) \in Nat /\ s \in [1 .. Len(s) -> S]
  BY LenProperties
<1>2. s \in [1 .. Len(s) -> T]
  BY <1>1
<1> QED BY <1>1, <1>2, SeqDef

\* A page of what is to come is a page of the list.
LEMMA PageOfLater ==
  ASSUME NEW ids, NEW c, NEW answer, Contract(Later(ids, c), c, answer)
  PROVE  Contract(ids, c, answer)
<1> DEFINE rest  == Later(ids, c)
           shown == ToSet(answer.items)
<1>1. rest \subseteq ids /\ Later(rest, c) = rest
  BY DEF Later
<1>2. Later(ids, c) = rest
  OBVIOUS
<1> HIDE DEF rest
<1>3. /\ answer.items \in Seq(rest) /\ shown \subseteq rest
      /\ answer.next \in rest \cup {End}
      /\ answer.next = End => rest \subseteq shown
      /\ answer.next # End =>
           /\ answer.next \in shown
           /\ \A i \in rest : After(answer.next, i) \/ i \in shown
           /\ lister # "history" => \A i \in shown : ~After(answer.next, i)
  BY <1>1 DEF Contract, rest
<1>4. answer.items \in Seq(ids)
  BY <1>1, <1>3, SeqOfMore
<1> QED BY <1>1, <1>2, <1>3, <1>4 DEF Contract

LEMMA GraphqlPageKeeps ==
  ASSUME Table, lister = "graphql", NEW ids, ids \subseteq DOMAIN rows,
         NEW all, Ordered(all, ids), NEW c \in Nat, NEW n \in Nat \ {0}
  PROVE  Contract(ids, c, GraphqlPage(all, c, n))
<1> DEFINE later  == Later(ids, c)
           rest   == Sorted(later)
           items  == Slice(rest, 0, n)
           answer == GraphqlPage(all, c, n)
<1> SUFFICES Contract(later, c, answer)
  BY PageOfLater
<1>1. later = {i \in ToSet(all) : i > c}
  BY OrderedShows DEF Later, After, Follows
<1>2. answer.items = items /\ answer.next = IF Len(rest) > n THEN Last(items) ELSE End
  BY <1>1, AnswerIs DEF GraphqlPage
<1>3. later \subseteq DOMAIN rows
  BY DEF Later
<1>4. Ordered(rest, later)
  BY <1>3, RowsAreOrdered
<1>5. \A i \in later : After(c, i)
  BY DEF Later
<1> HIDE DEF later, rest, answer
<1>6. rest \in Seq(later)
  BY <1>4 DEF Ordered
<1>7. Len(rest) \in Nat /\ \A k \in 1 .. Len(rest) : rest[k] \in later
  BY <1>6, LenProperties
<1>8. items = Cut(rest, 0, n)
  <2>1. 0 + n = n
    OBVIOUS
  <2>2. {0 + n, Len(rest)} = {n, Len(rest)}
    BY <2>1
  <2> QED BY <2>2 DEF Slice, Cut
<1> HIDE DEF items
<1>9. 0 \in 0 .. Len(rest) /\ n \in Nat /\ 0 < n
  BY <1>7
<1>10. /\ items \in Seq(later) /\ Shows(items, rest, 0, n)
       /\ n <= Len(rest) => Last(items) = rest[n]
  BY <1>6, <1>8, <1>9, CutIs
<1>11. answer.next = IF n < Len(rest) THEN rest[n] ELSE End
  BY <1>2, <1>7, <1>10
<1>12. \A k \in 1 .. Len(rest) : After(c, rest[k]) <=> 0 < k
  BY <1>5, <1>7
<1>13. answer.items \in Seq(later) /\ Shows(answer.items, rest, 0, n)
  BY <1>2, <1>10
<1> QED BY <1>3, <1>4, <1>9, <1>11, <1>12, <1>13, ForwardPage

LEMMA ProductGrows ==
  ASSUME NEW a \in Nat, NEW b \in Nat, b >= 1
  PROVE  a * b \in Nat /\ a * b >= a
<1>1. a * b = a + a * (b - 1)
  OBVIOUS
<1>2. a * (b - 1) \in Nat
  OBVIOUS
<1> QED BY <1>1, <1>2

LEMMA ListPageKeeps ==
  ASSUME Table, lister = "list", textual \in BOOLEAN, NEW ids, ids \subseteq DOMAIN rows,
         NEW all, Ordered(all, ids), NEW c, c \in ids \/ c \notin DOMAIN rows, NEW n \in Limits
  PROVE  Contract(ids, c, ListPage(all, c, n))
<1> DEFINE start  == ListStart(all, c)
           stop   == ListEnd(start, n)
           items  == SubSeq(all, start + 1, Min({stop, Len(all)}))
           answer == ListPage(all, c, n)
<1> SUFFICES Contract(ids, c, answer)
  OBVIOUS
<1>1. answer.items = items /\ answer.next = IF stop < Len(all) THEN Last(items) ELSE End
  <2>1. answer = Answer(items, IF stop < Len(all) THEN Last(items) ELSE End, End)
    BY DEF ListPage
  <2> HIDE DEF items, stop, answer
  <2> QED BY <2>1, AnswerIs
<1>2. /\ Len(all) \in Nat /\ DOMAIN all = 1 .. Len(all) /\ all \in Seq(ids)
      /\ \A k \in 1 .. Len(all) : all[k] \in ids
      /\ \A m, k \in 1 .. Len(all) : Precedes(rows, all[m], all[k]) <=> m < k
  <2>1. all \in Seq(ids)
    BY DEF Ordered
  <2> QED BY <2>1, OrderedPlaces
<1>3. start \in 0 .. Len(all) /\ \A k \in 1 .. Len(all) : After(c, all[k]) <=> start < k
  <2>1. CASE c \in ids
    <3>1. \E k \in DOMAIN all : all[k] = c
      BY <1>2, <2>1 DEF Ordered
    <3>2. start = CHOOSE k \in DOMAIN all : all[k] = c
      BY <2>1, OrderedShows DEF ListStart, CursorPlace
    <3>3. start \in DOMAIN all /\ all[start] = c
      BY <3>1, <3>2
    <3> HIDE DEF start
    <3>4. ASSUME NEW k \in 1 .. Len(all) PROVE After(c, all[k]) <=> start < k
      <4>1. After(c, all[k]) <=> Precedes(rows, c, all[k])
        BY <1>2, <2>1, AfterIsOrder
      <4>2. Precedes(rows, all[start], all[k]) <=> start < k
        BY <1>2, <3>3
      <4> QED BY <3>3, <4>1, <4>2
    <3> QED BY <1>2, <3>3, <3>4
  <2>2. CASE c \notin DOMAIN rows
    <3>1. start = 0
      BY <2>2, OrderedShows DEF ListStart, CursorPlace
    <3>2. \A i : After(c, i)
      BY <2>2 DEF After, Follows
    <3> HIDE DEF start
    <3> QED BY <1>2, <3>1, <3>2
  <2> QED BY <2>1, <2>2
<1> HIDE DEF start, answer
<1>4. stop \in Nat /\ start < stop
  <2>1. n \in Nat \ {0} /\ Shift[n] \in Nat /\ n < Shift[n] /\ start \in Nat
    BY <1>3, PageAssumption
  <2>2. start * Shift[n] \in Nat /\ start * Shift[n] >= start
    BY <2>1, ProductGrows
  <2>3. CASE textual
    <3>1. stop = start * Shift[n] + n
      BY <2>3 DEF ListEnd
    <3> DEFINE p == start * Shift[n]
    <3>2. p \in Nat /\ p >= start /\ stop = p + n
      BY <2>2, <3>1
    <3> HIDE DEF p, stop
    <3> QED BY <2>1, <3>2
  <2>4. CASE ~textual
    BY <2>1, <2>4 DEF ListEnd
  <2> QED BY <2>3, <2>4
<1>5. items = Cut(all, start, stop)
  BY DEF Cut
<1> HIDE DEF items, stop
<1>6. /\ items \in Seq(ids) /\ Shows(items, all, start, stop)
      /\ stop <= Len(all) => Last(items) = all[stop]
  BY <1>2, <1>3, <1>4, <1>5, CutIs
<1>7. answer.next = IF stop < Len(all) THEN all[stop] ELSE End
  BY <1>1, <1>2, <1>4, <1>6
<1>8. answer.items \in Seq(ids) /\ Shows(answer.items, all, start, stop)
  BY <1>1, <1>6
<1> QED BY <1>3, <1>4, <1>7, <1>8, ForwardPage

LEMMA ReversePageKeeps ==
  ASSUME Table, lister = "reverse", NEW ids, ids \subseteq DOMAIN rows,
         NEW all, Ordered(all, ids), NEW c \in Nat, NEW n \in Nat \ {0}
  PROVE  Contract(ids, c, ReversePage(all, c, n))
<1> DEFINE later  == Later(ids, c)
           rest   == Sorted(later)
           total  == Len(rest)
           from   == IF total > n THEN total - n + 1 ELSE 1
           items  == SubSeq(rest, from, total)
           answer == ReversePage(all, c, n)
<1> SUFFICES Contract(later, c, answer)
  BY PageOfLater
<1>1. later = {i \in ToSet(all) : c = 0 \/ i < c}
  BY OrderedShows DEF Later, After, Follows
<1>2. later \subseteq DOMAIN rows
  BY DEF Later
<1>3. Ordered(rest, later)
  BY <1>2, RowsAreOrdered
<1>4. /\ total \in Nat /\ \A k \in 1 .. total : rest[k] \in later
      /\ \A m, k \in 1 .. total : Precedes(rows, rest[m], rest[k]) <=> m < k
  <2> HIDE DEF later, rest
  <2> QED BY <1>2, <1>3, OrderedPlaces
<1>5. Max({1, total - n + 1}) = from
  <2> HIDE DEF rest, total
  <2>1. 1 \in Int /\ total - n + 1 \in Int
    BY <1>4
  <2>2. Max({1, total - n + 1}) = IF 1 <= total - n + 1 THEN total - n + 1 ELSE 1
    BY <2>1, MinOfTwo
  <2> QED BY <1>4, <2>2
<1>6. answer = Answer(items, IF total > n THEN Head(items) ELSE End, End)
  BY <1>1, <1>5 DEF ReversePage
<1>7. from \in Int /\ 1 <= from /\ from <= total + 1 /\ total \in Int
  <2> HIDE DEF rest, total
  <2> QED BY <1>4
<1>8. total > n => from <= total
  <2> HIDE DEF rest, total
  <2> QED BY <1>4
<1>9. rest \in Seq(later) /\ \A i \in later : \E k \in 1 .. total : rest[k] = i
  BY <1>3 DEF Ordered
<1>10. from = 1 \/ total > n
  OBVIOUS
<1> HIDE DEF later, rest, from, answer
<1>11. /\ items \in Seq(later)
       /\ \A x : x \in ToSet(items) <=> \E k \in from .. total : x = rest[k]
       /\ from <= total => Head(items) = rest[from]
  <2>1. total <= Len(rest) /\ rest \in Seq(later)
    BY <1>4, <1>9
  <2>2. from \in Int /\ total \in Int /\ 1 <= from /\ from <= total + 1
    BY <1>7
  <2> HIDE DEF total, items
  <2>3. LET part == SubSeq(rest, from, total) IN
        /\ part \in Seq(later)
        /\ \A x : x \in ToSet(part) <=> \E k \in from .. total : x = rest[k]
        /\ from <= total => Head(part) = rest[from]
    BY <2>1, <2>2, PartOf
  <2> QED BY <2>3 DEF items
<1> HIDE DEF items, total
<1>12. answer.items = items /\ answer.next = IF total > n THEN rest[from] ELSE End
  BY <1>6, <1>8, <1>11, AnswerIs
<1>13. Later(later, c) = later
  BY DEF later, Later
<1>14. ToSet(items) \subseteq later
  BY <1>4, <1>7, <1>11
<1>15. CASE ~(total > n)
  <2>1. answer.next = End /\ from = 1
    BY <1>10, <1>12, <1>15
  <2>2. later \subseteq ToSet(items)
    BY <1>9, <1>11, <2>1
  <2> QED BY <1>11, <1>12, <1>13, <1>14, <2>1, <2>2 DEF Contract
<1>16. CASE total > n
  <2>1. from \in 1 .. total /\ answer.next = rest[from]
    BY <1>4, <1>7, <1>8, <1>12, <1>16
  <2>2. answer.next \in ToSet(items) /\ answer.next \in later
    BY <1>4, <1>11, <2>1
  <2>3. answer.next # End
    BY <1>2, <2>2, PageAssumption DEF Table, RowIds
  <2>4. \A k \in 1 .. total : After(answer.next, rest[k]) <=> k < from
    <3> SUFFICES ASSUME NEW k \in 1 .. total PROVE After(answer.next, rest[k]) <=> k < from
      OBVIOUS
    <3>1. rest[from] \in DOMAIN rows /\ rest[k] \in DOMAIN rows
      BY <1>2, <1>4, <2>1
    <3>2. After(rest[from], rest[k]) <=> Precedes(rows, rest[k], rest[from])
      BY <3>1, AfterIsOrder
    <3> QED BY <1>4, <2>1, <3>2
  <2>5. ASSUME NEW i \in later PROVE After(answer.next, i) \/ i \in ToSet(items)
    <3>1. PICK k \in 1 .. total : i = rest[k]
      BY <1>9
    <3>2. k < from \/ k \in from .. total
      BY <1>4, <2>1
    <3> QED BY <1>11, <2>4, <3>1, <3>2
  <2>6. ASSUME NEW i \in ToSet(items) PROVE ~After(answer.next, i)
    <3>1. PICK k \in from .. total : i = rest[k]
      BY <1>11
    <3>2. k \in 1 .. total /\ ~(k < from)
      BY <1>4, <2>1, <3>1
    <3> QED BY <2>4, <3>1, <3>2
  <2> QED BY <1>11, <1>12, <1>13, <1>14, <2>2, <2>3, <2>5, <2>6 DEF Contract
<1> QED BY <1>15, <1>16

LEMMA HistoryPageKeeps ==
  ASSUME Table, lister = "history", NEW ids, ids \subseteq DOMAIN rows,
         NEW all, Ordered(all, ids), NEW c \in Nat, NEW n \in Nat \ {0}
  PROVE  Contract(ids, c, HistoryPage(all, c, n))
<1> DEFINE newest == Reverse(all)
           more   == n + 1
           found  == Slice(newest, 0, more)
           items  == Slice(found, 0, n)
           answer == HistoryPage(all, c, n)
<1> SUFFICES Contract(ids, c, answer)
  OBVIOUS
<1>1. answer = Answer(items, IF Len(found) > n THEN found[n] ELSE End, End)
  BY DEF HistoryPage, Older
<1>2. /\ Len(all) \in Nat /\ all \in Seq(ids) /\ \A k \in 1 .. Len(all) : all[k] \in ids
      /\ \A i \in ids : \E k \in 1 .. Len(all) : all[k] = i
  <2>1. all \in Seq(ids) /\ \A i \in ids : \E k \in 1 .. Len(all) : all[k] = i
    BY DEF Ordered
  <2> QED BY <2>1, LenProperties
<1>3. /\ newest \in Seq(ids) /\ Len(newest) = Len(all)
      /\ \A i \in ids : \E k \in 1 .. Len(all) : newest[k] = i
  <2>1. newest = [k \in 1 .. Len(all) |-> all[Len(all) - k + 1]]
    BY DEF Reverse
  <2> HIDE DEF newest
  <2>2. \A k \in 1 .. Len(all) : Len(all) - k + 1 \in 1 .. Len(all)
    BY <1>2
  <2>3. newest \in [1 .. Len(all) -> ids]
    BY <1>2, <2>1, <2>2
  <2>4. newest \in Seq(ids) /\ DOMAIN newest = 1 .. Len(all)
    BY <1>2, <2>3, SeqDef
  <2>5. Len(newest) \in Nat /\ DOMAIN newest = 1 .. Len(newest)
    BY <2>4, LenProperties
  <2>6. Len(newest) = Len(all)
    BY <1>2, <2>4, <2>5, UpTo
  <2>7. ASSUME NEW i \in ids PROVE \E k \in 1 .. Len(all) : newest[k] = i
    <3>1. PICK k \in 1 .. Len(all) : all[k] = i
      BY <1>2
    <3> DEFINE m == Len(all) - k + 1
    <3>2. m \in 1 .. Len(all) /\ Len(all) - m + 1 = k
      <4>1. Len(all) \in Int /\ k \in Int
        BY <1>2
      <4>2. m \in 1 .. Len(all)
        BY <2>2
      <4> HIDE DEF m
      <4>3. m = Len(all) - k + 1
        BY DEF m
      <4> QED BY <4>1, <4>2, <4>3
    <3> HIDE DEF m
    <3> QED BY <2>1, <3>1, <3>2
  <2> QED BY <2>4, <2>6, <2>7
<1> HIDE DEF newest, answer
<1>4. more \in Nat /\ 0 < more
  OBVIOUS
<1>5. found = Cut(newest, 0, more)
  <2>1. 0 + more = more
    OBVIOUS
  <2>2. {0 + more, Len(newest)} = {more, Len(newest)}
    BY <2>1
  <2> QED BY <2>2 DEF Slice, Cut
<1>6. n < more /\ \A k \in Nat : k < more <=> k <= n
  OBVIOUS
<1> HIDE DEF found, more
<1>7. /\ found \in Seq(ids) /\ Shows(found, newest, 0, more)
      /\ more <= Len(newest) => Len(found) = more - 0
  <2>1. 0 \in 0 .. Len(newest)
    BY <1>2, <1>3
  <2> QED BY <1>3, <1>4, <1>5, <2>1, CutIs
<1>8. Len(found) \in Nat /\ \A k \in 1 .. Len(found) : found[k] \in ids
  BY <1>7, LenProperties
<1>9. items = Cut(found, 0, n)
  <2>1. 0 + n = n
    OBVIOUS
  <2>2. {0 + n, Len(found)} = {n, Len(found)}
    BY <2>1
  <2> QED BY <2>2 DEF Slice, Cut
<1> HIDE DEF items
<1>10. items \in Seq(ids) /\ Shows(items, found, 0, n)
  <2>1. 0 \in 0 .. Len(found) /\ n \in Nat /\ 0 < n
    BY <1>8
  <2> QED BY <1>7, <1>9, <2>1, CutIs
<1>11. answer.items = items /\ answer.next = IF Len(found) > n THEN found[n] ELSE End
  BY <1>1, AnswerIs
<1>12. Later(ids, c) = ids /\ \A i, j : After(i, j)
  BY DEF Later, After, Follows
<1>13. ToSet(items) \subseteq ids
  BY <1>8, <1>10 DEF Shows
<1>14. CASE ~(Len(found) > n)
  <2>1. answer.next = End
    BY <1>11, <1>14
  <2>2. ~(more <= Len(newest))
    BY <1>2, <1>3, <1>4, <1>6, <1>7, <1>8, <1>14
  <2>3. ASSUME NEW i \in ids PROVE i \in ToSet(items)
    <3>1. PICK k \in 1 .. Len(all) : newest[k] = i
      BY <1>3
    <3>2. k \in 1 .. Len(newest) /\ 0 < k /\ k <= more
      BY <1>2, <1>3, <1>4, <2>2
    <3>3. i \in ToSet(found)
      BY <1>7, <3>1, <3>2 DEF Shows
    <3>4. PICK m \in 1 .. Len(found) : found[m] = i
      BY <1>7, <3>3, LenProperties DEF ToSet
    <3>5. 0 < m /\ m <= n
      BY <1>8, <1>14
    <3> QED BY <1>10, <3>4, <3>5 DEF Shows
  <2> QED BY <1>10, <1>11, <1>12, <1>13, <2>1, <2>3 DEF Contract
<1>15. CASE Len(found) > n
  <2>1. answer.next = found[n] /\ n \in 1 .. Len(found) /\ 0 < n
    BY <1>8, <1>11, <1>15
  <2>2. answer.next \in ids /\ answer.next \in ToSet(items)
    BY <1>8, <1>10, <2>1 DEF Shows
  <2>3. answer.next # End
    BY <2>2, PageAssumption DEF Table, RowIds
  <2> QED BY <1>10, <1>11, <1>12, <1>13, <2>2, <2>3 DEF Contract
<1> QED BY <1>14, <1>15

\* Every kind of list keeps the contract.
LEMMA PageKeeps ==
  ASSUME Table, lister \in {"rest", "graphql", "reverse", "list", "history"},
         limit \in Limits, textual \in BOOLEAN, NEW ids, ids \subseteq DOMAIN rows,
         NEW c \in RowIds \cup {0}, c \in ids \/ c \notin DOMAIN rows \/ lister # "list"
  PROVE  Contract(ids, c, PageAt(c, Sorted(ids)))
<1> DEFINE all == Sorted(ids)
<1>1. Ordered(all, ids)
  BY RowsAreOrdered
<1>2. c \in Nat /\ limit \in Nat \ {0}
  BY PageAssumption DEF RowIds
<1> SUFFICES Contract(ids, c, PageAt(c, all))
  OBVIOUS
<1> HIDE DEF all
<1>3. CASE lister = "rest"
  BY <1>1, <1>2, <1>3, RestPageKeeps DEF PageAt
<1>4. CASE lister = "graphql"
  BY <1>1, <1>2, <1>4, GraphqlPageKeeps DEF PageAt
<1>5. CASE lister = "reverse"
  BY <1>1, <1>2, <1>5, ReversePageKeeps DEF PageAt
<1>6. CASE lister = "list"
  BY <1>1, <1>2, <1>6, ListPageKeeps DEF PageAt
<1>7. CASE lister = "history"
  BY <1>1, <1>2, <1>7, HistoryPageKeeps DEF PageAt
<1> QED BY <1>3, <1>4, <1>5, <1>6, <1>7

\* What comes after a row after the cursor comes after the cursor.
LEMMA AfterGoesOn ==
  ASSUME Table, lister \in {"rest", "graphql", "reverse", "list", "history"},
         NEW c \in RowIds \cup {0}, NEW d \in DOMAIN rows, NEW i \in DOMAIN rows,
         After(c, d), After(d, i)
  PROVE  After(c, i)
<1>1. /\ d \in Nat \ {0} /\ i \in Nat \ {0} /\ c \in Nat
  BY PageAssumption DEF Table, RowIds
<1>2. CASE lister = "list" /\ c \in DOMAIN rows
  <2>1. rows[c] \in Int /\ rows[d] \in Int /\ rows[i] \in Int
    BY <1>2, RowsFinite
  <2> QED BY <1>1, <1>2, <2>1 DEF After, Follows, Precedes
<1>3. CASE ~(lister = "list" /\ c \in DOMAIN rows)
  BY <1>1, <1>3 DEF After, Follows
<1> QED BY <1>2, <1>3

\* Every row comes after no cursor.
LEMMA AllFollowsNone ==
  ASSUME Table, lister \in {"rest", "graphql", "reverse", "list", "history"}, NEW i \in DOMAIN rows
  PROVE  After(0, i)
<1>1. i > 0 /\ 0 \notin DOMAIN rows
  BY PageAssumption DEF Table, RowIds
<1> QED BY <1>1 DEF After, Follows

\* Rows of the page are counted, the others are not.
LEMMA CountedIs ==
  ASSUME NEW counts \in [RowIds -> 0 .. 2], NEW items
  PROVE  /\ Counted(counts, items) \in [RowIds -> 0 .. 2]
         /\ \A i \in RowIds \cap ToSet(items) :
              Counted(counts, items)[i] >= 1 /\ (counts[i] = 0 => Counted(counts, items)[i] = 1)
         /\ \A i \in RowIds \ ToSet(items) : Counted(counts, items)[i] = counts[i]
<1>1. \A i \in RowIds : counts[i] \in 0 .. 2
  OBVIOUS
<1>2. ASSUME NEW i \in RowIds
      PROVE  Min({2, counts[i] + 1}) = IF counts[i] = 2 THEN 2 ELSE counts[i] + 1
  <2> DEFINE m == counts[i]
  <2>1. m \in 0 .. 2
    BY <1>1
  <2> HIDE DEF m
  <2>2. m + 1 \in Int /\ 2 \in Int
    BY <2>1
  <2>3. Min({2, m + 1}) = IF 2 <= m + 1 THEN 2 ELSE m + 1
    BY <2>2, MinOfTwo
  <2>4. Min({2, m + 1}) = IF m = 2 THEN 2 ELSE m + 1
    BY <2>1, <2>3
  <2> QED BY <2>4 DEF m
<1>3. ASSUME NEW i \in RowIds
      PROVE  Counted(counts, items)[i]
               = IF i \in ToSet(items) THEN IF counts[i] = 2 THEN 2 ELSE counts[i] + 1 ELSE counts[i]
  BY <1>2 DEF Counted
<1>4. ASSUME NEW i \in RowIds PROVE Counted(counts, items)[i] \in 0 .. 2
  BY <1>1, <1>3
<1>5. Counted(counts, items) = [i \in RowIds |-> Counted(counts, items)[i]]
  BY DEF Counted
<1>6. Counted(counts, items) \in [RowIds -> 0 .. 2]
  BY <1>4, <1>5
<1> QED BY <1>1, <1>3, <1>6

\* A row that stands is shown by the page on which it comes, and by no other.
LEMMA ShownByThePage ==
  ASSUME Table, lister \in {"rest", "graphql", "reverse", "list", "history"},
         NEW ids, ids \subseteq DOMAIN rows, NEW c \in RowIds \cup {0},
         NEW answer, Contract(ids, c, answer),
         NEW before \in [RowIds -> 0 .. 2], NEW i \in DOMAIN rows
  PROVE  LET total == Counted(before, answer.items) IN
         /\ (lister # "history" /\ before[i] <= 1 /\ (before[i] >= 1 => ~After(c, i))) =>
              /\ total[i] <= 1
              /\ answer.next # End /\ total[i] >= 1 => ~After(answer.next, i)
         /\ (/\ i \in ids /\ (~After(c, i) => before[i] >= 1)
             /\ answer.next = End \/ ~After(answer.next, i)) => total[i] >= 1
<1> DEFINE total == Counted(before, answer.items)
           shown == ToSet(answer.items)
<1>1. i \in RowIds /\ before[i] \in 0 .. 2
  BY DEF Table
<1>2. /\ total \in [RowIds -> 0 .. 2]
      /\ i \in shown => total[i] >= 1 /\ (before[i] = 0 => total[i] = 1)
      /\ i \notin shown => total[i] = before[i]
  BY <1>1, CountedIs
<1>3. /\ shown \subseteq Later(ids, c)
      /\ answer.next = End => Later(ids, c) \subseteq shown
      /\ answer.next # End => answer.next \in shown
      /\ answer.next # End => \A j \in Later(ids, c) : After(answer.next, j) \/ j \in shown
      /\ answer.next # End /\ lister # "history" => \A j \in shown : ~After(answer.next, j)
  BY DEF Contract
<1> HIDE DEF total, shown
<1>4. ASSUME lister # "history", before[i] <= 1, before[i] >= 1 => ~After(c, i)
      PROVE  total[i] <= 1 /\ (answer.next # End /\ total[i] >= 1 => ~After(answer.next, i))
  <2>1. CASE i \in shown
    <3>1. before[i] = 0
      BY <1>1, <1>3, <1>4, <2>1 DEF Later
    <3> QED BY <1>2, <1>3, <1>4, <2>1, <3>1
  <2>2. CASE i \notin shown
    <3>1. total[i] = before[i]
      BY <1>2, <2>2
    <3>2. ASSUME answer.next # End, before[i] >= 1, After(answer.next, i) PROVE FALSE
      <4>1. answer.next \in DOMAIN rows /\ After(c, answer.next)
        BY <1>3, <3>2 DEF Later
      <4>2. After(c, i)
        BY <3>2, <4>1, AfterGoesOn
      <4> QED BY <1>4, <3>2, <4>2
    <3> QED BY <1>4, <3>1, <3>2
  <2> QED BY <2>1, <2>2
<1>5. ASSUME i \in ids, ~After(c, i) => before[i] >= 1, answer.next = End \/ ~After(answer.next, i)
      PROVE  total[i] >= 1
  <2>1. CASE After(c, i)
    <3>1. i \in shown
      BY <1>3, <1>5, <2>1 DEF Later
    <3> QED BY <1>2, <3>1
  <2>2. CASE ~After(c, i)
    BY <1>1, <1>2, <1>5, <2>2
  <2> QED BY <2>1, <2>2
<1> QED BY <1>4, <1>5 DEF total

-----------------------------------------------------------------------------
(* Back over the previous links                                             *)

\* The rows between two ids.
Gap(key, p, b) == {j \in DOMAIN key : p < j /\ j < b}

Between(p, b) == Gap(rows, p, b)

\* The previous link of a page goes back by no more than a page, and the page
\* after a cursor shows all of so many rows.
LEMMA PreviousLink ==
  ASSUME Table, lister = "rest", NEW all, Ordered(all, DOMAIN rows),
         NEW c \in Nat, NEW n \in Nat \ {0}
  PROVE  LET answer == RestPage(all, c, n) IN
         /\ c = 0 => answer.prev = End
         /\ c # 0 => answer.prev \in DOMAIN rows \cup {0}
         /\ answer.items # <<>> =>
              /\ Head(answer.items) \in DOMAIN rows /\ Head(answer.items) > c
              /\ \A j \in DOMAIN rows : j > c => j >= Head(answer.items)
              /\ c # 0 => Cardinality(Between(answer.prev, Head(answer.items))) <= n
              /\ \A b \in Nat : Cardinality(Between(c, b)) <= n =>
                   \A j \in Between(c, b) : j \in ToSet(answer.items)
<1> DEFINE start  == StartIdx(all, c)
           back   == PrevStart(start, n)
           answer == RestPage(all, c, n)
<1> SUFFICES /\ c = 0 => answer.prev = End
             /\ c # 0 => answer.prev \in DOMAIN rows \cup {0}
             /\ answer.items # <<>> =>
                  /\ Head(answer.items) \in DOMAIN rows /\ Head(answer.items) > c
                  /\ \A j \in DOMAIN rows : j > c => j >= Head(answer.items)
                  /\ c # 0 => Cardinality(Between(answer.prev, Head(answer.items))) <= n
                  /\ \A b \in Nat : Cardinality(Between(c, b)) <= n =>
                       \A j \in Between(c, b) : j \in ToSet(answer.items)
  OBVIOUS
<1>1. /\ answer.prev = IF c = 0 THEN End ELSE IF back \in DOMAIN all THEN all[back] ELSE back
      /\ \/ start = -1 /\ answer.items = <<>>
         \/ /\ start \in 0 .. Len(all)
            /\ \A k \in 1 .. Len(all) : After(c, all[k]) <=> start < k
            /\ Shows(answer.items, all, start, start + n)
            /\ start < Len(all) => Head(answer.items) = all[start + 1]
            /\ start >= Len(all) => answer.items = <<>>
  BY RestPageIs
<1> HIDE DEF start, answer
<1>2. /\ Len(all) \in Nat /\ DOMAIN all = 1 .. Len(all)
      /\ \A k \in 1 .. Len(all) : all[k] \in DOMAIN rows /\ all[k] \in Nat \ {0}
      /\ \A k, m \in 1 .. Len(all) : k < m => all[k] < all[m]
      /\ \A i \in DOMAIN rows : \E k \in 1 .. Len(all) : all[k] = i
  <2>1. \A i \in DOMAIN rows : \E k \in 1 .. Len(all) : all[k] = i
    BY DEF Ordered
  <2> QED BY <2>1, RowsAscend
<1>3. start \in 0 .. Len(all) \/ start = -1
  BY <1>1
<1>4. back \in 0 .. Len(all) /\ back = IF start >= n THEN start - n ELSE 0
  <2>1. 0 \in Int /\ start - n \in Int
    BY <1>2, <1>3
  <2>2. back = IF 0 <= start - n THEN start - n ELSE 0
    BY <2>1, MinOfTwo DEF PrevStart
  <2> QED BY <1>2, <1>3, <2>2
<1> HIDE DEF back
<1>5. answer.prev = IF c = 0 THEN End ELSE IF back = 0 THEN 0 ELSE all[back]
  BY <1>1, <1>2, <1>4
<1>6. c = 0 => answer.prev = End
  BY <1>5
<1>7. c # 0 => answer.prev \in DOMAIN rows \cup {0}
  BY <1>2, <1>4, <1>5
<1>8. ASSUME answer.items # <<>>
      PROVE  /\ start \in 0 .. Len(all) - 1 /\ Head(answer.items) = all[start + 1]
             /\ start + 1 \in 1 .. Len(all)
             /\ \A k \in 1 .. Len(all) : all[k] > c <=> start < k
             /\ Shows(answer.items, all, start, start + n)
  <2>1. \A i : After(c, i) <=> i > c
    BY DEF After, Follows
  <2>2. start \in 0 .. Len(all) /\ ~(start >= Len(all))
    BY <1>1, <1>8
  <2> QED BY <1>1, <1>2, <1>8, <2>1, <2>2
<1>9. ASSUME answer.items # <<>>
      PROVE  /\ Head(answer.items) \in DOMAIN rows /\ Head(answer.items) > c
             /\ \A j \in DOMAIN rows : j > c => j >= Head(answer.items)
  <2>1. Head(answer.items) \in DOMAIN rows /\ Head(answer.items) > c
    BY <1>2, <1>8, <1>9
  <2>2. ASSUME NEW j \in DOMAIN rows, j > c PROVE j >= Head(answer.items)
    <3>1. PICK k \in 1 .. Len(all) : all[k] = j
      BY <1>2
    <3>2. start < k
      BY <1>8, <1>9, <2>2, <3>1
    <3>3. k = start + 1 \/ start + 1 < k
      BY <1>8, <1>9, <3>2
    <3>4. k = start + 1 \/ all[start + 1] < all[k]
      BY <1>2, <1>8, <1>9, <3>3
    <3>5. all[start + 1] \in Nat /\ all[k] \in Nat
      BY <1>2, <1>8, <1>9
    <3> QED BY <1>8, <1>9, <3>1, <3>4, <3>5
  <2> QED BY <2>1, <2>2
<1>10. ASSUME answer.items # <<>>, c # 0
       PROVE  Cardinality(Between(answer.prev, Head(answer.items))) <= n
  <2> DEFINE head == Head(answer.items)
             gap  == Between(answer.prev, head)
             size == start - back
             f    == [k \in 1 .. size |-> all[back + k]]
  <2>1. head = all[start + 1] /\ start + 1 \in 1 .. Len(all)
    BY <1>8, <1>10
  <2>2. size \in Nat /\ size <= n /\ back + size = start /\ back \in Nat
    BY <1>2, <1>4, <1>8, <1>10
  <2>3. answer.prev = IF back = 0 THEN 0 ELSE all[back]
    BY <1>5, <1>10
  <2> HIDE DEF size, head
  <2>4. ASSUME NEW k \in 1 .. size PROVE all[back + k] \in gap
    <3>1. back + k \in 1 .. Len(all) /\ back < back + k /\ back + k < start + 1
      BY <1>2, <2>1, <2>2
    <3>2. all[back + k] < head /\ all[back + k] \in DOMAIN rows /\ all[back + k] \in Nat \ {0}
      BY <1>2, <2>1, <3>1
    <3>3. answer.prev < all[back + k]
      <4>1. CASE back = 0
        BY <2>3, <3>2, <4>1
      <4>2. CASE back # 0
        <5>1. back \in 1 .. Len(all)
          BY <1>4, <4>2
        <5> QED BY <1>2, <2>3, <3>1, <4>2, <5>1
      <4> QED BY <4>1, <4>2
    <3> QED BY <3>2, <3>3 DEF Between, Gap
  <2>5. ASSUME NEW j \in gap PROVE \E k \in 1 .. size : all[back + k] = j
    <3>1. j \in DOMAIN rows /\ answer.prev < j /\ j < head
      BY DEF Between, Gap
    <3>2. PICK m \in 1 .. Len(all) : all[m] = j
      BY <1>2, <3>1
    <3>3. m < start + 1
      <4> SUFFICES ASSUME ~(m < start + 1) PROVE FALSE
        OBVIOUS
      <4>1. m = start + 1 \/ start + 1 < m
        BY <2>1
      <4>2. all[m] \in Nat /\ all[start + 1] \in Nat
        BY <1>2, <2>1
      <4>3. m = start + 1 \/ all[start + 1] < all[m]
        BY <1>2, <2>1, <4>1
      <4> QED BY <2>1, <3>1, <3>2, <4>2, <4>3
    <3>4. back < m
      <4> SUFFICES ASSUME ~(back < m) PROVE FALSE
        OBVIOUS
      <4>1. back \in 1 .. Len(all) /\ (m = back \/ m < back)
        BY <1>2, <1>4
      <4>2. all[m] \in Nat /\ all[back] \in Nat /\ answer.prev = all[back]
        BY <1>2, <2>3, <4>1
      <4>3. m = back \/ all[m] < all[back]
        BY <1>2, <4>1
      <4> QED BY <3>1, <3>2, <4>2, <4>3
    <3> DEFINE k == m - back
    <3>5. k \in 1 .. size /\ back + k = m
      BY <2>2, <3>3, <3>4
    <3> HIDE DEF k
    <3> QED BY <3>2, <3>5
  <2>6. f \in [1 .. size -> gap]
    BY <2>4
  <2>7. \A j \in gap : \E k \in 1 .. size : f[k] = j
    BY <2>5
  <2> HIDE DEF f, gap
  <2>8. f \in Surjection(1 .. size, gap)
    BY <2>6, <2>7 DEF Surjection
  <2>9. IsFiniteSet(1 .. size) /\ Cardinality(1 .. size) = size
    BY <2>2, UpTo
  <2>10. IsFiniteSet(gap) /\ Cardinality(gap) <= size
    <3> DEFINE S == 1 .. size
    <3>1. IsFiniteSet(S) /\ f \in Surjection(S, gap) /\ Cardinality(S) = size
      BY <2>8, <2>9
    <3> HIDE DEF S
    <3>2. IsFiniteSet(gap) /\ Cardinality(gap) <= Cardinality(S)
      BY <3>1, FS_Surjection
    <3> QED BY <3>1, <3>2
  <2>11. Cardinality(gap) \in Nat
    BY <2>10, FS_CardinalityType
  <2> QED BY <2>2, <2>10, <2>11 DEF gap, head
<1>11. ASSUME answer.items # <<>>, NEW b \in Nat, Cardinality(Between(c, b)) <= n,
              NEW j \in Between(c, b), j \notin ToSet(answer.items)
       PROVE  FALSE
  <2> DEFINE gap == Between(c, b)
             f   == [k \in 1 .. n + 1 |-> all[start + k]]
  <2>1. j \in DOMAIN rows /\ c < j /\ j < b
    BY <1>11 DEF Between, Gap
  <2>2. PICK k \in 1 .. Len(all) : all[k] = j
    BY <1>2, <2>1
  <2>3. start < k
    BY <1>8, <1>11, <2>1, <2>2
  <2>4. start + n < k
    <3>1. ~(start < k /\ k <= start + n)
      BY <1>8, <1>11, <2>2 DEF Shows
    <3> QED BY <1>2, <1>8, <1>11, <2>3, <3>1
  <2>5. ASSUME NEW m \in 1 .. n + 1
        PROVE  start + m \in 1 .. Len(all) /\ all[start + m] \in gap
    <3>1. start + m \in 1 .. Len(all) /\ start < start + m /\ (start + m = k \/ start + m < k)
      BY <1>2, <1>8, <1>11, <2>4
    <3>2. all[start + m] > c /\ all[start + m] \in DOMAIN rows /\ all[start + m] \in Nat
      BY <1>2, <1>8, <1>11, <3>1
    <3>3. all[start + m] = j \/ all[start + m] < j
      BY <1>2, <2>2, <3>1
    <3>4. j \in Nat
      BY <1>2, <2>2
    <3>5. all[start + m] < b
      BY <2>1, <3>2, <3>3, <3>4
    <3> QED BY <3>1, <3>2, <3>5 DEF Between, Gap
  <2>6. ASSUME NEW l \in 1 .. n + 1, NEW m \in 1 .. n + 1, l < m PROVE all[start + l] # all[start + m]
    <3>1. /\ start + l \in 1 .. Len(all) /\ start + m \in 1 .. Len(all)
          /\ start + l < start + m
      BY <1>8, <1>11, <2>5, <2>6
    <3>2. all[start + l] < all[start + m] /\ all[start + l] \in Nat /\ all[start + m] \in Nat
      BY <1>2, <3>1
    <3> QED BY <3>2
  <2>7. f \in [1 .. n + 1 -> gap]
    BY <2>5
  <2>8. \A l, m \in 1 .. n + 1 : f[l] = f[m] => l = m
    <3> SUFFICES ASSUME NEW l \in 1 .. n + 1, NEW m \in 1 .. n + 1, f[l] = f[m], l # m
                 PROVE  FALSE
      OBVIOUS
    <3>1. l < m \/ m < l
      OBVIOUS
    <3> QED BY <2>6, <3>1
  <2>9. IsFiniteSet(gap)
    <3>1. gap \subseteq DOMAIN rows
      BY DEF Between, Gap
    <3> HIDE DEF gap
    <3> QED BY <3>1, RowsFinite
  <2>10. n + 1 \in Nat
    OBVIOUS
  <2>11. Cardinality(gap) <= n /\ Cardinality(gap) \in Nat
    BY <1>11, <2>9, FS_CardinalityType
  <2> DEFINE S == 1 .. n + 1
  <2>12. Cardinality(S) = n + 1
    BY <2>10, UpTo
  <2> HIDE DEF f, gap
  <2>13. f \in Injection(S, gap)
    BY <2>7, <2>8, Fun_IsInj
  <2> HIDE DEF S
  <2>14. Cardinality(S) <= Cardinality(gap)
    BY <2>9, <2>13, FS_Injection
  <2> QED BY <2>11, <2>12, <2>14
<1> QED BY <1>6, <1>7, <1>9, <1>10, <1>11

-----------------------------------------------------------------------------
(* The walk                                                                 *)

Kinds == {"rest", "graphql", "reverse", "list", "history"}

\* What the client holds: cursors and rows are of the past; only REST links lead
\* back, and only there is an empty page remembered.
Walker ==
  /\ lister \in Listers \cup {"rest", "graphql"} /\ limit \in Limits /\ textual \in BOOLEAN
  /\ PagesTypeOK
  /\ phase = "forward" /\ at \in RowIds => at < nextId
  /\ \A k \in DOMAIN page : page[k] < nextId
  /\ phase = "first" => at = 0 /\ previous = End /\ seen = Nothing
  /\ previous # End \/ phase = "back" => lister = "rest"
  /\ phase # "back" => ~emptied
  /\ emptied \in BOOLEAN

\* A row that stands was shown once at most, and is not still to come.
ShownOnce ==
  (phase = "forward" /\ strayed = "no" /\ lister # "history") =>
    /\ lister = "list" /\ at # End => at \in DOMAIN rows
    /\ \A i \in standing : seen[i] <= 1 /\ (at # End /\ seen[i] >= 1 => ~After(at, i))

\* A wanted row that stands was shown, or is still to come.
ShownSoFar ==
  (phase = "forward" /\ strayed # "renamed") =>
    \A i \in standing \cap wanted : (at = End \/ ~After(at, i)) => seen[i] >= 1

\* From the first row of a page, the previous link goes back by a page at most.
OnePageBack ==
  (phase = "forward" /\ previous # End /\ page # <<>>) =>
    Cardinality(Between(previous, Head(page))) <= limit

\* On the way back, what stands above some row was shown, and the next page
\* shows all that stands between.
ShownBack ==
  (phase = "back" /\ ~emptied) =>
    \E b \in RowIds :
      /\ b < nextId
      /\ at # End => Cardinality(Between(at, b)) <= limit
      /\ \A i \in standing : (at = End \/ i >= b) => seen[i] >= 1

WalkInv == Table /\ Walker /\ ShownOnce /\ ShownSoFar /\ OnePageBack /\ ShownBack

LEMMA InitWalkInv == WalkInit => WalkInv
<1> SUFFICES ASSUME WalkInit PROVE WalkInv
  OBVIOUS
<1> USE DEF WalkInit
<1>1. PICK n \in Sizes : rows = [i \in 1 .. n |-> i] /\ nextId = n + 1
  OBVIOUS
<1>2. n \in 0 .. MaxRow /\ MaxRow \in Nat
  BY PageAssumption
<1>3. DOMAIN rows = 1 .. n /\ \A i \in DOMAIN rows : rows[i] = i
  BY <1>1
<1>4. DOMAIN rows \subseteq RowIds /\ \A i \in DOMAIN rows : i < nextId /\ rows[i] \in RowIds
  BY <1>1, <1>2, <1>3 DEF RowIds
<1>5. Table
  BY <1>3, <1>4 DEF Table
<1>6. nextId \in 1 .. MaxRow + 1
  BY <1>1, <1>2
<1>7. Nothing \in [RowIds -> 0 .. 2] /\ 0 \notin RowIds /\ <<>> \in Seq(RowIds) /\ DOMAIN page = {}
  BY <1>2 DEF Nothing, RowIds
<1>8. PagesTypeOK
  BY <1>4, <1>6, <1>7 DEF PagesTypeOK
<1>9. Walker
  BY <1>7, <1>8 DEF Walker
<1>10. ShownOnce /\ ShownSoFar /\ OnePageBack /\ ShownBack
  BY DEF ShownOnce, ShownSoFar, OnePageBack, ShownBack
<1> QED BY <1>5, <1>9, <1>10 DEF WalkInv

LEMMA KindsAre == Walker => lister \in Kinds
BY ListerAssumption DEF Walker, Kinds

\* Only REST pages have a previous link.
LEMMA LinkBack ==
  ASSUME Table, lister \in Kinds, NEW all, NEW c, NEW n
  PROVE  /\ lister # "rest" => PageAt(c, all).prev = End
         /\ lister = "rest" => PageAt(c, all) = RestPage(all, c, limit)
<1>1. lister = "rest" => PageAt(c, all) = RestPage(all, c, limit)
  BY DEF PageAt
<1>2. CASE lister = "graphql"
  BY <1>2, AnswerIs DEF PageAt, GraphqlPage
<1>3. CASE lister = "reverse"
  BY <1>3 DEF PageAt, ReversePage, Answer
<1>4. CASE lister = "list"
  BY <1>4, AnswerIs DEF PageAt, ListPage
<1>5. CASE lister = "history"
  BY <1>5, AnswerIs DEF PageAt, HistoryPage
<1> QED BY <1>1, <1>2, <1>3, <1>4, <1>5 DEF Kinds

LEMMA NoLinkFirst ==
  ASSUME NEW all, NEW n
  PROVE  RestPage(all, 0, n).prev = End
BY DEF RestPage, Answer

\* A step to the next page, the first one or a later one.
LEMMA ForwardStep ==
  ASSUME WalkInv, at # End, NEW ids, ids \subseteq DOMAIN rows,
         NEW answer, answer = PageAt(at, Sorted(ids)),
         \/ phase = "first" /\ wanted' = ids
         \/ phase = "forward" /\ wanted' = wanted /\ ids = DOMAIN rows,
         phase' = "forward", at' = answer.next, previous' = answer.prev, page' = answer.items,
         seen' = Counted(seen, answer.items),
         UNCHANGED <<lister, limit, textual, rows, nextId, standing, strayed, emptied>>
  PROVE  WalkInv'
<1>1. /\ Table /\ Walker /\ PagesTypeOK /\ lister \in Kinds /\ limit \in Limits /\ textual \in BOOLEAN
      /\ at \in RowIds \cup {0} /\ seen \in [RowIds -> 0 .. 2]
      /\ standing \subseteq DOMAIN rows /\ DOMAIN rows \subseteq RowIds /\ phase # "back"
  BY KindsAre DEF WalkInv, Walker, PagesTypeOK
<1>2. /\ lister' = lister /\ limit' = limit /\ textual' = textual /\ rows' = rows
      /\ nextId' = nextId /\ standing' = standing /\ strayed' = strayed /\ emptied' = emptied
  OBVIOUS
<1>3. phase = "first" => at = 0 /\ at \notin DOMAIN rows /\ seen = Nothing
  BY <1>1, PageAssumption DEF Walker, RowIds
<1>4. Contract(ids, at, answer)
  <2>1. at \in ids \/ at \notin DOMAIN rows \/ lister # "list"
    BY <1>3
  <2> QED BY <1>1, <2>1, PageKeeps DEF Kinds
<1>5. /\ answer.items \in Seq(ids) /\ answer.next \in ids \cup {End}
      /\ answer.next # End => answer.next \in ids
  BY <1>4 DEF Contract
<1>6. Table'
  BY <1>1, <1>2 DEF Table
<1>7. /\ lister # "rest" => answer.prev = End
      /\ lister = "rest" => answer.prev \in DOMAIN rows \cup {0, End}
  <2>1. CASE lister # "rest"
    BY <1>1, <2>1, LinkBack
  <2>2. CASE lister = "rest"
    <3> DEFINE all == Sorted(ids)
    <3>1. Ordered(all, ids)
      BY <1>1, RowsAreOrdered
    <3>2. answer = RestPage(all, at, limit)
      BY <1>1, <2>2, LinkBack
    <3>3. at \in Nat /\ limit \in Nat \ {0}
      BY <1>1, PageAssumption DEF RowIds
    <3> HIDE DEF all
    <3>4. CASE phase = "first"
      BY <1>3, <2>2, <3>2, <3>4, NoLinkFirst
    <3>5. CASE ids = DOMAIN rows
      <4> DEFINE n == limit
                 c == at
      <4>1. Ordered(all, DOMAIN rows) /\ c \in Nat /\ n \in Nat \ {0} /\ answer = RestPage(all, c, n)
        BY <3>1, <3>2, <3>3, <3>5
      <4> HIDE DEF n, c
      <4>2. answer.prev \in DOMAIN rows \cup {0, End}
        BY <1>1, <2>2, <4>1, PreviousLink
      <4> QED BY <2>2, <4>2
    <3> QED BY <3>4, <3>5
  <2> QED BY <2>1, <2>2
<1>8. /\ page' \in Seq(RowIds) /\ \A k \in DOMAIN page' : page'[k] < nextId'
  <2>1. answer.items \in Seq(RowIds)
    BY <1>1, <1>5, SeqOfMore
  <2>2. \A k \in DOMAIN answer.items : answer.items[k] \in ids
    BY <1>5, LenProperties
  <2> QED BY <1>1, <1>2, <2>1, <2>2 DEF Table
<1>9. seen' \in [RowIds -> 0 .. 2]
  BY <1>1, CountedIs
<1>10. at' \in DOMAIN rows \cup {End} /\ at' = answer.next
  BY <1>5
<1>11. PagesTypeOK'
  <2>1. at' \in RowIds \cup {0, End} /\ previous' \in RowIds \cup {0, End}
    BY <1>1, <1>7, <1>10
  <2> QED BY <1>1, <1>2, <1>8, <1>9, <2>1 DEF PagesTypeOK
<1>12. Walker'
  <2>1. at' \in RowIds => at' < nextId'
    <3>1. End \notin RowIds
      BY PageAssumption DEF RowIds
    <3> QED BY <1>1, <1>2, <1>10, <3>1 DEF Table
  <2>2. phase' # "first" /\ phase' # "back" /\ (previous' # End => lister' = "rest")
    BY <1>2, <1>7
  <2>3. ~emptied' /\ lister' \in Listers \cup {"rest", "graphql"}
    BY <1>1, <1>2 DEF Walker
  <2> QED BY <1>1, <1>2, <1>8, <1>11, <2>1, <2>2, <2>3 DEF Walker
<1>13. ShownOnce'
  <2> SUFFICES ASSUME strayed = "no", lister # "history"
               PROVE  /\ lister = "list" /\ answer.next # End => answer.next \in DOMAIN rows
                      /\ \A i \in standing :
                           /\ seen'[i] <= 1
                           /\ answer.next # End /\ seen'[i] >= 1 => ~After(answer.next, i)
    BY <1>2 DEF ShownOnce, After
  <2>1. ASSUME NEW i \in standing
        PROVE  seen[i] <= 1 /\ (seen[i] >= 1 => ~After(at, i))
    <3>1. CASE phase = "first"
      <4>1. seen[i] = 0
        BY <1>1, <1>3, <3>1 DEF Nothing
      <4> QED BY <4>1
    <3>2. CASE phase = "forward"
      BY <3>2 DEF WalkInv, ShownOnce
    <3> QED BY <3>1, <3>2
  <2>2. ASSUME NEW i \in standing
        PROVE  seen'[i] <= 1 /\ (answer.next # End /\ seen'[i] >= 1 => ~After(answer.next, i))
    <3>1. i \in DOMAIN rows
      BY <1>1
    <3> QED BY <1>1, <1>4, <2>1, <3>1, ShownByThePage DEF Kinds
  <2> QED BY <1>10, <2>2
<1>14. ShownSoFar'
  <2> SUFFICES ASSUME strayed # "renamed", NEW i \in standing \cap wanted',
                      answer.next = End \/ ~After(answer.next, i)
               PROVE  seen'[i] >= 1
    BY <1>2 DEF ShownSoFar, After
  <2>1. i \in ids /\ i \in DOMAIN rows
    BY <1>1
  <2>2. ~After(at, i) => seen[i] >= 1
    <3>1. CASE phase = "first"
      <4>1. After(at, i)
        BY <1>1, <1>3, <2>1, <3>1, AllFollowsNone DEF Kinds
      <4> QED BY <4>1
    <3>2. CASE phase = "forward"
      BY <3>2 DEF WalkInv, ShownSoFar
    <3> QED BY <3>1, <3>2
  <2> QED BY <1>1, <1>4, <2>1, <2>2, ShownByThePage DEF Kinds
<1>15. OnePageBack'
  <2> SUFFICES ASSUME answer.prev # End, answer.items # <<>>
               PROVE  Cardinality(Between(answer.prev, Head(answer.items))) <= limit
    BY <1>2 DEF OnePageBack, Between
  <2>1. lister = "rest" /\ at \in Nat /\ limit \in Nat \ {0}
    BY <1>1, <1>7, PageAssumption DEF RowIds
  <2> DEFINE all == Sorted(ids)
  <2>2. Ordered(all, ids)
    BY <1>1, RowsAreOrdered
  <2>3. answer = RestPage(all, at, limit)
    BY <1>1, <2>1, LinkBack
  <2> HIDE DEF all
  <2>4. at # 0
    BY <2>3, NoLinkFirst
  <2>5. ids = DOMAIN rows
    BY <1>3, <2>4
  <2> QED BY <1>1, <2>1, <2>2, <2>3, <2>4, <2>5, PreviousLink
<1>16. ShownBack'
  BY DEF ShownBack
<1> QED BY <1>6, <1>12, <1>13, <1>14, <1>15, <1>16 DEF WalkInv

LEMMA FirstPageKeeps ==
  ASSUME WalkInv, FirstPage
  PROVE  WalkInv'
<1> DEFINE answer == PageAt(0, Sorted(wanted'))
<1>1. /\ phase = "first" /\ phase' = "forward" /\ wanted' \in Listings
      /\ at' = answer.next /\ previous' = answer.prev /\ page' = answer.items
      /\ seen' = Counted(Nothing, answer.items)
      /\ UNCHANGED <<lister, limit, textual, rows, nextId, standing, strayed, emptied>>
  BY DEF FirstPage, table
<1>2. wanted' \subseteq DOMAIN rows
  BY <1>1 DEF Listings, ListProducts, ListCustomers, ListOrders, ListInventoryItems
<1>3. at = 0 /\ seen = Nothing /\ at # End
  BY <1>1, PageAssumption DEF WalkInv, Walker
<1>4. answer = PageAt(at, Sorted(wanted'))
  BY <1>3
<1> DEFINE ids == wanted'
<1> HIDE DEF answer
<1>5. /\ ids \subseteq DOMAIN rows /\ answer = PageAt(at, Sorted(ids)) /\ wanted' = ids
  BY <1>2, <1>4
<1> HIDE DEF ids
<1> QED BY <1>1, <1>3, <1>5, ForwardStep

LEMMA NextPageKeeps ==
  ASSUME WalkInv, NextPage
  PROVE  WalkInv'
<1> DEFINE answer == PageAt(at, Sorted(DOMAIN rows))
<1>1. /\ phase = "forward" /\ at # End /\ at' = answer.next /\ previous' = answer.prev
      /\ page' = answer.items /\ seen' = Counted(seen, answer.items)
      /\ wanted' = wanted /\ phase' = "forward"
      /\ UNCHANGED <<lister, limit, textual, rows, nextId, standing, strayed, emptied>>
  BY DEF NextPage, table
<1> DEFINE ids == DOMAIN rows
<1>2. ids = DOMAIN rows /\ ids \subseteq DOMAIN rows /\ answer = PageAt(at, Sorted(ids))
  OBVIOUS
<1> HIDE DEF ids, answer
<1> QED BY <1>1, <1>2, ForwardStep

LEMMA HeadOfPage ==
  ASSUME Walker, page # <<>>
  PROVE  Head(page) \in RowIds /\ Head(page) < nextId
<1>1. page \in Seq(RowIds)
  BY DEF Walker, PagesTypeOK
<1>2. Len(page) \in Nat /\ DOMAIN page = 1 .. Len(page) /\ \A k \in 1 .. Len(page) : page[k] \in RowIds
  BY <1>1, LenProperties
<1>3. Len(page) # 0
  BY <1>1, EmptySeq
<1>4. 1 \in DOMAIN page /\ Head(page) = page[1]
  BY <1>1, <1>2, <1>3
<1> QED BY <1>2, <1>4 DEF Walker

LEMMA TurnBackKeeps ==
  ASSUME WalkInv, TurnBack
  PROVE  WalkInv'
<1>1. /\ phase = "forward" /\ previous # End /\ page # <<>> /\ phase' = "back" /\ at' = previous
      /\ standing' = {i \in standing : i < Head(page)} /\ seen' = Nothing
      /\ lister' = lister /\ limit' = limit /\ textual' = textual /\ rows' = rows
      /\ nextId' = nextId /\ previous' = previous /\ page' = page /\ emptied' = emptied
      /\ strayed' = strayed
  BY DEF TurnBack
<1>2. /\ Table /\ Walker /\ PagesTypeOK /\ lister = "rest" /\ ~emptied
      /\ previous \in RowIds \cup {0} /\ page \in Seq(RowIds)
      /\ standing \subseteq DOMAIN rows /\ DOMAIN rows \subseteq RowIds
  BY <1>1 DEF WalkInv, Walker, PagesTypeOK
<1>3. Head(page) \in RowIds /\ Head(page) < nextId
  BY <1>1, <1>2, HeadOfPage
<1>4. Table'
  BY <1>1, <1>2 DEF Table
<1>5. Nothing \in [RowIds -> 0 .. 2]
  BY DEF Nothing
<1>6. PagesTypeOK'
  BY <1>1, <1>2, <1>5 DEF PagesTypeOK
<1>7. Walker'
  BY <1>1, <1>2, <1>6 DEF Walker
<1>8. ShownOnce' /\ ShownSoFar' /\ OnePageBack'
  BY <1>1 DEF ShownOnce, ShownSoFar, OnePageBack
<1>9. ShownBack'
  <2>1. PICK b \in RowIds : b = Head(page)
    BY <1>3
  <2>2. Cardinality(Gap(rows, previous, b)) <= limit
    BY <1>1, <2>1 DEF WalkInv, OnePageBack, Between
  <2>3. Cardinality(Gap(rows', at', b)) <= limit' /\ b < nextId'
    BY <1>1, <1>3, <2>1, <2>2
  <2>4. at' # End /\ \A i \in standing' : i < b /\ i \in Int /\ b \in Int
    BY <1>1, <1>2, <2>1 DEF RowIds
  <2>5. \A i \in standing' : ~(at' = End \/ i >= b)
    BY <2>4
  <2> QED BY <2>3, <2>5 DEF ShownBack, Between
<1> QED BY <1>4, <1>7, <1>8, <1>9 DEF WalkInv

LEMMA PreviousPageKeeps ==
  ASSUME WalkInv, PreviousPage
  PROVE  WalkInv'
<1> DEFINE answer == PageAt(at, Sorted(DOMAIN rows))
<1>1. /\ phase = "back" /\ at # End /\ at' = answer.prev
      /\ page' = answer.items /\ seen' = Counted(seen, answer.items)
      /\ emptied' = (emptied \/ answer.items = <<>>)
      /\ lister' = lister /\ limit' = limit /\ textual' = textual /\ rows' = rows
      /\ nextId' = nextId /\ previous' = previous /\ phase' = phase /\ standing' = standing
  BY DEF PreviousPage, table
<1>2. /\ Table /\ Walker /\ PagesTypeOK /\ lister = "rest" /\ limit \in Limits /\ textual \in BOOLEAN
      /\ at \in RowIds \cup {0} /\ seen \in [RowIds -> 0 .. 2] /\ emptied \in BOOLEAN
      /\ standing \subseteq DOMAIN rows /\ DOMAIN rows \subseteq RowIds
  BY <1>1 DEF WalkInv, Walker, PagesTypeOK
<1> DEFINE all == Sorted(DOMAIN rows)
           c   == at
           n   == limit
<1>3. c \in Nat /\ n \in Nat \ {0} /\ Ordered(all, DOMAIN rows)
  BY <1>2, RowsAreOrdered, PageAssumption DEF RowIds
<1>4. answer = RestPage(all, c, n)
  BY <1>2, LinkBack DEF Kinds
<1>5. c = at /\ n = limit
  OBVIOUS
<1> HIDE DEF answer, all, c, n
<1>6. /\ c = 0 => answer.prev = End
      /\ c # 0 => answer.prev \in DOMAIN rows \cup {0}
      /\ answer.items # <<>> =>
           /\ Head(answer.items) \in DOMAIN rows /\ Head(answer.items) > c
           /\ \A j \in DOMAIN rows : j > c => j >= Head(answer.items)
           /\ c # 0 => Cardinality(Between(answer.prev, Head(answer.items))) <= n
           /\ \A b \in Nat : Cardinality(Between(c, b)) <= n =>
                \A j \in Between(c, b) : j \in ToSet(answer.items)
  BY <1>2, <1>3, <1>4, PreviousLink
<1>7. answer.items \in Seq(DOMAIN rows)
  <2> DEFINE ids == DOMAIN rows
  <2>1. ids \subseteq DOMAIN rows /\ Ordered(all, ids)
    BY <1>3
  <2> HIDE DEF ids
  <2>2. Contract(ids, c, answer)
    BY <1>2, <1>3, <1>4, <2>1, RestPageKeeps
  <2> QED BY <2>2 DEF Contract, ids
<1>8. Table'
  BY <1>1, <1>2 DEF Table
<1>9. page' \in Seq(RowIds) /\ \A k \in DOMAIN page' : page'[k] < nextId'
  <2>1. answer.items \in Seq(RowIds)
    BY <1>2, <1>7, SeqOfMore
  <2>2. \A k \in DOMAIN answer.items : answer.items[k] \in DOMAIN rows
    BY <1>7, LenProperties
  <2> QED BY <1>1, <1>2, <2>1, <2>2 DEF Table
<1>10. seen' \in [RowIds -> 0 .. 2] /\ emptied' \in BOOLEAN
  BY <1>1, <1>2, CountedIs
<1>11. at' \in RowIds \cup {0, End}
  BY <1>1, <1>2, <1>6
<1>12. PagesTypeOK'
  BY <1>1, <1>2, <1>9, <1>10, <1>11 DEF PagesTypeOK
<1>13. Walker'
  BY <1>1, <1>2, <1>9, <1>10, <1>12 DEF Walker
<1>14. ShownOnce' /\ ShownSoFar' /\ OnePageBack'
  BY <1>1 DEF ShownOnce, ShownSoFar, OnePageBack
<1>15. ShownBack'
  <2> SUFFICES ASSUME ~emptied'
               PROVE \E b \in RowIds :
                       /\ b < nextId'
                       /\ at' # End => Cardinality(Gap(rows', at', b)) <= limit'
                       /\ \A i \in standing' : (at' = End \/ i >= b) => seen'[i] >= 1
    BY DEF ShownBack, Between
  <2>1. ~emptied /\ answer.items # <<>>
    BY <1>1
  <2>2. PICK b \in RowIds :
          /\ b < nextId
          /\ Cardinality(Between(at, b)) <= limit
          /\ \A i \in standing : i >= b => seen[i] >= 1
    BY <1>1, <2>1 DEF WalkInv, ShownBack
  <2>3. ASSUME NEW i \in standing, i > c PROVE seen'[i] >= 1
    <3>1. i \in DOMAIN rows /\ i \in RowIds /\ i \in Int /\ b \in Nat
      BY <1>2, PageAssumption DEF RowIds
    <3>2. CASE i >= b
      <4>1. seen[i] >= 1 /\ seen[i] \in 0 .. 2
        BY <1>2, <2>2, <3>1, <3>2
      <4> QED BY <1>1, <1>2, <3>1, <4>1, CountedIs
    <3>3. CASE ~(i >= b)
      <4>1. i \in Between(c, b)
        BY <2>3, <3>1, <3>3 DEF Between, Gap
      <4>2. i \in ToSet(answer.items)
        BY <1>5, <1>6, <2>1, <2>2, <3>1, <4>1
      <4> QED BY <1>1, <1>2, <3>1, <4>2, CountedIs
    <3> QED BY <3>2, <3>3
  <2>4. PICK head \in RowIds : head = Head(answer.items) /\ head < nextId' /\ head > c
    <3>1. Head(answer.items) \in DOMAIN rows /\ Head(answer.items) > c
      BY <1>6, <2>1
    <3> QED BY <1>1, <1>2, <3>1 DEF Table
  <2>5. CASE c = 0
    <3>1. at' = End
      BY <1>1, <1>6, <2>5
    <3>2. \A i \in standing : i > c
      BY <1>2, <2>5 DEF RowIds
    <3> QED BY <1>1, <2>3, <2>4, <3>1, <3>2
  <2>6. CASE c # 0
    <3>1. Cardinality(Gap(rows, answer.prev, head)) <= limit
      BY <1>5, <1>6, <2>1, <2>4, <2>6 DEF Between
    <3>2. Cardinality(Gap(rows', at', head)) <= limit'
      BY <1>1, <3>1
    <3>3. at' # End
      BY <1>1, <1>2, <1>6, <2>6, PageAssumption DEF RowIds
    <3>4. ASSUME NEW i \in standing, i >= head PROVE i > c
      <4>1. head > c /\ head \in Int /\ i \in Int /\ c \in Int
        BY <1>2, <1>3, <2>4 DEF RowIds
      <4> QED BY <3>4, <4>1
    <3> QED BY <1>1, <2>3, <2>4, <3>2, <3>3, <3>4
  <2> QED BY <2>5, <2>6
<1> QED BY <1>8, <1>13, <1>14, <1>15 DEF WalkInv

LEMMA SwitchApiKeeps ==
  ASSUME WalkInv, SwitchApi
  PROVE  WalkInv'
<1>1. /\ phase = "forward" /\ previous' = End /\ limit' = limit /\ textual' = textual
      /\ wanted' = wanted /\ rows' = rows /\ nextId' = nextId /\ standing' = standing
      /\ strayed' = strayed /\ phase' = phase /\ at' = at /\ page' = page /\ seen' = seen
      /\ emptied' = emptied
  BY DEF SwitchApi, table
<1>2. lister \in {"rest", "graphql"} /\ lister' \in {"rest", "graphql"}
  BY DEF SwitchApi
<1>3. Table /\ Walker /\ PagesTypeOK
  BY DEF WalkInv, Walker
<1>4. Table'
  BY <1>1, <1>2, <1>3 DEF Table
<1>5. PagesTypeOK'
  BY <1>1, <1>3 DEF PagesTypeOK
<1>6. Walker'
  BY <1>1, <1>2, <1>3, <1>5 DEF Walker
<1>7. \A i : Follows(lister', rows', at', i) <=> Follows(lister, rows, at, i)
  BY <1>1, <1>2 DEF Follows
<1>8. ShownOnce'
  BY <1>1, <1>2, <1>7 DEF WalkInv, ShownOnce, After
<1>9. ShownSoFar'
  BY <1>1, <1>2, <1>7 DEF WalkInv, ShownSoFar, After
<1>10. OnePageBack' /\ ShownBack'
  BY <1>1 DEF OnePageBack, ShownBack
<1> QED BY <1>4, <1>6, <1>8, <1>9, <1>10 DEF WalkInv

\* A change of the table while the client holds a page and a cursor.
LEMMA EditKeeps ==
  ASSUME WalkInv, UNCHANGED <<lister, limit, textual, wanted, client>>, Table',
         nextId' \in 1 .. MaxRow + 1, nextId <= nextId',
         standing' \subseteq standing, standing' \subseteq DOMAIN rows',
         \A i \in standing' : rows'[i] = rows[i],
         \A j \in DOMAIN rows' : j \in DOMAIN rows \/ j = nextId,
         strayed' = "no" => strayed = "no",
         strayed' # "renamed" => strayed # "renamed",
         (lister = "list" /\ strayed' = "no" /\ at \in DOMAIN rows) => at \in DOMAIN rows',
         (lister = "list" /\ strayed' # "renamed" /\ at \in DOMAIN rows \cap DOMAIN rows') =>
           rows'[at] = rows[at]
  PROVE  WalkInv'
<1>1. /\ lister' = lister /\ limit' = limit /\ textual' = textual /\ wanted' = wanted
      /\ phase' = phase /\ at' = at /\ previous' = previous /\ page' = page /\ seen' = seen
      /\ emptied' = emptied
  BY DEF client
<1>2. /\ Table /\ Walker /\ PagesTypeOK /\ lister \in Kinds
      /\ standing \subseteq DOMAIN rows /\ nextId \in Int /\ nextId' \in Int
  BY KindsAre DEF WalkInv, Walker, PagesTypeOK
<1>3. PagesTypeOK'
  BY <1>1, <1>2 DEF PagesTypeOK, Table
<1>4. phase = "forward" => at \notin DOMAIN rows' \ DOMAIN rows
  <2> SUFFICES ASSUME phase = "forward", at \in DOMAIN rows', at \notin DOMAIN rows PROVE FALSE
    OBVIOUS
  <2>1. at = nextId /\ at \in RowIds
    BY DEF Table
  <2> QED BY <1>2, <2>1 DEF Walker
<1>5. Walker'
  <2>1. phase = "forward" /\ at \in RowIds => at < nextId'
    <3> SUFFICES ASSUME phase = "forward", at \in RowIds PROVE at < nextId'
      OBVIOUS
    <3>1. at < nextId /\ at \in Int
      BY <1>2 DEF Walker, RowIds
    <3> QED BY <1>2, <3>1
  <2>2. \A k \in DOMAIN page : page[k] < nextId'
    <3> SUFFICES ASSUME NEW k \in DOMAIN page PROVE page[k] < nextId'
      OBVIOUS
    <3>1. page \in Seq(RowIds)
      BY <1>2 DEF PagesTypeOK
    <3>2. page[k] \in RowIds
      BY <3>1, LenProperties
    <3>3. page[k] \in Int /\ page[k] < nextId
      BY <1>2, <3>2 DEF Walker, RowIds
    <3> QED BY <1>2, <3>3
  <2> QED BY <1>1, <1>2, <1>3, <2>1, <2>2 DEF Walker
<1>6. \A i \in standing' : i \in standing /\ i \in DOMAIN rows /\ rows'[i] = rows[i]
  BY <1>2
<1>7. ShownOnce'
  <2> SUFFICES ASSUME phase = "forward", strayed' = "no", lister # "history"
               PROVE  /\ lister = "list" /\ at # End => at \in DOMAIN rows'
                      /\ \A i \in standing' :
                           /\ seen[i] <= 1
                           /\ at # End /\ seen[i] >= 1 => ~Follows(lister, rows', at, i)
    BY <1>1 DEF ShownOnce, After
  <2>1. /\ lister = "list" /\ at # End => at \in DOMAIN rows
        /\ \A i \in standing :
             seen[i] <= 1 /\ (at # End /\ seen[i] >= 1 => ~Follows(lister, rows, at, i))
    BY DEF WalkInv, ShownOnce, After
  <2>2. lister = "list" /\ at # End => at \in DOMAIN rows' /\ rows'[at] = rows[at]
    BY <2>1
  <2>3. ASSUME NEW i \in standing', at # End
        PROVE  Follows(lister, rows', at, i) <=> Follows(lister, rows, at, i)
    BY <1>6, <2>1, <2>2, <2>3 DEF Follows, Precedes
  <2> QED BY <1>6, <2>1, <2>2, <2>3
<1>8. ShownSoFar'
  <2> SUFFICES ASSUME phase = "forward", strayed' # "renamed", NEW i \in standing' \cap wanted,
                      at = End \/ ~Follows(lister, rows', at, i)
               PROVE  seen[i] >= 1
    BY <1>1 DEF ShownSoFar, After
  <2>1. at = End \/ ~Follows(lister, rows, at, i)
    <3> SUFFICES ASSUME at # End, Follows(lister, rows, at, i) PROVE Follows(lister, rows', at, i)
      BY <1>1
    <3>1. CASE lister = "list"
      <4>1. CASE at \notin DOMAIN rows'
        BY <3>1, <4>1 DEF Follows
      <4>2. CASE at \in DOMAIN rows'
        <5>1. at \in DOMAIN rows /\ rows'[at] = rows[at]
          BY <1>4, <3>1, <4>2
        <5> QED BY <1>6, <3>1, <4>2, <5>1 DEF Follows, Precedes
      <4> QED BY <4>1, <4>2
    <3>2. CASE lister # "list"
      BY <3>2 DEF Follows
    <3> QED BY <3>1, <3>2
  <2> QED BY <1>6, <2>1 DEF WalkInv, ShownSoFar, After
<1>9. ASSUME NEW p, NEW b \in RowIds, b < nextId,
             Cardinality(Gap(rows, p, b)) <= limit
      PROVE  Cardinality(Gap(rows', p, b)) <= limit
  <2>1. Gap(rows', p, b) \subseteq Gap(rows, p, b)
    <3> SUFFICES ASSUME NEW j \in Gap(rows', p, b) PROVE j \in DOMAIN rows
      BY DEF Gap
    <3>1. j < b /\ (j \in DOMAIN rows \/ j = nextId) /\ b \in Int
      BY DEF Gap, RowIds
    <3> QED BY <1>2, <1>9, <3>1
  <2>2. IsFiniteSet(Gap(rows, p, b))
    <3>1. Gap(rows, p, b) \subseteq DOMAIN rows
      BY DEF Gap
    <3> QED BY <1>2, <3>1, RowsFinite
  <2>3. IsFiniteSet(Gap(rows', p, b)) /\ Cardinality(Gap(rows', p, b)) <= Cardinality(Gap(rows, p, b))
    BY <2>1, <2>2, FS_Subset
  <2>4. limit \in Int /\ Cardinality(Gap(rows, p, b)) \in Nat /\ Cardinality(Gap(rows', p, b)) \in Nat
    BY <1>2, <2>2, <2>3, FS_CardinalityType, PageAssumption DEF Walker
  <2> QED BY <1>9, <2>3, <2>4
<1>10. OnePageBack'
  <2> SUFFICES ASSUME phase = "forward", previous # End, page # <<>>
               PROVE  Cardinality(Gap(rows', previous, Head(page))) <= limit
    BY <1>1 DEF OnePageBack, Between
  <2>1. PICK b \in RowIds : b = Head(page) /\ b < nextId
    BY <1>2, HeadOfPage
  <2>2. Cardinality(Gap(rows, previous, b)) <= limit
    BY <2>1 DEF WalkInv, OnePageBack, Between
  <2> QED BY <1>9, <2>1, <2>2
<1>11. ShownBack'
  <2> SUFFICES ASSUME phase = "back", ~emptied
               PROVE  \E b \in RowIds :
                        /\ b < nextId'
                        /\ at # End => Cardinality(Gap(rows', at, b)) <= limit
                        /\ \A i \in standing' : (at = End \/ i >= b) => seen[i] >= 1
    BY <1>1 DEF ShownBack, Between
  <2>1. PICK b \in RowIds :
          /\ b < nextId
          /\ at # End => Cardinality(Gap(rows, at, b)) <= limit
          /\ \A i \in standing : (at = End \/ i >= b) => seen[i] >= 1
    BY DEF WalkInv, ShownBack, Between
  <2>2. b < nextId'
    BY <1>2, <2>1 DEF RowIds
  <2>3. at # End => Cardinality(Gap(rows', at, b)) <= limit
    BY <1>9, <2>1
  <2> QED BY <1>6, <2>1, <2>2, <2>3
<1> QED BY <1>5, <1>7, <1>8, <1>10, <1>11 DEF WalkInv

LEMMA InsertRowKeeps ==
  ASSUME WalkInv, InsertRow
  PROVE  WalkInv'
<1>1. /\ nextId <= MaxRow /\ nextId' = nextId + 1 /\ standing' = standing /\ strayed' = strayed
      /\ UNCHANGED <<lister, limit, textual, wanted, client>>
  BY DEF InsertRow, Edit
<1>2. PICK name \in (IF lister = "list" THEN RowIds ELSE {nextId}) :
        rows' = [i \in DOMAIN rows \cup {nextId} |-> IF i = nextId THEN name ELSE rows[i]]
  BY DEF InsertRow
<1>3. /\ Table /\ nextId \in 1 .. MaxRow + 1 /\ MaxRow \in Nat /\ standing \subseteq DOMAIN rows
      /\ DOMAIN rows \subseteq RowIds
  BY PageAssumption DEF WalkInv, Walker, PagesTypeOK
<1>4. nextId \in RowIds /\ nextId \notin DOMAIN rows /\ nextId' \in 1 .. MaxRow + 1 /\ nextId <= nextId'
  BY <1>1, <1>3 DEF Table, RowIds
<1>5. /\ DOMAIN rows' = DOMAIN rows \cup {nextId} /\ rows'[nextId] = name
      /\ \A i \in DOMAIN rows : rows'[i] = rows[i]
  BY <1>2, <1>4
<1>6. \A i \in DOMAIN rows' : i < nextId'
  <2> SUFFICES ASSUME NEW i \in DOMAIN rows' PROVE i < nextId'
    OBVIOUS
  <2>1. i = nextId \/ (i < nextId /\ i \in RowIds)
    BY <1>3, <1>5 DEF Table
  <2>2. i \in Int
    BY <1>3, <2>1 DEF RowIds
  <2> QED BY <1>1, <1>3, <2>1, <2>2
<1>7. Table'
  <2>1. lister # "list" => name = nextId
    BY <1>2
  <2>2. name \in RowIds /\ lister' = lister
    BY <1>1, <1>2, <1>4
  <2> QED BY <1>3, <1>4, <1>5, <1>6, <2>1, <2>2 DEF Table
<1> QED BY <1>1, <1>3, <1>4, <1>5, <1>7, EditKeeps

LEMMA DeleteRowKeeps ==
  ASSUME WalkInv, NEW i \in RowIds, DeleteRow(i)
  PROVE  WalkInv'
<1>1. /\ rows' = [j \in DOMAIN rows \ {i} |-> rows[j]] /\ nextId' = nextId
      /\ standing' = standing \ {i}
      /\ strayed' = IF lister = "list" /\ at = i /\ strayed = "no" THEN "deleted" ELSE strayed
      /\ UNCHANGED <<lister, limit, textual, wanted, client>>
  BY DEF DeleteRow, Edit
<1>2. /\ Table /\ nextId \in 1 .. MaxRow + 1 /\ MaxRow \in Nat /\ standing \subseteq DOMAIN rows
  BY PageAssumption DEF WalkInv, Walker, PagesTypeOK
<1>3. DOMAIN rows' = DOMAIN rows \ {i} /\ \A j \in DOMAIN rows' : rows'[j] = rows[j]
  BY <1>1
<1>4. Table'
  BY <1>1, <1>2, <1>3 DEF Table
<1>5. /\ strayed' = "no" => strayed = "no" /\ ~(lister = "list" /\ at = i)
      /\ strayed' # "renamed" => strayed # "renamed"
  BY <1>1
<1>6. nextId' \in 1 .. MaxRow + 1 /\ nextId <= nextId'
  BY <1>1, <1>2
<1>7. /\ standing' \subseteq standing /\ standing' \subseteq DOMAIN rows'
      /\ \A j \in standing' : rows'[j] = rows[j]
      /\ \A j \in DOMAIN rows' : j \in DOMAIN rows
  BY <1>1, <1>2, <1>3
<1> QED BY <1>1, <1>3, <1>4, <1>5, <1>6, <1>7, EditKeeps

LEMMA RenameRowKeeps ==
  ASSUME WalkInv, NEW i \in RowIds, NEW name \in RowIds, RenameRow(i, name)
  PROVE  WalkInv'
<1>1. /\ lister = "list" /\ rows' = [rows EXCEPT ![i] = name] /\ nextId' = nextId
      /\ standing' = standing \ {i}
      /\ strayed' = IF at = i THEN "renamed" ELSE strayed
      /\ UNCHANGED <<lister, limit, textual, wanted, client>>
  BY DEF RenameRow, Edit
<1>2. /\ Table /\ nextId \in 1 .. MaxRow + 1 /\ MaxRow \in Nat /\ standing \subseteq DOMAIN rows
  BY PageAssumption DEF WalkInv, Walker, PagesTypeOK
<1>3. /\ DOMAIN rows' = DOMAIN rows /\ \A j \in DOMAIN rows \ {i} : rows'[j] = rows[j]
      /\ \A j \in DOMAIN rows : rows'[j] \in {rows[j], name}
  BY <1>1
<1>4. Table'
  BY <1>1, <1>2, <1>3 DEF Table
<1>5. /\ strayed' = "no" => strayed = "no"
      /\ strayed' # "renamed" => strayed # "renamed" /\ at # i
  BY <1>1
<1>6. nextId' \in 1 .. MaxRow + 1 /\ nextId <= nextId'
  BY <1>1, <1>2
<1>7. /\ standing' \subseteq standing /\ standing' \subseteq DOMAIN rows'
      /\ \A j \in standing' : rows'[j] = rows[j]
  BY <1>1, <1>2, <1>3
<1> QED BY <1>1, <1>3, <1>4, <1>5, <1>6, <1>7, EditKeeps

LEMMA WalkStep == WalkInv /\ [WalkNext]_walkVars => WalkInv'
<1> SUFFICES ASSUME WalkInv, [WalkNext]_walkVars PROVE WalkInv'
  OBVIOUS
<1>1. CASE UNCHANGED walkVars
  <2>1. /\ lister' = lister /\ limit' = limit /\ textual' = textual /\ wanted' = wanted
        /\ rows' = rows /\ nextId' = nextId /\ standing' = standing /\ strayed' = strayed
        /\ phase' = phase /\ at' = at /\ previous' = previous /\ page' = page /\ seen' = seen
        /\ emptied' = emptied
    BY <1>1 DEF walkVars, table, client
  <2>2. Table' /\ Walker'
    BY <2>1 DEF WalkInv, Table, Walker, PagesTypeOK
  <2>3. ShownOnce' /\ ShownSoFar'
    BY <2>1 DEF WalkInv, ShownOnce, ShownSoFar, After
  <2>4. OnePageBack' /\ ShownBack'
    BY <2>1 DEF WalkInv, OnePageBack, ShownBack, Between
  <2> QED BY <2>2, <2>3, <2>4 DEF WalkInv
<1> QED
  BY <1>1, FirstPageKeeps, NextPageKeeps, PreviousPageKeeps, TurnBackKeeps, SwitchApiKeeps,
     InsertRowKeeps, DeleteRowKeeps, RenameRowKeeps DEF WalkNext, Follow

LEMMA WalkInvariance == WalkSpec => []WalkInv
BY InitWalkInv, WalkStep, PTL DEF WalkSpec

(* Cursors name rows or nothing, and what stands is in the table, whatever  *)
(* is asked for and edited.                                                 *)
THEOREM PagesAreTypeCorrect == WalkSpec => []PagesTypeOK
<1>1. WalkInv => PagesTypeOK
  BY DEF WalkInv, Walker
<1> QED BY <1>1, WalkInvariance, PTL

(* However long the list and the pages, and whatever is added, deleted and  *)
(* renamed between two pages, no page repeats a row that kept its place:     *)
(* for REST links, Relay connections in both directions and next_cursor of   *)
(* the Slack lists. Histories are left out, whose cursor does not move.     *)
THEOREM RowsComeOnce ==
  ASSUME "history" \notin Listers
  PROVE  WalkSpec => []EachOnce
<1>1. WalkInv => EachOnce
  BY DEF WalkInv, Walker, ShownOnce, EachOnce
<1> QED BY <1>1, WalkInvariance, PTL

(* A walk to its end skips no row that stood throughout: forward, by links   *)
(* and cursors in turn, and back over the previous links unless a page on    *)
(* the way back was empty. In the Slack lists, while the row of the cursor   *)
(* was not renamed.                                                         *)
THEOREM NoRowIsSkipped == WalkSpec => []NothingSkipped
<1>1. WalkInv => NothingSkipped
  <2> SUFFICES ASSUME WalkInv, phase # "first", at = End, strayed # "renamed", ~emptied,
                      NEW i \in standing, i \in wanted \/ phase = "back"
               PROVE  seen[i] >= 1
    BY DEF NothingSkipped
  <2>1. CASE phase = "forward"
    BY <2>1 DEF WalkInv, ShownSoFar
  <2>2. CASE phase = "back"
    BY <2>2 DEF WalkInv, ShownBack
  <2> QED BY <2>1, <2>2 DEF WalkInv, Walker, PagesTypeOK
<1> QED BY <1>1, WalkInvariance, PTL
=============================================================================
