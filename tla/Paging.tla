------------------------------- MODULE Paging -------------------------------
(***************************************************************************)
(* A client reads a list page by page while others change it: the Link      *)
(* headers of the Shopify REST lists, the Relay connections of its GraphQL  *)
(* API in both directions, and the next_cursor of Slack's conversations     *)
(* and users lists and of conversations.history.                            *)
(*                                                                          *)
(* Each request is one step that reads the table anew, so that rows come,   *)
(* go and are renamed between two pages. Shopify lists are sorted by id and *)
(* ids only grow; Slack lists are sorted by name; a history is sorted by    *)
(* its growing ts, newest first. A cursor is the id it encodes: 0 is none.  *)
(* Limits are positive (the lists do not check them).                       *)
(***************************************************************************)
EXTENDS Ranking, Sequences, SequencesExt, FiniteSetsExt

CONSTANTS
  Listers, \* the kinds of list read
  Limits,  \* page sizes asked for
  Shift,   \* of a limit: the power of ten by which its digits move others
  Sizes,   \* lengths of the list at the start
  Filters, \* the sets of ids that ids and collection_id let through
  SinceIds, \* values of since_id
  End,     \* no further page
  MaxRow,  \* bound on the ids
  MaxEdits \* bound on the changes during the walk

ASSUME ListerAssumption == Listers \subseteq {"rest", "graphql", "reverse", "list", "history"}
ASSUME PageAssumption ==
  /\ MaxRow \in Nat /\ Sizes \subseteq 0 .. MaxRow /\ MaxEdits \in Nat
  /\ Limits \subseteq Nat \ {0} /\ Shift \in [Limits -> Nat] /\ \A n \in Limits : n < Shift[n]
  /\ End \notin 0 .. MaxRow

RowIds == 1 .. MaxRow

ASSUME FilterAssumption == Filters \subseteq SUBSET RowIds /\ SinceIds \subseteq Nat

VARIABLES
  lister,
  limit,
  textual,  \* the limit of a Slack list came as text (a form or a query)
  wanted,   \* what the filters of the first request let through
  rows,     \* the table: what each row is sorted by
  nextId,   \* AUTOINCREMENT
  phase,    \* "first", "forward" or, on the previous links of REST, "back"
  at,       \* the cursor of the next request, or End
  previous, \* the previous link of the last page, or End
  page,     \* the last page
  seen,     \* history: how often each row was answered, up to twice
  standing, \* history: the rows there from the start, in their place
  strayed,  \* history: what befell the row a Slack cursor names
  emptied,  \* history: an empty page came on the way back
  edits

table    == <<rows, nextId, standing, strayed, edits>>
client   == <<phase, at, previous, page, seen, emptied>>
walkVars == <<lister, limit, textual, wanted, table, client>>

Nothing == [i \in RowIds |-> 0]

WalkInit ==
  /\ lister \in Listers /\ limit \in Limits
  /\ textual \in (IF lister = "list" THEN BOOLEAN ELSE {FALSE})
  /\ \E n \in Sizes : rows = [i \in 1 .. n |-> i] /\ nextId = n + 1
  /\ wanted = {}
  /\ phase = "first" /\ at = 0 /\ previous = End /\ page = <<>> /\ seen = Nothing
  /\ standing = DOMAIN rows /\ strayed = "no" /\ emptied = FALSE /\ edits = 0

-----------------------------------------------------------------------------
(* The pages                                                                *)

\* ORDER BY the sort key; equal names in the order of their rows.
Sorted(ids) == InOrder(ids, rows)

\* all.slice(start, start + n) with start counted from 0.
Slice(all, start, n) == SubSeq(all, start + 1, Min({start + n, Len(all)}))

Answer(items, next, prev) == [items |-> items, next |-> next, prev |-> prev]

NotBefore(all, after) == {i \in DOMAIN all : all[i] >= after}
Beyond(all, after) == {i \in DOMAIN all : all[i] > after}

\* Where a REST page starts, from 0: at the first id beyond the cursor, or -1.
StartIdx(all, after) ==
  IF after = 0 THEN 0
  ELSE IF Beyond(all, after) = {} THEN -1
  ELSE Min(Beyond(all, after)) - 1

PrevStartUnbounded(start, n) == start - n
PrevStart(start, n) == Max({0, start - n})

\* The previous link goes back one page from the start of this one.
RestPage(all, after, n) ==
  LET start == StartIdx(all, after)
      items == IF start = -1 THEN <<>> ELSE Slice(all, start, n)
      back  == PrevStart(start, n)
  IN Answer(items,
            IF start # -1 /\ start + n < Len(all) /\ items # <<>> THEN Last(items) ELSE End,
            IF after = 0 THEN End ELSE IF back \in DOMAIN all THEN all[back] ELSE back)

\* first and after: hasNextPage and endCursor.
GraphqlPage(all, after, n) ==
  LET rest  == Sorted({i \in ToSet(all) : i > after})
      items == Slice(rest, 0, n)
  IN Answer(items, IF Len(rest) > n THEN Last(items) ELSE End, End)

\* last and before: hasPreviousPage and startCursor.
ReversePage(all, before, n) ==
  LET rest  == Sorted({i \in ToSet(all) : before = 0 \/ i < before})
      items == SubSeq(rest, Max({1, Len(rest) - n + 1}), Len(rest))
  IN Answer(items, IF Len(rest) > n THEN Head(items) ELSE End, End)

CursorPlace(all, cursor) ==
  IF cursor \in ToSet(all) THEN CHOOSE k \in DOMAIN all : all[k] = cursor ELSE 0

ListStartTooLate(all, cursor) ==
  IF CursorPlace(all, cursor) = 0 THEN 0 ELSE Min({CursorPlace(all, cursor) + 1, Len(all)})

\* A list starts over when the row that the cursor names is gone.
ListStart(all, cursor) == CursorPlace(all, cursor)

\* startIdx + limit joins the digits when the limit is text.
ListEnd(start, n) == IF textual THEN start * Shift[n] + n ELSE start + n

ListPage(all, cursor, n) ==
  LET start == ListStart(all, cursor)
      end   == ListEnd(start, n)
      items == SubSeq(all, start + 1, Min({end, Len(all)}))
  IN Answer(items, IF end < Len(all) THEN Last(items) ELSE End, End)

\* The cursor is compared as it came, in base64: it begins with a letter and
\* every ts with a digit, so that every ts is below it.
Older(all, cursor) == all

\* Newest first, one more than the limit to see whether there are more.
HistoryPage(all, cursor, n) ==
  LET found == Slice(Older(Reverse(all), cursor), 0, n + 1)
  IN Answer(Slice(found, 0, n), IF Len(found) > n THEN found[n] ELSE End, End)

PageAt(cursor, all) ==
  CASE lister = "rest"    -> RestPage(all, cursor, limit)
    [] lister = "graphql" -> GraphqlPage(all, cursor, limit)
    [] lister = "reverse" -> ReversePage(all, cursor, limit)
    [] lister = "list"    -> ListPage(all, cursor, limit)
    [] lister = "history" -> HistoryPage(all, cursor, limit)

-----------------------------------------------------------------------------
(* What the REST lists let through                                          *)

ListProducts(since, ids, linked) == {i \in DOMAIN rows : i > since /\ i \in ids \cap linked}
ListCustomers(since, ids) == {i \in DOMAIN rows : i > since /\ i \in ids}
ListOrders(since, ids) == {i \in DOMAIN rows : i > since /\ i \in ids}
ListInventoryItems(ids) == DOMAIN rows \cap ids

Listings ==
  IF lister # "rest" THEN {DOMAIN rows}
  ELSE {ListProducts(n, ids, linked) : n \in SinceIds, ids \in Filters, linked \in Filters}
         \cup {ListCustomers(n, ids) : n \in SinceIds, ids \in Filters}
         \cup {ListOrders(n, ids) : n \in SinceIds, ids \in Filters}
         \cup {ListInventoryItems(ids) : ids \in Filters}

-----------------------------------------------------------------------------
(* The client                                                               *)

Counted(counts, items) ==
  [i \in RowIds |-> IF i \in ToSet(items) THEN Min({2, counts[i] + 1}) ELSE counts[i]]

\* Only the first request carries the filters: the links drop them.
FirstPage ==
  /\ phase = "first" /\ phase' = "forward"
  /\ wanted' \in Listings
  /\ \E all \in {Sorted(wanted')} : \E answer \in {PageAt(0, all)} :
        /\ at' = answer.next /\ previous' = answer.prev /\ page' = answer.items
        /\ seen' = Counted(Nothing, answer.items)
  /\ UNCHANGED <<lister, limit, textual, table, emptied>>

NextPage ==
  /\ phase = "forward" /\ at # End
  /\ \E all \in {Sorted(DOMAIN rows)} : \E answer \in {PageAt(at, all)} :
        /\ at' = answer.next /\ previous' = answer.prev
        /\ page' = answer.items /\ seen' = Counted(seen, answer.items)
  /\ UNCHANGED <<lister, limit, textual, wanted, table, phase, emptied>>

\* The client turns round at a page that has rows and a previous link.
TurnBack ==
  /\ phase = "forward" /\ previous # End /\ page # <<>>
  /\ phase' = "back" /\ at' = previous
  /\ standing' = {i \in standing : i < Head(page)}
  /\ seen' = Nothing
  /\ UNCHANGED <<lister, limit, textual, wanted, rows, nextId, strayed, edits, previous, page, emptied>>

PreviousPage ==
  /\ phase = "back" /\ at # End
  /\ \E all \in {Sorted(DOMAIN rows)} : \E answer \in {PageAt(at, all)} :
        /\ at' = answer.prev
        /\ page' = answer.items /\ seen' = Counted(seen, answer.items)
        /\ emptied' = (emptied \/ answer.items = <<>>)
  /\ UNCHANGED <<lister, limit, textual, wanted, table, phase, previous>>

\* page_info and endCursor are the same encoding of type and id.
SwitchApi ==
  /\ phase = "forward" /\ at # End
  /\ lister' = CASE lister = "rest" -> "graphql" [] lister = "graphql" -> "rest"
                 [] OTHER -> lister
  /\ lister' # lister /\ previous' = End
  /\ UNCHANGED <<limit, textual, wanted, table, phase, at, page, seen, emptied>>

-----------------------------------------------------------------------------
(* Everybody else                                                           *)

Edit == edits < MaxEdits /\ edits' = edits + 1 /\ UNCHANGED <<lister, limit, textual, wanted, client>>

\* A new row sorts by its id or its ts, in a Slack list by any name.
InsertRow ==
  /\ nextId <= MaxRow /\ nextId' = nextId + 1
  /\ \E name \in (IF lister = "list" THEN RowIds ELSE {nextId}) :
        rows' = [i \in DOMAIN rows \cup {nextId} |-> IF i = nextId THEN name ELSE rows[i]]
  /\ Edit /\ UNCHANGED <<standing, strayed>>

DeleteRow(i) ==
  /\ i \in DOMAIN rows
  /\ rows' = [j \in DOMAIN rows \ {i} |-> rows[j]]
  /\ standing' = standing \ {i}
  /\ strayed' = IF lister = "list" /\ at = i /\ strayed = "no" THEN "deleted" ELSE strayed
  /\ Edit /\ UNCHANGED nextId

RenameRow(i, name) ==
  /\ lister = "list" /\ i \in DOMAIN rows /\ name # rows[i]
  /\ rows' = [rows EXCEPT ![i] = name]
  /\ standing' = standing \ {i}
  /\ strayed' = IF at = i THEN "renamed" ELSE strayed
  /\ Edit /\ UNCHANGED nextId

Follow == FirstPage \/ NextPage \/ PreviousPage
WalkNext ==
  \/ Follow \/ TurnBack \/ SwitchApi \/ InsertRow
  \/ \E i \in RowIds : DeleteRow(i) \/ \E name \in RowIds : RenameRow(i, name)

\* A client that asked for a page goes on to ask for the next one.
WalkSpec == WalkInit /\ [][WalkNext]_walkVars /\ WF_walkVars(Follow)

-----------------------------------------------------------------------------
(* Cursors name rows, pages hold rows, and what stands is in the table.      *)
PagesTypeOK ==
  /\ at \in RowIds \cup {0, End} /\ previous \in RowIds \cup {0, End}
  /\ standing \subseteq DOMAIN rows /\ DOMAIN rows \subseteq RowIds
  /\ seen \in [RowIds -> 0 .. 2] /\ page \in Seq(RowIds)
  /\ phase \in {"first", "forward", "back"} /\ nextId \in 1 .. MaxRow + 1

(* Whatever is added and removed meanwhile, the pages of a walk forward      *)
(* repeat no row that kept its place. In a Slack list, sorted by a name that *)
(* changes, this needs the row that the cursor names to stay as it is.       *)
EachOnce ==
  (phase = "forward" /\ strayed = "no") => \A i \in standing : seen[i] <= 1

(* A walk that came to its end saw every wanted row that stood throughout,   *)
(* also when it used REST links and GraphQL cursors by turns, and also when  *)
(* the row of the cursor was deleted. A walk back over the previous links    *)
(* sees all that lies before the page it turned at, unless a page was empty. *)
NothingSkipped ==
  (phase # "first" /\ at = End /\ strayed # "renamed" /\ ~emptied) =>
    \A i \in standing : (i \in wanted \/ phase = "back") => seen[i] >= 1

(* Every walk ends, even while the list grows ahead of it.                   *)
WalkEnds == <>(phase # "first" /\ at = End)
=============================================================================
