------------------------------ MODULE QueryCost ------------------------------
(***************************************************************************)
(* The points an Admin GraphQL request costs: what calculateQueryCost asks  *)
(* for before it runs, from the selections of the document, and what        *)
(* computeActualCost keeps of that, from the items in its answer.           *)
(*                                                                          *)
(* A selection is a field with its arguments and its own selections. The    *)
(* type of a field enters as its kind: "connection", "object", "scalar", or *)
(* "skipped" for what is no field or starts with two underscores. A part of *)
(* an answer is the number of its edges and nodes, None where it has no     *)
(* such array, and the parts below it.                                      *)
(***************************************************************************)
EXTENDS Integers, SequencesExt

CONSTANT None

Total(Of(_), seq) == FoldLeft(LAMBDA sum, e : sum + Of(e), 0, seq)

Smaller(m, n) == IF m < n THEN m ELSE n

-----------------------------------------------------------------------------
\* getPageSize: the first argument named first or last that can be resolved,
\* whatever number it is; 10 if there is none.
PageSize(field) ==
  LET sizes == SelectSeq(field.args, LAMBDA a : a.name \in {"first", "last"} /\ a.value # None)
  IN  IF sizes = <<>> THEN 10 ELSE Head(sizes).value

\* calculateSelectionSetCost: only the innermost page size multiplies.
RECURSIVE SelectionSetCost(_, _)
SelectionSetCost(selections, multiplier) ==
  LET Cost(f) ==
        CASE f.kind = "connection" ->
               (2 + PageSize(f)) * multiplier + SelectionSetCost(f.selections, PageSize(f))
          [] f.kind = "object" -> multiplier + SelectionSetCost(f.selections, multiplier)
          [] OTHER -> 0
  IN  Total(Cost, selections)

OperationCost(operation) ==
  (IF operation.type = "mutation" THEN 10 ELSE 0) + SelectionSetCost(operation.selections, 1)

\* calculateQueryCost: all operations of the document, whichever is run.
DocumentCost(operations) == Total(OperationCost, operations)

-----------------------------------------------------------------------------
IsConnection(part) == part.edges # None \/ part.nodes # None

LengthOf(n) == IF n = None THEN 0 ELSE n

\* walk: how many connections an answer holds, and items in them.
RECURSIVE Connections(_)
Connections(part) == (IF IsConnection(part) THEN 1 ELSE 0) + Total(Connections, part.below)

RECURSIVE Items(_)
Items(part) == LengthOf(part.edges) + LengthOf(part.nodes) + Total(Items, part.below)

\* computeActualCost
ActualCost(data, requested) ==
  IF requested <= 1 \/ Connections(data) = 0 THEN requested
  ELSE IF Items(data) = 0 THEN 1
  ELSE 1 + Smaller(Items(data), requested - 1)
=============================================================================
