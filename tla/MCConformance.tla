---------------------------- MODULE MCConformance ----------------------------
(***************************************************************************)
(* A suite of five tests over two things: a list by structure, a list by    *)
(* value, a creation, a list in the twin's schema with its liveOperation,   *)
(* and a twin-only list that live mode skips; normalised as the suites of   *)
(* the twins are, with the order of lists hidden as well.                   *)
(***************************************************************************)
EXTENDS Conformance, Comparator

MCKeyOrder == <<"ok", "error", "id", "name", "made", "items", "count", "bonus">>

Op(kind, thing, schema) == [kind |-> kind, thing |-> thing, schema |-> schema]
Create(x) == Op("create", x, "both")
Delete(x) == Op("delete", x, "both")
List(schema) == Op("list", 0, schema)

T(id, setup, op, teardown, exact, liveSkip, liveOp) ==
  [id |-> id, setup |-> setup, op |-> op, teardown |-> teardown,
   exact |-> exact, liveSkip |-> liveSkip, liveOp |-> liveOp]

MCNoOp == Op("list", 0, "nobody")

MCSuite == <<
  T("shape", <<Create(2), Create(1)>>, List("both"), <<Delete(1), Delete(2)>>, FALSE, FALSE, MCNoOp),
  T("value", <<Create(1)>>, List("both"), <<Delete(1)>>, TRUE, FALSE, MCNoOp),
  T("create", <<>>, Create(2), <<Delete(2)>>, FALSE, FALSE, MCNoOp),
  T("live", <<>>, List("twin"), <<>>, FALSE, FALSE, List("live")),
  T("twin", <<>>, List("twin"), <<>>, TRUE, TRUE, MCNoOp)>>

MCSafeName == [id \in {"shape", "value", "create", "live", "twin"} |-> id]

MCNorm == [
  stripFields        |-> <<<<"made">>, <<"items", "*", "made">>, <<"items", "*", "id">>>>,
  sortFields         |-> <<<<"items">>>>,
  normalizeFields    |-> <<<<"id">>>>,
  compareValueFields |-> {<<"ok">>, <<"error">>},
  compareHeaders     |-> {"version"},
  compareAllHeaders  |-> TRUE,
  ignoreHeaders      |-> {"date"}]

MCDrifts == {"none", "extra", "missing", "type", "value", "status", "header"}

\* Targets that keep some of the things, under ids in either order.
MCTargets == [things : UNION {{[x \in S |-> x], [x \in S |-> 3 - x]} : S \in SUBSET Things}, next : {3, 4}]

\* The suite, its normaliser and the comparator are as the theorems ask.
ASSUME SuiteIsTidy == TidySuite /\ SharedSetup /\ PathsDiffer
ASSUME ComparatorHides == Hiding(MCTargets)
ASSUME ComparatorDiscerns == Discerning(MCTargets)
=============================================================================
