------------------------------ MODULE Conformance ------------------------------
(***************************************************************************)
(* The conformance framework: a runner takes the tests of a suite through   *)
(* the twin and through a baseline and reports where they differ. In live   *)
(* mode the baseline is the real service, in offline mode a fixture that a  *)
(* recording of the service left, in twin mode a second call of the twin.   *)
(*                                                                          *)
(* Every session is a process: it starts a fresh twin, while the service    *)
(* and the fixtures stay. Each call of an adapter may throw, before or      *)
(* after it took effect. The adapters' init and teardown, outside the       *)
(* tests, are taken to succeed.                                             *)
(*                                                                          *)
(* The service is a shelf of things that are created, deleted and listed.   *)
(* Its ids and timestamps differ from the twin's, and so does the order of  *)
(* its lists; the normaliser is there to hide that. A twin may also drift,  *)
(* in what it answers to a list, in ways that nothing should hide.          *)
(***************************************************************************)
EXTENDS JsonBody, Integers, Sequences, FiniteSets, SequencesExt

CONSTANTS
  Things,      \* what the service keeps, as numbers
  Suite,       \* ConformanceSuite.tests, a sequence
  ByValue(_, _, _),     \* compareResponses: the differences
  ByStructure(_, _, _), \* compareResponsesStructurally
  Norm,        \* ConformanceSuite.normalizer
  SafeName,    \* the file name that stands for a test id
  NoOp,        \* no liveOperation
  Drifts,      \* the ways in which the twin may differ from the service
  MaxSessions, \* bound on the sessions
  MaxThrows    \* bound on the calls that throw

ASSUME SessionAssumption == MaxSessions \in Nat /\ MaxThrows \in Nat

Schemas    == {"both", "twin", "live"}
Operations == [kind : {"create", "delete"}, thing : Things, schema : Schemas]
                \cup [kind : {"list"}, thing : {0}, schema : Schemas]

\* A test of types.ts; setup and teardown, which may be absent, are then empty.
Tests == [id : DOMAIN SafeName, setup : Seq(Operations), op : Operations,
          teardown : Seq(Operations), exact : BOOLEAN, liveSkip : BOOLEAN,
          liveOp : Operations \cup {NoOp}]

ASSUME SuiteAssumption ==
  /\ Suite \in Seq(Tests)
  /\ \A i, j \in DOMAIN Suite : Suite[i].id = Suite[j].id => i = j

VARIABLES
  mode,     \* what the session under way does, or "idle"
  drift,    \* how this twin differs from the service
  twin,     \* the things of the twin, with their ids, and the next id
  live,     \* those of the service
  fixtures, \* the recorded responses
  todo,     \* the tests that are still to come
  current,  \* the test under way, or none: a sequence of at most one
  plan,     \* what is left to do for it
  answer,   \* the twin's response
  base,     \* the baseline's response, or none: a sequence of at most one
  results,  \* the results so far
  report,   \* what the last session reported, or none
  sessions,
  throws

testVars == <<todo, current, plan, answer, base, results>>
sessionVars == <<mode, drift, twin, live, fixtures, testVars, report, sessions, throws>>

NoResponse == [status |-> 0, headers |-> <<>>, body |-> Gone]
NoReport == [mode |-> "idle", results |-> <<>>]
Fresh(first) == [things |-> <<>>, next |-> first]

SessionInit ==
  /\ mode = "idle" /\ drift \in Drifts
  /\ twin = Fresh(1) /\ live = Fresh(11)
  /\ fixtures = <<>>
  /\ todo = <<>> /\ current = <<>> /\ plan = <<>>
  /\ answer = NoResponse /\ base = <<>>
  /\ results = <<>> /\ report = NoReport
  /\ sessions = 0 /\ throws = 0

-----------------------------------------------------------------------------
(* The two targets                                                          *)

\* An operation may be written in the schema of one side only.
Accepted(side, op, t) ==
  /\ op.schema \in {"both", side}
  /\ CASE op.kind = "create" -> op.thing \notin DOMAIN t.things
       [] op.kind = "delete" -> op.thing \in DOMAIN t.things
       [] op.kind = "list"   -> TRUE

\* What an operation leaves of a target.
After(side, op, t) ==
  IF ~Accepted(side, op, t) \/ op.kind = "list" THEN t
  ELSE IF op.kind = "create"
  THEN [things |-> [x \in DOMAIN t.things \cup {op.thing} |-> IF x = op.thing THEN t.next ELSE t.things[x]],
        next   |-> t.next + 1]
  ELSE [things |-> Restrict(t.things, DOMAIN t.things \ {op.thing}), next |-> t.next]

Flag(b) == Leaf("boolean", IF b THEN 1 ELSE 0)
Item(x, t) ==
  Obj([id |-> Leaf("number", t.things[x]), name |-> Leaf("string", x), made |-> Leaf("number", t.next)])

\* The service lists the newest first, the twin the oldest.
Listed(side, t) ==
  LET newest(x, y) == t.things[x] > t.things[y]
      oldest(x, y) == t.things[x] < t.things[y]
      some == SetToSeq(DOMAIN t.things)
      all  == IF side = "live" THEN SortSeq(some, newest) ELSE SortSeq(some, oldest)
  IN  [i \in DOMAIN all |-> Item(all[i], t)]

Fields(side, op, t) ==
  IF ~Accepted(side, op, t) THEN [ok |-> Flag(FALSE), error |-> Leaf("string", 1)]
  ELSE IF op.kind = "list"
  THEN [ok |-> Flag(TRUE), items |-> Arr(Listed(side, t)), count |-> Leaf("number", Cardinality(DOMAIN t.things))]
  ELSE IF op.kind = "create" THEN [ok |-> Flag(TRUE), id |-> Leaf("number", t.next)]
  ELSE [ok |-> Flag(TRUE)]

\* The ways in which a twin's list may differ.
Drifted(d, f) ==
  CASE d = "extra"   -> [k \in DOMAIN f \cup {"bonus"} |-> IF k = "bonus" THEN Flag(TRUE) ELSE f[k]]
    [] d = "missing" -> Restrict(f, DOMAIN f \ {"count"})
    [] d = "type"    -> [f EXCEPT !.count = Leaf("string", @.val)]
    [] d = "value"   -> [f EXCEPT !.count = Leaf(@.type, @.val + 1)]
    [] OTHER -> f

Response(d, side, op, t) ==
  LET drifts == side = "twin" /\ op.kind = "list" /\ Accepted(side, op, t) IN
  [status  |-> IF drifts /\ d = "status" THEN 201 ELSE 200,
   headers |-> [n \in {"content-type", "version", "date"} |->
                  CASE n = "date" -> t.next
                    [] n = "version" /\ drifts /\ d = "header" -> 2
                    [] OTHER -> 1],
   body    |-> Obj(IF drifts THEN Drifted(d, Fields(side, op, t)) ELSE Fields(side, op, t))]

-----------------------------------------------------------------------------
(* ConformanceRunner                                                        *)

Call(side, op, role) == [side |-> side, op |-> op, role |-> role]
Judge == [side |-> "none", op |-> NoOp, role |-> "judge"]

OnTwin(ops, role) == [i \in DOMAIN ops |-> Call("twin", ops[i], role)]

\* Setup and teardown run on the twin and, in live mode, on the service.
OnBoth(m, ops, role) ==
  IF m # "live" THEN OnTwin(ops, role)
  ELSE [i \in 1 .. 2 * Len(ops) |->
          Call(IF i % 2 = 1 THEN "twin" ELSE "live", ops[(i + 1) \div 2], role)]

LiveOp(t) == IF t.liveOp = NoOp THEN t.op ELSE t.liveOp

\* Where the baseline comes from.
BaselineCalls(m, t) ==
  CASE m = "live" -> <<Call("live", LiveOp(t), "base")>>
    [] m = "twin" -> <<Call("twin", t.op, "base")>>
    [] OTHER -> <<>>

(* Slips: setup, or teardown, reaches the twin only.                         *)
PlanSetupOnTwin(m, t) ==
  OnTwin(t.setup, "setup") \o <<Call("twin", t.op, "answer")>> \o BaselineCalls(m, t)
    \o <<Judge>> \o OnBoth(m, t.teardown, "teardown")

PlanTeardownOnTwin(m, t) ==
  OnBoth(m, t.setup, "setup") \o <<Call("twin", t.op, "answer")>> \o BaselineCalls(m, t)
    \o <<Judge>> \o OnTwin(t.teardown, "teardown")

\* A test of run().
Plan(m, t) ==
  OnBoth(m, t.setup, "setup") \o <<Call("twin", t.op, "answer")>> \o BaselineCalls(m, t)
    \o <<Judge>> \o OnBoth(m, t.teardown, "teardown")

(* A slip: the twin is recorded.                                             *)
RecordingOfTwin(t) ==
  OnTwin(t.setup, "setup") \o <<Call("twin", t.op, "save")>> \o OnTwin(t.teardown, "teardown")

\* A test of record(): the service only, and always the test's own operation.
Recording(t) ==
  LET on(ops) == [i \in DOMAIN ops |-> Call("live", ops[i], "setup")]
  IN  on(t.setup) \o <<Call("live", t.op, "save")>> \o on(t.teardown)

FullPlan(m, t) == IF m = "record" THEN Recording(t) ELSE Plan(m, t)

KeptResults(m) == results

\* A process of the CLI starts its adapters; the twin is built anew.
EmptyResults(m) == <<>>
Begin(m) ==
  /\ mode = "idle" /\ sessions < MaxSessions
  /\ mode' = m /\ sessions' = sessions + 1
  /\ twin' = Fresh(1) /\ todo' = Suite
  /\ results' = EmptyResults(m) /\ report' = NoReport
  /\ UNCHANGED <<drift, live, fixtures, current, plan, answer, base, throws>>

\* The next test; some are skipped in live mode, though never in a recording.
Skipped(t) == t.liveSkip /\ mode = "live"

NextTest ==
  /\ mode # "idle" /\ current = <<>> /\ todo # <<>>
  /\ todo' = Tail(todo)
  /\ LET t == Head(todo) IN
       IF Skipped(t) THEN UNCHANGED <<current, plan>>
       ELSE current' = <<t>> /\ plan' = FullPlan(mode, t)
  /\ answer' = NoResponse /\ base' = <<>>
  /\ UNCHANGED <<mode, drift, twin, live, fixtures, results, report, sessions, throws>>

Test == current[1]

\* An operation takes effect on its target.
Effect(c) ==
  /\ twin' = IF c.side = "twin" THEN After("twin", c.op, twin) ELSE twin
  /\ live' = IF c.side = "live" THEN After("live", c.op, live) ELSE live

\* The FixtureStore: a file for each sanitised test id.
PathFor(id) == SafeName[id]

Saved(id, response) ==
  [f \in DOMAIN fixtures \cup {PathFor(id)} |-> IF f = PathFor(id) THEN response ELSE fixtures[f]]

Loaded(id) == IF PathFor(id) \in DOMAIN fixtures THEN <<fixtures[PathFor(id)]>> ELSE <<>>

\* ConformanceAdapter.execute, awaited, and what its response is kept for.
Execute ==
  /\ plan # <<>> /\ Head(plan).role # "judge"
  /\ LET c == Head(plan)
         r == Response(drift, c.side, c.op, IF c.side = "twin" THEN twin ELSE live)
     IN  /\ Effect(c)
         /\ answer' = IF c.role = "answer" THEN r ELSE answer
         /\ base' = IF c.role = "base" THEN <<r>> ELSE base
         /\ fixtures' = IF c.role # "save" THEN fixtures ELSE Saved(Test.id, r)
  /\ plan' = Tail(plan)
  /\ UNCHANGED <<mode, drift, todo, current, results, report, sessions, throws>>

Verdict(passed) == Append(results, [test |-> Test.id, passed |-> passed])

Found == IF mode = "offline" THEN Loaded(Test.id) ELSE base

\* By value in offline mode and for the tests that say so, else by structure.
Compared(m, t, r, b) == IF m = "offline" \/ t.exact THEN ByValue(r, b, Norm) ELSE ByStructure(r, b, Norm)
Differences(b) == Compared(mode, Test, answer, b)

(* A slip: without a baseline there is no verdict.                           *)
JudgedIfFound == IF Found = <<>> THEN results ELSE Verdict(Differences(Found[1]) = {})

\* Without a baseline a test fails.
Judged == Verdict(Found # <<>> /\ Differences(Found[1]) = {})

Compare ==
  /\ plan # <<>> /\ Head(plan).role = "judge"
  /\ results' = Judged
  /\ plan' = Tail(plan)
  /\ UNCHANGED <<mode, drift, twin, live, fixtures, todo, current, answer, base, report, sessions, throws>>

EndTest ==
  /\ current # <<>> /\ plan = <<>>
  /\ current' = <<>>
  /\ UNCHANGED <<mode, drift, twin, live, fixtures, todo, plan, answer, base, results, report, sessions, throws>>

\* A call throws, with or without its effect: in run() the test fails and what
\* is left of it, its teardown included, is not done; record() is left.
Throw ==
  /\ plan # <<>> /\ Head(plan).role # "judge" /\ throws < MaxThrows
  /\ Effect(Head(plan)) \/ UNCHANGED <<twin, live>>
  /\ throws' = throws + 1
  /\ plan' = <<>> /\ current' = <<>>
  /\ IF mode = "record" THEN todo' = <<>> /\ UNCHANGED results
     ELSE results' = Verdict(FALSE) /\ UNCHANGED todo
  /\ UNCHANGED <<mode, drift, fixtures, answer, base, report, sessions>>

\* The process ends; run() has reported.
End ==
  /\ mode # "idle" /\ current = <<>> /\ todo = <<>>
  /\ mode' = "idle"
  /\ report' = IF mode = "record" THEN NoReport ELSE [mode |-> mode, results |-> results]
  /\ UNCHANGED <<drift, twin, live, fixtures, testVars, sessions, throws>>

SessionNext ==
  \/ \E m \in {"twin", "live", "offline", "record"} : Begin(m)
  \/ NextTest \/ Execute \/ Compare \/ EndTest \/ Throw \/ End

SessionSpec == SessionInit /\ [][SessionNext]_sessionVars

-----------------------------------------------------------------------------
(* What is asked of the suite, its normaliser and the comparator            *)

Targets == [things : UNION {[S -> Nat] : S \in SUBSET Things}, next : Nat]

Makes(side, op, x) == op.kind = "create" /\ op.thing = x /\ op.schema \in {"both", side}
Removes(side, op, x) == op.kind = "delete" /\ op.thing = x /\ op.schema \in {"both", side}

\* What the first n of some operations leave of a target that was empty.
Left(side, ops, n) ==
  {x \in Things : \E i \in 1 .. n :
     Makes(side, ops[i], x) /\ \A j \in i + 1 .. n : ~Removes(side, ops[j], x)}

\* A test removes what it makes, on the twin and on the service.
Tidy(t) ==
  \A c \in {<<"twin", t.op>>, <<"live", t.op>>, <<"live", LiveOp(t)>>} :
    LET ops == t.setup \o <<c[2]>> \o t.teardown IN Left(c[1], ops, Len(ops)) = {}

TidySuite == \A i \in DOMAIN Suite : Tidy(Suite[i])

\* Both sides understand what sets a test up.
SharedSetup == \A i \in DOMAIN Suite : \A k \in DOMAIN Suite[i].setup : Suite[i].setup[k].schema = "both"

\* No two tests share a fixture.
PathsDiffer == \A i, j \in DOMAIN Suite : PathFor(Suite[i].id) = PathFor(Suite[j].id) => i = j

\* What a faithful twin answers to a test and what the service answers are the
\* same once normalised, whatever their ids; and so are two answers to a list.
Hiding(T) ==
  \A i \in DOMAIN Suite, a \in T, b \in T : DOMAIN a.things = DOMAIN b.things =>
    LET t == Suite[i]
        r == Response("none", "twin", t.op, a)
    IN /\ ~t.liveSkip => Compared("live", t, r, Response("none", "live", LiveOp(t), b)) = {}
       /\ t.op.schema = "both" => Compared("offline", t, r, Response("none", "live", t.op, b)) = {}
       /\ t.op.kind = "list" => Compared("twin", t, r, r) = {}

\* A wrong value of a field that is not declared passes by structure.
Unseen(m, t) == {"none"} \cup IF m = "live" /\ ~t.exact THEN {"value"} ELSE {}

\* A drifting list differs from whatever the service answers.
Discerning(T) ==
  \A i \in DOMAIN Suite, a \in T, b \in T, op \in Operations, m \in {"live", "offline"} :
    \A d \in Drifts \ Unseen(m, Suite[i]) :
      Suite[i].op.kind = "list" =>
        Compared(m, Suite[i], Response(d, "twin", Suite[i].op, a), Response(d, "live", op, b)) # {}

-----------------------------------------------------------------------------
(* Properties                                                               *)

Ids == {Suite[i].id : i \in DOMAIN Suite}
Of(id) == CHOOSE t \in {Suite[i] : i \in DOMAIN Suite} : t.id = id
Green == \A i \in DOMAIN report.results : report.results[i].passed

\* Every variable has its type; no list of results is longer than two for each test.
SessionTypeOK ==
  /\ mode \in {"idle", "twin", "live", "offline", "record"} /\ drift \in Drifts
  /\ \A t \in {twin, live} : DOMAIN t.things \subseteq Things /\ t.next \in Nat
  /\ DOMAIN fixtures \subseteq {SafeName[id] : id \in Ids}
  /\ Len(todo) <= Len(Suite) /\ Len(current) <= 1
  /\ \A i \in DOMAIN results : results[i].test \in Ids /\ results[i].passed \in BOOLEAN
  /\ Len(results) <= 2 * Len(Suite)
  /\ sessions \in 0 .. MaxSessions /\ throws \in 0 .. MaxThrows

\* A twin that answers as the service does passes: in live mode every test; in
\* offline mode those that were recorded and that the service understands, as
\* record() sends the twin's own operations, skipped tests included; and in
\* twin mode those whose second call finds what the first one found. This
\* holds over any sessions, for both targets are taken through the same steps
\* and left as they were found, as long as no call throws.
NoFalseAlarm ==
  drift = "none" /\ throws = 0 =>
    \A i \in DOMAIN report.results :
      LET t == Of(report.results[i].test) IN
      \/ report.results[i].passed
      \/ report.mode = "offline" /\ (PathFor(t.id) \notin DOMAIN fixtures \/ t.op.schema # "both")
      \/ report.mode = "twin" /\ t.op.kind # "list"

\* A drifting twin is never reported green by a suite that compared a list with
\* the service's, in whatever state throws and earlier sessions left either;
\* only a wrong value of a field that is not declared passes by structure.
GreenMeansFaithful ==
  report.mode \in {"live", "offline"} /\ Green =>
    \A i \in DOMAIN report.results :
      LET t == Of(report.results[i].test) IN
      t.op.kind = "list" => drift \in Unseen(report.mode, t)

\* Every test of a reported session has a verdict, unless it was skipped; one
\* whose teardown threw has two, and the last of them is a failure, so that
\* a green report is one whose tests all ran to their end.
EveryTestJudged ==
  report # NoReport =>
    \A i \in DOMAIN Suite :
      LET mine == {j \in DOMAIN report.results : report.results[j].test = Suite[i].id} IN
      IF Suite[i].liveSkip /\ report.mode = "live" THEN mine = {}
      ELSE /\ Cardinality(mine) \in {1, 2}
           /\ Cardinality(mine) = 2 => ~report.results[Max(mine)].passed /\ throws > 0

\* No session leaves anything behind on the service unless a call threw.
ServiceLeftClean == mode = "idle" /\ throws = 0 => DOMAIN live.things = {}
=============================================================================
