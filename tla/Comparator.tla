------------------------------ MODULE Comparator ------------------------------
(***************************************************************************)
(* How the conformance framework compares two responses: by value, after    *)
(* both were normalised, or by structure, where the keys and the types must *)
(* agree, and the values of some declared fields and headers.               *)
(*                                                                          *)
(* Of the values of leaves the comparator only asks whether they are equal   *)
(* and, to sort, which comes first. What is reported of a difference is its path. A custom            *)
(* normaliser is left out: no suite has one.                                *)
(***************************************************************************)
EXTENDS JsonBody, Integers, Sequences, SequencesExt

CONSTANT KeyOrder  \* the keys of objects, in the order in which they are written

-----------------------------------------------------------------------------
(* Normalisation                                                            *)

\* The entries of an object or an array that a part of a path stands for: '*'
\* stands for all; a name finds nothing in an array.
Hit(v, part) ==
  IF part = "*" THEN DOMAIN v.val
  ELSE IF v.type = "object" THEN DOMAIN v.val \cap {part} ELSE {}

\* v with what the path leads to removed (new = Gone) or replaced. Nothing is
\* removed from an array, nor replaced in it: only below its items.
RECURSIVE Edited(_, _, _)
Edited(v, path, new) ==
  IF v.type \notin {"object", "array"} THEN v
  ELSE LET hit == Hit(v, Head(path)) IN
    IF Len(path) > 1 THEN [v EXCEPT !.val = 
         [k \in DOMAIN @ |-> IF k \in hit THEN Edited(@[k], Tail(path), new) ELSE @[k]]]
    ELSE IF v.type = "array" THEN v
    ELSE IF new = Gone THEN [v EXCEPT !.val = Restrict(@, DOMAIN @ \ hit)]
    ELSE [v EXCEPT !.val = [k \in DOMAIN @ |-> IF k \in hit THEN new ELSE @[k]]]

Stripped(v, path) == Edited(v, path, Gone)
Placeheld(v, path) == Edited(v, path, Leaf("string", -1))

\* The order of JSON.stringify, by which arrays are sorted.
RECURSIVE Json(_)
Json(v) ==
  CASE v.type = "object" ->
         FlattenSeq([i \in DOMAIN KeyOrder |->
           IF KeyOrder[i] \in DOMAIN v.val THEN Json(v.val[KeyOrder[i]]) ELSE <<>>])
    [] v.type = "array" -> FlattenSeq([i \in DOMAIN v.val |-> Json(v.val[i])])
    [] OTHER -> <<v.val>>

Before(a, b) ==
  \E i \in 1 .. Len(b) :
    /\ \A j \in 1 .. i - 1 : j <= Len(a) /\ a[j] = b[j]
    /\ i > Len(a) \/ a[i] < b[i]

RECURSIVE Sorted(_, _)
Sorted(v, path) ==
  CASE v.type = "array" -> [v EXCEPT !.val = [i \in DOMAIN @ |-> Sorted(@[i], path)]]
    [] v.type = "object" /\ Head(path) \in DOMAIN v.val ->
         [v EXCEPT !.val[Head(path)] =
            IF Len(path) > 1 THEN Sorted(@, Tail(path))
            ELSE IF @.type = "array" THEN [@ EXCEPT !.val = SortSeq(@, LAMBDA x, y : Before(Json(x), Json(y)))]
            ELSE @]
    [] OTHER -> v

\* The fields of both modes: stripped first, then sorted.
Prepared(body, norm) ==
  FoldLeft(Sorted, FoldLeft(Stripped, body, norm.stripFields), norm.sortFields)

NormalizedBody(body, norm) == FoldLeft(Placeheld, Prepared(body, norm), norm.normalizeFields)

\* The headers kept for a comparison by value.
Retained(headers, norm) ==
  Restrict(headers, {n \in DOMAIN headers :
    \/ n = "content-type" \/ n \in norm.compareHeaders
    \/ norm.compareAllHeaders /\ n \notin norm.ignoreHeaders})

-----------------------------------------------------------------------------
(* Comparison: the paths of the differences                                 *)

Primitive(v) == v.type \notin {"object", "array"}

\* Types must agree; then the union of the keys or indices is compared, and of
\* primitives the values if the comparison is by value.
RECURSIVE Divergent(_, _, _, _)
Divergent(a, b, path, byValue) ==
  IF a.type # b.type THEN {path}
  ELSE IF Primitive(a) THEN IF byValue /\ a.val # b.val THEN {path} ELSE {}
  ELSE UNION {IF k \in DOMAIN a.val \cap DOMAIN b.val
              THEN Divergent(a.val[k], b.val[k], Append(path, ToString(k)), byValue)
              ELSE {Append(path, ToString(k))} : k \in DOMAIN a.val \cup DOMAIN b.val}

DivergentStatus(a, b) == IF a.status = b.status THEN {} ELSE {<<"status">>}

DivergentHeaders(h, g) ==
  {<<"headers", n>> : n \in {m \in DOMAIN h \cup DOMAIN g :
                              m \in DOMAIN h /\ m \in DOMAIN g => h[m] # g[m]}}

\* The headers that a structural comparison looks at.
Declared(headers, norm) ==
  Restrict(headers, {n \in DOMAIN headers :
    \/ n \in norm.compareHeaders
    \/ norm.compareAllHeaders /\ n \notin norm.ignoreHeaders})

RECURSIVE Nested(_, _)
Nested(v, path) ==
  IF path = <<>> THEN v
  ELSE IF v.type = "object" /\ Head(path) \in DOMAIN v.val THEN Nested(v.val[Head(path)], Tail(path))
  ELSE Gone

\* compareValueFields: fields whose primitive values must agree in any mode.
DivergentFields(a, b, norm) ==
  {<<"body">> \o f : f \in {g \in norm.compareValueFields :
    LET x == Nested(a, g)
        y == Nested(b, g)
    IN {x.type, y.type} \cap {"undefined", "object", "array", "null"} = {} /\ x # y}}

\* compareResponses
CompareResponses(twin, base, norm) ==
  DivergentStatus(twin, base)
  \cup DivergentHeaders(Retained(twin.headers, norm), Retained(base.headers, norm))
  \cup Divergent(NormalizedBody(twin.body, norm), NormalizedBody(base.body, norm), <<"body">>, TRUE)

\* compareResponsesStructurally
CompareResponsesStructurally(twin, base, norm) ==
  LET a == Prepared(twin.body, norm)
      b == Prepared(base.body, norm)
  IN  DivergentStatus(twin, base)
      \cup DivergentHeaders(Declared(twin.headers, norm), Declared(base.headers, norm))
      \cup Divergent(a, b, <<"body">>, FALSE) \cup DivergentFields(a, b, norm)
=============================================================================
