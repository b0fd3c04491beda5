--------------------------- MODULE MCLeakyBucket ----------------------------
(* Small instances of LeakyBucket for TLC: one client, two requests at a    *)
(* time. Buckets of different keys share nothing but the clock and Reset.   *)
(* The costs are those of three documents: { __typename }, { shop { name } }*)
(* and { orders(first: 2) { __typename } }.                                 *)
EXTENDS LeakyBucket, QueryCost, TLC

CONSTANTS k1

OneClient == [r \in Requests |-> k1]

RequestSymmetry == Permutations(Requests)

Field(kind, args, selections) == [kind |-> kind, args |-> args, selections |-> selections]
Scalar == Field("scalar", <<>>, <<>>)
Typename == Field("skipped", <<>>, <<>>)
First(n) == <<[name |-> "query", value |-> None], [name |-> "first", value |-> n]>>
Query(selections) == <<[type |-> "query", selections |-> selections]>>

Documents == {
  Query(<<Typename>>),
  Query(<<Field("object", <<>>, <<Scalar>>)>>),
  Query(<<Field("connection", First(2), <<Typename>>)>>)}

MCCosts == {DocumentCost(d) : d \in Documents}

Part(edges, nodes, below) == [edges |-> edges, nodes |-> nodes, below |-> below]
Counts == {None, 0, 1, 3}
Answers == {Part(None, None, <<Part(e, n, <<Part(f, None, <<>>)>>)>>) : e, n, f \in Counts}

\* Nested connections, from which the page sizes 0 and 1 take all the weight.
Nested(m, n) ==
  Query(<<Field("connection", First(m), <<Field("object", <<>>, <<Field("connection", First(n), <<Typename>>)>>)>>)>>)

\* A document costs what its fields weigh, each with the innermost page size
\* around it, and what computeActualCost keeps of it, for any answer, is among
\* the refunds that LeakyBucket considers.
ASSUME CostAgreement ==
  /\ \A m, n \in 0 .. 3 : DocumentCost(Nested(m, n)) = (2 + m) + m + m * (2 + n)
  /\ \A cost \in 0 .. 6, a \in Answers : ActualCost(a, cost) * Second \in ActualCosts(cost * Second)

=============================================================================
