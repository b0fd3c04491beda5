--------------------------- MODULE ShopCatalogProofs ---------------------------
(***************************************************************************)
(* ShopCatalog for any e-mails, fixtures, pairs, targets and bounds.        *)
(***************************************************************************)
EXTENDS ShopCatalog, FiniteSetTheorems, WellFoundedInduction, TLAPS

RowType ==
  [gid : {"temporary", "canonical", "minted"}, email : NullableEmails,
   filled : BOOLEAN, born : 1 .. inserted]

\* No table has drawn more ids than inserts were tried; no row lies beyond its
\* sequence.
Ids ==
  /\ inserted \in 0 .. MaxInserts
  /\ lastId \in [Tables -> Nat] /\ \A t \in Tables : lastId[t] <= inserted

Rows ==
  /\ DOMAIN rows = Kinds
  /\ \A k \in Kinds : \A id \in DOMAIN rows[k] : id \in 1 .. lastId[k] /\ rows[k][id] \in RowType

\* A link was made when its product had an id already, so that no product
\* made later is given that id.
Links ==
  /\ DOMAIN collects \subseteq 1 .. lastId["collect"]
  /\ \A i \in DOMAIN collects : collects[i].of # None =>
       /\ collects[i].product \in 1 .. lastId["product"]
       /\ BornOf(collects[i].product) \in {collects[i].of, None}
  /\ \A v \in variants :
       /\ v.product \in 1 .. lastId["product"] /\ v.of \in 1 .. inserted
       /\ BornOf(v.product) \in {v.of, None}

\* A level that is not there is owed nothing.
Stock ==
  /\ levels \in [Pairs -> Int \cup {None}] /\ stock \in [Pairs -> Int]
  /\ \A p \in Pairs : levels[p] = stock[p] \/ (levels[p] = None /\ stock[p] = 0)

Answers ==
  /\ now \in 0 .. MaxTime
  /\ subscriptions \in Seq([target : Targets, at : 0 .. now])
  /\ answer.asked \in Targets => answer.id \in DOMAIN subscriptions /\
       subscriptions[answer.id] = [target |-> answer.asked, at |-> answer.at]

Faults == medium \in {"memory", "file"} /\ faults \in 0 .. MaxFaults

IInv == Ids /\ Rows /\ Links /\ Stock /\ Answers /\ Faults /\ GidsAreAddressable

LEMMA InitIInv == Init => IInv
<1> SUFFICES ASSUME Init PROVE IInv
  OBVIOUS
<1> USE DEF Init
<1>1. Ids /\ Rows
  BY BoundAssumption DEF Ids, Rows, Empty
<1>2. Links
  BY DEF Links, Empty
<1>3. Stock /\ Faults
  BY BoundAssumption DEF Stock, Faults
<1>4. Answers
  BY DataAssumption, BoundAssumption DEF Answers, NoAnswer
<1>5. GidsAreAddressable
  BY DEF GidsAreAddressable, Empty
<1> QED BY <1>1, <1>2, <1>3, <1>4, <1>5 DEF IInv

LEMMA SeqElement ==
  ASSUME NEW T, NEW s \in Seq(T), NEW i \in DOMAIN s
  PROVE  s[i] \in T
OBVIOUS

LEMMA SeqWider ==
  ASSUME NEW T, NEW U, T \subseteq U, NEW s \in Seq(T)
  PROVE  s \in Seq(U)
OBVIOUS

-----------------------------------------------------------------------------
(* Counting the rows of a batch                                             *)

LEMMA OfKindType ==
  ASSUME NEW batch, NEW k, NEW n \in Nat
  PROVE  OfKind(batch, k, n) \in Nat /\ OfKind(batch, k, n) <= n
<1> DEFINE S == {i \in 1 .. n : batch[i].kind = k}
<1>1. IsFiniteSet(1 .. n) /\ Cardinality(1 .. n) = n
  BY FS_Interval
<1>2. IsFiniteSet(S) /\ Cardinality(S) <= n
  BY <1>1, FS_Subset
<1>3. Cardinality(S) \in Nat
  BY <1>2, FS_CardinalityType
<1> QED BY <1>2, <1>3 DEF OfKind

\* The i-th insert counts one more than the inserts before it.
LEMMA OfKindGrows ==
  ASSUME NEW batch, NEW k, NEW m \in Nat, NEW n \in Nat, m < n, batch[n].kind = k
  PROVE  OfKind(batch, k, m) < OfKind(batch, k, n)
<1> DEFINE S == {i \in 1 .. m : batch[i].kind = k}
           T == {i \in 1 .. n : batch[i].kind = k}
<1>1. IsFiniteSet(1 .. n) /\ IsFiniteSet(1 .. m)
  BY FS_Interval
<1>2. IsFiniteSet(S) /\ IsFiniteSet(T)
  BY <1>1, FS_Subset
<1>3. n \notin S /\ S \cup {n} \subseteq T
  OBVIOUS
<1>4. Cardinality(S \cup {n}) = Cardinality(S) + 1
  BY <1>2, <1>3, FS_AddElement
<1>5. Cardinality(S \cup {n}) <= Cardinality(T)
  BY <1>2, <1>3, FS_Subset
<1>6. Cardinality(S) \in Nat /\ Cardinality(T) \in Nat
  BY <1>2, FS_CardinalityType
<1> QED BY <1>4, <1>5, <1>6 DEF OfKind

LEMMA OfKindMonotone ==
  ASSUME NEW batch, NEW k, NEW m \in Nat, NEW n \in Nat, m <= n
  PROVE  OfKind(batch, k, m) <= OfKind(batch, k, n)
<1> DEFINE S == {i \in 1 .. m : batch[i].kind = k}
           T == {i \in 1 .. n : batch[i].kind = k}
<1>1. IsFiniteSet(1 .. n) /\ S \subseteq T /\ T \subseteq 1 .. n
  BY FS_Interval
<1>2. IsFiniteSet(T)
  BY <1>1, FS_Subset
<1> QED BY <1>1, <1>2, FS_Subset DEF OfKind

\* A batch stops at its first insert that fails, or never.
LEMMA DoneType ==
  ASSUME NEW batch \in Seq(Entries)
  PROVE  /\ Done(batch) \in 0 .. Len(batch)
         /\ \A i \in 1 .. Done(batch) : Insertable(batch, i)
<1> DEFINE T == {n \in Nat : n = Len(batch) \/ (n < Len(batch) /\ ~ Insertable(batch, n + 1))}
<1>1. T \subseteq Nat /\ Len(batch) \in T
  OBVIOUS
<1>2. PICK n \in T : \A m \in T : ~ (<<m, n>> \in OpToRel(<, Nat))
  BY <1>1, NatLessThanWellFounded, WFMin
<1>3. \A m \in T : ~ (m < n)
  BY <1>1, <1>2 DEF OpToRel
<1>4. n \in 0 .. Len(batch) /\ (n < Len(batch) => ~ Insertable(batch, n + 1))
  OBVIOUS
<1>5. ASSUME NEW i \in 1 .. n, ~ Insertable(batch, i) PROVE FALSE
  <2>1. i - 1 \in Nat /\ i - 1 < n /\ (i - 1) + 1 = i /\ i - 1 < Len(batch)
    BY <1>4
  <2>2. i - 1 \in T
    BY <1>5, <2>1
  <2> QED BY <2>1, <2>2, <1>3
<1> QED BY <1>4, <1>5 DEF Done

-----------------------------------------------------------------------------
(* Batches of inserts                                                       *)

LEMMA BatchEntries ==
  ASSUME NEW batch \in Seq(Entries), NEW i \in 1 .. Len(batch)
  PROVE  batch[i].kind \in Kinds /\ batch[i].email \in NullableEmails
<1>1. batch[i] \in Entries
  OBVIOUS
<1> QED BY <1>1 DEF Entries, NullableEmails

LEMMA RowOfType ==
  ASSUME Ids, NEW entry, entry.email \in NullableEmails,
         NEW gid \in {"temporary", "canonical", "minted"}, NEW filled \in BOOLEAN, NEW i \in Nat \ {0},
         inserted' \in Nat, inserted + i <= inserted'
  PROVE  RowOf(entry, gid, filled, i) \in RowType'
BY DEF Ids, RowOf, RowType, NullableEmails

\* What a batch leaves: new ids beyond the sequences, each with the row of
\* one insert, and the rows that were there.
LEMMA InsertAllRows ==
  ASSUME Ids, Rows, NEW batch \in Seq(Entries),
         NEW gid \in {"temporary", "canonical", "minted"}, NEW filled \in BOOLEAN,
         InsertAll(batch, gid, filled)
  PROVE  /\ Ids'
         /\ DOMAIN rows' = Kinds
         /\ \A k \in Kinds : lastId[k] <= lastId'[k]
         /\ inserted + Done(batch) <= inserted'
         /\ \A k \in Kinds : \A id \in DOMAIN rows[k] :
              id \in DOMAIN rows'[k] /\ rows'[k][id] = rows[k][id]
         /\ \A k \in Kinds : \A id \in DOMAIN rows'[k] \ DOMAIN rows[k] :
              \E i \in 1 .. Done(batch) :
                /\ batch[i].kind = k /\ id = IdOf(batch, i) /\ id \in lastId[k] + 1 .. lastId'[k]
                /\ rows'[k][id] = RowOf(batch[i], gid, filled, i)
         /\ \A i \in 1 .. Done(batch) :
              /\ IdOf(batch, i) \in lastId[batch[i].kind] + 1 .. lastId'[batch[i].kind]
              /\ IdOf(batch, i) \in DOMAIN rows'[batch[i].kind]
              /\ rows'[batch[i].kind][IdOf(batch, i)].born = inserted + i
<1> DEFINE n == Done(batch)
           tried == IF n < Len(batch) THEN n + 1 ELSE n
           fresh(k) == {i \in 1 .. n : batch[i].kind = k}
<1>1. n \in 0 .. Len(batch) /\ Len(batch) \in Nat
  BY DoneType
<1>2. tried \in Nat /\ n <= tried
  BY <1>1
<1> HIDE DEF n
<1>3. /\ inserted + tried <= MaxInserts /\ inserted' = inserted + tried
      /\ rows' = [k \in Kinds |->
           [id \in DOMAIN rows[k] \cup {IdOf(batch, i) : i \in fresh(k)} |->
              IF id \in DOMAIN rows[k] THEN rows[k][id]
              ELSE LET i == CHOOSE j \in fresh(k) : IdOf(batch, j) = id
                   IN RowOf(batch[i], gid, filled, i)]]
      /\ lastId' = [t \in Tables |-> lastId[t] + OfKind(batch, t, tried)]
  BY DEF InsertAll, n
<1>4. \A t \in Tables : OfKind(batch, t, tried) \in Nat /\ OfKind(batch, t, tried) <= tried
  BY <1>2, OfKindType
<1> HIDE DEF tried
<1>5. inserted' \in 0 .. MaxInserts /\ inserted + n <= inserted'
  BY <1>1, <1>2, <1>3, BoundAssumption DEF Ids
<1>6. \A t \in Tables : lastId'[t] \in Nat /\ lastId[t] <= lastId'[t] /\ lastId'[t] <= inserted'
  BY <1>2, <1>3, <1>4 DEF Ids
<1>7. Ids'
  BY <1>3, <1>5, <1>6 DEF Ids
<1>8. ASSUME NEW i \in 1 .. n
      PROVE  /\ batch[i].kind \in Kinds /\ i \in Nat
             /\ OfKind(batch, batch[i].kind, i) \in Nat \ {0}
             /\ OfKind(batch, batch[i].kind, i) <= OfKind(batch, batch[i].kind, tried)
             /\ IdOf(batch, i) \in lastId[batch[i].kind] + 1 .. lastId'[batch[i].kind]
  <2>1. i \in 1 .. Len(batch) /\ i \in Nat /\ i <= tried
    BY <1>1, <1>2
  <2>2. batch[i].kind \in Kinds /\ batch[i].kind \in Tables
    BY <2>1, BatchEntries DEF Tables
  <2>3. OfKind(batch, batch[i].kind, 0) \in Nat /\ OfKind(batch, batch[i].kind, i) \in Nat
    BY <2>1, OfKindType
  <2>4. OfKind(batch, batch[i].kind, 0) < OfKind(batch, batch[i].kind, i)
    BY <2>1, OfKindGrows
  <2>5. OfKind(batch, batch[i].kind, i) <= OfKind(batch, batch[i].kind, tried)
    BY <2>1, <1>2, OfKindMonotone
  <2>6. lastId[batch[i].kind] \in Nat /\ OfKind(batch, batch[i].kind, tried) \in Nat
        /\ lastId'[batch[i].kind] = lastId[batch[i].kind] + OfKind(batch, batch[i].kind, tried)
    BY <2>2, <1>3, <1>4 DEF Ids
  <2> QED BY <2>1, <2>2, <2>3, <2>4, <2>5, <2>6 DEF IdOf, NextId
<1>9. ASSUME NEW i \in 1 .. n, NEW j \in 1 .. n, batch[i].kind = batch[j].kind, i < j
      PROVE  IdOf(batch, i) # IdOf(batch, j)
  <2>1. OfKind(batch, batch[i].kind, i) < OfKind(batch, batch[j].kind, j)
    BY <1>8, <1>9, OfKindGrows
  <2>2. lastId[batch[i].kind] \in Nat
    BY <1>8 DEF Ids, Tables
  <2>3. IdOf(batch, i) = lastId[batch[i].kind] + 1 + OfKind(batch, batch[i].kind, i) - 1
    BY DEF IdOf, NextId
  <2>4. IdOf(batch, j) = lastId[batch[i].kind] + 1 + OfKind(batch, batch[j].kind, j) - 1
    BY <1>9 DEF IdOf, NextId
  <2>5. OfKind(batch, batch[i].kind, i) \in Nat /\ OfKind(batch, batch[j].kind, j) \in Nat
    BY <1>8
  <2> HIDE <1>9
  <2> QED BY <2>1, <2>2, <2>3, <2>4, <2>5
<1>10. \A i, j \in 1 .. n : batch[i].kind = batch[j].kind /\ IdOf(batch, i) = IdOf(batch, j) => i = j
  <2> SUFFICES ASSUME NEW i \in 1 .. n, NEW j \in 1 .. n, batch[i].kind = batch[j].kind, i # j
               PROVE  IdOf(batch, i) # IdOf(batch, j)
    OBVIOUS
  <2>1. i < j \/ j < i
    BY <1>1
  <2> QED BY <2>1, <1>9
<1>11. ASSUME NEW i \in 1 .. n
       PROVE  /\ IdOf(batch, i) \notin DOMAIN rows[batch[i].kind]
              /\ (CHOOSE j \in fresh(batch[i].kind) : IdOf(batch, j) = IdOf(batch, i)) = i
  <2>1. IdOf(batch, i) > lastId[batch[i].kind] /\ lastId[batch[i].kind] \in Nat
    BY <1>8 DEF Ids, Tables
  <2>2. IdOf(batch, i) \notin DOMAIN rows[batch[i].kind]
    BY <1>8, <2>1 DEF Rows
  <2>3. i \in fresh(batch[i].kind)
    OBVIOUS
  <2>4. \A j \in fresh(batch[i].kind) : IdOf(batch, j) = IdOf(batch, i) => j = i
    BY <1>10
  <2> QED BY <2>2, <2>3, <2>4
<1>12. ASSUME NEW i \in 1 .. n
       PROVE  /\ IdOf(batch, i) \in DOMAIN rows'[batch[i].kind]
              /\ rows'[batch[i].kind][IdOf(batch, i)] = RowOf(batch[i], gid, filled, i)
  <2>1. i \in fresh(batch[i].kind) /\ batch[i].kind \in Kinds
    BY <1>8
  <2>2. IdOf(batch, i) \in DOMAIN rows[batch[i].kind] \cup {IdOf(batch, j) : j \in fresh(batch[i].kind)}
    BY <2>1
  <2> QED BY <2>1, <2>2, <1>3, <1>11
<1>13. ASSUME NEW k \in Kinds, NEW id \in DOMAIN rows'[k] \ DOMAIN rows[k]
       PROVE  \E i \in 1 .. n : batch[i].kind = k /\ id = IdOf(batch, i)
  BY <1>3
<1>14. \A k \in Kinds : \A id \in DOMAIN rows[k] : id \in DOMAIN rows'[k] /\ rows'[k][id] = rows[k][id]
  BY <1>3
<1>15. \A i \in 1 .. n : rows'[batch[i].kind][IdOf(batch, i)].born = inserted + i
  <2>1. \A i \in 1 .. n : RowOf(batch[i], gid, filled, i).born = inserted + i
    BY DEF RowOf
  <2> QED BY <1>12, <2>1
<1>16. DOMAIN rows' = Kinds
  BY <1>3
<1>17. \A k \in Kinds : lastId[k] <= lastId'[k]
  BY <1>6 DEF Tables
<1>18. \A k \in Kinds : \A id \in DOMAIN rows'[k] \ DOMAIN rows[k] :
         \E i \in 1 .. n :
            /\ batch[i].kind = k /\ id = IdOf(batch, i) /\ id \in lastId[k] + 1 .. lastId'[k]
            /\ rows'[k][id] = RowOf(batch[i], gid, filled, i)
  BY <1>8, <1>12, <1>13
<1> QED BY <1>5, <1>7, <1>8, <1>12, <1>14, <1>15, <1>16, <1>17, <1>18 DEF n

\* The rows that a row type admits grow with the inserts.
LEMMA RowTypeGrows ==
  ASSUME Ids, inserted' \in Nat, inserted <= inserted', NEW r \in RowType
  PROVE  r \in RowType'
BY DEF Ids, RowType, NullableEmails

\* Links survive whatever keeps the products that exist, or takes them away,
\* and gives new ones ids beyond the sequence.
LEMMA LinksSurvive ==
  ASSUME Links, Ids, lastId' \in [Tables -> Nat], lastId["product"] <= lastId'["product"],
         inserted <= inserted', inserted' \in Nat, collects' = collects,
         \A id \in DOMAIN rows'["product"] :
            \/ id \in DOMAIN rows["product"] /\ rows'["product"][id].born = rows["product"][id].born
            \/ id > lastId["product"]
  PROVE  /\ \A i \in DOMAIN collects' : collects'[i].of # None =>
              /\ collects'[i].product \in 1 .. lastId'["product"]
              /\ BornOf(collects[i].product)' \in {collects'[i].of, None}
         /\ \A v \in variants :
              /\ v.product \in 1 .. lastId'["product"] /\ v.of \in 1 .. inserted'
              /\ BornOf(v.product)' \in {v.of, None}
<1>1. lastId["product"] \in Nat /\ lastId'["product"] \in Nat /\ inserted \in Nat
  BY DEF Ids, Tables, Kinds
<1>2. ASSUME NEW id \in 1 .. lastId["product"]
      PROVE  (IF id \in DOMAIN rows'["product"] THEN rows'["product"][id].born ELSE None) \in {BornOf(id), None}
  <2>1. ~ (id > lastId["product"])
    BY <1>1
  <2> QED BY <2>1 DEF BornOf
<1>3. \A id \in 1 .. lastId["product"] : BornOf(id)' \in {BornOf(id), None}
  BY <1>2 DEF BornOf
<1>4. \A id \in 1 .. lastId["product"] : id \in 1 .. lastId'["product"]
  BY <1>1
<1>5. \A i \in 1 .. inserted : i \in 1 .. inserted'
  BY <1>1
<1>6. ASSUME NEW i \in DOMAIN collects, collects[i].of # None
      PROVE  /\ collects[i].product \in 1 .. lastId'["product"]
             /\ BornOf(collects[i].product)' \in {collects[i].of, None}
  <2>1. collects[i].product \in 1 .. lastId["product"]
        /\ BornOf(collects[i].product) \in {collects[i].of, None}
    BY <1>6 DEF Links
  <2> DEFINE id == collects[i].product
  <2>2. (IF id \in DOMAIN rows'["product"] THEN rows'["product"][id].born ELSE None)
          \in {BornOf(id), None}
    BY <2>1, <1>2
  <2>3. (IF id \in DOMAIN rows'["product"] THEN rows'["product"][id].born ELSE None)
          = BornOf(collects[i].product)'
    BY DEF BornOf
  <2> QED BY <1>4, <2>1, <2>2, <2>3
<1>7. ASSUME NEW v \in variants
      PROVE  /\ v.product \in 1 .. lastId'["product"] /\ v.of \in 1 .. inserted'
             /\ BornOf(v.product)' \in {v.of, None}
  BY <1>3, <1>4, <1>5 DEF Links
<1> QED BY <1>6, <1>7

\* Appending a batch, and the variants of its products if it gives them any.
LEMMA InsertAllKeeps ==
  ASSUME IInv, NEW batch \in Seq(Entries),
         NEW gid \in {"canonical", "minted"}, NEW filled \in BOOLEAN, InsertAll(batch, gid, filled),
         variants' \subseteq variants \cup
           {[product |-> IdOf(batch, i), of |-> inserted + i] :
              i \in {j \in 1 .. Done(batch) : batch[j].kind = "product"}}
  PROVE  IInv'
<1> USE DEF IInv
<1>0. Ids /\ Rows /\ gid \in {"temporary", "canonical", "minted"} /\ Done(batch) \in 0 .. Len(batch)
      /\ Len(batch) \in Nat
  BY DoneType
<1>1. /\ Ids' /\ DOMAIN rows' = Kinds
      /\ \A k \in Kinds : lastId[k] <= lastId'[k]
      /\ inserted + Done(batch) <= inserted'
      /\ \A k \in Kinds : \A id \in DOMAIN rows[k] :
           id \in DOMAIN rows'[k] /\ rows'[k][id] = rows[k][id]
  BY <1>0, InsertAllRows
<1>2. \A k \in Kinds : \A id \in DOMAIN rows'[k] \ DOMAIN rows[k] :
        \E i \in 1 .. Done(batch) :
          /\ batch[i].kind = k /\ id = IdOf(batch, i) /\ id \in lastId[k] + 1 .. lastId'[k]
          /\ rows'[k][id] = RowOf(batch[i], gid, filled, i)
  BY <1>0, InsertAllRows
<1>3. \A i \in 1 .. Done(batch) :
        /\ IdOf(batch, i) \in lastId[batch[i].kind] + 1 .. lastId'[batch[i].kind]
        /\ IdOf(batch, i) \in DOMAIN rows'[batch[i].kind]
        /\ rows'[batch[i].kind][IdOf(batch, i)].born = inserted + i
  BY <1>0, InsertAllRows
<1>4. /\ inserted \in Nat /\ inserted' \in Nat /\ inserted <= inserted'
      /\ \A k \in Kinds : lastId[k] \in Nat /\ lastId'[k] \in Nat
  BY <1>0, <1>1 DEF Ids, Tables
<1>5. Rows'
  <2>1. ASSUME NEW k \in Kinds, NEW id \in DOMAIN rows[k]
        PROVE  id \in 1 .. lastId'[k] /\ rows'[k][id] \in RowType'
    <3>1. id \in 1 .. lastId[k] /\ rows[k][id] \in RowType
      BY DEF Rows
    <3>2. rows[k][id] \in RowType'
      BY <3>1, <1>0, <1>4, RowTypeGrows
    <3> QED BY <3>1, <3>2, <1>1, <1>4
  <2>2. ASSUME NEW k \in Kinds, NEW id \in DOMAIN rows'[k] \ DOMAIN rows[k]
        PROVE  id \in 1 .. lastId'[k] /\ rows'[k][id] \in RowType'
    <3>1. PICK i \in 1 .. Done(batch) :
            id \in lastId[k] + 1 .. lastId'[k] /\ rows'[k][id] = RowOf(batch[i], gid, filled, i)
      BY <1>2
    <3>2. i \in 1 .. Len(batch) /\ i \in Nat \ {0} /\ inserted + i <= inserted'
      BY <1>0, <1>1, <1>4
    <3>3. batch[i].email \in NullableEmails
      BY <3>2, BatchEntries
    <3>4. RowOf(batch[i], gid, filled, i) \in RowType'
      BY <3>2, <3>3, <1>0, <1>4, RowOfType
    <3> QED BY <3>1, <3>4, <1>4
  <2>3. \A k \in Kinds : \A id \in DOMAIN rows'[k] : id \in 1 .. lastId'[k] /\ rows'[k][id] \in RowType'
    BY <2>1, <2>2
  <2> QED BY <2>3, <1>1 DEF Rows
<1>6. Links'
  <2>1. "product" \in Kinds /\ "product" \in Tables /\ "collect" \in Tables
    BY DEF Kinds, Tables
  <2>2. \A id \in DOMAIN rows'["product"] :
          \/ id \in DOMAIN rows["product"] /\ rows'["product"][id].born = rows["product"][id].born
          \/ id > lastId["product"]
    <3> SUFFICES ASSUME NEW id \in DOMAIN rows'["product"], id \notin DOMAIN rows["product"]
                 PROVE  id > lastId["product"]
      BY <1>1, <2>1
    <3>1. id \in lastId["product"] + 1 .. lastId'["product"]
      BY <1>2, <2>1
    <3> QED BY <3>1, <1>4, <2>1
  <2>3. /\ lastId' \in [Tables -> Nat] /\ lastId["product"] <= lastId'["product"]
    BY <1>1, <2>1 DEF Ids
  <2>4. /\ \A i \in DOMAIN collects' : collects'[i].of # None =>
              /\ collects'[i].product \in 1 .. lastId'["product"]
              /\ BornOf(collects[i].product)' \in {collects'[i].of, None}
        /\ \A v \in variants :
              /\ v.product \in 1 .. lastId'["product"] /\ v.of \in 1 .. inserted'
              /\ BornOf(v.product)' \in {v.of, None}
    <3>1. collects' = collects
      BY DEF InsertAll
    <3> QED BY <1>0, <1>4, <2>2, <2>3, <3>1, LinksSurvive
  <2>5. ASSUME NEW i \in 1 .. Done(batch), batch[i].kind = "product"
        PROVE  /\ IdOf(batch, i) \in 1 .. lastId'["product"] /\ inserted + i \in 1 .. inserted'
               /\ IdOf(batch, i) \in DOMAIN rows'["product"]
               /\ rows'["product"][IdOf(batch, i)].born = inserted + i
    <3>1. /\ IdOf(batch, i) \in lastId["product"] + 1 .. lastId'["product"]
          /\ IdOf(batch, i) \in DOMAIN rows'["product"]
          /\ rows'["product"][IdOf(batch, i)].born = inserted + i
      BY <1>3, <2>5
    <3>2. inserted + i \in 1 .. inserted'
      BY <1>0, <1>1, <1>4
    <3>3. IdOf(batch, i) \in 1 .. lastId'["product"]
      BY <3>1, <1>4, <2>1
    <3> QED BY <3>1, <3>2, <3>3
  <2>6. collects' = collects /\ DOMAIN collects \subseteq 1 .. lastId'["collect"]
    <3>1. collects' = collects /\ lastId'["collect"] = lastId["collect"] + OfKind(batch, "collect",
            IF Done(batch) < Len(batch) THEN Done(batch) + 1 ELSE Done(batch))
      BY <2>1 DEF InsertAll
    <3>2. lastId["collect"] \in Nat /\ OfKind(batch, "collect",
            IF Done(batch) < Len(batch) THEN Done(batch) + 1 ELSE Done(batch)) \in Nat
      BY <1>0, <2>1, OfKindType DEF Ids
    <3> QED BY <3>1, <3>2 DEF Links
  <2>7. \A v \in variants' : v \in variants \/ \E i \in 1 .. Done(batch) :
          batch[i].kind = "product" /\ v = [product |-> IdOf(batch, i), of |-> inserted + i]
    OBVIOUS
  <2>8. ASSUME NEW v \in variants'
        PROVE  /\ v.product \in 1 .. lastId'["product"] /\ v.of \in 1 .. inserted'
               /\ BornOf(v.product)' \in {v.of, None}
    <3>1. CASE v \in variants
      BY <2>4, <3>1
    <3>2. CASE \E i \in 1 .. Done(batch) :
                 batch[i].kind = "product" /\ v = [product |-> IdOf(batch, i), of |-> inserted + i]
      <4>1. PICK i \in 1 .. Done(batch) :
              batch[i].kind = "product" /\ v = [product |-> IdOf(batch, i), of |-> inserted + i]
        BY <3>2
      <4>2. v.product = IdOf(batch, i) /\ v.of = inserted + i
        BY <4>1
      <4>3. v.product \in DOMAIN rows'["product"] /\ rows'["product"][v.product].born = v.of
        BY <2>5, <4>1, <4>2
      <4>4. BornOf(v.product)' = v.of
        BY <4>3 DEF BornOf
      <4> QED BY <2>5, <4>1, <4>2, <4>4
    <3> QED BY <2>7, <3>1, <3>2
  <2> QED BY <2>4, <2>6, <2>8 DEF Links
<1>7. Stock' /\ Answers' /\ Faults'
  BY DEF InsertAll, frame, stockVars, Stock, Answers, Faults
<1>8. GidsAreAddressable'
  <2>1. faults' = faults
    BY DEF InsertAll, frame
  <2>2. \A i \in 1 .. Done(batch) : RowOf(batch[i], gid, filled, i).gid # "temporary"
    BY DEF RowOf
  <2> QED BY <2>1, <2>2, <1>1, <1>2 DEF GidsAreAddressable
<1> QED BY <1>1, <1>5, <1>6, <1>7, <1>8

-----------------------------------------------------------------------------
(* Updates and deletions                                                    *)

LEMMA RowSet ==
  ASSUME NEW r \in RowType, NEW email \in NullableEmails, NEW filled \in BOOLEAN
  PROVE  /\ [[r EXCEPT !.email = email] EXCEPT !.filled = filled] \in RowType
         /\ [[r EXCEPT !.email = email] EXCEPT !.filled = filled].gid = r.gid
         /\ [[r EXCEPT !.email = email] EXCEPT !.filled = filled].born = r.born
BY DEF RowType

\* A step on the tables with gids that draws no id, adds no row, and leaves
\* each row its gid and its birth.
LEMMA RowsEdited ==
  ASSUME IInv, UNCHANGED <<lastId, rowFrame>>, Rows',
         \A k \in Kinds : \A id \in DOMAIN rows'[k] :
            /\ id \in DOMAIN rows[k]
            /\ rows'[k][id].born = rows[k][id].born /\ rows'[k][id].gid = rows[k][id].gid
  PROVE  IInv'
<1> USE DEF IInv, rowFrame, frame, stockVars
<1>1. Ids' /\ Stock' /\ Answers' /\ Faults'
  BY DEF Ids, Stock, Answers, Faults
<1>2. Links'
  <2>1. "product" \in Kinds /\ "product" \in Tables
    BY DEF Kinds, Tables
  <2>2. /\ lastId' \in [Tables -> Nat] /\ lastId["product"] <= lastId'["product"]
        /\ inserted <= inserted' /\ inserted' \in Nat /\ collects' = collects /\ variants' = variants
    BY <2>1 DEF Ids
  <2>3. \A id \in DOMAIN rows'["product"] :
          \/ id \in DOMAIN rows["product"] /\ rows'["product"][id].born = rows["product"][id].born
          \/ id > lastId["product"]
    BY <2>1
  <2>4. /\ \A i \in DOMAIN collects' : collects'[i].of # None =>
              /\ collects'[i].product \in 1 .. lastId'["product"]
              /\ BornOf(collects[i].product)' \in {collects'[i].of, None}
        /\ \A v \in variants :
              /\ v.product \in 1 .. lastId'["product"] /\ v.of \in 1 .. inserted'
              /\ BornOf(v.product)' \in {v.of, None}
    BY <2>2, <2>3, LinksSurvive
  <2> QED BY <2>2, <2>4 DEF Links
<1>3. GidsAreAddressable'
  BY DEF GidsAreAddressable
<1> QED BY <1>1, <1>2, <1>3

LEMMA UpdateKeeps ==
  ASSUME IInv, NEW k \in Kinds, NEW id, NEW email \in NullableEmails, NEW filled \in BOOLEAN,
         Update(k, id, email, filled)
  PROVE  IInv'
<1> DEFINE new == [[rows[k][id] EXCEPT !.email = email] EXCEPT !.filled = filled]
<1>1. id \in DOMAIN rows[k] /\ rows[k][id] \in RowType
  BY DEF Update, IInv, Rows
<1>2. new \in RowType /\ new.gid = rows[k][id].gid /\ new.born = rows[k][id].born
  BY <1>1, RowSet
<1>3. /\ DOMAIN rows' = DOMAIN rows
      /\ \A j \in Kinds : DOMAIN rows'[j] = DOMAIN rows[j]
      /\ \A j \in Kinds : \A i \in DOMAIN rows[j] :
           rows'[j][i] = IF j = k /\ i = id THEN new ELSE rows[j][i]
  BY <1>1 DEF Update, IInv, Rows
<1> HIDE DEF new
<1>4. UNCHANGED <<lastId, rowFrame>> /\ inserted' = inserted /\ RowType' = RowType
  BY DEF Update, rowFrame, RowType
<1>5. Rows'
  BY <1>2, <1>3, <1>4 DEF Rows, IInv
<1>6. \A j \in Kinds : \A i \in DOMAIN rows'[j] :
        /\ i \in DOMAIN rows[j]
        /\ rows'[j][i].born = rows[j][i].born /\ rows'[j][i].gid = rows[j][i].gid
  BY <1>2, <1>3
<1> QED BY <1>4, <1>5, <1>6, RowsEdited

LEMMA DeleteKeeps ==
  ASSUME IInv, NEW k \in Kinds, NEW id, Delete(k, id)
  PROVE  IInv'
<1>1. /\ DOMAIN rows' = DOMAIN rows
      /\ \A j \in Kinds : \A i \in DOMAIN rows'[j] : i \in DOMAIN rows[j] /\ rows'[j][i] = rows[j][i]
  BY DEF Delete, IInv, Rows
<1>2. UNCHANGED <<lastId, rowFrame>> /\ RowType' = RowType
  BY DEF Delete, rowFrame, RowType
<1>3. Rows'
  BY <1>1, <1>2 DEF Rows, IInv
<1> QED BY <1>1, <1>2, <1>3, RowsEdited

LEMMA EditKeeps ==
  ASSUME IInv, Edit
  PROVE  IInv'
<1>1. PICK id \in 1 .. MaxInserts, given \in BOOLEAN :
        \/ UpdateOrder(id, given) \/ UiUpdateOrder(id, given)
        \/ UpdateProduct(id, given) \/ UiUpdateProduct(id, given)
        \/ \E email \in NullableEmails : UpdateCustomer(id, email, given)
        \/ \E email \in NullableEmails : UiUpdateCustomer(id, email)
        \/ UpdateItem(id, given) \/ UiUpdateItem(id)
        \/ ProductUpdate(id) \/ InventoryItemUpdate(id)
        \/ DeleteProduct(id)
        \/ \E k \in Kinds : UiDelete(k, id)
  BY DEF Edit
<1>2. CASE UpdateOrder(id, given) \/ UiUpdateOrder(id, given)
  BY <1>2, UpdateKeeps DEF UpdateOrder, UiUpdateOrder, SetOrder, Kinds, NullableEmails
<1>3. CASE UpdateProduct(id, given) \/ UiUpdateProduct(id, given) \/ ProductUpdate(id)
  BY <1>3, UpdateKeeps DEF UpdateProduct, UiUpdateProduct, ProductUpdate, SetProduct, Kinds, NullableEmails
<1>4. CASE \E email \in NullableEmails : UpdateCustomer(id, email, given)
  BY <1>4, UpdateKeeps DEF UpdateCustomer, SetCustomer, Kinds
<1>5. CASE \E email \in NullableEmails : UiUpdateCustomer(id, email)
  BY <1>5, UpdateKeeps DEF UiUpdateCustomer, SetCustomer, Kinds
<1>6. CASE UpdateItem(id, given) \/ UiUpdateItem(id)
  BY <1>6, UpdateKeeps DEF UpdateItem, UiUpdateItem, SetItem, Kinds, NullableEmails
<1>7. CASE InventoryItemUpdate(id)
  <2>1. PICK filled \in {TRUE, rows["item"][id].filled} : SetItem(id, filled)
    BY <1>7 DEF InventoryItemUpdate
  <2>2. rows["item"][id].filled \in BOOLEAN
    BY <1>7 DEF InventoryItemUpdate, Addressed, IInv, Rows, RowType, Kinds
  <2>3. filled \in BOOLEAN
    BY <2>2
  <2> QED BY <2>1, <2>3, UpdateKeeps DEF SetItem, Kinds, NullableEmails
<1>8. CASE DeleteProduct(id)
  BY <1>8, DeleteKeeps DEF DeleteProduct, Kinds
<1>9. CASE \E k \in Kinds : UiDelete(k, id)
  BY <1>9, DeleteKeeps DEF UiDelete
<1> QED BY <1>1, <1>2, <1>3, <1>4, <1>5, <1>6, <1>7, <1>8, <1>9

LEMMA CreateKeeps ==
  ASSUME IInv, Create
  PROVE  IInv'
<1>1. ASSUME NEW entry \in Entries, NEW gid \in {"canonical", "minted"}, NEW filled \in BOOLEAN,
             InsertAll(<<entry>>, gid, filled), UNCHANGED variants
      PROVE  IInv'
  <2>1. <<entry>> \in Seq(Entries)
    OBVIOUS
  <2> QED BY <1>1, <2>1, InsertAllKeeps
<1>2. /\ {OrderEntry, ProductEntry, ItemEntry, CollectionEntry} \subseteq Entries
      /\ \A email \in NullableEmails : CustomerEntry(email) \in Entries
  BY DEF OrderEntry, ProductEntry, ItemEntry, CollectionEntry, CustomerEntry, Entries, Kinds, NullableEmails
<1>3. CASE CreateOrder \/ CreateProduct \/ ProductCreate \/ CreateCustomCollection
  BY <1>1, <1>2, <1>3 DEF CreateOrder, CreateProduct, ProductCreate, CreateCustomCollection, TwoStep
<1>4. CASE \E email \in NullableEmails : CreateCustomer(email) \/ CustomerCreate(email)
  <2>1. PICK email \in NullableEmails : CreateCustomer(email) \/ CustomerCreate(email)
    BY <1>4
  <2>2. PICK filled \in BOOLEAN : TwoStep(CustomerEntry(email), filled)
    BY <2>1 DEF CreateCustomer, CustomerCreate
  <2> QED BY <1>1, <1>2, <2>2 DEF TwoStep
<1>5. CASE \E given \in BOOLEAN : UiCreateOrder(given) \/ UiCreateProduct(given)
  BY <1>1, <1>2, <1>5 DEF UiCreateOrder, UiCreateProduct, UiCreate
<1>6. CASE \E email \in NullableEmails : UiCreateCustomer(email)
  BY <1>1, <1>2, <1>6 DEF UiCreateCustomer, UiCreate
<1>7. CASE UiCreateItem
  BY <1>1, <1>2, <1>7 DEF UiCreateItem, UiCreate
<1>8. CASE UiLoadFixtures
  BY <1>8, DataAssumption, InsertAllKeeps DEF UiLoadFixtures
<1>9. CASE \E batch \in Fixtures : LoadFixtures(batch)
  <2>1. PICK batch \in Fixtures : LoadFixtures(batch)
    BY <1>9
  <2>2. batch \in Seq(Entries)
    BY DataAssumption
  <2> QED BY <2>1, <2>2, InsertAllKeeps DEF LoadFixtures
<1> QED BY <1>3, <1>4, <1>5, <1>6, <1>7, <1>8, <1>9 DEF Create

-----------------------------------------------------------------------------
(* Links, levels and subscriptions                                          *)

\* Drawing further ids changes nothing for the rows that are there.
LEMMA RowsStay ==
  ASSUME IInv, rows' = rows, Ids', inserted <= inserted', \A t \in Tables : lastId[t] <= lastId'[t]
  PROVE  Rows' /\ \A id : BornOf(id)' = BornOf(id)
<1>1. /\ inserted \in Nat /\ inserted' \in Nat
      /\ \A k \in Kinds : lastId[k] \in Nat /\ lastId'[k] \in Nat /\ lastId[k] <= lastId'[k]
  BY DEF IInv, Ids, Tables
<1>2. ASSUME NEW k \in Kinds, NEW id \in DOMAIN rows[k]
      PROVE  id \in 1 .. lastId'[k] /\ rows[k][id] \in RowType'
  <2>1. id \in 1 .. lastId[k] /\ rows[k][id] \in RowType
    BY DEF IInv, Rows
  <2>2. rows[k][id] \in RowType'
    BY <1>1, <2>1, RowTypeGrows DEF IInv
  <2> QED BY <1>1, <2>1, <2>2
<1>3. DOMAIN rows' = Kinds
  BY DEF IInv, Rows
<1>4. Rows'
  BY <1>2, <1>3 DEF Rows
<1>5. \A id : BornOf(id)' = BornOf(id)
  BY DEF BornOf
<1> QED BY <1>4, <1>5

LEMMA LinksStay ==
  ASSUME IInv, UNCHANGED <<rows, collects, variants>>, Ids', inserted <= inserted',
         \A t \in Tables : lastId[t] <= lastId'[t]
  PROVE  Links'
<1>1. \A id : BornOf(id)' = BornOf(id)
  BY RowsStay
<1>2. /\ lastId["product"] \in Nat /\ lastId'["product"] \in Nat /\ lastId["product"] <= lastId'["product"]
      /\ lastId["collect"] \in Nat /\ lastId'["collect"] \in Nat /\ lastId["collect"] <= lastId'["collect"]
      /\ inserted \in Nat /\ inserted' \in Nat
  BY DEF IInv, Ids, Tables, Kinds
<1>3. DOMAIN collects' \subseteq 1 .. lastId'["collect"]
  BY <1>2 DEF IInv, Links
<1>4. ASSUME NEW i \in DOMAIN collects, collects[i].of # None
      PROVE  /\ collects[i].product \in 1 .. lastId'["product"]
             /\ BornOf(collects[i].product) \in {collects[i].of, None}
  <2>1. collects[i].product \in 1 .. lastId["product"] /\ BornOf(collects[i].product) \in {collects[i].of, None}
    BY <1>4 DEF IInv, Links
  <2> QED BY <1>2, <2>1
<1>5. ASSUME NEW v \in variants
      PROVE  /\ v.product \in 1 .. lastId'["product"] /\ v.of \in 1 .. inserted'
             /\ BornOf(v.product) \in {v.of, None}
  <2>1. /\ v.product \in 1 .. lastId["product"] /\ v.of \in 1 .. inserted
        /\ BornOf(v.product) \in {v.of, None}
    BY DEF IInv, Links
  <2> QED BY <1>2, <2>1
<1>6. \A i \in DOMAIN collects : BornOf(collects[i].product)' = BornOf(collects[i].product)
  BY DEF BornOf
<1>7. \A i \in DOMAIN collects' : collects'[i].of # None =>
       /\ collects'[i].product \in 1 .. lastId'["product"]
       /\ BornOf(collects[i].product)' \in {collects'[i].of, None}
  BY <1>4, <1>6
<1>8. \A v \in variants' :
       /\ v.product \in 1 .. lastId'["product"] /\ v.of \in 1 .. inserted'
       /\ BornOf(v.product)' \in {v.of, None}
  BY <1>1, <1>5
<1> QED BY <1>3, <1>7, <1>8 DEF Links

\* One insert that draws an id of one table.
LEMMA OneMore ==
  ASSUME Ids, NEW t \in Tables, inserted < MaxInserts, inserted' = inserted + 1,
         lastId' = [lastId EXCEPT ![t] = @ + 1]
  PROVE  Ids' /\ inserted <= inserted' /\ \A u \in Tables : lastId[u] <= lastId'[u]
BY BoundAssumption DEF Ids

LEMMA CreateCollectKeeps ==
  ASSUME IInv, NEW c \in Collections, NEW p \in Wanted, CreateCollect(c, p)
  PROVE  IInv'
<1> USE DEF IInv
<1> DEFINE new == lastId["collect"] + 1
           row == [collection |-> c, product |-> p, of |-> BornOf(p)]
<1>1. "collect" \in Tables /\ "product" \in Tables /\ "product" \in Kinds /\ "collect" # "product"
  BY DEF Tables, Kinds
<1>2. Ids' /\ inserted <= inserted' /\ \A t \in Tables : lastId[t] <= lastId'[t]
  BY <1>1, OneMore DEF CreateCollect, Ids
<1>3. rows' = rows /\ variants' = variants
  BY DEF CreateCollect, gidVars
<1>4. Rows' /\ \A id : BornOf(id)' = BornOf(id)
  BY <1>2, <1>3, RowsStay
<1>5. /\ DOMAIN collects' \subseteq DOMAIN collects \cup {new}
      /\ \A i \in DOMAIN collects' : (i \in DOMAIN collects /\ collects'[i] = collects[i]) \/ collects'[i] = row
  BY DEF CreateCollect
<1>6. lastId'["product"] = lastId["product"] /\ lastId'["collect"] = new /\ lastId["collect"] \in Nat
  BY <1>1 DEF CreateCollect, Ids
<1>7. ASSUME BornOf(p) # None
      PROVE  p \in 1 .. lastId["product"]
  BY <1>1, <1>7 DEF BornOf, Rows
<1>8. ASSUME NEW i \in DOMAIN collects', collects'[i].of # None
      PROVE  /\ collects'[i].product \in 1 .. lastId'["product"]
             /\ BornOf(collects'[i].product) \in {collects'[i].of, None}
  <2>1. CASE i \in DOMAIN collects /\ collects'[i] = collects[i]
    BY <1>6, <1>8, <2>1 DEF Links
  <2>2. CASE collects'[i] = row
    BY <1>6, <1>7, <1>8, <2>2
  <2> QED BY <1>5, <2>1, <2>2
<1>9. Links'
  <2>1. DOMAIN collects' \subseteq 1 .. lastId'["collect"]
    BY <1>5, <1>6 DEF Links
  <2>2. \A i \in DOMAIN collects' : collects'[i].of # None =>
          /\ collects'[i].product \in 1 .. lastId'["product"]
          /\ (IF collects'[i].product \in DOMAIN rows'["product"]
                THEN rows'["product"][collects'[i].product].born ELSE None) \in {collects'[i].of, None}
    BY <1>3, <1>8 DEF BornOf
  <2>3. \A v \in variants' :
          /\ v.product \in 1 .. lastId'["product"] /\ v.of \in 1 .. inserted'
          /\ BornOf(v.product)' \in {v.of, None}
    <3> SUFFICES ASSUME NEW v \in variants
                 PROVE  /\ v.product \in 1 .. lastId'["product"] /\ v.of \in 1 .. inserted'
                        /\ BornOf(v.product)' \in {v.of, None}
      BY <1>3
    <3>1. v.product \in 1 .. lastId["product"] /\ v.of \in 1 .. inserted /\ BornOf(v.product) \in {v.of, None}
      BY DEF Links
    <3>2. inserted \in Nat /\ inserted' \in Nat
      BY <1>2 DEF Ids
    <3> QED BY <1>2, <1>4, <1>6, <3>1, <3>2
  <2> QED BY <2>1, <2>2, <2>3 DEF Links, BornOf
<1>10. Stock' /\ Answers' /\ Faults' /\ GidsAreAddressable'
  BY <1>3 DEF CreateCollect, frame, stockVars, Stock, Answers, Faults, GidsAreAddressable
<1> QED BY <1>2, <1>4, <1>9, <1>10

LEMMA LevelKeeps ==
  ASSUME IInv, NEW p \in Pairs, NEW new \in Int, Level(p, new, new)
  PROVE  IInv'
<1> USE DEF IInv
<1>1. "level" \in Tables
  BY DEF Tables
<1>2. Ids' /\ inserted <= inserted' /\ \A t \in Tables : lastId[t] <= lastId'[t]
  BY <1>1, OneMore DEF Level
<1>3. Rows' /\ Links'
  BY <1>2, RowsStay, LinksStay DEF Level, gidVars
<1>4. Stock'
  BY DEF Level, Stock
<1>5. Answers' /\ Faults' /\ GidsAreAddressable'
  BY DEF Level, gidVars, frame, Answers, Faults, GidsAreAddressable
<1> QED BY <1>2, <1>3, <1>4, <1>5

\* What is added to or set as a level is what it should be.
LEMMA StockKeeps ==
  ASSUME IInv, NEW p \in Pairs,
         ConnectLevel(p) \/ DeleteLevel(p) \/ \E a \in Amounts : AdjustLevel(p, a) \/ SetLevel(p, a)
  PROVE  IInv'
<1>1. Connected(p) = stock[p] /\ Connected(p) \in Int
  BY DataAssumption DEF IInv, Stock, Connected
<1>2. CASE ConnectLevel(p)
  BY <1>1, <1>2, LevelKeeps DEF ConnectLevel
<1>3. CASE \E a \in Amounts : AdjustLevel(p, a) \/ SetLevel(p, a)
  <2>1. PICK a \in Amounts : AdjustLevel(p, a) \/ SetLevel(p, a)
    BY <1>3
  <2>2. a \in Int /\ Connected(p) + a \in Int
    BY <1>1, DataAssumption
  <2>3. CASE AdjustLevel(p, a)
    <3>1. Level(p, Connected(p) + a, stock[p] + a)
      BY <2>3 DEF AdjustLevel
    <3>2. Level(p, Connected(p) + a, Connected(p) + a)
      BY <1>1, <3>1
    <3> QED BY <2>2, <3>2, LevelKeeps
  <2>4. CASE SetLevel(p, a)
    BY <2>2, <2>4, LevelKeeps DEF SetLevel
  <2> QED BY <2>1, <2>3, <2>4
<1>4. CASE DeleteLevel(p)
  <2> USE <1>4 DEF IInv
  <2>1. Ids' /\ inserted <= inserted' /\ \A t \in Tables : lastId[t] <= lastId'[t]
    BY DEF DeleteLevel, Ids
  <2>2. Rows' /\ Links'
    BY <2>1, RowsStay, LinksStay DEF DeleteLevel, gidVars
  <2>3. Stock'
    BY DEF DeleteLevel, Stock
  <2>4. Answers' /\ Faults' /\ GidsAreAddressable'
    BY DEF DeleteLevel, gidVars, frame, Answers, Faults, GidsAreAddressable
  <2> QED BY <2>1, <2>2, <2>3, <2>4
<1> QED BY <1>2, <1>3, <1>4

\* A new subscription is the last, and no other is of a later second.
LEMMA SubscribeKeeps ==
  ASSUME IInv, NEW target \in Targets, SubscribeWebhook(target) \/ UiSubscribe(target)
  PROVE  IInv'
<1> USE DEF IInv
<1> DEFINE row == [target |-> target, at |-> now]
<1>1. /\ inserted < MaxInserts /\ inserted' = inserted + 1 /\ subscriptions' = Append(subscriptions, row)
      /\ UNCHANGED <<gidVars, collects, lastId, stockVars, frame>>
  BY DEF SubscribeWebhook, UiSubscribe, StoreSubscription
<1>2. Ids' /\ inserted <= inserted' /\ \A t \in Tables : lastId[t] <= lastId'[t]
  BY <1>1, BoundAssumption DEF Ids
<1>3. Rows' /\ Links'
  BY <1>1, <1>2, RowsStay, LinksStay DEF gidVars
<1>4. Stock' /\ Faults' /\ GidsAreAddressable'
  BY <1>1 DEF gidVars, frame, stockVars, Stock, Faults, GidsAreAddressable
<1>5. row \in [target : Targets, at : 0 .. now] /\ now' = now /\ now \in Nat
  BY <1>1, BoundAssumption DEF Answers, frame
<1>6. /\ subscriptions' \in Seq([target : Targets, at : 0 .. now])
      /\ DOMAIN subscriptions' = DOMAIN subscriptions \cup {Len(subscriptions) + 1}
      /\ \A i \in DOMAIN subscriptions : subscriptions'[i] = subscriptions[i]
      /\ subscriptions'[Len(subscriptions) + 1] = row
  BY <1>1, <1>5 DEF Answers
<1>7. CASE UiSubscribe(target)
  <2>1. answer' = answer
    BY <1>7 DEF UiSubscribe
  <2> QED BY <1>2, <1>3, <1>4, <1>5, <1>6, <2>1 DEF Answers
<1>8. CASE SubscribeWebhook(target)
  <2>1. PICK id \in Found(target, subscriptions') : answer' = [asked |-> target, id |-> id, at |-> now]
    BY <1>8 DEF SubscribeWebhook
  <2>2. id \in Same(target, subscriptions') /\ \A j \in Same(target, subscriptions') :
          subscriptions'[id].at >= subscriptions'[j].at
    BY <2>1 DEF Found
  <2>3. Len(subscriptions) + 1 \in Same(target, subscriptions')
    BY <1>6 DEF Same
  <2>4. id \in DOMAIN subscriptions' /\ subscriptions'[id].target = target /\ subscriptions'[id].at >= now
    <3>1. subscriptions'[Len(subscriptions) + 1].at = now
      BY <1>6
    <3>2. subscriptions'[id].at >= subscriptions'[Len(subscriptions) + 1].at
      BY <2>2, <2>3
    <3>3. id \in DOMAIN subscriptions' /\ subscriptions'[id].target = target
      BY <2>2 DEF Same
    <3>4. subscriptions'[id].at >= now
      BY <3>1, <3>2
    <3> QED BY <3>3, <3>4
  <2>5. subscriptions'[id] \in [target : Targets, at : 0 .. now]
    BY <1>6, <2>4, SeqElement
  <2>6. subscriptions'[id] = [target |-> target, at |-> now]
    BY <1>5, <2>4, <2>5
  <2> QED BY <1>2, <1>3, <1>4, <1>5, <1>6, <2>1, <2>4, <2>6 DEF Answers
<1> QED BY <1>7, <1>8

-----------------------------------------------------------------------------
(* Time, resets and crashes                                                 *)

LEMMA TickKeeps ==
  ASSUME IInv, Tick
  PROVE  IInv'
<1> USE DEF IInv, Tick, gidVars, stockVars
<1>1. Ids' /\ inserted <= inserted' /\ \A t \in Tables : lastId[t] <= lastId'[t]
  BY DEF Ids
<1>2. Rows' /\ Links'
  BY <1>1, RowsStay, LinksStay
<1>3. Stock' /\ Faults' /\ GidsAreAddressable'
  BY DEF Stock, Faults, GidsAreAddressable
<1>4. Answers'
  <2>1. now' \in 0 .. MaxTime /\ 0 .. now \subseteq 0 .. now'
    BY BoundAssumption DEF Answers
  <2>2. [target : Targets, at : 0 .. now] \subseteq [target : Targets, at : 0 .. now']
    BY <2>1
  <2>3. subscriptions' \in Seq([target : Targets, at : 0 .. now'])
    <3> DEFINE T == [target : Targets, at : 0 .. now]
               U == [target : Targets, at : 0 .. now']
    <3>1. subscriptions \in Seq(T) /\ subscriptions' = subscriptions
      BY DEF Answers
    <3>2. T \subseteq U
      BY <2>2
    <3> HIDE DEF T, U
    <3>3. subscriptions' \in Seq(U)
      BY <3>1, <3>2, SeqWider
    <3> QED BY <3>3 DEF U
  <2>4. answer'.asked \in Targets => answer'.id \in DOMAIN subscriptions' /\
          subscriptions'[answer'.id] = [target |-> answer'.asked, at |-> answer'.at]
    BY DEF Answers
  <2> QED BY <2>1, <2>3, <2>4 DEF Answers
<1> QED BY <1>1, <1>2, <1>3, <1>4

LEMMA ReopenKeeps ==
  ASSUME IInv, Fault, Reopen
  PROVE  IInv'
<1> USE DEF IInv
<1>1. faults' = faults + 1 /\ faults' \in 1 .. MaxFaults
  BY BoundAssumption DEF Fault, Faults
<1>2. Faults' /\ GidsAreAddressable'
  BY <1>1 DEF Reopen, Faults, GidsAreAddressable
<1>3. answer' = NoAnswer /\ inserted' = inserted /\ now' = now
  BY DEF Reopen
<1>4. ~ (NoAnswer.asked \in Targets)
  BY DataAssumption DEF NoAnswer
<1>5. CASE medium = "file"
  <2>1. UNCHANGED <<gidVars, collects, lastId, stockVars, subscriptions>>
    BY <1>5 DEF Reopen
  <2>2. Ids' /\ inserted <= inserted' /\ \A t \in Tables : lastId[t] <= lastId'[t]
    BY <1>3, <2>1 DEF Ids
  <2>3. Rows' /\ Links'
    BY <2>1, <2>2, RowsStay, LinksStay DEF gidVars
  <2>4. Stock' /\ Answers'
    BY <1>3, <1>4, <2>1 DEF stockVars, Stock, Answers
  <2> QED BY <1>2, <2>2, <2>3, <2>4
<1>6. CASE medium # "file"
  <2>1. /\ rows' = [k \in Kinds |-> Empty] /\ lastId' = [t \in Tables |-> 0]
        /\ collects' = Empty /\ variants' = {} /\ subscriptions' = <<>>
        /\ levels' = [p \in Pairs |-> None] /\ stock' = [p \in Pairs |-> 0]
    BY <1>6 DEF Reopen
  <2>2. Ids' /\ Rows'
    BY <1>3, <2>1 DEF Ids, Rows, Empty
  <2>3. Links' /\ Stock'
    BY <2>1 DEF Links, Stock, Empty
  <2>4. Answers'
    BY <1>3, <1>4, <2>1 DEF Answers
  <2> QED BY <1>2, <2>2, <2>3, <2>4
<1> QED BY <1>5, <1>6

LEMMA CreateCutKeeps ==
  ASSUME IInv, NEW k \in Kinds, NEW email \in NullableEmails, CreateCut(k, email)
  PROVE  IInv'
<1> USE DEF IInv
<1> DEFINE id == NextId(k)
           row == RowOf([email |-> email], "temporary", FALSE, 1)
<1>1. "product" \in Kinds /\ "product" \in Tables /\ "collect" \in Tables /\ "collect" \notin Kinds /\ k \in Tables
  BY DEF Kinds, Tables
<1>2. /\ inserted < MaxInserts /\ inserted' = inserted + 1 /\ lastId' = [lastId EXCEPT ![k] = @ + 1]
      /\ id = lastId[k] + 1 /\ lastId[k] \in Nat
  BY <1>1 DEF CreateCut, NextId, Ids
<1>3. Ids' /\ inserted <= inserted' /\ \A t \in Tables : lastId[t] <= lastId'[t]
  BY <1>1, <1>2, OneMore
<1>4. /\ DOMAIN rows' = Kinds
      /\ \A j \in Kinds : \A i \in DOMAIN rows'[j] :
           \/ i \in DOMAIN rows[j] /\ rows'[j][i] = rows[j][i]
           \/ j = k /\ i = id /\ rows'[j][i] = row
  BY DEF CreateCut, Rows
<1>5. inserted' \in Nat /\ inserted \in Nat
  BY <1>3 DEF Ids
<1>6. row \in RowType'
  BY <1>2, <1>5 DEF RowOf, RowType, NullableEmails
<1> HIDE DEF row, id
<1>7. Rows'
  <2>1. ASSUME NEW j \in Kinds, NEW i \in DOMAIN rows[j]
        PROVE  i \in 1 .. lastId'[j] /\ rows[j][i] \in RowType'
    <3>1. i \in 1 .. lastId[j] /\ rows[j][i] \in RowType
      BY DEF Rows
    <3>2. rows[j][i] \in RowType'
      BY <1>3, <1>5, <3>1, RowTypeGrows
    <3>3. j \in Tables /\ lastId[j] \in Nat /\ lastId'[j] \in Nat
      BY <1>3 DEF Tables, Ids
    <3> QED BY <1>3, <3>1, <3>2, <3>3
  <2>2. id \in 1 .. lastId'[k]
    BY <1>1, <1>2 DEF Ids
  <2> QED BY <1>4, <1>6, <2>1, <2>2 DEF Rows
<1>8. Links'
  <2>1. collects' = collects /\ variants' = variants
    BY DEF CreateCut
  <2>2. \A i \in DOMAIN rows'["product"] :
          \/ i \in DOMAIN rows["product"] /\ rows'["product"][i].born = rows["product"][i].born
          \/ i > lastId["product"]
    BY <1>1, <1>2, <1>4
  <2>3. lastId' \in [Tables -> Nat] /\ lastId["product"] <= lastId'["product"]
    BY <1>1, <1>3 DEF Ids
  <2>4. /\ \A i \in DOMAIN collects' : collects'[i].of # None =>
              /\ collects'[i].product \in 1 .. lastId'["product"]
              /\ BornOf(collects[i].product)' \in {collects'[i].of, None}
        /\ \A v \in variants :
              /\ v.product \in 1 .. lastId'["product"] /\ v.of \in 1 .. inserted'
              /\ BornOf(v.product)' \in {v.of, None}
    BY <1>3, <1>5, <2>1, <2>2, <2>3, LinksSurvive
  <2>5. lastId'["collect"] = lastId["collect"] /\ DOMAIN collects' \subseteq 1 .. lastId'["collect"]
    BY <1>1, <1>2, <2>1 DEF Ids, Links
  <2>6. \A v \in variants' :
          /\ v.product \in 1 .. lastId'["product"] /\ v.of \in 1 .. inserted'
          /\ BornOf(v.product)' \in {v.of, None}
    BY <2>1, <2>4
  <2>7. \A i \in DOMAIN collects' : collects'[i].of # None =>
          /\ collects'[i].product \in 1 .. lastId'["product"]
          /\ BornOf(collects[i].product)' \in {collects'[i].of, None}
    BY <2>4
  <2> QED BY <2>5, <2>6, <2>7 DEF Links
<1>9. faults' = faults + 1 /\ faults' \in 1 .. MaxFaults
  BY BoundAssumption DEF CreateCut, Fault, Faults
<1>10. Faults' /\ GidsAreAddressable'
  <2>1. medium' = medium
    BY DEF CreateCut
  <2> QED BY <1>9, <2>1 DEF Faults, GidsAreAddressable
<1>11. Stock'
  BY DEF CreateCut, stockVars, Stock
<1>12. Answers'
  BY DataAssumption DEF CreateCut, NoAnswer, Answers
<1> QED BY <1>3, <1>7, <1>8, <1>10, <1>11, <1>12

-----------------------------------------------------------------------------
(* The invariant                                                            *)

LEMMA StutterKeeps == IInv /\ UNCHANGED vars => IInv'
<1> SUFFICES ASSUME IInv, UNCHANGED vars PROVE IInv'
  OBVIOUS
<1> USE DEF IInv, vars, gidVars, stockVars, frame
<1>1. Ids' /\ inserted <= inserted' /\ \A t \in Tables : lastId[t] <= lastId'[t]
  BY DEF Ids
<1>2. Rows' /\ Links'
  BY <1>1, RowsStay, LinksStay
<1>3. Stock' /\ Answers' /\ Faults' /\ GidsAreAddressable'
  BY DEF Stock, Answers, Faults, GidsAreAddressable
<1> QED BY <1>1, <1>2, <1>3

LEMMA NextKeeps == IInv /\ [Next]_vars => IInv'
<1> SUFFICES ASSUME IInv, [Next]_vars PROVE IInv'
  OBVIOUS
<1>1. CASE Create
  BY <1>1, CreateKeeps
<1>2. CASE Edit
  BY <1>2, EditKeeps
<1>3. CASE Relate
  <2>1. CASE \E c \in Collections, p \in Wanted : CreateCollect(c, p)
    BY <2>1, CreateCollectKeeps
  <2>2. CASE \E p \in Pairs : ConnectLevel(p) \/ DeleteLevel(p)
    BY <2>2, StockKeeps
  <2>3. CASE \E p \in Pairs, a \in Amounts : AdjustLevel(p, a) \/ SetLevel(p, a)
    BY <2>3, StockKeeps
  <2>4. CASE \E target \in Targets : SubscribeWebhook(target) \/ UiSubscribe(target)
    BY <2>4, SubscribeKeeps
  <2> QED BY <1>3, <2>1, <2>2, <2>3, <2>4 DEF Relate
<1>4. CASE Tick
  BY <1>4, TickKeeps
<1>5. CASE Reset \/ Restart
  BY <1>5, ReopenKeeps DEF Reset, Restart
<1>6. CASE \E k \in Kinds, email \in NullableEmails : CreateCut(k, email)
  BY <1>6, CreateCutKeeps
<1>7. CASE UNCHANGED vars
  BY <1>7, StutterKeeps
<1> QED BY <1>1, <1>2, <1>3, <1>4, <1>5, <1>6, <1>7 DEF Next

LEMMA Inductive == Spec => []IInv
<1> QED BY InitIInv, NextKeeps, PTL DEF Spec

-----------------------------------------------------------------------------
(* Every variable keeps its type, and no row, collect or variant is beyond  *)
(* the sequence that drew its id: no insert by REST, GraphQL, the fixtures  *)
(* or the UI gives an id that is to be given again.                         *)
THEOREM TypeCorrect == Spec => []TypeOK
<1>1. IInv => TypeOK
  <2> SUFFICES ASSUME IInv PROVE TypeOK
    OBVIOUS
  <2>1. \A t \in Tables : lastId[t] \in 0 .. MaxInserts
    BY BoundAssumption DEF IInv, Ids
  <2>2. lastId \in [Tables -> 0 .. MaxInserts]
    BY <2>1 DEF IInv, Ids
  <2>3. \A k \in Kinds : DOMAIN rows[k] \subseteq 1 .. lastId[k] /\ \A i \in DOMAIN rows[k] : rows[k][i] \in RowType
    BY DEF IInv, Rows
  <2>4. \A i \in DOMAIN subscriptions : subscriptions[i].target \in Targets /\ subscriptions[i].at <= now
    <3>1. \A i \in DOMAIN subscriptions : subscriptions[i] \in [target : Targets, at : 0 .. now]
      BY SeqElement DEF IInv, Answers
    <3>2. now \in Nat
      BY BoundAssumption DEF IInv, Answers
    <3> QED BY <3>1, <3>2
  <2>5. /\ DOMAIN collects \subseteq 1 .. lastId["collect"]
        /\ \A v \in variants : v.product \in 1 .. lastId["product"] /\ v.of \in 1 .. inserted
    BY DEF IInv, Links
  <2>6. /\ medium \in {"memory", "file"} /\ DOMAIN rows = Kinds /\ levels \in [Pairs -> Int \cup {None}]
        /\ stock \in [Pairs -> Int] /\ now \in 0 .. MaxTime /\ inserted \in 0 .. MaxInserts /\ faults \in 0 .. MaxFaults
    BY DEF IInv, Ids, Rows, Stock, Answers, Faults
  <2> QED BY <2>2, <2>3, <2>4, <2>5, <2>6 DEF TypeOK, RowType
<1> QED BY <1>1, Inductive, PTL

(* The collects and variants that a deleted product leaves behind never     *)
(* attach to a product made later, over resets and restarts, as its id is   *)
(* beyond theirs (AUTOINCREMENT).                                           *)
THEOREM NoLinkChangesProduct == Spec => []LinksKeepTheirProduct
<1>1. IInv => LinksKeepTheirProduct
  <2> SUFFICES ASSUME IInv PROVE LinksKeepTheirProduct
    OBVIOUS
  <2>1. ASSUME NEW i \in DOMAIN collects, collects[i].of # None,
               collects[i].product \in ListedIn(collects[i].collection)
        PROVE  BornOf(collects[i].product) = collects[i].of
    <3>1. collects[i].product \in DOMAIN rows["product"]
      BY <2>1 DEF ListedIn
    <3>2. rows["product"][collects[i].product] \in RowType
      BY <3>1 DEF IInv, Rows, Kinds
    <3>3. BornOf(collects[i].product) \in Int
      BY <3>1, <3>2 DEF BornOf, RowType
    <3>4. BornOf(collects[i].product) \in {collects[i].of, None}
      BY <2>1 DEF IInv, Links
    <3> QED BY <3>3, <3>4, DataAssumption
  <2>2. \A v \in variants : BornOf(v.product) \in {v.of, None}
    BY DEF IInv, Links
  <2> QED BY <2>1, <2>2 DEF LinksKeepTheirProduct
<1> QED BY <1>1, Inductive, PTL

(* Without a fault every row is renamed to a gid that GraphQL can address,  *)
(* by whichever of its many paths it was inserted.                          *)
THEOREM EveryGidAddressable == Spec => []GidsAreAddressable
<1>1. IInv => GidsAreAddressable
  BY DEF IInv
<1> QED BY <1>1, Inductive, PTL

(* A level is what was last set plus what was adjusted since, whatever was  *)
(* connected, deleted or reset in between, for every amount.                *)
THEOREM LevelsAddUp == Spec => []StockIsSum
<1>1. IInv => StockIsSum
  BY DEF IInv, Stock, StockIsSum
<1> QED BY <1>1, Inductive, PTL

(* The id that webhookSubscriptionCreate looks up by topic and URL is of a  *)
(* subscription to them made in the second of the request.                  *)
THEOREM AnswerIsNew == Spec => []AnsweredNewest
<1>1. IInv => AnsweredNewest
  <2> SUFFICES ASSUME IInv, answer.asked \in Targets
               PROVE  answer.id \in Same(answer.asked, subscriptions) /\ subscriptions[answer.id].at = answer.at
    BY DEF AnsweredNewest
  <2>1. answer.id \in DOMAIN subscriptions /\
          subscriptions[answer.id] = [target |-> answer.asked, at |-> answer.at]
    BY DEF IInv, Answers
  <2> QED BY <2>1 DEF Same
<1> QED BY <1>1, Inductive, PTL
=============================================================================
