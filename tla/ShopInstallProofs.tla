-------------------------- MODULE ShopInstallProofs --------------------------
(***************************************************************************)
(* ShopInstall for any codes, tokens, shops, lifetime and bounds.           *)
(***************************************************************************)
EXTENDS ShopInstall, TLAPS

\* The inductive invariant. A code that has a row was not exchanged yet.
CodeRows ==
  /\ DOMAIN codes \subseteq issued /\ issued \subseteq Codes
  /\ \A c \in DOMAIN codes : codes[c] \in 0 .. now
  /\ granted \in [Codes -> Nat]
  /\ \A c \in DOMAIN codes : granted[c] = 0
  /\ \A c \in Codes \ issued : granted[c] = 0
  /\ now \in Nat

TokenRows == DOMAIN tokens \subseteq Tokens /\ \A t \in DOMAIN tokens : tokens[t] \in Shops

\* A row under a temporary gid is there only over a file, which forgets no
\* row, so that no URL that was ever sent can name it.
ChargeRows ==
  /\ medium \in {"memory", "file"}
  /\ charges \in Seq(Charge)
  /\ purchases \in Seq(Charge) /\ \A i \in DOMAIN purchases : purchases[i].status = "PENDING"
  /\ offered \subseteq Nat
  /\ medium = "file" => offered \subseteq DOMAIN charges
  /\ \A id \in DOMAIN charges :
       charges[id].gid = "temporary" =>
         medium = "file" /\ id \notin offered /\ charges[id].status = "PENDING"

IInv ==
  /\ CodeRows /\ TokenRows /\ ChargeRows
  /\ caller \in Shops \cup {None} /\ faults \in Nat

LEMMA InitIInv == Init => IInv
<1> SUFFICES ASSUME Init PROVE IInv
  OBVIOUS
<1>1. CodeRows /\ TokenRows
  BY DEF Init, NoRows, CodeRows, TokenRows
<1>2. ChargeRows
  BY DEF Init, ChargeRows
<1> QED BY <1>1, <1>2 DEF Init, IInv

-----------------------------------------------------------------------------
(* The codes and the tokens                                                 *)

LEMMA InsertedRows ==
  ASSUME NEW rows, NEW key, NEW value
  PROVE  /\ DOMAIN Inserted(rows, key, value) = DOMAIN rows \cup {key}
         /\ \A k \in DOMAIN rows : Inserted(rows, key, value)[k] = rows[k]
         /\ key \notin DOMAIN rows => Inserted(rows, key, value)[key] = value
BY DEF Inserted

LEMMA WithoutRow ==
  ASSUME NEW rows, NEW key
  PROVE  /\ DOMAIN Without(rows, key) = DOMAIN rows \ {key}
         /\ \A k \in DOMAIN rows \ {key} : Without(rows, key)[k] = rows[k]
BY DEF Without

\* Storing a token of any kind for any shop.
LEMMA TokenStored ==
  ASSUME TokenRows, NEW t \in Tokens, NEW shop \in Shops, tokens' = Inserted(tokens, t, shop)
  PROVE  TokenRows'
<1>1. DOMAIN tokens' = DOMAIN tokens \cup {t}
  BY InsertedRows
<1>2. \A u \in DOMAIN tokens : tokens'[u] = tokens[u]
  BY DEF Inserted
<1>3. t \notin DOMAIN tokens => tokens'[t] = shop
  BY InsertedRows
<1> QED BY <1>1, <1>2, <1>3 DEF TokenRows

LEMMA AuthorizeRows ==
  ASSUME CodeRows, NEW c \in Codes, Authorize(c)
  PROVE  CodeRows' /\ c \notin DOMAIN codes /\ DOMAIN codes' = DOMAIN codes \cup {c} /\ codes'[c] = now
         /\ \A d \in DOMAIN codes : codes'[d] = codes[d]
<1>1. c \notin DOMAIN codes /\ granted[c] = 0 /\ now \in 0 .. now
  BY DEF Authorize, CodeRows
<1>2. /\ DOMAIN codes' = DOMAIN codes \cup {c}
      /\ \A d \in DOMAIN codes : codes'[d] = codes[d]
      /\ codes'[c] = now
  BY <1>1 DEF Authorize, Inserted
<1>3. issued' = issued \cup {c} /\ granted' = granted /\ now' = now
  BY DEF Authorize
<1>4. CodeRows'
  BY <1>1, <1>2, <1>3 DEF CodeRows
<1> QED BY <1>1, <1>2, <1>4

\* An exchange that is granted, and one that is not.
LEMMA ExchangeGood ==
  ASSUME CodeRows, NEW c \in Codes, NEW right \in BOOLEAN, Exchange(c, right), Good(c, right)
  PROVE  /\ codes' = Without(codes, c) /\ granted' = [granted EXCEPT ![c] = @ + 1]
         /\ tokens' = Inserted(tokens, <<"code", c>>, OAuthShop)
         /\ CodeRows'
<1>1. codes' = Without(codes, c) /\ granted' = [granted EXCEPT ![c] = @ + 1]
  BY DEF Exchange, CodesAfter, Consumed, Good
<1>2. issued' = issued /\ now' = now
  BY DEF Exchange
<1>3. DOMAIN codes' = DOMAIN codes \ {c} /\ \A d \in DOMAIN codes' : codes'[d] = codes[d]
  BY <1>1, WithoutRow
<1>4. c \in issued
  BY DEF Good, CodeRows
<1>5. CodeRows'
  BY <1>1, <1>2, <1>3, <1>4 DEF CodeRows
<1> QED BY <1>1, <1>5 DEF Exchange

LEMMA ExchangeRefused ==
  ASSUME CodeRows, NEW c \in Codes, NEW right \in BOOLEAN, Exchange(c, right), ~Good(c, right)
  PROVE  /\ codes' = codes \/ (codes' = Without(codes, c) /\ ~Fresh(c))
         /\ UNCHANGED <<issued, granted, tokens, now>>
         /\ CodeRows'
<1>1. codes' = codes \/ (codes' = Without(codes, c) /\ ~Fresh(c))
  BY DEF Exchange, CodesAfter, Consumed, Good
<1>2. UNCHANGED <<issued, granted, tokens, now>>
  BY DEF Exchange
<1>3. DOMAIN codes' \subseteq DOMAIN codes /\ \A d \in DOMAIN codes' : codes'[d] = codes[d]
  <2>1. ASSUME codes' = Without(codes, c) PROVE DOMAIN codes' \subseteq DOMAIN codes /\ \A d \in DOMAIN codes' : codes'[d] = codes[d]
    BY <2>1 DEF Without
  <2> QED BY <1>1, <2>1
<1>4. CodeRows'
  BY <1>2, <1>3 DEF CodeRows
<1> QED BY <1>1, <1>2, <1>4

-----------------------------------------------------------------------------
(* The charges                                                              *)

LEMMA Appended ==
  ASSUME NEW rows \in Seq(Charge), NEW row \in Charge
  PROVE  /\ Append(rows, row) \in Seq(Charge)
         /\ DOMAIN rows = 1 .. Len(rows) /\ Len(rows) \in Nat
         /\ DOMAIN Append(rows, row) = DOMAIN rows \cup {Len(rows) + 1}
         /\ \A i \in DOMAIN rows : Append(rows, row)[i] = rows[i]
         /\ Append(rows, row)[Len(rows) + 1] = row
         /\ Len(Append(rows, row)) = Len(rows) + 1
OBVIOUS

LEMMA StatusSet ==
  ASSUME NEW rows \in Seq(Charge), NEW id \in DOMAIN rows,
         NEW status \in {"PENDING", "ACTIVE", "CANCELLED"}
  PROVE  /\ [rows EXCEPT ![id].status = status] \in Seq(Charge)
         /\ DOMAIN [rows EXCEPT ![id].status = status] = DOMAIN rows
         /\ [rows EXCEPT ![id].status = status][id] = [rows[id] EXCEPT !.status = status]
         /\ \A i \in DOMAIN rows \ {id} : [rows EXCEPT ![id].status = status][i] = rows[i]
<1>1. rows[id] \in Charge
  OBVIOUS
<1>2. [rows[id] EXCEPT !.status = status] \in Charge
  BY <1>1 DEF Charge
<1> QED BY <1>1, <1>2

LEMMA RowTypes ==
  ASSUME NEW shop \in Shops
  PROVE  FinishedRow(shop) \in Charge /\ TemporaryRow(shop) \in Charge
         /\ FinishedRow(shop).gid = "final" /\ FinishedRow(shop).status = "PENDING"
         /\ TemporaryRow(shop).gid = "temporary" /\ TemporaryRow(shop).status = "PENDING"
BY DEF FinishedRow, TemporaryRow, Row, Charge

LEMMA SubscribeRows ==
  ASSUME ChargeRows, TokenRows, NEW t \in Tokens, Subscribe(t)
  PROVE  ChargeRows'
<1>1. tokens[t] \in Shops /\ charges' = Append(charges, FinishedRow(tokens[t]))
  BY DEF Subscribe, TokenRows
<1>2. FinishedRow(tokens[t]) \in Charge /\ FinishedRow(tokens[t]).gid = "final"
  BY <1>1, RowTypes
<1>3. /\ charges' \in Seq(Charge) /\ Len(charges') = Len(charges) + 1 /\ Len(charges) \in Nat
      /\ DOMAIN charges = 1 .. Len(charges)
      /\ DOMAIN charges' = DOMAIN charges \cup {Len(charges) + 1}
      /\ \A i \in DOMAIN charges : charges'[i] = charges[i]
      /\ charges'[Len(charges) + 1].gid = "final"
  BY <1>1, <1>2, Appended DEF ChargeRows
<1>4. offered' = offered \cup {Len(charges) + 1} /\ UNCHANGED <<medium, purchases>>
  BY <1>3 DEF Subscribe
<1>5. offered' \subseteq Nat /\ (medium' = "file" => offered' \subseteq DOMAIN charges')
  <2>1. offered \subseteq Nat /\ (medium = "file" => offered \subseteq DOMAIN charges)
    BY DEF ChargeRows
  <2>2. DOMAIN charges' = DOMAIN charges \cup {Len(charges) + 1} /\ Len(charges) + 1 \in Nat
    BY <1>3
  <2> QED BY <1>4, <2>1, <2>2
<1>6. ASSUME NEW id \in DOMAIN charges', charges'[id].gid = "temporary"
      PROVE  medium' = "file" /\ id \notin offered' /\ charges'[id].status = "PENDING"
  <2>1. id \in DOMAIN charges /\ charges'[id] = charges[id]
    BY <1>3, <1>6
  <2>2. id # Len(charges) + 1
    BY <1>3, <2>1
  <2> QED BY <1>4, <1>6, <2>1, <2>2 DEF ChargeRows
<1> QED BY <1>3, <1>4, <1>5, <1>6 DEF ChargeRows

LEMMA SubscribeCutRows ==
  ASSUME ChargeRows, TokenRows, NEW t \in Tokens, SubscribeCut(t)
  PROVE  ChargeRows'
<1>1. tokens[t] \in Shops /\ charges' = Append(charges, TemporaryRow(tokens[t]))
  BY DEF SubscribeCut, TokenRows
<1>2. TemporaryRow(tokens[t]) \in Charge /\ TemporaryRow(tokens[t]).status = "PENDING"
  BY <1>1, RowTypes
<1>3. /\ charges' \in Seq(Charge) /\ Len(charges) \in Nat
      /\ DOMAIN charges = 1 .. Len(charges)
      /\ DOMAIN charges' = DOMAIN charges \cup {Len(charges) + 1}
      /\ \A i \in DOMAIN charges : charges'[i] = charges[i]
      /\ charges'[Len(charges) + 1].status = "PENDING"
  BY <1>1, <1>2, Appended DEF ChargeRows
<1>4. medium = "file" /\ UNCHANGED <<medium, purchases, offered>>
  BY DEF SubscribeCut
<1>5. Len(charges) + 1 \notin offered
  BY <1>3, <1>4 DEF ChargeRows
<1> QED BY <1>3, <1>4, <1>5 DEF ChargeRows

LEMMA PurchaseRows ==
  ASSUME ChargeRows, TokenRows, NEW t \in Tokens, Purchase(t)
  PROVE  ChargeRows'
<1>1. tokens[t] \in Shops /\ purchases' = Append(purchases, FinishedRow(tokens[t]))
  BY DEF Purchase, TokenRows
<1>2. FinishedRow(tokens[t]) \in Charge /\ FinishedRow(tokens[t]).status = "PENDING"
  BY <1>1, RowTypes
<1>3. /\ purchases' \in Seq(Charge)
      /\ DOMAIN purchases' = DOMAIN purchases \cup {Len(purchases) + 1}
      /\ \A i \in DOMAIN purchases : purchases'[i] = purchases[i]
      /\ purchases'[Len(purchases) + 1].status = "PENDING"
  BY <1>1, <1>2, Appended DEF ChargeRows
<1>4. UNCHANGED <<medium, charges, offered>>
  BY DEF Purchase
<1> QED BY <1>3, <1>4 DEF ChargeRows

\* Setting the status of a row that a merchant can reach, or of one that is
\* no longer pending.
LEMMA StatusRows ==
  ASSUME ChargeRows, NEW id \in DOMAIN charges, NEW status \in {"ACTIVE", "CANCELLED"},
         charges[id].gid = "final",
         charges' = [charges EXCEPT ![id].status = status],
         UNCHANGED <<medium, purchases, offered>>
  PROVE  ChargeRows'
<1>1. /\ charges' \in Seq(Charge) /\ DOMAIN charges' = DOMAIN charges
      /\ charges'[id] = [charges[id] EXCEPT !.status = status]
      /\ \A i \in DOMAIN charges \ {id} : charges'[i] = charges[i]
  BY StatusSet DEF ChargeRows
<1>2. charges[id] \in Charge
  BY DEF ChargeRows
<1>3. charges'[id].gid = "final"
  BY <1>1, <1>2 DEF Charge
<1> QED BY <1>1, <1>3 DEF ChargeRows

LEMMA ConfirmRows ==
  ASSUME ChargeRows, NEW id, Confirm(id)
  PROVE  ChargeRows'
<1>1. id \in DOMAIN charges /\ id \in offered
  BY DEF Confirm
<1>2. charges[id] \in Charge
  BY <1>1 DEF ChargeRows
<1>3. charges[id].gid = "final"
  BY <1>1, <1>2 DEF ChargeRows, Charge
<1> QED BY <1>1, <1>3, StatusRows DEF Confirm

LEMMA CancelRows ==
  ASSUME ChargeRows, NEW t, NEW id, Cancel(t, id)
  PROVE  ChargeRows'
<1>1. id \in DOMAIN charges /\ charges[id].status = "ACTIVE"
  BY DEF Cancel, Cancellable
<1>2. charges[id] \in Charge
  BY <1>1 DEF ChargeRows
<1>3. charges[id].gid = "final"
  BY <1>1, <1>2 DEF ChargeRows, Charge
<1> QED BY <1>1, <1>3, StatusRows DEF Cancel

-----------------------------------------------------------------------------
(* Every step keeps the invariant                                           *)

LEMMA ResetIInv ==
  ASSUME IInv, Reset
  PROVE  IInv'
<1>1. UNCHANGED <<medium, issued, granted, offered, now, caller>> /\ faults' = faults + 1
  BY DEF Reset, Fault
<1>2. CASE medium = "file"
  BY <1>1, <1>2 DEF Reset, IInv, CodeRows, TokenRows, ChargeRows
<1>3. CASE medium # "file"
  <2>1. codes' = NoRows /\ tokens' = NoRows /\ charges' = <<>> /\ purchases' = <<>>
    BY <1>3 DEF Reset
  <2>2. CodeRows' /\ TokenRows'
    BY <1>1, <2>1 DEF IInv, CodeRows, TokenRows, NoRows
  <2>3. ChargeRows'
    BY <1>1, <1>3, <2>1 DEF IInv, ChargeRows
  <2> QED BY <1>1, <2>2, <2>3 DEF IInv
<1> QED BY <1>2, <1>3

LEMMA NextIInv == IInv /\ [Next]_vars => IInv'
<1> SUFFICES ASSUME IInv, [Next]_vars PROVE IInv'
  OBVIOUS
<1> USE DEF IInv, codeVars, chargeVars
<1>1. ASSUME NEW c \in Codes, Authorize(c) PROVE IInv'
  <2>1. CodeRows'
    BY <1>1, AuthorizeRows
  <2> QED BY <1>1, <2>1 DEF Authorize, TokenRows, ChargeRows
<1>2. ASSUME NEW c \in Codes, ExchangeCut(c) PROVE IInv'
  <2>1. DOMAIN codes' \subseteq DOMAIN codes /\ \A d \in DOMAIN codes' : codes'[d] = codes[d]
    BY <1>2, WithoutRow DEF ExchangeCut, Consumed
  <2>2. CodeRows'
    BY <1>2, <2>1 DEF ExchangeCut, CodeRows
  <2> QED BY <1>2, <2>2 DEF ExchangeCut, Fault, TokenRows, ChargeRows
<1>3. ASSUME NEW c \in Codes, NEW right \in BOOLEAN, Exchange(c, right) PROVE IInv'
  <2>1. CodeRows'
    BY <1>3, ExchangeGood, ExchangeRefused
  <2>2. TokenRows'
    <3>1. CASE Good(c, right)
      BY <1>3, <3>1, ExchangeGood, TokenStored, ShopAssumption DEF Tokens
    <3>2. CASE ~Good(c, right)
      BY <1>3, <3>2, ExchangeRefused DEF TokenRows
    <3> QED BY <3>1, <3>2
  <2> QED BY <1>3, <2>1, <2>2 DEF Exchange, ChargeRows
<1>4. ASSUME NEW d \in Direct, Grant(d) PROVE IInv'
  <2>1. TokenRows'
    BY <1>4, TokenStored, ShopAssumption DEF Grant, Tokens
  <2> QED BY <1>4, <2>1 DEF Grant, CodeRows, ChargeRows
<1>5. ASSUME NEW s \in Seeded, NEW shop \in Shops, SeedToken(s, shop) PROVE IInv'
  <2>1. TokenRows'
    BY <1>5, TokenStored DEF SeedToken, Tokens
  <2> QED BY <1>5, <2>1 DEF SeedToken, CodeRows, ChargeRows
<1>6. ASSUME NEW t \in Tokens, Subscribe(t) PROVE IInv'
  BY <1>6, SubscribeRows DEF Subscribe, CodeRows, TokenRows
<1>7. ASSUME NEW t \in Tokens, Purchase(t) PROVE IInv'
  BY <1>7, PurchaseRows DEF Purchase, CodeRows, TokenRows
<1>8. ASSUME NEW t \in Tokens, SubscribeCut(t) PROVE IInv'
  BY <1>8, SubscribeCutRows DEF SubscribeCut, Fault, CodeRows, TokenRows
<1>9. ASSUME NEW id \in 1 .. MaxCharges, Confirm(id) PROVE IInv'
  BY <1>9, ConfirmRows DEF Confirm, CodeRows, TokenRows
<1>10. ASSUME NEW t \in Tokens, NEW id \in 1 .. MaxCharges, Cancel(t, id) PROVE IInv'
  <2>1. ChargeRows' /\ caller' \in Shops
    BY <1>10, CancelRows DEF Cancel, TokenRows
  <2> QED BY <1>10, <2>1 DEF Cancel, CodeRows, TokenRows
<1>11. CASE Tick
  <2>1. CodeRows'
    BY <1>11 DEF Tick, CodeRows
  <2> QED BY <1>11, <2>1 DEF Tick, TokenRows, ChargeRows
<1>12. CASE Reset
  BY <1>12, ResetIInv
<1>13. CASE UNCHANGED vars
  BY <1>13 DEF vars, CodeRows, TokenRows, ChargeRows
<1> QED BY <1>1, <1>2, <1>3, <1>4, <1>5, <1>6, <1>7, <1>8, <1>9, <1>10, <1>11, <1>12, <1>13 DEF Next

LEMMA Invariance == Spec => []IInv
<1>1. Init => IInv
  BY InitIInv
<1>2. IInv /\ [Next]_vars => IInv'
  BY NextIInv
<1> QED BY <1>1, <1>2, PTL DEF Spec

\* Every variable keeps its type, and no purchase leaves PENDING.
THEOREM TypeCorrect == Spec => []TypeOK
<1>1. IInv => TypeOK
  BY DEF IInv, CodeRows, TokenRows, ChargeRows, TypeOK
<1> QED BY <1>1, Invariance, PTL

\* Over either medium and after any crash, a charge that is active can be
\* cancelled by its gid.
THEOREM ActiveChargesHaveGids == Spec => []ActiveIsAddressable
<1>1. IInv => ActiveIsAddressable
  <2> SUFFICES ASSUME IInv, NEW id \in DOMAIN charges, charges[id].status = "ACTIVE"
               PROVE  charges[id].gid = "final"
    BY DEF ActiveIsAddressable
  <2>1. charges[id] \in Charge
    BY DEF IInv, ChargeRows
  <2> QED BY <2>1 DEF IInv, ChargeRows, Charge
<1> QED BY <1>1, Invariance, PTL

-----------------------------------------------------------------------------
(* The codes implement SingleUse                                            *)

LEMMA InitPromise == Init => Promise!Init
BY DEF Init, Promise!Init, Phase

LEMMA AuthorizeIssues ==
  ASSUME IInv, NEW c \in Codes, Authorize(c)
  PROVE  Promise!Issue(c)
<1>1. /\ c \notin issued /\ issued' = issued \cup {c} /\ granted' = granted /\ now' = now
      /\ DOMAIN codes' = DOMAIN codes \cup {c} /\ codes'[c] = now
      /\ \A d \in DOMAIN codes : codes'[d] = codes[d]
  BY AuthorizeRows DEF Authorize, IInv
<1>2. granted[c] = 0 /\ now \in Nat /\ Lifetime \in Nat
  BY <1>1, BoundAssumption DEF IInv, CodeRows
<1>3. Phase(c) = "unissued"
  BY <1>1 DEF Phase
<1>4. Phase(c)' = "open"
  <2>1. Fresh(c)'
    BY <1>1, <1>2 DEF Fresh
  <2> QED BY <1>1, <1>2, <2>1 DEF Phase
<1>5. ASSUME NEW d \in Codes, d # c PROVE Phase(d)' = Phase(d)
  <2>1. d \in DOMAIN codes' <=> d \in DOMAIN codes
    BY <1>1, <1>5
  <2>2. d \in DOMAIN codes => (Fresh(d)' <=> Fresh(d))
    BY <1>1 DEF Fresh
  <2> QED BY <1>1, <1>5, <2>1, <2>2 DEF Phase
<1> QED BY <1>1, <1>3, <1>4, <1>5 DEF Promise!Issue

LEMMA ExchangeRedeems ==
  ASSUME IInv, NEW c \in Codes, NEW right \in BOOLEAN, Exchange(c, right), Good(c, right)
  PROVE  Promise!Redeem(c)
<1>1. /\ granted' = [granted EXCEPT ![c] = @ + 1] /\ issued' = issued /\ now' = now
      /\ codes' = Without(codes, c)
  BY ExchangeGood DEF IInv, Exchange
<1>2. DOMAIN codes' = DOMAIN codes \ {c} /\ \A d \in DOMAIN codes' : codes'[d] = codes[d]
  BY <1>1 DEF Without
<1>3. /\ c \in DOMAIN codes /\ Fresh(c) /\ c \in issued
      /\ granted \in [Codes -> Nat] /\ granted[c] = 0
  BY DEF Good, IInv, CodeRows
<1>4. Phase(c) = "open"
  BY <1>3 DEF Phase
<1>5. Phase(c)' = "spent"
  <2>1. granted'[c] > 0
    BY <1>1, <1>3
  <2> QED BY <1>1, <1>2, <1>3, <2>1 DEF Phase
<1>6. ASSUME NEW d \in Codes, d # c PROVE Phase(d)' = Phase(d)
  <2>1. d \in DOMAIN codes' <=> d \in DOMAIN codes
    BY <1>2, <1>6
  <2>2. d \in DOMAIN codes => (Fresh(d)' <=> Fresh(d))
    BY <1>1, <1>2, <2>1 DEF Fresh
  <2>3. granted'[d] = granted[d]
    BY <1>1, <1>3, <1>6
  <2> QED BY <1>1, <2>1, <2>2, <2>3 DEF Phase
<1> QED BY <1>1, <1>4, <1>5, <1>6 DEF Promise!Redeem

\* A step that grants nothing, as time passes and rows go: some codes are lost.
LEMMA RowsGo ==
  ASSUME IInv, UNCHANGED <<issued, granted>>, now' \in Nat, now' >= now,
         DOMAIN codes' \subseteq DOMAIN codes, \A d \in DOMAIN codes' : codes'[d] = codes[d]
  PROVE  Promise!Next
<1> DEFINE lost == {c \in Codes : Phase(c) = "open" /\ Phase(c)' # "open"}
<1>1. ASSUME NEW c \in DOMAIN codes
      PROVE  c \in issued /\ granted[c] = 0 /\ granted'[c] = 0 /\ codes[c] \in Nat
  BY <1>1 DEF IInv, CodeRows
<1>2. ASSUME NEW c \in lost PROVE Phase(c)' = "lost"
  <2>1. c \in DOMAIN codes /\ c \in issued'
    BY <1>2 DEF Phase
  <2> QED BY <1>1, <1>2, <2>1 DEF Phase
<1>3. ASSUME NEW c \in Codes \ lost PROVE Phase(c)' = Phase(c)
  <2>1. CASE c \notin DOMAIN codes
    BY <2>1 DEF Phase
  <2>2. CASE c \in DOMAIN codes /\ Fresh(c)
    <3>1. Phase(c) = "open"
      BY <1>1, <2>2 DEF Phase
    <3> QED BY <1>3, <3>1
  <2>3. CASE c \in DOMAIN codes /\ ~Fresh(c)
    <3>1. c \in DOMAIN codes' => ~Fresh(c)'
      BY <1>1, <2>3, BoundAssumption DEF Fresh, IInv, CodeRows
    <3>2. Phase(c) = "lost" /\ Phase(c)' = "lost"
      BY <1>1, <2>3, <3>1 DEF Phase
    <3> QED BY <3>2
  <2> QED BY <2>1, <2>2, <2>3
<1>4. Promise!Lose(lost)
  <2>1. \A c \in lost : Phase(c) = "open" /\ c \in Codes
    OBVIOUS
  <2> HIDE DEF lost
  <2> QED BY <1>2, <1>3, <2>1 DEF Promise!Lose
<1>5. lost \in SUBSET Codes
  OBVIOUS
<1> HIDE DEF lost
<1> QED BY <1>4, <1>5 DEF Promise!Next

LEMMA NextPromise == IInv /\ [Next]_vars => [Promise!Next]_Promise!codeVars
<1> SUFFICES ASSUME IInv, [Next]_vars PROVE [Promise!Next]_Promise!codeVars
  OBVIOUS
<1> USE DEF codeVars
<1>0. now \in Nat /\ now >= now /\ now + 1 \in Nat /\ now + 1 >= now
  BY DEF IInv, CodeRows
<1>1. CASE UNCHANGED <<codes, issued, granted, now>>
  BY <1>0, <1>1, RowsGo
<1>2. ASSUME NEW c \in Codes, Authorize(c) PROVE Promise!Next
  BY <1>2, AuthorizeIssues DEF Promise!Next
<1>3. ASSUME NEW c \in Codes, NEW right \in BOOLEAN, Exchange(c, right) PROVE Promise!Next
  <2>1. CASE Good(c, right)
    BY <1>3, <2>1, ExchangeRedeems DEF Promise!Next
  <2>2. CASE ~Good(c, right)
    <3>1. (codes' = codes \/ codes' = Without(codes, c)) /\ UNCHANGED <<issued, granted, now>>
      BY <1>3, <2>2, ExchangeRefused DEF IInv
    <3>2. DOMAIN codes' \subseteq DOMAIN codes /\ \A d \in DOMAIN codes' : codes'[d] = codes[d]
      BY <3>1 DEF Without
    <3> QED BY <1>0, <3>1, <3>2, RowsGo
  <2> QED BY <2>1, <2>2
<1>4. ASSUME NEW c \in Codes, ExchangeCut(c) PROVE Promise!Next
  <2>1. DOMAIN codes' \subseteq DOMAIN codes /\ \A d \in DOMAIN codes' : codes'[d] = codes[d]
    BY <1>4 DEF ExchangeCut, Consumed, Without
  <2>2. UNCHANGED <<issued, granted, now>>
    BY <1>4 DEF ExchangeCut
  <2> QED BY <1>0, <2>1, <2>2, RowsGo
<1>5. CASE Reset
  <2>1. DOMAIN codes' \subseteq DOMAIN codes /\ \A d \in DOMAIN codes' : codes'[d] = codes[d]
    BY <1>5 DEF Reset, NoRows
  <2>2. UNCHANGED <<issued, granted, now>>
    BY <1>5 DEF Reset
  <2> QED BY <1>0, <2>1, <2>2, RowsGo
<1>6. CASE Tick
  <2>1. codes' = codes /\ UNCHANGED <<issued, granted>> /\ now' = now + 1
    BY <1>6 DEF Tick
  <2> QED BY <1>0, <2>1, RowsGo
<1>7. ASSUME NEW x, NEW y, Grant(x) \/ SeedToken(x, y) PROVE UNCHANGED <<codes, issued, granted, now>>
  BY <1>7 DEF Grant, SeedToken
<1>8. ASSUME NEW t, NEW id, Subscribe(t) \/ Purchase(t) \/ SubscribeCut(t) \/ Confirm(id) \/ Cancel(t, id)
      PROVE  UNCHANGED <<codes, issued, granted, now>>
  BY <1>8 DEF Subscribe, Purchase, SubscribeCut, Confirm, Cancel
<1>9. CASE UNCHANGED vars
  BY <1>1, <1>9 DEF vars
<1> QED BY <1>1, <1>2, <1>3, <1>4, <1>5, <1>6, <1>7, <1>8, <1>9 DEF Next

\* An authorization code is issued once and exchanged at most once, and a
\* code that is spent, too old or lost with its row is never good again.
THEOREM ShopCodesSingleUse == Spec => CodesAreSingleUse
<1>1. Init => Promise!Init
  BY InitPromise
<1>2. IInv /\ [Next]_vars => [Promise!Next]_Promise!codeVars
  BY NextPromise
<1> QED BY <1>1, <1>2, Invariance, PTL DEF Spec, CodesAreSingleUse, Promise!Spec

-----------------------------------------------------------------------------
(* What a step may never do                                                 *)

\* Crashes, resets and restarts are counted.
LEMMA FaultCounts ==
  ASSUME faults \in Nat, NEW c, NEW t, ExchangeCut(c) \/ SubscribeCut(t) \/ Reset
  PROVE  faults' # faults
<1>1. Fault
  BY DEF ExchangeCut, SubscribeCut, Reset
<1> QED BY <1>1 DEF Fault

\* A fresh code goes with the exchange that grants its token, or with a fault:
\* attempts with wrong credentials, or on other codes, leave it alone.
THEOREM FailuresSpendNothing == Spec => OnlyAnExchangeSpends
<1>1. ASSUME IInv, [Next]_vars, NEW c \in DOMAIN codes, Fresh(c), c \notin DOMAIN codes'
      PROVE  granted'[c] = granted[c] + 1 \/ faults' # faults
  <2>1. c \in Codes /\ granted \in [Codes -> Nat]
    BY <1>1 DEF IInv, CodeRows
  <2>2. codes' # codes
    BY <1>1
  <2>3. ASSUME NEW d \in Codes, NEW right \in BOOLEAN, Exchange(d, right) PROVE granted'[c] = granted[c] + 1
    <3>1. codes' = Without(codes, d) /\ d = c
      <4>1. codes' = codes \/ codes' = Without(codes, d)
        BY <2>3 DEF Exchange, CodesAfter, Consumed
      <4> QED BY <1>1, <4>1 DEF Without
    <3>2. Good(d, right)
      BY <1>1, <2>2, <2>3, <3>1 DEF Exchange, CodesAfter, Good
    <3> QED BY <2>1, <2>3, <3>1, <3>2 DEF Exchange
  <2>4. ASSUME NEW d \in Codes, Authorize(d) PROVE FALSE
    BY <1>1, <2>4, AuthorizeRows DEF IInv
  <2>5. ASSUME NEW d, ExchangeCut(d) \/ Reset PROVE faults' # faults
    BY <1>1, <2>5, FaultCounts DEF IInv
  <2>6. ASSUME NEW x, NEW y, Grant(x) \/ SeedToken(x, y) PROVE FALSE
    BY <2>2, <2>6 DEF Grant, SeedToken, codeVars
  <2>7. ASSUME NEW t, NEW id, Subscribe(t) \/ Purchase(t) \/ SubscribeCut(t) \/ Confirm(id) \/ Cancel(t, id)
        PROVE  FALSE
    BY <2>2, <2>7 DEF Subscribe, Purchase, SubscribeCut, Confirm, Cancel, codeVars
  <2>8. ~(Tick \/ UNCHANGED vars)
    BY <2>2 DEF Tick, vars, codeVars
  <2> QED BY <1>1, <2>3, <2>4, <2>5, <2>6, <2>7, <2>8 DEF Next
<1>2. IInv /\ [Next]_vars
        => [\A c \in DOMAIN codes : Fresh(c) /\ c \notin DOMAIN codes' =>
              granted'[c] = granted[c] + 1 \/ faults' # faults]_vars
  BY <1>1
<1> QED BY <1>2, Invariance, PTL DEF Spec, OnlyAnExchangeSpends

\* A new row leaves the others as they were.
LEMMA AppendAdvances ==
  ASSUME charges \in Seq(Charge), NEW row \in Charge, charges' = Append(charges, row)
  PROVE  \A id \in DOMAIN charges : charges'[id] = charges[id]
BY Appended

\* A status that is set advances its row if the row allows it.
LEMMA StatusAdvances ==
  ASSUME charges \in Seq(Charge), NEW id \in DOMAIN charges,
         NEW status \in {"ACTIVE", "CANCELLED"},
         charges' = [charges EXCEPT ![id].status = status],
         Advances(charges[id], [charges[id] EXCEPT !.status = status])
  PROVE  \A i \in DOMAIN charges : Advances(charges[i], charges'[i])
<1>1. /\ charges'[id] = [charges[id] EXCEPT !.status = status]
      /\ \A i \in DOMAIN charges \ {id} : charges'[i] = charges[i]
  BY StatusSet
<1>2. Advances(charges[id], charges'[id])
  BY <1>1
<1>3. ASSUME NEW i \in DOMAIN charges \ {id} PROVE Advances(charges[i], charges'[i])
  BY <1>1, <1>3 DEF Advances
<1> QED BY <1>2, <1>3

\* Without a fault a charge goes from PENDING to ACTIVE to CANCELLED and never
\* back, the last step by a call of the shop it belongs to.
THEOREM ChargesGoForward == Spec => ChargesAdvance
<1>1. ASSUME IInv, [Next]_vars, faults' = faults
      PROVE  \A id \in DOMAIN charges : Advances(charges[id], charges'[id])
  <2> USE DEF codeVars, chargeVars
  <2>1. charges \in Seq(Charge) /\ TokenRows /\ faults \in Nat
    BY <1>1 DEF IInv, ChargeRows
  <2>2. CASE charges' = charges
    BY <2>2 DEF Advances
  <2>3. ASSUME NEW t \in Tokens, Subscribe(t)
        PROVE  \A id \in DOMAIN charges : Advances(charges[id], charges'[id])
    <3>1. FinishedRow(tokens[t]) \in Charge /\ charges' = Append(charges, FinishedRow(tokens[t]))
      BY <2>1, <2>3, RowTypes DEF Subscribe, TokenRows
    <3> QED BY <2>1, <3>1, AppendAdvances DEF Advances
  <2>4. ASSUME NEW id \in 1 .. MaxCharges, Confirm(id)
        PROVE  \A i \in DOMAIN charges : Advances(charges[i], charges'[i])
    <3>1. id \in DOMAIN charges /\ charges[id].status = "PENDING"
          /\ charges' = [charges EXCEPT ![id].status = "ACTIVE"]
      BY <2>4 DEF Confirm, Confirmable
    <3>2. Advances(charges[id], [charges[id] EXCEPT !.status = "ACTIVE"])
      BY <3>1 DEF Advances
    <3> QED BY <2>1, <3>1, <3>2, StatusAdvances
  <2>5. ASSUME NEW t \in Tokens, NEW id \in 1 .. MaxCharges, Cancel(t, id)
        PROVE  \A i \in DOMAIN charges : Advances(charges[i], charges'[i])
    <3>1. id \in DOMAIN charges /\ charges[id].status = "ACTIVE" /\ charges[id].shop = tokens[t]
          /\ charges' = [charges EXCEPT ![id].status = "CANCELLED"] /\ caller' = tokens[t]
      BY <2>5 DEF Cancel, Cancellable
    <3>2. Advances(charges[id], [charges[id] EXCEPT !.status = "CANCELLED"])
      BY <3>1 DEF Advances
    <3> QED BY <2>1, <3>1, <3>2, StatusAdvances
  <2>6. ASSUME NEW c, NEW t, ExchangeCut(c) \/ SubscribeCut(t) \/ Reset PROVE FALSE
    BY <1>1, <2>1, <2>6, FaultCounts
  <2>7. ASSUME NEW x, NEW y, Authorize(x) \/ Exchange(x, y) \/ Grant(x) \/ SeedToken(x, y) \/ Purchase(x)
        PROVE  charges' = charges
    BY <2>7 DEF Authorize, Exchange, Grant, SeedToken, Purchase
  <2>8. Tick \/ UNCHANGED vars => charges' = charges
    BY DEF Tick, vars
  <2> QED BY <1>1, <2>2, <2>3, <2>4, <2>5, <2>6, <2>7, <2>8 DEF Next
<1>2. IInv /\ [Next]_vars
        => [faults' = faults => \A id \in DOMAIN charges : Advances(charges[id], charges'[id])]_vars
  BY <1>1
<1> QED BY <1>2, Invariance, PTL DEF Spec, ChargesAdvance
=============================================================================
