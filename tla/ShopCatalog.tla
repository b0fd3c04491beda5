------------------------------ MODULE ShopCatalog ------------------------------
(***************************************************************************)
(* The tables that the REST and GraphQL resources, the fixtures and the web *)
(* UI of the Shopify twin share: rows with their ids and gids, the variants *)
(* and collects that refer to products, stock levels, and the webhook       *)
(* subscriptions with the id that their creation answers.                   *)
(*                                                                          *)
(* A handler runs from its first statement to its last without giving way,  *)
(* but its statements are no transaction: over a file a crash leaves what   *)
(* was done, and a constraint that fails ends a handler half-way. Ids are   *)
(* AUTOINCREMENT, and an insert that fails or does nothing uses one up all  *)
(* the same.                                                                *)
(***************************************************************************)
EXTENDS Integers, Sequences, FiniteSets

CONSTANTS
  Emails,      \* e-mail addresses of customers
  None,        \* NULL
  Collections, \* collection ids that collects name; nobody checks them
  Wanted,      \* product ids that collects name; nobody checks them either
  Pairs,       \* pairs of inventory item and location
  Amounts,     \* what stock is adjusted by and set to
  Targets,     \* pairs of topic and callback URL
  Fixtures,    \* bodies of /admin/fixtures/load: sequences of kinds and e-mails
  Samples,     \* what the UI's fixture button inserts, likewise
  MaxInserts,  \* bound on the inserts ever tried
  MaxStock,    \* bound on a level, either way
  MaxTime,     \* bound on the clock, in seconds
  MaxFaults    \* bound on resets and crashes

Kinds == {"order", "product", "customer", "item", "collection"}
Tables == Kinds \cup {"collect", "level"}

\* A row that a batch inserts, before it has its gid.
Entries == [kind : Kinds, email : Emails \cup {None}]

ASSUME DataAssumption ==
  /\ None \notin Emails /\ None \notin Int /\ None \notin Targets
  /\ Collections \subseteq Nat \ {0} /\ Wanted \subseteq Nat \ {0} /\ Amounts \subseteq Int
  /\ Fixtures \subseteq Seq(Entries) /\ Samples \in Seq(Entries)
ASSUME BoundAssumption ==
  MaxInserts \in Nat /\ MaxStock \in Nat /\ MaxTime \in Nat /\ MaxFaults \in Nat

VARIABLES
  medium,    \* what DB_PATH names: "memory" or "file"
  rows,      \* the tables with gids: a row by kind and id
  lastId,    \* sqlite_sequence of the tables
  collects,  \* the collects by id; none is ever deleted
  variants,  \* product_variants: the id in product_gid, and the product it was
  levels,    \* inventory_levels by pair; None without a row
  subscriptions, \* webhook_subscriptions by id; none is ever deleted
  now,
  inserted,  \* history: how many inserts were tried
  stock,     \* history: what a client set last and adjusted since, 0 at first
  answer,    \* history: the subscription last asked for and the id answered
  faults

gidVars == <<rows, variants>>
stockVars == <<levels, stock>>
frame == <<medium, now, faults>>
vars == <<gidVars, collects, lastId, stockVars, subscriptions, inserted, answer, frame>>

NoAnswer == [asked |-> None, id |-> 0, at |-> 0]
Empty == [i \in {} |-> None]

Init ==
  /\ medium \in {"memory", "file"}
  /\ rows = [k \in Kinds |-> Empty] /\ lastId = [t \in Tables |-> 0]
  /\ collects = Empty /\ variants = {}
  /\ levels = [p \in Pairs |-> None] /\ stock = [p \in Pairs |-> 0]
  /\ subscriptions = <<>>
  /\ now = 0 /\ inserted = 0 /\ answer = NoAnswer /\ faults = 0

-----------------------------------------------------------------------------
(* Inserting rows                                                           *)

FreedId(k) == Cardinality(DOMAIN rows[k]) + 1

\* AUTOINCREMENT: an id is not given again after its row was deleted.
NextId(k) == lastId[k] + 1

\* customers.email is UNIQUE, NULL excepted.
EmailFree(k, email) ==
  k = "customer" /\ email # None => \A i \in DOMAIN rows[k] : rows[k][i].email # email

\* The i-th insert of a batch meets no row with its e-mail, old or new.
Insertable(batch, i) ==
  /\ EmailFree(batch[i].kind, batch[i].email)
  /\ batch[i].kind = "customer" /\ batch[i].email # None =>
       \A j \in 1 .. i - 1 : batch[j].kind = "customer" => batch[j].email # batch[i].email

\* How many inserts of a batch succeed: those before the first that fails.
Done(batch) ==
  CHOOSE n \in 0 .. Len(batch) :
    /\ \A i \in 1 .. n : Insertable(batch, i)
    /\ n < Len(batch) => ~ Insertable(batch, n + 1)

OfKind(batch, k, n) == Cardinality({i \in 1 .. n : batch[i].kind = k})

\* The id that the i-th insert of a batch gets.
IdOf(batch, i) == NextId(batch[i].kind) + OfKind(batch, batch[i].kind, i) - 1

\* "filled" says that the column that a form or a PUT may leave out holds a
\* value: line_items, price, first_name, available. "born" tells a row from
\* every other that ever had its id.
RowOf(entry, gid, filled, i) ==
  [gid |-> gid, email |-> entry.email, filled |-> filled, born |-> inserted + i]

\* One INSERT (and the UPDATE of its gid) after the other, until one fails.
InsertAll(batch, gid, filled) ==
  LET n == Done(batch)
      tried == IF n < Len(batch) THEN n + 1 ELSE n
      fresh(k) == {i \in 1 .. n : batch[i].kind = k}
  IN
  /\ inserted + tried <= MaxInserts /\ inserted' = inserted + tried
  /\ rows' = [k \in Kinds |->
       [id \in DOMAIN rows[k] \cup {IdOf(batch, i) : i \in fresh(k)} |->
          IF id \in DOMAIN rows[k] THEN rows[k][id]
          ELSE LET i == CHOOSE j \in fresh(k) : IdOf(batch, j) = id
               IN RowOf(batch[i], gid, filled, i)]]
  /\ lastId' = [t \in Tables |-> lastId[t] + OfKind(batch, t, tried)]
  /\ UNCHANGED <<collects, stockVars, subscriptions, answer, frame>>

\* What createOrder, createProduct ... of the state manager insert.
OrderEntry == [kind |-> "order", email |-> None]
ProductEntry == [kind |-> "product", email |-> None]
CustomerEntry(email) == [kind |-> "customer", email |-> email]
ItemEntry == [kind |-> "item", email |-> None]
CollectionEntry == [kind |-> "collection", email |-> None]

NotRenamed(entry, filled) == InsertAll(<<entry>>, "temporary", filled) /\ UNCHANGED variants

\* The row is inserted under a temporary gid and renamed to gid://.../<id>.
TwoStep(entry, filled) == InsertAll(<<entry>>, "canonical", filled) /\ UNCHANGED variants

-----------------------------------------------------------------------------
(* Creating rows                                                            *)

CreateOrder == \E filled \in BOOLEAN : TwoStep(OrderEntry, filled)

\* Neither REST nor productCreate stores the price of a product.
CreateProduct == TwoStep(ProductEntry, FALSE)

ProductCreate == TwoStep(ProductEntry, FALSE)

CreateCustomer(email) == \E filled \in BOOLEAN : TwoStep(CustomerEntry(email), filled)

CustomerCreate(email) ==
  email # None /\ \E filled \in BOOLEAN : TwoStep(CustomerEntry(email), filled)

CreateCustomCollection == TwoStep(CollectionEntry, TRUE)

\* The forms of the UI mint a gid from the time and a random number.
UiCreate(entry, filled) == InsertAll(<<entry>>, "minted", filled) /\ UNCHANGED variants

UiCreateOrder(lineItems) == UiCreate(OrderEntry, lineItems)
UiCreateProduct(price) == UiCreate(ProductEntry, price)
UiCreateCustomer(email) == UiCreate(CustomerEntry(email), TRUE)
UiCreateItem == UiCreate(ItemEntry, TRUE)

\* POST /admin/fixtures/load gives every product a variant here.
LoadFixtures(batch) ==
  /\ InsertAll(batch, "canonical", TRUE)
  /\ variants' = variants \cup
       {[product |-> IdOf(batch, i), of |-> inserted + i] :
          i \in {j \in 1 .. Done(batch) : batch[j].kind = "product"}}

UiLoadFixtures == InsertAll(Samples, "minted", TRUE) /\ UNCHANGED variants

-----------------------------------------------------------------------------
(* Updating and deleting rows                                               *)

rowFrame == <<variants, collects, stockVars, subscriptions, inserted, answer, frame>>

\* UPDATE of every column but the gid: what is not given becomes NULL. A
\* taken e-mail fails the handler.
Update(k, id, email, filled) ==
  /\ id \in DOMAIN rows[k]
  /\ rows[k][id].email # email => EmailFree(k, email)
  /\ rows' = [rows EXCEPT ![k][id].email = email, ![k][id].filled = filled]
  /\ UNCHANGED <<lastId, rowFrame>>

\* The statements of the state manager, ...
SetOrder(id, lineItems) == Update("order", id, None, lineItems)
SetProduct(id, price) == Update("product", id, None, price)
SetCustomer(id, email, name) == Update("customer", id, email, name)
SetItem(id, available) == Update("item", id, None, available)

\* ... PUT of the REST resources, ...
UpdateOrder(id, lineItems) == SetOrder(id, lineItems)
UpdateProduct(id, price) == SetProduct(id, price)
UpdateCustomer(id, email, name) == SetCustomer(id, email, name)
UpdateItem(id, available) == SetItem(id, available)

\* ... and the edit forms, which post an empty string for a name or an amount.
UiUpdateOrder(id, lineItems) == SetOrder(id, lineItems)
UiUpdateProduct(id, price) == SetProduct(id, price)
UiUpdateCustomer(id, email) == SetCustomer(id, email, TRUE)
UiUpdateItem(id) == SetItem(id, TRUE)

Addressed(k, id) == id \in DOMAIN rows[k] /\ rows[k][id].gid # "temporary"

\* productUpdate preserves what it is not given, all but the price.
ProductUpdate(id) == Addressed("product", id) /\ SetProduct(id, FALSE)

InventoryItemUpdate(id) ==
  /\ Addressed("item", id)
  /\ \E filled \in {TRUE, rows["item"][id].filled} : SetItem(id, filled)

\* Variants and collects of a product that is deleted stay.
Delete(k, id) ==
  /\ id \in DOMAIN rows[k]
  /\ rows' = [rows EXCEPT ![k] = [i \in DOMAIN @ \ {id} |-> @[i]]]
  /\ UNCHANGED <<lastId, rowFrame>>

DeleteProduct(id) == Delete("product", id)

UiDelete(k, id) == k # "collection" /\ Delete(k, id)

-----------------------------------------------------------------------------
(* POST /collects.json                                                      *)

BornOf(id) == IF id \in DOMAIN rows["product"] THEN rows["product"][id].born ELSE None

Linking(c, p) == {i \in DOMAIN collects : collects[i].collection = c /\ collects[i].product = p}

\* ON CONFLICT DO NOTHING: a pair is linked once. Which row a repeated request
\* is answered is left out.
CreateCollect(c, p) ==
  LET new == lastId["collect"] + 1
  IN
  /\ inserted < MaxInserts /\ inserted' = inserted + 1
  /\ lastId' = [lastId EXCEPT !["collect"] = new]
  /\ collects' = IF Linking(c, p) # {} THEN collects
       ELSE [i \in DOMAIN collects \cup {new} |->
               IF i = new THEN [collection |-> c, product |-> p, of |-> BornOf(p)] ELSE collects[i]]
  /\ UNCHANGED <<gidVars, stockVars, subscriptions, answer, frame>>

\* The products that GET /products.json?collection_id=c lists.
ListedIn(c) == {p \in DOMAIN rows["product"] : Linking(c, p) # {}}

-----------------------------------------------------------------------------
(* Inventory levels                                                         *)

\* INSERT ... ON CONFLICT, which uses up an id, and what the client asked for.
Level(p, new, asked) ==
  /\ inserted < MaxInserts /\ inserted' = inserted + 1
  /\ lastId' = [lastId EXCEPT !["level"] = @ + 1]
  /\ levels' = [levels EXCEPT ![p] = new]
  /\ stock' = [stock EXCEPT ![p] = asked]
  /\ UNCHANGED <<gidVars, collects, subscriptions, answer, frame>>

Emptied(p) == 0

\* DO NOTHING: a row that exists keeps its stock.
Connected(p) == IF levels[p] = None THEN 0 ELSE levels[p]

ConnectLevel(p) == Level(p, Connected(p), stock[p])

\* An adjustment connects first, so that it finds a row to add to.
AdjustLevel(p, delta) ==
  /\ Connected(p) + delta \in -MaxStock .. MaxStock
  /\ Level(p, Connected(p) + delta, stock[p] + delta)

SetLevel(p, amount) == Level(p, amount, amount)

DeleteLevel(p) ==
  /\ levels[p] # None
  /\ levels' = [levels EXCEPT ![p] = None]
  /\ stock' = [stock EXCEPT ![p] = 0]
  /\ UNCHANGED <<gidVars, collects, lastId, subscriptions, inserted, answer, frame>>

-----------------------------------------------------------------------------
(* Webhook subscriptions                                                    *)

Same(target, subs) == {i \in DOMAIN subs : subs[i].target = target}

Oldest(target, subs) ==
  {i \in Same(target, subs) : \A j \in Same(target, subs) : subs[i].at <= subs[j].at}

\* The first of the list ordered by created_at DESC; the order within a
\* second is SQLite's choice.
Found(target, subs) ==
  {i \in Same(target, subs) : \A j \in Same(target, subs) : subs[i].at >= subs[j].at}

StoreSubscription(target) ==
  /\ inserted < MaxInserts /\ inserted' = inserted + 1
  /\ subscriptions' = Append(subscriptions, [target |-> target, at |-> now])
  /\ UNCHANGED <<gidVars, collects, lastId, stockVars, frame>>

\* webhookSubscriptionCreate
SubscribeWebhook(target) ==
  /\ StoreSubscription(target)
  /\ \E id \in Found(target, subscriptions') : answer' = [asked |-> target, id |-> id, at |-> now]

UiSubscribe(target) == StoreSubscription(target) /\ UNCHANGED answer

-----------------------------------------------------------------------------
(* Time, resets and crashes                                                 *)

Tick ==
  /\ now < MaxTime /\ now' = now + 1
  /\ UNCHANGED <<medium, gidVars, collects, lastId, stockVars, subscriptions, inserted, answer, faults>>

\* A new connection, to an empty ':memory:' database or to the file as it is.
Reopen ==
  /\ answer' = NoAnswer
  /\ IF medium = "file" THEN UNCHANGED <<gidVars, collects, lastId, stockVars, subscriptions>>
     ELSE /\ rows' = [k \in Kinds |-> Empty] /\ lastId' = [t \in Tables |-> 0]
          /\ collects' = Empty /\ variants' = {} /\ subscriptions' = <<>>
          /\ levels' = [p \in Pairs |-> None] /\ stock' = [p \in Pairs |-> 0]
  /\ UNCHANGED <<medium, now, inserted>>

Fault == faults < MaxFaults /\ faults' = faults + 1

\* POST /admin/reset and its button in the UI.
Reset == Fault /\ Reopen

\* The process ends and starts again.
Restart == Fault /\ Reopen

\* It ends between the INSERT of a row and the UPDATE of its gid.
CreateCut(k, email) ==
  /\ medium = "file" /\ Fault
  /\ email # None => k = "customer"
  /\ EmailFree(k, email)
  /\ inserted < MaxInserts /\ inserted' = inserted + 1
  /\ rows' = [rows EXCEPT ![k] = [i \in DOMAIN @ \cup {NextId(k)} |->
       IF i = NextId(k) THEN RowOf([email |-> email], "temporary", FALSE, 1) ELSE @[i]]]
  /\ lastId' = [lastId EXCEPT ![k] = NextId(k)]
  /\ answer' = NoAnswer
  /\ UNCHANGED <<variants, collects, stockVars, subscriptions, medium, now>>

-----------------------------------------------------------------------------
NullableEmails == Emails \cup {None}

Create ==
  \/ CreateOrder \/ CreateProduct \/ ProductCreate \/ CreateCustomCollection
  \/ \E email \in NullableEmails : CreateCustomer(email)
  \/ \E email \in NullableEmails : CustomerCreate(email)
  \/ \E given \in BOOLEAN : UiCreateOrder(given) \/ UiCreateProduct(given)
  \/ \E email \in NullableEmails : UiCreateCustomer(email)
  \/ UiCreateItem \/ UiLoadFixtures
  \/ \E batch \in Fixtures : LoadFixtures(batch)

Edit ==
  \E id \in 1 .. MaxInserts, given \in BOOLEAN :
    \/ UpdateOrder(id, given) \/ UiUpdateOrder(id, given)
    \/ UpdateProduct(id, given) \/ UiUpdateProduct(id, given)
    \/ \E email \in NullableEmails : UpdateCustomer(id, email, given)
    \/ \E email \in NullableEmails : UiUpdateCustomer(id, email)
    \/ UpdateItem(id, given) \/ UiUpdateItem(id)
    \/ ProductUpdate(id) \/ InventoryItemUpdate(id)
    \/ DeleteProduct(id)
    \/ \E k \in Kinds : UiDelete(k, id)

Relate ==
  \/ \E c \in Collections, p \in Wanted : CreateCollect(c, p)
  \/ \E p \in Pairs : ConnectLevel(p) \/ DeleteLevel(p)
  \/ \E p \in Pairs, a \in Amounts : AdjustLevel(p, a) \/ SetLevel(p, a)
  \/ \E target \in Targets : SubscribeWebhook(target) \/ UiSubscribe(target)

Next ==
  \/ Create \/ Edit \/ Relate
  \/ Tick \/ Reset \/ Restart
  \/ \E k \in Kinds, email \in NullableEmails : CreateCut(k, email)

Spec == Init /\ [][Next]_vars

-----------------------------------------------------------------------------
(* Properties                                                               *)

\* The tables hold what their columns admit; no id is beyond its sequence.
TypeOK ==
  /\ medium \in {"memory", "file"}
  /\ DOMAIN rows = Kinds /\ lastId \in [Tables -> 0 .. MaxInserts]
  /\ \A k \in Kinds : DOMAIN rows[k] \subseteq 1 .. lastId[k] /\ \A i \in DOMAIN rows[k] :
       rows[k][i] \in [gid : {"temporary", "canonical", "minted"}, email : NullableEmails,
                       filled : BOOLEAN, born : 1 .. inserted]
  /\ DOMAIN collects \subseteq 1 .. lastId["collect"]
  /\ \A v \in variants : v.product \in 1 .. lastId["product"] /\ v.of \in 1 .. inserted
  /\ levels \in [Pairs -> Int \cup {None}] /\ stock \in [Pairs -> Int]
  /\ \A i \in DOMAIN subscriptions : subscriptions[i].target \in Targets /\ subscriptions[i].at <= now
  /\ now \in 0 .. MaxTime
  /\ inserted \in 0 .. MaxInserts /\ faults \in 0 .. MaxFaults

\* Nothing deletes the collects and variants of a deleted product. They never
\* attach to another product: one that a collection lists, or that a variant
\* names, is the one the link was made for, whatever was deleted since, over
\* resets and restarts.
LinksKeepTheirProduct ==
  /\ \A i \in DOMAIN collects : 
       collects[i].of # None /\ collects[i].product \in ListedIn(collects[i].collection) =>
         BornOf(collects[i].product) = collects[i].of
  /\ \A v \in variants : BornOf(v.product) \in {v.of, None}

\* Where no process died between an INSERT and the UPDATE of its gid, no row
\* keeps the temporary gid that GraphQL cannot address.
GidsAreAddressable ==
  faults = 0 => \A k \in Kinds : \A i \in DOMAIN rows[k] : rows[k][i].gid # "temporary"

\* Whatever connections, adjustments, settings and deletions come in whatever
\* order, a level is what was last set plus what was adjusted since: connecting
\* it again loses nothing, and one that was deleted starts again at 0.
StockIsSum == \A p \in Pairs : levels[p] \in {None, stock[p]}

\* The id that webhookSubscriptionCreate answers is of a subscription to the
\* topic and URL that were asked for, made in the second of the request: not
\* one that a client may have made and given up before.
AnsweredNewest ==
  answer.asked \in Targets =>
    answer.id \in Same(answer.asked, subscriptions) /\ subscriptions[answer.id].at = answer.at
=============================================================================
