------------------------------ MODULE ShopInstall ------------------------------
(***************************************************************************)
(* How an app is installed on the Shopify twin and billed by it: the OAuth  *)
(* codes with their age, the access tokens, the subscriptions that a        *)
(* merchant confirms by a URL and an app cancels, the one-time purchases.   *)
(*                                                                          *)
(* All of it is rows of the database. A reset and a restart empty a         *)
(* ':memory:' database, ids included, and keep a file as it is, so that     *)
(* only over a file a crash between two statements can be seen afterwards.  *)
(* No handler awaits between its first read and its last write.             *)
(***************************************************************************)
EXTENDS Integers, Sequences

CONSTANTS
  Codes,        \* authorization codes (randomUUID never repeats)
  Direct,       \* names of the tokens granted without a code, one per call
  Seeded,       \* tokens created with POST /admin/tokens
  Shops,        \* shop domains
  OAuthShop,    \* TWIN_SHOP_DOMAIN
  None,         \* no shop
  Lifetime,     \* seconds an authorization code is good
  MaxCharges,   \* bound on the rows of each charge table
  MaxTime,      \* bound on the clock
  MaxFaults     \* bound on resets, crashes and restarts

Tokens == ({"code"} \X Codes) \cup ({"direct"} \X Direct) \cup ({"seeded"} \X Seeded)

ASSUME ShopAssumption == OAuthShop \in Shops /\ None \notin Shops
ASSUME BoundAssumption == Lifetime \in Nat /\ MaxCharges \in Nat /\ MaxTime \in Nat /\ MaxFaults \in Nat

VARIABLES
  medium,    \* what DB_PATH names: "memory" or "file"
  codes,     \* oauth_codes: created_at of each code
  tokens,    \* tokens: the shop of each token
  charges,   \* app_subscriptions by id
  purchases, \* one_time_purchases by id
  offered,   \* the ids in the confirmation URLs that merchants were sent
  now,
  issued,    \* history: the codes that were ever issued
  granted,   \* history: how often a code was exchanged
  caller,    \* history: the shop of the last call that cancelled, or None
  faults

codeVars == <<codes, issued, granted>>
chargeVars == <<charges, purchases, offered>>
vars == <<medium, codeVars, tokens, chargeVars, now, caller, faults>>

NoRows == [r \in {} |-> None]

Init ==
  /\ medium \in {"memory", "file"}
  /\ codes = NoRows
  /\ tokens = NoRows
  /\ charges = <<>> /\ purchases = <<>> /\ offered = {}
  /\ now = 0
  /\ issued = {} /\ granted = [c \in Codes |-> 0]
  /\ caller = None
  /\ faults = 0

-----------------------------------------------------------------------------
(* GET /admin/oauth/authorize and POST /admin/oauth/access_token            *)

\* INSERT: a row whose key is taken stays as it is.
Inserted(rows, key, value) ==
  [k \in DOMAIN rows \cup {key} |-> IF k \in DOMAIN rows THEN rows[k] ELSE value]

Without(rows, key) == [k \in DOMAIN rows \ {key} |-> rows[k]]

\* With a redirect URI the app gets a new code.
Authorize(c) ==
  /\ c \notin issued
  /\ issued' = issued \cup {c}
  /\ codes' = Inserted(codes, c, now)
  /\ UNCHANGED <<medium, granted, tokens, chargeVars, now, caller, faults>>

\* A code is good up to and including its last second.
Fresh(c) == codes[c] + Lifetime >= now

RowKept(c) == IF Fresh(c) THEN codes ELSE Without(codes, c)

\* consumeOAuthCode deletes the row that it found, too old or not.
Consumed(c) == Without(codes, c)

\* hasExactTwinCredentials is asked first: a wrong secret touches no code.
CodesAfter(c, right) == IF right THEN Consumed(c) ELSE codes

Good(c, right) == right /\ c \in DOMAIN codes /\ Fresh(c)

Exchange(c, right) ==
  /\ c \in DOMAIN codes
  /\ codes' = CodesAfter(c, right)
  /\ IF Good(c, right)
     THEN /\ tokens' = Inserted(tokens, <<"code", c>>, OAuthShop)
          /\ granted' = [granted EXCEPT ![c] = @ + 1]
     ELSE UNCHANGED <<tokens, granted>>
  /\ UNCHANGED <<medium, issued, chargeVars, now, caller, faults>>

\* client_credentials, refresh_token and token-exchange consume nothing: with
\* the credentials of the twin any refresh or subject token gives a new one.
Grant(d) ==
  /\ <<"direct", d>> \notin DOMAIN tokens
  /\ tokens' = Inserted(tokens, <<"direct", d>>, OAuthShop)
  /\ UNCHANGED <<medium, codeVars, chargeVars, now, caller, faults>>

\* POST /admin/tokens, for any shop; a token that exists fails the INSERT.
SeedToken(s, shop) ==
  /\ tokens' = Inserted(tokens, <<"seeded", s>>, shop)
  /\ UNCHANGED <<medium, codeVars, chargeVars, now, caller, faults>>

-----------------------------------------------------------------------------
(* appSubscriptionCreate, confirm_recurring, appSubscriptionCancel          *)

Row(shop, gid) == [shop |-> shop, gid |-> gid, status |-> "PENDING"]

TemporaryRow(shop) == Row(shop, "temporary")

\* The row is inserted under a temporary gid and renamed after its id.
FinishedRow(shop) == Row(shop, "final")

\* The answer carries the URL by which the merchant confirms.
Subscribe(t) ==
  /\ t \in DOMAIN tokens /\ Len(charges) < MaxCharges
  /\ charges' = Append(charges, FinishedRow(tokens[t]))
  /\ offered' = offered \cup {Len(charges')}
  /\ UNCHANGED <<medium, codeVars, tokens, purchases, now, caller, faults>>

\* Nothing of the twin confirms a purchase: /confirm has no route.
Purchase(t) ==
  /\ t \in DOMAIN tokens /\ Len(purchases) < MaxCharges
  /\ purchases' = Append(purchases, FinishedRow(tokens[t]))
  /\ UNCHANGED <<medium, codeVars, tokens, charges, offered, now, caller, faults>>

ConfirmableAgain(row) == row.status # "ACTIVE"

Confirmable(row) == row.status = "PENDING"

\* A merchant follows a URL, an old one or one used before included.
Confirm(id) ==
  /\ id \in offered /\ id \in DOMAIN charges /\ Confirmable(charges[id])
  /\ charges' = [charges EXCEPT ![id].status = "ACTIVE"]
  /\ UNCHANGED <<medium, codeVars, tokens, purchases, offered, now, caller, faults>>


Cancellable(row, shop) == row.shop = shop /\ row.status = "ACTIVE"

Cancel(t, id) ==
  /\ t \in DOMAIN tokens /\ id \in DOMAIN charges /\ Cancellable(charges[id], tokens[t])
  /\ charges' = [charges EXCEPT ![id].status = "CANCELLED"]
  /\ caller' = tokens[t]
  /\ UNCHANGED <<medium, codeVars, tokens, purchases, offered, now, faults>>

-----------------------------------------------------------------------------
(* Time, resets, crashes and restarts                                       *)

Tick ==
  /\ now < MaxTime /\ now' = now + 1
  /\ UNCHANGED <<medium, codeVars, tokens, chargeVars, caller, faults>>

Fault == faults < MaxFaults /\ faults' = faults + 1

\* POST /admin/reset, or a restart: the codes, tokens and charges of a file
\* stay; the URLs are in the hands of merchants either way.
Reset ==
  /\ Fault
  /\ IF medium = "file" THEN UNCHANGED <<codes, tokens, charges, purchases>>
     ELSE codes' = NoRows /\ tokens' = NoRows /\ charges' = <<>> /\ purchases' = <<>>
  /\ UNCHANGED <<medium, issued, granted, offered, now, caller>>

\* The process dies between the statements of an exchange ...
ExchangeCut(c) ==
  /\ medium = "file" /\ Fault
  /\ Good(c, TRUE) /\ codes' = Consumed(c)
  /\ UNCHANGED <<medium, issued, granted, tokens, chargeVars, now, caller>>

\* ... or of appSubscriptionCreate, which answers nobody.
SubscribeCut(t) ==
  /\ medium = "file" /\ Fault
  /\ t \in DOMAIN tokens /\ Len(charges) < MaxCharges
  /\ charges' = Append(charges, TemporaryRow(tokens[t]))
  /\ UNCHANGED <<medium, codeVars, tokens, purchases, offered, now, caller>>

-----------------------------------------------------------------------------
Next ==
  \/ \E c \in Codes : Authorize(c) \/ ExchangeCut(c)
  \/ \E c \in Codes, right \in BOOLEAN : Exchange(c, right)
  \/ \E d \in Direct : Grant(d)
  \/ \E s \in Seeded, shop \in Shops : SeedToken(s, shop)
  \/ \E t \in Tokens : Subscribe(t) \/ Purchase(t) \/ SubscribeCut(t)
  \/ \E id \in 1 .. MaxCharges : Confirm(id)
  \/ \E t \in Tokens, id \in 1 .. MaxCharges : Cancel(t, id)
  \/ Tick
  \/ Reset

Spec == Init /\ [][Next]_vars

-----------------------------------------------------------------------------
(* Properties                                                               *)

Charge == [shop : Shops, gid : {"temporary", "final"}, status : {"PENDING", "ACTIVE", "CANCELLED"}]

\* Every variable has its type, and no purchase ever leaves PENDING.
TypeOK ==
  /\ medium \in {"memory", "file"}
  /\ DOMAIN codes \subseteq issued /\ \A c \in DOMAIN codes : codes[c] \in 0 .. now
  /\ DOMAIN tokens \subseteq Tokens /\ \A t \in DOMAIN tokens : tokens[t] \in Shops
  /\ charges \in Seq(Charge)
  /\ purchases \in Seq(Charge) /\ \A i \in DOMAIN purchases : purchases[i].status = "PENDING"
  /\ offered \subseteq Nat
  /\ now \in Nat
  /\ issued \subseteq Codes
  /\ granted \in [Codes -> Nat]
  /\ caller \in Shops \cup {None}
  /\ faults \in Nat

\* An authorization code is exchanged at most once and never after its last
\* second, whatever attempts, ticks, resets and crashes come in between
\* (consumeOAuthCode deletes the row before it looks at its age).
Phase(c) ==
  IF c \notin issued THEN "unissued"
  ELSE IF granted[c] > 0 /\ c \notin DOMAIN codes THEN "spent"
  ELSE IF c \in DOMAIN codes /\ Fresh(c) THEN "open" ELSE "lost"

Promise == INSTANCE SingleUse WITH phase <- [c \in Codes |-> Phase(c)], grants <- granted
CodesAreSingleUse == Promise!Spec

\* A fresh code is taken away only by the exchange that grants its token, or
\* by a fault: an attempt with wrong credentials leaves it to its app.
OnlyAnExchangeSpends ==
  [][\A c \in DOMAIN codes :
       Fresh(c) /\ c \notin DOMAIN codes' => granted'[c] = granted[c] + 1 \/ faults' # faults]_vars

\* Without a fault no token is lost and a charge only ever goes from PENDING
\* to ACTIVE to CANCELLED, by a confirmation that came first and by a call of
\* the shop that owns it: an old URL does not revive a cancelled charge, and
\* an app cannot cancel the charge of another shop.
Advances(old, new) ==
  \/ old = new
  \/ old.status = "PENDING" /\ new = [old EXCEPT !.status = "ACTIVE"]
  \/ old.status = "ACTIVE" /\ new = [old EXCEPT !.status = "CANCELLED"] /\ caller' = old.shop
ChargesAdvance ==
  [][faults' = faults => \A id \in DOMAIN charges : Advances(charges[id], charges'[id])]_vars

\* Every charge that is listed as active has the gid by which it is cancelled,
\* also after a crash between the INSERT and the UPDATE: the half-made row is
\* never active, for nobody was sent its URL.
ActiveIsAddressable ==
  \A id \in DOMAIN charges : charges[id].status = "ACTIVE" => charges[id].gid = "final"
=============================================================================
