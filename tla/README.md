# A verification project for the Sandpiper digital twins

This directory models the core of `sandpiper-dtu`: two "digital twins", servers that imitate the
Shopify Admin API and the Slack Web API closely enough to run an app's tests against, and the
framework that compares a twin with the real service. The modules are TLA+, model-checked with TLC
on small instances, and proved about with TLAPS. Paths below are relative to the repository.

`PROJECT.json` holds the same information for tools: the components, the runs with their
properties, the lines every definition is translated from (`map`), for each checked property one
plausible slip in the code that breaks it (`mutants`; the operators they use stand in the modules
under comments that begin "A slip"), the disagreements met between the code and its own words
(`findings`), the hazards and the theorems.

## 1. The system

### Inventory

| Component | State | Operations | What makes it correct |
|---|---|---|---|
| Webhook queue, `packages/webhooks/src/webhook-queue.ts` | `pending` map of jobs with a timer each; the closures of attempts in flight | `enqueue`, `scheduleAttempt`, `executeAttempt`, `drain`, `shutdown`, `size` | a delivery is posted at most `retryDelays.length` times and ends delivered or dead-lettered; no timer leaks; sync mode never retries |
| Dead letter store, `packages/webhooks/src/dead-letter.ts` | table `dead_letter_queue`, statements prepared once on a shared connection | `add`, `list`, `get`, `remove`, `clear` | a row is a job that used up its attempts; retrying or restarting loses nothing unseen |
| Shopify GraphQL endpoint, `twins/shopify/src/plugins/graphql.ts`, `services/rate-limiter.ts`, `services/query-cost.ts` | a bucket (`available`, `lastRefill`) for each token | cost of a document, `tryConsume` before, `refund` after `yoga.fetch`, `reset` | capacity, bounded overdraft, no free points, an honest `Retry-After` |
| Shopify mutations, `schema/resolvers.ts`, `services/order-lifecycle.ts` | the tables | order, product, customer, fulfillment, inventory mutations, each followed by `enqueueWebhooks` | an order goes through its stages once; every change is announced to every subscription |
| State manager, `packages/state/src/state-manager.ts`, with REST, UI and fixtures | SQLite tables: products with variants, customers, orders, collections, collects, inventory items and levels, subscriptions | one method per statement; `init`, `reset`, `close` | rows can be addressed by their gid; links keep to what they name; stock adds up |
| Shopify OAuth and billing, `plugins/oauth.ts`, `resolvers.ts`, `plugins/admin.ts` | codes and tokens; charges | authorize, exchange; create, confirm, cancel | a code yields one token and does not outlive its age; a charge advances in order, by its own shop |
| Lists, `plugins/rest.ts`, `services/cursor.ts`, `web-api/conversations.ts`, `users.ts` | none: a cursor names a row | pages in both directions | following the cursors reads every row that stays, once |
| Slack chat methods, `plugins/web-api/chat.ts` | table `slack_messages` | `chat.postMessage`, `meMessage`, `update`, `delete` | only author and channel may change a message; a deleted one stays deleted |
| Slack event dispatcher, `services/event-dispatcher.ts` | the loops under way | `dispatch`, not awaited by its callers | each subscription gets each event once |
| Slack interactions, `services/interaction-handler.ts` | map `responseUrls` | trigger, response URL with follow-up, replace, delete | a URL is honoured five times within thirty minutes |
| Slack workspace, `state/slack-state-manager.ts` with `conversations`, `reactions`, `pins`, `views`, UI, fixtures | nine tables without a foreign key; the counter of `id-generator.ts` | Web API methods, forms, fixtures, reset | uniqueness, no collateral loss, a `ts` names one message |
| Slack OAuth, rate limiter, scopes | map `issuedCodes`; tokens; windows of a minute | authorize, access; the checks before every method | codes are single-use and bound; scopes are those granted; the limit holds |
| Conformance framework, `packages/conformance` | fixtures on disk; what tests leave on the service | `run` in three modes, `record`, normalise, compare | no false alarm, no drift reported green, the service is left clean |
| UI kit, types, example twin, SDK surface tools | none beyond a call | render, inventory | (not modelled) |

### How the parts interact

* **Calls.** Plugins call the state manager synchronously (better-sqlite3); resolvers call
  `WebhookQueue.enqueue` and await it; the GraphQL plugin surrounds the resolvers with the limiter;
  Slack handlers check token, scope and rate window, then act, and call `dispatch` without awaiting it.
* **Shared state.** Both twins keep one SQLite connection. The dead letter store prepares its
  statements on that connection in its constructor; `POST /admin/reset` closes it and opens
  another. GraphQL, REST, UI and fixtures work on the same tables by different paths.
* **Concurrency.** There is one thread. A handler runs alone until it awaits a POST, a GraphQL
  execution or a timer; then others run, and it goes on with what it read before. Modules of this
  project therefore take one action per stretch of code between two such awaits. Handlers that
  await nothing that leaves the process (OAuth, REST, billing, the Slack methods besides their
  dispatches) are one action, split only where a crash can fall between two statements over a file.
* **Failure.** POSTs fail or time out; retries are timed; the process can be closed, crash or be
  restarted, with the tables in memory (default) or in a file (`DB_PATH`): a reset empties the
  tables of a memory database and keeps those of a file. A constraint that fails ends a handler
  half-way. In the conformance framework every call of an adapter can throw.

### What is hard

The hazards are listed with their lines in `PROJECT.json`. The main ones are: attempts in flight
while the queue is drained, reset or closed; the dead letter store on a closed connection; refunds
computed from a level read before an await; rows inserted under a temporary gid and renamed by a
second statement; links that outlive the product they name; authorization codes and confirmation
URLs that are retried, expire or survive a reset; a fan-out that awaits one receiver after another;
dispatches that run beside resets; a `ts` drawn twice over a restart; cursors that name a row which
is gone; and a conformance run whose set-up or teardown fails half-way.

## 2. Plan

All modules of the plan are built.

| # | Modules | Subject | Abstract specification |
|---|---|---|---|
| 1 | `WebhookQueue`, `PackagesProofs` | queue and dead letter store with the endpoints that act on them | `DeliveryPromise`: bounded tries, final outcomes |
| 2 | `LeakyBucket`, `LeakyBucketProofs`, `QueryCost` | rate limiter and the handler around it; what a request costs | `ThrottlePolicy`: an eagerly restored budget |
| 3 | `OrderWebhooks`, `OrderWebhooksProofs` | order mutations and the fan-out of their webhooks | `OrderStages`: the life of an order |
| 4 | `SlackEvents`, `SlackEventsProofs` | messages, dispatcher and response URLs | `EventFeed`: once to each subscriber |
| 5 | `SlackAccess`, `SlackAccessProofs` | Slack's OAuth, tokens, scopes and rate windows | `SingleUse`: a code yields at most one exchange |
| 6 | `ShopInstall`, `ShopInstallProofs` | Shopify's OAuth and billing | `SingleUse` |
| 7 | `ShopCatalog`, `ShopCatalogProofs` | the tables of the shop by every path that writes them | - |
| 8 | `SlackWorkspace`, `SlackWorkspaceProofs` | the tables of the workspace by every path that writes them | - |
| 9 | `Ranking`, `Paging`, with proofs in `SlackWorkspaceProofs` | sorting; walks through the lists of both twins | - |
| 10 | `JsonBody`, `Comparator`, `Conformance`, with proofs in `PackagesProofs` | the conformance framework | - |

Left for later: composing `OrderWebhooks` with `WebhookQueue` at `enqueue` and `SlackEvents` with
`SlackWorkspace` over the messages they share (today each takes the other as an environment that
may answer in any way); and the dead letter endpoints of the Slack twin, which repeat those of the
Shopify twin.

## 3. The modules

### WebhookQueue (core)

A *job* is a `WebhookJob`; `attempt`, `pending` and `timer` are its counter, the keys of the map and
the armed timers. `inflight` is the set of jobs whose `executeAttempt` awaits the POST: it is no
variable of the class but the closures that keep running when the map is cleared. `dlq` is the
table, `storeOpen` whether the store's prepared statements still belong to an open connection.
`origin`, `posts`, `delivered` and `excused` are history.

Actions: `Enqueue` (with `scheduleAttempt` and, if the delay is 0, the start of the attempt, all in
one stretch), `TimerFires`, `Succeed`, `Fail` (the whole catch branch: count, bury or schedule
again, rethrow in sync mode), `Drain`, `DlqRetry`, `DlqRemove`, `DlqClear`, `Reset`, `Close`,
`Restart`. `retryDelays` is a constant sequence, the empty one included, and `timeScale` 0 makes
every delay 0, as in the code.

`DeliveryPromise` sees each delivery as new, owed, orphaned (an attempt goes on though the job was
given up), delivered, dead or gone, with the number of tries. `WebhookQueue` implements it under
the mapping `status`.

### LeakyBucket and QueryCost

`available` and `lastRefill` are those of `BucketState`; amounts are in units of
1/1000 point (`Second` milliseconds a second, `RestoreRate` units a millisecond), so the arithmetic
is exact. `Admit` is the handler up to `yoga.fetch` with `snapshot` the `currentlyAvailable` it
keeps; `Throttle` the answer 429 with its `Retry-After`; `Finish` the refund and the report after
the fetch; `FinishUncredited` the paths without a refund; `Reset` and `Tick`.
`ThrottlePolicy` restores budgets at every tick; the lazily refilled bucket implements it with
`budget <- Refilled(k)`.

`QueryCost` is `calculateQueryCost` over the selections of a document (only the innermost page size
multiplies) and `computeActualCost` over the connections of an answer. `MCLeakyBucket` takes the
costs of its run from three documents, and its assumption `CostAgreement` evaluates the costs of
nested pages and checks that what an answer leaves of a cost is one of the refunds `LeakyBucket`
considers.

### OrderWebhooks

A *handler* is one GraphQL mutation. `busy` is the handler on the event loop, `pc` where a handler
is, `topics` and `rest` what its fan-out has still to do. The statements of a mutation are separate
actions only where a crash may fall between them (`setGid`, `setFulfilled`); no other handler gets
in there, because `busy` holds the loop. `Deliver`, `Resume` and `Answer` are the loop of
`enqueueWebhooks`, which in sync mode awaits each POST and is left at the first failure.
`due` and `announced` are history. `Reset` and `Crash` empty the tables of a memory database and
leave those of a file. `OrderStages` is the life cycle that `order-lifecycle.ts` states.

### SlackEvents

A message is identified with its `ts`. `rows` and `edited` are the table of messages, `subs` the
event subscriptions; `posting` and `waiting` are the loop of each dispatch that is under way;
`responseUrls` is the map of `InteractionHandler`. `PostMessage` creates the row and begins the
dispatches up to their first fetch; `FetchEnds` goes on to the next interested subscription whatever
was answered. `UseUrl` is `handleResponseUrl` with its three outcomes, `RefuseUrl` the call that
finds its URL spent or expired and forgets it. `EventFeed` states what a subscriber sees.

### SlackAccess and ShopInstall

`issuedCodes` of `SlackAccess` is the map in the closure of the OAuth plugin, which a reset leaves
and a restart loses; `tokens` and `authedUser` are rows. `Access` is `oauth.v2.access` with its
checks of client, redirect URI and secret in order, the insert that keeps a row already there and
the team and user it writes first. A call of a method is one action per order of checks: most methods
check scopes before the rate window, some look at the token first, the stubs have fixed answers.
`windows` are the limiter's fixed windows; `passed` is history, for each age the number of calls let
through that are no older, so that bursts across two windows can be counted.

`ShopInstall` keeps codes in a table with `created_at`; an exchange selects, deletes and only then
looks at the age, and over a file a crash can fall between the deletion and the token. `charges` are
`app_subscriptions` with a temporary gid until the second statement. `offered` are the ids in
confirmation URLs that merchants hold, over resets that give the same ids to other charges.
HMAC and JWT checks are outcomes that the caller brings.

`SingleUse` says of a code that it is unissued, open or spent, with the number of its grants; both
modules implement it (`CodesAreSingleUse`), with `phase` mapped from the map or from the rows and
their age.

### ShopCatalog

`rows` holds the tables that have gids (products, customers, orders, inventory items, collections),
each row with the kind of its gid, and `lastId` their AUTOINCREMENT sequences. `Create` and its
variants insert under a temporary or a minted gid and rename, by GraphQL, REST, fixtures
(`LoadFixtures`, entry by entry until one fails) and the UI; a UNIQUE e-mail ends the handler with
what was written before. `collects` and `variants` refer to products by id and gid, and remember in
history which product they meant. `levels` change by `Connect`, `Adjust`, `Set` and deletion, while
`stock` is history of what a client set last and adjusted since. `SubscribeWebhook` answers the id it finds by topic and
URL in the list ordered by a timestamp in seconds.

### SlackWorkspace

One variable per table. Each call is an action under the name of its method or form; the many that
write one column go through `UpdateChannel`. `messages` maps a `ts`, a pair of second and counter,
to its channel. `counter` is the module variable of `id-generator.ts`: `Reset` leaves it, `Restart`
begins it anew beside the rows of a file. `Inserted` is the loop over fixture messages that stops at
the first `ts` that is taken. Direct channels have the sorted list of their users as id, sorted as
in `Ranking`: the k-th element is the one that k - 1 others precede, which is what `sort()` and
`ORDER BY` answer whatever algorithm they use.

### Paging

A walk of one client: `at` is the cursor of its next request, `rows` the table it reads anew with
each. `FirstPage`, `NextPage`, `PreviousPage`, `TurnBack` and `SwitchApi` are the client (REST links
and GraphQL cursors name the same ids); `InsertRow`, `DeleteRow` and `RenameRow` everybody
else. The arithmetic of a limit that came as text (joining its digits to a number multiplies the
number by a power of ten, the limit's `Shift`), the filters of the first REST request which later links
drop, and the base64 cursor of `conversations.history` are as in the code.

### Comparator and Conformance

`JsonBody` builds JSON trees; `Comparator` is the normaliser (strip, sort and normalise the paths of
a suite, with `*`) and both comparisons over them. `Conformance` is `run` and `record` as a process with a fresh twin and
a service that stays: `plan` is what is left of a test in the order of the code (set-up on twin and
service, operation, judgement, teardown), `Throw` a call of an adapter that fails before or after
its effect and so skips the rest. Twin and service keep things with different ids, dates and orders;
`drift` is a way in which the twin's answers differ.

The two comparisons are constants of `Conformance`, `ByValue` and `ByStructure`. `MCConformance` gives
them `CompareResponses` and `CompareResponsesStructurally` of `Comparator`; the proofs, which could
not reason about the recursion in there, only use what is asked of a comparison and of a suite:

* `SuiteAssumption`: a suite is a sequence of tests with ids of their own;
* `TidySuite`: a test removes what it makes, on either side; `SharedSetup`: its setup is in a schema
  that both understand; `PathsDiffer`: no two tests share a fixture file;
* `Hiding(T)`: between targets of T that keep the same things, under whatever ids, the answers of a
  faithful twin and of the service are the same for the comparison;
* `Discerning(T)`: between any targets of T, a drifting list differs from all that the service answers.

### MC modules

They only define values for constants and, for the bucket, a symmetry set and `CostAgreement`.
`MCConformance` also assumes `SuiteIsTidy`, `ComparatorHides` and `ComparatorDiscerns`, so that TLC
evaluates what the theorems ask of a suite and of the comparator of the code, the latter over targets
that keep any of the things under ids in either order.

## 4. The runs

| Run | Question | Bounds | Result |
|---|---|---|---|
| `queue` | Does the queue keep its promise with retries, drains, resets, close and restart in any order, in both modes? | 3 jobs, 3 attempts (two immediate, one timed), 1 reset, 1 restart, file | `NoStrandedJob`, `NoSilentLoss`, `PromiseSafety`, `PromiseKept` hold; 110k states |
| `queue_reset_leak` | Does `size` count jobs in flight? | 2 jobs, 1 reset | **violated** |
| `bucket` | Are overdraft, budget and `Retry-After` kept by overlapping requests? | 1 key, 2 requests, costs 0, 1 and 4 over a capacity of 3, 5 ticks, 1 reset | `OverdraftBounded`, `RetryAfterSuffices`, `BudgetKept`, `ImplementsPolicy` hold; 100k states |
| `orders` | Do overlapping mutations announce every change, fulfil once and end, with crashes between statements? | 1 order, 2 handlers, 3 subscribers, both modes, memory and file, 1 crash, 1 reset | `FulfilledOnce`, `ChangesAnnounced`, `LifecycleKept`, `MutationsEnd` hold; 208k states |
| `slack_events` | Do dispatches, deletions, response URLs and a reset keep out of each other's way? | 2 messages, 2 subscriptions, 1 URL of 2 uses, 1 tick, 1 reset | `UrlBounded`, `DeletedStaysDeleted`, `FeedKept`, `EveryAppServed` hold; 188k states |
| `slack_access` | Are codes single-use, scopes those granted, users there for the tokens, bursts bounded? | 2 codes, a registered and an unregistered client, 3 methods, limit 2, window 2 over 3 ticks, 1 reset or restart | `ServedWithinScope`, `TokensHaveUsers`, `BurstBounded`, `CodesAreSingleUse` hold; 421k states |
| `shop_install` | Are codes single-use over expiry and crashes, do charges advance by their owner? | 2 codes of a lifetime of 1 over 3 ticks, 2 shops, 2 charges, 1 reset, crash or restart, memory and file | `ActiveIsAddressable`, `CodesAreSingleUse`, `ChargesAdvance` hold |
| `shop_catalog` | Do rows, links, levels and subscriptions stay consistent by whichever path they are written? | 3 inserts over all tables, 1 e-mail, 1 level, 1 tick, 1 reset, crash or restart, memory and file | `LinksKeepTheirProduct`, `GidsAreAddressable`, `StockIsSum`, `AnsweredNewest` hold; 277k states |
| `slack_workspace` | Is anything lost, doubled or refused that should not be? | 2 users, 2 ids, 4 calls, 2 posts, 2 seconds, memory and file | `OneDirectPerGroup`, `RefusedOnlyByRestart`, `NoCollateralLoss`, `MessagesStay` hold; 468k states |
| `paging` | Does a client that follows the cursors read every row that stays, once? | lists of 0, 2 and 5 rows, pages of 1 and 2, 3 edits, up to 6 rows | `PagesTypeOK`, `EachOnce`, `NothingSkipped`, `WalkEnds` hold; 893k states |
| `history_cursor` | The same of `conversations.history` | lists of 2 and 3, no edit | **violated** |
| `conformance` | Can a faithful twin fail or a drifting one pass, and what is left behind? | 5 tests, 2 things, 6 drifts, 3 sessions, 1 throw | `SessionTypeOK`, `NoFalseAlarm`, `GreenMeansFaithful`, `EveryTestJudged`, `ServiceLeftClean` hold; 131k states |

Why the bounds are enough: the properties quantify over single jobs, keys, orders, codes, rows or
events, and what these share is small. Three jobs let a dead letter be retried by a job that is
itself dead-lettered and retried again while a third is untouched; two requests make every overlap
of charge and refund, and a cost above the capacity overdraws in one step; buckets of different keys
share only the clock and the reset. Two handlers give every overlap of two mutations on one order;
three subscribers give a topic with two receivers, so that the first can fail before the second.
One mention begins two dispatches over two subscriptions with different interests. Two codes let one
be good while the other is spent or expired, and a window of two ticks over four instants has a
border with calls on both sides. Three inserts make a product, a link and a further product that
could take the link over; two charges let a URL outlive its charge. Four calls let two users react,
one channel or message go, and the database be reopened. Pages of one and two over five rows put the
row of the cursor at every place, with three edits on either side of it. Three sessions record,
leave something behind by a throw, and compare. One reset, crash or restart reaches every place a
second one would, since each leaves a state the model can also reach afresh, except for what the
history records. The theorems below need none of these bounds.

Deadlock is not checked where the instance really may stop: the queue is closed with no restart left,
a clock or the number of calls, edits, inserts or sessions is at its bound, all jobs or messages are
used up, or a crash left the only order half made. That is so in every run.

### Fairness

* Queue: a POST ends, because of `AbortSignal.timeout`, and an armed timer goes off. Nothing is
  promised about operators: nobody has to drain, retry or restart. Under this, `PromiseKept`: every
  owed job is settled, unless the twin is reset, after which the store may be broken.
* Orders: the handler on the event loop runs on (weak), and an answer that waits in the loop's
  queue is taken in turn though other handlers run in between (strong, because each of them
  disables it for a while). Under this, `MutationsEnd`.
* Slack: every fetch ends after five seconds at the latest (weak). Under this, `EveryAppServed`.
* Paging: a client that asked for a page goes on to ask for the next one (weak). Under this,
  `WalkEnds`. The edits of others are not fair and are bounded.
* The other modules need none.

### Disagreements with the repository's own words

Shown by a run:

* `queue_reset_leak`: after `POST /admin/reset` a final failure throws inside `deadLetterStore.add`,
  so the entry is neither dead-lettered nor in flight, and `size` counts it for ever.
* `history_cursor`: `next_cursor` of `conversations.history` is base64 and is compared with `ts` as
  it is, so that following it answers the first page for ever.

Met while reading, and modelled as the code has it:

* `drain` says "without moving to DLQ", but an attempt already in flight still dead-letters its job.
* The "currentlyAvailable after refund" (`graphql.ts:470`) is computed from the level before the
  await, and can exceed what the bucket holds.
* A negative page size (`query-cost.ts:130`) makes a negative cost, which fills a bucket beyond its
  "maximum capacity"; the theorems on the limiter assume costs are not negative.
* "All subscriptions" (`resolvers.ts:82`) are not served in sync mode once one fails.
* The "guaranteed clean slate" of a reset is none if `DB_PATH` names a file.
* `createCollect` promises "the row ID or existing ID", but for a duplicate `lastInsertRowid`
  (`state-manager.ts:1333`) is that of the last insert on the connection, whatever its table.
  `productUpdate` clears the price, "preserving existing values" (`resolvers.ts:670`) of four columns.
* A filtered REST list drops its filters in the next link (`rest.ts:95`); a limit of 0 or less is
  taken as it is (`rest.ts:191`).
* Slack's token endpoint accepts a client id it does not know without a secret; a retry of
  `openid.connect.token` ends in a UNIQUE failure (`new-families.ts:101`); `reactions.get` lists the
  reactions of a `ts` whatever the channel (`reactions.ts:77`).
* The conformance comparator's header says that extra keys of the baseline are acceptable and that
  only the first element of a list is compared; the code compares all of both. The report's total
  counts a test twice when its teardown throws, and `record()` sends `operation` where live mode
  sends `liveOperation`. Two test ids can share a fixture file once sanitised (`fixture-store.ts:61`).

## 5. The theorems

All are checked by TLAPS, for every value of the constants that the named assumptions allow: any
finite or infinite set of jobs, requests, codes, rows, messages or things, any suite and any bounds. Every theorem but
`DirectChannelsAreUnique`, which is about ids, is by an inductive invariant and one lemma for
each action; refinements add one step per action.

* **The queue, in PackagesProofs.** `TypeCorrect`, `NoTimerOutlivesItsEntry`, `EntriesAreCarried`,
  `SettledForGood`, `SyncHasOneTry`, `NothingSilentlyLost`, `QueueKeepsPromise`. The invariant adds
  `Counting` (a waiting job was posted as often as it counts, one in flight once more), without
  which the bound on attempts is not inductive; `NotYet` (a job that was not created is nowhere);
  `Orphans` (an attempt outside the map was given up by a drain) and `ClosedStore` (the connection
  is only closed by a reset).
* **LeakyBucketProofs.** `TypeCorrect`, `CapacityHolds`, `OverdraftHolds`, `RetryAfterHonoured`,
  `NoFreePoints`, `LazyRefillIsEager`. Capacity, overdraft and budget assume that costs are not
  negative. The invariant says of the *stored* level what the properties say of the refilled one:
  `Balance` and `RetryEnough` at the time of the last refill, and `Charged`, that a request in
  flight was charged what it may get back.
* **OrderWebhooksProofs.** `TypeCorrect`, `FulfillmentFirst`, `OrdersFulfilledOnce`,
  `OrdersKeepTheirGid`, `EveryChangeAnnounced`, `OrdersKeepLifecycle`. The invariant describes the
  tables while a handler is `Halfway` between its statements, that without a crash nothing else is
  ever in such a state (`Whole`), and that what is due and not announced is still ahead of a handler.
* **SlackEventsProofs.** `TypeCorrect`, `UrlsAreBounded`, `DeletedForGood`, `FeedIsKept`. The
  invariants: a URL that was not issued was never honoured; no event is posted before its message
  exists; and none was posted to a subscription its dispatch still waits to post to.
* **SlackAccessProofs.** `TypeCorrect`, `ScopesAreGranted`, `UsersExist`, `FailuresSpendNothing`,
  `SlackCodesSingleUse`, `BurstsAreBounded`. The invariant knows of each code what its place says of its grants
  (`UnspentCodes`) and that the scopes of both its tokens are those asked for at the authorization
  (`TokenScopes`), whatever was inserted meanwhile. `Bursts` says of every span of ticks how many
  calls it can have seen: those of a window that is open are its count, and before it opened there
  was at most one full window, which began a whole window earlier with a call of its own.
* **ShopInstallProofs.** `TypeCorrect`, `ActiveChargesHaveGids`, `ShopCodesSingleUse`,
  `FailuresSpendNothing`, `ChargesGoForward`. `ChargeRows` says that a row with a temporary gid is
  there only over a file, which forgets no id, so that no URL ever sent can name it; without that
  a confirmation could activate it.
* **ShopCatalogProofs.** `TypeCorrect`, `NoLinkChangesProduct`, `EveryGidAddressable`,
  `LevelsAddUp`, `AnswerIsNew`. `Links` says that a link names an id that was drawn before, so that
  no product made later is given it; `Ids` that no table drew more ids than inserts were tried, which
  carries it over failed inserts.
* **SlackWorkspaceProofs.** `TypeCorrect`, `PostsAreRefusedOnlyByRestart`, `NoMessageIsReplaced`,
  `NoChannelRevives`, `CallsTakeOneRow`. `Stamped` says that the counter is beyond every message of
  the second unless the process started in it; `Channels` that every drawn id in the table counts as
  drawn, so that creating a channel writes over none. `DirectChannelsAreUnique` rests on a fact about
  sorting, `SortedIsUnique`: where two sorted lists first differ, their counts of some user differ.
* **Paging, in SlackWorkspaceProofs.** `PagesAreTypeCorrect`, `RowsComeOnce`, `NoRowIsSkipped`. These
  proofs are in that module because they begin with the same facts about `Ranking` (every element
  takes one place, and the list is in order). Each kind of page is shown to keep one `Contract`: it
  shows only what comes after its cursor, all of it if there is no further page, and otherwise all up
  to the next cursor, which is one of its rows. The invariant is then the same for all kinds: the
  rows are a `Table` with growing ids; the `Walker` holds cursors of the past; what stands was shown
  at most once and not if it is still to come (`ShownOnce`), and was shown or is still to come
  (`ShownSoFar`); a previous link goes back by no more rows than the limit (`OnePageBack`), so that
  on the way back there is a row above which all was shown and below which the next page leaves
  no gap (`ShownBack`). `RowsComeOnce` assumes that no history is read, which is the finding of
  `history_cursor`.

* **The conformance framework, in PackagesProofs.** The queue and the framework are the two packages
  with a life of their own that the twins share; their proofs stand in one module and use nothing of one another.
  `SessionsAreTypeCorrect` and `TestsAreJudged` hold for any suite, comparison and drift;
  `ServiceIsLeftClean` assumes `TidySuite`; `GreenIsEarned` assumes `Discerning` over all targets, and
  nothing of the suite; `FaithfulTwinPasses` assumes `TidySuite`, `SharedSetup`, `PathsDiffer` and
  `Hiding` over all targets. None of the properties is inductive: what a test leaves or finds depends
  on how far its plan went. So the invariant `SessionInv` says where the session is (`Queue`: the tests
  to come are the last of the suite; `Under`: the calls to come are the last of the plan), how many
  results that allows (`Room`) and which test they are of (`Tally`: none before its verdict, one
  after it, and only a teardown that threw adds the failure that makes two). `Shelved` says that,
  until a call throws, twin and service keep `Net`, what the plan has made so far and not removed;
  it needs lemmas that carry the plan, which interleaves the calls of both sides, to
  the operations of one side. `Recorded` and `Answered` say of every fixture and answer held that the side gave it, and from which state. On
  top of it `Earned` and `Fair` say of the results so far what the properties say of the report.

Proved and not run: the type invariants of the eight modules before `Paging`, `NoTimerLeak`, `SettledIsFinal`,
`SyncNeverRetries`, `WithinCapacity`, `FulfilledHasFulfillment`, `GidIsCanonical`,
`OnlyAnExchangeSpends` of both twins, and `ArchivedStays`.

Only model-checked: the liveness properties (`PromiseKept`, `MutationsEnd`, `EveryAppServed`,
`WalkEnds`), since the provers have no rules for fairness; that the recursive comparisons of `Comparator` are `Hiding` and `Discerning`,
which the run of `conformance` evaluates over the targets of its instance; and the violated properties.

## 6. What is not modelled

* The contents of requests, payloads and answers, signatures, formatting, logging.
* The HTTP servers, `packages/ui`, `packages/types`, the example twin and the SDK surface tools:
  nothing they keep outlives a call.
* In Shopify: queries, which format rows; the webhook endpoints of `rest.ts`, which answer fixed data,
  and the counter of `test-retry`; the switch of the error simulator, which only decides whether a
  mutation is answered before it changes anything; the webhooks of products, customers and inventory
  items, whose fan-out is that of the orders; parsing of gids and versions; health.
* In Slack: methods that answer without a change (join, leave, close, mark, `views.publish`, the
  stubs beyond their checks); the texts of messages and users; the dead letter endpoints, which
  repeat Shopify's; the dispatch of `POST /admin/reactions/add`; the two URLs the admin plugin stores.
* In the conformance framework: custom normalisers (no suite has one), the reporter, and adapters
  whose own init or teardown fails.
* A dispatch whose subscription holds event types that are no list of strings.
