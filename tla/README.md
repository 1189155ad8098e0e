# TGDEX catalogue server: a TLA+ model

The catalogue server (datakaveri/tgdex-catalogue-server) keeps metadata *items* (AI models, data
banks, apps) in an Elasticsearch index and offers an HTTP API to create, change, read, delete,
search, count and list them. It is a Vert.x program: handlers are chains of asynchronous
continuations, services talk over the event bus, two instances of every verticle run in one JVM.
This directory models the item API and the discovery API with the Elasticsearch service below
them, the server's deployment, keys and shutdown, its catalogue cache, and the rating moderator
beside it. It checks the models with TLC, and proves with TLAPS, for every value of the constants,
the safety invariants and action properties that the passing runs check: of the item API, the
discovery API, the statuses of items, the server's start and shutdown, the cache and the moderator.

The code modelled is Java and Python. The repository's only JavaScript file,
`docs/redoc.standalone.js`, is a vendored bundle and no part of the system.

## The system

Java sources are under `src/main/java/org/cdpg/dx/`.

| Component | State it keeps | Operations | Interacts with |
|---|---|---|---|
| Item API (`tgdex/item`) | none of its own; a chain of continuations per request | POST, PUT, DELETE, GET item | Elasticsearch service (event bus); reads `ElasticsearchResponse.totalHits` |
| Discovery API (`tgdex/search`, `tgdex/list`, `common/request`) | none of its own | POST search, search/myassets, count, list | the same; also reads `ElasticsearchResponse.aggregations` |
| Query decoder and decorators (`database/elastic/model`) | none (pure) | build the query: criteria, text, access policy, exclusion of unpublished items, pages | called by the APIs |
| Elasticsearch service (`database/elastic/service`) | the **static fields** `totalHits` and `aggregations`, one pair per JVM | search, single search, bulk index, existence check, update, delete | Elasticsearch (asynchronous client, its own threads) |
| Elasticsearch (external) | the item index: the live documents, and the view of the last refresh | | |
| Router (`tgdex/apiserver`) | timers of pending requests (408 after 100 s) | start, OpenAPI validation, failure handler | controllers |
| Authentication (`auth`) | static `jwtAuth`, a refresh timer | init, periodic refresh of the JWKS keys, token check | Keycloak |
| Catalogue cache (`catalogue`) | two Guava caches | hourly refresh, fetch by id, provider owner | another catalogue server; no caller today |
| Data broker, auditing (`databroker`, `auditing`) | two RabbitMQ clients | publish, publish an audit log after a response | RabbitMQ |
| Deployer (`deploy`) | list of modules left, latches | recursive deployment, graceful shutdown | Vert.x, every verticle |
| Rating moderation (`src/main/profanity-check-sdk`, Python) | a queue position | consume, judge, update by search | RabbitMQ, Elasticsearch |
| Size statistics (`pythonscript`) | none | periodic batch | Elasticsearch |

What makes it hard:

* **Shared statics.** The number of hits of a search and the aggregations are not part of a
  service reply. The callback of the Elasticsearch client stores them in static fields; the
  continuation that needs them reads the statics later, on another thread. Every other search of
  the JVM comes between.
* **Check by search, act by id.** Creations, updates and deletions check the index by a search,
  which sees the last refresh, and then act on the live document.
* **Calls that outlive their request.** The event bus gives up after 30 s and the client is told
  of a failure; the call itself is not cancelled and may take effect later.
* **Exceptions in callbacks.** They leave promises uncompleted: only the 30 s of the event bus or
  the 100 s of the router end the request.
* **Answers out of order.** Refreshes of the catalogue cache overlap with fetches and with each
  other; several instances of the API server start at once and share two static fields.
* **Acknowledged before it is handled.** The rating moderator's messages are gone from the broker
  when they are delivered.

For each component, what makes it correct: the item API must not overwrite, duplicate or delete what
it did not mean to, must tell the truth about what it did, and must not publish or hide an item by an
update; the discovery API must answer with what its own query found and show no private or foreign
item beyond what its query can tell apart; the Elasticsearch service must not bring deleted documents
back; every request must be answered; services must be up before their callers, keys must be
refreshed, the shutdown hook must wait for the right thing and end; a caller of the cache must get the
answer to its own call and the cache must catch up; a rating must be judged, with its own verdict, or
its loss be explained. `PROJECT.json` lists the components and every hazard with its line.

## Modules

| Module | Models |
|---|---|
| `ItemStore` | the abstract promise: each write takes effect at most once, in one step; what the client is told of it is true |
| `ItemService` | the item API, the item operations of the Elasticsearch service, the index and its refresh; the discovery API only as one more reader and writer of `totalHits` |
| `ItemServiceInv` | the inductive invariant |
| `ItemServiceProof` | the theorems about types, creations, answers and the refinement |
| `ItemEvidenceProof` | the theorems about updates, deletions and reads |
| `MCItemService` | bodies and initial indexes for TLC |
| `SearchService` | the discovery API and `search` of the Elasticsearch service; the item API only as one more writer of `totalHits` and of the index |
| `MCSearchService` | forms of bodies and indexes for TLC |
| `PublishStatus`, `MCPublishStatus` | the two statuses that make searches show an item, across creations, updates that look the item up by name, approvals and uploads |
| `ServerStart`, `MCServerStart` | `Deployer`, the start of the API server's instances, the signing keys of `JwtAuthProvider`, the shutdown hook |
| `CatalogueCache` | the two caches of `CatalogueServiceImpl` and the calls of `CatalogueClientImpl` |
| `Moderation`, `MCModeration` | the rating moderator, its broker and its container |
| `SearchServiceProof`, `PublishStatusProof`, `ServerStartProof`, `CatalogueCacheProof`, `ModerationProof` | the theorems about these components, each with its inductive invariant |

`ItemService` and `SearchService` share the statics and the index; each contains the other one's
effect on them as an action (`ReceiveSearch` ... `SearchItems`; `ItemSearchCallback`,
`IndexChanges`), so neither assumes that it runs alone.

### ItemService

A request `r` has its input in `req[r]`, its place in `pc[r]`, its latest call to the
Elasticsearch service in `call[r]` and its answer in `resp[r]`. One action is one continuation:
it runs on an event loop without interruption, reads the reply (and `totalHits`), and issues the
next call or answers.

* POST: `ReceiveWrite` (name lookup issued; an ill-formed id is answered 400 at once while the
  lookup goes on) - `NameChecked` (refused, or the id lookup issued) - `CreateItem` (refused, or
  the bulk request issued) - `WriteAcknowledged`.
* PUT: `ReceiveWrite` - `NameChecked` - `UpdateItem` - in the service `EsExists`, `EsUpdate` -
  `WriteAcknowledged`.
* DELETE: `ReceiveDelete` - `DeleteTestMany`, `DeleteTestFew` (two reads of the static, two
  steps) - `WriteAcknowledged`.
* GET: `ReceiveGet` - `GetItem` (404, the ownership check, or the null source that hangs the
  chain) - `RequestTimedOut` if hung.
* Anywhere: `CallFailed`, and `CallTimedOut` while the call itself lives on.
* Service: `EsSearch` (Elasticsearch evaluates the query on `visible`), then `EsSearchCallback`
  (another thread, later: stores the static and replies); `EsIndex`, `EsExists`, `EsUpdate`,
  `EsDelete` act on `docs`; `EsFails`; `Refresh(i)` copies a document to `visible`.

A document is its type, name, whether it is private, one link (for resourceGroup, provider,
resourceServer, cos), owner, and the request that wrote it (for the fields that matter to no
decision). The name lookup's match on `type` is modelled as equality: the standard analyzer
keeps `adex:AiModel` one token and there are three types. Bodies are taken to parse
(`ItemFactory`); one that does not is refused before any write. Operations by id are realtime in
Elasticsearch; refreshes are per document, a superset of what shards do. Ids sent by clients are
any ids; a generated UUID is one of those nobody else uses.

Three history variables serve the properties only: `effect[r]` (the request changed the index),
`intruded[r]` (another search's callback stored the static after the request's own and before it
was read) and `standing[r]` (documents whose visible version has not changed since `r` arrived).

### SearchService

`ReceiveSearch`, `ReceiveCount` and `ReceiveList` are the handlers with every early end: search
and myassets swallow what the request builder throws (`hung`), count and list answer 400. Criteria
that the decoder cannot translate (`Undecodable`: a range without its two values) are a bad request
to search, myassets and count and a server error to list, like a list without filter or criteria.

Two clauses of the query depend on the index and not only on the code. `OwnedBy` is the `MATCH` on
`ownerUserId`, which the repository's `cat_mappings.json` declares as analysed text: it finds the
owners whose id shares a token with the caller's (`Alike`), at least himself. `Hidden` is the exclusion
of items that are not uploaded or published; it has an effect only on an index that maps the two
statuses (`StatusMapped`), which the repository's mapping, with `"dynamic": "false"`, does not. Both
are constants: the runs take an index of either kind, and the theorems hold for any.

`EsSearch` evaluates the query: any subset of the
permitted, not hidden documents (text and criteria are data), any page of the right size of it
(the ranking is Elasticsearch's), the aggregations asked for. `EsSearchCallback` stores the
statics as `options` decides. `SearchAnswered` and `AggregationsAnswered` build the response
from the reply and the statics. `intruded[r]` is as above, for the static `r` reads.

### PublishStatus

A closer look at one thing `ItemService` leaves out. A request's body carries the statuses as
`absent`, `no` or `yes`; `NameFound` and `NameNotFound` are the two continuations of
`validateAiModel` and `validateDataBank` (the same code twice), which complete the body; the write
stores it whole (`Written`) or in part (`Merged`). The lookup reads `visible`, the write changes
`docs`. The tests on the static number of hits are a free choice here (`HitsTested`), as are
failures. `Approve` and `Upload` are the services outside the repository that write the statuses.
A client may send both statuses itself (the request schemas of `docs/openapi.yaml` allow additional
properties, and GET returns the statuses): a creation and an update whose lookup finds an item
overwrite them, an update whose lookup finds none writes them as they came. `approved`, `borrowed` and
`sent` are history: an id is borrowed when an update of it took the published status over from another
item of the name in the body, and sent when the body of such an update without a namesake published it.

### ServerStart

`Begin`, `ModuleDeployed` and `ModuleFails` are `main` and `recursiveDeploy` (both variants: they
differ in how a module's configuration is found). A module is whether it is the API server, and
whether it has a configuration and the flag `isWorkerVerticle`: the deployer unboxes the latter,
and the repository's example configuration lacks it for most modules. In non-clustered mode that
exception ends the main thread before the hook is registered (`hook = "never"`). Each instance of
the API server has its event loop: `StartInstance` returns with the key request under way;
`Stored` puts the keys in the static; `Returned` reads it back, which is what `refresh()` returns and
may be what another event loop has stored since; `Initialised` tests `refreshTimerId`; `ArmTimer` sets
it without looking again; `Listen` creates the handlers with the keys returned. `Tick` and `Refreshed`
are the timer. `Terminate` is the begin of `gracefulShutdown`; the process halts when the hook
returns, which it does after the first latch whether or not that is open.

### CatalogueCache

One event loop runs all handlers, so each continuation is one step, with one exception that is
modelled: an entry may expire between the two lookups of a hit (`Hit`, answer `null`). A call to the
other server ends served, without `"results"`, or failed; the last two include everything that
makes a handler throw (`Dropped`: the caller waits for the event bus timeout). An item is the
version that was read. A request is forgotten after its answer and may come again (`Forget`), so
`Requests` bounds how many there are at once and not how many there are.

### Moderation

`Deliver` is the broker, which sends all it has without waiting (`auto_ack`, no prefetch limit);
`Callback`, `SearchPending`, `UpdateHit` and `CallbackDone` are one call of the callback. A message
that is not JSON, or has no comment, ends the process (`CallbackRaises`), as does any failure
(`Crash`); `Down` is what is lost with it. `Alike` is the match query on `ratingID`, an analysed
field: ids that share a token are found together. A search returns a page of them (`Page`; the code
asks for no size, so Elasticsearch's default of 10 holds, here `MaxHits`), and which ones is left open,
since it is a matter of scores.

## Runs

| Run | Shows | Bounds | States, time |
|---|---|---|---|
| `item_create` | `IndInv`; creations respect names and ids; answers tell the effect; `ItemStore` is implemented; every request is answered | 2 requests (create, delete, get, search), 2 ids, 1 user, 1 name, fairness | 166 k, 60 s |
| `item_change` | `IndInv`; updates, deletions and reads act on what they found; private items; nothing but a creation creates; `ItemStore` is implemented | 2 requests (update, delete, get), 2 ids, 2 users, 2 names, 4 initial indexes with links | 514 k, 70 s |
| `search` | private and foreign documents are shown to none but owners alike; aggregations are the caller's own | 2 requests of all four operations, 3 users (2 alike), 2 indexes without statuses, 4 forms of bodies | 1.1 M, 60 s |
| `search_pages` | items that are not ready are hidden; totals and paging | 2 requests, 4 documents (one not ready) with statuses, window 2, sizes and pages 1 and 2 | 1.4 M, 80 s |
| `status` | publications are explained; approvals and uploads are lost only as stated | 2 requests, 2 ids, 2 names, 3 initial indexes, bodies without statuses or with both | 1.5 M, 40 s |
| `start` | services before servers; a timer runs; the latch; the hook ends; servers come up | 5 plans of 2 modules, 2 instances, 2 keys, fairness | 304 k, 70 s |
| `cache` | own answers; not found is true; older only if overtaken; the cache catches up | 1 caller at a time, 2 refreshes, 1 id, 2 versions, fairness | 398 k, 50 s |
| `moderation` | verdicts are own; pending is accounted for; every rating judged | 3 ratings (one alike to both others), 2 hits a search, 1 bad message, 1 crash, fairness | 296 k, 45 s |
| `get_race` | *violated*: 404 means the item is absent | 2 requests | |
| `delete_other` | *violated*: what is deleted is the id | 1 request | |
| `count_stale` | *violated*: a count is the count of what was found | 2 requests | |
| `keys_stale` | *violated*: a server that goes on listening takes new keys | 1 plan, 2 instances, 2 keys, fairness | |

Why the bounds are enough. Items and searches: a property relates one request to at most one other
(the intruder, the competing writer) and to at most two documents (the two hits of a deletion, an item
and its namesake), and the second request is arbitrary, arrives at any time and may do any operation;
a window of two below the three documents that are shown makes the count of hits saturate and a page
end outside the window; an owner has one alike and one that is not. Statuses: a body has none or both,
since each is treated alone and the other's value decides nothing about it (all nine combinations were
checked once, in 7.6 M states). Start: the race is between two instances, the order between two
modules, and each way a plan can go wrong is one of the five. Cache: an answer is overtaken by one
other, and the two refreshes and the caller are both kinds of it; two versions make one older than the
other. Moderation: alike ratings share a verdict, and the two that are not alike do not; three are
found where two are returned; a bad message and one crash come at any time. The proofs remove the
bounds for the properties they cover. Requests are interchangeable, hence the symmetry, which is not
used where a run checks liveness.

Deadlock is checked in every run: where an instance ends, `Quiet` (the requests are answered),
`Halted` (the process has ended) or `Idle` (the consumer waits) stands for it; should something be
stuck, it is a liveness property that says so.

### Fairness

`FairSpec` assumes weak fairness of each continuation (event loops run what is queued), of
`CallTimedOut` (the delivery timeout of the event bus is a timer) and of `RequestTimedOut` (so is
the router's). Nothing is assumed of Elasticsearch, its client, or the refresh: calls may stay
unanswered for ever. Three calls of 30 s end before the 100 s of the router, so `RequestTimedOut`
is only enabled in a hung chain.

`ServerStart`: event loops run, timers fire, the hook's await has a limit, and strong fairness of
`KeysServed`: Keycloak may fail to answer any number of times but not always. `ServersComeUp`
excepts the runs in which a module or an instance fails or the process is told to end: nothing
retries those.

`CatalogueCache`: the hourly timer fires and the event loop runs; strong fairness of `Serve` for the
refreshes, as above. Nothing is assumed of callers.

`Moderation`: the process runs, its container restarts it, the broker delivers. Nothing is assumed
of Elasticsearch's refresh, so a search may always miss its rating: `EveryRatingJudged` excepts
those, and what was in the process when it ended.

### What the code does otherwise than its documents say

Three runs exhibit a difference from `docs/openapi.yaml`, and `keys_stale` one from what the server
logs; the findings in `PROJECT.json` quote the lines. Differences seen while modelling that have no
run: a search or myassets request whose body is malformed is never answered (the exception is
swallowed; the router's timeout sends 408), where the document lists a 400; PUT changes an item's
name, which line 712 says is not allowed; PUT and DELETE of a missing item are answered 400, not
the 404 of the document and the Postman collection; a list without criteria is answered 500
although line 521 calls them optional; GET, PUT, POST and DELETE of an item are not audited, because
their handlers never pass the request on to the audit handler; myassets and the access policy promise
a caller's own items ("where `ownerUserId` matches", `docs/openapi.yaml` 409-413; "Strictly match owned
items only", `AccessPolicyQueryDecorator` 32) but match an analysed field, so that items of owners whose
id shares a token with the caller's count as his; the exclusion of items that are not uploaded or
published (`QueryDecoder` 127-141) queries fields that `configs/indices-mappings/cat_mappings.json` does
not map, and excludes nothing on such an index; `gracefulShutdown` logs "All the
verticles undeployed" also when the latch timed out, and then returns, so that what it says next
("shutdown vertx", "then shut down log4j") is never reached.

Observations about the statuses, allowed by the properties as stated: an update that renames an item
to a published namesake publishes it; an update whose name lookup finds nothing writes the statuses the
client sent, and so may publish an item without an approval or take an approval or an upload back,
although the item schemas call `dataUploadStatus` "set by the server"
(`adexAiModelItemSchema.json:207`); an update without `mediaURL` of an item that has one hides it,
although the partial update keeps the URL; an update whose lookup precedes the refresh of an approval
undoes the approval.

The invariants that pass are stated with `~intruded[r]` where the code reads the static. Without
that hypothesis they fail the way `get_race` does. `CreateRespectsNames` needs it for Apps only,
`PrivateItemsToOwners`, `OnlyCreatesCreate`, `AnswersTellTheEffect`, `OnlyPermittedShown` and the
refinement do not need it at all. So these invariants do not say that the statics are safe, they say
that nothing but the statics goes wrong; the notes of `PROJECT.json` mark the hazards whose property
excepts the very thing (or, with `standing`, a document that changed under way), and `get_race` shows
what it does.

## Proofs

`ItemServiceProof` proves, for every set of requests, users, names, bodies, operations and
initial indexes and every finite set of ids (`ItemAssumption`):

* `TypeCorrect`: `Spec => []TypeOK`.
* `NamesRespected`, `IdsRespected`: `CreateRespectsNames`, `CreateRespectsIds`.
* `AnswersTrue`: `AnswersTellTheEffect`.
* `Refinement`: `Spec => ImplementsStore`.
* `Invariance`: `Spec => []IndInv`, which the others follow from.

None of these properties is inductive. `IndInv` adds: which calls a chain can have at each place
and for each operation (`IdleClean`, `ChainShape`, `CallShape`); that an effect and its call's
stage go together (`EffectShape`) and what each kind of answer excludes (`AnswerShape`); that a
reply the request alone produced still determines `totalHits` (`HitsOwn`); and the evidence a
creation carries from its two searches to its write: if its name lookup came back empty, no
document with that name has stood since (`NameEvidence`), likewise for the id (`IdEvidence`).
The evidence survives refreshes because a refresh takes a document out of `standing`. The
argument has one step per action, under it one per conjunct the action can disturb. `Refinement`
maps each step to a step of `ItemStore` or a stutter, using the invariant where a step of the
store has a guard: a refused request has had no effect, an effect happens at most once.

`PublishStatusProof` proves `TypeCorrect`, `PublicationsExplained` (`PublicationExplained`),
`ApprovalSurvives` (`ApprovalIsKept`) and `UploadSurvives` (`UploadIsKept`) for any requests, ids,
names, bodies and initial indexes; nothing is assumed of the statuses clients send. `HandlerInv` says
what the validator has made of the body at each place of the handler (`BodyShape`: a creation is
unpublished; an update has the statuses of what its lookup found, or is untouched if it found
nothing). `ApprovalInv` says that whatever a lookup saw published was approved, borrowed or sent, and
only after some approval or some client's sending it: what a handler saw may be old, but history is
never forgotten, so it stays true.

`ServerStartProof` proves `StartTypeCorrect` (`TypeOK`), `TimersRun` (`KeysAreRefreshed`),
`ServicesFirst` (`ServicesBeforeServers`) and `LatchCounts` (`LatchCountsWhatIsLeft`) for any number
of instances and any plans; `ServicesFirst` assumes that a plan names the API server at most once
(`OneApi`; with two, the instances of the first would stand for those of the second).
`TimerInv`: an instance past `init()` has found or set a timer, and a timer that was set runs until
the end. `OrderInv`: the modules before the one whose turn it is are deployed, and the API server's
turn has come when an instance has started. `LatchInv`: what the hook set out to undeploy lies before
the module whose turn it is, so what is still deployed during the shutdown does not disturb the count.

`ItemEvidenceProof` proves, under the same `ItemAssumption`, `TypesRespected` (`UpdateRespectsType`),
`LinksRespected` (`DeleteRespectsLinks`), `GetAnswersAreJustified` (`GetAnswersJustified`),
`PrivateItemsKept` (`PrivateItemsToOwners`) and `CreationsCreate` (`OnlyCreatesCreate`). `EvidenceInv`
does for the other operations what `NameEvidence` and `IdEvidence` do for creations: an update past its
search found the type it names (`TypeEvidence`), a deletion past both tests has at most one document
that stood (`LinksEvidence`; two hits make the count at least two, which needs a finite index), a read
that found nothing has no item that stood, and only an intrusion hangs it (`ReadEvidence`). It is
inductive only together with `IndInv`: `HitsOwn` says that the number a chain reads is its own,
`ChainShape` that it belongs to the search in question. `CreationsCreate` needs `IndInv` too: a bulk
request that puts a document has not taken effect before.

`SearchServiceProof` proves `TypeCorrect`, `ShownIsPermitted` (`OnlyPermittedShown`), `TotalsAreOwn`
(`TotalIsOwn`), `PagesEnd` (`PagesReachTheEnd`) and `OwnAggregations` (`AggregationsAreOwn`) for any
requests, bodies, indexes, likeness of owners, mapping of the statuses and result window and every
finite set of ids (`SearchAssumption`, which asks of `Alike` only that an id is alike to itself). `SInv`
follows one request through the service: what its search found may be shown to its caller, whatever
becomes of the index (`ShownOK`); from its callback until it reads it, the static holds its own hits or
aggregations unless another callback came between (`HitsOK`, `AggregationsOK`); and so does its answer
(`AnswerOK`). Only the step of `SearchAnswered` and `AggregationsAnswered` moves the fact from the
static to the answer; every other request's callback either leaves the static alone or intrudes.
`HasNextLemma` is the arithmetic of `PaginationInfo`: the total is rounded up to pages.

`CatalogueCacheProof` proves `TypeCorrect`, `OwnAnswers` (`OwnAnswerWins`), `NotFoundIsTrue`
(`NotFoundMeansMissing`) and the action property `NothingElseGoesBack` (`OlderOnlyIfOvertaken`) for any
callers and refreshes at once, any ids and any `MaxVersion`. `CallerInv` ties a call to its caller's
request and answer. `MissingInv`: a request that is under way while its item is absent, or found
nothing, knows that it was missing. `AgeInv`: nothing cached or found is newer than the other server's
version, and what a call found is at least as new as what is cached unless the call was overtaken; that
is what makes an older version in the cache the mark of an overtaken call.

`ModerationProof` proves `TypeCorrect`, `OnlyAlikeJudged` (`VerdictsAreOwn`) and `NothingElseIsLost`
(`PendingIsAccountedFor`) for any ratings, likeness of ids (`ModerationAssumption` asks only that an
id is alike to itself), size of a page and number of crashes. `Places`: queue, buffer and callback
hold each message at most once, and only a consuming process holds any. `HitsInv`: what was found is
alike to the message in the callback. `SubmittedInv`: what the broker or the process holds is of a
rating that exists, so that it is not submitted again and a comment handed over stays so. `JobInv`:
while the ratings found are updated, the message's own is among those left, was skipped, or is pending
no more. The last two make the property inductive across a crash between two updates.

Checked by TLC only: liveness (`EveryRequestAnswered`, `ServersComeUp`, `ShutdownEnds`,
`CacheCatchesUp`, `EveryRatingJudged`), which under fairness is outside TLAPS's reach, and the
properties that the code violates. The inductive invariants were checked by TLC on the runs' instances
before they were proved; `item_create` and `item_change` still check `IndInv`. No module uses a
recursive operator, and no theorem assumes more than the named assumptions on the constants and
`OneApi`.

## Not modelled, and the plan

Not modelled for good: the validators (nobody calls them); data broker and auditing (in this commit
nothing creates the audit log that the handler would publish, so no message is ever published); the
size statistics script (a batch on a database the server does not use); the checks of a token and its
roles, which are local tests; the translation of queries to the Elasticsearch DSL, the ranking and
the text of responses. Several JVMs in a cluster are not modelled: each has its own statics, and a
proxy could reach a service in another JVM; the deployment described in the repository runs all
verticles in one.

Next, in this order:

1. An abstract promise of the discovery API (an answer is a page and the total of one permitted result)
   that `SearchService` implements up to intrusions, checked and proved as `ItemStore` is.
2. One of the moderator: each message is handed over at most once, each rating judged at most once for
   each message that is alike.
3. The hazards that `PROJECT.json` lists without a property: the entry of the cache that expires
   between two lookups, and the order of the sort fields.
