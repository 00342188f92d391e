# Switchgear in TLA+

Switchgear is an LNURL balancer for Lightning nodes. A payer reads an *offer*
and asks for an *invoice*; the server picks one of several Lightning nodes (CLN
or LND), asks it for the invoice and returns it. Operators publish offers and
the list of nodes through two REST services. This directory models the parts of
that program that keep state, checks them with TLC on small instances and proves
the properties that matter most with TLAPS for every instance.

`PROJECT.json` holds the lists (components, runs, mutants, map from definitions
to source lines, findings, hazards, theorems). This file is the guide.

## 1. The system

| Part | State | Operations | Correct when |
|---|---|---|---|
| Discovery store (`components/src/discovery/{memory,db}.rs`) | list of nodes, one etag | `get get_all post put patch delete` | a poller told "not modified" has the current list |
| Discovery REST service and client (`service/src/discovery`, `components/src/discovery/http.rs`) | none | the same over HTTP, with timeouts | callers are told what happened to their change; pollers see acknowledged changes |
| Load-balancer discovery (`pingora/src/discovery.rs`) | last etag, cached set, client pool | `discover`, inside pingora's `update` | with one updater, what requests select from follows the stored list; each member has a client |
| Balancer and health (`pingora/src/{balance,health}.rs`) | pingora's selector, set and health table, metrics cache | `get_invoice` with retries, background service | requests end; failed nodes leave, recovered nodes return |
| gRPC clients (`components/src/pool/{cln,lnd}`) | one shared connection behind a mutex | `get_invoice get_metrics` | a broken connection is not shared; calls recover |
| Offer store (`components/src/offer/{memory,db}.rs`) | offers, metadata | `get post put delete` of both | an offer always has its metadata; callers are told what was done |
| LNURL pay service (`service/src/lnurl`, `offer/provider.rs`) | none of its own | `offer`, `invoice` | the invoice commits to what the payer was shown, within its limits, while the offer lasts |
| Server and injectors (`server/src`) | the injectors' cells, the background task, the shutdown channel | start, select, shutdown | all services share one store and one balancer; a failed start serves nobody; a signal ends the process; exit code 0 means a clean run |
| CLI (`server/src/commands`) | none | the REST calls above | see the services |

How they interact. The CLI calls the REST services through the HTTP stores. The
balancer polls the discovery store (directly, or over HTTP) with the etag of its
last answer. A change is connected, put into the client pool and installed in
pingora's selector, set and health table. Invoice requests choose from the
selector, take the number of their attempts from the set, and read table and metrics
concurrently on a multi-threaded runtime; a request that fails backs off and
meanwhile updates and checks the load balancer itself, *beside* the background
service that does the same for ever. Requests and health checks share one gRPC
connection per node. The LNURL service reads offers from the store the offer
service writes.

What is hard: several tasks run the same update; pingora replaces
selector, set and table in three steps; a read takes two statements or two locks; a caller gives up while
its request is still to be served; the memory store's process restarts; responses
are cached outside the program; time passes between the payer's two requests;
pages are cut by offset while records move; signals and failures meet the server
in every stage of its start. The list with lines is under "hazards" in `PROJECT.json`.

## 2. Modules

| Module | Models | State and actions |
|---|---|---|
| `DiscoveryBackends` | `service-api/src/discovery.rs` | the records, the patch |
| `VersionedList` | the contract of `DiscoveryBackendStore` | abstract: `Publish` changes list and etag, `Refresh` gives a client a label and a list no older than it |
| `MemoryDiscoveryStore` | `discovery/memory.rs` | one action per method (each holds the mutex throughout), `Restart` |
| `DbDiscoveryStore` | `discovery/db.rs` | mutations are transactions, `get_all` two actions; `TxnAbortsOnError` says what the database does about a failed statement |
| `DiscoveryHttp` | `discovery/http.rs`, `service/src/discovery`, CLI | extends `MemoryDiscoveryStore` with requests under way, refused, lost, abandoned, served late |
| `LnServiceDiscovery` | `pingora/src/discovery.rs`, `client_pool.rs` connect | the steps of one update per updater, with pingora's `do_update` as external steps: `BuildTable` compares the result with the set, then `SwapSelector`, `SwapBackends`, `SwapTable` store one thing each; `SameBackends` if it is the same |
| `LnBalancer` | `balance.rs`, `health.rs`, `client_pool.rs` | extends `LnServiceDiscovery` with requests, health checks, metrics, nodes going up and down |
| `LnRpcClient` | the CLN and LND clients, whose control is the same | dial under the mutex, share, call, disconnect, hang-up at each await |
| `OfferCatalog` | the contract of `OfferStore` and `OfferMetadataStore` (`service-api/src/offer.rs`) | abstract: four atomic actions, an offer written only beside its metadata, metadata removed only when unused |
| `MemoryOfferStore` | `offer/memory.rs` | lock, look, write, release, in each method's own order |
| `OfferPages` | the paged lists of `memory.rs`, their handlers and client | extends `MemoryOfferStore` with the order by `created` and one walk through the pages: `BeginWalk`, `NextPage`, `EndWalk`. The code serves one page per request; counting the offset up and putting the pages together (`walk`, `Turned`, `EndWalk`) is the outside user's |
| `DbOfferStore` | `offer/db.rs`, migration, handlers, HTTP client, CLI | one action per SQL statement; answers travel through the status tables |
| `LnUrlPay` | `lnurl/pay/handler.rs`, `provider.rs`, `partitions.rs` | extends `DbOfferStore` with clock, HTTP caches (external) and payers |
| `ServerLifecycle` | `commands/services.rs`, `main.rs`, `signals.rs`, `config.rs`, `di/` | `Start`, `Connect`, `Serve`, `EndSelect`, `Exit`, the background loop, requests in every stage, `Kill`; started again up to `MaxBoots` times |
| `MCLnUrlPay`, `MCOfferPages` | - | symmetry, and the offers submitted, of their runs |
| `VersionedList_proofs`, `DbDiscoveryStore_proofs`, `LnRpcClient_proofs`, `ServerLifecycle_proofs` | - | theorems about the module of that name |
| `DiscoveryHttp_proofs` | - | theorems about `MemoryDiscoveryStore` and `DiscoveryHttp` |
| `LnBalancer_proofs` | - | theorems about `LnServiceDiscovery` and `LnBalancer` |
| `LnUrlPay_proofs` | - | theorems about `DbOfferStore` and `LnUrlPay` |
| `OfferPages_proofs` | - | theorems about `MemoryOfferStore` and `OfferPages` |

Abstractions. A node's address, name and implementation are one value: partitions,
weight and enabled are what the code decides on. Amounts are small naturals, the
metadata of an offer is one value standing for its JSON and its hash. Capacity is
"ample" or "scarce" relative to amount and bias. A selection is any node the code
accepts; the three algorithms differ in which. Durations are left out: a backoff
is a number of retries, a timeout may strike whenever something is awaited. In
`ServerLifecycle` a request is the posting of one record and a store a place: the
instance of this process, or somewhere outside that outlives it. An `http` store
counts as outside for good: whether the remote one is in memory is not modelled.
A service's future ends only with an error there, never with `Ok(())` (the select
of `services.rs:111-122` would allow it): axum_server without a `Handle` accepts
for ever. `CleanExit`'s "only after a signal" rests on that. In `OfferPages`
two writes get different times, since `created` is read under the lock.

Composition and refinement. `DiscoveryHttp`, `LnBalancer`, `LnUrlPay` and
`OfferPages` extend the modules of the parts they call. `MemoryDiscoveryStore`
and `DbDiscoveryStore` instantiate `VersionedList` (`ImplementsVersionedList`),
`MemoryOfferStore` and `DbOfferStore` instantiate `OfferCatalog`
(`ImplementsCatalog`), the database with its rows mapped to the ids they refer to.
So the two offer stores, one with locks and one with a foreign key, are shown to be
the same thing to whoever uses the traits.

Operators named `X_something`, each under a comment `Mutant:`, are variants of
`X` with a plausible bug. No specification uses them; with `X` replaced by one,
TLC must find the property violated that `PROJECT.json` names.

## 3. Runs

| Run | Instance | Shows |
|---|---|---|
| `discovery_http` | 1 node, 1 poller, 1 operator, etag to 2, 1 restart, 1 late request | `AnswerIsEffect`, `AcknowledgedIsSeen`, `ListMatchesEtagThisBoot` |
| `db_store` | 2 nodes, 2 pollers, etag to 3 | `ListMatchesEtag`, refinement of `VersionedList` |
| `db_put_partitions` | 1 node | violation: put keeps the old partitions |
| `disc_partitions` | 1 node, 2 partitions | violation: a change of partitions alone is not installed |
| `bal_heal` | 1 node, thresholds 2, 2 flips, no request | `SettledMatchesStore`, `Converges`, `SelfHealing`, `FailedNodeLeaves`, `DroppedNodeLeaves` |
| `bal_requests` | 1 node, background service and 1 request with 1 retry, both updating, etag to 2 | `PoolCovers`, `ChosenHasClient`, `RequestsEnd`, `SetFollowsCache` |
| `bal_race_dropped` | as above, list disabled meanwhile | violation: a disabled node stays in service |
| `rpc_client` | 2 callers, 2 outages, 1 refusal | `FailedNotShared`, `OneDial`, `Recovers`, `CallsEnd` |
| `offer_pages` | 2 writers, 1 walk, 2 offers, 1 metadata, pages of 1 and 2 (3 is refused) | `OffersHaveMetadata`, `MissedExplained`, `RepeatedExplained`, refinement of `OfferCatalog` |
| `offer_deadlock` | 2 callers | violation: two calls wait for each other for ever |
| `lnurl_pay` | 2 callers, 1 payer, 4 offers, 2 texts, 2 moments | `OffersHaveMetadata`, `ToldIsDone`, `MismatchExplained`, `RefusalExplained`, `NoInvoiceOnceGone`, refinement of `OfferCatalog` |
| `lifecycle` | every enablement and configuration with memory and database stores, 2 requests, 2 boots | `AcknowledgedVisible`, `HealsWhatServes`, `NoHalfServer`, `CleanExit`, `SignalEnds` |

Why the bounds are enough. Every race here is between two parties over one row,
key or connection: two updaters, two lock holders, two statements and a writer.
One node suffices for the balancer because the code treats nodes independently
except for the choice among them, which is free in the model; two weights make
two different lists of one node. An etag bound of 2 or 3 gives "behind, equal,
and changed again". Thresholds of 2 tell a single failure from consecutive ones.
Two offers and pages of one and two give a walk with records behind it, ahead of
it and on a full and a partial page. In `lifecycle` two requests can meet the two
services that store something, or one service before and after a restart; the
order of the services is fixed by the code, so nothing is gained by more. An
`http` store behaves as a database does there: its records outlive the process.
The deadlock check is off in `lifecycle` alone, since the process stops for good
after its last boot. Every passing run also checks its module's type invariant,
except `bal_heal`: `BalTypeOK` is checked in `bal_requests` and proved. In
`lnurl_pay` the instance serves all its partitions. The largest runs (`bal_requests`, `lnurl_pay`, `offer_pages`) take two to four
minutes. `lnurl_pay` and `offer_pages` use symmetry (callers and texts, writers
and offers); they check invariants and refinements, no liveness.

Fairness, stated only where a property is about progress:
- weak fairness of a task's steps: tokio runs ready tasks, and every awaited call
  has a timeout (`LnServiceDiscovery`, `LnBalancer`, `LnRpcClient`,
  `MemoryOfferStore`);
- strong fairness of taking a lock: tokio's mutex is first come, first served;
- strong fairness of the background service's two timers, and of the answer of a
  store that is polled again and again. Without the latter no poll loop makes
  progress;
- weak fairness of start-up, of the select's signal branch, of the background
  loop and of the final join in `ServerLifecycle`: connecting ends with success
  or an error, a round of the loop ends, the main task is polled.

Nothing is assumed of payers, operators, nodes or hang-ups.

## 4. Findings

1. `db_put_partitions`: the upsert of `DbDiscoveryBackendStore::put` does not
   list `Partitions` among the columns it updates.
2. `disc_partitions`: partitions travel in `Backend.ext`, which takes no part in
   the comparison of sets, so the update is not installed.
3. `bal_race_dropped`: enablement is delivered once per list; of two concurrent
   updates the slower writes an older cache (under the newer etag), an older
   selector or an older health table over it.
4. `offer_deadlock`: `delete_metadata` takes the two locks in the opposite order.

Further facts the models show:
- at shutdown the listeners are dropped and the process ends after the background
  loop's current round, so requests under way may be cut off; this contradicts
  `server/tests/features/server-lifecycle-with-graceful-shutdown.feature`, "the
  server should complete all pending requests". In `ServerLifecycle` such a
  request ends as "lost" after exit code 0. It has no run of its own;
- with two updaters pingora's set comes to agree with the discovery cache
  (`SetFollowsCache`), the selector need not: one update may store its selector
  last and the other its set, and every later update finds the set unchanged and
  stores nothing. TLC refutes `SetFollowsCache` with `selector` for `backends` in
  the instance of `bal_requests`;
- the memory store's etag restarts at 0 with its process, so a poller of the last
  boot can be told "not modified" of a different list
  (`ListMatchesEtagThisBoot` is what does hold);
- on a database that undoes only the failed statement a row can be committed
  under the old etag; whoever wrote it is answered with an error
  (`DbUnannouncedIsError`);
- a node whose connect failed is tried again only when the list changes, for the
  etag is remembered before connecting (`skipped` in `MatchesStore`);
- a payer shown a cached response of an expiring offer may get an invoice whose
  hash does not match it (`MismatchExplained` names the case);
- a put in the memory store moves its record to the end of every listing, in the
  database it stays where it was: a walk by offset beside puts may skip records
  of the former (`MissedExplained`, `RepeatedExplained`);
- a background loop that dies is noticed by nobody until the server is told to
  stop: `CleanExit` shows that the exit code tells it then. Meanwhile requests go
  on selecting from an aging set (they update it themselves when they back off);
- `weight` is a `usize` kept in an `i32` column (`discovery/db.rs:205`), so that
  weights from 2^31 on come back changed; no module has integers of both widths;
- `PUT` of an offer may report "created" for an update, or the reverse, if
  someone else writes the row between its two statements (`ToldIsDone`).

## 5. Proofs

All for every value of the constants. Every safety invariant that a passing run
checks, and every refinement, is also a theorem, `SettledMatchesStore` for an
instance without retrying requests. An invariant is seldom inductive
as it stands; the second column says what makes it so.

| Theorem | Argument |
|---|---|
| `ListMatchesEtagAlways` | no client's label is ahead of the etag (`LabelsBehind`), so a change leaves every label behind |
| `DbInvariant`, `DbListMatchesEtag`, `DbImplementsVersionedList` | `LabelBetween`: a label read first and not yet used lies between the client's etag and the table's; then `get_all_rows` is a `Refresh`, a committed mutation a `Publish`, everything else a stutter. The last two assume `TxnAbortsOnError` |
| `DbUnannouncedIsError` | every mutation bumps the etag, keeps the row, or answers an error, on either kind of database |
| `MemoryListMatchesEtag`, `MemoryImplementsVersionedList` | the same argument, restricted to clients served by the current boot; the refinement assumes `MaxRestarts = 0` |
| `HttpTypes`, `AnswersTellTheEffect`, `AcknowledgedChangesAreSeen`, `HttpListMatchesEtag` | `CallOK`: what is known of a call in each phase. A poll under way carries an etag the poller has or had; between service and receipt the status stands for what the store did (one lemma per row of the status tables); an answer with a list carries an etag no older than the caller's `floor`. What was acknowledged is never ahead of the store (`acked <= etag`) |
| `PoolAlwaysCovers`, `PoolCoversForRequests` | the pool only grows, and a backend enters a job, the cache, the selector or the set only after its client is in the pool; an updater that connects has a list (`HasList`) |
| `ChosenAlwaysHasClient`, `BalancerTypes` | from the above: a request chooses from the selector, and checks only record what a node reports |
| `LoneUpdaterSettles` | assumes `Requests = {}`. `AloneInv` says for each step of an update what holds *if* the remembered etag is the store's: at the answer its list is the store's, at the connect as well, before the comparison the result is the cache and the enablement that of the list, through the three stores (`Installing`) what is stored is the cache and the table to come agrees with the list. `Installed`: selector and set differ only between their two stores. A change of the store only makes the condition false. Labels never run ahead (`EtagsBehind`) |
| `ClientTypes`, `FailedNeverShared`, `AlwaysOneDial` | the dialer holds the mutex; a call that uses or throws away a connection has one |
| `OffersAlwaysHaveMetadata` | `HoldsLocks` makes what was seen under the locks true at the write (`StillProceeds`), which keeps the offers' metadata |
| `MemoryImplementsCatalog` | a write under the locks is one catalog action: by `StillProceeds` the condition looked up before still holds at the write; everything else leaves the maps alone |
| `PagesTypes`, `WalkMissesOnlyShifted`, `WalkRepeatsOnlyWritten`, `WalkedStoreImplementsCatalog` | see below |
| `DbImplementsCatalog` | each statement changes one row, and the foreign key is the catalog's guard, seen through the ids of the rows |
| `DbOffersHaveMetadata` | the foreign key, given the types of the two tables; nothing of the calls under way is needed |
| `DbTypes`, `DbToldIsDone` | a put between its two statements remembers what its upsert did to the row, or the row was `touched` since (`CallOK`); the two status tables are evaluated row by row (`OfferTable`, `MetadataTable`) |
| `PayTypes`, `MismatchHasAReason`, `RefusalHasAReason`, `NeverInvoiceOnceGone` | `PayerOK`: a payer shown the offer by the service holds what is stored and served until the store changes or it expires, one shown a cached response holds an offer that expires, one called gone asks for an offer that is not offered any more. From `shown` to the verdict each step looks at the offer once |
| `PayKeepsOffers` | every step of `LnUrlPay` is one of the offer service or leaves it alone |
| `LifecycleTypes` | each action in turn; the cells are filled with the next number and never emptied |
| `AcknowledgedAlwaysVisible`, `AlwaysHealsWhatServes` | `CellsFilled` and `Shared`: an instance once made is in its cell, and whoever holds one of that part holds that one; connected services hold all they take (`ConnectedHold`); a handled record is in the cell's instance while the process runs, or outside it for good (`RecordsKept`) |
| `NeverHalfServer`, `AlwaysCleanExit` | a request is accepted only when all services are connected (`RequestsBelong`); the select ends without an error only on a signal (`Stages`) |

The walk through the pages. `Missed` is the set of records that were there when
the walk began, are not listed, and stand in no place the walk has still to come
to. The invariant `WalkKnows` says that it is no larger than `shifts`, and that
what is listed and still to come was written since. `PageMissesNothing`: turning
a page adds nothing to it, and after the last page it is all that is missed.
`RemoveFirstProperties`, `PutProperties`: a write leaves every other record where
it is or one place nearer the front, the latter only if the written record stood
before it, and puts a written record last (`Reordered`). `WriteMissesOne`: hence
a write adds at most the one record at the offset, and only if it took one away
from a place already passed; that is when `shifts` grows. The sequence lemmas are
proved for `RemoveAt`, `RemoveFirst` and `SubSeq` of the libraries themselves.

Assumptions are the named `ASSUME`s of the modules; TLC evaluates them in every
run. Bounds are naturals; `None` is none of the values it stands beside
(`NoneIsNoList`, `NoneIsNoHealth` say so of lists of nodes and of health
entries); the background updater is not a request; `IdsAssumption`: there are
finitely many ids (they are UUIDs), so that a set of missed records has a number.

Hypotheses beyond those, and why. `TxnAbortsOnError` holds of PostgreSQL;
`DbUnannouncedIsError` says what is left without it. `MaxRestarts = 0` is the
lifetime of one process: etags do not survive it. `Requests = {}` in
`LoneUpdaterSettles` is a server none of whose requests backs off: with a second
updater the invariant is false, which is what `bal_race_dropped` finds.

Only model-checked: every liveness property, since the prover handles neither
fairness nor `ENABLED`. Not stated as theorems are the four properties that the
program violates.

## 6. Not modelled

- bech32 and QR, the JSON of LNURL metadata, header and path extractors, logging,
  argument parsing: conversions without state, and no property is about their text.
- JWT signing and verification: library cryptography. `DiscoveryHttp` lets the
  layer refuse any request. The public key is read once at start.
- Values of the configuration, secrets and certificates: in `ServerLifecycle` one
  of them may make any step of the start fail.
- The three selection algorithms and the arithmetic of capacities: a free choice
  among the nodes the code accepts.
- The database's paged lists and the race of its clock with overlapping inserts;
  integer conversions between row and record.
- Generated gRPC code and the repository's test fixtures.

Reasons are also under "components".

## 7. Plan

Done, in this order: discovery stores and their contract, discovery in the
balancer, the balancer, gRPC clients, offer stores, LNURL pay; then the offer
catalog and its two refinements, pages, the server's life cycle.

Proved, in this order: the stores' contracts and refinements, the client pool,
gRPC connections; then the life cycle, the discovery service over HTTP, payers
and the offer service's answers, the balancer with one updater, the walk through
the pages.

Next, by importance:
1. action properties: which steps may remove a backend from the set or change a
   health entry, as theorems beside the liveness that TLC checks;
2. what two updaters do keep: a safety property weaker than
   `SettledMatchesStore` that excludes only the race of `bal_race_dropped`;
3. `DiscoveryHttp` over the database store, several server instances, and the
   database of the other kind as a run of its own;
4. selection algorithms and capacity arithmetic as operators against a reference;
   conversions of `weight` and amounts with their widths.
