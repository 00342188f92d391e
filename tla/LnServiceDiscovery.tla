------------------------ MODULE LnServiceDiscovery ------------------------
(***************************************************************************)
(* How a balancer instance follows the backend list:                       *)
(*   - LnServiceDiscovery::discover (pingora/src/discovery.rs) polls the   *)
(*     store with the etag of its last answer, turns the rows of its own   *)
(*     partitions into pingora backends and connects each to the pool;     *)
(*   - LnClientPool::connect (components/src/pool/client_pool.rs) keeps    *)
(*     one client per backend, for ever;                                   *)
(*   - pingora's Backends::update (external) compares the result with its  *)
(*     set and, if they differ, stores a selector made of it, then the set *)
(*     itself, then a health table: three stores, one after the other.     *)
(*                                                                         *)
(* An update is run by the background service and by every get_invoice     *)
(* that backs off; nothing excludes one from another and the runtime has   *)
(* several threads, so every access to shared state is a step of its own.  *)
(* The store is any store that implements VersionedList: the etag of an    *)
(* answer was current at some moment of the call, the rows are current     *)
(* when the answer is made.                                                *)
(***************************************************************************)
EXTENDS DiscoveryBackends, FiniteSets

CONSTANTS
    Served,           \* the partitions this instance is configured to serve
    Updaters,         \* tasks that run load_balancer.update()
    Background,       \* the one of them that does so for ever
    MaxEtag,          \* bound: changes of the store
    MaxConnectFaults  \* bound: connects that fail (credentials not readable)

ASSUME NodesAssumption == IsFiniteSet(Nodes)
ASSUME UpdatersAssumption == Background \in Updaters
ASSUME ServedAssumption == Served \subseteq Partitions
ASSUME BoundsAssumption == MaxEtag \in Nat /\ MaxConnectFaults \in Nat

VARIABLES
    store, etag,    \* the discovery store
    last_etag,      \* AtomicU64
    cache,          \* pingora_backend_cache: ArcSwap of a backend set
    pool,           \* keys that have a client in LnClientPool.pool
    selector,       \* pingora: LoadBalancer.selector, what requests select from
    backends,       \* pingora: Backends.backends, the set health checks ask
    health,         \* pingora: the health table, by hash of the backend
    pc, job,        \* where each updater is, and its local variables
    faults,         \* connects that have failed so far
    skipped         \* nodes whose connect failed in the last list processed

discVars == <<last_etag, cache, pool, selector, backends, health, pc, job, faults, skipped>>
vars == <<store, etag, discVars>>

-----------------------------------------------------------------------------
\* A pingora Backend; only its address (a hash of the public key) and its
\* weight take part in equality, order and hash, the extension does not.
Backend == [node : Nodes, weight : Weights, partitions : SUBSET Partitions]

Keys == Nodes \X Weights

Key(b) == <<b.node, b.weight>>

KeysOf(bs) == {Key(b) : b \in bs}

Health == [enabled : BOOLEAN, healthy : BOOLEAN, count : Nat]

ASSUME NoneIsNoHealth == None \notin Health

\* pingora's Health::default
DefaultHealth == [enabled |-> TRUE, healthy |-> TRUE, count |-> 0]

\* The pingora backend of the stored row of node n.
BackendOf(list, n) ==
    [node |-> n, weight |-> list[n].weight, partitions |-> list[n].partitions]

\* Nodes of the list that share a partition with this instance.
ServedNodes(list) ==
    {n \in Nodes : list[n] # None /\ list[n].partitions \cap Served # {}}

\* What the list asks this instance to balance over.
Wanted(list) == {BackendOf(list, n) : n \in ServedNodes(list)}

Job == [req : Nat, low : Nat, etag : Nat, list : BackendList \cup {None},
        found : SUBSET Backend, enablement : [Keys -> BOOLEAN \cup {None}],
        table : [Keys -> Health \cup {None}]]

NoEnablement == [k \in Keys |-> None]

NoJob == [req |-> 0, low |-> 0, etag |-> 0, list |-> None, found |-> {},
          enablement |-> NoEnablement, table |-> [k \in Keys |-> None]]

PC == {"idle", "fetch", "answered", "connect", "update", "selector", "backends", "table"}

TypeOK ==
    /\ store \in BackendList
    /\ etag \in Nat
    /\ last_etag \in Nat
    /\ cache \subseteq Backend
    /\ pool \subseteq Keys
    /\ selector \subseteq Backend
    /\ backends \subseteq Backend
    /\ health \in [Keys -> Health \cup {None}]
    /\ pc \in [Updaters -> PC]
    /\ job \in [Updaters -> Job]
    /\ faults \in Nat
    /\ skipped \subseteq Nodes

StoreInit == store = EmptyList /\ etag = 0

DiscInit ==
    /\ last_etag = 0
    /\ cache = {}
    /\ pool = {}
    /\ selector = {}
    /\ backends = {}
    /\ health = [k \in Keys |-> None]
    /\ pc = [u \in Updaters |-> "idle"]
    /\ job = [u \in Updaters |-> NoJob]
    /\ faults = 0
    /\ skipped = {}

Init == StoreInit /\ DiscInit

-----------------------------------------------------------------------------
(* The store, changed through the REST API.                                *)

StoreChange ==
    /\ etag < MaxEtag
    /\ \E n \in Nodes, row \in DiscoveryBackendSparse \cup {None} :
           /\ row # store[n]
           /\ store' = [store EXCEPT ![n] = row]
    /\ etag' = etag + 1
    /\ UNCHANGED discVars

-----------------------------------------------------------------------------
(* discover(), one step per access to shared state.  Local variables that  *)
(* are not read again go back to their initial values.                     *)

Goto(u, from, to) == pc[u] = from /\ pc' = [pc EXCEPT ![u] = to]

\* What a poll asks with; low is where the etag of its answer may come from.
Poll(req, low) == [NoJob EXCEPT !.req = req, !.low = low]

\* last_etag.load, and the call of backend_provider.backends(Some(etag)).
LoadEtag(u) ==
    /\ Goto(u, "idle", "fetch")
    /\ job' = [job EXCEPT ![u] = Poll(last_etag, etag)]
    /\ UNCHANGED <<store, etag, last_etag, cache, pool, selector, backends, health, faults, skipped>>

\* What the store answers; no list when the etag is the one asked with.
AnswerTo(req, e) == [NoJob EXCEPT !.etag = e, !.list = IF e = req THEN None ELSE store]

Answer(u) ==
    /\ Goto(u, "fetch", "answered")
    /\ \E e \in job[u].low .. etag : job' = [job EXCEPT ![u] = AnswerTo(job[u].req, e)]
    /\ UNCHANGED <<store, etag, last_etag, cache, pool, selector, backends, health, faults, skipped>>

\* The store answers an error, or the request that polls is dropped at the await.
FetchFails(u) ==
    /\ Goto(u, "fetch", "idle")
    /\ job' = [job EXCEPT ![u] = NoJob]
    /\ UNCHANGED <<store, etag, last_etag, cache, pool, selector, backends, health, faults, skipped>>

\* What discover returns.
Result(found, enablement) == [NoJob EXCEPT !.found = found, !.enablement = enablement]

\* Mutant: not modified is answered with no backends at all.
NotModified_empty(u) ==
    /\ job[u].list = None
    /\ Goto(u, "answered", "update")
    /\ job' = [job EXCEPT ![u] = Result({}, NoEnablement)]
    /\ UNCHANGED <<store, etag, last_etag, cache, pool, selector, backends, health, faults, skipped>>

\* Not modified: the cached set, and nothing about enablement.
NotModified(u) ==
    /\ job[u].list = None
    /\ Goto(u, "answered", "update")
    /\ job' = [job EXCEPT ![u] = Result(cache, NoEnablement)]
    /\ UNCHANGED <<store, etag, last_etag, cache, pool, selector, backends, health, faults, skipped>>

StoreEtag(u) ==
    /\ job[u].list # None
    /\ Goto(u, "answered", "connect")
    /\ last_etag' = job[u].etag
    /\ UNCHANGED <<store, etag, cache, pool, selector, backends, health, job, faults, skipped>>

\* The connected backends, and whether each is enabled.
Connected(list, failed) ==
    {BackendOf(list, n) : n \in ServedNodes(list) \ failed}

\* Mutant: every connected backend is reported as enabled.
EnablementOf_always(list, failed) ==
    [k \in Keys |-> IF k \in KeysOf(Connected(list, failed)) THEN TRUE ELSE None]

EnablementOf(list, failed) ==
    [k \in Keys |->
        IF k \in KeysOf(Connected(list, failed)) THEN list[k[1]].enabled ELSE None]

\* The loop over the rows, for the nodes whose connect failed, and what it
\* leaves in the result, the pool and the cache.
ConnectRows(u, failed, found, newPool, newCache) ==
    /\ Goto(u, "connect", "update")
    /\ faults + Cardinality(failed) <= MaxConnectFaults
    /\ faults' = faults + Cardinality(failed)
    /\ skipped' = failed
    /\ pool' = newPool
    /\ cache' = newCache
    /\ job' = [job EXCEPT ![u] = Result(found, EnablementOf(job[u].list, failed))]
    /\ UNCHANGED <<store, etag, last_etag, selector, backends, health>>

\* Mutant: the pool keeps only the clients of the new list.
ConnectAll_evicts(u) ==
    /\ pc[u] = "connect"
    /\ \E failed \in SUBSET ServedNodes(job[u].list) :
           LET found == Connected(job[u].list, failed)
           IN  ConnectRows(u, failed, found, KeysOf(found), found)

\* Mutant: the cache is not stored.
ConnectAll_no_cache(u) ==
    /\ pc[u] = "connect"
    /\ \E failed \in SUBSET ServedNodes(job[u].list) :
           LET found == Connected(job[u].list, failed)
           IN  ConnectRows(u, failed, found, pool \cup KeysOf(found), cache)

\* The loop over the rows and the store of the cache.  A failed connect is
\* logged and its row left out.  (The inserts into the pool only add to it,
\* so nobody can tell them from one step.)
ConnectAll(u) ==
    /\ pc[u] = "connect"
    /\ \E failed \in SUBSET ServedNodes(job[u].list) :
           LET found == Connected(job[u].list, failed)
           IN  ConnectRows(u, failed, found, pool \cup KeysOf(found), found)

-----------------------------------------------------------------------------
(* pingora Backends::do_update (external), on what discover returned.      *)

Enabled(entry, answer) ==
    IF answer = None THEN entry ELSE [entry EXCEPT !.enabled = answer]

\* The new health table: old entries kept, new ones by default, enablement over it.
NewTable(found, enablement) ==
    [k \in Keys |->
        IF k \notin KeysOf(found) THEN None
        ELSE Enabled(IF health[k] = None THEN DefaultHealth ELSE health[k], enablement[k])]

Built(found, table) == [NoJob EXCEPT !.found = found, !.table = table]

\* The set differs from what was found: the new table is worked out first.
BuildTable(u) ==
    /\ KeysOf(job[u].found) # KeysOf(backends)
    /\ Goto(u, "update", "selector")
    /\ job' = [job EXCEPT ![u] = Built(job[u].found, NewTable(job[u].found, job[u].enablement))]
    /\ UNCHANGED <<store, etag, last_etag, cache, pool, selector, backends, health, faults, skipped>>

\* Then the selector is stored (LoadBalancer::update's callback), the set, the table.
SwapSelector(u) ==
    /\ Goto(u, "selector", "backends")
    /\ selector' = job[u].found
    /\ UNCHANGED <<store, etag, last_etag, cache, pool, backends, health, job, faults, skipped>>

SwapBackends(u) ==
    /\ Goto(u, "backends", "table")
    /\ backends' = job[u].found
    /\ UNCHANGED <<store, etag, last_etag, cache, pool, selector, health, job, faults, skipped>>

SwapTable(u) ==
    /\ Goto(u, "table", "idle")
    /\ health' = job[u].table
    /\ job' = [job EXCEPT ![u] = NoJob]
    /\ UNCHANGED <<store, etag, last_etag, cache, pool, selector, backends, faults, skipped>>

\* The same set: only the enablement of known backends changes.
SameBackends(u) ==
    /\ KeysOf(job[u].found) = KeysOf(backends)
    /\ Goto(u, "update", "idle")
    /\ health' = [k \in Keys |-> IF health[k] = None THEN None
                                 ELSE Enabled(health[k], job[u].enablement[k])]
    /\ job' = [job EXCEPT ![u] = NoJob]
    /\ UNCHANGED <<store, etag, last_etag, cache, pool, selector, backends, faults, skipped>>

-----------------------------------------------------------------------------
\* The steps of an update after it has begun.
UpdateStep(u) ==
    \/ Answer(u) \/ FetchFails(u) \/ NotModified(u) \/ StoreEtag(u)
    \/ ConnectAll(u) \/ BuildTable(u) \/ SwapSelector(u) \/ SwapBackends(u)
    \/ SwapTable(u) \/ SameBackends(u)

Next == StoreChange \/ \E u \in Updaters : LoadEtag(u) \/ UpdateStep(u)

Spec == Init /\ [][Next]_vars

\* An update that has begun goes on: its thread runs, its store call times out.
UpdatesEnd == \A u \in Updaters : WF_vars(UpdateStep(u))

\* The background service polls for ever, and a store polled again and again
\* answers again and again.
BackgroundPolls == WF_vars(LoadEtag(Background)) /\ SF_vars(Answer(Background))

FairSpec == Spec /\ UpdatesEnd /\ BackgroundPolls

-----------------------------------------------------------------------------
\* Every backend a request can select, the cache can bring back or an update
\* is about to install has a client in the pool: get_client cannot fail with
\* "client for key not found in pool" (discovery.rs: connect before insert).
PoolCovers ==
    /\ KeysOf(selector) \subseteq pool
    /\ KeysOf(backends) \subseteq pool
    /\ KeysOf(cache) \subseteq pool
    /\ \A u \in Updaters : KeysOf(job[u].found) \subseteq pool

\* Selector, set and table agree with the stored list, as far as it could be
\* connected: every wanted node is there, no other is, and each is enabled
\* exactly if its row is.
MatchesStore ==
    /\ KeysOf(selector) = KeysOf(backends)
    /\ KeysOf(backends) = KeysOf({b \in Wanted(store) : b.node \notin skipped})
    /\ \A b \in backends :
           /\ health[Key(b)] # None
           /\ health[Key(b)].enabled = store[b.node].enabled

\* No update is running and the next poll would be answered "not modified".
Settled == last_etag = etag /\ \A u \in Updaters : pc[u] = "idle"

\* When nothing is left to fetch the balancer works on the stored list: the
\* etag is remembered only together with everything it stands for
\* (discovery.rs, last_etag.store against the cache and the result).
SettledMatchesStore == Settled => MatchesStore

\* Once the store stops changing, the balancer reaches the stored list and
\* stays with it: nodes added, dropped, enabled and disabled through the REST
\* API take effect (the poll loop of discovery.rs over update()).
Converges == <>[]MatchesStore

\* Whatever updates race, pingora's set, which health checks ask and selections
\* count their iterations by, ends up being the one in the discovery cache: a
\* poll answered "not modified" repairs a set that a slower update overwrote.
\* Nothing repairs the selector: it is stored before the set and only when the
\* set differs, so where the updates store the two in different orders it stays.
SetFollowsCache == <>[](KeysOf(backends) = KeysOf(cache))

\* In a settled state every backend carries the partitions of its row, so that
\* an offer is only ever served by a node of its partition.
PartitionsFollow == Settled => \A b \in selector : b \in Wanted(store)

=============================================================================
