---------------------------- MODULE LnBalancer ----------------------------
(***************************************************************************)
(* PingoraLnBalancer (pingora/src/balance.rs) at work: invoice requests    *)
(* select a backend, ask its Lightning node for an invoice and, on an      *)
(* error, back off, update the load balancer and check every node's health *)
(* themselves, beside the background service that does the same for ever.  *)
(* PingoraLnHealthCheck (pingora/src/health.rs) asks a node for its        *)
(* metrics through LnClientPool::get_metrics, which caches them; a backend *)
(* without cached metrics is never selected.                               *)
(*                                                                         *)
(* The update itself is the one of LnServiceDiscovery, which this module   *)
(* composes with.  Lightning nodes come and go (NodeChange).  The capacity *)
(* of a node is "ample" or "scarce": whether the amount fits within its    *)
(* inbound capacity scaled by the bias.                                    *)
(***************************************************************************)
EXTENDS LnServiceDiscovery

CONSTANTS
    Requests,          \* invoice requests, each for an offer of OfferPartition
    OfferPartition,
    SelectionBias,     \* selection_capacity_bias is configured
    MaxRetries,        \* the backoff's time budget, counted in retries (0: stop)
    SuccessThreshold,  \* health_check_consecutive_success_to_healthy
    FailureThreshold,  \* health_check_consecutive_failure_to_unhealthy
    MaxFlips           \* bound: changes of state of the Lightning nodes

ASSUME RequestsAssumption == Updaters = {Background} \cup Requests /\ Background \notin Requests
ASSUME OfferAssumption == OfferPartition \in Served /\ SelectionBias \in BOOLEAN
ASSUME ThresholdAssumption ==
    /\ SuccessThreshold \in Nat \ {0}
    /\ FailureThreshold \in Nat \ {0}
    /\ MaxRetries \in Nat /\ MaxFlips \in Nat

VARIABLES
    node, flips,  \* the state of each Lightning node, and how often it changed
    metrics,      \* metrics_cache: what each key's node last reported, or None
    task,         \* what each task is doing
    todo,         \* backends a health check still has to ask
    seen,         \* their answers, not yet observed: pairs <<key, ok>>
    lost,         \* the table a health check observes into was replaced
    bias,         \* current_selection_capacity_bias.is_some()
    chosen,       \* the selected backend, or None
    tries         \* retries so far

reqVars == <<bias, chosen, tries>>
checkVars == <<todo, seen, lost>>
balVars == <<node, flips, metrics, task, checkVars, reqVars>>
allVars == <<vars, balVars>>

NodeState == {"ample", "scarce", "down"}

Final == {"ok", "refused", "failed", "dropped"}

Task == {"rest", "select", "invoice", "retry", "update", "updating", "checking"} \cup Final

BalTypeOK ==
    /\ TypeOK
    /\ node \in [Nodes -> NodeState]
    /\ flips \in 0 .. MaxFlips
    /\ metrics \in [Keys -> {"ample", "scarce"} \cup {None}]
    /\ task \in [Updaters -> Task]
    /\ todo \in [Updaters -> SUBSET Backend]
    /\ seen \in [Updaters -> SUBSET (Keys \X BOOLEAN)]
    /\ lost \in [Updaters -> BOOLEAN]
    /\ bias \in [Requests -> BOOLEAN]
    /\ chosen \in [Requests -> Backend \cup {None}]
    /\ tries \in [Requests -> 0 .. MaxRetries]

\* The instance starts beside a store that already has a list.
BalInit ==
    /\ store \in BackendList
    /\ etag = IF store = EmptyList THEN 0 ELSE 1
    /\ DiscInit
    /\ node \in [Nodes -> NodeState]
    /\ flips = 0
    /\ metrics = [k \in Keys |-> None]
    /\ task = [u \in Updaters |-> "rest"]
    /\ todo = [u \in Updaters |-> {}]
    /\ seen = [u \in Updaters |-> {}]
    /\ lost = [u \in Updaters |-> FALSE]
    /\ bias = [r \in Requests |-> FALSE]
    /\ chosen = [r \in Requests |-> None]
    /\ tries = [r \in Requests |-> 0]

Becomes(u, from, to) == task[u] = from /\ task' = [task EXCEPT ![u] = to]

-----------------------------------------------------------------------------
(* The environment.                                                        *)

NodeChange ==
    /\ flips < MaxFlips
    /\ flips' = flips + 1
    /\ \E n \in Nodes, s \in NodeState :
           s # node[n] /\ node' = [node EXCEPT ![n] = s]
    /\ UNCHANGED <<vars, metrics, task, checkVars, reqVars>>

BalStoreChange == StoreChange /\ UNCHANGED balVars

-----------------------------------------------------------------------------
(* Update and health check, by the background service or a backing-off     *)
(* request.                                                                *)

\* The background service: whenever the update period has passed.
\* A request: as the first thing it does while it backs off.
BeginUpdate(u) ==
    /\ Becomes(u, IF u = Background THEN "rest" ELSE "update", "updating")
    /\ LoadEtag(u)
    /\ UNCHANGED <<node, flips, metrics, checkVars, reqVars>>

\* Replacing the health table orphans the one a running health check holds.
BalUpdateStep(u) ==
    /\ UpdateStep(u)
    /\ lost' = IF pc[u] = "table" THEN [v \in Updaters |-> TRUE] ELSE lost
    /\ UNCHANGED <<node, flips, metrics, task, todo, seen, reqVars>>

\* run_health_check: after the update, or when only the check period has passed.
BeginCheck(u) ==
    /\ pc[u] = "idle"
    /\ \/ Becomes(u, "updating", "checking")
       \/ u = Background /\ Becomes(u, "rest", "checking")
    /\ todo' = [todo EXCEPT ![u] = backends]
    /\ lost' = [lost EXCEPT ![u] = FALSE]
    /\ UNCHANGED <<vars, node, flips, metrics, seen, reqVars>>

\* The answer ok of one backend, which has been asked for its metrics.
CheckOf(u, b, ok) ==
    /\ todo' = [todo EXCEPT ![u] = @ \ {b}]
    /\ seen' = [seen EXCEPT ![u] = @ \cup {<<Key(b), ok>>}]
    /\ metrics' = IF Key(b) \in pool /\ node[b.node] # "down"
                  THEN [metrics EXCEPT ![Key(b)] = node[b.node]] ELSE metrics
    /\ UNCHANGED <<vars, node, flips, task, lost, reqVars>>

\* Mutant: a node short of inbound capacity is reported as failed.
Check_capacity(u) == \E b \in todo[u] : CheckOf(u, b, Key(b) \in pool /\ node[b.node] = "ample")

\* Mutant: the error of get_metrics is dropped.
Check_error_dropped(u) == \E b \in todo[u] : CheckOf(u, b, Key(b) \in pool)

\* HealthCheck::check of one backend: get_metrics, cached if it succeeds.
Check(u) == \E b \in todo[u] : CheckOf(u, b, Key(b) \in pool /\ node[b.node] # "down")

\* pingora Health::observe_health: a result that contradicts the state counts,
\* enough of them in a row flip it.
Observed(h, ok) ==
    IF ok = h.healthy THEN [h EXCEPT !.count = 0]
    ELSE IF h.count + 1 >= (IF ok THEN SuccessThreshold ELSE FailureThreshold)
         THEN [h EXCEPT !.healthy = ok, !.count = 0]
         ELSE [h EXCEPT !.count = @ + 1]

Observe(u) ==
    /\ \E s \in seen[u] :
           /\ seen' = [seen EXCEPT ![u] = @ \ {s}]
           /\ health' = IF lost[u] \/ health[s[1]] = None THEN health
                        ELSE [health EXCEPT ![s[1]] = Observed(@, s[2])]
    /\ UNCHANGED <<store, etag, last_etag, cache, pool, selector, backends, pc, job, faults, skipped,
                   node, flips, metrics, task, todo, lost, reqVars>>

\* All answers are in: the background service rests, a request selects again.
EndCheck(u) ==
    /\ todo[u] = {} /\ seen[u] = {}
    /\ Becomes(u, "checking", IF u = Background THEN "rest" ELSE "select")
    /\ UNCHANGED <<vars, node, flips, metrics, checkVars, reqVars>>

-----------------------------------------------------------------------------
(* get_invoice.                                                            *)

Arrive(r) ==
    /\ Becomes(r, "rest", "select")
    /\ bias' = [bias EXCEPT ![r] = SelectionBias]
    /\ UNCHANGED <<vars, node, flips, metrics, checkVars, chosen, tries>>

\* pingora Backends::ready
Ready(b) ==
    /\ health[Key(b)] # None
    /\ health[Key(b)].enabled
    /\ health[Key(b)].healthy

\* The acceptance closure of select_backend.
Accepts(r, b) ==
    /\ Ready(b)
    /\ OfferPartition \in b.partitions
    /\ metrics[Key(b)] # None
    /\ bias[r] => metrics[Key(b)] = "ample"

\* pingora select_with (external) visits at most max_iterations backends of the
\* selector, repeats included, a number select_backend computes from the size of
\* the set: with several backends, or before there is a set, it may miss the
\* acceptable one.
MayMiss(r) ==
    \/ backends = {}
    \/ Cardinality(selector) > 1
    \/ \A b \in selector : ~Accepts(r, b)

SelectHit(r) ==
    /\ backends # {}
    /\ \E b \in selector : Accepts(r, b) /\ chosen' = [chosen EXCEPT ![r] = b]
    /\ Becomes(r, "select", "invoice")
    /\ bias' = [bias EXCEPT ![r] = FALSE]
    /\ UNCHANGED <<vars, node, flips, metrics, checkVars, tries>>

\* Mutant: the bias is not given up.
SelectMiss_keeps_bias(r) ==
    /\ MayMiss(r)
    /\ Becomes(r, "select", IF bias[r] THEN "select" ELSE "retry")
    /\ UNCHANGED <<vars, node, flips, metrics, checkVars, reqVars>>

\* Nothing selected: again at once without the bias, or a retryable error.
SelectMiss(r) ==
    /\ MayMiss(r)
    /\ Becomes(r, "select", IF bias[r] THEN "select" ELSE "retry")
    /\ bias' = [bias EXCEPT ![r] = FALSE]
    /\ UNCHANGED <<vars, node, flips, metrics, checkVars, chosen, tries>>

\* How the pool's get_invoice may end; no client for the key is an internal error.
Outcomes(b) ==
    IF Key(b) \notin pool \/ node[b.node] = "down" THEN {"retry"}
    ELSE {"ok", "refused", "retry"}

Invoice(r) ==
    /\ task[r] = "invoice"
    /\ \E o \in Outcomes(chosen[r]) : Becomes(r, "invoice", o)
    /\ chosen' = [chosen EXCEPT ![r] = None]
    /\ UNCHANGED <<vars, node, flips, metrics, checkVars, bias, tries>>

\* Mutant: the backoff never ends.
Retry_for_ever(r) ==
    /\ Becomes(r, "retry", "update")
    /\ tries' = [tries EXCEPT ![r] = @ + 1]
    /\ UNCHANGED <<vars, node, flips, metrics, checkVars, bias, chosen>>

\* next_backoff: another try, or give up.
Retry(r) ==
    /\ IF tries[r] < MaxRetries
       THEN Becomes(r, "retry", "update") /\ tries' = [tries EXCEPT ![r] = @ + 1]
       ELSE Becomes(r, "retry", "failed") /\ UNCHANGED tries
    /\ UNCHANGED <<vars, node, flips, metrics, checkVars, bias, chosen>>

\* The caller hangs up: the future is dropped at an await (the node's answer,
\* the store's answer, a health check's answer).  A parallel health check runs
\* in tasks of its own, which go on.
Drop(r) ==
    /\ \/ task[r] \in {"invoice", "checking"}
       \/ task[r] = "updating" /\ pc[r] = "fetch"
    /\ task' = [task EXCEPT ![r] = "dropped"]
    /\ pc' = [pc EXCEPT ![r] = "idle"]
    /\ job' = [job EXCEPT ![r] = NoJob]
    /\ \/ todo' = [todo EXCEPT ![r] = {}] /\ seen' = [seen EXCEPT ![r] = {}]
       \/ UNCHANGED <<todo, seen>>
    /\ chosen' = [chosen EXCEPT ![r] = None]
    /\ UNCHANGED <<store, etag, last_etag, cache, pool, selector, backends, health, faults, skipped,
                   node, flips, metrics, lost, bias, tries>>

-----------------------------------------------------------------------------
TaskStep(u) == BalUpdateStep(u) \/ BeginCheck(u) \/ Check(u) \/ Observe(u) \/ EndCheck(u)

RequestStep(r) == SelectHit(r) \/ SelectMiss(r) \/ Invoice(r) \/ Retry(r) \/ BeginUpdate(r)

BalNext ==
    \/ NodeChange
    \/ BalStoreChange
    \/ BeginUpdate(Background)
    \/ \E u \in Updaters : TaskStep(u)
    \/ \E r \in Requests : Arrive(r) \/ RequestStep(r) \/ Drop(r)

BalSpec == BalInit /\ [][BalNext]_allVars

\* Tasks run; the background service's two timers fire again and again; the
\* store polled again and again answers again and again.
BalFairness ==
    /\ \A u \in Updaters : WF_allVars(TaskStep(u))
    /\ \A r \in Requests : WF_allVars(RequestStep(r))
    /\ SF_allVars(BeginUpdate(Background))
    /\ SF_allVars(BalUpdateStep(Background) /\ Answer(Background))
    /\ SF_allVars(BeginCheck(Background))

BalFairSpec == BalSpec /\ BalFairness

-----------------------------------------------------------------------------
\* A request holding a selected backend finds its client in the pool, whatever
\* updates replace the set meanwhile (get_client's "not found in pool" is
\* unreachable: clients are never removed).
ChosenHasClient ==
    \A r \in Requests : chosen[r] # None => Key(chosen[r]) \in pool

\* Every request that arrives is answered or dropped: the retry loop and the
\* immediate second selection without bias both end.
RequestsEnd == \A r \in Requests : task[r] = "select" ~> task[r] \in Final

\* The node's backend is ready and can be selected: there is a set to count
\* iterations by.
InService(n) == backends # {} /\ \E b \in selector : b.node = n /\ Ready(b)

\* A node that is stored, enabled and up for good, and whose connect was not
\* refused, is taken into service for good ("Self-healing").
SelfHealing ==
    \A n \in Nodes :
        <>[](n \in ServedNodes(store) /\ n \notin skipped /\ store[n].enabled /\ node[n] # "down")
            => <>[]InService(n)

\* A node that is down for good is taken out of service for good ("Node health
\* checks redirect invoice requests to healthy nodes").
FailedNodeLeaves ==
    \A n \in Nodes : <>[](node[n] = "down") => <>[]~InService(n)

\* A node that is deleted or disabled in the store for good is taken out of
\* service for good ("Drop nodes in seconds").
DroppedNodeLeaves ==
    \A n \in Nodes :
        <>[](n \notin ServedNodes(store) \/ ~store[n].enabled) => <>[]~InService(n)

=============================================================================
