------------------------- MODULE LnBalancer_proofs -------------------------
(* First the update alone (LnServiceDiscovery): a backend that can be      *)
(* selected has a client, for every number of concurrent updates, every    *)
(* list and every pattern of failed connects.  Then the balancer: a        *)
(* request never holds a backend without a client, for every number of     *)
(* requests, nodes and retries.                                            *)
EXTENDS LnBalancer, FiniteSetTheorems, TLAPS

\* An updater that is about to connect has a list to connect.
HasList == \A u \in Updaters : pc[u] = "connect" => job[u].list # None

IInv == TypeOK /\ HasList /\ PoolCovers

LEMMA InitIInv == Init => IInv
  BY DEF Init, StoreInit, DiscInit, IInv, TypeOK, HasList, PoolCovers, EmptyList, BackendList, NoJob,
         NoEnablement, Job, PC, KeysOf

\* Backends made from the rows of a list are backends.
LEMMA ConnectedType ==
  ASSUME NEW list \in BackendList, NEW failed
  PROVE  /\ Connected(list, failed) \subseteq Backend
         /\ EnablementOf(list, failed) \in [Keys -> BOOLEAN \cup {None}]
  BY DEF Connected, EnablementOf, BackendOf, ServedNodes, Backend, BackendList,
         DiscoveryBackendSparse, Keys, Key, KeysOf

LEMMA KeysOfType ==
  ASSUME NEW bs \in SUBSET Backend PROVE KeysOf(bs) \subseteq Keys
  BY DEF KeysOf, Key, Keys, Backend

LEMMA EnabledType ==
  ASSUME NEW h \in Health, NEW a \in BOOLEAN \cup {None}
  PROVE  Enabled(h, a) \in Health
  BY DEF Enabled, Health

LEMMA TableType ==
  ASSUME TypeOK, NEW found \in SUBSET Backend,
         NEW enablement \in [Keys -> BOOLEAN \cup {None}]
  PROVE  NewTable(found, enablement) \in [Keys -> Health \cup {None}]
  <1>1. DefaultHealth \in Health
    BY DEF DefaultHealth, Health
  <1>2. QED
    BY <1>1, EnabledType DEF NewTable, TypeOK

LEMMA NoJobType ==
  /\ NoJob \in Job
  /\ NoJob.found = {} /\ NoJob.low = 0 /\ NoJob.enablement = NoEnablement
  BY DEF NoJob, NoEnablement, Job

\* The local variables an updater has in each stage have their types, and their
\* values are the ones they were given.
LEMMA JobPoll ==
  ASSUME NEW req \in Nat, NEW low \in Nat
  PROVE  Poll(req, low) \in Job /\ Poll(req, low).found = {} /\ Poll(req, low).low = low
  BY NoJobType DEF Poll, Job

LEMMA JobAnswered ==
  ASSUME NEW req, NEW e \in Nat, store \in BackendList
  PROVE  /\ AnswerTo(req, e) \in Job
         /\ AnswerTo(req, e).etag = e /\ AnswerTo(req, e).list \in {None, store}
         /\ AnswerTo(req, e).found = {} /\ AnswerTo(req, e).low = 0
  BY NoJobType DEF AnswerTo, Job

LEMMA JobResult ==
  ASSUME NEW found \in SUBSET Backend, NEW en \in [Keys -> BOOLEAN \cup {None}]
  PROVE  /\ Result(found, en) \in Job
         /\ Result(found, en).found = found /\ Result(found, en).low = 0
         /\ Result(found, en).enablement = en
  BY NoJobType DEF Result, Job

LEMMA JobBuilt ==
  ASSUME NEW found \in SUBSET Backend, NEW table \in [Keys -> Health \cup {None}]
  PROVE  /\ Built(found, table) \in Job
         /\ Built(found, table).found = found /\ Built(found, table).low = 0
         /\ Built(found, table).table = table
  BY NoJobType DEF Built, Job

\* What each step that works something out makes of the local variables.
LEMMA LoadJob ==
  ASSUME TypeOK, NEW u \in Updaters, LoadEtag(u)
  PROVE  \E j \in Job : job' = [job EXCEPT ![u] = j] /\ j.found = {} /\ j.low = etag
  <1>1. PICK j : j = Poll(last_etag, etag)
    OBVIOUS
  <1>2. j \in Job /\ j.found = {} /\ j.low = etag
    BY <1>1, JobPoll DEF TypeOK
  <1>3. QED
    BY <1>1, <1>2 DEF LoadEtag

LEMMA AnswerJob ==
  ASSUME TypeOK, NEW u \in Updaters, Answer(u)
  PROVE  \E j \in Job :
             /\ job' = [job EXCEPT ![u] = j] /\ j.found = {} /\ j.low = 0
             /\ j.etag <= etag /\ j.list \in {None, store}
  <1>1. PICK e \in job[u].low .. etag : job' = [job EXCEPT ![u] = AnswerTo(job[u].req, e)]
    BY DEF Answer
  <1>2. e \in Nat /\ e <= etag /\ store \in BackendList
    BY <1>1 DEF TypeOK, Job
  <1>3. PICK j : j = AnswerTo(job[u].req, e)
    OBVIOUS
  <1>4. j \in Job /\ j.etag = e /\ j.list \in {None, store} /\ j.found = {} /\ j.low = 0
    BY <1>2, <1>3, JobAnswered
  <1>5. QED
    BY <1>1, <1>2, <1>3, <1>4

LEMMA NotModifiedJob ==
  ASSUME TypeOK, NEW u \in Updaters, NotModified(u)
  PROVE  \E j \in Job :
             /\ job' = [job EXCEPT ![u] = j] /\ j.found = cache /\ j.low = 0
             /\ j.enablement = NoEnablement
  <1>1. PICK j : j = Result(cache, NoEnablement)
    OBVIOUS
  <1>2. cache \in SUBSET Backend /\ NoEnablement \in [Keys -> BOOLEAN \cup {None}]
    BY DEF TypeOK, NoEnablement
  <1>3. j \in Job /\ j.found = cache /\ j.low = 0 /\ j.enablement = NoEnablement
    BY <1>1, <1>2, JobResult
  <1>4. QED
    BY <1>1, <1>3 DEF NotModified

LEMMA ConnectJob ==
  ASSUME TypeOK, NEW u \in Updaters, ConnectAll(u), job[u].list \in BackendList
  PROVE  \E failed \in SUBSET ServedNodes(job[u].list), j \in Job :
             /\ faults' = faults + Cardinality(failed)
             /\ skipped' = failed
             /\ pool' = pool \cup KeysOf(Connected(job[u].list, failed))
             /\ cache' = Connected(job[u].list, failed)
             /\ job' = [job EXCEPT ![u] = j] /\ j.low = 0
             /\ j.found = Connected(job[u].list, failed)
             /\ j.enablement = EnablementOf(job[u].list, failed)
  <1>1. PICK failed \in SUBSET ServedNodes(job[u].list) :
            /\ faults' = faults + Cardinality(failed)
            /\ skipped' = failed
            /\ pool' = pool \cup KeysOf(Connected(job[u].list, failed))
            /\ cache' = Connected(job[u].list, failed)
            /\ job' = [job EXCEPT ![u] = Result(Connected(job[u].list, failed),
                                                EnablementOf(job[u].list, failed))]
    BY DEF ConnectAll, ConnectRows
  <1>2. PICK found \in SUBSET Backend, en \in [Keys -> BOOLEAN \cup {None}] :
            /\ found = Connected(job[u].list, failed)
            /\ en = EnablementOf(job[u].list, failed)
    BY ConnectedType
  <1>3. PICK j : j = Result(found, en)
    OBVIOUS
  <1>4. j \in Job /\ j.found = found /\ j.low = 0 /\ j.enablement = en
    BY <1>3, JobResult
  <1>5. QED
    BY <1>1, <1>2, <1>3, <1>4

LEMMA BuildJob ==
  ASSUME TypeOK, NEW u \in Updaters, BuildTable(u)
  PROVE  \E j \in Job :
             /\ job' = [job EXCEPT ![u] = j] /\ j.found = job[u].found /\ j.low = 0
             /\ j.table = NewTable(job[u].found, job[u].enablement)
  <1>1. PICK found \in SUBSET Backend, en \in [Keys -> BOOLEAN \cup {None}] :
            found = job[u].found /\ en = job[u].enablement
    BY DEF TypeOK, Job
  <1>2. PICK table \in [Keys -> Health \cup {None}] : table = NewTable(found, en)
    BY TableType
  <1>3. PICK j : j = Built(found, table)
    OBVIOUS
  <1>4. j \in Job /\ j.found = found /\ j.low = 0 /\ j.table = table
    BY <1>3, JobBuilt
  <1>5. QED
    BY <1>1, <1>2, <1>3, <1>4 DEF BuildTable

LEMMA NextIInv ==
  ASSUME IInv, [Next]_vars
  PROVE  IInv'
  <1> USE DEF IInv
  <1>1. CASE StoreChange
    <2>1. TypeOK' BY <1>1 DEF StoreChange, TypeOK, BackendList, discVars
    <2>2. PoolCovers' BY <1>1 DEF StoreChange, PoolCovers, discVars, KeysOf
    <2>3. HasList' BY <1>1 DEF StoreChange, HasList, discVars
    <2>4. QED BY <2>1, <2>2, <2>3
  <1>2. ASSUME NEW u \in Updaters, LoadEtag(u) PROVE IInv'
    <2>1. PICK j \in Job : job' = [job EXCEPT ![u] = j] /\ j.found = {}
      BY <1>2, LoadJob
    <2>2. TypeOK' BY <1>2, <2>1 DEF LoadEtag, Goto, TypeOK, PC
    <2>3. PoolCovers' BY <1>2, <2>1 DEF LoadEtag, PoolCovers, TypeOK, KeysOf
    <2>4. HasList' BY <1>2, <2>1 DEF LoadEtag, HasList, Goto, TypeOK
    <2>5. QED BY <2>2, <2>3, <2>4
  <1>3. ASSUME NEW u \in Updaters, Answer(u) PROVE IInv'
    <2>1. PICK j \in Job : job' = [job EXCEPT ![u] = j] /\ j.found = {}
      BY <1>3, AnswerJob
    <2>2. TypeOK' BY <1>3, <2>1 DEF Answer, Goto, TypeOK, PC
    <2>3. PoolCovers' BY <1>3, <2>1 DEF Answer, PoolCovers, TypeOK, KeysOf
    <2>4. HasList' BY <1>3, <2>1 DEF Answer, HasList, Goto, TypeOK
    <2>5. QED BY <2>2, <2>3, <2>4
  <1>4. ASSUME NEW u \in Updaters, FetchFails(u) PROVE IInv'
    <2>1. TypeOK' BY <1>4, NoJobType DEF FetchFails, Goto, TypeOK, PC
    <2>2. PoolCovers' BY <1>4, NoJobType DEF FetchFails, PoolCovers, TypeOK, KeysOf
    <2>3. HasList' BY <1>4, NoJobType DEF FetchFails, HasList, Goto, TypeOK, Job
    <2>4. QED BY <2>1, <2>2, <2>3
  <1>5. ASSUME NEW u \in Updaters, NotModified(u) PROVE IInv'
    <2>1. PICK j \in Job : job' = [job EXCEPT ![u] = j] /\ j.found = cache
      BY <1>5, NotModifiedJob
    <2>2. TypeOK' BY <1>5, <2>1 DEF NotModified, Goto, TypeOK, PC
    <2>3. PoolCovers' BY <1>5, <2>1 DEF NotModified, PoolCovers, TypeOK
    <2>4. HasList' BY <1>5, <2>1 DEF NotModified, HasList, Goto, TypeOK
    <2>5. QED BY <2>2, <2>3, <2>4
  <1>6. ASSUME NEW u \in Updaters, StoreEtag(u) PROVE IInv'
    <2>1. TypeOK' BY <1>6 DEF StoreEtag, Goto, TypeOK, Job, PC
    <2>2. PoolCovers' BY <1>6 DEF StoreEtag, PoolCovers
    <2>3. HasList' BY <1>6 DEF StoreEtag, HasList, Goto, TypeOK, Job
    <2>4. QED BY <2>1, <2>2, <2>3
  <1>7. ASSUME NEW u \in Updaters, ConnectAll(u) PROVE IInv'
    <2>1. job[u].list \in BackendList
      BY <1>7 DEF ConnectAll, ConnectRows, HasList, TypeOK, Job, Goto
    <2>2. PICK failed \in SUBSET ServedNodes(job[u].list), j \in Job :
              /\ faults' = faults + Cardinality(failed)
              /\ skipped' = failed
              /\ pool' = pool \cup KeysOf(Connected(job[u].list, failed))
              /\ cache' = Connected(job[u].list, failed)
              /\ job' = [job EXCEPT ![u] = j] /\ j.found = Connected(job[u].list, failed)
      BY <1>7, <2>1, ConnectJob
    <2>3. TypeOK'
      <3>1. job' \in [Updaters -> Job]
        BY <2>2 DEF TypeOK
      <3>2. cache' \subseteq Backend /\ pool' \subseteq Keys
        BY <2>1, <2>2, ConnectedType, KeysOfType DEF TypeOK
      <3>3. skipped' \subseteq Nodes
        BY <2>2 DEF ServedNodes
      <3>4. faults' \in Nat
        <4>1. failed \subseteq Nodes
          BY <2>2 DEF ServedNodes
        <4>2. Cardinality(failed) \in Nat
          BY <4>1, NodesAssumption, FS_Subset, FS_CardinalityType
        <4>3. QED BY <2>2, <4>2 DEF TypeOK
      <3>5. QED BY <1>7, <3>1, <3>2, <3>3, <3>4 DEF ConnectAll, ConnectRows, Goto, TypeOK, PC
    <2>4. PoolCovers' BY <1>7, <2>2 DEF ConnectAll, ConnectRows, PoolCovers, TypeOK, Job
    <2>5. HasList' BY <1>7, <2>2 DEF ConnectAll, ConnectRows, Goto, HasList, TypeOK, Job
    <2>6. QED BY <2>3, <2>4, <2>5
  <1>8. ASSUME NEW u \in Updaters, BuildTable(u) PROVE IInv'
    <2>1. PICK j \in Job : job' = [job EXCEPT ![u] = j] /\ j.found = job[u].found
      BY <1>8, BuildJob
    <2>2. TypeOK' BY <1>8, <2>1 DEF BuildTable, Goto, TypeOK, PC
    <2>3. PoolCovers' BY <1>8, <2>1 DEF BuildTable, PoolCovers, TypeOK
    <2>4. HasList' BY <1>8, <2>1 DEF BuildTable, HasList, Goto, TypeOK
    <2>5. QED BY <2>2, <2>3, <2>4
  <1>9. ASSUME NEW u \in Updaters, SwapSelector(u) PROVE IInv'
    <2>1. TypeOK' BY <1>9 DEF SwapSelector, Goto, TypeOK, Job, PC
    <2>2. PoolCovers' BY <1>9 DEF SwapSelector, PoolCovers, TypeOK, Job
    <2>3. HasList' BY <1>9 DEF SwapSelector, HasList, Goto, TypeOK, Job
    <2>4. QED BY <2>1, <2>2, <2>3
  <1>10. ASSUME NEW u \in Updaters, SwapBackends(u) PROVE IInv'
    <2>1. TypeOK' BY <1>10 DEF SwapBackends, Goto, TypeOK, Job, PC
    <2>2. PoolCovers' BY <1>10 DEF SwapBackends, PoolCovers, TypeOK, Job
    <2>3. HasList' BY <1>10 DEF SwapBackends, HasList, Goto, TypeOK, Job
    <2>4. QED BY <2>1, <2>2, <2>3
  <1>11. ASSUME NEW u \in Updaters, SwapTable(u) PROVE IInv'
    <2>1. TypeOK' BY <1>11, NoJobType DEF SwapTable, Goto, TypeOK, Job, PC
    <2>2. PoolCovers' BY <1>11, NoJobType DEF SwapTable, PoolCovers, TypeOK, KeysOf
    <2>3. HasList' BY <1>11, NoJobType DEF SwapTable, HasList, Goto, TypeOK, Job
    <2>4. QED BY <2>1, <2>2, <2>3
  <1>12. ASSUME NEW u \in Updaters, SameBackends(u) PROVE IInv'
    <2>1. TypeOK' BY <1>12, NoJobType, EnabledType DEF SameBackends, Goto, TypeOK, Job, PC
    <2>2. PoolCovers' BY <1>12, NoJobType DEF SameBackends, PoolCovers, TypeOK, KeysOf
    <2>3. HasList' BY <1>12, NoJobType DEF SameBackends, HasList, Goto, TypeOK, Job
    <2>4. QED BY <2>1, <2>2, <2>3
  <1>13. CASE UNCHANGED vars
    BY <1>13 DEF vars, discVars, TypeOK, HasList, PoolCovers
  <1>14. QED
    BY <1>1, <1>2, <1>3, <1>4, <1>5, <1>6, <1>7, <1>8, <1>9, <1>10, <1>11, <1>12, <1>13
       DEF Next, UpdateStep

\* Types are kept, and no interleaving of updates lets a backend into the
\* selector, the set, the cache or a pending result before its client is in the pool.
THEOREM PoolAlwaysCovers == Spec => [](TypeOK /\ PoolCovers)
  <1>1. IInv /\ [Next]_vars => IInv'
    BY NextIInv
  <1>2. QED
    BY <1>1, InitIInv, PTL DEF Spec, IInv

-----------------------------------------------------------------------------
\* The types the argument needs beyond those of LnServiceDiscovery.
TaskTypes ==
  /\ todo \in [Updaters -> SUBSET Backend]
  /\ seen \in [Updaters -> SUBSET (Keys \X BOOLEAN)]
  /\ chosen \in [Requests -> Backend \cup {None}]

BalIInv == IInv /\ TaskTypes /\ ChosenHasClient

\* Observing an answer keeps an entry an entry.
LEMMA ObservedType ==
  ASSUME NEW h \in Health, NEW ok \in BOOLEAN
  PROVE  Observed(h, ok) \in Health
  <1>1. [h EXCEPT !.count = 0] \in Health
    BY DEF Health
  <1>2. [h EXCEPT !.healthy = ok, !.count = 0] \in Health
    BY DEF Health
  <1>3. [h EXCEPT !.count = @ + 1] \in Health
    BY DEF Health
  <1>4. QED
    BY <1>1, <1>2, <1>3 DEF Observed

\* Clients are never removed from the pool.
LEMMA PoolGrows ==
  ASSUME [Next]_vars PROVE pool \subseteq pool'
  <1>1. CASE StoreChange
    BY <1>1 DEF StoreChange, discVars
  <1>2. ASSUME NEW u \in Updaters, ConnectAll(u) PROVE pool \subseteq pool'
    BY <1>2 DEF ConnectAll, ConnectRows
  <1>3. CASE UNCHANGED vars
    BY <1>3 DEF vars, discVars
  <1>4. QED
    BY <1>1, <1>2, <1>3
       DEF Next, UpdateStep, LoadEtag, Answer, FetchFails, NotModified, StoreEtag,
           BuildTable, SwapSelector, SwapBackends, SwapTable, SameBackends

LEMMA BalInitBalIInv == BalInit => BalIInv
  <1> SUFFICES ASSUME BalInit PROVE BalIInv
    OBVIOUS
  <1>1. IInv
    BY NoJobType
       DEF BalInit, DiscInit, IInv, TypeOK, HasList, PoolCovers, PC, KeysOf
  <1>2. QED
    BY <1>1 DEF BalInit, BalIInv, TaskTypes, ChosenHasClient

\* A step of the update, whoever takes it, leaves the requests' choices alone.
LEMMA DiscStep ==
  ASSUME BalIInv, [Next]_vars, UNCHANGED <<todo, seen, chosen>>
  PROVE  BalIInv'
  <1>1. IInv' BY NextIInv DEF BalIInv
  <1>2. pool \subseteq pool' BY PoolGrows
  <1>3. QED BY <1>1, <1>2 DEF BalIInv, TaskTypes, ChosenHasClient

\* A step of a health check or a request that leaves discovery alone.
LEMMA OtherStep ==
  ASSUME BalIInv, UNCHANGED vars, TaskTypes',
         \A r \in Requests : chosen'[r] \in selector \cup {chosen[r], None}
  PROVE  BalIInv'
  <1>1. IInv' BY NextIInv DEF BalIInv
  <1>2. ChosenHasClient'
    BY DEF BalIInv, ChosenHasClient, IInv, PoolCovers, KeysOf, vars, discVars
  <1>3. QED BY <1>1, <1>2 DEF BalIInv

LEMMA ObserveStep ==
  ASSUME BalIInv, NEW u \in Updaters, Observe(u)
  PROVE  BalIInv'
  <1> USE DEF BalIInv
  <1>1. PICK s \in seen[u] :
            /\ seen' = [seen EXCEPT ![u] = @ \ {s}]
            /\ health' = IF lost[u] \/ health[s[1]] = None THEN health
                         ELSE [health EXCEPT ![s[1]] = Observed(@, s[2])]
    BY DEF Observe
  <1>2. s[1] \in Keys /\ s[2] \in BOOLEAN
    BY <1>1 DEF TaskTypes
  <1>3. health' \in [Keys -> Health \cup {None}]
    BY <1>1, <1>2, ObservedType DEF IInv, TypeOK
  <1>4. TaskTypes' /\ ChosenHasClient'
    BY <1>1 DEF Observe, TaskTypes, ChosenHasClient, reqVars
  <1>5. TypeOK'
    BY <1>3 DEF Observe, IInv, TypeOK
  <1>6. HasList' /\ PoolCovers'
    BY DEF Observe, IInv, HasList, PoolCovers
  <1>7. QED
    BY <1>4, <1>5, <1>6 DEF IInv

LEMMA DropStep ==
  ASSUME BalIInv, NEW r \in Requests, Drop(r)
  PROVE  BalIInv'
  <1> USE DEF BalIInv
  <1>1. r \in Updaters
    BY RequestsAssumption
  <1>2. TypeOK'
    BY <1>1, NoJobType DEF Drop, IInv, TypeOK, PC
  <1>3. HasList' /\ PoolCovers'
    BY <1>1, NoJobType DEF Drop, IInv, TypeOK, HasList, PoolCovers, KeysOf
  <1>4. TaskTypes'
    BY <1>1 DEF Drop, TaskTypes
  <1>5. ChosenHasClient'
    BY DEF Drop, TaskTypes, ChosenHasClient
  <1>6. QED
    BY <1>2, <1>3, <1>4, <1>5 DEF IInv

LEMMA BalNextBalIInv ==
  ASSUME BalIInv, [BalNext]_allVars
  PROVE  BalIInv'
  <1> USE DEF checkVars, reqVars, balVars
  <1>1. CASE NodeChange
    BY <1>1, OtherStep DEF NodeChange, BalIInv, TaskTypes
  <1>2. CASE BalStoreChange
    BY <1>2, DiscStep DEF BalStoreChange, Next
  <1>3. ASSUME NEW u \in Updaters, BeginUpdate(u) PROVE BalIInv'
    BY <1>3, DiscStep DEF BeginUpdate, Next
  <1>4. ASSUME NEW u \in Updaters, BalUpdateStep(u) PROVE BalIInv'
    BY <1>4, DiscStep DEF BalUpdateStep, Next
  <1>5. ASSUME NEW u \in Updaters, BeginCheck(u) PROVE BalIInv'
    <2>1. TaskTypes'
      BY <1>5 DEF BeginCheck, BalIInv, TaskTypes, IInv, TypeOK
    <2>2. QED
      BY <1>5, <2>1, OtherStep DEF BeginCheck
  <1>6. ASSUME NEW u \in Updaters, Check(u) PROVE BalIInv'
    <2>1. PICK b \in todo[u], ok \in BOOLEAN :
              /\ todo' = [todo EXCEPT ![u] = @ \ {b}]
              /\ seen' = [seen EXCEPT ![u] = @ \cup {<<Key(b), ok>>}]
      BY <1>6, Zenon DEF Check, CheckOf
    <2>2. UNCHANGED <<vars, chosen>>
      BY <1>6 DEF Check, CheckOf
    <2>3. <<Key(b), ok>> \in Keys \X BOOLEAN
      BY <2>1 DEF BalIInv, TaskTypes, Backend, Key, Keys
    <2>4. TaskTypes'
      BY <2>1, <2>2, <2>3 DEF BalIInv, TaskTypes
    <2>5. QED
      BY <2>2, <2>4, OtherStep
  <1>7. ASSUME NEW u \in Updaters, Observe(u) PROVE BalIInv'
    BY <1>7, ObserveStep
  <1>8. ASSUME NEW u \in Updaters, EndCheck(u) PROVE BalIInv'
    BY <1>8, OtherStep DEF EndCheck, BalIInv, TaskTypes
  <1>9. ASSUME NEW r \in Requests, Arrive(r) PROVE BalIInv'
    BY <1>9, OtherStep DEF Arrive, BalIInv, TaskTypes
  <1>10. ASSUME NEW r \in Requests, SelectHit(r) PROVE BalIInv'
    <2>1. PICK b \in selector : chosen' = [chosen EXCEPT ![r] = b]
      BY <1>10 DEF SelectHit
    <2>2. TaskTypes'
      BY <1>10, <2>1 DEF SelectHit, BalIInv, TaskTypes, IInv, TypeOK
    <2>3. \A q \in Requests : chosen'[q] \in selector \cup {chosen[q], None}
      BY <2>1 DEF BalIInv, TaskTypes
    <2>4. QED
      BY <1>10, <2>2, <2>3, OtherStep DEF SelectHit
  <1>11. ASSUME NEW r \in Requests, SelectMiss(r) PROVE BalIInv'
    BY <1>11, OtherStep DEF SelectMiss, BalIInv, TaskTypes
  <1>12. ASSUME NEW r \in Requests, Invoice(r) PROVE BalIInv'
    BY <1>12, OtherStep DEF Invoice, BalIInv, TaskTypes
  <1>13. ASSUME NEW r \in Requests, Retry(r) PROVE BalIInv'
    BY <1>13, OtherStep DEF Retry, BalIInv, TaskTypes
  <1>14. ASSUME NEW r \in Requests, Drop(r) PROVE BalIInv'
    BY <1>14, DropStep
  <1>15. CASE UNCHANGED allVars
    BY <1>15, DiscStep DEF allVars
  <1>16. Background \in Updaters /\ Requests \subseteq Updaters
    BY RequestsAssumption
  <1>17. QED
    BY <1>1, <1>2, <1>3, <1>4, <1>5, <1>6, <1>7, <1>8, <1>9, <1>10, <1>11, <1>12, <1>13,
       <1>14, <1>15, <1>16 DEF BalNext, TaskStep, RequestStep

\* The same beside requests that check health, back off and update as well.
THEOREM PoolCoversForRequests == BalSpec => []PoolCovers
  <1>1. BalIInv /\ [BalNext]_allVars => BalIInv'
    BY BalNextBalIInv
  <1>2. BalIInv => PoolCovers
    BY DEF BalIInv, IInv
  <1>3. QED
    BY <1>1, <1>2, BalInitBalIInv, PTL DEF BalSpec

\* A request that holds a selected backend finds its client in the pool,
\* whatever the background service and other requests do in the meantime.
THEOREM ChosenAlwaysHasClient == BalSpec => []ChosenHasClient
  <1>1. BalIInv /\ [BalNext]_allVars => BalIInv'
    BY BalNextBalIInv
  <1>2. BalIInv => ChosenHasClient
    BY DEF BalIInv
  <1>3. QED
    BY <1>1, <1>2, BalInitBalIInv, PTL DEF BalSpec

\* The types of what no backend depends on.
RestTypes ==
  /\ node \in [Nodes -> NodeState]
  /\ flips \in 0 .. MaxFlips
  /\ metrics \in [Keys -> {"ample", "scarce"} \cup {None}]
  /\ task \in [Updaters -> Task]
  /\ lost \in [Updaters -> BOOLEAN]
  /\ bias \in [Requests -> BOOLEAN]
  /\ tries \in [Requests -> 0 .. MaxRetries]

LEMMA BalInitRestTypes == BalInit => RestTypes
  BY ThresholdAssumption DEF BalInit, RestTypes, Task

\* A task goes from one kind of work to another.
LEMMA BecomesType ==
  ASSUME RestTypes, NEW u, NEW from, NEW to \in Task, Becomes(u, from, to)
  PROVE  task' \in [Updaters -> Task]
  BY DEF RestTypes, Becomes

LEMMA BalNextRestTypes ==
  ASSUME BalIInv, RestTypes, [BalNext]_allVars
  PROVE  RestTypes'
  <1> USE DEF checkVars, reqVars, balVars
  <1>1. CASE NodeChange
    <2>1. flips' \in 0 .. MaxFlips
      BY <1>1, ThresholdAssumption DEF NodeChange, RestTypes
    <2>2. node' \in [Nodes -> NodeState]
      BY <1>1 DEF NodeChange, RestTypes
    <2>3. QED
      BY <1>1, <2>1, <2>2 DEF NodeChange, RestTypes
  <1>2. CASE BalStoreChange
    BY <1>2 DEF BalStoreChange, RestTypes
  <1>3. ASSUME NEW u \in Updaters, BeginUpdate(u) PROVE RestTypes'
    <2>1. task' \in [Updaters -> Task]
      BY <1>3 DEF BeginUpdate, Becomes, RestTypes, Task
    <2>2. QED
      BY <1>3, <2>1 DEF BeginUpdate, RestTypes
  <1>4. ASSUME NEW u \in Updaters, BalUpdateStep(u) PROVE RestTypes'
    BY <1>4 DEF BalUpdateStep, RestTypes
  <1>5. ASSUME NEW u \in Updaters, BeginCheck(u) PROVE RestTypes'
    <2>1. task' \in [Updaters -> Task]
      BY <1>5 DEF BeginCheck, Becomes, RestTypes, Task
    <2>2. QED
      BY <1>5, <2>1 DEF BeginCheck, RestTypes
  <1>6. ASSUME NEW u \in Updaters, Check(u) PROVE RestTypes'
    <2>1. PICK b \in todo[u] :
              metrics' = IF Key(b) \in pool /\ node[b.node] # "down"
                         THEN [metrics EXCEPT ![Key(b)] = node[b.node]] ELSE metrics
      BY <1>6 DEF Check, CheckOf
    <2>2. node[b.node] \in NodeState
      BY <2>1 DEF BalIInv, TaskTypes, RestTypes, Backend
    <2>3. metrics' \in [Keys -> {"ample", "scarce"} \cup {None}]
      BY <2>1, <2>2 DEF RestTypes, NodeState
    <2>4. QED
      BY <1>6, <2>3 DEF Check, CheckOf, RestTypes
  <1>7. ASSUME NEW u \in Updaters, Observe(u) PROVE RestTypes'
    BY <1>7 DEF Observe, RestTypes
  <1>8. ASSUME NEW u \in Updaters, EndCheck(u) PROVE RestTypes'
    <2>1. task' \in [Updaters -> Task]
      BY <1>8 DEF EndCheck, Becomes, RestTypes, Task
    <2>2. QED
      BY <1>8, <2>1 DEF EndCheck, RestTypes
  <1>9. ASSUME NEW r \in Requests, Arrive(r) PROVE RestTypes'
    <2>1. task' \in [Updaters -> Task]
      BY <1>9 DEF Arrive, Becomes, RestTypes, Task
    <2>2. QED
      BY <1>9, <2>1, OfferAssumption DEF Arrive, RestTypes
  <1>10. ASSUME NEW r \in Requests, SelectHit(r) PROVE RestTypes'
    <2>1. task' \in [Updaters -> Task]
      BY <1>10 DEF SelectHit, Becomes, RestTypes, Task
    <2>2. QED
      BY <1>10, <2>1 DEF SelectHit, RestTypes
  <1>11. ASSUME NEW r \in Requests, SelectMiss(r) PROVE RestTypes'
    <2>1. task' \in [Updaters -> Task]
      BY <1>11 DEF SelectMiss, Becomes, RestTypes, Task
    <2>2. QED
      BY <1>11, <2>1 DEF SelectMiss, RestTypes
  <1>12. ASSUME NEW r \in Requests, Invoice(r) PROVE RestTypes'
    <2>1. task' \in [Updaters -> Task]
      BY <1>12, BecomesType DEF Invoice, Outcomes, Task, Final
    <2>2. QED
      BY <1>12, <2>1 DEF Invoice, RestTypes
  <1>13. ASSUME NEW r \in Requests, Retry(r) PROVE RestTypes'
    <2>1. task' \in [Updaters -> Task]
      BY <1>13, BecomesType DEF Retry, Task, Final
    <2>2. tries' \in [Requests -> 0 .. MaxRetries]
      BY <1>13, ThresholdAssumption DEF Retry, RestTypes
    <2>3. QED
      BY <1>13, <2>1, <2>2 DEF Retry, RestTypes
  <1>14. ASSUME NEW r \in Requests, Drop(r) PROVE RestTypes'
    <2>1. task' \in [Updaters -> Task]
      BY <1>14 DEF Drop, RestTypes, Task, Final
    <2>2. QED
      BY <1>14, <2>1 DEF Drop, RestTypes
  <1>15. CASE UNCHANGED allVars
    BY <1>15 DEF allVars, RestTypes
  <1>16. Background \in Updaters /\ Requests \subseteq Updaters
    BY RequestsAssumption
  <1>17. QED
    BY <1>1, <1>2, <1>3, <1>4, <1>5, <1>6, <1>7, <1>8, <1>9, <1>10, <1>11, <1>12, <1>13,
       <1>14, <1>15, <1>16 DEF BalNext, TaskStep, RequestStep

\* Types are kept: a check only records what a node that is up reports, a
\* request never retries beyond its budget.
THEOREM BalancerTypes == BalSpec => []BalTypeOK
  <1>1. BalIInv /\ RestTypes /\ [BalNext]_allVars => BalIInv' /\ RestTypes'
    BY BalNextBalIInv, BalNextRestTypes
  <1>2. BalIInv /\ RestTypes => BalTypeOK
    BY DEF BalIInv, IInv, TaskTypes, RestTypes, BalTypeOK
  <1>3. QED
    BY <1>1, <1>2, BalInitBalIInv, BalInitRestTypes, PTL DEF BalSpec

-----------------------------------------------------------------------------
(* An instance whose background service is the only one to update, because *)
(* no request backs off.  What it knows of the list it last asked for      *)
(* follows it from step to step, unless the store changes meanwhile: then  *)
(* the remembered etag is not the store's and claims nothing.              *)

\* The stages in which pingora installs what discover found.
Installing == {"selector", "backends", "table"}

\* Every backend of the set has an entry in the health table, or will have one
\* once the table that is being installed is.
HealthCovers ==
  /\ pc[Background] # "table" => \A b \in backends : health[Key(b)] # None
  /\ pc[Background] \in Installing =>
         \A b \in job[Background].found : job[Background].table[Key(b)] # None

\* Selector and set are the same, but for the moment between the two stores.
Installed ==
  /\ selector = IF pc[Background] = "backends" THEN job[Background].found ELSE backends
  /\ pc[Background] = "table" => backends = job[Background].found

\* The cache is the stored list, as far as it could be connected.
CacheCurrent == cache = Connected(store, skipped)

EtagsBehind == last_etag <= etag /\ job[Background].low <= etag

\* Between two updates, and until the answer of the store is looked at.
PollCurrent ==
  pc[Background] \in {"idle", "fetch", "answered"} =>
      (last_etag = etag => CacheCurrent /\ MatchesStore)

\* A list is the stored one if its etag is the store's.
AnswerCurrent ==
  pc[Background] = "answered" =>
      /\ job[Background].etag <= etag
      /\ job[Background].etag = etag => job[Background].list \in {None, store}

ConnectCurrent ==
  pc[Background] = "connect" =>
      (last_etag = etag => job[Background].list = store)

\* The result of discover: the connected list, or the cache once more.
UpdateCurrent ==
  pc[Background] = "update" =>
      (last_etag = etag =>
          /\ CacheCurrent
          /\ job[Background].found = cache
          /\ \/ job[Background].enablement = EnablementOf(store, skipped)
             \/ job[Background].enablement = NoEnablement /\ MatchesStore)

TableCurrent ==
  pc[Background] \in Installing =>
      (last_etag = etag =>
          /\ CacheCurrent
          /\ job[Background].found = cache
          /\ \A b \in cache :
                 job[Background].table[Key(b)].enabled = store[b.node].enabled)

AloneInv ==
  /\ HealthCovers /\ Installed /\ EtagsBehind
  /\ PollCurrent /\ AnswerCurrent /\ ConnectCurrent /\ UpdateCurrent /\ TableCurrent

LEMMA ConnectedIsWanted ==
  ASSUME NEW list, NEW failed
  PROVE  Connected(list, failed) = {b \in Wanted(list) : b.node \notin failed}
  BY DEF Connected, Wanted, BackendOf

\* What discover says of the enablement of a connected backend is its row's.
LEMMA RowEnabled ==
  ASSUME NEW list \in BackendList, NEW failed, NEW b \in Backend,
         Key(b) \in KeysOf(Connected(list, failed))
  PROVE  /\ list[b.node].enabled \in BOOLEAN
         /\ EnablementOf(list, failed)[Key(b)] = list[b.node].enabled
  <1>1. Key(b) \in Keys
    BY DEF Key, Keys, Backend
  <1>2. EnablementOf(list, failed)[Key(b)] = list[b.node].enabled
    BY <1>1 DEF EnablementOf, Key
  <1>3. b.node \in ServedNodes(list)
    BY DEF KeysOf, Key, Connected, BackendOf
  <1>4. list[b.node] \in DiscoveryBackendSparse
    BY <1>3 DEF ServedNodes, BackendList
  <1>5. QED
    BY <1>2, <1>4 DEF DiscoveryBackendSparse

\* An answer about enablement is applied, no answer keeps what is there.
LEMMA EnabledAs ==
  ASSUME NEW h \in Health, NEW a
  PROVE  /\ a \in BOOLEAN => Enabled(h, a).enabled = a
         /\ a = None => Enabled(h, a) = h
  BY NoneAssumption DEF Enabled, Health

LEMMA InitAlone ==
  ASSUME DiscInit, etag = IF store = EmptyList THEN 0 ELSE 1
  PROVE  AloneInv
  <1>1. /\ pc[Background] = "idle" /\ job[Background] = NoJob
        /\ last_etag = 0 /\ cache = {} /\ selector = {} /\ backends = {}
    BY UpdatersAssumption DEF DiscInit
  <1>2. last_etag = etag => store = EmptyList
    BY <1>1
  <1>3. last_etag = etag => Connected(store, skipped) = {}
    BY <1>2 DEF Connected, ServedNodes, EmptyList
  <1>4. last_etag = etag => CacheCurrent /\ MatchesStore
    BY <1>1, <1>3, ConnectedIsWanted DEF CacheCurrent, MatchesStore
  <1>5. HealthCovers /\ Installed /\ EtagsBehind
    BY <1>1 DEF HealthCovers, Installing, Installed, EtagsBehind, NoJob
  <1>6. QED
    BY <1>1, <1>4, <1>5
       DEF AloneInv, PollCurrent, AnswerCurrent, ConnectCurrent, UpdateCurrent, TableCurrent, Installing

\* A step that ends before the update is worked out: nothing has been installed.
LEMMA AloneFetches ==
  ASSUME IInv, AloneInv,
         \/ StoreChange \/ LoadEtag(Background) \/ Answer(Background)
         \/ FetchFails(Background) \/ StoreEtag(Background)
  PROVE  AloneInv'
  <1> USE UpdatersAssumption DEF IInv
  <1>1. CASE StoreChange
    <2>1. last_etag' # etag' /\ EtagsBehind'
      BY <1>1 DEF StoreChange, discVars, AloneInv, EtagsBehind, TypeOK, Job
    <2>2. HealthCovers' /\ Installed'
      BY <1>1 DEF StoreChange, discVars, AloneInv, HealthCovers, Installed
    <2>3. AnswerCurrent'
      BY <1>1 DEF StoreChange, discVars, AloneInv, AnswerCurrent, TypeOK, Job
    <2>4. QED
      BY <2>1, <2>2, <2>3
         DEF AloneInv, PollCurrent, ConnectCurrent, UpdateCurrent, TableCurrent, Installing
  <1>2. CASE LoadEtag(Background)
    <2>1. pc[Background] = "idle" /\ pc'[Background] = "fetch"
      BY <1>2 DEF LoadEtag, Goto, TypeOK
    <2>2. job'[Background].low = etag
      BY <1>2, LoadJob DEF TypeOK
    <2>3. QED
      BY <1>2, <2>1, <2>2
         DEF LoadEtag, AloneInv, HealthCovers, Installed, EtagsBehind, PollCurrent, AnswerCurrent,
             ConnectCurrent, UpdateCurrent, TableCurrent, Installing, CacheCurrent, MatchesStore, TypeOK
  <1>3. CASE Answer(Background)
    <2>1. pc[Background] = "fetch" /\ pc'[Background] = "answered"
      BY <1>3 DEF Answer, Goto, TypeOK
    <2>2. /\ job'[Background].etag <= etag /\ job'[Background].list \in {None, store}
          /\ job'[Background].low = 0
      BY <1>3, AnswerJob DEF TypeOK
    <2>3. EtagsBehind'
      BY <1>3, <2>2 DEF Answer, AloneInv, EtagsBehind, TypeOK
    <2>4. QED
      BY <1>3, <2>1, <2>2, <2>3
         DEF Answer, AloneInv, HealthCovers, Installed, PollCurrent, AnswerCurrent,
             ConnectCurrent, UpdateCurrent, TableCurrent, Installing, CacheCurrent, MatchesStore
  <1>4. CASE FetchFails(Background)
    <2>1. /\ pc[Background] = "fetch" /\ pc'[Background] = "idle"
          /\ job'[Background].low = 0
      BY <1>4 DEF FetchFails, Goto, TypeOK, NoJob
    <2>2. QED
      BY <1>4, <2>1
         DEF FetchFails, AloneInv, HealthCovers, Installed, EtagsBehind, PollCurrent, AnswerCurrent,
             ConnectCurrent, UpdateCurrent, TableCurrent, Installing, CacheCurrent, MatchesStore, TypeOK
  <1>5. CASE StoreEtag(Background)
    <2>1. pc[Background] = "answered" /\ pc'[Background] = "connect"
      BY <1>5 DEF StoreEtag, Goto, TypeOK
    <2>2. QED
      BY <1>5, <2>1
         DEF StoreEtag, AloneInv, HealthCovers, Installed, EtagsBehind, PollCurrent, AnswerCurrent,
             ConnectCurrent, UpdateCurrent, TableCurrent, Installing
  <1>6. QED
    BY <1>1, <1>2, <1>3, <1>4, <1>5

\* The result of discover is the stored list if the remembered etag is current.
LEMMA AloneDiscovers ==
  ASSUME IInv, AloneInv, NotModified(Background) \/ ConnectAll(Background)
  PROVE  AloneInv'
  <1> USE UpdatersAssumption DEF IInv
  <1>1. CASE NotModified(Background)
    <2>1. pc[Background] = "answered" /\ pc'[Background] = "update"
      BY <1>1 DEF NotModified, Goto, TypeOK
    <2>2. /\ job'[Background].found = cache /\ job'[Background].enablement = NoEnablement
          /\ job'[Background].low = 0
      BY <1>1, NotModifiedJob DEF TypeOK
    <2>3. MatchesStore => MatchesStore'
      BY <1>1 DEF NotModified, MatchesStore
    <2>4. EtagsBehind'
      BY <1>1, <2>2 DEF NotModified, AloneInv, EtagsBehind, TypeOK
    <2>5. QED
      BY <1>1, <2>1, <2>2, <2>3, <2>4
         DEF NotModified, AloneInv, HealthCovers, Installed, PollCurrent, AnswerCurrent,
             ConnectCurrent, UpdateCurrent, TableCurrent, Installing, CacheCurrent
  <1>2. CASE ConnectAll(Background)
    <2>1. PICK failed \in SUBSET ServedNodes(job[Background].list), j \in Job :
              /\ skipped' = failed
              /\ cache' = Connected(job[Background].list, failed)
              /\ job' = [job EXCEPT ![Background] = j] /\ j.low = 0
              /\ j.found = Connected(job[Background].list, failed)
              /\ j.enablement = EnablementOf(job[Background].list, failed)
      <3>1. job[Background].list \in BackendList
        BY <1>2 DEF ConnectAll, HasList, TypeOK, Job
      <3>2. QED
        BY <1>2, <3>1, ConnectJob
    <2>2. /\ pc[Background] = "connect" /\ pc'[Background] = "update"
          /\ UNCHANGED <<store, etag, last_etag, selector, backends, health>>
      BY <1>2 DEF ConnectAll, ConnectRows, Goto, TypeOK
    <2>3. /\ job'[Background].found = Connected(job[Background].list, failed)
          /\ job'[Background].enablement = EnablementOf(job[Background].list, failed)
          /\ job'[Background].low = 0
      BY <2>1 DEF TypeOK
    <2>4. UpdateCurrent'
      BY <2>1, <2>2, <2>3 DEF AloneInv, ConnectCurrent, UpdateCurrent, CacheCurrent
    <2>5. HealthCovers' /\ Installed' /\ EtagsBehind'
      BY <2>2, <2>3 DEF AloneInv, HealthCovers, Installing, Installed, EtagsBehind, TypeOK
    <2>6. QED
      BY <2>2, <2>4, <2>5
         DEF AloneInv, PollCurrent, AnswerCurrent, ConnectCurrent, TableCurrent, Installing
  <1>3. QED
    BY <1>1, <1>2

\* What an update that has its result knows of the table it computes.
LEMMA NewTableOf ==
  ASSUME IInv, NEW found \in SUBSET Backend, NEW en \in [Keys -> BOOLEAN \cup {None}],
         NEW b \in found
  PROVE  /\ NewTable(found, en)[Key(b)] # None
         /\ en[Key(b)] \in BOOLEAN => NewTable(found, en)[Key(b)].enabled = en[Key(b)]
  <1>1. Key(b) \in Keys /\ Key(b) \in KeysOf(found)
    BY DEF Key, Keys, Backend, KeysOf
  <1>2. PICK h \in Health : NewTable(found, en)[Key(b)] = Enabled(h, en[Key(b)])
    <2>1. DefaultHealth \in Health
      BY DEF DefaultHealth, Health
    <2>2. health[Key(b)] # None => health[Key(b)] \in Health
      BY <1>1 DEF IInv, TypeOK
    <2>3. QED
      BY <1>1, <2>1, <2>2 DEF NewTable
  <1>3. NewTable(found, en)[Key(b)] \in Health
    BY <1>1, <1>2, EnabledType
  <1>4. QED
    BY <1>2, <1>3, EnabledAs, NoneIsNoHealth

LEMMA AloneBuildsTable ==
  ASSUME IInv, AloneInv, BuildTable(Background)
  PROVE  AloneInv'
  <1> USE UpdatersAssumption DEF IInv
  <1>1. PICK found \in SUBSET Backend, en \in [Keys -> BOOLEAN \cup {None}] :
            /\ found = job[Background].found /\ en = job[Background].enablement
    BY DEF TypeOK, Job
  <1>2. /\ pc[Background] = "update" /\ pc'[Background] = "selector"
        /\ UNCHANGED <<store, etag, last_etag, cache, pool, selector, backends, health, skipped>>
        /\ KeysOf(found) # KeysOf(backends)
    BY <1>1 DEF BuildTable, Goto, TypeOK
  <1>3. /\ job'[Background].table = NewTable(found, en)
        /\ job'[Background].found = found /\ job'[Background].low = 0
    BY <1>1, BuildJob DEF TypeOK
  <1>4. HealthCovers'
    BY <1>2, <1>3, NewTableOf DEF AloneInv, HealthCovers
  <1>5. TableCurrent'
    <2>1. SUFFICES ASSUME last_etag = etag
                   PROVE  /\ CacheCurrent /\ found = cache
                          /\ \A b \in found : NewTable(found, en)[Key(b)].enabled
                                                = store[b.node].enabled
      BY <1>2, <1>3 DEF TableCurrent, CacheCurrent
    <2>2. CacheCurrent /\ found = cache
      BY <1>1, <1>2, <2>1 DEF AloneInv, UpdateCurrent
    <2>3. ~MatchesStore
      BY <1>2, <2>2, ConnectedIsWanted DEF MatchesStore, CacheCurrent
    <2>4. en = EnablementOf(store, skipped)
      BY <1>1, <1>2, <2>1, <2>3 DEF AloneInv, UpdateCurrent
    <2>5. ASSUME NEW b \in found
          PROVE  NewTable(found, en)[Key(b)].enabled = store[b.node].enabled
      <3>1. Key(b) \in KeysOf(Connected(store, skipped))
        BY <2>2 DEF CacheCurrent, KeysOf
      <3>2. en[Key(b)] = store[b.node].enabled /\ en[Key(b)] \in BOOLEAN
        BY <2>4, <3>1, RowEnabled DEF TypeOK
      <3>3. QED
        BY <3>2, NewTableOf
    <2>6. QED
      BY <2>2, <2>5
  <1>6. QED
    BY <1>2, <1>3, <1>4, <1>5
       DEF AloneInv, Installed, EtagsBehind, PollCurrent, AnswerCurrent, ConnectCurrent,
           UpdateCurrent, TypeOK

LEMMA AloneSwapsSelector ==
  ASSUME IInv, AloneInv, SwapSelector(Background)
  PROVE  AloneInv'
  <1> USE UpdatersAssumption DEF IInv
  <1>1. /\ pc[Background] = "selector" /\ pc'[Background] = "backends"
        /\ UNCHANGED <<store, etag, last_etag, cache, backends, health, job, skipped>>
        /\ selector' = job[Background].found
    BY DEF SwapSelector, Goto, TypeOK
  <1>2. QED
    BY <1>1
       DEF AloneInv, HealthCovers, Installing, Installed, EtagsBehind, PollCurrent,
           AnswerCurrent, ConnectCurrent, UpdateCurrent, TableCurrent, CacheCurrent

LEMMA AloneSwapsBackends ==
  ASSUME IInv, AloneInv, SwapBackends(Background)
  PROVE  AloneInv'
  <1> USE UpdatersAssumption DEF IInv
  <1>1. /\ pc[Background] = "backends" /\ pc'[Background] = "table"
        /\ UNCHANGED <<store, etag, last_etag, cache, selector, health, job, skipped>>
        /\ backends' = job[Background].found
    BY DEF SwapBackends, Goto, TypeOK
  <1>2. QED
    BY <1>1
       DEF AloneInv, HealthCovers, Installing, Installed, EtagsBehind, PollCurrent,
           AnswerCurrent, ConnectCurrent, UpdateCurrent, TableCurrent, CacheCurrent

LEMMA AloneSwapsTable ==
  ASSUME IInv, AloneInv, SwapTable(Background)
  PROVE  AloneInv'
  <1> USE UpdatersAssumption DEF IInv
  <1>1. /\ pc[Background] = "table" /\ pc'[Background] = "idle"
        /\ UNCHANGED <<store, etag, last_etag, cache, selector, backends, skipped>>
        /\ health' = job[Background].table /\ job'[Background].low = 0
    BY DEF SwapTable, Goto, TypeOK, NoJob
  <1>2. backends = job[Background].found /\ selector = backends /\ HealthCovers' /\ Installed'
    BY <1>1 DEF AloneInv, HealthCovers, Installing, Installed
  <1>3. ASSUME last_etag = etag PROVE CacheCurrent' /\ MatchesStore'
    <2>1. CacheCurrent /\ backends = cache
      BY <1>1, <1>2, <1>3 DEF AloneInv, TableCurrent, Installing
    <2>2. KeysOf(backends) = KeysOf({b \in Wanted(store) : b.node \notin skipped})
      BY <2>1, ConnectedIsWanted DEF CacheCurrent
    <2>3. \A b \in backends : /\ health'[Key(b)] # None
                              /\ health'[Key(b)].enabled = store[b.node].enabled
      BY <1>1, <1>2, <1>3, <2>1 DEF AloneInv, HealthCovers, TableCurrent, Installing
    <2>4. QED
      BY <1>1, <1>2, <2>1, <2>2, <2>3 DEF MatchesStore, CacheCurrent
  <1>4. QED
    BY <1>1, <1>2, <1>3
       DEF AloneInv, EtagsBehind, PollCurrent, AnswerCurrent, ConnectCurrent, UpdateCurrent,
           TableCurrent, Installing, TypeOK

LEMMA AloneKeepsBackends ==
  ASSUME IInv, AloneInv, SameBackends(Background)
  PROVE  AloneInv'
  <1> USE UpdatersAssumption DEF IInv
  <1>1. PICK en \in [Keys -> BOOLEAN \cup {None}] : en = job[Background].enablement
    BY DEF TypeOK, Job
  <1>2. /\ pc[Background] = "update" /\ pc'[Background] = "idle"
        /\ UNCHANGED <<store, etag, last_etag, cache, selector, backends, skipped>>
        /\ KeysOf(job[Background].found) = KeysOf(backends) /\ job'[Background].low = 0
    BY DEF SameBackends, Goto, TypeOK, NoJob
  <1>3. ASSUME NEW b \in backends
        PROVE  /\ b \in Backend /\ Key(b) \in Keys
               /\ health[Key(b)] # None /\ health[Key(b)] \in Health
               /\ health'[Key(b)] = Enabled(health[Key(b)], en[Key(b)])
    <2>1. b \in Backend
      BY DEF TypeOK
    <2>2. Key(b) \in Keys
      BY <2>1 DEF Key, Keys, Backend
    <2>3. health[Key(b)] # None
      BY <1>2 DEF AloneInv, HealthCovers
    <2>4. QED
      BY <1>1, <2>1, <2>2, <2>3 DEF SameBackends, TypeOK
  <1>4. \A b \in backends : health'[Key(b)] # None
    BY <1>3, EnabledType, NoneIsNoHealth
  <1>5. selector = backends /\ HealthCovers' /\ Installed'
    BY <1>2, <1>4 DEF AloneInv, HealthCovers, Installing, Installed
  <1>6. ASSUME last_etag = etag PROVE CacheCurrent' /\ MatchesStore'
    <2>1. CacheCurrent /\ job[Background].found = cache
      BY <1>2, <1>6 DEF AloneInv, UpdateCurrent
    <2>2. KeysOf(backends) = KeysOf(Connected(store, skipped))
      BY <1>2, <2>1 DEF CacheCurrent
    <2>3. ASSUME NEW b \in backends PROVE health'[Key(b)].enabled = store[b.node].enabled
      <3>1. CASE en = EnablementOf(store, skipped)
        <4>1. Key(b) \in KeysOf(Connected(store, skipped))
          BY <2>2 DEF KeysOf
        <4>2. en[Key(b)] = store[b.node].enabled /\ en[Key(b)] \in BOOLEAN
          BY <1>3, <3>1, <4>1, RowEnabled DEF TypeOK
        <4>3. QED
          BY <1>3, <4>2, EnabledAs
      <3>2. CASE en = NoEnablement /\ MatchesStore
        <4>1. en[Key(b)] = None
          BY <1>3, <3>2 DEF NoEnablement
        <4>2. health'[Key(b)] = health[Key(b)]
          BY <1>3, <4>1, EnabledAs
        <4>3. QED
          BY <3>2, <4>2 DEF MatchesStore
      <3>3. QED
        BY <1>1, <1>2, <1>6, <3>1, <3>2 DEF AloneInv, UpdateCurrent
    <2>4. QED
      BY <1>2, <1>4, <1>5, <2>1, <2>2, <2>3, ConnectedIsWanted DEF MatchesStore, CacheCurrent
  <1>7. QED
    BY <1>2, <1>5, <1>6
       DEF AloneInv, EtagsBehind, PollCurrent, AnswerCurrent, ConnectCurrent, UpdateCurrent,
           TableCurrent, Installing, TypeOK

\* An observed answer changes no enablement and removes no entry.
LEMMA AloneObserves ==
  ASSUME BalIInv, AloneInv, NEW u \in Updaters, Observe(u)
  PROVE  AloneInv'
  <1> USE DEF BalIInv, IInv
  <1>1. PICK s \in seen[u] :
            health' = IF lost[u] \/ health[s[1]] = None THEN health
                      ELSE [health EXCEPT ![s[1]] = Observed(@, s[2])]
    BY DEF Observe
  <1>2. s[1] \in Keys /\ s[2] \in BOOLEAN
    BY <1>1 DEF TaskTypes
  <1>3. ASSUME NEW h \in Health PROVE Observed(h, s[2]).enabled = h.enabled
    BY DEF Observed, Health
  <1>4. ASSUME NEW k \in Keys, health[k] # None
        PROVE  health'[k] # None /\ health'[k].enabled = health[k].enabled
    <2>1. health[k] \in Health
      BY <1>4 DEF TypeOK
    <2>2. Observed(health[k], s[2]) \in Health
      BY <1>2, <2>1, ObservedType
    <2>3. health'[k] \in {health[k], Observed(health[k], s[2])}
      BY <1>1, <1>2 DEF TypeOK
    <2>4. QED
      BY <1>3, <1>4, <2>1, <2>2, <2>3, NoneIsNoHealth
  <1>5. \A b \in backends : Key(b) \in Keys
    BY DEF TypeOK, Backend, Key, Keys
  <1>6. HealthCovers' /\ Installed'
    BY <1>4, <1>5 DEF Observe, AloneInv, HealthCovers, Installed
  <1>7. MatchesStore => MatchesStore'
    BY <1>4, <1>5 DEF Observe, MatchesStore
  <1>8. QED
    BY <1>6, <1>7
       DEF Observe, AloneInv, EtagsBehind, PollCurrent, AnswerCurrent, ConnectCurrent,
           UpdateCurrent, TableCurrent, Installing, CacheCurrent

LEMMA AloneStutters ==
  ASSUME AloneInv, UNCHANGED vars
  PROVE  AloneInv'
  BY DEF vars, discVars, AloneInv, HealthCovers, Installed, EtagsBehind, PollCurrent, AnswerCurrent,
         ConnectCurrent, UpdateCurrent, TableCurrent, Installing, CacheCurrent, MatchesStore

LEMMA AloneNext ==
  ASSUME Updaters = {Background}, IInv, AloneInv, [Next]_vars
  PROVE  AloneInv'
  BY AloneFetches, AloneDiscovers, AloneBuildsTable, AloneSwapsSelector, AloneSwapsBackends,
     AloneSwapsTable, AloneKeepsBackends, AloneStutters DEF Next, UpdateStep

LEMMA AloneBalNext ==
  ASSUME Requests = {}, BalIInv, AloneInv, [BalNext]_allVars
  PROVE  AloneInv'
  <1>1. Updaters = {Background}
    BY RequestsAssumption
  <1>2. CASE [Next]_vars
    BY <1>1, <1>2, AloneNext DEF BalIInv
  <1>3. ASSUME NEW u \in Updaters, TaskStep(u), ~[Next]_vars PROVE AloneInv'
    <2>1. Observe(u)
      BY <1>3 DEF TaskStep, BalUpdateStep, Next, BeginCheck, Check, CheckOf, EndCheck
    <2>2. QED
      BY <2>1, AloneObserves
  <1>4. NodeChange \/ BalStoreChange \/ BeginUpdate(Background) => [Next]_vars
    BY UpdatersAssumption DEF NodeChange, BalStoreChange, BeginUpdate, Next
  <1>5. UNCHANGED allVars => [Next]_vars
    BY DEF allVars
  <1>6. QED
    BY <1>2, <1>3, <1>4, <1>5 DEF BalNext

LEMMA AloneSettles == AloneInv => SettledMatchesStore
  BY UpdatersAssumption DEF AloneInv, PollCurrent, SettledMatchesStore, Settled

\* Where only the background service updates, the remembered etag is never
\* ahead of the set, the enablement and the health table it stands for: for
\* every list, every order of changes, failed connects, failed polls, health
\* answers and polls answered with an older etag.
THEOREM LoneUpdaterSettles ==
  ASSUME Requests = {}
  PROVE  BalSpec => []SettledMatchesStore
  <1>1. BalInit => AloneInv
    BY InitAlone DEF BalInit
  <1>2. BalIInv /\ AloneInv /\ [BalNext]_allVars => BalIInv' /\ AloneInv'
    BY BalNextBalIInv, AloneBalNext
  <1>3. QED
    BY <1>1, <1>2, BalInitBalIInv, AloneSettles, PTL DEF BalSpec

=============================================================================
