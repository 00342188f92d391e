------------------------ MODULE DiscoveryHttp_proofs ------------------------
(* What the memory store's pollers can rely on, for every set of nodes and *)
(* clients, with and without restarts of its process, and what the callers *)
(* of its HTTP service are told.                                           *)
EXTENDS DiscoveryHttp, FiniteSetTheorems, TLAPS

\* A list served by this process is labelled no later than the current etag,
\* and is the current list when the label is the current etag.  Lists served
\* by an earlier process may carry any label.
Served(c) ==
  since[c] = restarts =>
      /\ view[c].etag <= etag
      /\ view[c].etag = etag => view[c].list = store

IInv ==
  /\ TypeOK
  /\ \A c \in Clients : since[c] <= restarts /\ Served(c)

LEMMA EmptyListType == EmptyList \in BackendList
  BY DEF EmptyList, BackendList

LEMMA PatchedRow ==
  ASSUME NEW row \in DiscoveryBackendSparse, NEW p \in DiscoveryBackendPatchSparse
  PROVE  ApplyPatch(row, p) \in DiscoveryBackendSparse
  BY DEF ApplyPatch, DiscoveryBackendSparse, DiscoveryBackendPatchSparse

\* A mutation replaces one row and moves the etag on, or changes nothing.
LEMMA MutationShape ==
  ASSUME TypeOK, Mutate
  PROVE  /\ last' \in Mutation
         /\ UNCHANGED <<view, restarts, since>>
         /\ \/ store' \in BackendList /\ etag' = etag + 1
            \/ UNCHANGED <<store, etag>>
  <1> DEFINE Shape == /\ last' \in Mutation
                      /\ UNCHANGED <<view, restarts, since>>
                      /\ \/ store' \in BackendList /\ etag' = etag + 1
                         \/ UNCHANGED <<store, etag>>
  <1>1. ASSUME NEW op \in {"post", "put", "patch", "delete"}, NEW n \in Nodes,
               NEW row \in DiscoveryBackendSparse \cup {None},
               NEW new \in DiscoveryBackendSparse \cup {None}, NEW ok \in BOOLEAN,
               Write(op, n, row, new, ok)
        PROVE  Shape
    BY <1>1 DEF Write, TypeOK, BackendList, Mutation
  <1>2. ASSUME NEW op \in {"post", "put", "patch", "delete"}, NEW n \in Nodes,
               NEW row \in DiscoveryBackendSparse \cup {None}, Refuse(op, n, row)
        PROVE  Shape
    BY <1>2 DEF Refuse, Mutation
  <1> HIDE DEF Shape
  <1>3. ASSUME NEW n \in Nodes PROVE store[n] \in DiscoveryBackendSparse \cup {None}
    BY DEF TypeOK, BackendList
  <1>4. ASSUME NEW n \in Nodes, NEW row \in DiscoveryBackendSparse, post(n, row)
        PROVE  Shape
    BY <1>1, <1>2, <1>4 DEF post
  <1>5. ASSUME NEW n \in Nodes, NEW row \in DiscoveryBackendSparse, put(n, row)
        PROVE  Shape
    BY <1>1, <1>5 DEF put
  <1>6. ASSUME NEW n \in Nodes, NEW p \in DiscoveryBackendPatchSparse, patch(n, p)
        PROVE  Shape
    <2>1. CASE store[n] = None
      BY <1>2, <1>6, <2>1 DEF patch
    <2>2. CASE store[n] # None
      <3>1. ApplyPatch(store[n], p) \in DiscoveryBackendSparse
        BY <1>3, <2>2, PatchedRow
      <3>2. QED
        BY <1>1, <1>6, <2>2, <3>1 DEF patch
    <2>3. QED
      BY <2>1, <2>2
  <1>7. ASSUME NEW n \in Nodes, delete(n)
        PROVE  Shape
    BY <1>1, <1>2, <1>7 DEF delete
  <1>8. QED
    BY <1>4, <1>5, <1>6, <1>7 DEF Mutate, Shape

LEMMA InitIInv == Init => IInv
  BY EmptyListType, BoundsAssumption
     DEF Init, IInv, TypeOK, Served, Mutation, NoMutation

LEMMA NextIInv ==
  ASSUME IInv, [Next]_vars
  PROVE  IInv'
  <1> USE DEF IInv, TypeOK, Served
  <1>1. CASE Mutate
    BY <1>1, MutationShape
  <1>2. CASE Restart
    <2>1. NoMutation \in Mutation
      BY DEF NoMutation, Mutation
    <2>2. TypeOK'
      BY <1>2, <2>1, EmptyListType, BoundsAssumption DEF Restart
    <2>3. \A c \in Clients : since[c] < restarts'
      BY <1>2 DEF Restart
    <2>4. QED
      BY <1>2, <2>2, <2>3 DEF Restart
  <1>3. ASSUME NEW c \in Clients, Poll(c) PROVE IInv'
    <2>1. CASE view[c].etag = etag
      BY <1>3, <2>1 DEF Poll, get_all
    <2>2. CASE view[c].etag # etag /\ store = None
      BY <1>3, <2>2 DEF Poll, get_all
    <2>3. CASE view[c].etag # etag /\ store # None
      BY <1>3, <2>3 DEF Poll, get_all
    <2>4. QED
      BY <2>1, <2>2, <2>3
  <1>4. CASE UNCHANGED vars
    BY <1>4 DEF vars
  <1>5. QED
    BY <1>1, <1>2, <1>3, <1>4 DEF Next

\* A client served since the last restart that holds the current etag holds
\* the current list, however often the process restarts.
THEOREM MemoryListMatchesEtag == Spec => []ListMatchesEtagThisBoot
  <1>1. IInv /\ [Next]_vars => IInv'
    BY NextIInv
  <1>2. IInv => ListMatchesEtagThisBoot
    BY DEF IInv, Served, ListMatchesEtagThisBoot
  <1>3. QED
    BY <1>1, <1>2, InitIInv, PTL DEF Spec

\* Every step of a process that is never restarted is a step of VersionedList
\* or changes nothing a poller can tell.
LEMMA StepSimulation ==
  ASSUME MaxRestarts = 0, IInv, [Next]_vars
  PROVE  [API!Next]_(API!vars)
  <1> USE DEF API!vars
  <1>1. CASE Mutate
    BY <1>1, MutationShape
       DEF IInv, API!Next, API!Publish, BackendList, API!BackendList,
           DiscoveryBackendSparse, API!DiscoveryBackendSparse
  <1>2. CASE Restart
    BY <1>2, MaxRestarts = 0 DEF Restart, IInv, TypeOK
  <1>3. ASSUME NEW c \in Clients, Poll(c) PROVE API!Refresh(c) \/ UNCHANGED API!vars
    <2>1. view[c].etag <= etag /\ etag \in Nat /\ view[c].etag \in Nat
      BY MaxRestarts = 0 DEF IInv, Served, TypeOK
    <2>2. etag \in view[c].etag .. etag
      BY <2>1
    <2>3. QED
      BY <1>3, <2>2 DEF Poll, get_all, API!Refresh
  <1>4. CASE UNCHANGED vars
    BY <1>4 DEF vars
  <1>5. QED
    BY <1>1, <1>2, <1>3, <1>4 DEF Next, API!Next

\* As long as its process runs, the memory store implements VersionedList.
THEOREM MemoryImplementsVersionedList ==
  ASSUME MaxRestarts = 0
  PROVE  Spec => ImplementsVersionedList
  <1>1. Init => API!Init
    BY DEF Init, API!Init, EmptyList, API!EmptyList
  <1>2. IInv /\ [Next]_vars => IInv' /\ [API!Next]_(API!vars)
    BY MaxRestarts = 0, NextIInv, StepSimulation
  <1>3. QED
    BY <1>1, <1>2, InitIInv, PTL DEF Spec, ImplementsVersionedList, API!Spec

-----------------------------------------------------------------------------
(* The same store behind its HTTP server, with any number of callers, late *)
(* requests and restarts.                                                  *)

Mutations == {"post", "put", "patch", "delete"}

\* A list on its way to c answers for the store as Served says of a view.
FreshList(c) ==
  /\ call[c].body \in [etag : Nat, list : BackendList]
  /\ call[c].body.etag >= floor[c]
  /\ call[c].boot = restarts =>
         /\ call[c].body.etag <= etag
         /\ call[c].body.etag = etag => call[c].body.list = store

\* A request under way; a poll carries the etag its sender still holds.
SentOK(c) ==
  /\ call[c].req \in Request
  /\ call[c].req.op = "get_all" => c \in Clients /\ call[c].req.arg = view[c].etag

\* A response under way: the refusals, then what each handler answers.
ServedOK(c) ==
  /\ call[c].boot \in Nat /\ call[c].boot <= restarts
  /\ \/ /\ call[c].req.op \in Mutations \cup {"get", "get_all"}
        /\ call[c].status \in {400, 401} /\ call[c].body = None /\ call[c].did = None
     \/ /\ call[c].req.op \in Mutations
        /\ call[c].did \in BOOLEAN /\ call[c].status = Status(call[c].req.op, call[c].did)
        /\ call[c].body \in Nat
        /\ call[c].boot = restarts => call[c].body <= etag
     \/ /\ call[c].req.op = "get"
        /\ call[c].did = call[c].body
        /\ call[c].status = IF call[c].body = None THEN 404 ELSE 200
     \/ /\ call[c].req.op = "get_all" /\ c \in Clients
        /\ call[c].status = 200 /\ FreshList(c)
     \/ /\ call[c].req.op = "get_all" /\ c \in Clients
        /\ call[c].status = 304 /\ view[c].etag >= floor[c]

\* A call that is over: the two properties, caller by caller.
DoneOK(c) ==
  /\ call[c].req.op \notin {"none", "get_all"} =>
         \/ call[c].result.kind = "ok" /\ call[c].result.value = call[c].did
         \/ call[c].result.kind = "invalid_input" /\ call[c].did = None
         \/ call[c].result.kind = "http"
  /\ c \in Clients /\ call[c].result.kind \in {"modified", "not_modified"} =>
         view[c].etag >= floor[c]

CallOK(c) ==
  /\ call[c].phase \in {"done", "sent", "served"}
  /\ call[c].status \in {0, 200, 201, 204, 304, 400, 401, 404, 409}
  /\ floor[c] <= acked
  /\ call[c].phase = "sent" => SentOK(c)
  /\ call[c].phase = "served" => ServedOK(c)
  /\ call[c].phase = "done" => DoneOK(c)

LateOK == late \subseteq Request /\ IsFiniteSet(late) /\ Cardinality(late) <= MaxLate

HttpIInv ==
  /\ IInv
  /\ call = [c \in Callers |-> call[c]]
  /\ acked \in Nat /\ acked <= etag
  /\ floor \in [Callers -> Nat]
  /\ LateOK
  /\ \A c \in Callers : CallOK(c)

-----------------------------------------------------------------------------
(* Lemmas about what travels.                                              *)

LEMMA CommandsAreRequests == Commands \subseteq Request
  <1>1. OneColumn \subseteq DiscoveryBackendPatchSparse
    BY DEF OneColumn, enable_backend, DiscoveryBackendPatchSparse
  <1>2. QED
    BY <1>1 DEF Commands, Request

\* Serving a request is one of the store's own mutations.
LEMMA ApplyMutates ==
  ASSUME NEW req \in Request, Apply(req)
  PROVE  Mutate /\ req.op \in Mutations
  <1>1. CASE req.op = "post" /\ post(req.node, req.arg)
    <2>1. req.node \in Nodes /\ req.arg \in DiscoveryBackendSparse
      BY <1>1 DEF Request
    <2>2. QED
      BY <1>1, <2>1 DEF Apply, Mutate, Mutations
  <1>2. CASE req.op = "put" /\ put(req.node, req.arg)
    <2>1. req.node \in Nodes /\ req.arg \in DiscoveryBackendSparse
      BY <1>2 DEF Request
    <2>2. QED
      BY <1>2, <2>1 DEF Apply, Mutate, Mutations
  <1>3. CASE req.op = "patch" /\ patch(req.node, req.arg)
    <2>1. req.node \in Nodes /\ req.arg \in DiscoveryBackendPatchSparse
      BY <1>3 DEF Request
    <2>2. QED
      BY <1>3, <2>1 DEF Apply, Mutate, Mutations
  <1>4. CASE req.op = "delete" /\ delete(req.node)
    <2>1. req.node \in Nodes
      BY <1>4 DEF Request
    <2>2. QED
      BY <1>4, <2>1 DEF Apply, Mutate, Mutations
  <1>5. QED
    BY <1>1, <1>2, <1>3, <1>4 DEF Apply

\* How the store moves in any step: a new etag for a new list, within one boot.
StoreMoves ==
  /\ restarts' \in Nat /\ restarts' >= restarts
  /\ restarts' = restarts =>
         etag' >= etag /\ (etag' = etag => store' = store)

LEMMA MutateMoves ==
  ASSUME TypeOK, Mutate
  PROVE  StoreMoves /\ UNCHANGED <<view, since, restarts>>
  BY MutationShape, BoundsAssumption DEF StoreMoves, TypeOK

\* A call nobody touches stays right while the store moves on.
LEMMA CallFrame ==
  ASSUME IInv, StoreMoves, etag' \in Nat, acked' \in Nat,
         NEW c \in Callers, CallOK(c), call'[c] = call[c],
         c \in Clients => view'[c] = view[c],
         floor[c] \in Nat, floor'[c] \in Nat, floor'[c] <= floor[c],
         floor'[c] <= acked'
  PROVE  CallOK(c)'
  <1>1. restarts \in Nat /\ etag \in Nat /\ (c \in Clients => view[c].etag \in Nat)
    BY BoundsAssumption DEF IInv, TypeOK
  <1>2. SentOK(c) => SentOK(c)'
    BY DEF SentOK
  <1>3. DoneOK(c) => DoneOK(c)'
    BY <1>1 DEF DoneOK
  <1>4. FreshList(c) /\ call[c].boot \in Nat /\ call[c].boot <= restarts => FreshList(c)'
    BY <1>1 DEF FreshList, StoreMoves
  <1>5. ServedOK(c) => ServedOK(c)'
    BY <1>1, <1>4 DEF ServedOK, StoreMoves
  <1>6. QED
    BY <1>2, <1>3, <1>5 DEF CallOK

\* One call changes: what is left to show is that it is right itself.
LEMMA CallStep ==
  ASSUME HttpIInv, IInv', StoreMoves, LateOK',
         NEW c \in Callers, NEW r, call' = [call EXCEPT ![c] = r],
         \A d \in Clients \ {c} : view'[d] = view[d],
         floor' \in [Callers -> Nat],
         \A d \in Callers \ {c} : floor'[d] = floor[d],
         acked' \in Nat, acked' >= acked, acked' <= etag',
         call'[c] = r => CallOK(c)'
  PROVE  HttpIInv'
  <1>1. /\ call' = [d \in Callers |-> call'[d]]
        /\ call'[c] = r
        /\ \A d \in Callers \ {c} : call'[d] = call[d]
    BY DEF HttpIInv
  <1>2. CallOK(c)'
    BY <1>1
  <1>3. ASSUME NEW d \in Callers \ {c} PROVE CallOK(d)'
    <2>1. /\ floor[d] \in Nat /\ floor'[d] \in Nat /\ floor'[d] <= floor[d]
          /\ acked \in Nat /\ floor[d] <= acked /\ CallOK(d)
          /\ IInv
      BY DEF HttpIInv, CallOK
    <2>2. etag' \in Nat
      BY DEF IInv, TypeOK
    <2>3. floor'[d] <= acked'
      BY <2>1
    <2>4. QED
      BY <1>1, <2>1, <2>2, <2>3, CallFrame
  <1>4. QED
    BY <1>1, <1>2, <1>3 DEF HttpIInv

\* A step that leaves the store alone.
LEMMA StillMoves ==
  ASSUME IInv, UNCHANGED vars
  PROVE  IInv' /\ StoreMoves
  BY NextIInv, BoundsAssumption DEF vars, StoreMoves, IInv, TypeOK

LEMMA Unmoved ==
  ASSUME HttpIInv, UNCHANGED <<vars, late, acked, floor>>
  PROVE  /\ IInv' /\ StoreMoves /\ LateOK'
         /\ acked' \in Nat /\ acked' >= acked /\ acked' <= etag'
         /\ floor' \in [Callers -> Nat]
         /\ \A d \in Callers : floor'[d] = floor[d] /\ floor'[d] <= acked'
         /\ \A d \in Clients : view'[d] = view[d]
         /\ restarts' = restarts /\ restarts \in Nat
         /\ etag' = etag /\ etag \in Nat /\ store' = store
  <1>1. IInv' /\ StoreMoves
    BY StillMoves DEF HttpIInv
  <1>2. QED
    BY <1>1, BoundsAssumption DEF LateOK, HttpIInv, vars, IInv, TypeOK, CallOK

LEMMA SendStep ==
  ASSUME HttpIInv, NEW c \in Callers, NEW req \in Request, Send(c, req),
         req.op = "get_all" => c \in Clients /\ req.arg = view[c].etag
  PROVE  HttpIInv'
  <1> DEFINE r == [NoCall EXCEPT !.phase = "sent", !.req = req]
  <1>1. r.phase = "sent" /\ r.req = req /\ r.status = 0
    BY DEF NoCall
  <1>2. call' = [call EXCEPT ![c] = r] /\ UNCHANGED <<vars, late, acked>>
    BY DEF Send
  <1>3. IInv' /\ StoreMoves
    BY <1>2, StillMoves DEF HttpIInv
  <1>4. /\ floor' \in [Callers -> Nat] /\ floor'[c] = acked
        /\ \A d \in Callers \ {c} : floor'[d] = floor[d]
    BY DEF Send, HttpIInv
  <1> HIDE DEF r
  <1>5. /\ LateOK' /\ acked' \in Nat /\ acked' >= acked /\ acked' <= etag'
        /\ \A d \in Clients : view'[d] = view[d]
    BY <1>2 DEF LateOK, HttpIInv, vars, IInv, TypeOK
  <1>6. call'[c] = r => CallOK(c)'
    BY <1>1, <1>2, <1>4, <1>5 DEF CallOK, SentOK, vars
  <1>7. QED
    BY <1>2, <1>3, <1>4, <1>5, <1>6, CallStep

LEMMA RefusedStep ==
  ASSUME HttpIInv, NEW c \in Callers, Refused(c)
  PROVE  HttpIInv'
  <1> PICK status \in {400, 401} : Responds(c, status, None, None)
    BY DEF Refused
  <1> DEFINE r == [NoCall EXCEPT !.phase = "served", !.req.op = call[c].req.op,
                                 !.status = status, !.body = None, !.did = None,
                                 !.boot = restarts]
  <1>1. /\ r.phase = "served" /\ r.req.op = call[c].req.op /\ r.status = status
        /\ r.body = None /\ r.did = None /\ r.boot = restarts
    BY DEF NoCall, NoRequest
  <1>2. call' = [call EXCEPT ![c] = r] /\ UNCHANGED <<vars, late, acked, floor>>
    BY DEF Refused, Responds
  <1> HIDE DEF r
  <1>3. call[c].req.op \in Mutations \cup {"get", "get_all"}
    BY DEF Refused, HttpIInv, CallOK, SentOK, Request, Mutations
  <1>4. call'[c] = r => CallOK(c)'
    BY <1>1, <1>2, <1>3, Unmoved DEF CallOK, ServedOK
  <1>5. QED
    BY <1>2, <1>4, Unmoved, CallStep

LEMMA GetBackendStep ==
  ASSUME HttpIInv, NEW c \in Callers, get_backend(c)
  PROVE  HttpIInv'
  <1> DEFINE row == store[call[c].req.node]
             status == IF row = None THEN 404 ELSE 200
             r == [NoCall EXCEPT !.phase = "served", !.req.op = call[c].req.op,
                                 !.status = status, !.body = row, !.did = row,
                                 !.boot = restarts]
  <1>1. /\ r.phase = "served" /\ r.req.op = call[c].req.op /\ r.status = status
        /\ r.body = row /\ r.did = row /\ r.boot = restarts
    BY DEF NoCall, NoRequest
  <1>2. /\ call' = [call EXCEPT ![c] = r] /\ UNCHANGED <<vars, late, acked, floor>>
        /\ call[c].req.op = "get"
    BY DEF get_backend, Responds
  <1>3. status = (IF row = None THEN 404 ELSE 200)
    OBVIOUS
  <1> HIDE DEF r, status, row
  <1>4. call'[c] = r => CallOK(c)'
    BY <1>1, <1>2, <1>3, Unmoved DEF CallOK, ServedOK
  <1>5. QED
    BY <1>2, <1>4, Unmoved, CallStep

\* The list answered to a poll is the current one; "not modified" is answered
\* only to a poll that holds the current etag, which is past every floor.
LEMMA GetBackendsStep ==
  ASSUME HttpIInv, NEW c \in Callers, get_backends(c)
  PROVE  HttpIInv'
  <1> DEFINE answer == get_all(call[c].req.arg)
             status == IF answer.list = None THEN 304 ELSE 200
             r == [NoCall EXCEPT !.phase = "served", !.req.op = call[c].req.op,
                                 !.status = status, !.body = answer, !.did = None,
                                 !.boot = restarts]
  <1>1. /\ r.phase = "served" /\ r.req.op = call[c].req.op /\ r.status = status
        /\ r.body = answer /\ r.boot = restarts
    BY DEF NoCall, NoRequest
  <1>2. /\ call' = [call EXCEPT ![c] = r] /\ UNCHANGED <<vars, late, acked, floor>>
        /\ call[c].req.op = "get_all" /\ call[c].phase = "sent"
    BY DEF get_backends, Responds
  <1>3. c \in Clients /\ call[c].req.arg = view[c].etag
    BY <1>2 DEF HttpIInv, CallOK, SentOK
  <1>4. store \in BackendList /\ store # None
    BY NoneIsNoList DEF HttpIInv, IInv, TypeOK
  <1>5. etag >= floor[c]
    BY Unmoved, <1>2 DEF HttpIInv, CallOK
  <1>6. \/ status = 304 /\ view[c].etag = etag
        \/ status = 200 /\ answer = [etag |-> etag, list |-> store]
    BY <1>3, <1>4 DEF get_all
  <1> HIDE DEF r, status, answer
  <1>7. call'[c] = r => CallOK(c)'
    <2>1. ASSUME call'[c] = r, status = 200, answer = [etag |-> etag, list |-> store]
          PROVE  FreshList(c)'
      BY <1>1, <1>2, <1>4, <1>5, <2>1, Unmoved DEF FreshList
    <2>2. QED
      BY <1>1, <1>2, <1>3, <1>5, <1>6, <2>1, Unmoved DEF CallOK, ServedOK
  <1>8. QED
    BY <1>2, <1>7, Unmoved, CallStep

LEMMA StatusCodes ==
  ASSUME NEW op \in Mutations, NEW ok \in BOOLEAN
  PROVE  Status(op, ok) \in {201, 204, 404, 409}
  BY DEF Mutations, Status, post_backend, put_backend, patch_backend, delete_backend

LEMMA ServeStep ==
  ASSUME HttpIInv, NEW c \in Callers, Serve(c)
  PROVE  HttpIInv'
  <1> DEFINE status == Status(call[c].req.op, last'.ok)
             r == [NoCall EXCEPT !.phase = "served", !.req.op = call[c].req.op,
                                 !.status = status, !.body = etag', !.did = last'.ok,
                                 !.boot = restarts]
  <1>1. /\ r.phase = "served" /\ r.req.op = call[c].req.op /\ r.status = status
        /\ r.body = etag' /\ r.did = last'.ok /\ r.boot = restarts
    BY DEF NoCall, NoRequest
  <1>2. /\ call' = [call EXCEPT ![c] = r] /\ UNCHANGED <<late, acked, floor>>
        /\ call[c].phase = "sent" /\ Apply(call[c].req)
    BY DEF Serve, Responds
  <1>3. status = Status(call[c].req.op, last'.ok)
    OBVIOUS
  <1> HIDE DEF r, status
  <1>4. call[c].req \in Request
    BY <1>2 DEF HttpIInv, CallOK, SentOK
  <1>5. Mutate /\ call[c].req.op \in Mutations
    BY <1>2, <1>4, ApplyMutates
  <1>6. /\ StoreMoves /\ IInv' /\ UNCHANGED <<view, since, restarts>>
        /\ last'.ok \in BOOLEAN
    BY <1>5, MutateMoves, NextIInv DEF HttpIInv, IInv, TypeOK, Mutation, Next
  <1>7. /\ restarts \in Nat /\ etag' \in Nat
        /\ LateOK' /\ acked' \in Nat /\ acked' >= acked /\ acked' <= etag'
        /\ floor' \in [Callers -> Nat] /\ floor'[c] <= acked'
        /\ \A d \in Callers : floor'[d] = floor[d]
        /\ \A d \in Clients : view'[d] = view[d]
    BY <1>2, <1>6, BoundsAssumption DEF StoreMoves, LateOK, HttpIInv, IInv, TypeOK, CallOK
  <1>8. call'[c] = r => CallOK(c)'
    <2>1. status \in {201, 204, 404, 409}
      BY <1>3, <1>5, <1>6, StatusCodes
    <2>2. ASSUME call'[c] = r PROVE ServedOK(c)'
      BY <1>1, <1>3, <1>5, <1>6, <1>7, <2>2 DEF ServedOK
    <2>3. QED
      BY <1>1, <1>7, <2>1, <2>2 DEF CallOK
  <1>9. QED
    BY <1>2, <1>6, <1>7, <1>8, CallStep

LEMMA TimeoutStep ==
  ASSUME HttpIInv, NEW c \in Callers, Timeout(c)
  PROVE  HttpIInv'
  <1> DEFINE r == Returns(c, "http", None)
  <1>1. r.phase = "done" /\ r.status = 0 /\ r.result.kind = "http"
    BY DEF Returns, NoCall, NoRequest
  <1>2. call' = [call EXCEPT ![c] = r] /\ UNCHANGED <<vars, acked, floor>>
    BY DEF Timeout
  <1> HIDE DEF r
  <1>3. LateOK'
    <2>1. CASE UNCHANGED late
      BY <2>1 DEF HttpIInv, LateOK
    <2>2. CASE /\ call[c].phase = "sent" /\ Cardinality(late) < MaxLate
               /\ late' = late \cup {call[c].req}
      <3>1. call[c].req \in Request
        BY <2>2 DEF HttpIInv, CallOK, SentOK
      <3>2. /\ IsFiniteSet(late')
            /\ Cardinality(late') = Cardinality(late)
               \/ Cardinality(late') = Cardinality(late) + 1
        BY <2>2, FS_AddElement DEF HttpIInv, LateOK
      <3>3. Cardinality(late) \in Nat
        BY FS_CardinalityType DEF HttpIInv, LateOK
      <3>4. QED
        BY <2>2, <3>1, <3>2, <3>3, LateAssumption DEF HttpIInv, LateOK
    <2>3. QED
      BY <2>1, <2>2 DEF Timeout
  <1>4. IInv' /\ StoreMoves
    BY <1>2, StillMoves DEF HttpIInv
  <1>5. /\ acked' \in Nat /\ acked' >= acked /\ acked' <= etag'
        /\ floor' \in [Callers -> Nat] /\ floor'[c] <= acked'
        /\ \A d \in Callers : floor'[d] = floor[d]
        /\ \A d \in Clients : view'[d] = view[d]
    BY <1>2 DEF HttpIInv, vars, IInv, TypeOK, CallOK
  <1>6. call'[c] = r => CallOK(c)'
    BY <1>1, <1>5 DEF CallOK, DoneOK
  <1>7. QED
    BY <1>2, <1>3, <1>4, <1>5, <1>6, CallStep

\* Status by status, what the client's method makes of the handler's answer.
LEMMA MutationAnswer ==
  ASSUME NEW op \in Mutations, NEW ok \in BOOLEAN, NEW body
  PROVE  /\ Status(op, ok) \in DOMAIN Expected(op, body)
         /\ Expected(op, body)[Status(op, ok)] = ok
  <1>1. CASE op = "post"
    BY <1>1 DEF Status, Expected, post_backend, http_post
  <1>2. CASE op = "put"
    BY <1>2 DEF Status, Expected, put_backend, http_put
  <1>3. CASE op = "patch"
    BY <1>3 DEF Status, Expected, patch_backend, http_patch
  <1>4. CASE op = "delete"
    BY <1>4 DEF Status, Expected, delete_backend, http_delete
  <1>5. QED
    BY <1>1, <1>2, <1>3, <1>4 DEF Mutations

LEMMA RefusalAnswer ==
  ASSUME NEW op \in Mutations \cup {"get"}, NEW status \in {400, 401}, NEW body
  PROVE  status \notin DOMAIN Expected(op, body) /\ general_error(status) = "invalid_input"
  <1>1. general_error(status) = "invalid_input"
    BY DEF general_error
  <1>2. CASE op = "get"
    BY <1>1, <1>2 DEF Expected, http_get
  <1>3. CASE op \in {"post", "put"}
    BY <1>1, <1>3 DEF Expected, http_post, http_put
  <1>4. CASE op \in {"patch", "delete"}
    BY <1>1, <1>4 DEF Expected, http_patch, http_delete
  <1>5. QED
    BY <1>2, <1>3, <1>4 DEF Mutations

LEMMA ReceiveBackendStep ==
  ASSUME HttpIInv, NEW c \in Callers, ReceiveBackend(c)
  PROVE  HttpIInv'
  <1> DEFINE op == call[c].req.op
             expected == Expected(op, call[c].body)
             status == call[c].status
             r == IF status \in DOMAIN expected THEN Returns(c, "ok", expected[status])
                  ELSE Returns(c, general_error(status), None)
  <1>1. /\ call' = [call EXCEPT ![c] = r] /\ UNCHANGED <<vars, late, floor>>
        /\ Acknowledge(c)
    BY DEF ReceiveBackend
  <1>2. call[c].phase = "served" /\ op # "get_all" /\ ServedOK(c)
    BY DEF ReceiveBackend, HttpIInv, CallOK
  <1>3. /\ r.phase = "done" /\ r.status = 0 /\ r.did = call[c].did
    BY DEF Returns, NoCall, NoRequest
  <1>4. /\ r.result.kind \in {"ok", general_error(status)}
        /\ status \in DOMAIN expected =>
               r.result = [kind |-> "ok", value |-> expected[status]]
        /\ status \notin DOMAIN expected => r.result.kind = general_error(status)
    BY DEF Returns, NoCall, NoRequest
  <1>5. /\ r.result.kind \notin {"modified", "not_modified"}
        /\ \/ r.result.kind = "ok" /\ r.result.value = r.did
           \/ r.result.kind = "invalid_input" /\ r.did = None
    <2>1. CASE op \in Mutations /\ call[c].did \in BOOLEAN /\ status = Status(op, call[c].did)
      <3>1. status \in DOMAIN expected /\ expected[status] = call[c].did
        BY <2>1, MutationAnswer
      <3>2. QED
        BY <1>3, <1>4, <3>1
    <2>2. CASE /\ op \in Mutations \cup {"get"} /\ status \in {400, 401}
               /\ call[c].did = None
      <3>1. status \notin DOMAIN expected /\ general_error(status) = "invalid_input"
        BY <2>2, RefusalAnswer
      <3>2. QED
        BY <1>3, <1>4, <2>2, <3>1
    <2>3. CASE /\ op = "get" /\ call[c].did = call[c].body
               /\ status = IF call[c].body = None THEN 404 ELSE 200
      <3>1. status \in DOMAIN expected /\ expected[status] = call[c].did
        BY <2>3 DEF Expected, http_get
      <3>2. QED
        BY <1>3, <1>4, <3>1
    <2>4. QED
      BY <1>2, <2>1, <2>2, <2>3 DEF ServedOK
  <1> HIDE DEF r, expected
  <1>6. IInv' /\ StoreMoves
    BY <1>1, StillMoves DEF HttpIInv
  <1>7. /\ acked \in Nat /\ acked <= etag /\ etag \in Nat
        /\ etag' = etag /\ restarts' = restarts
    BY <1>1 DEF HttpIInv, IInv, TypeOK, vars
  <1>8. acked' \in Nat /\ acked' >= acked /\ acked' <= etag'
    <2>1. CASE acked' = acked
      BY <1>7, <2>1
    <2>2. CASE /\ op \in Mutations /\ call[c].did # None
               /\ call[c].boot = restarts /\ call[c].body > acked
               /\ acked' = call[c].body
      <3>1. call[c].body \in Nat /\ call[c].body <= etag
        BY <1>2, <2>2 DEF ServedOK, Mutations
      <3>2. QED
        BY <1>7, <2>2, <3>1
    <2>3. QED
      BY <1>1, <2>1, <2>2 DEF Acknowledge, Mutations
  <1>9. /\ LateOK' /\ floor' \in [Callers -> Nat] /\ floor'[c] <= acked'
        /\ \A d \in Callers : floor'[d] = floor[d]
        /\ \A d \in Clients : view'[d] = view[d]
    BY <1>1, <1>7, <1>8 DEF HttpIInv, LateOK, vars, CallOK
  <1>10. call'[c] = r => CallOK(c)'
    BY <1>3, <1>5, <1>9 DEF CallOK, DoneOK
  <1>11. QED
    BY <1>1, <1>6, <1>8, <1>9, <1>10, CallStep

LEMMA ReceiveAllStep ==
  ASSUME HttpIInv, NEW c \in Callers, ReceiveAll(c)
  PROVE  HttpIInv'
  <1>1. /\ call[c].phase = "served" /\ call[c].req.op = "get_all" /\ ServedOK(c)
        /\ UNCHANGED <<store, etag, last, restarts, late, acked, floor>>
    BY DEF ReceiveAll, HttpIInv, CallOK
  <1>2. CASE /\ \/ call[c].body = None /\ call' = [call EXCEPT ![c] = Returns(c, "internal", None)]
                \/ /\ call[c].body # None /\ call[c].status = 304
                   /\ call' = [call EXCEPT ![c] = Returns(c, "not_modified", None)]
             /\ UNCHANGED <<view, since>>
    <2>1. UNCHANGED <<vars, late, acked, floor>>
      BY <1>1, <1>2 DEF vars
    <2>2. PICK kind \in {"internal", "not_modified"} :
              /\ call' = [call EXCEPT ![c] = Returns(c, kind, None)]
              /\ kind = "not_modified" => call[c].body # None /\ call[c].status = 304
      BY <1>2
    <2> DEFINE r == Returns(c, kind, None)
    <2>3. r.phase = "done" /\ r.status = 0 /\ r.req.op = "get_all" /\ r.result.kind = kind
      BY <1>1 DEF Returns, NoCall, NoRequest
    <2>4. call' = [call EXCEPT ![c] = r]
      BY <2>2
    <2> HIDE DEF r
    <2>5. kind = "not_modified" => view[c].etag >= floor[c]
      BY <1>1, <2>2 DEF ServedOK, Mutations
    <2>6. call'[c] = r => CallOK(c)'
      BY <2>1, <2>3, <2>5, Unmoved DEF CallOK, DoneOK
    <2>7. QED
      BY <2>1, <2>4, <2>6, Unmoved, CallStep
  <1>3. CASE /\ call[c].body # None /\ call[c].status = 200
             /\ call' = [call EXCEPT ![c] = Returns(c, "modified", None)]
             /\ view' = [view EXCEPT ![c] = call[c].body]
             /\ since' = [since EXCEPT ![c] = call[c].boot]
    <2> DEFINE r == Returns(c, "modified", None)
    <2>1. r.phase = "done" /\ r.status = 0 /\ r.req.op = "get_all"
      BY <1>1 DEF Returns, NoCall, NoRequest
    <2>2. call' = [call EXCEPT ![c] = r]
      BY <1>3
    <2> HIDE DEF r
    <2>3. /\ c \in Clients /\ FreshList(c)
          /\ call[c].boot \in Nat /\ call[c].boot <= restarts
      BY <1>1, <1>3 DEF ServedOK, Mutations
    <2>4. TypeOK /\ restarts \in 0 .. MaxRestarts /\ MaxRestarts \in Nat
      BY BoundsAssumption DEF HttpIInv, IInv, TypeOK
    <2>5. call[c].boot \in 0 .. MaxRestarts
      BY <2>3, <2>4
    <2>6. TypeOK'
      BY <1>1, <1>3, <2>3, <2>4, <2>5 DEF TypeOK, FreshList
    <2>7. /\ view'[c] = call[c].body /\ since'[c] = call[c].boot
          /\ \A d \in Clients \ {c} : view'[d] = view[d] /\ since'[d] = since[d]
      BY <1>3, <2>3, <2>4 DEF TypeOK
    <2>8. ASSUME NEW d \in Clients PROVE (since[d] <= restarts /\ Served(d))'
      <3>1. CASE d = c
        BY <1>1, <2>3, <2>7, <3>1 DEF Served, FreshList
      <3>2. CASE d # c
        BY <1>1, <2>7, <3>2 DEF HttpIInv, IInv, Served
      <3>3. QED
        BY <3>1, <3>2
    <2>9. IInv'
      BY <2>6, <2>8 DEF IInv
    <2>10. /\ StoreMoves /\ LateOK' /\ acked' \in Nat /\ acked' >= acked /\ acked' <= etag'
           /\ floor' \in [Callers -> Nat] /\ floor'[c] <= acked'
           /\ \A d \in Callers : floor'[d] = floor[d]
      BY <1>1, <2>4 DEF StoreMoves, LateOK, HttpIInv, TypeOK, CallOK
    <2>11. call'[c] = r => CallOK(c)'
      BY <1>1, <2>1, <2>3, <2>7, <2>10 DEF CallOK, DoneOK, FreshList
    <2>12. QED
      BY <2>2, <2>7, <2>9, <2>10, <2>11, CallStep
  <1>4. QED
    BY <1>2, <1>3 DEF ReceiveAll

\* No call changes: the store moves on, or starts again.
LEMMA AllCallsFrame ==
  ASSUME HttpIInv, IInv', StoreMoves, LateOK', UNCHANGED <<call, view>>,
         acked' \in Nat, acked' <= etag', floor' \in [Callers -> Nat],
         \A c \in Callers : floor'[c] <= floor[c] /\ floor'[c] <= acked'
  PROVE  HttpIInv'
  <1>1. ASSUME NEW c \in Callers PROVE CallOK(c)'
    BY CallFrame DEF HttpIInv, IInv, TypeOK
  <1>2. QED
    BY <1>1 DEF HttpIInv

LEMMA ServeLateStep ==
  ASSUME HttpIInv, ServeLate
  PROVE  HttpIInv'
  <1> PICK req \in late : /\ late' = late \ {req}
                          /\ Apply(req) \/ UNCHANGED vars
                          /\ UNCHANGED <<call, acked, floor>>
    BY DEF ServeLate
  <1>1. LateOK'
    <2>1. late \subseteq Request /\ IsFiniteSet(late) /\ Cardinality(late) <= MaxLate
      BY DEF HttpIInv, LateOK
    <2>2. /\ IsFiniteSet(late \ {req})
          /\ Cardinality(late \ {req}) = Cardinality(late) - 1
      BY <2>1, FS_RemoveElement
    <2>3. Cardinality(late) \in Nat
      BY <2>1, FS_CardinalityType
    <2>4. Cardinality(late \ {req}) <= MaxLate
      BY <2>1, <2>2, <2>3, LateAssumption
    <2>5. QED
      BY <2>1, <2>2, <2>4 DEF LateOK
  <1>2. IInv' /\ StoreMoves /\ UNCHANGED view
    <2>1. CASE Apply(req)
      <3>1. Mutate
        BY <2>1, ApplyMutates DEF HttpIInv, LateOK
      <3>2. QED
        BY <3>1, MutateMoves, NextIInv DEF HttpIInv, IInv, Next
    <2>2. CASE UNCHANGED vars
      BY <2>2, StillMoves DEF HttpIInv, vars
    <2>3. QED
      BY <2>1, <2>2
  <1>3. acked <= etag /\ etag' >= etag /\ acked \in Nat /\ etag \in Nat /\ etag' \in Nat
    <2>1. CASE Apply(req)
      <3>1. Mutate
        BY <2>1, ApplyMutates DEF HttpIInv, LateOK
      <3>2. QED
        BY <1>2, <3>1, MutateMoves DEF StoreMoves, HttpIInv, IInv, TypeOK
    <2>2. CASE UNCHANGED vars
      BY <1>2, <2>2 DEF HttpIInv, vars, IInv, TypeOK
    <2>3. QED
      BY <2>1, <2>2
  <1>4. \A c \in Callers : floor[c] \in Nat /\ floor[c] <= acked
    BY DEF HttpIInv, CallOK
  <1>5. QED
    BY <1>1, <1>2, <1>3, <1>4, AllCallsFrame DEF HttpIInv

LEMMA ServerRestartStep ==
  ASSUME HttpIInv, ServerRestart
  PROVE  HttpIInv'
  <1>1. /\ Restart /\ acked' = 0 /\ floor' = [c \in Callers |-> 0]
        /\ UNCHANGED <<call, late>>
    BY DEF ServerRestart
  <1>2. IInv' /\ UNCHANGED view /\ etag' = 0
    BY <1>1, NextIInv DEF HttpIInv, Restart, Next
  <1>3. StoreMoves
    BY <1>1, BoundsAssumption DEF StoreMoves, Restart, HttpIInv, IInv, TypeOK
  <1>4. LateOK'
    BY <1>1 DEF HttpIInv, LateOK
  <1>5. \A c \in Callers : floor'[c] = 0 /\ floor[c] \in Nat
    BY <1>1 DEF HttpIInv
  <1>6. QED
    BY <1>1, <1>2, <1>3, <1>4, <1>5, AllCallsFrame

LEMMA InitHttpIInv == HttpInit => HttpIInv
  <1> SUFFICES ASSUME HttpInit PROVE HttpIInv
    OBVIOUS
  <1>1. IInv /\ etag = 0
    BY InitIInv DEF HttpInit, Init
  <1>2. LateOK
    BY FS_EmptySet, LateAssumption DEF LateOK, HttpInit
  <1>3. \A c \in Callers : CallOK(c)
    BY DEF HttpInit, NoCall, NoRequest, CallOK, DoneOK
  <1>4. QED
    BY <1>1, <1>2, <1>3 DEF HttpInit, HttpIInv

LEMMA NextHttpIInv ==
  ASSUME HttpIInv, [HttpNext]_allVars
  PROVE  HttpIInv'
  <1>1. CASE ServeLate
    BY <1>1, ServeLateStep
  <1>2. CASE ServerRestart
    BY <1>2, ServerRestartStep
  <1>3. ASSUME NEW c \in Clients, SendPoll(c) PROVE HttpIInv'
    <2> DEFINE req == [op |-> "get_all", node |-> None, arg |-> view[c].etag]
    <2>1. req \in Request
      BY DEF HttpIInv, IInv, TypeOK, Request
    <2>2. QED
      BY <1>3, <2>1, SendStep DEF SendPoll, Callers
  <1>4. ASSUME NEW c \in Operators, NEW req \in Commands, Send(c, req) PROVE HttpIInv'
    <2>1. req.op # "get_all"
      BY DEF Commands
    <2>2. QED
      BY <1>4, <2>1, CommandsAreRequests, SendStep DEF Callers
  <1>5. ASSUME NEW c \in Callers,
               \/ ReceiveBackend(c) \/ ReceiveAll(c) \/ Timeout(c)
               \/ Refused(c) \/ get_backends(c) \/ get_backend(c) \/ Serve(c)
        PROVE  HttpIInv'
    BY <1>5, ReceiveBackendStep, ReceiveAllStep, TimeoutStep, RefusedStep,
       GetBackendsStep, GetBackendStep, ServeStep
  <1>6. CASE UNCHANGED allVars
    <2>1. UNCHANGED <<vars, late, acked, floor>> /\ UNCHANGED <<call, view>>
      BY <1>6 DEF allVars, httpVars, vars
    <2>2. \A c \in Callers : floor'[c] <= floor[c]
      BY <2>1 DEF HttpIInv
    <2>3. QED
      BY <2>1, <2>2, Unmoved, AllCallsFrame
  <1>7. QED
    BY <1>1, <1>2, <1>3, <1>4, <1>5, <1>6 DEF HttpNext

LEMMA HttpInvariant == HttpSpec => []HttpIInv
  <1>1. HttpIInv /\ [HttpNext]_allVars => HttpIInv'
    BY NextHttpIInv
  <1>2. QED
    BY <1>1, InitHttpIInv, PTL DEF HttpSpec

\* Calls, abandoned requests and etags keep their types, whoever calls.
THEOREM HttpTypes == HttpSpec => []HttpTypeOK
  <1>1. HttpIInv => HttpTypeOK
    BY DEF HttpIInv, HttpTypeOK, IInv, LateOK, CallOK, SentOK
  <1>2. QED
    BY <1>1, HttpInvariant, PTL

\* A caller is told what the store did for that very call, whatever else is on
\* the wire, lost, late or refused.
THEOREM AnswersTellTheEffect == HttpSpec => []AnswerIsEffect
  <1>1. HttpIInv => AnswerIsEffect
    BY DEF HttpIInv, AnswerIsEffect, CallOK, DoneOK
  <1>2. QED
    BY <1>1, HttpInvariant, PTL

\* An answered poll leaves the poller with every change acknowledged before it
\* was sent.
THEOREM AcknowledgedChangesAreSeen == HttpSpec => []AcknowledgedIsSeen
  <1>1. HttpIInv => AcknowledgedIsSeen
    BY DEF HttpIInv, AcknowledgedIsSeen, CallOK, DoneOK, Callers
  <1>2. QED
    BY <1>1, HttpInvariant, PTL

\* The memory store's promise to its pollers survives the network between them:
\* a list that arrives late is never taken for the current one.
THEOREM HttpListMatchesEtag == HttpSpec => []ListMatchesEtagThisBoot
  <1>1. HttpIInv => ListMatchesEtagThisBoot
    BY DEF HttpIInv, IInv, Served, ListMatchesEtagThisBoot
  <1>2. QED
    BY <1>1, HttpInvariant, PTL

=============================================================================
