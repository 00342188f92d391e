--------------------------- MODULE DiscoveryHttp ---------------------------
(***************************************************************************)
(* The discovery service over HTTP: HttpDiscoveryBackendStore              *)
(* (components/src/discovery/http.rs) on the client's side, the bearer     *)
(* token layer and DiscoveryHandlers (service/src/axum/auth.rs,            *)
(* service/src/discovery/handler.rs) on the server's, over the memory      *)
(* store, and the two users of the client:                                 *)
(*   - the pollers (Clients), balancers that call get_all with the etag of *)
(*     their last answer;                                                  *)
(*   - the operators, who run `swgr discovery backend ...`                 *)
(*     (server/src/commands/discovery/backend.rs).                         *)
(*                                                                         *)
(* A request may be refused, lost, or served after its client has given up *)
(* (reqwest's total timeout, one second for the command line); an answer   *)
(* may be lost or arrive after later changes.  A client has one call at a  *)
(* time.                                                                   *)
(***************************************************************************)
EXTENDS MemoryDiscoveryStore, FiniteSets

CONSTANTS
    Operators,  \* people or scripts running the command line
    MaxLate     \* bound: abandoned requests under way at the same time

ASSUME OperatorsAssumption == Operators \cap Clients = {}
ASSUME LateAssumption == MaxLate \in Nat

Callers == Clients \cup Operators

VARIABLES
    call,   \* call[c]: the call of c under way, or the last one it made
    late,   \* requests whose client has given up and that may yet be served
    acked,  \* etag of the newest change acknowledged to its client, this boot
    floor   \* floor[c]: acked when c sent its request

httpVars == <<call, late, acked, floor>>
allVars == <<vars, httpVars>>

-----------------------------------------------------------------------------
(* What travels.                                                           *)

\* The etag of If-None-Match and of ETag is sixteen hex digits of a u64; both
\* ends use the same two conversions, so a number stands for the header.
Request ==
    [op : {"get_all"}, node : {None}, arg : Nat]
        \cup [op : {"get", "delete"}, node : Nodes, arg : {None}]
        \cup [op : {"post", "put"}, node : Nodes, arg : DiscoveryBackendSparse]
        \cup [op : {"patch"}, node : Nodes, arg : DiscoveryBackendPatchSparse]

NoRequest == [op |-> "none", node |-> None, arg |-> None]

\* phase: done (nothing under way), sent, served.  status and body: the HTTP
\* response.  did: what the store answered the handler.  result: what the
\* client's method returned.  boot: restarts before the call was served.  A
\* field that is not needed any more goes back to what it is in NoCall.
NoCall == [phase |-> "done", req |-> NoRequest, status |-> 0, body |-> None,
           did |-> None, result |-> [kind |-> "none", value |-> None], boot |-> 0]

\* The enable and disable commands: a patch of the one column.
enable_backend(on) == [partitions |-> None, weight |-> None, enabled |-> on]

\* Bound: patches that name one column (what several do is ApplyPatch's matter).
OneColumn ==
    {enable_backend(on) : on \in BOOLEAN}
        \cup {[enable_backend(None) EXCEPT !.weight = w] : w \in Weights}
        \cup {[enable_backend(None) EXCEPT !.partitions = ps] : ps \in SUBSET Partitions}

\* What a command line sends.
Commands ==
    {[op |-> "get", node |-> n, arg |-> None] : n \in Nodes}
        \cup {[op |-> "delete", node |-> n, arg |-> None] : n \in Nodes}
        \cup [op : {"post", "put"}, node : Nodes, arg : DiscoveryBackendSparse]
        \cup [op : {"patch"}, node : Nodes, arg : OneColumn]

HttpInit ==
    /\ Init
    /\ call = [c \in Callers |-> NoCall]
    /\ late = {}
    /\ acked = 0
    /\ floor = [c \in Callers |-> 0]

-----------------------------------------------------------------------------
(* The client's side.                                                      *)

Send(c, req) ==
    /\ call[c].phase = "done"
    /\ call' = [call EXCEPT ![c] = [NoCall EXCEPT !.phase = "sent", !.req = req]]
    /\ floor' = [floor EXCEPT ![c] = acked]
    /\ UNCHANGED <<vars, late, acked>>

\* discover polls with the etag it holds.
SendPoll(c) == Send(c, [op |-> "get_all", node |-> None, arg |-> view[c].etag])

\* kind: ok, modified, not_modified, or the kind of error.
Returns(c, kind, value) ==
    [NoCall EXCEPT !.req.op = call[c].req.op, !.did = call[c].did,
                   !.result = [kind |-> kind, value |-> value]]

\* The status is none of those the method expects.
general_error(status) ==
    IF status \in 200 .. 299 THEN "internal"
    ELSE IF status \in 400 .. 499 THEN "invalid_input" ELSE "http"

\* The statuses each method expects, and what it then returns.
http_post == [status \in {201, 409} |-> status = 201]

http_put == [status \in {201, 204} |-> status = 201]

http_patch == [status \in {204, 404} |-> status = 204]

http_delete == [status \in {204, 404} |-> status = 204]

http_get(body) == [status \in {200, 404} |-> IF status = 200 THEN body ELSE None]

Expected(op, body) ==
    CASE op = "post" -> http_post
      [] op = "put" -> http_put
      [] op = "patch" -> http_patch
      [] op = "delete" -> http_delete
      [] op = "get" -> http_get(body)

\* A mutation that is acknowledged moves acked; etags of an earlier boot do not.
Acknowledge(c) ==
    acked' = IF /\ call[c].req.op \in {"post", "put", "patch", "delete"}
                /\ call[c].did # None
                /\ call[c].boot = restarts /\ call[c].body > acked
             THEN call[c].body ELSE acked

\* The response of one of the methods on a single backend.
ReceiveBackend(c) ==
    LET expected == Expected(call[c].req.op, call[c].body)
        status == call[c].status
    IN  /\ call[c].phase = "served" /\ call[c].req.op # "get_all"
        /\ call' = [call EXCEPT ![c] =
                       IF status \in DOMAIN expected THEN Returns(c, "ok", expected[status])
                       ELSE Returns(c, general_error(status), None)]
        /\ Acknowledge(c)
        /\ UNCHANGED <<vars, late, floor>>

\* The response of get_all.  The ETag header is looked for before the status,
\* and only the handler sets it: a refusal is an internal error here.
ReceiveAll(c) ==
    /\ call[c].phase = "served" /\ call[c].req.op = "get_all"
    /\ \/ /\ call[c].body = None
          /\ call' = [call EXCEPT ![c] = Returns(c, "internal", None)]
          /\ UNCHANGED <<view, since>>
       \/ /\ call[c].body # None /\ call[c].status = 304
          /\ call' = [call EXCEPT ![c] = Returns(c, "not_modified", None)]
          /\ UNCHANGED <<view, since>>
       \/ /\ call[c].body # None /\ call[c].status = 200
          /\ call' = [call EXCEPT ![c] = Returns(c, "modified", None)]
          /\ view' = [view EXCEPT ![c] = call[c].body]
          /\ since' = [since EXCEPT ![c] = call[c].boot]
    /\ UNCHANGED <<store, etag, last, restarts, late, acked, floor>>

\* The send fails or times out: the request, or the answer, is lost, or the
\* request is still on its way.
Timeout(c) ==
    /\ call[c].phase # "done"
    /\ call' = [call EXCEPT ![c] = Returns(c, "http", None)]
    /\ \/ UNCHANGED late
       \/ /\ call[c].phase = "sent" /\ Cardinality(late) < MaxLate
          /\ call[c].req.op \in {"post", "put", "patch", "delete"}
          /\ late' = late \cup {call[c].req}
    /\ UNCHANGED <<vars, acked, floor>>

-----------------------------------------------------------------------------
(* The server's side.                                                      *)

Responds(c, status, body, did) ==
    call' = [call EXCEPT ![c] =
                [NoCall EXCEPT !.phase = "served", !.req.op = call[c].req.op,
                               !.status = status, !.body = body, !.did = did,
                               !.boot = restarts]]

\* Refused before the handler runs or by its parsing of the path: no token, or
\* one that does not verify or has expired (401); an unreadable key (400).
Refused(c) ==
    /\ call[c].phase = "sent"
    /\ \E status \in {400, 401} : Responds(c, status, None, None)
    /\ UNCHANGED <<vars, late, acked, floor>>

get_backends(c) ==
    LET answer == get_all(call[c].req.arg)
    IN  /\ call[c].phase = "sent" /\ call[c].req.op = "get_all"
        /\ Responds(c, IF answer.list = None THEN 304 ELSE 200, answer, None)
        /\ UNCHANGED <<vars, late, acked, floor>>

get_backend(c) ==
    LET row == store[call[c].req.node]
    IN  /\ call[c].phase = "sent" /\ call[c].req.op = "get"
        /\ Responds(c, IF row = None THEN 404 ELSE 200, row, row)
        /\ UNCHANGED <<vars, late, acked, floor>>

\* The store's operation for a request that changes it.
Apply(req) ==
    /\ etag < MaxEtag
    /\ \/ req.op = "post" /\ post(req.node, req.arg)
       \/ req.op = "put" /\ put(req.node, req.arg)
       \/ req.op = "patch" /\ patch(req.node, req.arg)
       \/ req.op = "delete" /\ delete(req.node)

post_backend(created) == IF created THEN 201 ELSE 409

\* Mutant: the two answers of put swapped.
put_backend_swapped(created) == IF created THEN 204 ELSE 201

put_backend(created) == IF created THEN 201 ELSE 204

patch_backend(patched) == IF patched THEN 204 ELSE 404

delete_backend(deleted) == IF deleted THEN 204 ELSE 404

Status(op, ok) ==
    CASE op = "post" -> post_backend(ok)
      [] op = "put" -> put_backend(ok)
      [] op = "patch" -> patch_backend(ok)
      [] op = "delete" -> delete_backend(ok)

\* A mutation is served; the body stands for the etag it moved to (kept for
\* Acknowledge, the response itself has none).
Serve(c) ==
    /\ call[c].phase = "sent"
    /\ Apply(call[c].req)
    /\ Responds(c, Status(call[c].req.op, last'.ok), etag', last'.ok)
    /\ UNCHANGED <<late, acked, floor>>

\* A request whose client has given up is served, or lost after all.
ServeLate ==
    \E req \in late :
        /\ late' = late \ {req}
        /\ Apply(req) \/ UNCHANGED vars
        /\ UNCHANGED <<call, acked, floor>>

\* The server restarts: the store is empty again, requests on the wire remain.
ServerRestart ==
    /\ Restart
    /\ acked' = 0
    /\ floor' = [c \in Callers |-> 0]
    /\ UNCHANGED <<call, late>>

-----------------------------------------------------------------------------
HttpNext ==
    \/ ServeLate
    \/ ServerRestart
    \/ \E c \in Clients : SendPoll(c)
    \/ \E c \in Operators, req \in Commands : Send(c, req)
    \/ \E c \in Callers :
           \/ ReceiveBackend(c) \/ ReceiveAll(c) \/ Timeout(c)
           \/ Refused(c) \/ get_backends(c) \/ get_backend(c) \/ Serve(c)

HttpSpec == HttpInit /\ [][HttpNext]_allVars

-----------------------------------------------------------------------------
HttpTypeOK ==
    /\ TypeOK
    /\ \A c \in Callers :
           /\ call[c].phase \in {"done", "sent", "served"}
           /\ call[c].phase = "sent" => call[c].req \in Request
           /\ call[c].status \in {0, 200, 201, 204, 304, 400, 401, 404, 409}
    /\ late \subseteq Request /\ Cardinality(late) <= MaxLate
    /\ acked \in Nat
    /\ floor \in [Callers -> Nat]

\* What a caller is told is what the store did for that very call: a result
\* that is not an error is the store's, and a call refused as invalid input
\* has left the store alone (http.rs against handler.rs, status by status).
AnswerIsEffect ==
    \A c \in Callers :
        call[c].phase = "done" /\ call[c].req.op \notin {"none", "get_all"} =>
            \/ call[c].result.kind = "ok" /\ call[c].result.value = call[c].did
            \/ call[c].result.kind = "invalid_input" /\ call[c].did = None
            \/ call[c].result.kind = "http"

\* A poll sent after a change was acknowledged to whoever made it, and answered
\* with a list or "not modified", leaves the poller with that change or a later
\* one, unless the server has restarted meanwhile, which sets floor back
\* (get_backends and get_all's comparison of etags).
AcknowledgedIsSeen ==
    \A c \in Clients :
        call[c].phase = "done" /\ call[c].result.kind \in {"modified", "not_modified"}
        => view[c].etag >= floor[c]

=============================================================================
