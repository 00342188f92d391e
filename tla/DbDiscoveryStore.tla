------------------------- MODULE DbDiscoveryStore -------------------------
(***************************************************************************)
(* DbDiscoveryBackendStore (components/src/discovery/db.rs) on a shared    *)
(* SQL database.  A mutation is one transaction that changes the row and   *)
(* then the single etag row.  get_all is two statements outside any        *)
(* transaction: the etag first, the rows second.                           *)
(*                                                                         *)
(* The closure given to transaction() returns Ok even when one of its      *)
(* statements failed, so the transaction is committed.  What a failed      *)
(* statement leaves behind is the database's business: PostgreSQL turns    *)
(* the commit of a failed transaction into a rollback                      *)
(* (TxnAbortsOnError = TRUE); MySQL undoes only the failed statement, for  *)
(* example on a lock wait timeout (TxnAbortsOnError = FALSE).              *)
(***************************************************************************)
EXTENDS DiscoveryBackends

CONSTANTS
    Clients,          \* pollers of get_all
    MaxEtag,          \* bound: mutations stop when the etag reaches it
    TxnAbortsOnError  \* the database aborts a transaction whose statement failed

ASSUME BoundsAssumption == MaxEtag \in Nat /\ TxnAbortsOnError \in BOOLEAN

VARIABLES
    store,  \* the discovery_backend table
    etag,   \* the value of the etag row
    view,   \* view[c]: last list client c received and its etag
    read,   \* read[c]: the etag a get_all in progress has read, or None
    last    \* last completed mutation: [op, node, row, reply]

vars == <<store, etag, view, read, last>>

Reply == {"created", "changed", "refused", "error"}

Mutation ==
    [op : {"none", "post", "put", "patch", "delete"}, node : Nodes \cup {None},
     row : DiscoveryBackendSparse \cup {None}, reply : Reply]

TypeOK ==
    /\ store \in BackendList
    /\ etag \in Nat
    /\ view \in [Clients -> [etag : Nat, list : BackendList]]
    /\ read \in [Clients -> Nat \cup {None}]
    /\ last \in Mutation

Init ==
    /\ store = EmptyList
    /\ etag = 0
    /\ view = [c \in Clients |-> [etag |-> 0, list |-> EmptyList]]
    /\ read = [c \in Clients |-> None]
    /\ last = [op |-> "none", node |-> None, row |-> None, reply |-> "refused"]

-----------------------------------------------------------------------------
(* get_all: two statements.                                                *)

\* First statement.  An etag equal to the caller's ends the call.
get_all_etag(c) ==
    /\ read[c] = None
    /\ read' = IF view[c].etag = etag THEN read ELSE [read EXCEPT ![c] = etag]
    /\ UNCHANGED <<store, etag, view, last>>

\* Second statement: the rows, labelled with the etag read before.
get_all_rows(c) ==
    /\ read[c] # None
    /\ view' = [view EXCEPT ![c] = [etag |-> read[c], list |-> store]]
    /\ read' = [read EXCEPT ![c] = None]
    /\ UNCHANGED <<store, etag, last>>

\* A statement fails, or the caller goes away: the client keeps what it has.
get_all_fail(c) ==
    /\ read[c] # None
    /\ read' = [read EXCEPT ![c] = None]
    /\ UNCHANGED <<store, etag, view, last>>

-----------------------------------------------------------------------------
(* Mutations: one transaction each.                                        *)

Commit(op, n, row, new, bump, reply) ==
    /\ store' = [store EXCEPT ![n] = new]
    /\ etag' = etag + bump
    /\ last' = [op |-> op, node |-> n, row |-> row, reply |-> reply]
    /\ UNCHANGED <<view, read>>

\* The transaction, or the statement on the row, fails: nothing changes.
Rollback(op, n, row, reply) == Commit(op, n, row, store[n], 0, reply)

\* The statement on the row succeeds.  The statement after it succeeds too,
\* or fails and leaves the row behind without a new etag.
RowThenEtag(op, n, row, new, reply) ==
    \/ Commit(op, n, row, new, 1, reply)
    \/ ~TxnAbortsOnError /\ Commit(op, n, row, new, 0, "error")

post(n, row) ==
    \/ store[n] # None /\ Rollback("post", n, row, "refused")
    \/ store[n] = None /\ RowThenEtag("post", n, row, row, "created")
    \/ Rollback("post", n, row, "error")

\* The columns an upsert writes over an existing row: name, weight, enabled
\* and implementation.
Upserted(old, row) ==
    [partitions |-> IF old = None THEN row.partitions ELSE old.partitions,
     weight     |-> row.weight,
     enabled    |-> row.enabled]

\* put increments the etag even when the upsert failed (timestamps = Ok(None)).
put(n, row) ==
    \/ RowThenEtag("put", n, row, Upserted(store[n], row),
                   IF store[n] = None THEN "created" ELSE "changed")
    \/ ~TxnAbortsOnError /\ Commit("put", n, row, store[n], 1, "error")
    \/ Rollback("put", n, row, "error")

\* Mutant: patch has no second statement.
patch_without_etag(n, p) ==
    \/ store[n] # None /\ Commit("patch", n, None, ApplyPatch(store[n], p), 0, "changed")
    \/ store[n] = None /\ Rollback("patch", n, None, "refused")
    \/ Rollback("patch", n, None, "error")

patch(n, p) ==
    \/ store[n] # None /\ RowThenEtag("patch", n, None, ApplyPatch(store[n], p), "changed")
    \/ store[n] = None /\ Rollback("patch", n, None, "refused")
    \/ Rollback("patch", n, None, "error")

\* Mutant: delete has no second statement.
delete_without_etag(n) ==
    \/ store[n] # None /\ Commit("delete", n, None, None, 0, "changed")
    \/ store[n] = None /\ Rollback("delete", n, None, "refused")
    \/ Rollback("delete", n, None, "error")

delete(n) ==
    \/ store[n] # None /\ RowThenEtag("delete", n, None, None, "changed")
    \/ store[n] = None /\ Rollback("delete", n, None, "refused")
    \/ Rollback("delete", n, None, "error")

Mutate ==
    /\ etag < MaxEtag
    /\ \E n \in Nodes :
           \/ \E row \in DiscoveryBackendSparse : post(n, row) \/ put(n, row)
           \/ \E p \in DiscoveryBackendPatchSparse : patch(n, p)
           \/ delete(n)

Next ==
    \/ Mutate
    \/ \E c \in Clients : get_all_etag(c) \/ get_all_rows(c) \/ get_all_fail(c)

Spec == Init /\ [][Next]_vars

-----------------------------------------------------------------------------
API == INSTANCE VersionedList WITH store <- store, etag <- etag, view <- view

\* The database store keeps what the trait promises its pollers although its
\* get_all is not a transaction: a list read after its label is at least as
\* new as the label (db.rs get_all, the etag query before the rows query).
ImplementsVersionedList == API!Spec

\* A client holding the current etag, who is answered "not modified" from now
\* on, holds the current rows, whatever commits between the two statements of
\* its get_all.
ListMatchesEtag == API!ListMatchesEtag

\* A change of the rows that the etag does not announce is at least reported as
\* an error to the one who made it, so it can be repeated: no mutation answers
\* success unless its pollers will see it.
UnannouncedIsError ==
    [][store' # store /\ etag' = etag => last'.reply = "error"]_vars

\* A label read by a get_all in progress is never behind the client's own nor
\* ahead of the table's: the fact that makes the two-statement read safe.
LabelBetween ==
    \A c \in Clients :
        /\ view[c].etag <= etag
        /\ read[c] # None => view[c].etag <= read[c] /\ read[c] <= etag

\* After a put has answered success, the stored row is the row that was put,
\* as the memory store does and the store tests assert.
PutStoresRow ==
    last.op = "put" /\ last.reply # "error" => store[last.node] = last.row

=============================================================================
