----------------------- MODULE MemoryDiscoveryStore -----------------------
(***************************************************************************)
(* MemoryDiscoveryBackendStore (components/src/discovery/memory.rs) and    *)
(* the clients that poll its get_all with the etag of their last answer    *)
(* (LnServiceDiscovery, or a remote one through the HTTP store).  Every    *)
(* operation holds the one mutex from its first to its last line, so each  *)
(* is one step.  "Volatile storage, data is lost on restart": Restart.     *)
(***************************************************************************)
EXTENDS DiscoveryBackends

CONSTANTS
    Clients,     \* pollers of get_all
    MaxEtag,     \* bound: mutations stop when the etag reaches it
    MaxRestarts  \* bound: how often the process holding the store restarts

ASSUME BoundsAssumption == MaxEtag \in Nat /\ MaxRestarts \in Nat

VARIABLES
    store,     \* store[n]: the row of node n, or None
    etag,
    view,      \* view[c]: last list client c received and its etag
    last,      \* last completed mutation: [op, node, row, ok]
    restarts,  \* restarts of the process so far
    since      \* since[c]: restarts when c received its list

vars == <<store, etag, view, last, restarts, since>>

Mutation ==
    [op : {"none", "post", "put", "patch", "delete"}, node : Nodes \cup {None},
     row : DiscoveryBackendSparse \cup {None}, ok : BOOLEAN]

TypeOK ==
    /\ store \in BackendList
    /\ etag \in Nat
    /\ view \in [Clients -> [etag : Nat, list : BackendList]]
    /\ last \in Mutation
    /\ restarts \in 0 .. MaxRestarts
    /\ since \in [Clients -> 0 .. MaxRestarts]

NoMutation == [op |-> "none", node |-> None, row |-> None, ok |-> FALSE]

Init ==
    /\ store = EmptyList
    /\ etag = 0
    /\ view = [c \in Clients |-> [etag |-> 0, list |-> EmptyList]]
    /\ last = NoMutation
    /\ restarts = 0
    /\ since = [c \in Clients |-> 0]

-----------------------------------------------------------------------------
\* Mutant: any etag up to the current one is answered "not modified".
get_all_up_to(request_etag) ==
    [etag |-> etag, list |-> IF request_etag <= etag THEN None ELSE store]

\* The answer of get_all: no list when the caller's etag is the current one.
get_all(request_etag) ==
    [etag |-> etag, list |-> IF request_etag = etag THEN None ELSE store]

Poll(c) ==
    LET answer == get_all(view[c].etag)
    IN  /\ view' = IF answer.list = None THEN view ELSE [view EXCEPT ![c] = answer]
        /\ since' = IF answer.list = None THEN since ELSE [since EXCEPT ![c] = restarts]
        /\ UNCHANGED <<store, etag, last, restarts>>

Write(op, n, row, new, ok) ==
    /\ store' = [store EXCEPT ![n] = new]
    /\ etag' = etag + 1
    /\ last' = [op |-> op, node |-> n, row |-> row, ok |-> ok]
    /\ UNCHANGED <<view, restarts, since>>

Refuse(op, n, row) ==
    /\ last' = [op |-> op, node |-> n, row |-> row, ok |-> FALSE]
    /\ UNCHANGED <<store, etag, view, restarts, since>>

\* post inserts a row for a new key and refuses an existing one.
post(n, row) ==
    IF store[n] # None THEN Refuse("post", n, row)
                       ELSE Write("post", n, row, row, TRUE)

\* put replaces the whole row; it answers whether the key was new.
put(n, row) == Write("put", n, row, row, store[n] = None)

\* Mutant: patch does not move the etag.
patch_without_etag(n, p) ==
    IF store[n] = None THEN Refuse("patch", n, None)
    ELSE /\ store' = [store EXCEPT ![n] = ApplyPatch(store[n], p)]
         /\ last' = [op |-> "patch", node |-> n, row |-> None, ok |-> TRUE]
         /\ UNCHANGED <<etag, view, restarts, since>>

patch(n, p) ==
    IF store[n] = None THEN Refuse("patch", n, None)
                       ELSE Write("patch", n, None, ApplyPatch(store[n], p), TRUE)

\* Mutant: delete does not move the etag.
delete_without_etag(n) ==
    IF store[n] = None THEN Refuse("delete", n, None)
    ELSE /\ store' = [store EXCEPT ![n] = None]
         /\ last' = [op |-> "delete", node |-> n, row |-> None, ok |-> TRUE]
         /\ UNCHANGED <<etag, view, restarts, since>>

delete(n) ==
    IF store[n] = None THEN Refuse("delete", n, None)
                       ELSE Write("delete", n, None, None, TRUE)

\* The process holding the store is restarted; its clients are other processes.
Restart ==
    /\ restarts < MaxRestarts
    /\ restarts' = restarts + 1
    /\ store' = EmptyList
    /\ etag' = 0
    /\ last' = NoMutation
    /\ UNCHANGED <<view, since>>

Mutate ==
    /\ etag < MaxEtag
    /\ \E n \in Nodes :
           \/ \E row \in DiscoveryBackendSparse : post(n, row) \/ put(n, row)
           \/ \E p \in DiscoveryBackendPatchSparse : patch(n, p)
           \/ delete(n)

Next == Mutate \/ Restart \/ \E c \in Clients : Poll(c)

Spec == Init /\ [][Next]_vars

-----------------------------------------------------------------------------
API == INSTANCE VersionedList WITH store <- store, etag <- etag, view <- view

\* While its process runs, the store keeps what the trait promises: every change
\* of the list carries a new etag, and an answer is never labelled newer than
\* the list it carries (memory.rs get_all against post/put/patch/delete).
ImplementsVersionedList == API!Spec

\* A client that received its list since the last restart and holds the current
\* etag (so that it is answered 304 from now on) holds the current list: only a
\* list from before a restart can be mistaken for the current one (get_all's
\* comparison with the etag, which starts again at zero with an empty store).
ListMatchesEtagThisBoot ==
    \A c \in Clients :
        view[c].etag = etag /\ since[c] = restarts => view[c].list = store

=============================================================================
