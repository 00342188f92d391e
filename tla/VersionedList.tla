--------------------------- MODULE VersionedList ---------------------------
(***************************************************************************)
(* What the trait DiscoveryBackendStore promises the pollers of get_all    *)
(* (service-api/src/discovery.rs, doc/discovery-service-openapi.yaml): a   *)
(* list whose every change carries a new etag, and clients that keep the   *)
(* last list they were given together with the etag it was labelled with.  *)
(*                                                                         *)
(* A full answer carries the list as it is when it is read, labelled with  *)
(* an etag that may be OLDER than the list (a store may read the two one   *)
(* after the other) but never newer.  "Not modified" leaves the client's   *)
(* copy alone.  That is enough for the promise ListMatchesEtag.            *)
(***************************************************************************)
EXTENDS DiscoveryBackends

CONSTANT Clients

VARIABLES
    store,  \* the backend list
    etag,   \* its version
    view    \* view[c]: the list client c holds and the etag it came with

vars == <<store, etag, view>>

View == [etag : Nat, list : BackendList]

TypeOK ==
    /\ store \in BackendList
    /\ etag \in Nat
    /\ view \in [Clients -> View]

Init ==
    /\ store = EmptyList
    /\ etag = 0
    /\ view = [c \in Clients |-> [etag |-> 0, list |-> EmptyList]]

\* The list becomes any other list (or the same one); the etag moves on.
Publish ==
    /\ store' \in BackendList
    /\ etag' = etag + 1
    /\ UNCHANGED view

\* A full answer: today's list under a label no newer than today's etag.
Refresh(c) ==
    /\ \E e \in view[c].etag .. etag :
           view' = [view EXCEPT ![c] = [etag |-> e, list |-> store]]
    /\ UNCHANGED <<store, etag>>

Next == Publish \/ \E c \in Clients : Refresh(c)

Spec == Init /\ [][Next]_vars

-----------------------------------------------------------------------------
\* A client whose etag is the current one, and who will therefore be answered
\* "not modified", holds the current list.
ListMatchesEtag ==
    \A c \in Clients : view[c].etag = etag => view[c].list = store

=============================================================================
