----------------------- MODULE VersionedList_proofs -----------------------
(* The promise of get_all to its pollers follows from VersionedList for    *)
(* every set of nodes, clients and rows and any number of changes.         *)
EXTENDS VersionedList, TLAPS

\* No client's label is ahead of the store's etag: what makes ListMatchesEtag
\* inductive, for a change of the list then leaves every label behind.
LabelsBehind == \A c \in Clients : view[c].etag <= etag

IInv == TypeOK /\ LabelsBehind /\ ListMatchesEtag

LEMMA EmptyListType == EmptyList \in BackendList
  BY DEF EmptyList, BackendList

LEMMA InitIInv == Init => IInv
  BY EmptyListType DEF Init, IInv, TypeOK, LabelsBehind, ListMatchesEtag, View

LEMMA NextIInv == IInv /\ [Next]_vars => IInv'
  <1> SUFFICES ASSUME IInv, [Next]_vars PROVE IInv'
    OBVIOUS
  <1> USE DEF IInv, TypeOK, LabelsBehind, ListMatchesEtag, View
  <1>1. CASE Publish
    BY <1>1 DEF Publish
  <1>2. ASSUME NEW c \in Clients, Refresh(c) PROVE IInv'
    BY <1>2 DEF Refresh
  <1>3. CASE UNCHANGED vars
    BY <1>3 DEF vars
  <1>4. QED
    BY <1>1, <1>2, <1>3 DEF Next

\* In every store that behaves like VersionedList, a client holding the current
\* etag, who is answered "not modified" from then on, holds the current list.
THEOREM ListMatchesEtagAlways == Spec => []ListMatchesEtag
  <1>1. IInv => ListMatchesEtag
    BY DEF IInv
  <1>2. QED
    BY InitIInv, NextIInv, <1>1, PTL DEF Spec

=============================================================================
