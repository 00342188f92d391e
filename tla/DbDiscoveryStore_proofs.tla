--------------------- MODULE DbDiscoveryStore_proofs ---------------------
(* The database store implements VersionedList on a database that aborts a *)
(* transaction whose statement failed, for every set of nodes and clients. *)
EXTENDS DbDiscoveryStore, TLAPS

IInv == TypeOK /\ LabelBetween

LEMMA EmptyListType == EmptyList \in BackendList
  BY DEF EmptyList, BackendList

\* A patched row and an upserted row are rows.
LEMMA PatchedRow ==
  ASSUME NEW row \in DiscoveryBackendSparse, NEW p \in DiscoveryBackendPatchSparse
  PROVE  ApplyPatch(row, p) \in DiscoveryBackendSparse
  BY DEF ApplyPatch, DiscoveryBackendSparse, DiscoveryBackendPatchSparse

LEMMA UpsertedRow ==
  ASSUME NEW old \in DiscoveryBackendSparse \cup {None}, NEW row \in DiscoveryBackendSparse
  PROVE  Upserted(old, row) \in DiscoveryBackendSparse
  BY DEF Upserted, DiscoveryBackendSparse

\* What a transaction leaves behind.
Committed(n, new, bump) ==
  /\ store' = [store EXCEPT ![n] = new]
  /\ etag' = etag + bump
  /\ UNCHANGED <<view, read>>
  /\ last' \in Mutation

\* Every mutation changes at most one row and moves the etag by at most one.
\* When the row changes and the etag does not, the database is one that undoes
\* only the failed statement, and the caller is answered an error.
LEMMA MutationShape ==
  ASSUME TypeOK, Mutate
  PROVE  \E n \in Nodes, new \in DiscoveryBackendSparse \cup {None}, bump \in {0, 1} :
             /\ Committed(n, new, bump)
             /\ bump = 1 \/ new = store[n] \/ (~TxnAbortsOnError /\ last'.reply = "error")
  <1> DEFINE Shape(n, new, bump) ==
               /\ Committed(n, new, bump)
               /\ bump = 1 \/ new = store[n] \/ (~TxnAbortsOnError /\ last'.reply = "error")
             Shaped(n, new) == \E bump \in {0, 1} : Shape(n, new, bump)
  <1>1. ASSUME NEW n \in Nodes PROVE store[n] \in DiscoveryBackendSparse \cup {None}
    BY DEF TypeOK, BackendList
  <1> USE DEF Committed, Commit, Rollback, RowThenEtag, Mutation, Reply
  <1>2. ASSUME NEW n \in Nodes, NEW row \in DiscoveryBackendSparse, post(n, row)
        PROVE  Shaped(n, row) \/ Shaped(n, store[n])
    BY <1>2 DEF post
  <1>3. ASSUME NEW n \in Nodes, NEW row \in DiscoveryBackendSparse, put(n, row)
        PROVE  Shaped(n, Upserted(store[n], row)) \/ Shaped(n, store[n])
    BY <1>3 DEF put
  <1>4. ASSUME NEW n \in Nodes, NEW p \in DiscoveryBackendPatchSparse, patch(n, p)
        PROVE  \/ store[n] # None /\ Shaped(n, ApplyPatch(store[n], p))
               \/ Shaped(n, store[n])
    BY <1>4 DEF patch
  <1>5. ASSUME NEW n \in Nodes, delete(n)
        PROVE  Shaped(n, None) \/ Shaped(n, store[n])
    BY <1>5 DEF delete
  <1> HIDE DEF Committed, Commit, Rollback, RowThenEtag, Mutation, Reply, Shape
  <1>6. \E n \in Nodes, new \in DiscoveryBackendSparse \cup {None} : Shaped(n, new)
    <2> HIDE DEF Shaped
    <2>1. QED
      BY <1>1, <1>2, <1>3, <1>4, <1>5, PatchedRow, UpsertedRow DEF Mutate
  <1>7. QED
    BY <1>6 DEF Shape

LEMMA InitIInv == Init => IInv
  BY EmptyListType DEF Init, IInv, TypeOK, LabelBetween, Mutation, Reply

LEMMA NextIInv ==
  ASSUME IInv, [Next]_vars
  PROVE  IInv'
  <1> USE DEF IInv, TypeOK, LabelBetween
  <1>1. CASE Mutate
    <2>1. PICK n \in Nodes, new \in DiscoveryBackendSparse \cup {None}, bump \in {0, 1} :
              Committed(n, new, bump)
      BY <1>1, MutationShape
    <2>2. store' \in BackendList
      BY <2>1 DEF Committed, BackendList
    <2>3. QED
      BY <2>1, <2>2, NoneAssumption DEF Committed
  <1>2. ASSUME NEW c \in Clients, get_all_etag(c) PROVE IInv'
    BY <1>2 DEF get_all_etag
  <1>3. ASSUME NEW c \in Clients, get_all_rows(c) PROVE IInv'
    BY <1>3 DEF get_all_rows
  <1>4. ASSUME NEW c \in Clients, get_all_fail(c) PROVE IInv'
    BY <1>4 DEF get_all_fail
  <1>5. CASE UNCHANGED vars
    BY <1>5 DEF vars
  <1>6. QED
    BY <1>1, <1>2, <1>3, <1>4, <1>5 DEF Next

\* The columns keep their types and a label read by get_all lies between the
\* client's etag and the table's, on either kind of database.
THEOREM DbInvariant == Spec => [](TypeOK /\ LabelBetween)
  <1>1. IInv /\ [Next]_vars => IInv'
    BY NextIInv
  <1>2. QED
    BY <1>1, InitIInv, PTL DEF Spec, IInv

\* A mutation that changes the rows behind the pollers' back answers an error.
THEOREM DbUnannouncedIsError == Spec => UnannouncedIsError
  <1>1. ASSUME IInv, [Next]_vars
        PROVE  [store' # store /\ etag' = etag => last'.reply = "error"]_vars
    <2>1. CASE Mutate
      <3>1. PICK n \in Nodes, new \in DiscoveryBackendSparse \cup {None}, bump \in {0, 1} :
                /\ Committed(n, new, bump)
                /\ bump = 1 \/ new = store[n] \/ (~TxnAbortsOnError /\ last'.reply = "error")
        BY <1>1, <2>1, MutationShape DEF IInv
      <3>2. CASE bump = 1
        BY <1>1, <3>1, <3>2 DEF Committed, IInv, TypeOK
      <3>3. CASE new = store[n]
        BY <1>1, <3>1, <3>3 DEF Committed, IInv, TypeOK, BackendList
      <3>4. QED
        BY <3>1, <3>2, <3>3
    <2>2. CASE ~Mutate
      BY <1>1, <2>2 DEF Next, vars, get_all_etag, get_all_rows, get_all_fail
    <2>3. QED
      BY <2>1, <2>2
  <1>2. IInv /\ [Next]_vars => IInv'
    BY NextIInv
  <1>3. QED
    BY <1>1, <1>2, InitIInv, PTL DEF Spec, UnannouncedIsError

\* Every step of the database store is a step of VersionedList or changes
\* nothing a poller can tell.
LEMMA StepSimulation ==
  ASSUME TxnAbortsOnError, IInv, [Next]_vars
  PROVE  [API!Next]_(API!vars)
  <1> USE DEF IInv, TypeOK, LabelBetween, API!vars
  <1>1. CASE Mutate
    <2>1. PICK n \in Nodes, new \in DiscoveryBackendSparse \cup {None} :
              Committed(n, new, 1) \/ Committed(n, store[n], 0)
      BY <1>1, MutationShape, TxnAbortsOnError
    <2>2. CASE Committed(n, new, 1)
      <3>1. store' \in BackendList
        BY <2>2 DEF Committed, BackendList
      <3>2. QED
        BY <2>2, <3>1 DEF Committed, API!Next, API!Publish, BackendList, API!BackendList,
                          DiscoveryBackendSparse, API!DiscoveryBackendSparse
    <2>3. CASE Committed(n, store[n], 0)
      <3>1. store' = store
        BY <2>3 DEF Committed, BackendList
      <3>2. QED
        BY <2>3, <3>1 DEF Committed
    <2>4. QED
      BY <2>1, <2>2, <2>3
  <1>2. ASSUME NEW c \in Clients, get_all_etag(c) PROVE UNCHANGED API!vars
    BY <1>2 DEF get_all_etag
  <1>3. ASSUME NEW c \in Clients, get_all_rows(c) PROVE API!Refresh(c)
    <2>1. read[c] \in view[c].etag .. etag
      BY <1>3 DEF get_all_rows
    <2>2. QED
      BY <1>3, <2>1 DEF get_all_rows, API!Refresh
  <1>4. ASSUME NEW c \in Clients, get_all_fail(c) PROVE UNCHANGED API!vars
    BY <1>4 DEF get_all_fail
  <1>5. CASE UNCHANGED vars
    BY <1>5 DEF vars
  <1>6. QED
    BY <1>1, <1>2, <1>3, <1>4, <1>5 DEF Next, API!Next

\* Reading the etag and the rows in two statements, etag first, is as good as
\* VersionedList asks, whatever commits in between.
THEOREM DbImplementsVersionedList ==
  ASSUME TxnAbortsOnError
  PROVE  Spec => ImplementsVersionedList
  <1>1. Init => API!Init
    BY DEF Init, API!Init, EmptyList, API!EmptyList
  <1>2. IInv /\ [Next]_vars => IInv' /\ [API!Next]_(API!vars)
    BY TxnAbortsOnError, NextIInv, StepSimulation
  <1>3. QED
    BY <1>1, <1>2, InitIInv, PTL DEF Spec, ImplementsVersionedList, API!Spec

\* A poller holding the current etag holds the current rows.
THEOREM DbListMatchesEtag ==
  ASSUME TxnAbortsOnError
  PROVE  Spec => []ListMatchesEtag
  <1> DEFINE Inv == IInv /\ ListMatchesEtag
  <1> USE DEF ListMatchesEtag, API!ListMatchesEtag
  <1>1. Init => Inv
    BY InitIInv DEF Init
  <1>2. Inv /\ [Next]_vars => Inv'
    <2> SUFFICES ASSUME Inv, [Next]_vars PROVE ListMatchesEtag'
      BY NextIInv
    <2>1. [API!Next]_(API!vars)
      BY TxnAbortsOnError, StepSimulation
    <2>2. CASE API!Publish
      BY <2>2 DEF API!Publish, IInv, TypeOK, LabelBetween
    <2>3. ASSUME NEW c \in Clients, API!Refresh(c) PROVE ListMatchesEtag'
      BY <2>3 DEF API!Refresh, IInv, TypeOK
    <2>4. CASE UNCHANGED API!vars
      BY <2>4 DEF API!vars
    <2>5. QED
      BY <2>1, <2>2, <2>3, <2>4 DEF API!Next
  <1>3. QED
    BY <1>1, <1>2, PTL DEF Spec

=============================================================================
