------------------------- MODULE OfferPages_proofs -------------------------
(***************************************************************************)
(* The memory offer store for any number of callers, partitions and ids:   *)
(* two locks, taken one after the other, keep every offer's metadata in    *)
(* place and make the maps the atomic catalog; and what a walk through the *)
(* pages of a partition can miss or repeat beside callers that write.      *)
(***************************************************************************)
EXTENDS OfferPages, FiniteSetTheorems, SequenceTheorems, TLAPS

OfferWriters == {"post_offer", "put_offer", "delete_offer"}
MetadataWriters == {"post_metadata", "put_metadata", "delete_metadata"}

\* Inductive: HoldsLocks makes what was seen under the locks still true at the
\* write (StillProceeds), and that is what the write needs to keep
\* OffersHaveMetadata.
IInv == TypeOK /\ HoldsLocks /\ StillProceeds /\ OffersHaveMetadata

\* Who is about to write the offers, or has read them for a decision about the
\* metadata, holds the offer lock; likewise for the metadata.
LEMMA WriterHolds ==
  ASSUME TypeOK, HoldsLocks, NEW c \in Callers, pc[c] = "write"
  PROVE  /\ call[c].op \in OfferWriters \cup {"delete_metadata"} => lock["offer"] = c
         /\ call[c].op \in MetadataWriters \cup {"post_offer", "put_offer"}
                => lock["metadata"] = c
  BY NoneAssumption
     DEF TypeOK, HoldsLocks, FirstLock, SecondLock, OfferWriters, MetadataWriters

\* Only an operation with a write of its own gets to the write.
LEMMA WritersWrite ==
  ASSUME NEW c \in Callers, Proceeds(c)
  PROVE  call[c].op \in OfferWriters \cup MetadataWriters
  BY DEF Proceeds, OfferWriters, MetadataWriters

\* A decision stands as long as the maps it read stay as they are.
LEMMA ProceedsFrame ==
  ASSUME NEW c \in Callers, Proceeds(c), call'[c] = call[c],
         \/ UNCHANGED <<offer, metadata>>
         \/ UNCHANGED offer /\ call[c].op = "delete_offer"
         \/ UNCHANGED metadata /\ call[c].op \in {"post_metadata", "put_metadata"}
  PROVE  Proceeds(c)'
  BY DEF Proceeds, OfferKey, MetadataKey

LEMMA InitIInv == Init => IInv
  BY DEF Init, IInv, TypeOK, HoldsLocks, StillProceeds, OffersHaveMetadata, Locks, PC

\* Releasing leaves the locks of the others alone.
LEMMA ReleaseKeeps ==
  ASSUME TypeOK, HoldsLocks, NEW c \in Callers, Release(c), UNCHANGED call
  PROVE  HoldsLocks' /\ lock' \in [Locks -> Callers \cup {None}]
         /\ pc' \in [Callers -> PC] /\ pc'[c] = "idle"
         /\ \A d \in Callers : d # c => pc'[d] = pc[d]
  <1> USE DEF TypeOK, HoldsLocks, Release, PC
  <1>1. pc' \in [Callers -> PC] /\ pc'[c] = "idle"
        /\ \A d \in Callers : d # c => pc'[d] = pc[d]
    OBVIOUS
  <1>2. lock' \in [Locks -> Callers \cup {None}]
    OBVIOUS
  <1>3. ASSUME NEW l \in Locks, NEW d \in Callers, d # c, lock[l] = d
        PROVE  lock'[l] = d
    BY <1>3
  <1>4. ASSUME NEW d \in Callers
        PROVE  /\ FirstLock(call[d].op) \in Locks
               /\ SecondLock(call[d].op) # None => SecondLock(call[d].op) \in Locks
    BY DEF FirstLock, SecondLock, Locks
  <1>5. HoldsLocks'
    BY <1>1, <1>3, <1>4
  <1>6. QED
    BY <1>1, <1>2, <1>5

LEMMA NextIInv ==
  ASSUME IInv, [Next]_vars
  PROVE  IInv'
  <1> USE DEF IInv
  <1>0. ASSUME UNCHANGED <<offer, metadata>> PROVE OffersHaveMetadata'
    BY <1>0 DEF OffersHaveMetadata
  <1>1. ASSUME NEW c \in Callers, Begin(c) PROVE IInv'
    <2>1. TypeOK' BY <1>1 DEF Begin, TypeOK, PC
    <2>2. HoldsLocks' BY <1>1 DEF Begin, HoldsLocks, TypeOK
    <2>3. StillProceeds'
      <3>1. ASSUME NEW d \in Callers, pc'[d] = "write" PROVE Proceeds(d)'
        <4>1. pc[d] = "write" /\ call'[d] = call[d]
          BY <1>1, <3>1 DEF Begin, TypeOK
        <4>2. QED
          BY <1>1, <4>1, ProceedsFrame DEF Begin, StillProceeds
      <3>2. QED BY <3>1 DEF StillProceeds
    <2>4. QED BY <1>1, <2>1, <2>2, <2>3, <1>0 DEF Begin
  <1>2. ASSUME NEW c \in Callers, LockFirst(c) PROVE IInv'
    <2>1. TypeOK' BY <1>2 DEF LockFirst, TypeOK, PC
    <2>2. HoldsLocks'
      BY <1>2, NoneAssumption DEF LockFirst, HoldsLocks, TypeOK, FirstLock, SecondLock, Locks
    <2>3. StillProceeds'
      BY <1>2, ProceedsFrame DEF LockFirst, StillProceeds, TypeOK
    <2>4. QED BY <1>2, <2>1, <2>2, <2>3, <1>0 DEF LockFirst
  <1>3. ASSUME NEW c \in Callers, LockSecond(c) PROVE IInv'
    <2>1. TypeOK' BY <1>3 DEF LockSecond, TypeOK, PC
    <2>2. HoldsLocks'
      BY <1>3, NoneAssumption DEF LockSecond, HoldsLocks, TypeOK, FirstLock, SecondLock, Locks
    <2>3. StillProceeds'
      BY <1>3, ProceedsFrame DEF LockSecond, StillProceeds, TypeOK
    <2>4. QED BY <1>3, <2>1, <2>2, <2>3, <1>0 DEF LockSecond
  <1>4. ASSUME NEW c \in Callers, LookAndGoOn(c) PROVE IInv'
    <2>1. TypeOK' BY <1>4 DEF LookAndGoOn, TypeOK, PC
    <2>2. HoldsLocks' BY <1>4 DEF LookAndGoOn, HoldsLocks, TypeOK
    <2>3. StillProceeds'
      BY <1>4, ProceedsFrame DEF LookAndGoOn, StillProceeds, TypeOK
    <2>4. QED BY <1>4, <2>1, <2>2, <2>3, <1>0 DEF LookAndGoOn
  <1>5. ASSUME NEW c \in Callers, LookAndReturn(c) \/ Drop(c) PROVE IInv'
    <2>1. Release(c) /\ UNCHANGED <<offer, metadata, call>>
      BY <1>5 DEF LookAndReturn, Drop
    <2>2. TypeOK' /\ HoldsLocks'
      BY <2>1, ReleaseKeeps DEF TypeOK
    <2>3. StillProceeds'
      BY <2>1, ReleaseKeeps, ProceedsFrame DEF StillProceeds
    <2>4. QED BY <2>1, <2>2, <2>3, <1>0
  <1>6. ASSUME NEW c \in Callers, WriteOffer(c) PROVE IInv'
    <2>1. Release(c) /\ UNCHANGED <<metadata, call>> /\ pc[c] = "write" /\ Proceeds(c)
      BY <1>6 DEF WriteOffer, StillProceeds
    <2>2. TypeOK' /\ HoldsLocks'
      BY <1>6, <2>1, ReleaseKeeps DEF TypeOK, WriteOffer, OfferKey, Call
    <2>3. StillProceeds'
      <3>1. ASSUME NEW d \in Callers, pc'[d] = "write" PROVE Proceeds(d)'
        <4>1. d # c /\ pc[d] = "write" /\ Proceeds(d)
          BY <2>1, <3>1, ReleaseKeeps DEF StillProceeds
        <4>2. lock["offer"] = c
          BY <1>6, <2>1, WriterHolds DEF WriteOffer, OfferWriters
        <4>3. call[d].op \in {"post_metadata", "put_metadata"}
          BY <4>1, <4>2, WriterHolds, WritersWrite DEF OfferWriters, MetadataWriters
        <4>4. QED
          BY <2>1, <4>1, <4>3, ProceedsFrame
      <3>2. QED BY <3>1 DEF StillProceeds
    <2>4. OffersHaveMetadata'
      <3>1. CASE call[c].op \in {"post_offer", "put_offer"}
        BY <1>6, <2>1, <3>1
           DEF OffersHaveMetadata, WriteOffer, Proceeds, MetadataKey, OfferKey, TypeOK
      <3>2. CASE call[c].op = "delete_offer"
        BY <1>6, <2>1, <3>2 DEF OffersHaveMetadata, WriteOffer, OfferKey, TypeOK
      <3>3. QED BY <1>6, <3>1, <3>2 DEF WriteOffer
    <2>5. QED BY <2>2, <2>3, <2>4
  <1>7. ASSUME NEW c \in Callers, WriteMetadata(c) PROVE IInv'
    <2>1. Release(c) /\ UNCHANGED <<offer, call>> /\ pc[c] = "write" /\ Proceeds(c)
      BY <1>7 DEF WriteMetadata, StillProceeds
    <2>2. TypeOK' /\ HoldsLocks'
      BY <1>7, <2>1, ReleaseKeeps DEF TypeOK, WriteMetadata, MetadataKey, Call
    <2>3. StillProceeds'
      <3>1. ASSUME NEW d \in Callers, pc'[d] = "write" PROVE Proceeds(d)'
        <4>1. d # c /\ pc[d] = "write" /\ Proceeds(d)
          BY <2>1, <3>1, ReleaseKeeps DEF StillProceeds
        <4>2. lock["metadata"] = c
          BY <1>7, <2>1, WriterHolds DEF WriteMetadata, MetadataWriters
        <4>3. call[d].op = "delete_offer"
          BY <4>1, <4>2, WriterHolds, WritersWrite DEF OfferWriters, MetadataWriters
        <4>4. QED
          BY <2>1, <4>1, <4>3, ProceedsFrame
      <3>2. QED BY <3>1 DEF StillProceeds
    <2>4. OffersHaveMetadata'
      <3>1. CASE call[c].op \in {"post_metadata", "put_metadata"}
        BY <1>7, <2>1, <3>1 DEF OffersHaveMetadata, WriteMetadata
      <3>2. CASE call[c].op = "delete_metadata"
        BY <1>7, <2>1, <3>2
           DEF OffersHaveMetadata, WriteMetadata, Proceeds, MetadataKey, TypeOK
      <3>3. QED BY <1>7, <3>1, <3>2 DEF WriteMetadata
    <2>5. QED BY <2>2, <2>3, <2>4
  <1>8. CASE UNCHANGED vars
    BY <1>8 DEF vars, TypeOK, HoldsLocks, StillProceeds, Proceeds, OfferKey, MetadataKey,
                OffersHaveMetadata
  <1>9. QED
    BY <1>1, <1>2, <1>3, <1>4, <1>5, <1>6, <1>7, <1>8 DEF Next, Step

\* Whatever posts, puts and deletes overlap, the metadata of every stored offer
\* is stored in the offer's partition, and no operation writes on the strength
\* of something that is no longer so.
THEOREM OffersAlwaysHaveMetadata == Spec => [](OffersHaveMetadata /\ StillProceeds)
  <1>1. IInv /\ [Next]_vars => IInv'
    BY NextIInv
  <1>2. IInv => OffersHaveMetadata /\ StillProceeds
    BY DEF IInv
  <1>3. QED
    BY <1>1, <1>2, InitIInv, PTL DEF Spec

-----------------------------------------------------------------------------
\* A write under the locks is one step of the catalog: StillProceeds says that
\* what was looked up is what the catalog asks for at that very moment.
LEMMA WriteOfferStep ==
  ASSUME IInv, NEW c \in Callers, WriteOffer(c)
  PROVE  Catalog!Next
  <1>1. Proceeds(c) /\ call[c] \in Call
    BY DEF IInv, StillProceeds, WriteOffer, TypeOK
  <1>2. OfferKey(c) \in Partitions \X Ids /\ OfferKey(c)[1] = call[c].partition
    BY <1>1 DEF OfferKey, Call
  <1>3. CASE call[c].op \in {"post_offer", "put_offer"}
    <2>1. Catalog!WriteOffer(OfferKey(c), call[c].metadata_id)
      BY <1>1, <1>2, <1>3 DEF Catalog!WriteOffer, WriteOffer, Proceeds, MetadataKey
    <2>2. call[c].metadata_id \in MetadataIds
      BY <1>1 DEF Call
    <2>3. QED
      BY <1>2, <2>1, <2>2 DEF Catalog!Next
  <1>4. CASE call[c].op = "delete_offer"
    <2>1. Catalog!DeleteOffer(OfferKey(c))
      BY <1>4 DEF Catalog!DeleteOffer, WriteOffer
    <2>2. QED
      BY <1>2, <2>1 DEF Catalog!Next
  <1>5. QED
    BY <1>3, <1>4 DEF WriteOffer

LEMMA WriteMetadataStep ==
  ASSUME IInv, NEW c \in Callers, WriteMetadata(c)
  PROVE  Catalog!Next
  <1>1. Proceeds(c) /\ call[c] \in Call
    BY DEF IInv, StillProceeds, WriteMetadata, TypeOK
  <1>2. /\ MetadataKey(c) \in Partitions \X MetadataIds
        /\ MetadataKey(c)[1] = call[c].partition
        /\ MetadataKey(c)[2] = call[c].metadata_id
    BY <1>1 DEF MetadataKey, Call
  <1>3. CASE call[c].op \in {"post_metadata", "put_metadata"}
    <2>1. Catalog!WriteMetadata(MetadataKey(c))
      BY <1>3 DEF Catalog!WriteMetadata, WriteMetadata
    <2>2. QED
      BY <1>2, <2>1 DEF Catalog!Next
  <1>4. CASE call[c].op = "delete_metadata"
    <2>1. Catalog!DeleteMetadata(MetadataKey(c))
      BY <1>1, <1>2, <1>4 DEF Catalog!DeleteMetadata, WriteMetadata, Proceeds
    <2>2. QED
      BY <1>2, <2>1 DEF Catalog!Next
  <1>5. QED
    BY <1>3, <1>4 DEF WriteMetadata

\* Everything else leaves the two maps alone.
LEMMA StepCatalog ==
  ASSUME IInv, [Next]_vars
  PROVE  [Catalog!Next]_(Catalog!vars)
  <1>1. CASE \E c \in Callers : WriteOffer(c)
    BY <1>1, WriteOfferStep
  <1>2. CASE \E c \in Callers : WriteMetadata(c)
    BY <1>2, WriteMetadataStep
  <1>3. CASE \/ \E c \in Callers : \/ Begin(c) \/ LockFirst(c) \/ LockSecond(c)
                                   \/ LookAndGoOn(c) \/ LookAndReturn(c) \/ Drop(c)
             \/ UNCHANGED vars
    BY <1>3 DEF Begin, LockFirst, LockSecond, LookAndGoOn, LookAndReturn, Drop, vars, Catalog!vars
  <1>4. QED
    BY <1>1, <1>2, <1>3 DEF Next, Step

\* The two maps behind two locks implement the atomic catalog: every operation
\* that looks, decides and writes in steps of its own beside others has its
\* effect at one moment at which its condition holds (memory.rs, all methods).
THEOREM MemoryImplementsCatalog == Spec => ImplementsCatalog
  <1>1. Init => Catalog!Init
    BY DEF Init, Catalog!Init
  <1>2. IInv /\ [Next]_vars => IInv' /\ [Catalog!Next]_(Catalog!vars)
    BY NextIInv, StepCatalog
  <1>3. QED
    BY <1>1, <1>2, InitIInv, PTL DEF Spec, ImplementsCatalog, Catalog!Spec

-----------------------------------------------------------------------------
(* The walk: what a write does to the order, as far as a walk can tell.    *)

LEMMA RemoveAtProperties ==
  ASSUME NEW S, NEW seq \in Seq(S), NEW k \in 1 .. Len(seq)
  PROVE  /\ RemoveAt(seq, k) \in Seq(S)
         /\ Len(RemoveAt(seq, k)) = Len(seq) - 1
         /\ \A i \in 1 .. Len(seq) - 1 :
                RemoveAt(seq, k)[i] = IF i < k THEN seq[i] ELSE seq[i + 1]
  <1> DEFINE front == SubSeq(seq, 1, k - 1)
             back == SubSeq(seq, k + 1, Len(seq))
  <1>1. /\ front \in Seq(S) /\ Len(front) = k - 1
        /\ \A i \in 1 .. k - 1 : front[i] = seq[i]
    <2>1. \A i \in 1 .. k - 1 : seq[i] \in S
      BY ElementOfSeq, LenProperties
    <2>2. QED
      BY <2>1, SubSeqProperties, LenProperties
  <1>2. /\ back \in Seq(S) /\ Len(back) = Len(seq) - k
        /\ \A i \in 1 .. Len(seq) - k : back[i] = seq[k + i]
    <2>1. \A i \in k + 1 .. Len(seq) : seq[i] \in S
      BY ElementOfSeq, LenProperties
    <2>2. QED
      BY <2>1, SubSeqProperties, LenProperties
  <1>3. RemoveAt(seq, k) = front \o back
    BY DEF RemoveAt
  <1> HIDE DEF front, back
  <1>4. /\ front \o back \in Seq(S) /\ Len(front \o back) = Len(front) + Len(back)
        /\ \A i \in 1 .. Len(front) + Len(back) :
               (front \o back)[i] = IF i <= Len(front) THEN front[i] ELSE back[i - Len(front)]
    BY <1>1, <1>2, ConcatProperties
  <1>5. Len(seq) \in Nat /\ k \in Nat /\ Len(front) + Len(back) = Len(seq) - 1
    BY <1>1, <1>2, LenProperties
  <1>6. ASSUME NEW i \in 1 .. Len(seq) - 1
        PROVE  RemoveAt(seq, k)[i] = IF i < k THEN seq[i] ELSE seq[i + 1]
    <2>1. CASE i < k
      <3>1. i <= Len(front) /\ i \in 1 .. k - 1
        BY <1>1, <1>5, <2>1
      <3>2. QED
        BY <1>1, <1>3, <1>4, <1>5, <2>1, <3>1
    <2>2. CASE ~(i < k)
      <3>1. ~(i <= Len(front)) /\ i - Len(front) \in 1 .. Len(seq) - k
            /\ k + (i - Len(front)) = i + 1
        BY <1>1, <1>5, <2>2
      <3>2. QED
        BY <1>2, <1>3, <1>4, <1>5, <2>2, <3>1
    <2>3. QED
      BY <2>1, <2>2
  <1>7. QED
    BY <1>3, <1>4, <1>5, <1>6

\* In an order without duplicates the first occurrence is the only one.
LEMMA RemoveFirstIs ==
  ASSUME NEW S, NEW seq \in Seq(S), IsInjective(seq), NEW id
  PROVE  /\ \A k \in 1 .. Len(seq) : seq[k] = id => RemoveFirst(seq, id) = RemoveAt(seq, k)
         /\ id \notin ToSet(seq) => RemoveFirst(seq, id) = seq
  <1>1. ASSUME NEW k \in 1 .. Len(seq), seq[k] = id
        PROVE  RemoveFirst(seq, id) = RemoveAt(seq, k)
    <2>1. {i \in 1 .. Len(seq) : seq[i] = id} = {k}
      BY <1>1, LenProperties DEF IsInjective
    <2>2. Min({k}) = k
      BY LenProperties DEF Min
    <2>3. SelectInSeq(seq, LAMBDA v : v = id) = k
      BY <2>1, <2>2 DEF SelectInSeq
    <2>4. QED
      BY <1>1, <2>3 DEF RemoveFirst
  <1>2. id \notin ToSet(seq) => RemoveFirst(seq, id) = seq
    BY LenProperties DEF ToSet, RemoveFirst
  <1>3. QED
    BY <1>1, <1>2

\* A record in place i is in place j after id was removed: it moved up by one
\* if id was before it.
MovesTo(seq, id, i, j) == j = i \/ (j = i - 1 /\ \E k \in 1 .. j : seq[k] = id)

\* No record but id is in q in another place than that.
Reordered(seq, id, q) ==
  /\ \A i \in 1 .. Len(seq) :
         seq[i] # id => \E j \in 1 .. Len(q) : q[j] = seq[i] /\ MovesTo(seq, id, i, j)
  /\ \A j \in 1 .. Len(q) :
         q[j] # id => \E i \in 1 .. Len(seq) : q[j] = seq[i] /\ i >= j

LEMMA RemoveFirstProperties ==
  ASSUME NEW S, NEW seq \in Seq(S), IsInjective(seq), NEW id,
         NEW r, r = RemoveFirst(seq, id)
  PROVE  /\ r \in Seq(S) /\ IsInjective(r)
         /\ ToSet(r) = ToSet(seq) \ {id}
         /\ id \in ToSet(seq) => Len(r) = Len(seq) - 1
         /\ id \notin ToSet(seq) => Len(r) = Len(seq)
         /\ Reordered(seq, id, r)
  <1>0. Len(seq) \in Nat /\ DOMAIN seq = 1 .. Len(seq)
    BY LenProperties
  <1>1. CASE id \notin ToSet(seq)
    <2>1. r = seq
      BY <1>1, RemoveFirstIs
    <2>2. Reordered(seq, id, seq)
      BY <1>0 DEF Reordered, MovesTo
    <2>3. QED
      BY <1>1, <2>1, <2>2
  <1>2. CASE id \in ToSet(seq)
    <2>1. PICK k \in 1 .. Len(seq) : seq[k] = id
      BY <1>0, <1>2 DEF ToSet
    <2>2. /\ r \in Seq(S) /\ Len(r) = Len(seq) - 1
          /\ \A i \in 1 .. Len(seq) - 1 : r[i] = IF i < k THEN seq[i] ELSE seq[i + 1]
      <3>1. r = RemoveAt(seq, k)
        BY <2>1, RemoveFirstIs
      <3>2. QED
        BY <3>1, RemoveAtProperties
    <2>3. DOMAIN r = 1 .. Len(seq) - 1
      BY <2>2, LenProperties
    <2>4. \A a \in 1 .. Len(seq), b \in 1 .. Len(seq) : seq[a] = seq[b] => a = b
      BY <1>0 DEF IsInjective
    <2>5. IsInjective(r)
      <3>1. SUFFICES ASSUME NEW a \in 1 .. Len(seq) - 1, NEW b \in 1 .. Len(seq) - 1, r[a] = r[b]
                     PROVE  a = b
        BY <2>3 DEF IsInjective
      <3>2. QED
        BY <1>0, <2>1, <2>2, <2>4, <3>1
    <2>6. ASSUME NEW j \in 1 .. Len(r)
          PROVE  \E i \in 1 .. Len(seq) : r[j] = seq[i] /\ i >= j /\ i # k
      BY <1>0, <2>1, <2>2
    <2>7. ASSUME NEW i \in 1 .. Len(seq), seq[i] # id
          PROVE  \E j \in 1 .. Len(r) : r[j] = seq[i] /\ MovesTo(seq, id, i, j)
      <3>1. CASE i < k
        <4>1. i \in 1 .. Len(r) /\ r[i] = seq[i]
          BY <1>0, <2>1, <2>2, <3>1
        <4>2. QED
          BY <4>1 DEF MovesTo
      <3>2. CASE i > k
        <4>1. i - 1 \in 1 .. Len(r) /\ r[i - 1] = seq[i] /\ k \in 1 .. i - 1
          BY <1>0, <2>1, <2>2, <3>2
        <4>2. QED
          BY <2>1, <4>1 DEF MovesTo
      <3>3. QED
        BY <1>0, <2>1, <2>7, <3>1, <3>2
    <2>8. ToSet(r) \subseteq ToSet(seq) \ {id}
      <3>1. SUFFICES ASSUME NEW j \in 1 .. Len(r) PROVE r[j] \in ToSet(seq) /\ r[j] # id
        BY <2>2, <2>3 DEF ToSet
      <3>2. QED
        BY <1>0, <2>1, <2>4, <2>6 DEF ToSet
    <2>9. ASSUME NEW x \in ToSet(seq) \ {id} PROVE x \in ToSet(r)
      <3>1. PICK i \in 1 .. Len(seq) : seq[i] = x
        BY <1>0 DEF ToSet
      <3>2. PICK j \in 1 .. Len(r) : r[j] = x
        BY <2>7, <3>1
      <3>3. QED
        BY <2>2, <2>3, <3>2 DEF ToSet
    <2>10. Reordered(seq, id, r)
      BY <2>6, <2>7 DEF Reordered
    <2>11. QED
      BY <1>2, <2>2, <2>5, <2>8, <2>9, <2>10
  <1>3. QED
    BY <1>1, <1>2

AllIds == Ids \cup MetadataIds

\* id is last, in a place no record had before.
IsLast(seq, id, q) == q[Len(q)] = id /\ Len(q) >= Len(seq) /\ Len(q) >= 1

\* What both kinds of write make of an order.
Ordered(seq, id, q, ids) ==
  q \in Seq(AllIds) /\ IsInjective(q) /\ ToSet(q) = ids /\ Reordered(seq, id, q)

\* An inserted or replaced record is last.
LEMMA PutProperties ==
  ASSUME NEW seq \in Seq(AllIds), IsInjective(seq), NEW id \in AllIds,
         NEW q, q = Append(RemoveFirst(seq, id), id)
  PROVE  Ordered(seq, id, q, ToSet(seq) \cup {id}) /\ IsLast(seq, id, q)
  <1>1. PICK r : r = RemoveFirst(seq, id)
    OBVIOUS
  <1>2. /\ r \in Seq(AllIds) /\ IsInjective(r)
        /\ ToSet(r) = ToSet(seq) \ {id}
        /\ id \in ToSet(seq) => Len(r) = Len(seq) - 1
        /\ id \notin ToSet(seq) => Len(r) = Len(seq)
        /\ Reordered(seq, id, r)
    BY <1>1, RemoveFirstProperties
  <1>3. /\ Len(seq) \in Nat /\ Len(r) \in Nat
        /\ DOMAIN seq = 1 .. Len(seq) /\ DOMAIN r = 1 .. Len(r)
    BY <1>2, LenProperties
  <1>4. /\ q \in Seq(AllIds) /\ Len(q) = Len(r) + 1 /\ q[Len(r) + 1] = id
        /\ \A i \in 1 .. Len(r) : q[i] = r[i]
    BY <1>1, <1>2, AppendProperties
  <1>5. DOMAIN q = 1 .. Len(r) + 1
    BY <1>4, LenProperties
  <1>6. \A i \in 1 .. Len(r) : r[i] # id
    BY <1>2, <1>3 DEF ToSet
  <1>7. IsInjective(q)
    <2>1. SUFFICES ASSUME NEW a \in 1 .. Len(r) + 1, NEW b \in 1 .. Len(r) + 1, q[a] = q[b]
                   PROVE  a = b
      BY <1>5 DEF IsInjective
    <2>2. CASE a \in 1 .. Len(r) /\ b \in 1 .. Len(r)
      BY <1>2, <1>3, <1>4, <2>1, <2>2 DEF IsInjective
    <2>3. QED
      BY <1>3, <1>4, <1>6, <2>1, <2>2
  <1>8. ToSet(q) = ToSet(seq) \cup {id}
    <2>1. ToSet(q) = ToSet(r) \cup {id}
      BY <1>3, <1>4, <1>5 DEF ToSet
    <2>2. QED
      BY <1>2, <2>1
  <1>9. ASSUME NEW i \in 1 .. Len(seq), seq[i] # id
        PROVE  \E j \in 1 .. Len(q) : q[j] = seq[i] /\ MovesTo(seq, id, i, j)
    <2>1. PICK j \in 1 .. Len(r) : r[j] = seq[i] /\ MovesTo(seq, id, i, j)
      BY <1>2, <1>9 DEF Reordered
    <2>2. j \in 1 .. Len(q) /\ q[j] = seq[i]
      BY <1>3, <1>4, <2>1
    <2>3. QED
      BY <2>1, <2>2
  <1>10. ASSUME NEW j \in 1 .. Len(q), q[j] # id
        PROVE  \E i \in 1 .. Len(seq) : q[j] = seq[i] /\ i >= j
    <2>1. j \in 1 .. Len(r) /\ q[j] = r[j]
      BY <1>3, <1>4, <1>10
    <2>2. QED
      BY <1>2, <1>6, <2>1 DEF Reordered
  <1>11. Reordered(seq, id, q)
    BY <1>9, <1>10 DEF Reordered
  <1>12. Len(q) >= Len(seq) /\ Len(q) >= 1
    <2>1. Len(r) = Len(seq) - 1 \/ Len(r) = Len(seq)
      BY <1>2
    <2>2. \A m, n \in Nat : m = n - 1 \/ m = n => m + 1 >= n /\ m + 1 >= 1
      OBVIOUS
    <2>3. Len(q) = Len(r) + 1
      BY <1>4
    <2>4. QED
      BY <1>3, <2>1, <2>2, <2>3, Zenon
  <1>13. QED
    BY <1>4, <1>7, <1>8, <1>11, <1>12 DEF Ordered, IsLast

LEMMA OrderedWhenDeleted ==
  ASSUME NEW seq \in Seq(AllIds), IsInjective(seq), NEW id
  PROVE  Ordered(seq, id, RemoveFirst(seq, id), ToSet(seq) \ {id})
  BY RemoveFirstProperties DEF Ordered

\* A page holds the records of the places it turns, no others; one that is not
\* full is the last.
LEMMA PageProperties ==
  ASSUME NEW seq \in Seq(AllIds), NEW start \in Nat, NEW count \in Nat,
         NEW page, page = Page(seq, start, count)
  PROVE  /\ page \in Seq(AllIds) /\ Len(page) \in Nat
         /\ \A i \in 1 .. Len(seq) :
                start < i /\ i <= start + Len(page) => seq[i] \in ToSet(page)
         /\ \A x \in ToSet(page) : \E i \in 1 .. Len(seq) :
                seq[i] = x /\ start < i /\ i <= start + Len(page)
         /\ Len(page) < count => Len(seq) <= start + Len(page)
  <1>1. PICK l \in Nat, last \in Nat : l = Len(seq) /\ last = Smaller(start + count, l)
    BY LenProperties DEF Smaller
  <1>2. last <= l /\ last <= start + count /\ (last = l \/ last = start + count)
    BY <1>1 DEF Smaller
  <1>3. \A i \in start + 1 .. last : i \in 1 .. l /\ seq[i] \in AllIds
    BY <1>1, <1>2, ElementOfSeq
  <1>4. page = SubSeq(seq, start + 1, last)
    BY <1>1 DEF Page
  <1>5. /\ page \in Seq(AllIds)
        /\ Len(page) = IF start + 1 <= last THEN last - (start + 1) + 1 ELSE 0
        /\ \A i \in 1 .. last - (start + 1) + 1 : page[i] = seq[start + 1 + i - 1]
    BY <1>3, <1>4, SubSeqProperties
  <1>6. PICK n \in Nat : /\ n = Len(page) /\ n = (IF start < last THEN last - start ELSE 0)
                         /\ \A i \in 1 .. n : page[i] = seq[start + i]
    <2>0. (IF start < last THEN last - start ELSE 0) \in Nat
      OBVIOUS
    <2>1. PICK n \in Nat : n = (IF start < last THEN last - start ELSE 0)
      BY <2>0
    <2>2. n = Len(page)
      BY <1>5, <2>1
    <2>3. ASSUME NEW i \in 1 .. n PROVE page[i] = seq[start + i]
      <3>1. i \in 1 .. last - (start + 1) + 1 /\ start + 1 + i - 1 = start + i
        BY <2>1
      <3>2. QED
        BY <1>5, <3>1
    <2>4. QED
      BY <2>1, <2>2, <2>3
  <1>7. DOMAIN page = 1 .. n
    BY <1>5, <1>6, LenProperties
  <1>8. ASSUME NEW i \in 1 .. Len(seq), start < i, i <= start + Len(page)
        PROVE  seq[i] \in ToSet(page)
    <2>1. i - start \in 1 .. n /\ start + (i - start) = i
      BY <1>1, <1>6, <1>8
    <2>2. page[i - start] = seq[i]
      BY <1>6, <2>1
    <2>3. QED
      BY <1>7, <2>1, <2>2 DEF ToSet
  <1>9. ASSUME NEW x \in ToSet(page)
        PROVE  \E i \in 1 .. Len(seq) : seq[i] = x /\ start < i /\ i <= start + Len(page)
    <2>1. PICK j \in 1 .. n : page[j] = x
      BY <1>7 DEF ToSet
    <2>2. start + j \in 1 .. l /\ seq[start + j] = x /\ start < start + j /\ start + j <= start + n
      BY <1>2, <1>6, <2>1
    <2>3. QED
      BY <1>1, <1>6, <2>2
  <1>10. ASSUME Len(page) < count PROVE Len(seq) <= start + Len(page)
    <2>1. n < count
      BY <1>6, <1>10
    <2>2. l <= start + n
      BY <1>2, <1>6, <2>1
    <2>3. QED
      BY <1>1, <1>6, <2>2
  <1>11. QED
    BY <1>5, <1>6, <1>8, <1>9, <1>10

\* What a page holds comes from the places it turns.
ComesFrom(seq, start, page) ==
  /\ page \in Seq(AllIds) /\ Len(page) \in Nat
  /\ \A x \in ToSet(page) : \E i \in 1 .. Len(seq) :
         seq[i] = x /\ start < i /\ i <= start + Len(page)

LEMMA PageComesFrom ==
  ASSUME NEW seq \in Seq(AllIds), NEW start \in Nat, NEW count \in Nat
  PROVE  ComesFrom(seq, start, Page(seq, start, count))
  <1>1. PICK page : page = Page(seq, start, count)
    OBVIOUS
  <1>2. ComesFrom(seq, start, page)
    BY <1>1, PageProperties DEF ComesFrom
  <1>3. QED
    BY <1>1, <1>2

\* What was there when the walk began, is not listed and is in no place that
\* the walk has still to come to.
Missed(seq, start, present, listed) ==
  {x \in present \ listed : \A i \in 1 .. Len(seq) : i > start => seq[i] # x}

\* Turning a page misses nothing.
LEMMA PageMissesNothing ==
  ASSUME NEW seq \in Seq(AllIds), NEW start \in Nat, NEW count \in Nat,
         NEW page, page = Page(seq, start, count), NEW present, NEW listed
  PROVE  /\ Missed(seq, start + Len(page), present, listed \cup ToSet(page))
                \subseteq Missed(seq, start, present, listed)
         /\ Len(page) < count =>
                present \ (listed \cup ToSet(page)) \subseteq Missed(seq, start, present, listed)
  <1>1. /\ Len(page) \in Nat /\ Len(seq) \in Nat
        /\ \A i \in 1 .. Len(seq) :
               start < i /\ i <= start + Len(page) => seq[i] \in ToSet(page)
        /\ Len(page) < count => Len(seq) <= start + Len(page)
    BY PageProperties, LenProperties
  <1>2. PICK n \in Nat, l \in Nat : n = Len(page) /\ l = Len(seq)
    BY <1>1
  <1>3. ASSUME NEW x \in present, x \notin listed, x \notin ToSet(page),
               x \notin Missed(seq, start, present, listed)
        PROVE  \E i \in 1 .. l : i > start + n /\ seq[i] = x
    <2>1. PICK i \in 1 .. l : i > start /\ seq[i] = x
      BY <1>2, <1>3 DEF Missed
    <2>2. i > start + n
      BY <1>1, <1>2, <1>3, <2>1
    <2>3. QED
      BY <2>1, <2>2
  <1>4. Missed(seq, start + Len(page), present, listed \cup ToSet(page))
            \subseteq Missed(seq, start, present, listed)
    BY <1>2, <1>3 DEF Missed
  <1>5. ASSUME Len(page) < count, NEW x \in present, x \notin listed, x \notin ToSet(page)
        PROVE  x \in Missed(seq, start, present, listed)
    <2>1. l <= start + n
      BY <1>1, <1>2, <1>5
    <2>2. ~ \E i \in 1 .. l : i > start + n
      BY <2>1
    <2>3. QED
      BY <1>3, <1>5, <2>2
  <1>6. QED
    BY <1>4, <1>5

\* The write of id that leads from seq to q: of what was present, `after` still is.
Written(seq, id, q, present, after) ==
  /\ Reordered(seq, id, q)
  /\ after \subseteq present
  /\ id \in after => IsLast(seq, id, q)

\* The walk misses at most one record more, and only if the write took away one
\* from a place the walk has passed.
MissesOne(seq, id, q, start, listed, present, after) ==
  \/ Missed(q, start, after, listed) \subseteq Missed(seq, start, present, listed)
  \/ /\ Passed(seq, id, start)
     /\ Missed(q, start, after, listed)
            \subseteq Missed(seq, start, present, listed) \cup {seq[start + 1]}

LEMMA WriteMissesOne ==
  ASSUME NEW seq \in Seq(AllIds), NEW id, NEW q \in Seq(AllIds), NEW start \in Nat,
         NEW present, NEW listed, NEW after, Written(seq, id, q, present, after)
  PROVE  MissesOne(seq, id, q, start, listed, present, after)
  <1>1. Reordered(seq, id, q) /\ after \subseteq present /\ (id \in after => IsLast(seq, id, q))
    BY DEF Written
  <1>2. PICK l \in Nat, m \in Nat : l = Len(seq) /\ m = Len(q)
    BY LenProperties
  <1>3. DOMAIN seq = 1 .. l
    BY <1>2, LenProperties
  <1>4. SUFFICES ASSUME NEW x \in Missed(q, start, after, listed),
                        x \notin Missed(seq, start, present, listed)
                 PROVE  Passed(seq, id, start) /\ x = seq[start + 1]
    BY DEF MissesOne
  <1>5. x \in after /\ x \in present /\ x \notin listed
    BY <1>1, <1>4 DEF Missed
  <1>6. PICK i \in 1 .. l : i > start /\ seq[i] = x
    BY <1>2, <1>4, <1>5 DEF Missed
  <1>7. \A j \in 1 .. m : j > start => q[j] # x
    BY <1>2, <1>4 DEF Missed
  <1>8. x # id
    <2>1. SUFFICES ASSUME x = id PROVE FALSE
      OBVIOUS
    <2>2. m \in 1 .. m /\ m >= l /\ q[m] = x
      BY <1>1, <1>2, <1>5, <2>1 DEF IsLast
    <2>3. QED
      BY <1>6, <1>7, <2>2
  <1>9. PICK j \in 1 .. m : q[j] = x /\ MovesTo(seq, id, i, j)
    BY <1>1, <1>2, <1>6, <1>8 DEF Reordered
  <1>10. j <= start
    BY <1>7, <1>9
  <1>11. j = i - 1 /\ \E k \in 1 .. j : seq[k] = id
    BY <1>6, <1>9, <1>10 DEF MovesTo
  <1>12. i = start + 1
    BY <1>6, <1>10, <1>11
  <1>13. PICK k \in 1 .. j : seq[k] = id
    BY <1>11
  <1>14. k \in 1 .. l /\ k <= start
    BY <1>6, <1>10, <1>11, <1>13
  <1>15. QED
    BY <1>2, <1>6, <1>12, <1>13, <1>14 DEF Passed

-----------------------------------------------------------------------------
(* The walk itself, beside callers that write.                             *)

Orders ==
  /\ order \in [Kinds \X Partitions -> Seq(AllIds)]
  /\ \A kind \in Kinds, p \in Partitions :
         ToSet(order[<<kind, p>>]) = Stored(kind, p) /\ IsInjective(order[<<kind, p>>])

\* Between two pages: what was listed and is still to come was written since,
\* and what no page will list any more was shifted behind the walk.
WalkKnows ==
  walk.phase = "next" =>
      LET seq == order[<<walk.kind, Walked>>]
      IN  /\ walk.present \subseteq Items[walk.kind]
          /\ walk.listed \subseteq walk.touched \cup ToSet(seq)
          /\ \A i \in 1 .. Len(seq) :
                 i > walk.start /\ seq[i] \in walk.listed => seq[i] \in walk.touched
          /\ Cardinality(Missed(seq, walk.start, walk.present, walk.listed)) <= walk.shifts

WalkInv == Orders /\ walk \in Walk /\ WalkKnows /\ MissedExplained /\ RepeatedExplained

LEMMA ItemsFinite ==
  ASSUME NEW kind \in Kinds
  PROVE  /\ IsFiniteSet(Items[kind]) /\ Items[kind] \subseteq AllIds
         /\ Cardinality(Items[kind]) \in Nat
  BY IdsAssumption, FS_CardinalityType DEF Kinds, Items, AllIds

\* Of the subsets M and N of T, N has at most one more element.
AtMostOneMore(M, N, T) ==
  /\ Cardinality(M) \in Nat /\ Cardinality(N) \in Nat
  /\ Cardinality(N) <= Cardinality(M) + 1
  /\ Cardinality(N) <= Cardinality(T)
  /\ N \subseteq M => Cardinality(N) <= Cardinality(M)

LEMMA OneMore ==
  ASSUME NEW T, IsFiniteSet(T), NEW M \in SUBSET T, NEW N \in SUBSET T,
         NEW x, N \subseteq M \cup {x}
  PROVE  AtMostOneMore(M, N, T)
  <1>1. IsFiniteSet(M) /\ IsFiniteSet(N) /\ Cardinality(N) <= Cardinality(T)
    BY FS_Subset
  <1>2. Cardinality(M) \in Nat /\ Cardinality(N) \in Nat
    BY <1>1, FS_CardinalityType
  <1>3. N \subseteq M => Cardinality(N) <= Cardinality(M)
    BY <1>1, FS_Subset
  <1>4. /\ IsFiniteSet(M \cup {x})
        /\ Cardinality(M \cup {x}) = Cardinality(M) \/ Cardinality(M \cup {x}) = Cardinality(M) + 1
    BY <1>1, FS_AddElement
  <1>5. Cardinality(N) <= Cardinality(M \cup {x})
    BY <1>4, FS_Subset
  <1>6. Cardinality(N) <= Cardinality(M) + 1
    BY <1>2, <1>4, <1>5
  <1>7. QED
    BY <1>1, <1>2, <1>3, <1>6 DEF AtMostOneMore

\* The walk with its notes of the write.
Noted(t, after, s) == [walk EXCEPT !.touched = t, !.present = after, !.shifts = s]

\* The write of another kind, of another partition, or while no walk is under way.
LEMMA ReorderElsewhere ==
  ASSUME WalkInv, Orders', UNCHANGED walk,
         walk.phase = "next" => order'[<<walk.kind, Walked>>] = order[<<walk.kind, Walked>>]
  PROVE  WalkInv'
  BY DEF WalkInv, WalkKnows, MissedExplained, RepeatedExplained

\* The write of a record the walk may come to, or has passed.
LEMMA ReorderWalked ==
  ASSUME WalkInv, Orders', walk.phase = "next",
         NEW seq, seq = order[<<walk.kind, Walked>>], NEW q, q = order'[<<walk.kind, Walked>>],
         NEW id \in Items[walk.kind],
         NEW after, Written(seq, id, q, walk.present, after),
         ToSet(seq) \ {id} \subseteq ToSet(q),
         NEW t, id \in ToSet(seq) => t = walk.touched \cup {id},
         id \notin ToSet(seq) => t = walk.touched,
         NEW s, Passed(seq, id, walk.start) => s = Smaller(walk.shifts + 1, Cardinality(Items[walk.kind])),
         ~Passed(seq, id, walk.start) => s = walk.shifts,
         walk' = Noted(t, after, s)
  PROVE  WalkInv'
  <1>0. Orders /\ walk \in Walk /\ WalkKnows /\ MissedExplained /\ RepeatedExplained
    BY DEF WalkInv
  <1>1. Reordered(seq, id, q) /\ after \subseteq walk.present
    BY DEF Written
  <1>3. /\ walk.kind \in Kinds /\ walk.start \in Nat /\ walk.shifts \in Nat
        /\ walk.present \subseteq AllIds /\ walk.touched \subseteq AllIds
    BY <1>0 DEF Walk, AllIds
  <1>4. /\ IsFiniteSet(Items[walk.kind]) /\ Items[walk.kind] \subseteq AllIds
        /\ Cardinality(Items[walk.kind]) \in Nat
    BY <1>3, ItemsFinite
  <1>5. t \in SUBSET AllIds /\ after \in SUBSET AllIds /\ s \in Nat
    BY <1>1, <1>3, <1>4 DEF Smaller
  <1>6. /\ walk' \in Walk
        /\ walk'.phase = walk.phase /\ walk'.kind = walk.kind /\ walk'.start = walk.start
        /\ walk'.listed = walk.listed /\ walk'.repeated = walk.repeated
        /\ walk'.touched = t /\ walk'.present = after /\ walk'.shifts = s
    <2>1. walk \in Walk /\ walk' = [walk EXCEPT !.touched = t, !.present = after, !.shifts = s]
      BY <1>0 DEF Noted
    <2>2. QED
      BY <1>5, <2>1 DEF Walk, AllIds
  <1>7. seq \in Seq(AllIds) /\ q \in Seq(AllIds)
    BY <1>0, <1>3, <1>6, WalkedAssumption DEF Orders
  <1>8. DOMAIN seq = 1 .. Len(seq) /\ DOMAIN q = 1 .. Len(q) /\ Len(seq) \in Nat /\ Len(q) \in Nat
    BY <1>7, LenProperties
  <1>9. /\ walk.present \subseteq Items[walk.kind]
        /\ walk.listed \subseteq walk.touched \cup ToSet(seq)
        /\ \A i \in 1 .. Len(seq) :
               i > walk.start /\ seq[i] \in walk.listed => seq[i] \in walk.touched
        /\ Cardinality(Missed(seq, walk.start, walk.present, walk.listed)) <= walk.shifts
    BY <1>0 DEF WalkKnows
  <1>10. walk.listed \subseteq t \cup ToSet(q)
    BY <1>9
  <1>11. ASSUME NEW j \in 1 .. Len(q), j > walk.start, q[j] \in walk.listed
         PROVE  q[j] \in t
    <2>1. CASE q[j] = id
      BY <1>9, <1>11, <2>1
    <2>2. CASE q[j] # id
      <3>1. PICK i \in 1 .. Len(seq) : q[j] = seq[i] /\ i >= j
        BY <1>1, <2>2 DEF Reordered
      <3>2. i > walk.start
        BY <1>3, <1>8, <1>11, <3>1
      <3>3. QED
        BY <1>9, <1>11, <3>1, <3>2
    <2>3. QED
      BY <2>1, <2>2
  <1>12. Cardinality(Missed(q, walk.start, after, walk.listed)) <= s
    <2>1. PICK M, N : /\ M = Missed(seq, walk.start, walk.present, walk.listed)
                      /\ N = Missed(q, walk.start, after, walk.listed)
      OBVIOUS
    <2>2. M \in SUBSET Items[walk.kind] /\ N \in SUBSET Items[walk.kind]
      BY <1>1, <1>9, <2>1 DEF Missed
    <2>3. \/ N \subseteq M
          \/ /\ Passed(seq, id, walk.start)
             /\ N \subseteq M \cup {seq[walk.start + 1]}
      <3>1. walk.start \in Nat
        BY <1>3
      <3>2. Written(seq, id, q, walk.present, after)
        OBVIOUS
      <3>3. MissesOne(seq, id, q, walk.start, walk.listed, walk.present, after)
        BY <1>7, <3>1, <3>2, WriteMissesOne
      <3>4. QED
        BY <2>1, <3>3 DEF MissesOne
    <2>4. N \subseteq M \cup {seq[walk.start + 1]}
      BY <2>3
    <2>5. /\ Cardinality(M) \in Nat /\ Cardinality(N) \in Nat
          /\ Cardinality(N) <= Cardinality(M) + 1
          /\ Cardinality(N) <= Cardinality(Items[walk.kind])
          /\ N \subseteq M => Cardinality(N) <= Cardinality(M)
      <3>1. AtMostOneMore(M, N, Items[walk.kind])
        BY <1>4, <2>2, <2>4, OneMore
      <3>2. QED
        BY <3>1 DEF AtMostOneMore
    <2>6. PICK m \in Nat, n \in Nat, all \in Nat, shifts \in Nat :
              /\ m = Cardinality(M) /\ n = Cardinality(N)
              /\ all = Cardinality(Items[walk.kind]) /\ shifts = walk.shifts
              /\ n <= m + 1 /\ n <= all /\ (N \subseteq M => n <= m) /\ m <= shifts
      BY <1>3, <1>4, <1>9, <2>1, <2>5, Zenon
    <2>7. CASE Passed(seq, id, walk.start)
      <3>1. s = Smaller(shifts + 1, all)
        BY <2>6, <2>7
      <3>2. n <= s
        BY <2>6, <3>1 DEF Smaller
      <3>3. QED
        BY <2>1, <2>6, <3>2
    <2>8. CASE ~Passed(seq, id, walk.start)
      <3>1. s = walk.shifts /\ N \subseteq M
        BY <2>3, <2>8
      <3>2. n <= s
        BY <2>6, <3>1
      <3>3. QED
        BY <2>1, <2>6, <3>2
    <2>9. QED
      BY <2>7, <2>8
  <1>13. WalkKnows'
    <2>1. after \subseteq Items[walk.kind]
      BY <1>1, <1>9
    <2>2. QED
      BY <1>6, <1>10, <1>11, <1>12, <2>1 DEF WalkKnows
  <1>14. MissedExplained' /\ RepeatedExplained'
    BY <1>0, <1>6 DEF MissedExplained, RepeatedExplained
  <1>15. QED
    BY <1>6, <1>13, <1>14 DEF WalkInv


\* A write replaces one order, and stores or deletes that one record.
LEMMA OrdersStep ==
  ASSUME Orders, NEW kind \in Kinds, NEW p \in Partitions,
         NEW q \in Seq(AllIds), IsInjective(q), order' = [order EXCEPT ![<<kind, p>>] = q],
         ToSet(q) = Stored(kind, p)',
         \A k \in Kinds, r \in Partitions : <<k, r>> # <<kind, p>> => Stored(k, r)' = Stored(k, r)
  PROVE  /\ Orders' /\ order'[<<kind, p>>] = q
         /\ \A k \in Kinds, r \in Partitions :
                <<k, r>> # <<kind, p>> => order'[<<k, r>>] = order[<<k, r>>]
  <1>1. /\ order' \in [Kinds \X Partitions -> Seq(AllIds)] /\ order'[<<kind, p>>] = q
        /\ \A k \in Kinds, r \in Partitions :
               <<k, r>> # <<kind, p>> => order'[<<k, r>>] = order[<<k, r>>]
    BY DEF Orders
  <1>2. ASSUME NEW k \in Kinds, NEW r \in Partitions
        PROVE  ToSet(order'[<<k, r>>]) = Stored(k, r)' /\ IsInjective(order'[<<k, r>>])
    <2>1. CASE <<k, r>> = <<kind, p>>
      <3>1. k = kind /\ r = p
        BY <2>1
      <3>2. QED
        BY <1>1, <3>1
    <2>2. CASE <<k, r>> # <<kind, p>>
      <3>1. order'[<<k, r>>] = order[<<k, r>>] /\ Stored(k, r)' = Stored(k, r)
        BY <1>1, <2>2
      <3>2. QED
        BY <3>1 DEF Orders
    <2>3. QED
      BY <2>1, <2>2
  <1>3. QED
    BY <1>1, <1>2 DEF Orders

\* The write of a record, whichever walk is under way.
LEMMA ReorderStep ==
  ASSUME WalkInv, NEW kind \in Kinds, NEW p \in Partitions, NEW id \in Items[kind],
         NEW seq, seq = order[<<kind, p>>],
         NEW q \in Seq(AllIds), IsInjective(q), order' = [order EXCEPT ![<<kind, p>>] = q],
         ToSet(q) = Stored(kind, p)',
         \A k \in Kinds, r \in Partitions : <<k, r>> # <<kind, p>> => Stored(k, r)' = Stored(k, r),
         ToSet(seq) \ {id} \subseteq ToSet(q),
         NEW gone, walk' = Shifted(kind, p, id, gone),
         Written(seq, id, q, walk.present, IF gone THEN walk.present \ {id} ELSE walk.present)
  PROVE  WalkInv'
  <1>1. /\ Orders' /\ order'[<<kind, p>>] = q
        /\ \A k \in Kinds, r \in Partitions :
               <<k, r>> # <<kind, p>> => order'[<<k, r>>] = order[<<k, r>>]
    BY OrdersStep DEF WalkInv
  <1>2. CASE walk.phase # "next" \/ walk.kind # kind \/ p # Walked
    <2>1. walk' = walk
      BY <1>2 DEF Shifted
    <2>2. walk.phase = "next" => order'[<<walk.kind, Walked>>] = order[<<walk.kind, Walked>>]
      BY <1>1, <1>2, WalkedAssumption DEF WalkInv, Walk
    <2>3. QED
      BY <1>1, <2>1, <2>2, ReorderElsewhere
  <1>3. CASE walk.phase = "next" /\ walk.kind = kind /\ p = Walked
    <2>1. PICK t, after, s :
              /\ t = IF id \in ToSet(seq) THEN walk.touched \cup {id} ELSE walk.touched
              /\ after = IF gone THEN walk.present \ {id} ELSE walk.present
              /\ s = IF Passed(seq, id, walk.start)
                     THEN Smaller(walk.shifts + 1, Cardinality(Items[kind])) ELSE walk.shifts
      OBVIOUS
    <2>2. walk' = Noted(t, after, s)
      BY <1>3, <2>1 DEF Shifted, Noted
    <2>3. /\ id \in ToSet(seq) => t = walk.touched \cup {id}
          /\ id \notin ToSet(seq) => t = walk.touched
          /\ Passed(seq, id, walk.start)
                 => s = Smaller(walk.shifts + 1, Cardinality(Items[walk.kind]))
          /\ ~Passed(seq, id, walk.start) => s = walk.shifts
          /\ Written(seq, id, q, walk.present, after)
      BY <1>3, <2>1
    <2>4. /\ seq = order[<<walk.kind, Walked>>] /\ q = order'[<<walk.kind, Walked>>]
          /\ id \in Items[walk.kind]
      BY <1>1, <1>3
    <2>5. QED
      BY <1>1, <1>3, <2>2, <2>3, <2>4, ReorderWalked
  <1>4. QED
    BY <1>2, <1>3

\* A record is inserted or replaced.
LEMMA PutStep ==
  ASSUME WalkInv, NEW kind \in Kinds, NEW p \in Partitions, NEW id \in Items[kind],
         NEW seq, seq = order[<<kind, p>>],
         order' = [order EXCEPT ![<<kind, p>>] = Append(RemoveFirst(seq, id), id)],
         walk' = Shifted(kind, p, id, FALSE),
         Stored(kind, p)' = Stored(kind, p) \cup {id},
         \A k \in Kinds, r \in Partitions : <<k, r>> # <<kind, p>> => Stored(k, r)' = Stored(k, r)
  PROVE  WalkInv'
  <1>1. /\ seq \in Seq(AllIds) /\ IsInjective(seq) /\ id \in AllIds
        /\ ToSet(seq) = Stored(kind, p)
    BY ItemsFinite DEF WalkInv, Orders
  <1>2. PICK q : q = Append(RemoveFirst(seq, id), id)
    OBVIOUS
  <1>3. /\ q \in Seq(AllIds) /\ IsInjective(q) /\ ToSet(q) = ToSet(seq) \cup {id}
        /\ Reordered(seq, id, q) /\ IsLast(seq, id, q)
    BY <1>1, <1>2, PutProperties DEF Ordered
  <1>4. Written(seq, id, q, walk.present, walk.present)
    BY <1>3 DEF Written
  <1>5. /\ order' = [order EXCEPT ![<<kind, p>>] = q] /\ ToSet(q) = Stored(kind, p)'
        /\ ToSet(seq) \ {id} \subseteq ToSet(q)
        /\ Written(seq, id, q, walk.present, IF FALSE THEN walk.present \ {id} ELSE walk.present)
    BY <1>1, <1>2, <1>3, <1>4
  <1>6. QED
    BY <1>3, <1>5, ReorderStep

\* A record is deleted.
LEMMA DeleteStep ==
  ASSUME WalkInv, NEW kind \in Kinds, NEW p \in Partitions, NEW id \in Items[kind],
         NEW seq, seq = order[<<kind, p>>],
         order' = [order EXCEPT ![<<kind, p>>] = RemoveFirst(seq, id)],
         walk' = Shifted(kind, p, id, TRUE),
         Stored(kind, p)' = Stored(kind, p) \ {id},
         \A k \in Kinds, r \in Partitions : <<k, r>> # <<kind, p>> => Stored(k, r)' = Stored(k, r)
  PROVE  WalkInv'
  <1>1. /\ seq \in Seq(AllIds) /\ IsInjective(seq) /\ ToSet(seq) = Stored(kind, p)
    BY DEF WalkInv, Orders
  <1>2. PICK q : q = RemoveFirst(seq, id)
    OBVIOUS
  <1>3. /\ q \in Seq(AllIds) /\ IsInjective(q) /\ ToSet(q) = ToSet(seq) \ {id}
        /\ Reordered(seq, id, q)
    BY <1>1, <1>2, OrderedWhenDeleted DEF Ordered
  <1>4. Written(seq, id, q, walk.present, walk.present \ {id})
    BY <1>3 DEF Written
  <1>5. /\ order' = [order EXCEPT ![<<kind, p>>] = q] /\ ToSet(q) = Stored(kind, p)'
        /\ ToSet(seq) \ {id} \subseteq ToSet(q)
        /\ Written(seq, id, q, walk.present, IF TRUE THEN walk.present \ {id} ELSE walk.present)
    BY <1>1, <1>2, <1>3, <1>4
  <1>6. QED
    BY <1>3, <1>5, ReorderStep

LEMMA OfferWriteWalk ==
  ASSUME WalkInv, TypeOK, NEW c \in Callers, WriteOffer(c),
         Reorder("offer", call[c].partition, call[c].id, call[c].op # "delete_offer")
  PROVE  WalkInv'
  <1>1. PICK p \in Partitions, id \in Ids, mid \in MetadataIds :
            p = call[c].partition /\ id = call[c].id /\ mid = call[c].metadata_id
    BY DEF TypeOK, Call
  <1>2. /\ id \in Items["offer"] /\ "offer" \in Kinds
        /\ \A k \in Kinds, r \in Partitions :
               <<k, r>> # <<"offer", p>> => k = "metadata" \/ (k = "offer" /\ r # p)
    BY <1>1 DEF Items, Kinds
  <1>3. offer \in [Partitions \X Ids -> MetadataIds \cup {None}] /\ mid # None
        /\ metadata' = metadata
    BY <1>1, NoneAssumption DEF TypeOK, WriteOffer
  <1>4. CASE call[c].op \in {"post_offer", "put_offer"}
    <2>1. offer' = [offer EXCEPT ![<<p, id>>] = mid]
      BY <1>1, <1>4 DEF WriteOffer, OfferKey
    <2>2. /\ Stored("offer", p)' = Stored("offer", p) \cup {id}
          /\ \A r \in Partitions : r # p => Stored("offer", r)' = Stored("offer", r)
          /\ \A r \in Partitions : Stored("metadata", r)' = Stored("metadata", r)
      BY <1>1, <1>3, <2>1 DEF Stored
    <2>3. \A k \in Kinds, r \in Partitions :
              <<k, r>> # <<"offer", p>> => Stored(k, r)' = Stored(k, r)
      BY <1>2, <2>2
    <2>4. /\ order' = [order EXCEPT ![<<"offer", p>>] = Append(RemoveFirst(order[<<"offer", p>>], id), id)]
          /\ walk' = Shifted("offer", p, id, FALSE)
      BY <1>1, <1>4 DEF Reorder, Placed
    <2>5. QED
      BY <1>2, <2>2, <2>3, <2>4, PutStep
  <1>5. CASE call[c].op = "delete_offer"
    <2>1. offer' = [offer EXCEPT ![<<p, id>>] = None]
      BY <1>1, <1>5 DEF WriteOffer, OfferKey
    <2>2. /\ Stored("offer", p)' = Stored("offer", p) \ {id}
          /\ \A r \in Partitions : r # p => Stored("offer", r)' = Stored("offer", r)
          /\ \A r \in Partitions : Stored("metadata", r)' = Stored("metadata", r)
      BY <1>1, <1>3, <2>1 DEF Stored
    <2>3. \A k \in Kinds, r \in Partitions :
              <<k, r>> # <<"offer", p>> => Stored(k, r)' = Stored(k, r)
      BY <1>2, <2>2
    <2>4. /\ order' = [order EXCEPT ![<<"offer", p>>] = RemoveFirst(order[<<"offer", p>>], id)]
          /\ walk' = Shifted("offer", p, id, TRUE)
      BY <1>1, <1>5 DEF Reorder, Placed
    <2>5. QED
      BY <1>2, <2>2, <2>3, <2>4, DeleteStep
  <1>6. QED
    BY <1>4, <1>5 DEF WriteOffer

LEMMA MetadataWriteWalk ==
  ASSUME WalkInv, TypeOK, NEW c \in Callers, WriteMetadata(c),
         Reorder("metadata", call[c].partition, call[c].metadata_id,
                 call[c].op # "delete_metadata")
  PROVE  WalkInv'
  <1>1. PICK p \in Partitions, mid \in MetadataIds :
            p = call[c].partition /\ mid = call[c].metadata_id
    BY DEF TypeOK, Call
  <1>2. /\ mid \in Items["metadata"] /\ "metadata" \in Kinds
        /\ \A k \in Kinds, r \in Partitions :
               <<k, r>> # <<"metadata", p>> => k = "offer" \/ (k = "metadata" /\ r # p)
    BY <1>1 DEF Items, Kinds
  <1>3. offer' = offer
    BY DEF WriteMetadata
  <1>4. CASE call[c].op \in {"post_metadata", "put_metadata"}
    <2>1. metadata' = metadata \cup {<<p, mid>>}
      BY <1>1, <1>4 DEF WriteMetadata, MetadataKey
    <2>2. /\ Stored("metadata", p)' = Stored("metadata", p) \cup {mid}
          /\ \A r \in Partitions : r # p => Stored("metadata", r)' = Stored("metadata", r)
          /\ \A r \in Partitions : Stored("offer", r)' = Stored("offer", r)
      BY <1>1, <1>3, <2>1 DEF Stored
    <2>3. \A k \in Kinds, r \in Partitions :
              <<k, r>> # <<"metadata", p>> => Stored(k, r)' = Stored(k, r)
      BY <1>2, <2>2
    <2>4. /\ order' = [order EXCEPT ![<<"metadata", p>>] =
                           Append(RemoveFirst(order[<<"metadata", p>>], mid), mid)]
          /\ walk' = Shifted("metadata", p, mid, FALSE)
      BY <1>1, <1>4 DEF Reorder, Placed
    <2>5. QED
      BY <1>2, <2>2, <2>3, <2>4, PutStep
  <1>5. CASE call[c].op = "delete_metadata"
    <2>1. metadata' = metadata \ {<<p, mid>>}
      BY <1>1, <1>5 DEF WriteMetadata, MetadataKey
    <2>2. /\ Stored("metadata", p)' = Stored("metadata", p) \ {mid}
          /\ \A r \in Partitions : r # p => Stored("metadata", r)' = Stored("metadata", r)
          /\ \A r \in Partitions : Stored("offer", r)' = Stored("offer", r)
      BY <1>1, <1>3, <2>1 DEF Stored
    <2>3. \A k \in Kinds, r \in Partitions :
              <<k, r>> # <<"metadata", p>> => Stored(k, r)' = Stored(k, r)
      BY <1>2, <2>2
    <2>4. /\ order' = [order EXCEPT ![<<"metadata", p>>] =
                           RemoveFirst(order[<<"metadata", p>>], mid)]
          /\ walk' = Shifted("metadata", p, mid, TRUE)
      BY <1>1, <1>5 DEF Reorder, Placed
    <2>5. QED
      BY <1>2, <2>2, <2>3, <2>4, DeleteStep
  <1>6. QED
    BY <1>4, <1>5 DEF WriteMetadata

\* The maps, the orders and the walk stay as they are.
LEMMA WalkFrame ==
  ASSUME WalkInv, UNCHANGED <<offer, metadata, order, walk>>
  PROVE  WalkInv'
  BY DEF WalkInv, Orders, Stored, WalkKnows, MissedExplained, RepeatedExplained

LEMMA OrdersFrame ==
  ASSUME Orders, UNCHANGED <<offer, metadata, order>>
  PROVE  Orders'
  BY DEF Orders, Stored

\* All of what is stored is still to come.
LEMMA BeginWalkStep ==
  ASSUME WalkInv, NEW kind \in Kinds, NEW count \in Counts, BeginWalk(kind, count)
  PROVE  WalkInv'
  <1>1. Orders'
    BY OrdersFrame DEF WalkInv, BeginWalk, vars
  <1>2. Stored(kind, Walked) \subseteq Items[kind] /\ Items[kind] \subseteq AllIds
    BY ItemsFinite DEF Stored, Items, Kinds
  <1>3. PICK phase, present : /\ phase = IF TooLarge(count) THEN "refused" ELSE "next"
                              /\ present = Stored(kind, Walked)
    OBVIOUS
  <1>4. walk' = [NoWalk EXCEPT !.phase = phase, !.kind = kind, !.count = count,
                               !.present = present]
    BY <1>3 DEF BeginWalk
  <1>5. /\ walk' \in Walk /\ walk'.phase = phase /\ walk'.kind = kind
        /\ walk'.start = 0 /\ walk'.listed = {} /\ walk'.repeated = {}
        /\ walk'.touched = {} /\ walk'.present = present /\ walk'.shifts = 0
    <2>1. count \in Nat /\ phase \in Phase /\ present \subseteq Ids \cup MetadataIds
      BY <1>2, <1>3, PageAssumption DEF Phase, AllIds
    <2>2. QED
      BY <1>4, <2>1 DEF NoWalk, Walk, Kinds
  <1>6. PICK seq : seq = order'[<<kind, Walked>>]
    OBVIOUS
  <1>7. seq \in Seq(AllIds) /\ ToSet(seq) = present
    <2>1. order' = order
      BY DEF BeginWalk
    <2>2. QED
      BY <1>3, <1>6, <2>1, WalkedAssumption DEF WalkInv, Orders
  <1>8. Missed(seq, 0, present, {}) = {}
    <2>1. Len(seq) \in Nat /\ DOMAIN seq = 1 .. Len(seq)
      BY <1>7, LenProperties
    <2>2. ASSUME NEW x \in present PROVE \E i \in 1 .. Len(seq) : i > 0 /\ seq[i] = x
      BY <1>7, <2>1 DEF ToSet
    <2>3. QED
      BY <2>2 DEF Missed
  <1>9. Cardinality(Missed(seq, 0, present, {})) = 0
    BY <1>8, FS_EmptySet
  <1>10. WalkKnows'
    <2>1. present \subseteq Items[kind]
      BY <1>2, <1>3
    <2>2. 0 <= 0
      OBVIOUS
    <2>3. QED
      BY <1>5, <1>6, <1>9, <2>1, <2>2 DEF WalkKnows
  <1>11. walk'.phase # "done"
    BY <1>3, <1>5
  <1>12. QED
    BY <1>1, <1>5, <1>10, <1>11 DEF WalkInv, MissedExplained, RepeatedExplained

\* A page brings nothing the walk has had, but what was written since.
LEMMA NextPageStep ==
  ASSUME WalkInv, NextPage
  PROVE  WalkInv'
  <1>1. Orders' /\ order' = order
    BY OrdersFrame DEF WalkInv, NextPage, vars
  <1>2. /\ walk \in Walk /\ walk.phase = "next" /\ WalkKnows /\ RepeatedExplained
        /\ walk.kind \in Kinds /\ walk.start \in Nat /\ walk.count \in Nat /\ walk.shifts \in Nat
    BY DEF WalkInv, NextPage, Walk
  <1>3. PICK seq, page : /\ seq = order[<<walk.kind, Walked>>]
                         /\ page = Page(seq, walk.start, walk.count)
    OBVIOUS
  <1>4. /\ seq \in Seq(AllIds) /\ IsInjective(seq)
    BY <1>2, <1>3, WalkedAssumption DEF WalkInv, Orders
  <1>5. Len(seq) \in Nat /\ DOMAIN seq = 1 .. Len(seq)
    BY <1>4, LenProperties
  <1>6. /\ page \in Seq(AllIds) /\ Len(page) \in Nat
        /\ \A x \in ToSet(page) : \E i \in 1 .. Len(seq) :
               seq[i] = x /\ walk.start < i /\ i <= walk.start + Len(page)
    <2>1. ComesFrom(seq, walk.start, page)
      BY <1>2, <1>3, <1>4, PageComesFrom
    <2>2. QED
      BY <2>1 DEF ComesFrom
  <1>7. /\ walk.present \subseteq Items[walk.kind]
        /\ walk.listed \subseteq walk.touched \cup ToSet(seq)
        /\ \A i \in 1 .. Len(seq) :
               i > walk.start /\ seq[i] \in walk.listed => seq[i] \in walk.touched
        /\ Cardinality(Missed(seq, walk.start, walk.present, walk.listed)) <= walk.shifts
    BY <1>2, <1>3 DEF WalkKnows
  <1>8. ToSet(page) \subseteq ToSet(seq) /\ ToSet(page) \subseteq AllIds
    <2>1. ToSet(page) \subseteq ToSet(seq)
      BY <1>5, <1>6 DEF ToSet
    <2>2. ToSet(seq) \subseteq AllIds
      <3>1. \A i \in 1 .. Len(seq) : seq[i] \in AllIds
        BY <1>4, ElementOfSeq
      <3>2. QED
        BY <1>5, <3>1 DEF ToSet
    <2>3. QED
      BY <2>1, <2>2
  <1>9. walk.listed \cap ToSet(page) \subseteq walk.touched
    BY <1>6, <1>7
  <1>10. PICK phase, start, listed, repeated :
             /\ phase = IF Len(page) < walk.count THEN "done" ELSE "next"
             /\ start = walk.start + Len(page)
             /\ listed = walk.listed \cup ToSet(page)
             /\ repeated = walk.repeated \cup (walk.listed \cap ToSet(page))
    OBVIOUS
  <1>11. walk' = [walk EXCEPT !.phase = phase, !.start = start, !.listed = listed,
                              !.repeated = repeated]
    BY <1>3, <1>10 DEF NextPage, Turned
  <1>12. /\ walk' \in Walk /\ walk'.phase = phase /\ walk'.kind = walk.kind
         /\ walk'.start = start /\ walk'.listed = listed /\ walk'.repeated = repeated
         /\ walk'.touched = walk.touched /\ walk'.present = walk.present
         /\ walk'.shifts = walk.shifts
    <2>1. /\ phase \in Phase /\ start \in Nat /\ listed \subseteq Ids \cup MetadataIds
          /\ repeated \subseteq Ids \cup MetadataIds
      BY <1>2, <1>6, <1>8, <1>10 DEF Phase, Walk, AllIds
    <2>2. QED
      BY <1>2, <1>11, <2>1 DEF Walk
  <1>13. repeated \subseteq walk.touched
    BY <1>2, <1>9, <1>10 DEF RepeatedExplained
  <1>14. /\ Missed(seq, start, walk.present, listed)
                \subseteq Missed(seq, walk.start, walk.present, walk.listed)
         /\ Len(page) < walk.count =>
                walk.present \ listed \subseteq Missed(seq, walk.start, walk.present, walk.listed)
    BY <1>2, <1>3, <1>4, <1>10, PageMissesNothing
  <1>15. ASSUME NEW N, N \subseteq Missed(seq, walk.start, walk.present, walk.listed)
         PROVE  Cardinality(N) <= walk.shifts
    <2>1. PICK M : M = Missed(seq, walk.start, walk.present, walk.listed)
      OBVIOUS
    <2>2. IsFiniteSet(Items[walk.kind]) /\ M \subseteq Items[walk.kind]
      BY <1>2, <1>7, <2>1, ItemsFinite DEF Missed
    <2>3. IsFiniteSet(M) /\ IsFiniteSet(N) /\ Cardinality(N) <= Cardinality(M)
      BY <1>15, <2>1, <2>2, FS_Subset
    <2>4. PICK m \in Nat, n \in Nat : m = Cardinality(M) /\ n = Cardinality(N)
      BY <2>3, FS_CardinalityType
    <2>5. m <= walk.shifts /\ n <= m
      BY <1>7, <2>1, <2>3, <2>4
    <2>6. QED
      BY <1>2, <2>4, <2>5
  <1>16. ASSUME NEW i \in 1 .. Len(seq), i > start, seq[i] \in listed
         PROVE  seq[i] \in walk.touched
    <2>1. CASE seq[i] \in walk.listed
      BY <1>2, <1>5, <1>6, <1>7, <1>10, <1>16, <2>1
    <2>2. CASE seq[i] \in ToSet(page)
      <3>1. PICK k \in 1 .. Len(seq) : seq[k] = seq[i] /\ k <= start
        BY <1>6, <1>10, <2>2
      <3>2. k = i
        BY <1>4, <1>5, <3>1 DEF IsInjective
      <3>3. QED
        BY <1>2, <1>5, <1>6, <1>10, <1>16, <3>1, <3>2
    <2>3. QED
      BY <1>10, <1>16, <2>1, <2>2
  <1>17. WalkKnows'
    <2>1. seq = order'[<<walk'.kind, Walked>>]
      BY <1>1, <1>3, <1>12
    <2>2. listed \subseteq walk.touched \cup ToSet(seq)
      BY <1>7, <1>8, <1>10
    <2>3. Cardinality(Missed(seq, start, walk.present, listed)) <= walk.shifts
      BY <1>14, <1>15
    <2>4. QED
      BY <1>7, <1>12, <1>16, <2>1, <2>2, <2>3 DEF WalkKnows
  <1>18. phase = "done" => Cardinality(walk.present \ listed) <= walk.shifts
    BY <1>10, <1>14, <1>15
  <1>19. QED
    BY <1>1, <1>12, <1>13, <1>17, <1>18 DEF WalkInv, MissedExplained, RepeatedExplained

LEMMA EndWalkStep ==
  ASSUME WalkInv, EndWalk
  PROVE  WalkInv'
  <1>1. Orders'
    BY OrdersFrame DEF WalkInv, EndWalk, vars
  <1>2. /\ walk' \in Walk /\ walk'.phase = "idle" /\ walk'.repeated = {}
    BY DEF EndWalk, NoWalk, Walk, Phase, Kinds
  <1>3. QED
    BY <1>1, <1>2 DEF WalkInv, WalkKnows, MissedExplained, RepeatedExplained

-----------------------------------------------------------------------------
(* What holds of the store and of the walk together.                       *)

PagesIInv == IInv /\ WalkInv

LEMMA InitPages == PagesInit => PagesIInv
  <1>1. SUFFICES ASSUME PagesInit PROVE WalkInv
    BY InitIInv DEF PagesInit, PagesIInv
  <1>2. order \in [Kinds \X Partitions -> Seq(AllIds)]
    BY <1>1, EmptySeq DEF PagesInit
  <1>3. ASSUME NEW kind \in Kinds, NEW p \in Partitions
        PROVE  ToSet(order[<<kind, p>>]) = Stored(kind, p) /\ IsInjective(order[<<kind, p>>])
    <2>1. order[<<kind, p>>] = <<>>
      BY <1>1 DEF PagesInit
    <2>2. Len(order[<<kind, p>>]) = 0 /\ DOMAIN order[<<kind, p>>] = {}
      BY <2>1
    <2>3. Stored(kind, p) = {}
      BY <1>1 DEF PagesInit, Init, Stored
    <2>4. QED
      BY <2>2, <2>3 DEF ToSet, IsInjective
  <1>4. walk \in Walk /\ walk.phase = "idle" /\ walk.repeated = {}
    BY <1>1 DEF PagesInit, NoWalk, Walk, Phase, Kinds
  <1>5. QED
    BY <1>2, <1>3, <1>4 DEF WalkInv, Orders, WalkKnows, MissedExplained, RepeatedExplained

\* The store does not see the walk.
LEMMA PagesNextStore ==
  ASSUME [PagesNext]_allVars
  PROVE  [Next]_vars
  <1>1. CASE \E c \in Callers : PagesRest(c) \/ PagesWrite(c)
    BY <1>1 DEF PagesRest, PagesWrite, Next, Step
  <1>2. CASE \/ \E kind \in Kinds, count \in Counts : BeginWalk(kind, count)
             \/ NextPage \/ EndWalk \/ UNCHANGED allVars
    BY <1>2 DEF BeginWalk, NextPage, EndWalk, allVars
  <1>3. QED
    BY <1>1, <1>2 DEF PagesNext

LEMMA NextPages ==
  ASSUME PagesIInv, [PagesNext]_allVars
  PROVE  PagesIInv'
  <1>1. IInv'
    BY NextIInv, PagesNextStore DEF PagesIInv
  <1>2. WalkInv /\ TypeOK
    BY DEF PagesIInv, IInv
  <1>3. ASSUME NEW c \in Callers, PagesRest(c)
        PROVE  WalkInv'
    BY <1>2, <1>3, WalkFrame
       DEF PagesRest, pageVars, Begin, LockFirst, LockSecond, LookAndGoOn, LookAndReturn, Drop
  <1>4. ASSUME NEW c \in Callers, PagesWrite(c)
        PROVE  WalkInv'
    BY <1>2, <1>4, OfferWriteWalk, MetadataWriteWalk DEF PagesWrite
  <1>5. ASSUME NEW kind \in Kinds, NEW count \in Counts, BeginWalk(kind, count)
        PROVE  WalkInv'
    BY <1>2, <1>5, BeginWalkStep
  <1>6. CASE NextPage
    BY <1>1, <1>2, <1>6, NextPageStep DEF PagesIInv
  <1>7. CASE EndWalk
    BY <1>1, <1>2, <1>7, EndWalkStep DEF PagesIInv
  <1>8. CASE UNCHANGED allVars
    BY <1>1, <1>2, <1>8, WalkFrame DEF PagesIInv, allVars, vars, pageVars
  <1>9. QED
    BY <1>1, <1>3, <1>4, <1>5, <1>6, <1>7, <1>8 DEF PagesIInv, PagesNext

LEMMA PagesAlways == PagesSpec => []PagesIInv
  BY InitPages, NextPages, PTL DEF PagesSpec

\* The variables keep their types, and the order of each partition holds exactly
\* what is stored there, each record once, at every step of every operation
\* (get_offers and get_all_metadata sort what the maps hold).
THEOREM PagesTypes == PagesSpec => []PagesTypeOK
  <1>1. PagesIInv => PagesTypeOK
    BY DEF PagesIInv, IInv, WalkInv, Orders, PagesTypeOK
  <1>2. QED
    BY <1>1, PagesAlways, PTL

\* However many callers write during the walk, in any order and for any size of
\* page: the walk misses no more records than were taken from behind it
\* (get_offers' skip and take against put_offer and delete_offer).
THEOREM WalkMissesOnlyShifted == PagesSpec => []MissedExplained
  <1>1. PagesIInv => MissedExplained
    BY DEF PagesIInv, WalkInv
  <1>2. QED
    BY <1>1, PagesAlways, PTL

\* It lists a record twice only if that record was written during the walk: the
\* posts of others come last and push nothing back in front of it.
THEOREM WalkRepeatsOnlyWritten == PagesSpec => []RepeatedExplained
  <1>1. PagesIInv => RepeatedExplained
    BY DEF PagesIInv, WalkInv
  <1>2. QED
    BY <1>1, PagesAlways, PTL

\* Beside a walk, too, every offer's metadata stays in place and the maps behave
\* as the atomic catalog.
THEOREM WalkedStoreImplementsCatalog == PagesSpec => []OffersHaveMetadata /\ ImplementsCatalog
  <1>1. PagesInit => Init
    BY DEF PagesInit
  <1>2. [PagesNext]_allVars => [Next]_vars
    BY PagesNextStore
  <1>3. PagesSpec => Spec
    BY <1>1, <1>2, PTL DEF PagesSpec, Spec
  <1>4. QED
    BY <1>3, MemoryImplementsCatalog, OffersAlwaysHaveMetadata, PTL

=============================================================================
