-------------------------- MODULE LnUrlPay_proofs --------------------------
(***************************************************************************)
(* The offer service on a database and the payers that read from it, for   *)
(* any callers, payers, partitions, ids and bounds.                        *)
(*                                                                         *)
(* First the tables: the foreign key keeps every offer joined to its       *)
(* metadata, and each statement is a step of the abstract catalog.  That   *)
(* takes only the types of the two tables: no statement relies on what an  *)
(* earlier one of its operation saw.  What callers are told does (CallOK), *)
(* and what payers are told relies on what they were shown (PayerOK).      *)
(***************************************************************************)
EXTENDS LnUrlPay, TLAPS

TablesOK ==
    /\ offers \in [OfferKeys -> OfferRow \cup {None}]
    /\ metadata \in [MetadataKeys -> MetadataRow \cup {None}]

IInv == TablesOK /\ OffersHaveMetadata

\* A written offer is a row and not None.
LEMMA OfferRowSome ==
    ASSUME NEW o \in Submitted, NEW f \in BOOLEAN
    PROVE  /\ [offer |-> o, fresh |-> f] \in OfferRow
           /\ [offer |-> o, fresh |-> f] # None
BY SubmittedAssumption, NoneAssumption DEF OfferRow

\* A written metadata is a row and not None.
LEMMA MetadataRowSome ==
    ASSUME NEW text \in Texts, NEW f \in BOOLEAN
    PROVE  /\ [text |-> text, fresh |-> f] \in MetadataRow
           /\ [text |-> text, fresh |-> f] # None
BY NoneAssumption DEF MetadataRow

\* The key an offer's foreign key refers to is a key of the metadata table.
LEMMA ForeignKey ==
    ASSUME NEW k \in OfferKeys, NEW row \in OfferRow
    PROVE  <<k[1], row.offer.metadata_id>> \in MetadataKeys
BY DEF OfferKeys, MetadataKeys, OfferRow, OfferRecordSparse

\* INSERT and upsert of an offer whose metadata is there.
LEMMA WriteOffer ==
    ASSUME IInv, NEW k \in OfferKeys, NEW o \in Submitted, NEW f \in BOOLEAN,
           HasMetadata(k, o),
           offers' = [offers EXCEPT ![k] = [offer |-> o, fresh |-> f]],
           UNCHANGED metadata
    PROVE  IInv'
<1> DEFINE row == [offer |-> o, fresh |-> f]
<1>1. row \in OfferRow /\ row # None /\ row.offer = o
  BY OfferRowSome
<1>2. TablesOK'
  BY <1>1 DEF IInv, TablesOK
<1>3. OffersHaveMetadata'
  <2>1. SUFFICES ASSUME NEW j \in OfferKeys, offers'[j] # None
                 PROVE  metadata'[<<j[1], offers'[j].offer.metadata_id>>] # None
    BY DEF OffersHaveMetadata, HasMetadata
  <2>2. CASE j = k
    <3>1. offers'[j] = row
      BY <2>2 DEF IInv, TablesOK
    <3>2. QED  BY <3>1, <1>1, <2>2 DEF HasMetadata
  <2>3. CASE j # k
    BY <2>1, <2>3 DEF IInv, TablesOK, OffersHaveMetadata, HasMetadata
  <2>4. QED  BY <2>2, <2>3
<1>4. QED  BY <1>2, <1>3 DEF IInv

\* DELETE of an offer.
LEMMA DeleteOffer ==
    ASSUME IInv, NEW k \in OfferKeys, offers' = [offers EXCEPT ![k] = None],
           UNCHANGED metadata
    PROVE  IInv'
BY DEF IInv, TablesOK, OffersHaveMetadata, HasMetadata

\* INSERT and upsert of metadata: nothing loses its metadata.
LEMMA WriteMetadata ==
    ASSUME IInv, NEW k \in MetadataKeys, NEW text \in Texts, NEW f \in BOOLEAN,
           metadata' = [metadata EXCEPT ![k] = [text |-> text, fresh |-> f]],
           UNCHANGED offers
    PROVE  IInv'
<1>1. [text |-> text, fresh |-> f] \in MetadataRow /\ [text |-> text, fresh |-> f] # None
  BY MetadataRowSome
<1>2. TablesOK'
  BY <1>1 DEF IInv, TablesOK
<1>3. OffersHaveMetadata'
  <2>1. SUFFICES ASSUME NEW j \in OfferKeys, offers[j] # None
                 PROVE  metadata'[<<j[1], offers[j].offer.metadata_id>>] # None
    BY DEF OffersHaveMetadata, HasMetadata
  <2>2. offers[j] \in OfferRow
    BY <2>1 DEF IInv, TablesOK
  <2>3. <<j[1], offers[j].offer.metadata_id>> \in MetadataKeys
    BY <2>2, ForeignKey
  <2>4. metadata[<<j[1], offers[j].offer.metadata_id>>] # None
    BY <2>1 DEF IInv, OffersHaveMetadata, HasMetadata
  <2>5. QED  BY <1>1, <2>3, <2>4 DEF IInv, TablesOK
<1>4. QED  BY <1>2, <1>3 DEF IInv

\* DELETE of metadata, restricted by the foreign key.
LEMMA DeleteMetadata ==
    ASSUME IInv, NEW k \in MetadataKeys, ~Referenced(k),
           metadata' = [metadata EXCEPT ![k] = None], UNCHANGED offers
    PROVE  IInv'
<1>1. TablesOK'
  BY DEF IInv, TablesOK
<1>2. OffersHaveMetadata'
  <2>1. SUFFICES ASSUME NEW j \in OfferKeys, offers[j] # None
                 PROVE  metadata'[<<j[1], offers[j].offer.metadata_id>>] # None
    BY DEF OffersHaveMetadata, HasMetadata
  <2>2. offers[j] \in OfferRow
    BY <2>1 DEF IInv, TablesOK
  <2>3. <<j[1], offers[j].offer.metadata_id>> \in MetadataKeys
    BY <2>2, ForeignKey
  <2>4. metadata[<<j[1], offers[j].offer.metadata_id>>] # None
    BY <2>1 DEF IInv, OffersHaveMetadata, HasMetadata
  <2>5. k # <<j[1], offers[j].offer.metadata_id>>
    <3>1. SUFFICES ASSUME k = <<j[1], offers[j].offer.metadata_id>>
                   PROVE  FALSE
      OBVIOUS
    <3>2. k[1] = j[1] /\ k[2] = offers[j].offer.metadata_id
      BY <3>1
    <3>3. j[2] \in Ids /\ j = <<j[1], j[2]>>
      BY DEF OfferKeys
    <3>4. QED  BY <2>1, <3>2, <3>3 DEF Referenced
  <2>6. QED  BY <2>3, <2>4, <2>5 DEF IInv, TablesOK
<1>3. QED  BY <1>1, <1>2 DEF IInv

LEMMA InitIInv == Init => IInv
BY DEF Init, IInv, TablesOK, OffersHaveMetadata

\* Every statement of every operation keeps the invariant.
LEMMA StepIInv ==
    ASSUME IInv, [Next]_vars
    PROVE  IInv'
<1>1. CASE UNCHANGED vars
  BY <1>1 DEF vars, IInv, TablesOK, OffersHaveMetadata, HasMetadata
<1>2. CASE Next
  <2>1. PICK c \in Callers : RestStep(c)
    BY <1>2 DEF Next
  <2>2. CASE UNCHANGED <<offers, metadata>>
    BY <2>2 DEF IInv, TablesOK, OffersHaveMetadata, HasMetadata
  <2>3. CASE OfferCommand(c)
    <3>1. PICK k \in OfferKeys :
              \/ \E o \in Submitted : post_offer(c, k, o) \/ put_offer(c, k, o)
              \/ delete_offer(c, k)
      BY <2>3 DEF OfferCommand
    <3>2. ASSUME NEW o \in Submitted, post_offer(c, k, o)
          PROVE  IInv'
      BY <3>2, <2>2, WriteOffer DEF post_offer
    <3>3. ASSUME NEW o \in Submitted, put_offer(c, k, o)
          PROVE  IInv'
      BY <3>3, <2>2, WriteOffer DEF put_offer, Upsert
    <3>4. CASE delete_offer(c, k)
      BY <3>4, <2>2, DeleteOffer DEF delete_offer
    <3>5. QED  BY <3>1, <3>2, <3>3, <3>4
  <2>4. CASE MetadataCommand(c)
    <3>1. PICK k \in MetadataKeys :
              \/ \E text \in Texts : post_metadata(c, k, text) \/ put_metadata(c, k, text)
              \/ delete_metadata(c, k)
      BY <2>4 DEF MetadataCommand
    <3>2. ASSUME NEW text \in Texts, post_metadata(c, k, text)
          PROVE  IInv'
      BY <3>2, <2>2, WriteMetadata DEF post_metadata
    <3>3. ASSUME NEW text \in Texts, put_metadata(c, k, text)
          PROVE  IInv'
      BY <3>3, WriteMetadata DEF put_metadata, Upsert
    <3>4. CASE delete_metadata(c, k)
      BY <3>4, <2>2, DeleteMetadata DEF delete_metadata
    <3>5. QED  BY <3>1, <3>2, <3>3, <3>4
  <2>5. CASE put_offer_fetch(c) \/ put_metadata_fetch(c)
    BY <2>5, <2>2 DEF put_offer_fetch, put_metadata_fetch
  <2>6. QED  BY <2>1, <2>3, <2>4, <2>5 DEF RestStep
<1>3. QED  BY <1>1, <1>2

\* No statement of any caller leaves an offer without the metadata it refers to
\* (the migration's foreign key under post, put and delete of offers and metadata).
THEOREM DbOffersHaveMetadata == Spec => []OffersHaveMetadata
<1>1. IInv => OffersHaveMetadata
  BY DEF IInv
<1>2. QED  BY InitIInv, StepIInv, <1>1, PTL DEF Spec

-----------------------------------------------------------------------------
(* Each statement is one step of the catalog, or none.  The two tables are   *)
(* seen through the ids their rows refer to.                                 *)

IdOf == [k \in OfferKeys |-> IF offers[k] = None THEN None ELSE offers[k].offer.metadata_id]

Stored == {k \in MetadataKeys : metadata[k] # None}

\* INSERT and upsert of an offer.
LEMMA WriteOfferStep ==
    ASSUME TablesOK, NEW k \in OfferKeys, NEW o \in Submitted, NEW f \in BOOLEAN,
           HasMetadata(k, o),
           offers' = [offers EXCEPT ![k] = [offer |-> o, fresh |-> f]],
           UNCHANGED metadata
    PROVE  Catalog!Next
<1>1. /\ [offer |-> o, fresh |-> f] # None
      /\ [offer |-> o, fresh |-> f].offer = o
      /\ o.metadata_id \in MetadataIds
  BY OfferRowSome, SubmittedAssumption DEF OfferRecordSparse
<1>2. <<k[1], o.metadata_id>> \in Stored
  BY <1>1 DEF Stored, HasMetadata, OfferKeys, MetadataKeys
<1>3. IdOf' = [IdOf EXCEPT ![k] = o.metadata_id]
  BY <1>1 DEF IdOf, TablesOK
<1>4. UNCHANGED Stored
  BY DEF Stored
<1>5. Catalog!WriteOffer(k, o.metadata_id)
  BY <1>2, <1>3, <1>4 DEF Catalog!WriteOffer, IdOf, Stored
<1>6. QED  BY <1>1, <1>5 DEF Catalog!Next, OfferKeys

\* DELETE of an offer.
LEMMA DeleteOfferStep ==
    ASSUME TablesOK, NEW k \in OfferKeys, offers' = [offers EXCEPT ![k] = None],
           UNCHANGED metadata
    PROVE  Catalog!Next
<1>1. IdOf' = [IdOf EXCEPT ![k] = None]
  BY DEF IdOf, TablesOK
<1>2. UNCHANGED Stored
  BY DEF Stored
<1>3. Catalog!DeleteOffer(k)
  BY <1>1, <1>2 DEF Catalog!DeleteOffer, IdOf, Stored
<1>4. QED  BY <1>3 DEF Catalog!Next, OfferKeys

\* INSERT and upsert of metadata.
LEMMA WriteMetadataStep ==
    ASSUME TablesOK, NEW k \in MetadataKeys, NEW text \in Texts, NEW f \in BOOLEAN,
           metadata' = [metadata EXCEPT ![k] = [text |-> text, fresh |-> f]],
           UNCHANGED offers
    PROVE  Catalog!Next
<1>1. [text |-> text, fresh |-> f] # None
  BY MetadataRowSome
<1>2. Stored' = Stored \cup {k}
  BY <1>1 DEF Stored, TablesOK
<1>3. UNCHANGED IdOf
  BY DEF IdOf
<1>4. Catalog!WriteMetadata(k)
  BY <1>2, <1>3 DEF Catalog!WriteMetadata, IdOf, Stored
<1>5. QED  BY <1>4 DEF Catalog!Next, MetadataKeys

\* DELETE of metadata: the foreign key is the catalog's guard.
LEMMA DeleteMetadataStep ==
    ASSUME TablesOK, NEW k \in MetadataKeys, ~Referenced(k),
           metadata' = [metadata EXCEPT ![k] = None], UNCHANGED offers
    PROVE  Catalog!Next
<1>1. Stored' = Stored \ {k}
  BY DEF Stored, TablesOK
<1>2. UNCHANGED IdOf
  BY DEF IdOf
<1>3. \A id \in Ids : IdOf[<<k[1], id>>] # k[2]
  <2>1. SUFFICES ASSUME NEW id \in Ids
                 PROVE  IdOf[<<k[1], id>>] # k[2]
    OBVIOUS
  <2>2. <<k[1], id>> \in OfferKeys /\ k[2] # None
    BY NoneIsNoId DEF OfferKeys, MetadataKeys
  <2>3. QED  BY <2>2 DEF IdOf, Referenced
<1>4. Catalog!DeleteMetadata(k)
  BY <1>1, <1>2, <1>3 DEF Catalog!DeleteMetadata, IdOf, Stored
<1>5. QED  BY <1>4 DEF Catalog!Next, MetadataKeys

LEMMA StepCatalog ==
    ASSUME TablesOK, [Next]_vars
    PROVE  [Catalog!Next]_(Catalog!vars)
<1>1. CASE UNCHANGED <<offers, metadata>>
  BY <1>1 DEF Catalog!vars
<1>2. CASE Next
  <2>1. PICK c \in Callers : RestStep(c)
    BY <1>2 DEF Next
  <2>2. CASE OfferCommand(c)
    <3>1. PICK k \in OfferKeys :
              \/ \E o \in Submitted : post_offer(c, k, o) \/ put_offer(c, k, o)
              \/ delete_offer(c, k)
      BY <2>2 DEF OfferCommand
    <3>2. ASSUME NEW o \in Submitted, post_offer(c, k, o)
          PROVE  [Catalog!Next]_(Catalog!vars)
      BY <3>2, <1>1, WriteOfferStep DEF post_offer
    <3>3. ASSUME NEW o \in Submitted, put_offer(c, k, o)
          PROVE  [Catalog!Next]_(Catalog!vars)
      BY <3>3, <1>1, WriteOfferStep DEF put_offer, Upsert
    <3>4. CASE delete_offer(c, k)
      BY <3>4, <1>1, DeleteOfferStep DEF delete_offer
    <3>5. QED  BY <3>1, <3>2, <3>3, <3>4
  <2>3. CASE MetadataCommand(c)
    <3>1. PICK k \in MetadataKeys :
              \/ \E text \in Texts : post_metadata(c, k, text) \/ put_metadata(c, k, text)
              \/ delete_metadata(c, k)
      BY <2>3 DEF MetadataCommand
    <3>2. ASSUME NEW text \in Texts, post_metadata(c, k, text)
          PROVE  [Catalog!Next]_(Catalog!vars)
      BY <3>2, <1>1, WriteMetadataStep DEF post_metadata
    <3>3. ASSUME NEW text \in Texts, put_metadata(c, k, text)
          PROVE  [Catalog!Next]_(Catalog!vars)
      BY <3>3, WriteMetadataStep DEF put_metadata, Upsert
    <3>4. CASE delete_metadata(c, k)
      BY <3>4, <1>1, DeleteMetadataStep DEF delete_metadata
    <3>5. QED  BY <3>1, <3>2, <3>3, <3>4
  <2>4. CASE put_offer_fetch(c) \/ put_metadata_fetch(c)
    BY <2>4, <1>1 DEF put_offer_fetch, put_metadata_fetch
  <2>5. QED  BY <2>1, <2>2, <2>3, <2>4 DEF RestStep
<1>3. QED  BY <1>1, <1>2 DEF vars

\* The tables and their foreign key implement the same atomic catalog as the
\* memory store: no statement of any caller writes an offer without metadata,
\* or removes metadata an offer needs (db.rs and the migration).
THEOREM DbImplementsCatalog == Spec => ImplementsCatalog
<1>1. Init => Catalog!Init
  BY DEF Init, Catalog!Init, OfferKeys, MetadataKeys
<1>2. IInv /\ [Next]_vars => IInv' /\ [Catalog!Next]_(Catalog!vars)
  BY StepIInv, StepCatalog DEF IInv
<1>3. QED
  BY <1>1, <1>2, InitIInv, PTL DEF Spec, ImplementsCatalog, Catalog!Spec

-----------------------------------------------------------------------------
(* What callers are told.  The invariant adds to the tables what a put has *)
(* between its two statements: unless somebody else writes the row, the    *)
(* second finds what the first did.                                        *)

\* A put between its two statements finds what its first one did, unless
\* somebody else has written the row; a call that is over was told the truth.
CallOK(c) ==
    /\ call[c].phase = "put_offer" =>
           /\ call[c].key \in OfferKeys /\ call[c].did \in {"created", "updated"}
           /\ ~call[c].touched => Fetched(offers[call[c].key]) = call[c].did
    /\ call[c].phase = "put_metadata" =>
           /\ call[c].key \in MetadataKeys /\ call[c].did \in {"created", "updated"}
           /\ ~call[c].touched => Fetched(metadata[call[c].key]) = call[c].did
    /\ call[c].phase = "done" /\ call[c].told \notin {"none", "http"} =>
           \/ call[c].told = call[c].did
           \/ call[c].did = "nothing" /\ call[c].told \in {"conflict", "missing", "invalid_input"}
           \/ call[c].touched /\ {call[c].did, call[c].told} = {"created", "updated"}

CallsOK == call \in [Callers -> Call] /\ \A c \in Callers : CallOK(c)

\* Handler and client together pass the store's answer on; an internal error
\* reaches the caller as one of the server.
LEMMA OfferTable ==
    /\ OfferTold("post", "created") = "created"
    /\ OfferTold("post", "conflict") = "conflict"
    /\ OfferTold("post", "invalid_input") = "invalid_input"
    /\ OfferTold("put", "created") = "created"
    /\ OfferTold("put", "updated") = "updated"
    /\ OfferTold("put", "invalid_input") = "invalid_input"
    /\ OfferTold("put", "internal") = "http"
    /\ OfferTold("delete", "deleted") = "deleted"
    /\ OfferTold("delete", "missing") = "missing"
BY DEF OfferTold, OfferHandlers, HttpOfferStore, Answers, Expects, ErrorStatus, general_error

LEMMA MetadataTable ==
    /\ MetadataTold("post", "created") = "created"
    /\ MetadataTold("post", "conflict") = "conflict"
    /\ MetadataTold("put", "created") = "created"
    /\ MetadataTold("put", "updated") = "updated"
    /\ MetadataTold("put", "internal") = "http"
    /\ MetadataTold("delete", "deleted") = "deleted"
    /\ MetadataTold("delete", "missing") = "missing"
    /\ MetadataTold("delete", "invalid_input") = "invalid_input"
BY DEF MetadataTold, MetadataHandlers, HttpMetadataStore, Answers, Expects, ErrorStatus,
       general_error

Dids == {"nothing", "created", "updated", "deleted"}
Tolds == {"none", "created", "updated", "deleted", "conflict", "missing",
          "invalid_input", "internal", "http"}

\* What ToldIsDone allows to be told of what was done.
Honest(did, told, touched) ==
    \/ told \in {"none", "http"}
    \/ told = did
    \/ did = "nothing" /\ told \in {"conflict", "missing", "invalid_input"}
    \/ touched /\ {did, told} = {"created", "updated"}

LEMMA AnsweredFields ==
    ASSUME NEW did \in Dids, NEW told \in Tolds, NEW touched \in BOOLEAN,
           Honest(did, told, touched)
    PROVE  LET r == Answered(did, told, touched)
           IN  r \in Call /\ r.phase = "done" /\ Honest(r.did, r.told, r.touched)
<1>1. NoCall \in Call
  BY DEF NoCall, Call
<1>2. CASE told = "http"
  BY <1>1, <1>2 DEF Answered, NoCall, Call, Honest
<1>3. CASE told # "http"
  BY <1>1, <1>3 DEF Answered, NoCall, Call, Honest, Dids, Tolds
<1>4. QED  BY <1>2, <1>3

\* The end of an operation that has not written.
LEMMA EndsCalls ==
    ASSUME CallsOK, UNCHANGED <<offers, metadata>>, NEW c \in Callers,
           NEW did \in Dids, NEW told \in Tolds, NEW touched \in BOOLEAN,
           Honest(did, told, touched), Ends(c, did, told, touched)
    PROVE  CallsOK'
<1>1. PICK heard \in {told, "http"} :
          call' = [call EXCEPT ![c] = Answered(did, heard, touched)]
  BY DEF Ends
<1> DEFINE r == Answered(did, heard, touched)
<1>2. Honest(did, heard, touched) /\ heard \in Tolds
  BY DEF Honest, Tolds
<1>3. r \in Call /\ r.phase = "done" /\ Honest(r.did, r.told, r.touched)
  BY <1>2, AnsweredFields
<1>4. call' = [call EXCEPT ![c] = r]
  BY <1>1
<1> HIDE DEF r
<1>5. /\ call' \in [Callers -> Call] /\ call'[c] = r
      /\ \A d \in Callers \ {c} : call'[d] = call[d]
  BY <1>3, <1>4 DEF CallsOK
<1>6. CallOK(c)'
  BY <1>3, <1>5 DEF CallOK, Honest
<1>7. \A d \in Callers \ {c} : CallOK(d)'
  BY <1>5 DEF CallsOK, CallOK
<1>8. QED  BY <1>5, <1>6, <1>7 DEF CallsOK

\* A statement of c writes at most the offer k, and every put of it is touched.
LEMMA OfferWrittenCalls ==
    ASSUME CallsOK, NEW c \in Callers, NEW k \in OfferKeys, NEW r \in Call,
           UNCHANGED metadata, \A j \in OfferKeys \ {k} : offers'[j] = offers[j],
           call' = [Write(c, "put_offer", k) EXCEPT ![c] = r],
           call'[c] = r => CallOK(c)'
    PROVE  CallsOK'
<1>1. Write(c, "put_offer", k) \in [Callers -> Call]
  BY DEF Write, CallsOK, Call
<1>2. call' \in [Callers -> Call] /\ call'[c] = r
  BY <1>1
<1>3. ASSUME NEW d \in Callers \ {c} PROVE CallOK(d)'
  <2>1. call'[d] = Write(c, "put_offer", k)[d]
    BY <1>1
  <2>2. CASE call[d].phase = "put_offer" /\ call[d].key = k
    <3>1. call'[d] = [call[d] EXCEPT !.touched = TRUE]
      BY <2>1, <2>2 DEF Write
    <3>2. call[d] \in Call /\ CallOK(d)
      BY DEF CallsOK
    <3>3. QED  BY <2>2, <3>1, <3>2 DEF CallOK, Call
  <2>3. CASE ~(call[d].phase = "put_offer" /\ call[d].key = k)
    <3>1. call'[d] = call[d]
      BY <2>1, <2>3 DEF Write
    <3>2. CallOK(d)
      BY DEF CallsOK
    <3>3. QED  BY <2>3, <3>1, <3>2 DEF CallOK
  <2>4. QED  BY <2>2, <2>3
<1>4. QED  BY <1>2, <1>3 DEF CallsOK

\* The same for metadata.
LEMMA MetadataWrittenCalls ==
    ASSUME CallsOK, NEW c \in Callers, NEW k \in MetadataKeys, NEW r \in Call,
           UNCHANGED offers, \A j \in MetadataKeys \ {k} : metadata'[j] = metadata[j],
           call' = [Write(c, "put_metadata", k) EXCEPT ![c] = r],
           call'[c] = r => CallOK(c)'
    PROVE  CallsOK'
<1>1. Write(c, "put_metadata", k) \in [Callers -> Call]
  BY DEF Write, CallsOK, Call
<1>2. call' \in [Callers -> Call] /\ call'[c] = r
  BY <1>1
<1>3. ASSUME NEW d \in Callers \ {c} PROVE CallOK(d)'
  <2>1. call'[d] = Write(c, "put_metadata", k)[d]
    BY <1>1
  <2>2. CASE call[d].phase = "put_metadata" /\ call[d].key = k
    <3>1. call'[d] = [call[d] EXCEPT !.touched = TRUE]
      BY <2>1, <2>2 DEF Write
    <3>2. call[d] \in Call /\ CallOK(d)
      BY DEF CallsOK
    <3>3. QED  BY <2>2, <3>1, <3>2 DEF CallOK, Call
  <2>3. CASE ~(call[d].phase = "put_metadata" /\ call[d].key = k)
    <3>1. call'[d] = call[d]
      BY <2>1, <2>3 DEF Write
    <3>2. CallOK(d)
      BY DEF CallsOK
    <3>3. QED  BY <2>3, <3>1, <3>2 DEF CallOK
  <2>4. QED  BY <2>2, <2>3
<1>4. QED  BY <1>2, <1>3 DEF CallsOK

\* A write of a single statement, answered truly.
LEMMA WroteOfferCalls ==
    ASSUME CallsOK, NEW c \in Callers, NEW k \in OfferKeys,
           UNCHANGED metadata, \A j \in OfferKeys \ {k} : offers'[j] = offers[j],
           NEW did \in {"created", "deleted"}, Wrote(c, "put_offer", k, did, did)
    PROVE  CallsOK'
<1>1. PICK heard \in {did, "http"} :
          call' = [Write(c, "put_offer", k) EXCEPT ![c] = Answered(did, heard, FALSE)]
  BY DEF Wrote
<1> DEFINE r == Answered(did, heard, FALSE)
<1>2. r \in Call /\ r.phase = "done" /\ Honest(r.did, r.told, r.touched)
  <2>1. did \in Dids /\ heard \in Tolds /\ Honest(did, heard, FALSE)
    BY DEF Honest, Dids, Tolds
  <2>2. QED  BY <2>1, AnsweredFields
<1>3. call' = [Write(c, "put_offer", k) EXCEPT ![c] = r]
  BY <1>1
<1> HIDE DEF r
<1>4. call'[c] = r => CallOK(c)'
  BY <1>2 DEF CallOK, Honest
<1>5. QED  BY <1>2, <1>3, <1>4, OfferWrittenCalls

LEMMA WroteMetadataCalls ==
    ASSUME CallsOK, NEW c \in Callers, NEW k \in MetadataKeys,
           UNCHANGED offers, \A j \in MetadataKeys \ {k} : metadata'[j] = metadata[j],
           NEW did \in {"created", "deleted"}, Wrote(c, "put_metadata", k, did, did)
    PROVE  CallsOK'
<1>1. PICK heard \in {did, "http"} :
          call' = [Write(c, "put_metadata", k) EXCEPT ![c] = Answered(did, heard, FALSE)]
  BY DEF Wrote
<1> DEFINE r == Answered(did, heard, FALSE)
<1>2. r \in Call /\ r.phase = "done" /\ Honest(r.did, r.told, r.touched)
  <2>1. did \in Dids /\ heard \in Tolds /\ Honest(did, heard, FALSE)
    BY DEF Honest, Dids, Tolds
  <2>2. QED  BY <2>1, AnsweredFields
<1>3. call' = [Write(c, "put_metadata", k) EXCEPT ![c] = r]
  BY <1>1
<1> HIDE DEF r
<1>4. call'[c] = r => CallOK(c)'
  BY <1>2 DEF CallOK, Honest
<1>5. QED  BY <1>2, <1>3, <1>4, MetadataWrittenCalls

\* The put's first statement, over a row that was or was not there.
LEMMA PutOfferCalls ==
    ASSUME CallsOK, NEW c \in Callers, NEW k \in OfferKeys, NEW did,
           UNCHANGED metadata, \A j \in OfferKeys \ {k} : offers'[j] = offers[j],
           did \in {"created", "updated"}, Fetched(offers'[k]) = did,
           call' = [Write(c, "put_offer", k) EXCEPT ![c] =
                       [NoCall EXCEPT !.phase = "put_offer", !.key = k, !.did = did]]
    PROVE  CallsOK'
<1> DEFINE r == [NoCall EXCEPT !.phase = "put_offer", !.key = k, !.did = did]
<1>1. /\ r \in Call /\ r.phase = "put_offer" /\ r.key = k /\ r.did = did
  BY DEF NoCall, Call
<1>2. call' = [Write(c, "put_offer", k) EXCEPT ![c] = r]
  OBVIOUS
<1> HIDE DEF r
<1>3. call'[c] = r => CallOK(c)'
  BY <1>1 DEF CallOK
<1>4. QED  BY <1>1, <1>2, <1>3, OfferWrittenCalls

LEMMA PutMetadataCalls ==
    ASSUME CallsOK, NEW c \in Callers, NEW k \in MetadataKeys, NEW did,
           UNCHANGED offers, \A j \in MetadataKeys \ {k} : metadata'[j] = metadata[j],
           did \in {"created", "updated"}, Fetched(metadata'[k]) = did,
           call' = [Write(c, "put_metadata", k) EXCEPT ![c] =
                       [NoCall EXCEPT !.phase = "put_metadata", !.key = k, !.did = did]]
    PROVE  CallsOK'
<1> DEFINE r == [NoCall EXCEPT !.phase = "put_metadata", !.key = k, !.did = did]
<1>1. /\ r \in Call /\ r.phase = "put_metadata" /\ r.key = k /\ r.did = did
  BY DEF NoCall, Call
<1>2. call' = [Write(c, "put_metadata", k) EXCEPT ![c] = r]
  OBVIOUS
<1> HIDE DEF r
<1>3. call'[c] = r => CallOK(c)'
  BY <1>1 DEF CallOK
<1>4. QED  BY <1>1, <1>2, <1>3, MetadataWrittenCalls

\* The second statement finds what the first did, or the put was touched.
LEMMA FetchCalls ==
    ASSUME CallsOK, NEW c \in Callers, put_offer_fetch(c) \/ put_metadata_fetch(c)
    PROVE  CallsOK'
<1>1. call[c].did \in {"created", "updated"} /\ call[c].touched \in BOOLEAN
      /\ UNCHANGED <<offers, metadata>>
  BY DEF CallsOK, CallOK, Call, put_offer_fetch, put_metadata_fetch
<1>2. PICK told \in Tolds : /\ Ends(c, call[c].did, told, call[c].touched)
                            /\ Honest(call[c].did, told, call[c].touched)
  <2>1. CASE put_offer_fetch(c)
    <3>1. PICK answer \in {Fetched(offers[call[c].key]), "internal"} :
              Ends(c, call[c].did, OfferTold("put", answer), call[c].touched)
      BY <2>1 DEF put_offer_fetch
    <3>2. ~call[c].touched => Fetched(offers[call[c].key]) = call[c].did
      BY <2>1 DEF put_offer_fetch, CallsOK, CallOK
    <3>3. answer \in {"internal", "created", "updated"}
      BY DEF Fetched
    <3>4. OfferTold("put", answer) = IF answer = "internal" THEN "http" ELSE answer
      BY <3>3, OfferTable
    <3>5. Honest(call[c].did, OfferTold("put", answer), call[c].touched)
      BY <1>1, <3>2, <3>3, <3>4 DEF Honest
    <3>6. OfferTold("put", answer) \in Tolds
      BY <3>3, <3>4 DEF Tolds
    <3>7. QED  BY <3>1, <3>5, <3>6
  <2>2. CASE put_metadata_fetch(c)
    <3>1. PICK answer \in {Fetched(metadata[call[c].key]), "internal"} :
              Ends(c, call[c].did, MetadataTold("put", answer), call[c].touched)
      BY <2>2 DEF put_metadata_fetch
    <3>2. ~call[c].touched => Fetched(metadata[call[c].key]) = call[c].did
      BY <2>2 DEF put_metadata_fetch, CallsOK, CallOK
    <3>3. answer \in {"internal", "created", "updated"}
      BY DEF Fetched
    <3>4. MetadataTold("put", answer) = IF answer = "internal" THEN "http" ELSE answer
      BY <3>3, MetadataTable
    <3>5. Honest(call[c].did, MetadataTold("put", answer), call[c].touched)
      BY <1>1, <3>2, <3>3, <3>4 DEF Honest
    <3>6. MetadataTold("put", answer) \in Tolds
      BY <3>3, <3>4 DEF Tolds
    <3>7. QED  BY <3>1, <3>5, <3>6
  <2>3. QED  BY <2>1, <2>2
<1>3. call[c].did \in Dids
  BY <1>1 DEF Dids
<1>4. QED  BY <1>1, <1>2, <1>3, EndsCalls

\* A statement refused or without effect.
LEMMA RefusedCalls ==
    ASSUME CallsOK, UNCHANGED <<offers, metadata>>, NEW c \in Callers,
           NEW told \in {"conflict", "missing", "invalid_input"},
           Ends(c, "nothing", told, FALSE)
    PROVE  CallsOK'
<1>1. told \in Tolds /\ "nothing" \in Dids /\ Honest("nothing", told, FALSE)
  BY DEF Tolds, Dids, Honest
<1>2. QED  BY <1>1, EndsCalls

\* Whether put created or updated shows in the row's two times.
LEMMA FetchedUpsert ==
    ASSUME NEW old, NEW row, row # None, row.fresh = Upsert(old)
    PROVE  Fetched(row) = IF old = None THEN "created" ELSE "updated"
BY DEF Fetched, Upsert

LEMMA OfferCalls ==
    ASSUME TablesOK, CallsOK, NEW c \in Callers, OfferCommand(c)
    PROVE  CallsOK'
<1>1. PICK k \in OfferKeys :
          \/ \E o \in Submitted : post_offer(c, k, o) \/ put_offer(c, k, o)
          \/ delete_offer(c, k)
  BY DEF OfferCommand
<1>2. ASSUME NEW o \in Submitted, post_offer(c, k, o)
      PROVE  CallsOK'
  <2>1. CASE /\ offers' = [offers EXCEPT ![k] = [offer |-> o, fresh |-> TRUE]]
             /\ Wrote(c, "put_offer", k, "created", OfferTold("post", "created"))
    <3>1. UNCHANGED metadata /\ \A j \in OfferKeys \ {k} : offers'[j] = offers[j]
      BY <1>2, <2>1 DEF TablesOK, post_offer
    <3>2. Wrote(c, "put_offer", k, "created", "created")
      BY <2>1, OfferTable
    <3>3. QED  BY <3>1, <3>2, WroteOfferCalls
  <2>2. CASE /\ UNCHANGED offers
             /\ \/ Ends(c, "nothing", OfferTold("post", "conflict"), FALSE)
                \/ Ends(c, "nothing", OfferTold("post", "invalid_input"), FALSE)
    <3>1. UNCHANGED <<offers, metadata>>
      BY <1>2, <2>2 DEF post_offer
    <3>2. QED  BY <2>2, <3>1, OfferTable, RefusedCalls
  <2>3. QED  BY <1>2, <2>1, <2>2 DEF post_offer
<1>3. ASSUME NEW o \in Submitted, put_offer(c, k, o)
      PROVE  CallsOK'
  <2> DEFINE row == [offer |-> o, fresh |-> Upsert(offers[k])]
             did == IF offers[k] = None THEN "created" ELSE "updated"
  <2>1. CASE /\ offers' = [offers EXCEPT ![k] = row]
             /\ call' = [Write(c, "put_offer", k) EXCEPT ![c] =
                            [NoCall EXCEPT !.phase = "put_offer", !.key = k, !.did = did]]
    <3>1. /\ UNCHANGED metadata /\ offers'[k] = row
          /\ \A j \in OfferKeys \ {k} : offers'[j] = offers[j]
      BY <1>3, <2>1 DEF TablesOK, put_offer
    <3>2. row # None /\ row.fresh = Upsert(offers[k])
      BY OfferRowSome DEF Upsert
    <3>3. did \in {"created", "updated"} /\ Fetched(offers'[k]) = did
      BY <3>1, <3>2, FetchedUpsert
    <3> HIDE DEF did, row
    <3>4. QED  BY <2>1, <3>1, <3>3, PutOfferCalls
  <2>2. CASE UNCHANGED offers /\ Ends(c, "nothing", OfferTold("put", "invalid_input"), FALSE)
    <3>1. UNCHANGED <<offers, metadata>>
      BY <1>3, <2>2 DEF put_offer
    <3>2. QED  BY <2>2, <3>1, OfferTable, RefusedCalls
  <2>3. QED  BY <1>3, <2>1, <2>2 DEF put_offer
<1>4. CASE delete_offer(c, k)
  <2>1. CASE offers[k] # None
    <3>1. UNCHANGED metadata /\ \A j \in OfferKeys \ {k} : offers'[j] = offers[j]
      BY <1>4, <2>1 DEF TablesOK, delete_offer
    <3>2. Wrote(c, "put_offer", k, "deleted", "deleted")
      BY <1>4, <2>1, OfferTable DEF delete_offer
    <3>3. QED  BY <3>1, <3>2, WroteOfferCalls
  <2>2. CASE offers[k] = None
    <3>1. UNCHANGED <<offers, metadata>> /\ Ends(c, "nothing", "missing", FALSE)
      BY <1>4, <2>2, OfferTable DEF delete_offer
    <3>2. QED  BY <3>1, RefusedCalls
  <2>3. QED  BY <2>1, <2>2
<1>5. QED  BY <1>1, <1>2, <1>3, <1>4

LEMMA MetadataCalls ==
    ASSUME TablesOK, CallsOK, NEW c \in Callers, MetadataCommand(c)
    PROVE  CallsOK'
<1>1. PICK k \in MetadataKeys :
          \/ \E text \in Texts : post_metadata(c, k, text) \/ put_metadata(c, k, text)
          \/ delete_metadata(c, k)
  BY DEF MetadataCommand
<1>2. ASSUME NEW text \in Texts, post_metadata(c, k, text)
      PROVE  CallsOK'
  <2>1. CASE metadata[k] = None
    <3>1. UNCHANGED offers /\ \A j \in MetadataKeys \ {k} : metadata'[j] = metadata[j]
      BY <1>2, <2>1 DEF TablesOK, post_metadata
    <3>2. Wrote(c, "put_metadata", k, "created", "created")
      BY <1>2, <2>1, MetadataTable DEF post_metadata
    <3>3. QED  BY <3>1, <3>2, WroteMetadataCalls
  <2>2. CASE metadata[k] # None
    <3>1. UNCHANGED <<offers, metadata>> /\ Ends(c, "nothing", "conflict", FALSE)
      BY <1>2, <2>2, MetadataTable DEF post_metadata
    <3>2. QED  BY <3>1, RefusedCalls
  <2>3. QED  BY <2>1, <2>2
<1>3. ASSUME NEW text \in Texts, put_metadata(c, k, text)
      PROVE  CallsOK'
  <2> DEFINE row == [text |-> text, fresh |-> Upsert(metadata[k])]
             did == IF metadata[k] = None THEN "created" ELSE "updated"
  <2>1. /\ metadata' = [metadata EXCEPT ![k] = row] /\ UNCHANGED offers
        /\ call' = [Write(c, "put_metadata", k) EXCEPT ![c] =
                       [NoCall EXCEPT !.phase = "put_metadata", !.key = k, !.did = did]]
    BY <1>3 DEF put_metadata
  <2>2. metadata'[k] = row /\ \A j \in MetadataKeys \ {k} : metadata'[j] = metadata[j]
    BY <2>1 DEF TablesOK
  <2>3. row # None /\ row.fresh = Upsert(metadata[k])
    BY MetadataRowSome DEF Upsert
  <2>4. did \in {"created", "updated"} /\ Fetched(metadata'[k]) = did
    BY <2>2, <2>3, FetchedUpsert
  <2> HIDE DEF did, row
  <2>5. QED  BY <2>1, <2>2, <2>4, PutMetadataCalls
<1>4. CASE delete_metadata(c, k)
  <2>1. CASE metadata[k] # None /\ ~Referenced(k)
    <3>1. UNCHANGED offers /\ \A j \in MetadataKeys \ {k} : metadata'[j] = metadata[j]
      BY <1>4, <2>1 DEF TablesOK, delete_metadata
    <3>2. Wrote(c, "put_metadata", k, "deleted", "deleted")
      BY <1>4, <2>1, MetadataTable DEF delete_metadata
    <3>3. QED  BY <3>1, <3>2, WroteMetadataCalls
  <2>2. CASE ~(metadata[k] # None /\ ~Referenced(k))
    <3>1. /\ UNCHANGED <<offers, metadata>>
          /\ Ends(c, "nothing", MetadataTold("delete", IF metadata[k] = None THEN "missing"
                                                       ELSE "invalid_input"), FALSE)
      BY <1>4, <2>2 DEF delete_metadata
    <3>2. MetadataTold("delete", IF metadata[k] = None THEN "missing" ELSE "invalid_input")
             \in {"missing", "invalid_input"}
      BY MetadataTable
    <3>3. QED  BY <3>1, <3>2, RefusedCalls
  <2>3. QED  BY <2>1, <2>2
<1>5. QED  BY <1>1, <1>2, <1>3, <1>4

LEMMA StepCalls ==
    ASSUME TablesOK, CallsOK, [Next]_vars
    PROVE  CallsOK'
<1>1. CASE UNCHANGED vars
  BY <1>1 DEF vars, CallsOK, CallOK
<1>2. CASE Next
  <2>1. PICK c \in Callers : RestStep(c)
    BY <1>2 DEF Next
  <2>2. QED  BY <2>1, OfferCalls, MetadataCalls, FetchCalls DEF RestStep
<1>3. QED  BY <1>1, <1>2

LEMMA InitCalls == Init => CallsOK
BY DEF Init, CallsOK, CallOK, NoCall, Call

LEMMA DbInvariant == Spec => [](IInv /\ CallsOK)
<1>1. (IInv /\ CallsOK) /\ [Next]_vars => (IInv /\ CallsOK)'
  BY StepIInv, StepCalls DEF IInv
<1>2. QED  BY <1>1, InitIInv, InitCalls, PTL DEF Spec

\* Rows and calls keep their types, for all callers and records.
THEOREM DbTypes == Spec => []TypeOK
<1>1. IInv /\ CallsOK => TypeOK
  BY DEF IInv, TablesOK, CallsOK, TypeOK
<1>2. QED  BY <1>1, DbInvariant, PTL

\* No interleaving of statements makes a caller believe in a change that was not
\* made, or miss one, beyond mistaking an update for an insert when somebody else
\* wrote the row between the two statements of its put.
THEOREM DbToldIsDone == Spec => []ToldIsDone
<1>1. CallsOK => ToldIsDone
  BY DEF CallsOK, CallOK, ToldIsDone
<1>2. QED  BY <1>1, DbInvariant, PTL

-----------------------------------------------------------------------------
(* The payers.  Offers change only by the offer service's steps, so that   *)
(* all of the above holds with payers about; what it takes beside is what  *)
(* a payer that was shown an offer knows of the one now stored.            *)

LEMMA PayStepIsStep == [PayNext]_allVars => [Next]_vars
<1>1. ASSUME NEW p \in Payers,
             \/ \E k \in OfferKeys : offer(p, k) \/ CachedOffer(p, k)
             \/ \E amount \in Amounts : invoice(p, amount)
             \/ InvalidComment(p) \/ CheckOffer(p) \/ ProviderFails(p)
             \/ GetInvoice(p) \/ Leave(p)
      PROVE  UNCHANGED vars
  BY <1>1 DEF offer, CachedOffer, invoice, InvalidComment, CheckOffer, ProviderFails,
              GetInvoice, Leave
<1>2. OfferService => Next
  BY DEF OfferService
<1>3. Tick => UNCHANGED vars
  BY DEF Tick
<1>4. QED  BY <1>1, <1>2, <1>3 DEF PayNext, allVars

LEMMA PayIsOffers == PaySpec => Spec
<1>1. PayInit => Init
  BY DEF PayInit
<1>2. QED  BY <1>1, PayStepIsStep, PTL DEF PaySpec, Spec

\* The offer service keeps its promises while payers read from it: to the
\* catalog, to the foreign key and to its callers.
THEOREM PayKeepsOffers ==
    PaySpec => ImplementsCatalog /\ []OffersHaveMetadata /\ []ToldIsDone
BY PayIsOffers, DbImplementsCatalog, DbOffersHaveMetadata, DbToldIsDone, PTL

Cached == {shown \in Shown : shown.offer.expires # None} \cup {None}

CacheOK == cache \in [OfferKeys -> Cached]

\* A payer that was shown an offer by the service holds what is stored until the
\* store changes; its request, once called gone, is for an offer that is gone.
HoldsOffer(p) ==
    /\ payer[p].key \in OfferKeys /\ payer[p].seen # None
    /\ payer[p].cached => payer[p].seen.offer.expires # None
    /\ ~payer[p].changed /\ ~payer[p].cached =>
           /\ StoredOffer(payer[p].key) = payer[p].seen
           /\ Serves(payer[p].key) /\ payer[p].seen.offer.timestamp <= now
    /\ payer[p].gone => Offered(payer[p].key) = None

\* An invoice is asked of the balancer only for an offer that passed the checks.
PassedChecks(p) ==
    /\ ~payer[p].gone /\ payer[p].verdict.within
    /\ ~payer[p].verdict.matches =>
           payer[p].changed \/ (payer[p].cached /\ payer[p].verdict.expiring)

\* A refusal has its reason.
RefusedFairly(p) ==
    payer[p].verdict.entitled =>
        payer[p].changed \/ payer[p].cached \/ payer[p].verdict.expired

PayerOK(p) ==
    \/ payer[p].phase = "idle" /\ payer[p].key = None /\ payer[p].seen = None
       /\ payer[p].answer = "none"
    \/ payer[p].phase = "shown" /\ payer[p].answer = "none" /\ HoldsOffer(p)
    \/ payer[p].phase = "asked" /\ payer[p].answer = "none" /\ HoldsOffer(p)
       /\ payer[p].amount \in Amounts
    \/ payer[p].phase = "balancer" /\ payer[p].key = None /\ payer[p].seen = None
       /\ payer[p].answer = "none" /\ PassedChecks(p)
    \/ payer[p].phase = "done" /\ payer[p].key = None /\ payer[p].seen = None
       /\ \/ payer[p].answer = "error"
          \/ payer[p].answer = "invoice" /\ PassedChecks(p)
          \/ payer[p].answer \in {"400", "404"} /\ RefusedFairly(p)

PayIInv ==
    /\ IInv
    /\ now \in Times
    /\ CacheOK
    /\ payer \in [Payers -> Payer]
    /\ \A p \in Payers : PayerOK(p)

\* What the provider finds has the types of a row.
LEMMA FoundTypes ==
    ASSUME TablesOK, OffersHaveMetadata, NEW k \in OfferKeys
    PROVE  /\ StoredOffer(k) # None => StoredOffer(k) \in Shown
           /\ Offered(k) # None =>
                  /\ Offered(k) = StoredOffer(k) /\ Serves(k)
                  /\ ~is_expired(StoredOffer(k).offer)
<1>1. offers[k] # None => offers[k] \in OfferRow
  BY DEF TablesOK
<1>2. ASSUME offers[k] # None
      PROVE  metadata[<<k[1], offers[k].offer.metadata_id>>] \in MetadataRow
  <2>1. <<k[1], offers[k].offer.metadata_id>> \in MetadataKeys
    BY <1>1, <1>2, ForeignKey
  <2>2. QED  BY <1>2, <2>1 DEF TablesOK, OffersHaveMetadata, HasMetadata
<1>3. StoredOffer(k) # None => StoredOffer(k) \in Shown
  BY <1>1, <1>2 DEF StoredOffer, get_offer, Shown, OfferRow, MetadataRow
<1>4. QED  BY <1>3 DEF Offered

LEMMA OfferFields ==
    ASSUME NEW o \in OfferRecordSparse
    PROVE  /\ o.min_sendable \in Nat /\ o.max_sendable \in Nat
           /\ o.timestamp \in Nat /\ o.expires \in Nat \cup {None}
           /\ o.expires \in Times \cup {None}
<1>1. /\ o.min_sendable \in Amounts /\ o.max_sendable \in Amounts
      /\ o.timestamp \in Times /\ o.expires \in Times \cup {None}
  BY DEF OfferRecordSparse
<1>2. Times \subseteq Nat
  BY DEF Times
<1>3. QED  BY <1>1, <1>2, AmountsAssumption

\* What is stored and offered stands still with the tables and the clock.
LEMMA SameOffers ==
    ASSUME UNCHANGED <<vars, now>>, NEW k
    PROVE  StoredOffer(k)' = StoredOffer(k) /\ Offered(k)' = Offered(k)
BY DEF vars, StoredOffer, get_offer, HasMetadata, Offered, is_expired, Serves

\* One payer moves on, the offers and the clock stand still.
LEMMA PayerStep ==
    ASSUME PayIInv, UNCHANGED <<vars, now>>, CacheOK', NEW p \in Payers, NEW r \in Payer,
           Pays(p, r), payer'[p] = r => PayerOK(p)'
    PROVE  PayIInv'
<1>1. /\ payer' \in [Payers -> Payer] /\ payer'[p] = r
      /\ \A q \in Payers \ {p} : payer'[q] = payer[q]
  BY DEF Pays, PayIInv
<1>2. ASSUME NEW q \in Payers \ {p} PROVE PayerOK(q)'
  <2>1. PayerOK(q) /\ payer'[q] = payer[q]
    BY <1>1 DEF PayIInv
  <2>2. HoldsOffer(q) => HoldsOffer(q)'
    BY <2>1, SameOffers DEF HoldsOffer, Serves
  <2>3. QED  BY <2>1, <2>2 DEF PayerOK, PassedChecks, RefusedFairly
<1>3. IInv' /\ now' \in Times
  BY StepIInv DEF PayIInv
<1>4. QED  BY <1>1, <1>2, <1>3 DEF PayIInv

LEMMA SameCache == PayIInv /\ UNCHANGED cache => CacheOK'
BY DEF PayIInv, CacheOK

LEMMA ShowStep ==
    ASSUME PayIInv, NEW p \in Payers, NEW k \in OfferKeys, offer(p, k)
    PROVE  PayIInv'
<1>1. UNCHANGED <<vars, now>> /\ IInv /\ TablesOK /\ OffersHaveMetadata
  BY DEF offer, PayIInv, IInv
<1>2. CASE UNCHANGED <<payer, cache>>
  <2>1. PayerOK(p) /\ payer[p] \in Payer
    BY DEF PayIInv
  <2>2. PayerOK(p)'
    BY <1>1, <1>2, <2>1, SameOffers
       DEF PayerOK, HoldsOffer, PassedChecks, RefusedFairly, Serves
  <2>3. Pays(p, payer[p])
    BY <1>2 DEF Pays, PayIInv
  <2>4. QED  BY <1>1, <1>2, <2>1, <2>2, <2>3, SameCache, PayerStep
<1>3. CASE /\ Offered(k) # None
           /\ Pays(p, [NoPayer EXCEPT !.phase = "shown", !.key = k, !.seen = Offered(k)])
           /\ cache' = IF Cacheable(Offered(k).offer) THEN [cache EXCEPT ![k] = Offered(k)]
                       ELSE cache
  <2> DEFINE r == [NoPayer EXCEPT !.phase = "shown", !.key = k, !.seen = Offered(k)]
  <2>1. /\ Offered(k) = StoredOffer(k) /\ Serves(k) /\ ~is_expired(StoredOffer(k).offer)
        /\ Offered(k) \in Shown
    BY <1>1, <1>3, FoundTypes
  <2>2. /\ r.phase = "shown" /\ r.key = k /\ r.seen = Offered(k) /\ r.cached = FALSE
        /\ r.changed = FALSE /\ r.gone = FALSE /\ r.answer = "none"
    BY DEF NoPayer
  <2>3. r \in Payer
    BY <2>1 DEF NoPayer, Payer
  <2>4. Pays(p, r)
    BY <1>3
  <2> HIDE DEF r
  <2>5. Offered(k).offer \in OfferRecordSparse
    BY <2>1 DEF Shown
  <2>6. Offered(k).offer.timestamp <= now
    BY <2>1, <2>5, OfferFields DEF is_expired, PayIInv, Times
  <2>7. CacheOK'
    <3>1. CASE cache' = cache
      BY <3>1, SameCache
    <3>2. CASE Cacheable(Offered(k).offer) /\ cache' = [cache EXCEPT ![k] = Offered(k)]
      <4>1. Offered(k) \in Cached
        BY <2>1, <3>2 DEF Cacheable, Cached
      <4>2. QED  BY <3>2, <4>1 DEF CacheOK, PayIInv
    <3>3. QED  BY <1>3, <3>1, <3>2
  <2>8. payer'[p] = r => PayerOK(p)'
    <3>1. ASSUME payer'[p] = r PROVE HoldsOffer(p)'
      BY <1>1, <1>3, <2>1, <2>2, <2>6, <3>1, SameOffers DEF HoldsOffer, Serves
    <3>2. QED  BY <2>2, <3>1 DEF PayerOK
  <2>9. QED  BY <1>1, <2>3, <2>4, <2>7, <2>8, PayerStep
<1>4. QED  BY <1>2, <1>3 DEF offer

LEMMA ShowCachedStep ==
    ASSUME PayIInv, NEW p \in Payers, NEW k \in OfferKeys, CachedOffer(p, k)
    PROVE  PayIInv'
<1> DEFINE r == [NoPayer EXCEPT !.phase = "shown", !.key = k, !.seen = cache[k],
                                !.cached = TRUE]
<1>1. /\ r.phase = "shown" /\ r.key = k /\ r.seen = cache[k] /\ r.cached = TRUE
      /\ r.changed = FALSE /\ r.gone = FALSE /\ r.answer = "none"
  BY DEF NoPayer
<1>2. Pays(p, r) /\ cache[k] # None /\ UNCHANGED <<vars, now>> /\ UNCHANGED cache
  BY DEF CachedOffer
<1>3. cache[k] \in Shown /\ cache[k].offer.expires # None
  BY <1>2 DEF PayIInv, CacheOK, Cached
<1>4. r \in Payer
  BY <1>3 DEF NoPayer, Payer
<1> HIDE DEF r
<1>5. payer'[p] = r => PayerOK(p)'
  <2>1. ASSUME payer'[p] = r PROVE HoldsOffer(p)'
    BY <1>1, <1>2, <1>3, <2>1 DEF HoldsOffer
  <2>2. QED  BY <1>1, <2>1 DEF PayerOK
<1>6. QED  BY <1>2, <1>4, <1>5, SameCache, PayerStep

LEMMA AskStep ==
    ASSUME PayIInv, NEW p \in Payers, NEW amount \in Amounts, invoice(p, amount)
    PROVE  PayIInv'
<1> DEFINE r == [payer[p] EXCEPT !.phase = "asked", !.amount = amount,
                                 !.gone = Offered(payer[p].key) = None]
<1>1. payer[p] \in Payer /\ HoldsOffer(p) /\ payer[p].answer = "none"
  BY DEF PayIInv, PayerOK, invoice
<1>2. Pays(p, r) /\ UNCHANGED <<vars, now>> /\ UNCHANGED cache
  BY DEF invoice
<1>3. /\ r \in Payer /\ r.phase = "asked" /\ r.amount = amount
      /\ r.gone = (Offered(payer[p].key) = None)
      /\ r.key = payer[p].key /\ r.seen = payer[p].seen /\ r.cached = payer[p].cached
      /\ r.changed = payer[p].changed /\ r.answer = payer[p].answer
  BY <1>1 DEF Payer
<1> HIDE DEF r
<1>4. payer'[p] = r => PayerOK(p)'
  <2>1. ASSUME payer'[p] = r PROVE HoldsOffer(p)'
    BY <1>1, <1>2, <1>3, <2>1, SameOffers DEF HoldsOffer, Serves
  <2>2. QED  BY <1>1, <1>3, <2>1 DEF PayerOK
<1>5. QED  BY <1>2, <1>3, <1>4, SameCache, PayerStep

\* A request, or a payer, that comes to an end without an invoice.
LEMMA EndStep ==
    ASSUME PayIInv, NEW p \in Payers, UNCHANGED <<vars, now>>, UNCHANGED cache,
           \/ Pays(p, NoPayer)
           \/ Pays(p, [NoPayer EXCEPT !.phase = "done", !.answer = "error"])
    PROVE  PayIInv'
<1> DEFINE failed == [NoPayer EXCEPT !.phase = "done", !.answer = "error"]
<1>1. NoPayer \in Payer /\ failed \in Payer
  BY DEF NoPayer, Payer
<1>2. payer'[p] = NoPayer => PayerOK(p)'
  BY DEF NoPayer, PayerOK
<1>3. payer'[p] = failed => PayerOK(p)'
  BY DEF NoPayer, PayerOK
<1>4. Pays(p, NoPayer) \/ Pays(p, failed)
  OBVIOUS
<1> HIDE DEF failed
<1>5. QED  BY <1>1, <1>2, <1>3, <1>4, SameCache, PayerStep

\* A verdict says what it is named for.
LEMMA VerdictFields ==
    ASSUME NEW p, NEW found
    PROVE  /\ Verdict(p, found) \in Verdicts
           /\ Verdict(p, found).entitled <=> Within(payer[p].amount, payer[p].seen.offer)
           /\ Verdict(p, found).expiring <=> payer[p].seen.offer.expires # None
           /\ Verdict(p, found).expired <=> /\ payer[p].seen.offer.expires # None
                                            /\ now > payer[p].seen.offer.expires
           /\ Verdict(p, found).within <=> found # None /\ Within(payer[p].amount, found.offer)
           /\ Verdict(p, found).matches <=> found # None /\ found.text = payer[p].seen.text
<1>1. Verdict(p, found) \in Verdicts
  BY DEF Verdict, Verdicts, Within
<1>2. Verdict(p, found).entitled <=> Within(payer[p].amount, payer[p].seen.offer)
  BY DEF Verdict, Within
<1>3. Verdict(p, found).expiring <=> payer[p].seen.offer.expires # None
  BY DEF Verdict
<1>4. Verdict(p, found).expired <=> /\ payer[p].seen.offer.expires # None
                                   /\ now > payer[p].seen.offer.expires
  BY DEF Verdict
<1>5. Verdict(p, found).within <=> found # None /\ Within(payer[p].amount, found.offer)
  BY DEF Verdict, Within
<1>6. Verdict(p, found).matches <=> found # None /\ found.text = payer[p].seen.text
  BY DEF Verdict
<1>7. QED  BY <1>1, <1>2, <1>3, <1>4, <1>5, <1>6

\* The checks: whatever the handler finds, the outcome has its reason.
LEMMA CheckStep ==
    ASSUME PayIInv, NEW p \in Payers, CheckOffer(p)
    PROVE  PayIInv'
<1> DEFINE k == payer[p].key
           found == Found(k)
           v == Verdict(p, found)
           judged == [payer[p] EXCEPT !.key = None, !.seen = None, !.amount = 0, !.verdict = v]
           r == IF found = None THEN [judged EXCEPT !.phase = "done", !.answer = "404"]
                ELSE IF ~InRange(payer[p].amount, found.offer)
                THEN [judged EXCEPT !.phase = "done", !.answer = "400"]
                ELSE [judged EXCEPT !.phase = "balancer"]
<1>1. /\ payer[p] \in Payer /\ HoldsOffer(p) /\ payer[p].answer = "none"
      /\ payer[p].amount \in Amounts /\ payer[p].amount \in Nat
      /\ UNCHANGED <<vars, now>> /\ UNCHANGED cache
      /\ IInv /\ TablesOK /\ OffersHaveMetadata /\ now \in Nat
  BY AmountsAssumption DEF PayIInv, PayerOK, CheckOffer, IInv, Times
<1>2. Pays(p, r)
  BY DEF CheckOffer
<1>3. /\ k \in OfferKeys /\ payer[p].seen \in Shown
      /\ payer[p].seen.offer \in OfferRecordSparse
  BY <1>1 DEF HoldsOffer, Payer, Shown
<1>4. /\ found = Offered(k)
      /\ found # None => /\ found = StoredOffer(k) /\ found \in Shown
                         /\ found.offer \in OfferRecordSparse
      /\ StoredOffer(k) # None /\ Serves(k) /\ ~is_expired(StoredOffer(k).offer)
             => found # None
  BY <1>1, <1>3, FoundTypes DEF Found, Offered, Shown
<1>5. /\ v \in Verdicts
      /\ v.entitled <=> Within(payer[p].amount, payer[p].seen.offer)
      /\ v.expiring <=> payer[p].seen.offer.expires # None
      /\ v.expired <=> payer[p].seen.offer.expires # None /\ now > payer[p].seen.offer.expires
      /\ v.within <=> found # None /\ Within(payer[p].amount, found.offer)
      /\ v.matches <=> found # None /\ found.text = payer[p].seen.text
  BY VerdictFields
<1>6. /\ judged \in Payer /\ judged.key = None /\ judged.seen = None
      /\ judged.verdict = v /\ judged.answer = "none"
      /\ judged.changed = payer[p].changed /\ judged.cached = payer[p].cached
      /\ judged.gone = payer[p].gone
  BY <1>1, <1>5 DEF Payer
<1> HIDE DEF v, judged
<1>7. CASE found = None
  <2> DEFINE s == [judged EXCEPT !.phase = "done", !.answer = "404"]
  <2>1. /\ s \in Payer /\ s.phase = "done" /\ s.answer = "404" /\ s.key = None
        /\ s.seen = None /\ s.verdict = v
        /\ s.changed = payer[p].changed /\ s.cached = payer[p].cached
    BY <1>6 DEF Payer
  <2>2. Pays(p, s)
    BY <1>2, <1>7
  <2> HIDE DEF s
  <2>3. payer[p].changed \/ payer[p].cached \/ v.expired
    <3>1. SUFFICES ASSUME ~payer[p].changed, ~payer[p].cached PROVE v.expired
      OBVIOUS
    <3>2. /\ StoredOffer(k) = payer[p].seen /\ StoredOffer(k) # None /\ Serves(k)
          /\ payer[p].seen.offer.timestamp <= now
      BY <1>1, <3>1 DEF HoldsOffer
    <3>3. is_expired(payer[p].seen.offer)
      BY <1>4, <1>7, <3>2
    <3>4. payer[p].seen.offer.timestamp \in Nat
      BY <1>3, OfferFields
    <3>5. QED  BY <1>1, <1>5, <3>2, <3>3, <3>4 DEF is_expired
  <2>4. payer'[p] = s => PayerOK(p)'
    BY <2>1, <2>3 DEF PayerOK, RefusedFairly
  <2>5. QED  BY <1>1, <2>1, <2>2, <2>4, SameCache, PayerStep
<1>8. CASE found # None /\ ~InRange(payer[p].amount, found.offer)
  <2> DEFINE s == [judged EXCEPT !.phase = "done", !.answer = "400"]
  <2>1. /\ s \in Payer /\ s.phase = "done" /\ s.answer = "400" /\ s.key = None
        /\ s.seen = None /\ s.verdict = v
        /\ s.changed = payer[p].changed /\ s.cached = payer[p].cached
    BY <1>6 DEF Payer
  <2>2. Pays(p, s)
    BY <1>2, <1>8
  <2> HIDE DEF s
  <2>3. v.entitled => payer[p].changed \/ payer[p].cached
    <3>1. SUFFICES ASSUME ~payer[p].changed, ~payer[p].cached PROVE ~v.entitled
      OBVIOUS
    <3>2. found = payer[p].seen
      BY <1>1, <1>4, <1>8, <3>1 DEF HoldsOffer
    <3>3. QED  BY <1>1, <1>3, <1>5, <1>8, <3>2, OfferFields DEF InRange, Within
  <2>4. payer'[p] = s => PayerOK(p)'
    BY <2>1, <2>3 DEF PayerOK, RefusedFairly
  <2>5. QED  BY <1>1, <2>1, <2>2, <2>4, SameCache, PayerStep
<1>9. CASE found # None /\ InRange(payer[p].amount, found.offer)
  <2> DEFINE s == [judged EXCEPT !.phase = "balancer"]
  <2>1. /\ s \in Payer /\ s.phase = "balancer" /\ s.answer = "none" /\ s.key = None
        /\ s.seen = None /\ s.verdict = v /\ s.gone = payer[p].gone
        /\ s.changed = payer[p].changed /\ s.cached = payer[p].cached
    BY <1>6 DEF Payer
  <2>2. Pays(p, s)
    BY <1>2, <1>9
  <2> HIDE DEF s
  <2>3. ~payer[p].gone
    BY <1>1, <1>4, <1>9 DEF HoldsOffer
  <2>4. v.within
    BY <1>1, <1>4, <1>5, <1>9, OfferFields DEF InRange, Within
  <2>5. ~v.matches => payer[p].changed \/ (payer[p].cached /\ v.expiring)
    <3>1. SUFFICES ASSUME ~v.matches, ~payer[p].changed
                   PROVE  payer[p].cached /\ v.expiring
      OBVIOUS
    <3>2. payer[p].cached
      BY <1>1, <1>4, <1>5, <1>9, <3>1 DEF HoldsOffer
    <3>3. QED  BY <1>1, <1>5, <3>2 DEF HoldsOffer
  <2>6. payer'[p] = s => PayerOK(p)'
    BY <2>1, <2>3, <2>4, <2>5 DEF PayerOK, PassedChecks
  <2>7. QED  BY <1>1, <2>1, <2>2, <2>6, SameCache, PayerStep
<1>10. QED  BY <1>7, <1>8, <1>9

LEMMA InvoiceStep ==
    ASSUME PayIInv, NEW p \in Payers, GetInvoice(p)
    PROVE  PayIInv'
<1>1. /\ payer[p] \in Payer /\ PassedChecks(p) /\ payer[p].key = None /\ payer[p].seen = None
      /\ UNCHANGED <<vars, now>> /\ UNCHANGED cache
  BY DEF PayIInv, PayerOK, GetInvoice
<1> DEFINE r == [payer[p] EXCEPT !.phase = "done", !.answer = "invoice"]
<1>2. CASE Pays(p, r)
  <2>1. /\ r \in Payer /\ r.phase = "done" /\ r.answer = "invoice" /\ r.key = None
        /\ r.seen = None /\ r.verdict = payer[p].verdict /\ r.gone = payer[p].gone
        /\ r.changed = payer[p].changed /\ r.cached = payer[p].cached
    BY <1>1 DEF Payer
  <2> HIDE DEF r
  <2>2. payer'[p] = r => PayerOK(p)'
    BY <1>1, <2>1 DEF PayerOK, PassedChecks
  <2>3. QED  BY <1>1, <1>2, <2>1, <2>2, SameCache, PayerStep
<1>3. CASE Pays(p, [NoPayer EXCEPT !.phase = "done", !.answer = "error"])
  BY <1>1, <1>3, EndStep
<1>4. QED  BY <1>2, <1>3 DEF GetInvoice

\* The offers or the time change: each payer that still has an offer in hand
\* takes note of what happened to it.
LEMMA NoticeStep ==
    ASSUME PayIInv, IInv', CacheOK', now' \in Times, now' >= now, Notice
    PROVE  PayIInv'
<1>1. payer' \in [Payers -> Payer]
  <2> DEFINE changes == {k \in OfferKeys : StoredOffer(k)' # StoredOffer(k)}
             missing == {k \in OfferKeys : Offered(k)' = None}
             new(p) == IF payer[p].key = None THEN payer[p]
                       ELSE [payer[p] EXCEPT !.changed = payer[p].changed \/ payer[p].key \in changes,
                                             !.gone = payer[p].gone /\ payer[p].key \in missing]
  <2>1. payer' = [p \in Payers |-> new(p)]
    BY DEF Notice
  <2>2. ASSUME NEW p \in Payers PROVE new(p) \in Payer
    <3>1. payer[p] \in Payer
      BY DEF PayIInv
    <3>2. ASSUME NEW b \in BOOLEAN, NEW g \in BOOLEAN
          PROVE  [payer[p] EXCEPT !.changed = b, !.gone = g] \in Payer
      BY <3>1 DEF Payer
    <3>3. /\ (payer[p].changed \/ payer[p].key \in changes) \in BOOLEAN
          /\ (payer[p].gone /\ payer[p].key \in missing) \in BOOLEAN
      OBVIOUS
    <3> HIDE DEF changes, missing
    <3>4. QED  BY <3>1, <3>2, <3>3
  <2> HIDE DEF new
  <2>3. QED  BY <2>1, <2>2
<1>2. ASSUME NEW p \in Payers PROVE PayerOK(p)'
  <2>1. PayerOK(p) /\ payer[p] \in Payer
    BY DEF PayIInv
  <2>2. CASE payer[p].key = None
    <3>1. payer'[p] = payer[p]
      BY <2>2 DEF Notice
    <3>2. ~HoldsOffer(p)
      BY <2>2, NoneAssumption DEF HoldsOffer
    <3>3. QED  BY <2>1, <3>1, <3>2 DEF PayerOK, PassedChecks, RefusedFairly
  <2>3. CASE payer[p].key # None
    <3> PICK k \in OfferKeys : payer[p].key = k
      BY <2>1, <2>3 DEF Payer
    <3> DEFINE changes == {j \in OfferKeys : StoredOffer(j)' # StoredOffer(j)}
               missing == {j \in OfferKeys : Offered(j)' = None}
               r == [payer[p] EXCEPT !.changed = payer[p].changed \/ k \in changes,
                                     !.gone = payer[p].gone /\ k \in missing]
    <3>1. payer'[p] = r
      BY <2>3 DEF Notice
    <3>2. /\ r.phase = payer[p].phase /\ r.key = payer[p].key /\ r.seen = payer[p].seen
          /\ r.cached = payer[p].cached /\ r.amount = payer[p].amount
          /\ r.answer = payer[p].answer
          /\ r.changed <=> payer[p].changed \/ k \in changes
          /\ r.gone <=> payer[p].gone /\ k \in missing
      BY <2>1 DEF Payer
    <3>3. /\ payer[p].phase \in {"shown", "asked"} /\ payer[p].answer = "none"
          /\ HoldsOffer(p)
          /\ payer[p].phase = "asked" => payer[p].amount \in Amounts
      BY <2>1, <2>3 DEF PayerOK
    <3>4. payer[p].seen.offer \in OfferRecordSparse
      BY <2>1, <3>3 DEF HoldsOffer, Payer, Shown
    <3>5. ~r.changed => StoredOffer(k)' = StoredOffer(k)
      BY <3>2, <3>4
    <3>6. r.gone => Offered(k)' = None
      BY <3>2, <3>4
    <3>7. payer[p].seen.offer.timestamp \in Nat /\ now \in Nat /\ now' \in Nat
      BY <3>4, OfferFields DEF PayIInv, Times
    <3>8. ~r.changed => ~payer[p].changed
      BY <3>2
    <3> HIDE DEF r
    <3>9. HoldsOffer(p)'
      BY <3>1, <3>2, <3>3, <3>5, <3>6, <3>7, <3>8 DEF HoldsOffer, Serves
    <3>10. QED  BY <3>1, <3>2, <3>3, <3>9 DEF PayerOK
  <2>4. QED  BY <2>2, <2>3
<1>3. QED  BY <1>1, <1>2 DEF PayIInv

LEMMA OfferServiceStep == ASSUME PayIInv, OfferService PROVE PayIInv'
<1>1. IInv' /\ now' = now /\ now \in Nat /\ UNCHANGED cache /\ Notice
  BY StepIInv DEF OfferService, PayIInv, Times
<1>2. QED  BY <1>1, SameCache, NoticeStep DEF PayIInv

LEMMA TickStep == ASSUME PayIInv, Tick PROVE PayIInv'
<1>1. IInv' /\ Notice
  BY StepIInv DEF Tick, PayIInv
<1>2. now' \in Times /\ now' >= now
  BY TimeAssumption DEF Tick, PayIInv, Times
<1>3. CacheOK'
  BY DEF Tick, PayIInv, CacheOK, Cached
<1>4. QED  BY <1>1, <1>2, <1>3, NoticeStep

LEMMA InitPay == PayInit => PayIInv
<1> SUFFICES ASSUME PayInit PROVE PayIInv
  OBVIOUS
<1>1. IInv /\ now \in Times
  BY InitIInv, TimeAssumption DEF PayInit, Times
<1>2. CacheOK
  BY DEF PayInit, CacheOK, Cached
<1>3. payer \in [Payers -> Payer] /\ \A p \in Payers : PayerOK(p)
  BY DEF PayInit, NoPayer, Payer, PayerOK
<1>4. QED  BY <1>1, <1>2, <1>3 DEF PayIInv

LEMMA NextPay == ASSUME PayIInv, [PayNext]_allVars PROVE PayIInv'
<1>1. CASE OfferService \/ Tick
  BY <1>1, OfferServiceStep, TickStep
<1>2. ASSUME NEW p \in Payers, NEW k \in OfferKeys, offer(p, k) \/ CachedOffer(p, k)
      PROVE  PayIInv'
  BY <1>2, ShowStep, ShowCachedStep
<1>3. ASSUME NEW p \in Payers, NEW amount \in Amounts, invoice(p, amount)
      PROVE  PayIInv'
  BY <1>3, AskStep
<1>4. ASSUME NEW p \in Payers, InvalidComment(p) \/ ProviderFails(p) \/ Leave(p)
      PROVE  PayIInv'
  BY <1>4, EndStep DEF InvalidComment, ProviderFails, Leave
<1>5. ASSUME NEW p \in Payers, CheckOffer(p) \/ GetInvoice(p)
      PROVE  PayIInv'
  BY <1>5, CheckStep, InvoiceStep
<1>6. CASE UNCHANGED allVars
  <2>1. UNCHANGED <<vars, now>> /\ UNCHANGED <<cache, payer>>
    BY <1>6 DEF allVars, payVars
  <2>2. ASSUME NEW p \in Payers PROVE PayerOK(p)'
    BY <2>1, SameOffers
       DEF PayIInv, PayerOK, HoldsOffer, PassedChecks, RefusedFairly, Serves
  <2>3. IInv' /\ CacheOK'
    BY <2>1, StepIInv, SameCache DEF PayIInv
  <2>4. QED  BY <2>1, <2>2, <2>3 DEF PayIInv
<1>7. QED  BY <1>1, <1>2, <1>3, <1>4, <1>5, <1>6 DEF PayNext

LEMMA PayInvariant == PaySpec => []PayIInv
<1>1. PayIInv /\ [PayNext]_allVars => PayIInv'
  BY NextPay
<1>2. QED  BY <1>1, InitPay, PTL DEF PaySpec

\* Tables, calls, caches and payers keep their types.
THEOREM PayTypes == PaySpec => []PayTypeOK
<1>1. PayIInv /\ TypeOK => PayTypeOK
  BY DEF PayIInv, CacheOK, Cached, PayTypeOK
<1>2. QED  BY <1>1, PayInvariant, PayIsOffers, DbTypes, PTL

\* A wallet that must refuse an invoice is refusing a change of the offer, or a
\* cached response of one that expires.
THEOREM MismatchHasAReason == PaySpec => []MismatchExplained
<1>1. PayIInv => MismatchExplained
  BY DEF PayIInv, PayerOK, PassedChecks, MismatchExplained
<1>2. QED  BY <1>1, PayInvariant, PTL

\* A payer is refused an amount it was shown only after a change or an expiry.
THEOREM RefusalHasAReason == PaySpec => []RefusalExplained
<1>1. PayIInv => RefusalExplained
  BY DEF PayIInv, PayerOK, RefusedFairly, RefusalExplained
<1>2. QED  BY <1>1, PayInvariant, PTL

\* No interleaving with the offer service, the clock or a cache gets an invoice
\* for an offer that is gone, or over an amount outside the offer.
THEOREM NeverInvoiceOnceGone == PaySpec => []NoInvoiceOnceGone
<1>1. PayIInv => NoInvoiceOnceGone
  BY DEF PayIInv, PayerOK, PassedChecks, NoInvoiceOnceGone
<1>2. QED  BY <1>1, PayInvariant, PTL

=============================================================================
