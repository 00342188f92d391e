--------------------------- MODULE DbOfferStore ---------------------------
(***************************************************************************)
(* The offer service on a database: DbOfferStore (components/src/offer/    *)
(* db.rs) over the two tables and the foreign key of the migration         *)
(* (migration/src/m20250724_182058_create_table.rs), called through        *)
(* OfferHandlers (service/src/offer/handler.rs) by HttpOfferStore          *)
(* (components/src/offer/http.rs), that is by `swgr offer ...`.            *)
(*                                                                         *)
(* Every SQL statement is one step.  All operations are one statement but  *)
(* the two puts: an upsert, then a SELECT of created_at and updated_at     *)
(* from which put tells insert from update (the upsert writes updated_at   *)
(* one second ahead); here `fresh` stands for "the two are equal".         *)
(* An answer may be lost on its way to the caller.                         *)
(***************************************************************************)
EXTENDS Naturals

CONSTANTS
    Callers,      \* concurrent callers of the REST API
    Partitions,
    Ids,          \* offer ids
    MetadataIds,
    Texts,        \* contents of metadata
    Amounts,      \* millisatoshis
    MaxTime,      \* bound: the clock stops here
    Submitted,    \* bound: the offers that callers submit
    None

ASSUME AmountsAssumption == Amounts \subseteq Nat
ASSUME TimeAssumption == MaxTime \in Nat

VARIABLES
    offers,    \* offers[p, id]: the row, or None
    metadata,  \* metadata[p, mid]: the row, or None
    call       \* call[c]: the caller's operation under way, or its last one

vars == <<offers, metadata, call>>

OfferKeys == Partitions \X Ids
MetadataKeys == Partitions \X MetadataIds
Times == 0 .. MaxTime

OfferRecordSparse ==
    [min_sendable : Amounts, max_sendable : Amounts, metadata_id : MetadataIds,
     timestamp : Times, expires : Times \cup {None}]

ASSUME SubmittedAssumption == Submitted \subseteq OfferRecordSparse

OfferRow == [offer : OfferRecordSparse, fresh : BOOLEAN]
MetadataRow == [text : Texts, fresh : BOOLEAN]

ASSUME NoneIsNoId == None \notin MetadataIds

ASSUME NoneAssumption ==
    /\ None \notin Times
    /\ None \notin OfferKeys
    /\ \A row \in OfferRow \cup MetadataRow : row # None

\* did: what became of the rows, as of the operation's writing statement.
\* told: what the caller's method returned.  touched: another caller has written
\* the row between the two statements of a put.
Call == [phase : {"done", "put_offer", "put_metadata"}, key : OfferKeys \cup MetadataKeys \cup {None},
         did : {"nothing", "created", "updated", "deleted"},
         told : {"none", "created", "updated", "deleted", "conflict", "missing",
                 "invalid_input", "internal", "http"},
         touched : BOOLEAN]

NoCall == [phase |-> "done", key |-> None, did |-> "nothing", told |-> "none", touched |-> FALSE]

TypeOK ==
    /\ offers \in [OfferKeys -> OfferRow \cup {None}]
    /\ metadata \in [MetadataKeys -> MetadataRow \cup {None}]
    /\ call \in [Callers -> Call]

Init ==
    /\ offers = [k \in OfferKeys |-> None]
    /\ metadata = [k \in MetadataKeys |-> None]
    /\ call = [c \in Callers |-> NoCall]

-----------------------------------------------------------------------------
(* From the store's answer to the caller: the handler's status and what    *)
(* the client makes of it.                                                 *)

\* ServiceErrorSource::to_http_status of the store's errors.
ErrorStatus(error) == IF error = "invalid_input" THEN 400 ELSE 500

\* A handler with two answers, and the errors of its store.
Answers(a, status_a, b, status_b) ==
    [answer \in {a, b, "invalid_input", "internal"} |->
        IF answer = a THEN status_a ELSE IF answer = b THEN status_b ELSE ErrorStatus(answer)]

OfferHandlers ==
    [post |-> Answers("created", 201, "conflict", 409),
     put |-> Answers("created", 201, "updated", 204),
     delete |-> Answers("deleted", 204, "missing", 404)]

MetadataHandlers ==
    [post |-> Answers("created", 201, "conflict", 409),
     put |-> Answers("created", 201, "updated", 204),
     delete |-> Answers("deleted", 204, "missing", 404)]

\* What is left when the status is none that the method expects.
general_error(status) == IF status = 400 THEN "invalid_input" ELSE "http"

\* A method that expects two statuses.
Expects(status_a, a, status_b, b) ==
    [status \in {status_a, status_b, 400, 500} |->
        IF status = status_a THEN a ELSE IF status = status_b THEN b ELSE general_error(status)]

HttpOfferStore ==
    [post |-> Expects(201, "created", 409, "conflict"),
     put |-> Expects(201, "created", 204, "updated"),
     delete |-> Expects(204, "deleted", 404, "missing")]

HttpMetadataStore ==
    [post |-> Expects(201, "created", 409, "conflict"),
     put |-> Expects(201, "created", 204, "updated"),
     delete |-> Expects(204, "deleted", 404, "missing")]

OfferTold(op, answer) == HttpOfferStore[op][OfferHandlers[op][answer]]

MetadataTold(op, answer) == HttpMetadataStore[op][MetadataHandlers[op][answer]]

\* The call as its caller remembers it.  One that heard of an error of the server
\* or of the connection knows nothing.
Answered(did, told, touched) ==
    IF told = "http" THEN [NoCall EXCEPT !.told = "http"]
    ELSE [NoCall EXCEPT !.did = did, !.told = told, !.touched = touched]

\* Caller c's operation ends; the answer is lost (or timed out) now and then.
Ends(c, did, told, touched) ==
    \E heard \in {told, "http"} : call' = [call EXCEPT ![c] = Answered(did, heard, touched)]

\* The caller's write to the row k, seen from the puts of the same row under way.
Write(c, phase, k) ==
    [d \in Callers |->
        IF d # c /\ call[d].phase = phase /\ call[d].key = k
        THEN [call[d] EXCEPT !.touched = TRUE] ELSE call[d]]

\* Caller c's single-statement write of row k is over.
Wrote(c, phase, k, did, told) ==
    \E heard \in {told, "http"} :
        call' = [Write(c, phase, k) EXCEPT ![c] = Answered(did, heard, FALSE)]

Idle(c) == call[c].phase = "done"

-----------------------------------------------------------------------------
(* Offers.                                                                 *)

\* The foreign key (partition, metadata_id).
HasMetadata(k, o) == metadata[<<k[1], o.metadata_id>>] # None

\* INSERT; which of two violated constraints is reported is the database's choice.
post_offer(c, k, o) ==
    /\ Idle(c)
    /\ \/ /\ offers[k] = None /\ HasMetadata(k, o)
          /\ offers' = [offers EXCEPT ![k] = [offer |-> o, fresh |-> TRUE]]
          /\ Wrote(c, "put_offer", k, "created", OfferTold("post", "created"))
       \/ /\ offers[k] # None
          /\ Ends(c, "nothing", OfferTold("post", "conflict"), FALSE)
          /\ UNCHANGED offers
       \/ /\ ~HasMetadata(k, o)
          /\ Ends(c, "nothing", OfferTold("post", "invalid_input"), FALSE)
          /\ UNCHANGED offers
    /\ UNCHANGED metadata

\* Mutant: an update leaves updated_at as it was inserted.
Upsert_same_time(old) == TRUE

\* Whether created_at and updated_at are equal after the upsert over `old`.
Upsert(old) == old = None

\* put's first statement: INSERT ... ON CONFLICT UPDATE.
put_offer(c, k, o) ==
    /\ Idle(c)
    /\ \/ /\ HasMetadata(k, o)
          /\ offers' = [offers EXCEPT ![k] = [offer |-> o, fresh |-> Upsert(offers[k])]]
          /\ call' = [Write(c, "put_offer", k) EXCEPT ![c] =
                         [NoCall EXCEPT !.phase = "put_offer", !.key = k,
                             !.did = IF offers[k] = None THEN "created" ELSE "updated"]]
       \/ /\ ~HasMetadata(k, o)
          /\ Ends(c, "nothing", OfferTold("put", "invalid_input"), FALSE)
          /\ UNCHANGED offers
    /\ UNCHANGED metadata

\* What put answers, from the row its second statement finds.
Fetched(row) ==
    IF row = None THEN "internal" ELSE IF row.fresh THEN "created" ELSE "updated"

\* put's second statement, which may itself fail.
put_offer_fetch(c) ==
    /\ call[c].phase = "put_offer"
    /\ \E answer \in {Fetched(offers[call[c].key]), "internal"} :
           Ends(c, call[c].did, OfferTold("put", answer), call[c].touched)
    /\ UNCHANGED <<offers, metadata>>

delete_offer(c, k) ==
    /\ Idle(c)
    /\ IF offers[k] # None
       THEN /\ offers' = [offers EXCEPT ![k] = None]
            /\ Wrote(c, "put_offer", k, "deleted", OfferTold("delete", "deleted"))
       ELSE /\ Ends(c, "nothing", OfferTold("delete", "missing"), FALSE)
            /\ UNCHANGED offers
    /\ UNCHANGED metadata

\* What get_offer(sparse = false) returns of row k: the row joined with its metadata.
get_offer(k) ==
    IF offers[k] = None \/ ~HasMetadata(k, offers[k].offer) THEN None
    ELSE [offer |-> offers[k].offer,
          metadata |-> metadata[<<k[1], offers[k].offer.metadata_id>>].text]

-----------------------------------------------------------------------------
(* Metadata.                                                               *)

post_metadata(c, k, text) ==
    /\ Idle(c)
    /\ IF metadata[k] = None
       THEN /\ metadata' = [metadata EXCEPT ![k] = [text |-> text, fresh |-> TRUE]]
            /\ Wrote(c, "put_metadata", k, "created", MetadataTold("post", "created"))
       ELSE /\ Ends(c, "nothing", MetadataTold("post", "conflict"), FALSE)
            /\ UNCHANGED metadata
    /\ UNCHANGED offers

put_metadata(c, k, text) ==
    /\ Idle(c)
    /\ metadata' = [metadata EXCEPT ![k] = [text |-> text, fresh |-> Upsert(metadata[k])]]
    /\ call' = [Write(c, "put_metadata", k) EXCEPT ![c] =
                   [NoCall EXCEPT !.phase = "put_metadata", !.key = k,
                       !.did = IF metadata[k] = None THEN "created" ELSE "updated"]]
    /\ UNCHANGED offers

put_metadata_fetch(c) ==
    /\ call[c].phase = "put_metadata"
    /\ \E answer \in {Fetched(metadata[call[c].key]), "internal"} :
           Ends(c, call[c].did, MetadataTold("put", answer), call[c].touched)
    /\ UNCHANGED <<offers, metadata>>

\* Mutant: the foreign key does not restrict deletes.
Referenced_never(k) == FALSE

\* ON DELETE RESTRICT
Referenced(k) ==
    \E id \in Ids : /\ offers[<<k[1], id>>] # None
                    /\ offers[<<k[1], id>>].offer.metadata_id = k[2]

delete_metadata(c, k) ==
    /\ Idle(c)
    /\ IF metadata[k] # None /\ ~Referenced(k)
       THEN /\ metadata' = [metadata EXCEPT ![k] = None]
            /\ Wrote(c, "put_metadata", k, "deleted", MetadataTold("delete", "deleted"))
       ELSE /\ Ends(c, "nothing",
                    MetadataTold("delete", IF metadata[k] = None THEN "missing"
                                           ELSE "invalid_input"), FALSE)
            /\ UNCHANGED metadata
    /\ UNCHANGED offers

-----------------------------------------------------------------------------
\* The statements of caller c, as `swgr offer` and `swgr offer metadata` send them.
OfferCommand(c) ==
    \E k \in OfferKeys :
        \/ \E o \in Submitted : post_offer(c, k, o) \/ put_offer(c, k, o)
        \/ delete_offer(c, k)

MetadataCommand(c) ==
    \E k \in MetadataKeys :
        \/ \E text \in Texts : post_metadata(c, k, text) \/ put_metadata(c, k, text)
        \/ delete_metadata(c, k)

RestStep(c) ==
    OfferCommand(c) \/ put_offer_fetch(c) \/ MetadataCommand(c) \/ put_metadata_fetch(c)

Next == \E c \in Callers : RestStep(c)

Spec == Init /\ [][Next]_vars

-----------------------------------------------------------------------------
\* Every stored offer refers to stored metadata, so that get_offer's join never
\* loses an offer (the foreign key against post, put and delete_metadata).
OffersHaveMetadata == \A k \in OfferKeys : offers[k] # None => HasMetadata(k, offers[k].offer)

\* The contract of the traits, for the ids of the rows.
Catalog == INSTANCE OfferCatalog WITH
    Partitions <- Partitions, Ids <- Ids, MetadataIds <- MetadataIds, None <- None,
    offer <- [k \in OfferKeys |-> IF offers[k] = None THEN None ELSE offers[k].offer.metadata_id],
    metadata <- {k \in MetadataKeys : metadata[k] # None}

\* The tables implement the contract of the memory store: a statement has an
\* effect at once or none, and the foreign key does what that store's locked
\* looks do (db.rs and the migration against memory.rs).
ImplementsCatalog == Catalog!Spec

\* A caller is told what became of the rows, unless its answer was lost or the
\* server failed: created, updated or deleted exactly if its statement did that,
\* a refusal exactly if it did nothing.  A put may only be wrong about created
\* and updated, and only if somebody else wrote the row between its two
\* statements (db.rs put_offer, handler.rs, http.rs).
ToldIsDone ==
    \A c \in Callers :
        call[c].phase = "done" /\ call[c].told \notin {"none", "http"} =>
            \/ call[c].told = call[c].did
            \/ call[c].did = "nothing" /\ call[c].told \in {"conflict", "missing", "invalid_input"}
            \/ call[c].touched /\ {call[c].did, call[c].told} = {"created", "updated"}

=============================================================================
