--------------------------- MODULE OfferCatalog ---------------------------
(***************************************************************************)
(* What the traits OfferStore and OfferMetadataStore promise their users   *)
(* (service-api/src/offer.rs): each posting, putting or deleting of an     *)
(* offer or of metadata takes effect at one moment, all or nothing, and an *)
(* offer is only ever written while its metadata is there, metadata only   *)
(* ever removed while no offer needs it.  The memory store implements this *)
(* with two locks (MemoryOfferStore), the database with single statements  *)
(* and a foreign key (DbOfferStore).                                       *)
(***************************************************************************)
CONSTANTS Partitions, Ids, MetadataIds, None

VARIABLES
    offer,    \* offer[p, id]: the metadata id of the stored offer, or None
    metadata  \* keys <<p, mid>> that have metadata

vars == <<offer, metadata>>

Init ==
    /\ offer = [k \in Partitions \X Ids |-> None]
    /\ metadata = {}

\* post_offer of a new offer, put_offer of any.
WriteOffer(k, mid) ==
    /\ <<k[1], mid>> \in metadata
    /\ offer' = [offer EXCEPT ![k] = mid]
    /\ UNCHANGED metadata

DeleteOffer(k) ==
    /\ offer' = [offer EXCEPT ![k] = None]
    /\ UNCHANGED metadata

\* post_metadata of new metadata, put_metadata of any.
WriteMetadata(k) ==
    /\ metadata' = metadata \cup {k}
    /\ UNCHANGED offer

DeleteMetadata(k) ==
    /\ \A id \in Ids : offer[<<k[1], id>>] # k[2]
    /\ metadata' = metadata \ {k}
    /\ UNCHANGED offer

Next ==
    \/ \E k \in Partitions \X Ids : DeleteOffer(k) \/ \E mid \in MetadataIds : WriteOffer(k, mid)
    \/ \E k \in Partitions \X MetadataIds : WriteMetadata(k) \/ DeleteMetadata(k)

Spec == Init /\ [][Next]_vars

=============================================================================
