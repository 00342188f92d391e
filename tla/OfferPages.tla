---------------------------- MODULE OfferPages ----------------------------
(***************************************************************************)
(* A walk through all offers, or all metadata, of one partition, page by   *)
(* page (`swgr offer get --start --count`, GET /offers/{partition}?start&  *)
(* count and its metadata twin), beside callers that write.  OfferHandlers *)
(* bounds the size of a page; the store orders by (created, id), skips     *)
(* `start` and takes `count`.  Nothing ties one page to the next but the   *)
(* offset, so what is removed or moved behind the walk shifts the rest.    *)
(*                                                                         *)
(* The code serves one page per request.  The walk itself, which counts    *)
(* the offset up and puts the pages together, is the outside user's: its   *)
(* record `walk`, Turned and EndWalk model no code of the repository.      *)
(*                                                                         *)
(* The store is MemoryOfferStore, whose insert stamps a new `created` on   *)
(* every write, puts included: a put moves its record to the end.          *)
(* `created` is read under the lock; two writes are taken to get different *)
(* times, so that order[<<kind, p>>] stands for the sorted keys.           *)
(***************************************************************************)
EXTENDS MemoryOfferStore, SequencesExt

CONSTANTS
    Walked,         \* the partition it walks through
    max_page_size,  \* of OfferState
    Counts          \* the page sizes the walk may be started with

ASSUME WalkedAssumption == Walked \in Partitions
ASSUME IdsAssumption == IsFiniteSet(Ids) /\ IsFiniteSet(MetadataIds)
ASSUME PageAssumption == max_page_size \in Nat \ {0} /\ Counts \subseteq Nat \ {0}

VARIABLES
    order,  \* order[<<kind, p>>]: the ids of partition p, sorted by (created, id)
    walk    \* the state of the walk

pageVars == <<order, walk>>
allVars == <<vars, pageVars>>

Kinds == {"offer", "metadata"}

Items == [offer |-> Ids, metadata |-> MetadataIds]

\* next: between two pages; refused: the first page was too large.
Phase == {"idle", "next", "done", "refused"}

\* count     the page size, start  the offset of the next page
\* listed    what the pages held; repeated  what more than one of them held
\* present   what was there when the walk began and was not deleted since
\* touched   what was put or deleted since
\* shifts    removals from behind the offset, as far as they matter
Walk == [phase : Phase, kind : Kinds, count : Nat, start : Nat,
         listed : SUBSET (Ids \cup MetadataIds), repeated : SUBSET (Ids \cup MetadataIds),
         present : SUBSET (Ids \cup MetadataIds), touched : SUBSET (Ids \cup MetadataIds),
         shifts : Nat]

NoWalk == [phase |-> "idle", kind |-> "offer", count |-> 0, start |-> 0, listed |-> {},
           repeated |-> {}, present |-> {}, touched |-> {}, shifts |-> 0]

\* What the map of a kind holds of partition p.
Stored(kind, p) ==
    IF kind = "offer" THEN {id \in Ids : offer[<<p, id>>] # None}
    ELSE {mid \in MetadataIds : <<p, mid>> \in metadata}

PagesTypeOK ==
    /\ TypeOK
    /\ walk \in Walk
    /\ \A kind \in Kinds, p \in Partitions :
           /\ ToSet(order[<<kind, p>>]) = Stored(kind, p)
           /\ IsInjective(order[<<kind, p>>])

PagesInit ==
    /\ Init
    /\ order = [k \in Kinds \X Partitions |-> <<>>]
    /\ walk = NoWalk

-----------------------------------------------------------------------------
(* The callers that write.                                                 *)

\* Mutant: a new record is sorted to the front (newest first).
Placed_newest_first(seq, id, present) ==
    IF present THEN <<id>> \o RemoveFirst(seq, id) ELSE RemoveFirst(seq, id)

\* Mutant: a put leaves the old key of the record in the index.
Placed_keeps_old(seq, id, present) ==
    IF present THEN Append(seq, id) ELSE RemoveFirst(seq, id)

\* The order after id was inserted or replaced (created = now), or removed.
Placed(seq, id, present) ==
    IF present THEN Append(RemoveFirst(seq, id), id) ELSE RemoveFirst(seq, id)

Smaller(m, n) == IF m < n THEN m ELSE n

\* id is in a place that a walk at `start` has passed.
Passed(seq, id, start) == \E i \in 1 .. Len(seq) : i <= start /\ seq[i] = id

\* What the write of a record means to a walk under way: one it has passed is
\* not in that place any more.
Shifted(kind, p, id, gone) ==
    LET old == order[<<kind, p>>]
    IN  IF walk.phase # "next" \/ walk.kind # kind \/ p # Walked THEN walk
        ELSE [walk EXCEPT !.touched = IF id \in ToSet(old) THEN @ \cup {id} ELSE @,
                          !.present = IF gone THEN @ \ {id} ELSE @,
                          !.shifts = IF Passed(old, id, walk.start)
                                     THEN Smaller(@ + 1, Cardinality(Items[kind])) ELSE @]

\* The write's effect on the order and on the walk.
Reorder(kind, p, id, stays) ==
    /\ order' = [order EXCEPT ![<<kind, p>>] = Placed(@, id, stays)]
    /\ walk' = Shifted(kind, p, id, ~stays)

PagesWrite(c) ==
    \/ /\ WriteOffer(c)
       /\ Reorder("offer", call[c].partition, call[c].id, call[c].op # "delete_offer")
    \/ /\ WriteMetadata(c)
       /\ Reorder("metadata", call[c].partition, call[c].metadata_id,
                  call[c].op # "delete_metadata")

PagesRest(c) ==
    /\ Begin(c) \/ LockFirst(c) \/ LockSecond(c) \/ LookAndGoOn(c) \/ LookAndReturn(c) \/ Drop(c)
    /\ UNCHANGED pageVars

-----------------------------------------------------------------------------
(* The walk.                                                               *)

\* The handlers refuse a page larger than max_page_size.
TooLarge(count) == count > max_page_size

BeginWalk(kind, count) ==
    /\ walk.phase = "idle"
    /\ walk' = [NoWalk EXCEPT !.phase = IF TooLarge(count) THEN "refused" ELSE "next",
                              !.kind = kind, !.count = count,
                              !.present = Stored(kind, Walked)]
    /\ UNCHANGED <<vars, order>>

\* Mutant: the page starts one record too far.
Page_skips_one(seq, start, count) ==
    SubSeq(seq, start + 2, Smaller(start + 1 + count, Len(seq)))

\* skip(start).take(count)
Page(seq, start, count) == SubSeq(seq, start + 1, Smaller(start + count, Len(seq)))

\* The user adds a page to what it has; one that is not full is the last.
Turned(page) ==
    [walk EXCEPT !.phase = IF Len(page) < walk.count THEN "done" ELSE "next",
                 !.start = @ + Len(page),
                 !.listed = @ \cup ToSet(page),
                 !.repeated = @ \cup (walk.listed \cap ToSet(page))]

\* get_offers, get_all_metadata: one request, answered under the lock of the kind.
NextPage ==
    /\ walk.phase = "next"
    /\ lock[walk.kind] = None
    /\ walk' = Turned(Page(order[<<walk.kind, Walked>>], walk.start, walk.count))
    /\ UNCHANGED <<vars, order>>

\* The user has all pages, or was refused, and may begin again.
EndWalk ==
    /\ walk.phase \in {"done", "refused"}
    /\ walk' = NoWalk
    /\ UNCHANGED <<vars, order>>

PagesNext ==
    \/ \E c \in Callers : PagesRest(c) \/ PagesWrite(c)
    \/ \E kind \in Kinds, count \in Counts : BeginWalk(kind, count)
    \/ NextPage
    \/ EndWalk

PagesSpec == PagesInit /\ [][PagesNext]_allVars

-----------------------------------------------------------------------------
\* A finished walk misses no more of the records that were there all along than
\* were removed, or moved to the end by a put, from behind it: without such a
\* write the listing is complete (get_offers' offset against put_offer and
\* delete_offer of another caller).
MissedExplained ==
    walk.phase = "done" => Cardinality(walk.present \ walk.listed) <= walk.shifts

\* A record is listed twice only if it was itself put, or deleted and posted
\* again, during the walk: posts of others never push a record back in front of
\* the walk, since new records are sorted last.
RepeatedExplained == walk.repeated \subseteq walk.touched

=============================================================================
