------------------------- MODULE MemoryOfferStore -------------------------
(***************************************************************************)
(* MemoryOfferStore (components/src/offer/memory.rs): offers and the       *)
(* metadata they refer to, in two maps behind two tokio mutexes.  An       *)
(* operation takes the locks it needs one after the other, looks, writes   *)
(* and releases them when it returns; callers are the HTTP handlers of the *)
(* offer service and of the LNURL service, running concurrently.           *)
(*                                                                         *)
(* An offer is reduced to the id of its metadata, metadata to its          *)
(* presence; amounts, times and texts are stored and returned unread.      *)
(***************************************************************************)
EXTENDS Naturals

CONSTANTS
    Callers,     \* concurrent operations
    Partitions,
    Ids,         \* offer ids
    MetadataIds,
    None

ASSUME NoneAssumption ==
    None \notin MetadataIds /\ None \notin Callers /\ None \notin {"offer", "metadata"}

VARIABLES
    offer,     \* offer[p, id]: the metadata id of the stored offer, or None
    metadata,  \* keys <<p, mid>> that have metadata
    lock,      \* lock["offer"], lock["metadata"]: the holder, or None
    pc,
    call       \* the arguments of each caller's operation

vars == <<offer, metadata, lock, pc, call>>

Locks == {"offer", "metadata"}

OfferOps == {"get_offer", "get_offers", "post_offer", "put_offer", "delete_offer"}
MetadataOps == {"get_metadata", "get_all_metadata", "post_metadata", "put_metadata",
                "delete_metadata"}

Call == [op : OfferOps \cup MetadataOps, partition : Partitions,
         id : Ids, metadata_id : MetadataIds]

\* Which lock an operation takes first, and which second (None: only one).
FirstLock(op) ==
    IF op \in {"get_offers", "delete_offer", "delete_metadata"} THEN "offer" ELSE "metadata"

SecondLock(op) ==
    CASE op \in {"get_offer", "post_offer", "put_offer"} -> "offer"
      [] op = "delete_metadata" -> "metadata"
      [] OTHER -> None

PC == {"idle", "first", "second", "look", "write"}

TypeOK ==
    /\ offer \in [Partitions \X Ids -> MetadataIds \cup {None}]
    /\ metadata \subseteq Partitions \X MetadataIds
    /\ lock \in [Locks -> Callers \cup {None}]
    /\ pc \in [Callers -> PC]
    /\ call \in [Callers -> Call]

Init ==
    /\ offer = [k \in Partitions \X Ids |-> None]
    /\ metadata = {}
    /\ lock = [l \in Locks |-> None]
    /\ pc = [c \in Callers |-> "idle"]
    /\ call \in [Callers -> Call]

-----------------------------------------------------------------------------
OfferKey(c) == <<call[c].partition, call[c].id>>

MetadataKey(c) == <<call[c].partition, call[c].metadata_id>>

Begin(c) ==
    /\ pc[c] = "idle"
    /\ \E args \in Call : call' = [call EXCEPT ![c] = args]
    /\ pc' = [pc EXCEPT ![c] = "first"]
    /\ UNCHANGED <<offer, metadata, lock>>

\* Mutant: the second map is read and written without its lock.
LockFirst_only(c) ==
    LET l == FirstLock(call[c].op)
    IN  /\ pc[c] = "first"
        /\ lock[l] = None
        /\ lock' = [lock EXCEPT ![l] = c]
        /\ pc' = [pc EXCEPT ![c] = "look"]
        /\ UNCHANGED <<offer, metadata, call>>

LockFirst(c) ==
    LET l == FirstLock(call[c].op)
    IN  /\ pc[c] = "first"
        /\ lock[l] = None
        /\ lock' = [lock EXCEPT ![l] = c]
        /\ pc' = [pc EXCEPT ![c] = IF SecondLock(call[c].op) = None THEN "look" ELSE "second"]
        /\ UNCHANGED <<offer, metadata, call>>

LockSecond(c) ==
    LET l == SecondLock(call[c].op)
    IN  /\ pc[c] = "second"
        /\ lock[l] = None
        /\ lock' = [lock EXCEPT ![l] = c]
        /\ pc' = [pc EXCEPT ![c] = "look"]
        /\ UNCHANGED <<offer, metadata, call>>

\* The guards go out of scope.
Release(c) ==
    /\ lock' = [l \in Locks |-> IF lock[l] = c THEN None ELSE lock[l]]
    /\ pc' = [pc EXCEPT ![c] = "idle"]

\* Mutant: delete_metadata does not look for offers that refer to it.
Proceeds_unreferenced(c) ==
    CASE call[c].op = "post_offer" -> MetadataKey(c) \in metadata /\ offer[OfferKey(c)] = None
      [] call[c].op = "put_offer" -> MetadataKey(c) \in metadata
      [] call[c].op = "delete_offer" -> offer[OfferKey(c)] # None
      [] OTHER -> call[c].op \in {"post_metadata", "put_metadata", "delete_metadata"}

\* Whether the operation goes on to change a map, or returns what it saw.
Proceeds(c) ==
    CASE call[c].op = "post_offer" -> MetadataKey(c) \in metadata /\ offer[OfferKey(c)] = None
      [] call[c].op = "put_offer" -> MetadataKey(c) \in metadata
      [] call[c].op = "delete_offer" -> offer[OfferKey(c)] # None
      [] call[c].op = "post_metadata" -> MetadataKey(c) \notin metadata
      [] call[c].op = "put_metadata" -> TRUE
      [] call[c].op = "delete_metadata" ->
             \A id \in Ids : offer[<<call[c].partition, id>>] # call[c].metadata_id
      [] OTHER -> FALSE

LookAndGoOn(c) ==
    /\ pc[c] = "look"
    /\ Proceeds(c)
    /\ pc' = [pc EXCEPT ![c] = "write"]
    /\ UNCHANGED <<offer, metadata, lock, call>>

LookAndReturn(c) ==
    /\ pc[c] = "look"
    /\ ~Proceeds(c)
    /\ Release(c)
    /\ UNCHANGED <<offer, metadata, call>>

WriteOffer(c) ==
    /\ pc[c] = "write"
    /\ \/ /\ call[c].op \in {"post_offer", "put_offer"}
          /\ offer' = [offer EXCEPT ![OfferKey(c)] = call[c].metadata_id]
       \/ /\ call[c].op = "delete_offer"
          /\ offer' = [offer EXCEPT ![OfferKey(c)] = None]
    /\ Release(c)
    /\ UNCHANGED <<metadata, call>>

WriteMetadata(c) ==
    /\ pc[c] = "write"
    /\ \/ /\ call[c].op \in {"post_metadata", "put_metadata"}
          /\ metadata' = metadata \cup {MetadataKey(c)}
       \/ /\ call[c].op = "delete_metadata"
          /\ metadata' = metadata \ {MetadataKey(c)}
    /\ Release(c)
    /\ UNCHANGED <<offer, call>>

\* The HTTP caller hangs up while its handler waits for a lock.
Drop(c) ==
    /\ pc[c] \in {"first", "second"}
    /\ Release(c)
    /\ UNCHANGED <<offer, metadata, call>>

Step(c) ==
    \/ LockFirst(c) \/ LockSecond(c) \/ LookAndGoOn(c) \/ LookAndReturn(c)
    \/ WriteOffer(c) \/ WriteMetadata(c)

Next == \E c \in Callers : Begin(c) \/ Step(c) \/ Drop(c)

Spec == Init /\ [][Next]_vars

\* Handlers run, and tokio's mutex is fair: a lock that is free again and
\* again is handed to each waiter in turn.
FairSpec ==
    /\ Spec
    /\ \A c \in Callers :
           /\ WF_vars(Step(c))
           /\ SF_vars(LockFirst(c))
           /\ SF_vars(LockSecond(c))

-----------------------------------------------------------------------------
\* Every stored offer refers to metadata stored in its own partition, whatever
\* posts, puts and deletes overlap: an LNURL lookup (get_offer, not sparse)
\* finds the metadata of any offer it finds (post_offer and put_offer's check
\* against delete_metadata's).
OffersHaveMetadata ==
    \A p \in Partitions, id \in Ids :
        offer[<<p, id>>] # None => <<p, offer[<<p, id>>]>> \in metadata

\* An operation past its locks holds every lock it needs until it returns.
HoldsLocks ==
    \A c \in Callers :
        /\ pc[c] \in {"second", "look", "write"} => lock[FirstLock(call[c].op)] = c
        /\ pc[c] \in {"look", "write"} /\ SecondLock(call[c].op) # None
               => lock[SecondLock(call[c].op)] = c

\* What an operation saw is still so when it writes.
StillProceeds == \A c \in Callers : pc[c] = "write" => Proceeds(c)

\* The contract of the traits: each operation takes effect at one moment, with
\* the reference between offer and metadata checked at that same moment.
Catalog == INSTANCE OfferCatalog WITH
    Partitions <- Partitions, Ids <- Ids, MetadataIds <- MetadataIds, None <- None,
    offer <- offer, metadata <- metadata

\* The two maps behind two locks implement that contract, although an operation
\* looks, decides and writes in separate steps beside others (memory.rs).
ImplementsCatalog == Catalog!Spec

\* Every operation that is not abandoned by its caller returns.
CallsReturn == \A c \in Callers : pc[c] = "first" ~> pc[c] = "idle"

=============================================================================
