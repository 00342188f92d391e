------------------------- MODULE DiscoveryBackends -------------------------
(***************************************************************************)
(* The data of the discovery service (service-api/src/discovery.rs): one   *)
(* row per Lightning node, keyed by the node's public key, and the patch   *)
(* that changes some columns of a row.  The name and the implementation    *)
(* columns are opaque to every component modelled here (no guard reads     *)
(* them) and are left out; a put that changes only them is a put of the    *)
(* same row.                                                               *)
(***************************************************************************)
EXTENDS Naturals

CONSTANTS
    Nodes,       \* public keys
    Partitions,  \* partition names
    Weights,     \* load-balancing weights
    None         \* absence of a row, of a column in a patch, of a value

DiscoveryBackendSparse ==
    [partitions : SUBSET Partitions, weight : Weights, enabled : BOOLEAN]

DiscoveryBackendPatchSparse ==
    [partitions : (SUBSET Partitions) \cup {None},
     weight : Weights \cup {None},
     enabled : BOOLEAN \cup {None}]

ASSUME NoneAssumption ==
    /\ \A row \in DiscoveryBackendSparse : row # None
    /\ \A ps \in SUBSET Partitions : ps # None
    /\ \A b \in BOOLEAN : b # None
    /\ None \notin Weights

\* The whole backend list: None where no row is stored for the node.
BackendList == [Nodes -> DiscoveryBackendSparse \cup {None}]

ASSUME NoneIsNoList == None \notin BackendList

EmptyList == [n \in Nodes |-> None]

\* Mutant: the weight is overwritten with nothing when the patch does not name it.
ApplyPatch_absent_weight(row, patch) ==
    [partitions |-> IF patch.partitions = None THEN row.partitions ELSE patch.partitions,
     weight     |-> patch.weight,
     enabled    |-> IF patch.enabled = None THEN row.enabled ELSE patch.enabled]

\* Every column the patch names is replaced, the others are kept.
ApplyPatch(row, patch) ==
    [partitions |-> IF patch.partitions = None THEN row.partitions ELSE patch.partitions,
     weight     |-> IF patch.weight = None THEN row.weight ELSE patch.weight,
     enabled    |-> IF patch.enabled = None THEN row.enabled ELSE patch.enabled]

=============================================================================
