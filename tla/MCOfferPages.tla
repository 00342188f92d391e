--------------------------- MODULE MCOfferPages ---------------------------
(* Nothing tells one writer, or one offer id, from another: ids matter to  *)
(* the order only among records of the same time, of which there are none. *)
EXTENDS OfferPages

Symmetry == Permutations(Callers) \cup Permutations(Ids)

=============================================================================
