---------------------------- MODULE MCLnUrlPay ----------------------------
(* The offers submitted in the runs of LnUrlPay: with and without an       *)
(* expiry, one that starts later, and with different limits.               *)
EXTENDS LnUrlPay, TLC

Sample(min, max, timestamp, expires) ==
    {[min_sendable |-> min, max_sendable |-> max, metadata_id |-> m,
      timestamp |-> timestamp, expires |-> expires] : m \in MetadataIds}

SubmittedOffers ==
    Sample(1, 2, 0, None) \cup Sample(1, 1, 0, 1) \cup Sample(1, 2, 0, 0)
        \cup Sample(1, 2, 1, 1)

Symmetry == Permutations(Callers) \cup Permutations(Texts)

=============================================================================
