----------------------------- MODULE MCDelivery -----------------------------
(* Instances of Delivery for TLC. *)
EXTENDS DeliveryInvariant, TLC

\* Every third observation is a skipped payload; two inventory tables.
MCKind == [s \in 1 .. MaxSequence |-> s % 3]

Symmetry == Permutations(Chan) \cup Permutations(Clusters)
=============================================================================
