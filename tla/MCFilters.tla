----------------------------- MODULE MCFilters -----------------------------
(* Filters for TLC: transactions and goroutines are interchangeable.       *)
EXTENDS Filters, TLC

Symmetry == Permutations(Hashes) \cup Permutations(Workers)

=============================================================================
