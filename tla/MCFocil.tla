------------------------------ MODULE MCFocil ------------------------------
(* Focil for TLC: beacon nodes, clients and transactions are interchangeable. *)
EXTENDS Focil, TLC

Symmetry ==
  Permutations(Beacons) \cup Permutations(Endpoints) \cup Permutations(Txs)

=============================================================================
