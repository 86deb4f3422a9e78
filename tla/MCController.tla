---------------------------- MODULE MCController ----------------------------
(* Controller for TLC: clients and requests are interchangeable.           *)
EXTENDS Controller, TLC

Symmetry == Permutations(Clients) \cup Permutations(Requests)

=============================================================================
