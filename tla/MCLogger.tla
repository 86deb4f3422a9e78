------------------------------ MODULE MCLogger ------------------------------
(* Logger for TLC: derived loggers, calls and free maps are interchangeable. *)
EXTENDS Logger, TLC

Symmetry ==
  Permutations(Derived) \cup Permutations(Calls) \cup Permutations(Maps \ {RootMap})

=============================================================================
