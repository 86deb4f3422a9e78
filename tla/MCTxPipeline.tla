---------------------------- MODULE MCTxPipeline ----------------------------
(***************************************************************************)
(* TxPipeline for TLC: the slots of the semaphore are interchangeable, and *)
(* so are the hashes; clients are told apart by nothing either.  Symmetry  *)
(* is used for safety only.                                                *)
(***************************************************************************)
EXTENDS TxPipeline

Symmetry ==
  Permutations(Clients) \cup Permutations(Hashes) \cup Permutations(Workers)

=============================================================================
