-------------------------- MODULE MCContentStore --------------------------
(* ContentStore for TLC: requests, plaintexts and keys are interchangeable. *)
EXTENDS ContentStore, TLC

Symmetry ==
  Permutations(Publishers) \cup Permutations(Inners) \cup Permutations(Keys)
============================================================================
