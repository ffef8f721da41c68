----------------------------- MODULE MCRecovery -----------------------------
(* Recovery for a preview with a few builds of two commits.                  *)
EXTENDS Recovery, TLC

Symmetry == Permutations(Commits)
=============================================================================
