--------------------------- MODULE MCRunReporting ---------------------------
(* RunReporting with the symmetry of its questions, for TLC. *)
EXTENDS RunReporting

Symmetry == Permutations(Questions)

=============================================================================
