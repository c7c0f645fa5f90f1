--------------------------- MODULE MCLaunchPacing ---------------------------
(* LaunchPacing with the symmetry of its questions, for TLC. *)
EXTENDS LaunchPacing, TLC

Symmetry == Permutations(Questions)

=============================================================================
