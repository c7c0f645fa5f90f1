---------------------------- MODULE MCServedRun ----------------------------
(* ServedRun with the symmetries of its constants, for TLC. *)
EXTENDS ServedRun, TLC

Symmetry == Permutations(Questions) \cup Permutations(Requests)

=============================================================================
