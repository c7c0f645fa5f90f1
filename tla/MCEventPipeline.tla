--------------------------- MODULE MCEventPipeline ---------------------------
(* EventPipeline with the symmetries of its constants, for TLC. *)
EXTENDS EventPipeline, TLC

Symmetry == Permutations(Runs) \cup Permutations(Questions) \cup Permutations(Readers)

=============================================================================
