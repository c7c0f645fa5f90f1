-------------------------- MODULE MCFixedScheduler --------------------------
(* FixedScheduler on small instances. *)
EXTENDS FixedScheduler, TLC

Symmetry == Permutations(Questions)

=============================================================================
