--------------------------- MODULE MCAimdScheduler ---------------------------
(* AimdScheduler on small instances. *)
EXTENDS AimdScheduler, TLC

\* Sound for RunEnds too: neither it nor the fairness of Next names a question, so a
\* run that goes on for ever still does when its questions are renamed.
Symmetry == Permutations(Questions)

=============================================================================
