--------------------------- MODULE QuestionLedger ---------------------------
(***************************************************************************)
(* What every scheduler promises for the questions of one run, whatever    *)
(* its concurrency policy: an attempt at a question starts only when none  *)
(* is under way, there are at most max_retries + 1 of them, a question     *)
(* fails only after the last one, it is settled once, and its result is    *)
(* announced (published as a QuestionCompleted event) once, after it is    *)
(* settled.  A run finishes only with every question announced; it may     *)
(* abort at any time when an exception escapes run_questions.              *)
(*                                                                         *)
(* Not a component of the code: the schedulers are shown to implement it.  *)
(***************************************************************************)
EXTENDS Integers

CONSTANTS Questions, MaxRetries

VARIABLES
    attempts,   \* requests dispatched for each question
    status,     \* "open", "trying", "success" or "failed"
    announced,  \* number of events published for each question
    closed      \* "no", "finished" or "aborted"

ledger == <<attempts, status, announced, closed>>

Init ==
    /\ attempts = [q \in Questions |-> 0]
    /\ status = [q \in Questions |-> "open"]
    /\ announced = [q \in Questions |-> 0]
    /\ closed = "no"

Try(q) ==
    /\ status[q] = "open"
    /\ attempts[q] <= MaxRetries
    /\ attempts' = [attempts EXCEPT ![q] = @ + 1]
    /\ status' = [status EXCEPT ![q] = "trying"]
    /\ UNCHANGED <<announced, closed>>

\* The attempt failed and the question has retries left.
GiveBack(q) ==
    /\ status[q] = "trying"
    /\ attempts[q] <= MaxRetries
    /\ status' = [status EXCEPT ![q] = "open"]
    /\ UNCHANGED <<attempts, announced, closed>>

Settle(q) ==
    /\ status[q] = "trying"
    /\ \/ status' = [status EXCEPT ![q] = "success"]
       \/ /\ attempts[q] = MaxRetries + 1
          /\ status' = [status EXCEPT ![q] = "failed"]
    /\ UNCHANGED <<attempts, announced, closed>>

Announce(q) ==
    /\ status[q] \in {"success", "failed"}
    /\ announced[q] = 0
    /\ announced' = [announced EXCEPT ![q] = 1]
    /\ closed' \in {closed, "aborted"}    \* the event landed, its reply did not
    /\ UNCHANGED <<attempts, status>>

Finish ==
    /\ closed = "no"
    /\ \A q \in Questions : announced[q] = 1
    /\ closed' = "finished"
    /\ UNCHANGED <<attempts, status, announced>>

Abort ==
    /\ closed = "no"
    /\ closed' = "aborted"
    /\ UNCHANGED <<attempts, status, announced>>

Next ==
    \/ \E q \in Questions : Try(q) \/ GiveBack(q) \/ Settle(q) \/ Announce(q)
    \/ Finish
    \/ Abort

Spec == Init /\ [][Next]_ledger

=============================================================================
