---------------------------- MODULE ResultDelivery ----------------------------
(***************************************************************************)
(* What the pipeline promises to whoever looks at the counter and at the   *)
(* report of a run.  The results of all runs are in one log.  They are     *)
(* counted in the order of the log, each at most once and for its own run, *)
(* and only a failure passes over one.  The report of a run is written     *)
(* once, from results that have been counted.                              *)
(*                                                                         *)
(* There is no consumer here, no delivery, no acknowledgement and no       *)
(* restart: these are how EventPipeline keeps the promise.                 *)
(***************************************************************************)
EXTENDS Integers, Sequences

CONSTANTS
    Runs,
    NoReport   \* the value of a report that does not exist

VARIABLES
    log,       \* the entries, of which some are the result of a run
    taken,     \* how far the log has been counted or passed over
    score,     \* the number of results counted for each run
    report,    \* the number of results in the report of each run
    failures   \* how many things have failed

vars == <<log, taken, score, report, failures>>

IsResult(id) == log[id].type = "question_completed"

Init ==
    /\ log = <<>>
    /\ taken = 0
    /\ score = [r \in Runs |-> 0]
    /\ report = [r \in Runs |-> NoReport]
    /\ failures = 0

\* Entries are appended, whatever fails on the way.
Publish ==
    /\ Len(log') >= Len(log)
    /\ \A id \in 1..Len(log) : log'[id] = log[id]
    /\ failures' >= failures
    /\ UNCHANGED <<taken, score, report>>

Count ==
    /\ taken < Len(log)
    /\ taken' = taken + 1
    /\ IsResult(taken')
    /\ score' = [score EXCEPT ![log[taken'].run] = @ + 1]
    /\ UNCHANGED <<log, report, failures>>

\* An entry that is not a result counts for nothing.
Skip ==
    /\ taken < Len(log)
    /\ taken' = taken + 1
    /\ ~IsResult(taken')
    /\ UNCHANGED <<log, score, report, failures>>

\* A failure may take the entries that come next with it.
Fail ==
    /\ failures' > failures
    /\ taken' \in taken..Len(log)
    /\ UNCHANGED <<log, score, report>>

WriteReport(r) ==
    /\ report[r] = NoReport
    /\ \E results \in 0..score[r] : report' = [report EXCEPT ![r] = results]
    /\ UNCHANGED <<log, taken, score, failures>>

Next == Publish \/ Count \/ Skip \/ Fail \/ \E r \in Runs : WriteReport(r)

Spec == Init /\ [][Next]_vars

=============================================================================
