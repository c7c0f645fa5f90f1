--------------------------- MODULE FixedScheduler ---------------------------
(***************************************************************************)
(* One run of FixedConcurrencyScheduler.run_questions                      *)
(* (fixed/scheduler.py): one task per question, which goes through all the *)
(* attempts of its question under a semaphore, and a main coroutine that   *)
(* collects the results as tasks complete and publishes them.              *)
(*                                                                         *)
(* As in AimdScheduler a step is a stretch of code between two suspensions *)
(* of the event loop and time is abstract.  The main coroutine is always   *)
(* suspended when a task runs, in as_completed or in the publication.      *)
(***************************************************************************)
EXTENDS Integers, Sequences, FiniteSets

CONSTANTS
    Questions,       \* the questions of the run
    MaxConcurrency,  \* max_concurrency
    MaxRetries,      \* max_retries
    Faults           \* which exceptions may escape, of {"raised", "publish"}

\* What __post_init__ of the configuration enforces.
ASSUME FixedConfig ==
    /\ IsFiniteSet(Questions)
    /\ MaxConcurrency \in Nat \ {0}
    /\ MaxRetries \in Nat
    /\ Faults \subseteq {"raised", "publish"}

VARIABLES
    main,       \* where run_questions is
    task,       \* the task of each question
    permits,    \* the value of the semaphore
    waiters,    \* tasks waiting for the semaphore, in order
    paused,     \* pause_until is in the future
    results,    \* the list run_questions returns
    published   \* QuestionCompleted events in the stream, per question

vars == <<main, task, permits, waiters, paused, results, published>>

MaxAttempts == MaxRetries + 1

\* created:   the coroutine has not run yet
\* pausing:   asleep in the first respect_global_pause
\* waiting:   waiting for the semaphore
\* holding:   asleep in the second respect_global_pause, holding a permit
\* in_flight: the HTTP request is under way, holding a permit
\* backoff:   asleep after a client error
\* success, failed, raised: the task is done
Stages == {"created", "pausing", "waiting", "holding", "in_flight", "backoff",
           "success", "failed", "raised"}

\* A result, a 429, an InferenceClientError, or any other exception.
Outcomes == {"success", "rate_limited", "client_error", "raised"}

TasksStarted == \A q \in Questions : task[q].stage # "created"

Init ==
    /\ main = "waiting"
    /\ task = [q \in Questions |-> [stage |-> "created", attempt |-> 1]]
    /\ permits = MaxConcurrency
    /\ waiters = <<>>
    /\ paused = FALSE
    /\ results = <<>>
    /\ published = [q \in Questions |-> 0]

-----------------------------------------------------------------------------
(* The tasks: _run_one_question. *)

At(q, stage, attempt) ==
    task' = [task EXCEPT ![q] = [stage |-> stage, attempt |-> attempt]]

TaskUnchanged == UNCHANGED <<main, results, published>>

\* An iteration of the loop over the attempts, up to its first suspension: in
\* the pause, in the request, or on the semaphore.  A permit that is free is
\* taken in the same stretch as the first look at the pause, so that the second
\* look cannot find one.
BeginAttempt(q, attempt) ==
    /\ \/ /\ paused
          /\ At(q, "pausing", attempt)
          /\ UNCHANGED <<permits, waiters>>
       \/ /\ ~paused
          /\ permits > 0 /\ waiters = <<>>
          /\ permits' = permits - 1
          /\ At(q, "in_flight", attempt)
          /\ UNCHANGED waiters
       \/ /\ ~paused
          /\ permits = 0 \/ waiters # <<>>
          /\ waiters' = Append(waiters, q)
          /\ At(q, "waiting", attempt)
          /\ UNCHANGED permits
    /\ UNCHANGED paused
    /\ TaskUnchanged

Start(q) ==
    /\ task[q].stage = "created"
    /\ BeginAttempt(q, 1)

PauseEnds(q) ==
    /\ ~paused
    /\ task[q].stage = "pausing"
    /\ BeginAttempt(q, task[q].attempt)

\* The attempt is not counted.
FaultyBackoffEnds(q) ==
    /\ task[q].stage = "backoff"
    /\ BeginAttempt(q, task[q].attempt)

BackoffEnds(q) ==
    /\ task[q].stage = "backoff"
    /\ BeginAttempt(q, task[q].attempt + 1)

\* The second look at the pause is missing.
FaultyStageAfterGrant == "in_flight"

StageAfterGrant == IF paused THEN "holding" ELSE "in_flight"

\* The first waiter is given a permit and looks at the pause again.
Granted(q) ==
    /\ permits > 0 /\ waiters # <<>>
    /\ q = Head(waiters)
    /\ permits' = permits - 1
    /\ waiters' = Tail(waiters)
    /\ At(q, StageAfterGrant, task[q].attempt)
    /\ UNCHANGED paused
    /\ TaskUnchanged

HeldPauseEnds(q) ==
    /\ ~paused
    /\ task[q].stage = "holding"
    /\ At(q, "in_flight", task[q].attempt)
    /\ UNCHANGED <<permits, waiters, paused>>
    /\ TaskUnchanged

\* The permit of an attempt without a result is kept, or is released twice.
FaultyRelease(outcome) ==
    permits' = IF outcome = "success" THEN permits + 1 ELSE permits
FaultyReleaseTwice(outcome) ==
    permits' = IF outcome = "success" THEN permits + 1 ELSE permits + 2

\* The end of `async with semaphore', whatever the outcome.
Release(outcome) == permits' = permits + 1

\* The last retry is missing.
FaultyIsLastEarly(attempt) == attempt >= MaxRetries

IsLast(attempt) == attempt >= MaxAttempts

\* The request ends.  A result or an unexpected exception ends the task, and so
\* does any error of the last attempt, before the pause is set.  A 429 sets the
\* global pause, and the next attempt begins by waiting for its end; another
\* error sleeps.
Reply(q, outcome) ==
    LET attempt == task[q].attempt IN
    /\ TasksStarted
    /\ task[q].stage = "in_flight"
    /\ outcome = "raised" => "raised" \in Faults
    /\ Release(outcome)
    /\ \/ /\ outcome \in {"success", "raised"}
          /\ At(q, outcome, attempt)
          /\ UNCHANGED paused
       \/ /\ outcome \in {"rate_limited", "client_error"} /\ IsLast(attempt)
          /\ At(q, "failed", attempt)
          /\ UNCHANGED paused
       \/ /\ outcome = "rate_limited" /\ ~IsLast(attempt)
          /\ paused' = TRUE
          /\ At(q, "pausing", attempt + 1)
       \/ /\ outcome = "client_error" /\ ~IsLast(attempt)
          /\ At(q, "backoff", attempt)
          /\ UNCHANGED paused
    /\ UNCHANGED waiters
    /\ TaskUnchanged

TaskStep(q) ==
    \/ Start(q)
    \/ PauseEnds(q)
    \/ BackoffEnds(q)
    \/ Granted(q)
    \/ HeldPauseEnds(q)
    \/ \E outcome \in Outcomes : Reply(q, outcome)

-----------------------------------------------------------------------------
(* The main coroutine: run_questions. *)

MainUnchanged == UNCHANGED <<permits, waiters, paused>>

Recorded(q) == \E i \in DOMAIN results : results[i].question = q

\* as_completed yields a task with a result: append it, record the completion,
\* and suspend in its publication.
Collect(q) ==
    /\ main = "waiting"
    /\ task[q].stage \in {"success", "failed"} /\ ~Recorded(q)
    /\ results' = Append(results, [question |-> q, status |-> task[q].stage,
                                   attempts |-> task[q].attempt])
    /\ main' = "publishing"
    /\ UNCHANGED <<task, published>>
    /\ MainUnchanged

\* as_completed yields a task that raised: the exception leaves run_questions
\* and the other tasks are orphaned.
CollectException(q) ==
    /\ main = "waiting"
    /\ task[q].stage = "raised"
    /\ main' = "crashed"
    /\ UNCHANGED <<task, results, published>>
    /\ MainUnchanged

\* The event published is the one of the last result.
Announced == [published EXCEPT ![results[Len(results)].question] = @ + 1]

Publish ==
    /\ main = "publishing"
    /\ published' = Announced
    /\ main' = "waiting"
    /\ UNCHANGED <<task, results>>
    /\ MainUnchanged

\* XADD raises, whether or not the event reached the stream.
PublishFails ==
    /\ "publish" \in Faults
    /\ main = "publishing"
    /\ published' \in {published, Announced}
    /\ main' = "crashed"
    /\ UNCHANGED <<task, results>>
    /\ MainUnchanged

AllCollected == \A q \in Questions : Recorded(q)

FinishRun ==
    /\ main = "waiting"
    /\ AllCollected
    /\ main' = "finished"
    /\ UNCHANGED <<task, results, published>>
    /\ MainUnchanged

MainStep ==
    \/ \E q \in Questions : Collect(q) \/ CollectException(q)
    \/ Publish
    \/ PublishFails
    \/ FinishRun

\* Time: pause_until passes.
PauseElapses ==
    /\ paused
    /\ paused' = FALSE
    /\ UNCHANGED <<main, task, permits, waiters, results, published>>

Stopped == main \in {"finished", "crashed"} /\ UNCHANGED vars

Next ==
    \/ \E q \in Questions : TaskStep(q)
    \/ MainStep
    \/ PauseElapses
    \/ Stopped

Spec == Init /\ [][Next]_vars

\* The event loop runs every ready coroutine; a request ends at the latest by
\* its timeout; Redis answers or fails; sleeps end.
Fairness ==
    /\ \A q \in Questions : WF_vars(TaskStep(q))
    /\ WF_vars(MainStep)
    /\ WF_vars(PauseElapses)

FairSpec == Spec /\ Fairness

-----------------------------------------------------------------------------

InFlight == {q \in Questions : task[q].stage = "in_flight"}

\* Every variable keeps its type; the attempt number never passes the maximum.
TypeOK ==
    /\ main \in {"waiting", "publishing", "finished", "crashed"}
    /\ task \in [Questions -> [stage : Stages, attempt : 1..MaxAttempts]]
    /\ permits \in 0..MaxConcurrency
    /\ waiters \in Seq(Questions)
    /\ paused \in BOOLEAN
    /\ results \in Seq([question : Questions, status : {"success", "failed"},
                        attempts : 1..MaxAttempts])
    /\ published \in [Questions -> Nat]

\* No permit is lost or forged, whichever way attempts end: the ones that are
\* not free are held by the attempts in flight or in their second pause.
PermitsConserved ==
    permits + Cardinality({q \in Questions : task[q].stage \in {"in_flight", "holding"}})
        = MaxConcurrency

\* "Sets a global pause for the scheduler, preventing further question
\* dispatches until the specified retry_after_sec has elapsed"
\* (application/runtime.py, set_global_pause): it does, for this scheduler,
\* because the pause is looked at again once the permit is held.
NoDispatchDuringPause ==
    [][ \A q \in Questions :
          task[q].stage # "in_flight" /\ task'[q].stage = "in_flight" => ~paused ]_vars

\* Every run ends: no permit is waited for forever.
RunEnds == <>(main \in {"finished", "crashed"})

-----------------------------------------------------------------------------
(* Refinement of the ledger. *)

LedgerStatus(q) ==
    CASE task[q].stage \in {"in_flight", "raised"} -> "trying"
      [] task[q].stage \in {"success", "failed"}   -> task[q].stage
      [] OTHER                                     -> "open"

\* An attempt counts from its dispatch.
LedgerAttempts(q) ==
    IF task[q].stage \in {"created", "pausing", "waiting", "holding"}
    THEN task[q].attempt - 1
    ELSE task[q].attempt

Ledger == INSTANCE QuestionLedger WITH
    attempts <- [q \in Questions |-> LedgerAttempts(q)],
    status <- [q \in Questions |-> LedgerStatus(q)],
    announced <- published,
    closed <- CASE main = "finished" -> "finished"
                [] main = "crashed" -> "aborted"
                [] OTHER -> "no"

\* The scheduler keeps the promises of QuestionLedger.
ImplementsLedger == Ledger!Spec

=============================================================================
