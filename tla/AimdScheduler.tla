---------------------------- MODULE AimdScheduler ----------------------------
(***************************************************************************)
(* One run of AdaptiveAimdScheduler.run_questions (aimd/scheduler.py) with *)
(* the parts of SchedulerRuntime and SchedulerMetrics it uses.             *)
(*                                                                         *)
(* Everything runs on one asyncio event loop, so a step of the model is a  *)
(* stretch of code between two suspensions: the main coroutine suspends in *)
(* asyncio.wait, asyncio.sleep and the publication of a result, a task in  *)
(* the pause, on launch_lock, in the pacing sleep and in the HTTP request. *)
(* pause_lock and the lock of the metrics are never held across a          *)
(* suspension, so acquiring them does not suspend.                         *)
(*                                                                         *)
(* Time is abstract: a pause, a retry delay and a pacing sleep end at any  *)
(* moment.                                                                 *)
(***************************************************************************)
EXTENDS AimdController, Sequences, FiniteSets

CONSTANTS
    Questions,     \* the questions of the run
    MaxRetries,    \* max_retries
    Faults,        \* which exceptions may escape, of {"raised", "publish"}
    AgeingAt       \* bound: the values of loop at which a launch may become a
                   \* minute old

ASSUME RunConfig ==
    /\ IsFiniteSet(Questions)
    /\ MaxRetries \in Nat
    /\ Faults \subseteq {"raised", "publish"}

VARIABLES
    loop,            \* where run_questions is
    pending,         \* the deque: (question, attempt) pairs ready to launch
    delayed,         \* DelayedRetries: pairs waiting for their delay to elapse
    active,          \* the set of tasks given to asyncio.wait
    handling,        \* "done" tasks of the last asyncio.wait not yet handled
    task,            \* the task of each question, if it has one
    launch_queue,    \* launch_lock: its holder, then its waiters in order
    spaced,          \* last_launch_at is at least launch_interval_sec ago
    paused,          \* pause_until is in the future
    launches,        \* launch_timestamps: launches of the last minute
    http_in_flight,  \* the metric of the same name
    results,         \* the list run_questions returns
    published        \* QuestionCompleted events in the stream, per question

vars == <<controller, loop, pending, delayed, active, handling, task,
          launch_queue, spaced, paused, launches, http_in_flight, results,
          published>>

Attempts == 1..(MaxRetries + 1)

\* created:  the coroutine has not run yet
\* pausing:  asleep in respect_global_pause
\* queued:   waiting for launch_lock
\* pacing:   asleep in _wait_launch_slot, holding launch_lock
\* in_flight, done: the HTTP request is under way, the task has its outcome
\* publishing: its result is being published by the main coroutine
Stages == {"none", "created", "pausing", "queued", "pacing",
           "in_flight", "done", "publishing"}

\* The outcome of an attempt: a result, a 429 with its reason, an
\* InferenceClientError, or any other exception.
Outcomes == {"success", "client_error", "raised"} \cup Reasons

NoTask == [stage |-> "none", attempt |-> 0, outcome |-> "none",
           observed_in_flight |-> 0, observed_launch_rpm |-> 0]

\* The main coroutine is suspended, so that tasks can run.
Suspended ==
    loop \in {"waiting", "sleeping", "publishing", "finished", "crashed"}

\* Callbacks that are ready run before the event loop polls again: a new task
\* takes its first step before asyncio.wait returns.
TasksStarted == \A q \in Questions : task[q].stage # "created"

Init ==
    /\ CtlInit
    /\ loop = "running"
    /\ pending \in [1..Cardinality(Questions) ->
                        [question : Questions, attempt : {1}]]
    /\ \A q \in Questions : \E i \in DOMAIN pending : pending[i].question = q
    /\ delayed = {}
    /\ active = {}
    /\ handling = {}
    /\ task = [q \in Questions |-> NoTask]
    /\ launch_queue = <<>>
    /\ spaced = TRUE
    /\ paused = FALSE
    /\ launches = 0
    /\ http_in_flight = 0
    /\ results = <<>>
    /\ published = [q \in Questions |-> 0]

-----------------------------------------------------------------------------
(* The tasks: _run_one_attempt. *)

\* The two observations are exchanged.
FaultyDispatch(q) ==
    /\ spaced' = (controller.interval = 0)
    /\ launches' = launches + 1
    /\ http_in_flight' = http_in_flight + 1
    /\ task' = [task EXCEPT ![q].stage = "in_flight",
                            ![q].observed_launch_rpm = http_in_flight + 1,
                            ![q].observed_in_flight = launches + 1]

\* The end of _wait_launch_slot and the start of execute_attempt, up to the
\* suspension in the HTTP request.
Dispatch(q) ==
    /\ spaced' = (controller.interval = 0)
    /\ launches' = launches + 1
    /\ http_in_flight' = http_in_flight + 1
    /\ task' = [task EXCEPT ![q].stage = "in_flight",
                            ![q].observed_launch_rpm = launches + 1,
                            ![q].observed_in_flight = http_in_flight + 1]

\* launch_lock is taken: sleep for what is left of the interval, if anything,
\* and launch.  (Under an interval that grew since the last launch, `spaced' no
\* longer tells that nothing is left.)
EnterSlot(q, queue) ==
    \/ /\ controller.interval > 0
       /\ launch_queue' = queue
       /\ task' = [task EXCEPT ![q].stage = "pacing"]
       /\ UNCHANGED <<spaced, launches, http_in_flight>>
    \/ /\ spaced
       /\ launch_queue' = Tail(queue)
       /\ Dispatch(q)

TaskUnchanged ==
    UNCHANGED <<controller, loop, pending, delayed, active, handling, paused,
                results, published>>

\* The first step of a task that finds the scheduler paused.
StartPaused(q) ==
    /\ Suspended
    /\ task[q].stage = "created"
    /\ paused
    /\ task' = [task EXCEPT ![q].stage = "pausing"]
    /\ UNCHANGED <<launch_queue, spaced, launches, http_in_flight>>
    /\ TaskUnchanged

\* No pause (or no longer): the task takes launch_lock or queues for it.
TakeSlot(q) ==
    /\ Suspended
    /\ task[q].stage \in {"created", "pausing"}
    /\ ~paused
    /\ IF launch_queue = <<>>
       THEN EnterSlot(q, <<q>>)
       ELSE /\ launch_queue' = Append(launch_queue, q)
            /\ task' = [task EXCEPT ![q].stage = "queued"]
            /\ UNCHANGED <<spaced, launches, http_in_flight>>
    /\ TaskUnchanged

\* The lock was released and this task is the first waiter.
SlotGranted(q) ==
    /\ Suspended
    /\ task[q].stage = "queued"
    /\ Head(launch_queue) = q
    /\ EnterSlot(q, launch_queue)
    /\ TaskUnchanged

\* The pacing sleep is over; the pause is not looked at again.
PacingEnds(q) ==
    /\ Suspended
    /\ task[q].stage = "pacing"
    /\ launch_queue' = Tail(launch_queue)
    /\ Dispatch(q)
    /\ TaskUnchanged

\* Called after the successful return only.
FaultyRequestEnds(outcome) ==
    http_in_flight' = IF outcome = "success" THEN AtLeast(0, http_in_flight - 1)
                                             ELSE http_in_flight

\* inflight_end, in a finally clause.
RequestEnds(outcome) == http_in_flight' = AtLeast(0, http_in_flight - 1)

\* The request ends, one way or another.
Reply(q, outcome) ==
    /\ Suspended
    /\ task[q].stage = "in_flight"
    /\ outcome = "raised" => "raised" \in Faults
    /\ RequestEnds(outcome)
    /\ task' = [task EXCEPT ![q].stage = "done", ![q].outcome = outcome]
    /\ UNCHANGED <<launch_queue, spaced, launches>>
    /\ TaskUnchanged

TaskStep(q) ==
    \/ StartPaused(q)
    \/ TakeSlot(q)
    \/ SlotGranted(q)
    \/ PacingEnds(q)
    \/ \E outcome \in Outcomes : Reply(q, outcome)

-----------------------------------------------------------------------------
(* The main coroutine: run_questions. *)

\* The whole list is cleared.
FaultyMoveReadyTo(moved) ==
    LET ready == {item \in delayed : item.due}
    IN  /\ \A item \in ready : \E i \in DOMAIN moved : moved[i] = item
        /\ \A i, j \in DOMAIN moved : moved[i] = moved[j] => i = j
        /\ delayed' = {}

\* move_ready_to appends the retries that are due in the order in which they
\* were scheduled; `moved' is that order, which the model does not keep.
MoveReadyTo(moved) ==
    LET ready == {item \in delayed : item.due}
    IN  /\ \A item \in ready : \E i \in DOMAIN moved : moved[i] = item
        /\ \A i, j \in DOMAIN moved : moved[i] = moved[j] => i = j
        /\ delayed' = delayed \ ready

\* The tasks already active are not counted.
FaultyFreeSlots == controller.target

FreeSlots == AtLeast(0, controller.target - Cardinality(active))

\* _launch_available: a task for each of the first pairs of the deque, as long
\* as fewer than the target are active.
LaunchAvailable(deque) ==
    LET n == AtMost(Len(deque), FreeSlots)
        first == {deque[i] : i \in 1..n}
    IN  /\ pending' = SubSeq(deque, n + 1, Len(deque))
        /\ active' = active \cup {pair.question : pair \in first}
        /\ task' = [q \in Questions |->
                      IF \E pair \in first : pair.question = q
                      THEN [NoTask EXCEPT !.stage = "created",
                              !.attempt = (CHOOSE pair \in first :
                                             pair.question = q).attempt]
                      ELSE task[q]]

\* An iteration of the loop up to its suspension: asyncio.wait, or a sleep
\* until the next retry when no task is active.  Without either the code goes
\* straight to its next iteration.
Iterate ==
    /\ loop = "running" /\ handling = {}
    /\ pending # <<>> \/ delayed # {} \/ active # {}
    /\ \E n \in 0..Cardinality(delayed) :
         \E moved \in [1..n -> {item \in delayed : item.due}] :
            /\ MoveReadyTo(moved)
            /\ LaunchAvailable(pending \o [i \in 1..n |->
                 [question |-> moved[i].question, attempt |-> moved[i].attempt]])
    /\ loop' = IF active' # {} THEN "waiting"
               ELSE IF delayed' # {} THEN "sleeping" ELSE "running"
    /\ UNCHANGED <<controller, handling, launch_queue, spaced, paused, launches,
                   http_in_flight, results, published>>

RetryIsDue == \E item \in delayed : item.due

\* asyncio.wait(FIRST_COMPLETED) returns the tasks done by now; its timeout is
\* the delay of the next retry.
WaitReturns ==
    /\ loop = "waiting" /\ TasksStarted
    /\ handling' = {q \in active : task[q].stage = "done"}
    /\ handling' # {} \/ RetryIsDue
    /\ active' = active \ handling'
    /\ loop' = "running"
    /\ UNCHANGED <<controller, pending, delayed, task, launch_queue, spaced,
                   paused, launches, http_in_flight, results, published>>

SleepEnds ==
    /\ loop = "sleeping"
    /\ RetryIsDue
    /\ loop' = "running"
    /\ UNCHANGED <<controller, pending, delayed, active, handling, task,
                   launch_queue, spaced, paused, launches, http_in_flight,
                   results, published>>

\* results.append(result); the publication of the result then suspends.
Record(q, how) ==
    /\ results' = Append(results, [question |-> q, status |-> how,
                                   attempts |-> task[q].attempt])
    /\ task' = [task EXCEPT ![q].stage = "publishing"]
    /\ loop' = "publishing"

HandleSuccess(q) ==
    /\ loop = "running" /\ q \in handling
    /\ task[q].outcome = "success"
    /\ Record(q, "success")
    /\ controller' = OnSuccess(controller)
    /\ handling' = handling \ {q}
    /\ UNCHANGED <<pending, delayed, active, launch_queue, spaced, paused,
                   launches, http_in_flight, published>>

\* _handle_rate_limit for a 429; other errors leave the controller alone.
React(t) ==
    IF t.outcome \in Reasons
    THEN /\ controller' = OnRateLimited(controller, t.outcome,
                              t.observed_in_flight, t.observed_launch_rpm)
         /\ paused' = (paused \/ Kind(controller, t.outcome, t.observed_in_flight,
                                      t.observed_launch_rpm) # "concurrency")
    ELSE UNCHANGED <<controller, paused>>

\* One retry too many, one too few.
FaultyRetriesLeft(t) == t.attempt <= MaxRetries + 1
FaultyRetriesLeftStrict(t) == t.attempt < MaxRetries

RetriesLeft(t) == t.attempt <= MaxRetries

\* No result: schedule a retry, or build a failed result after the last attempt.
HandleFailure(q) ==
    /\ loop = "running" /\ q \in handling
    /\ task[q].outcome \in Reasons \cup {"client_error"}
    /\ React(task[q])
    /\ \/ /\ RetriesLeft(task[q])
          /\ delayed' = delayed \cup {[question |-> q, due |-> FALSE,
                                       attempt |-> task[q].attempt + 1]}
          /\ task' = [task EXCEPT ![q] = NoTask]
          /\ UNCHANGED <<loop, results>>
       \/ /\ ~RetriesLeft(task[q])
          /\ Record(q, "failed")
          /\ UNCHANGED delayed
    /\ handling' = handling \ {q}
    /\ UNCHANGED <<pending, active, launch_queue, spaced, launches,
                   http_in_flight, published>>

\* task.result() raises: the exception leaves run_questions, the other outcomes
\* are dropped and the active tasks are orphaned.
HandleException(q) ==
    /\ loop = "running" /\ q \in handling
    /\ task[q].outcome = "raised"
    /\ loop' = "crashed"
    /\ UNCHANGED <<controller, pending, delayed, active, handling, task,
                   launch_queue, spaced, paused, launches, http_in_flight,
                   results, published>>

Publish(q) ==
    /\ loop = "publishing" /\ task[q].stage = "publishing"
    /\ published' = [published EXCEPT ![q] = @ + 1]
    /\ task' = [task EXCEPT ![q] = NoTask]
    /\ loop' = "running"
    /\ UNCHANGED <<controller, pending, delayed, active, handling, launch_queue,
                   spaced, paused, launches, http_in_flight, results>>

\* XADD raises, whether or not the event reached the stream.
PublishFails(q) ==
    /\ "publish" \in Faults
    /\ loop = "publishing" /\ task[q].stage = "publishing"
    /\ published' \in {published, [published EXCEPT ![q] = @ + 1]}
    /\ loop' = "crashed"
    /\ UNCHANGED <<controller, pending, delayed, active, handling, task,
                   launch_queue, spaced, paused, launches, http_in_flight,
                   results>>

FinishRun ==
    /\ loop = "running" /\ handling = {}
    /\ pending = <<>> /\ delayed = {} /\ active = {}
    /\ loop' = "finished"
    /\ UNCHANGED <<controller, pending, delayed, active, handling, task,
                   launch_queue, spaced, paused, launches, http_in_flight,
                   results, published>>

MainStep ==
    \/ Iterate
    \/ WaitReturns
    \/ SleepEnds
    \/ \E q \in Questions :
          \/ HandleSuccess(q)
          \/ HandleFailure(q)
          \/ HandleException(q)
          \/ Publish(q)
          \/ PublishFails(q)
    \/ FinishRun

-----------------------------------------------------------------------------
(* Time. *)

ClockUnchanged ==
    UNCHANGED <<controller, loop, pending, active, handling, task, launch_queue,
                http_in_flight, results, published>>

PauseElapses ==
    /\ paused
    /\ paused' = FALSE
    /\ UNCHANGED <<delayed, spaced, launches>>
    /\ ClockUnchanged

IntervalElapses ==
    /\ ~spaced
    /\ spaced' = TRUE
    /\ UNCHANGED <<delayed, paused, launches>>
    /\ ClockUnchanged

DelayElapses(item) ==
    /\ item \in delayed /\ ~item.due
    /\ delayed' = (delayed \ {item}) \cup {[item EXCEPT !.due = TRUE]}
    /\ UNCHANGED <<spaced, paused, launches>>
    /\ ClockUnchanged

\* The oldest launch becomes a minute old and is pruned.
LaunchAges ==
    /\ loop \in AgeingAt /\ launches > 0
    /\ launches' = launches - 1
    /\ UNCHANGED <<delayed, spaced, paused>>
    /\ ClockUnchanged

Clock ==
    \/ PauseElapses
    \/ IntervalElapses
    \/ \E item \in delayed : DelayElapses(item)
    \/ LaunchAges

Stopped == loop \in {"finished", "crashed"} /\ UNCHANGED vars

Next ==
    \/ MainStep
    \/ \E q \in Questions : TaskStep(q)
    \/ Clock
    \/ Stopped

Spec == Init /\ [][Next]_vars

\* The event loop does not stop while a coroutine is ready or waits: a request
\* ends at the latest by its timeout, Redis answers or fails, sleeps end.  Which
\* of them comes first is open, and none is owed a turn of its own.
Fairness == WF_vars(Next)

FairSpec == Spec /\ Fairness

-----------------------------------------------------------------------------

Items == [question : Questions, attempt : Attempts]
InFlight == {q \in Questions : task[q].stage = "in_flight"}

\* Every variable keeps its type.
TypeOK ==
    /\ CtlTypeOK
    /\ loop \in {"running", "waiting", "sleeping", "publishing", "finished", "crashed"}
    /\ pending \in Seq(Items)
    /\ delayed \subseteq [question : Questions, attempt : Attempts, due : BOOLEAN]
    /\ active \subseteq Questions
    /\ handling \subseteq Questions
    /\ task \in [Questions -> [stage : Stages, attempt : Attempts \cup {0},
                               outcome : Outcomes \cup {"none"},
                               observed_in_flight : Nat, observed_launch_rpm : Nat]]
    /\ launch_queue \in Seq(Questions)
    /\ spaced \in BOOLEAN
    /\ paused \in BOOLEAN
    /\ launches \in Nat
    /\ http_in_flight \in Nat
    /\ results \in Seq([question : Questions, status : {"success", "failed"},
                        attempts : Attempts])
    /\ published \in [Questions -> Nat]

PlacesOf(q) ==
    Cardinality({i \in DOMAIN pending : pending[i].question = q})
    + Cardinality({item \in delayed : item.question = q})
    + (IF task[q].stage \notin {"none", "publishing"} THEN 1 ELSE 0)
    + Cardinality({i \in DOMAIN results : results[i].question = q})

\* "No lost logical questions": until run_questions ends, each question is in
\* exactly one of the deque, the delayed retries, the tasks and the results,
\* whatever mixture of replies, retries and suspensions happened.  (When an
\* exception ends it, the questions it abandons are those of the tasks.)
NoQuestionLost == \A q \in Questions : PlacesOf(q) = 1

\* The metric that is reported with every dispatch, and from which the
\* concurrency limit is learned, is the number of requests really in flight.
InFlightMetricExact == http_in_flight = Cardinality(InFlight)

\* The service never sees more concurrent requests than max_target_concurrency,
\* even while the target drops under the tasks already launched.
InFlightBounded == Cardinality(InFlight) <= MaxTargetConcurrency

\* Every run ends: no order of its steps can go on for ever, since all retries are
\* bounded and the loop never spins.
RunEnds == <>(loop \in {"finished", "crashed"})

-----------------------------------------------------------------------------
(* Refinement of the ledger. *)

Trying == {"in_flight", "done"}
SettledAs(q, how) ==
    \E i \in DOMAIN results : results[i].question = q /\ results[i].status = how
Waiting(q) ==
    {item.attempt : item \in {x \in delayed : x.question = q}}
    \cup {pending[i].attempt : i \in {j \in DOMAIN pending : pending[j].question = q}}

LedgerStatus(q) ==
    IF SettledAs(q, "success") THEN "success"
    ELSE IF SettledAs(q, "failed") THEN "failed"
    ELSE IF task[q].stage \in Trying THEN "trying" ELSE "open"

LedgerAttempts(q) ==
    IF \E i \in DOMAIN results : results[i].question = q
    THEN results[CHOOSE i \in DOMAIN results : results[i].question = q].attempts
    ELSE IF task[q].stage \in Trying THEN task[q].attempt
    ELSE IF task[q].stage # "none" THEN task[q].attempt - 1
    ELSE (CHOOSE a \in Waiting(q) : TRUE) - 1

Ledger == INSTANCE QuestionLedger WITH
    attempts <- [q \in Questions |-> LedgerAttempts(q)],
    status <- [q \in Questions |-> LedgerStatus(q)],
    announced <- published,
    closed <- CASE loop = "finished" -> "finished"
                [] loop = "crashed" -> "aborted"
                [] OTHER -> "no"

\* The scheduler keeps the promises of QuestionLedger.
ImplementsLedger == Ledger!Spec

\* What the scheduler does to its controller is what the controller alone may
\* do: in particular it never reports more requests in flight than the largest
\* target.
ImplementsController == CtlSpec

=============================================================================
