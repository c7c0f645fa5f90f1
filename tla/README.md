# Verification of the benchmark orchestration

TLA+ models of the concurrent core of this repository, the TLC configurations
that check them on small instances, and proofs checked by TLAPS. Paths are
relative to `src/services/`; `scheduling/` stands for
`orchestrator/src/orchestrator/domain/scheduling/`.

## The system

A user uploads questions from the browser. The **orchestrator** (FastAPI,
asyncio) stores a run, and a detached task drives the questions through a
**scheduler** against the **inference service**, which refuses excess traffic
with 429 instead of queueing it. Each result is appended to a **Redis stream**;
a **persistence consumer** in another process copies the events to PostgreSQL
and counts them; the API serves the state of the run, a stream of its progress,
and a **report** built on demand from the persisted results.

```
browser -- POST /runs --> API -- create_task --> execute_benchmark
                           |                        |  scheduler.run_questions
                           |                        |     |  POST /infer --> inference service
                           |                        |     '- XADD question_completed
                           |                        '- mark_finished, XADD run_completed
  GET, events, report      v                                   v
                       PostgreSQL <--- persistence consumer <- stream
```

### Inventory

| component | state it keeps | operations | what is hard | correct when |
|---|---|---|---|---|
| AIMD controller (`scheduling/aimd/controller.py`) | target concurrency, launch interval, phase, counters, learned limits | `on_success`, `classify_rate_limit`, `on_rpm_limited`, `on_concurrency_limited`, `on_generic_overload` | outcomes arrive late and in any order; rounding; limits learned from stale observations | the target stays in `1..max`, never above a learned limit; learned knowledge is never relaxed; growth is earned |
| Adaptive scheduler (`scheduling/aimd/scheduler.py`) | deque, delayed retries, active tasks, `launch_lock`, `last_launch_at` | `run_questions`, `_launch_available`, `_run_one_attempt`, `_wait_launch_slot`, `_handle_outcome` | tasks, replies, pauses and retries interleave; the target moves under launched tasks; exceptions escape | no question is lost, tried too often or announced twice; the target is respected; the run ends |
| Fixed scheduler (`scheduling/fixed/scheduler.py`) | semaphore, one task per question | `run_questions`, `_run_one_question` | a permit is held across a pause; retries inside the task | permits are conserved; no dispatch during a pause; as above |
| Delayed retries (`scheduling/common/delayed_retries.py`) | list of (time, question, attempt), in no order | `schedule`, `move_ready_to`, `next_delay` | different delays, wake-ups | the loop never oversleeps; nothing is in two places |
| Scheduler runtime (`application/runtime.py`, `scheduling/common/metrics.py`) | `pause_until`, requests in flight, launch timestamps | `execute_attempt`, `respect_global_pause`, `set_global_pause`, `publish_result` | every way out of an attempt must undo what it did | the in-flight metric is exact; pauses are respected |
| Run metrics (`domain/run_metrics.py`) | counters, latencies, wait intervals | `record_*`, percentiles, `wait_wall_sec` | three layers count the same attempt; overlapping intervals | the counters balance; the percentiles are ranks; the wait is that of the union |
| Inference client (`infrastructure/inference_client/client.py`) | – | `infer` | a timeout ends the request for the client only; Retry-After crosses two clocks | replies become the right outcome; a pause outlasts the window it is for |
| Run lifecycle (`application/run_benchmark.py`, `interfaces/api/routes/runs.py`) | status and times of the run, in PostgreSQL | create, `execute_benchmark`, event stream | detached task, failure leaves the status behind, finished before persisted | a finished run is complete; a stream ends |
| Event pipeline (`infrastructure/messaging/redis/`, `persistence/`) | stream, consumer group, results, processed ids | `xadd`, `xreadgroup`, transaction, `xack` | at-least-once delivery, crash between commit and ack, restart | each event is counted once; none is lost |
| Report (`application/build_report.py`, `domain/reporting/metrics.py`) | the stored report | build on demand, by a GET or the command line | built from the results persisted so far, twice at once; values cross the stream as texts | adds up; never changes |
| Inference service (`inference_service/`) | sliding window, in-flight counter | `infer`, `allow`, `try_acquire`, `release` | boundary of the window; every way out releases once | at most rpm admissions in any minute; at most the limit in flight |
| Run page (`frontend/src/pages/RunPage.tsx`) | displayed run | GET and event stream | the two race; connections are lost and reopened | the display does not go backwards and comes to the end |
| everything else | – | forms, rendering, parsing, grading, authentication, set-up | – | – |

`PROJECT.json` lists every component with its sources and status, and every
hazard with the properties aimed at it.

## How the models correspond to the code

Both schedulers run on one asyncio event loop, so **a step of a model is a
stretch of code between two suspensions**: everything a coroutine does before
it next awaits something that really suspends. `pause_lock` and the metrics
lock are never held across a suspension, so acquiring them is not a step.

**`AimdController`** is the object as a record and each method as an operator
on records; `OnRateLimited` is `_handle_rate_limit`: classify, then react. It
is also a specification of its own, `CtlSpec`, of a controller that receives
any sequence of outcomes. Durations are integers, factors are percentages and
products are rounded down: for the default factor 0.70 this is the `floor` of
the code for every concurrency below 90. An estimate that Python holds as
`None` is 0.

**`AimdScheduler`** extends it with one run of `run_questions`: the main
coroutine (`Iterate`, `WaitReturns`, `SleepEnds`, `HandleSuccess`,
`HandleFailure`, `HandleException`, `Publish`, `PublishFails`, `FinishRun`),
the tasks (`StartPaused`, `TakeSlot`, `SlotGranted`, `PacingEnds`, `Reply`) and
the passage of time (`PauseElapses`, `IntervalElapses`, `DelayElapses`,
`LaunchAges`). What is abstracted:

- a pause, a retry delay and a pacing sleep end at any moment (their lengths
  are data); `spaced` says that the launch interval has passed since the last
  launch;
- retries that are due in the same iteration enter the deque in any order (the
  code's order is that of scheduling);
- the loop polls timers only after the callbacks that are ready, so a new task takes
  its first step before the main coroutine, which created it, resumes (`TasksStarted`);
  a reply that was already there may be seen before that;
- an attempt ends with a result, a 429 of one of three kinds, an
  `InferenceClientError`, or another exception, whatever the service does.

**`FixedScheduler`** is the same for the other scheduler, with the semaphore of
asyncio as a counter and a queue of waiters.

**`LaunchPacing`** keeps the times that `AimdScheduler` abstracts, with a clock of
integer ticks: the delayed retries (`Iterate`, `Resume`; a set, since the code takes
the minimum of its list and no operation depends on the order), the pause with its loop
(`LookAtPause`, `PauseSleepEnds`), the launch lock with its queue and its pacing sleep
(`TakeSlot`, `SlotGranted`, `PacingEnds`), and what an outcome does to all three
(`Succeed`, `RateLimited`, `FailsAlone`). An iteration begins with `refresh`, which
removes the launches that are a minute old, as a launch does. A sleep ends at its time
or later. The controller is any change of the interval, and the target is left to
`AimdScheduler`: whatever is ready is launched. `launches`, `pauses` and `changes` are
histories. `Pruned` is the loop of `popleft`, and `WaitWall` is `wait_wall_sec`: the
intervals `set_global_pause` appends, sorted, merged and added up.

**`InferenceService`** is the admission control of the service: the two limiters
and the handler `infer` around the call to Ollama. The locks of the limiters are
never contended, so a handler runs in one step up to its suspension in
`generate` (`ConcurrencyLimited`, `RpmLimited`, `Admit`) and in one step from
there through its `finally` clause (`Finish`, with an answer, an error of Ollama,
any other exception or a cancellation). The clock is an integer of ticks, several
to a second, where the code has floats; requests may arrive and end in between
any two ticks. `admitted` and `refusal` are histories that no action reads.

**`EventPipeline`** follows runs from `POST /runs` to their report. The API process
has the detached task of each run (`CreateRun`, `MarkStarted`, `PublishResult`,
`PublishFails`, `MarkFinished`, `PublishCompletion`, `TaskFails`) and the requests
for reports (`AskReport`, `ReadResults`, `SaveReport`: one step per transaction);
the persistence consumer is a process of its own (`StartWorker`, `Read`, `Persist`,
`Acknowledge`). `ApiRestarts` and `WorkerStops` stop either at any moment; a
transaction or an acknowledgement that fails ends the consumer as well and is a
`WorkerStops` before or after it. A transaction is one step, since there is one
consumer and PostgreSQL shows it as a whole. The id of an entry is its position in
the stream; the group is the cursor of `>` and the set of pending entries. The
messages a worker has received are consecutive, so they are two numbers. The client
of Redis repeats a command that timed out: an XADD, also one that fails in the end, may
add its entry several times, and the messages of a lost XREADGROUP reply stay pending
with nobody (`ReadReplyLost`); the latter is modelled from the behaviour of the library
and is not needed for any of the violations. A scheduler is taken at the word of `QuestionLedger`: each question
is announced once, in any order, or the run is aborted.

**`ServedRun`** composes the two sides of `POST /infer`: it extends
`InferenceService` and instantiates the tasks of `FixedScheduler` beside it, with
requests and replies that take their time. `Arrive` is a request reaching a handler,
`HandlerEnds` the reply of Ollama, `ReceiveReply` the mapping of `InferenceClient.infer`
to an outcome with the pause of a 429, `GiveUp` its timeout or a lost connection: the
handler goes on then, unknown to the client, and its answer is for nobody. A request
that is given up before it arrives never arrives. Pauses are on the clock of the
service, in whole seconds of several ticks and with a jitter. The main coroutine,
which only collects results, is left out, as are exceptions that abort the run.

**`RunPage`** extends `EventPipeline` with the page of a run and the two endpoints it
reads: `OpenPage` starts the GET (`AnswerGet`, `ReceiveRun`) and the stream (`Poll`,
one round of `event_generator`; `ReceiveEvent`) on connections of their own, and both
may fail (`GetFails`, `ConnectionLost`, `HiddenAndVisible`, `RestartApi`). What the
code does, and the model keeps:

- the messages of the stream carry no `type`, so the branch of the page for
  `run_completed` is never taken; the page ends on the status `finished`, and since
  the run is finished before its results are persisted, its bar may stop below the
  total for ever;
- a message is ignored while the page has no run. If the stream ends before the GET
  is answered, the page keeps the state of the GET, which may be an old one, and the
  link to the report does not appear (the README of the frontend says that it does when
  the run has finished);
- the first message after the answer of the GET may be older than it, and take the
  page back once;
- `onerror` throws, so nothing connects again after a loss; the library opens the
  stream again only for a page that was hidden. A GET that refreshes the token makes
  the second effect run again, which connects anew.

**`RunReporting`** follows the numbers of a run: the counters of `RunMetrics` at each
step of an attempt (`Launch`, `Reply`, `HandleError`, `Complete`), the results as texts
in the stream and as rows of the database (`Fields`, `Row`, `Persist`), and the report
computed from them (`AssembleReport` with the operators of
`domain/reporting/metrics.py`), asked for by a GET at any time after the run or by the
command line (`BuildReport`, `PrintAndWrite`). Both schedulers count a completion
(`record_completion`) and then suspend in the XADD of its event, while the tasks go on:
`Complete` is the count, `XAdd` the arrival of the event, repeated if its reply is lost,
and `Published` the end of the suspension; the main coroutine has one XADD under way at a
time (`Publishing`). The adaptive scheduler counts refusals and retries in the main
coroutine, between two XADDs, the fixed one in its tasks at any time; the model has
every order of the latter, which includes those of the former. Ratios are numbers of
ten-thousandths, medians are doubled; `Rounded` is the rounding of Python, half to even.
The id of the run stands in for that of the benchmark, so a report has at most one
benchmark, the whole run. `SummaryPrintable` looks up what `_print_benchmark_summary`
reads (`PrintedFields`) in the fields that a benchmark of the report has; see below for
what comes of it.

**`QuestionLedger`** is not a component of the code but the promise of every
scheduler: each question is tried at most `max_retries + 1` times, never twice
at once, fails only after the last attempt, is settled once and announced once,
and a run finishes only with all of them. Both schedulers are shown to
implement it through a refinement mapping at the end of their modules.

**`ResultDelivery`** is the promise of the pipeline to whoever looks at the counter and
at the report of a run, without consumer, acknowledgements or restarts: a log whose
results are counted in its order, at most once each, of which only a failure passes
over some, and reports that are written once from results that have been counted.
`EventPipeline` implements it (`ImplementsDelivery`); the mapping is `Handled`, how far
the worker is, which a crash moves to the end of the batch it had received.

The `MC...` modules add the symmetry of their constants for TLC. Definitions named `Faulty...` are one-line mistakes used to show that each
property can fail; no specification uses them.

## Runs

| run | configuration | what it shows |
|---|---|---|
| `controller` | `AimdController.cfg` | under every sequence of outcomes the target and the interval stay within their bounds and within what was learned, learning is monotone, growth is earned |
| `aimd` | `AimdScheduler.cfg` | no question is lost, the in-flight metric is exact, concurrency is bounded, the ledger is implemented, the scheduler only does to its controller what `CtlSpec` allows, and every run ends |
| `fixed` | `FixedScheduler.cfg` | permits are conserved, pauses are respected, the ledger is implemented, every run ends |
| `pacing` | `LaunchPacing.cfg` | retries are neither late nor early, launches are spaced by an interval that was in force after the one before, overlapping pauses are waited for to the last, the launch rate and the waiting time are exact |
| `served` | `ServedRun.cfg` | no window admits more than `rpm`, refusals are necessary, Retry-After is exact, slots come back however a request ends; a run within the limit is refused for its concurrency only because of requests it gave up, and a pause for the rate never ends before the window has room |
| `pipeline` | `EventPipeline.cfg` | acknowledged results are persisted, counted once, and lost to faults only; progress is bounded; the pipeline implements `ResultDelivery`: counted in order, and no request replaces a stored report |
| `page` | `RunPage.cfg` | from the first message on the page never goes back, over every reconnection; a page that has its run while the stream is open comes to show the end; while there is a worker, every entry is handled |
| `reporting` | `RunReporting.cfg` | the counters balance between any two steps, percentiles are ranks of what was measured, reports add up, but for events that were repeated |
| `pipeline_report` | `PipelineReport.cfg` | **violation**: the report of a finished run lacks results, without any fault |
| `pipeline_loss` | `PipelineLoss.cfg` | **violation**: results delivered to a worker that stops are never persisted |
| `pipeline_failure` | `PipelineFailure.cfg` | **violation**: a run whose task failed is never marked as failed |
| `report_accuracy` | `ReportAccuracy.cfg` | **violation**: the accuracy of a report is 1 although an answer was wrong |

### Bounds

- `aimd`: three questions, one retry each and a target of at most two, so that
  a question waits in the deque while another is delayed and two are active;
  both kinds of escaping exceptions. Every outcome kind occurs at each attempt;
  the run starts with one slot, opens a second, and the target falls back to one while
  tasks of the larger target are active, is capped there by a learned limit, or grows
  again. `AgeingAt` bounds when a launch may leave the window of a minute, to the sleeps of
  the main coroutine: what ageing changes is the rate that the next attempts report, and
  in the run `controller` an outcome may report any. The symmetry of the questions is
  sound for `RunEnds` as well, because neither it nor the fairness of this specification
  names a question.
- `fixed`: three questions, two permits, two retries: a task waits for the
  semaphore while two hold it. No symmetry, because of `RunEnds`.
- `pacing`: two questions of two attempts, so that a task waits for the lock while
  another is pacing and retries overtake each other; the clock runs over two windows
  of the launch rate and further than the longest interval, pause or delay.
- `served`: three questions, two at a time, one retry each, against two slots and two
  admissions per window, so that the window refuses while there is a slot and an
  abandoned handler takes the slot of a retry; a window of a second and a half makes
  the rounding of Retry-After matter. A handler is one of three, so that the two of
  the run can be beside an abandoned one.
- `pipeline`: two runs of one question interleave on the stream while two requests
  ask for reports; batches of two, so that a worker can stop between two messages; two
  faults, so that it can stop twice or both processes once; two repeated commands, so that
  one event is there three times.
- `page`: one run of two questions, so that its progress has three values; two messages
  under way; one fault, of the pipeline or of the page. No symmetry, because of the
  liveness.
- `reporting`: two questions of two attempts with three latencies, and two repetitions
  (`MaxRepeated`), so that the report has up to four rows, with ties and with more rows
  than questions, while the progress view has percentiles of two. A replies while B is
  published, is refused again or has failed. The origin is the command line, which
  competes with the GET for building the report.
- `report_accuracy`: one question, answered once.
- `ObservableRpm` bounds the launch rates an outcome may report to the
  controller alone; the schedulers are bounded by their questions and retries.

### Fairness

The event loop runs every ready coroutine; a request ends at the latest by the client's
timeout; Redis answers or its client raises; sleeps end. `FairSpec` of `AimdScheduler`
needs of this only that the program does not stop as long as something can happen, weak
fairness of `Next`: no order of its steps goes on for ever. `FairSpec` of
`FixedScheduler` assumes weak fairness of the main coroutine, of each task and of the end
of a pause. Nothing is assumed of which outcome occurs, so a run that only ever sees 429s
must end as well. Both configurations keep `Faults` enabled, and the property accepts a
run that an exception ended.

`Fairness` of `EventPipeline` assumes that the tasks of the runs, the requests and a
worker that is up go on: replies and commits arrive, or fail. No service of the
deployment has a restart policy, so nothing is assumed to start a worker again;
`EveryEntryIsHandled` is about the behaviours in which there is one again and again.
`FairPageSpec` adds that the GET of a page is answered and the answer received, that
the generator polls again after its half second, and that a connection delivers its
messages; each may fail instead. `PageSeesTheEnd` accepts a lost connection and a
dead task. Nobody is assumed to open a page.

### What the violations say

- The README of the orchestrator says that the report is served "once the run is
  complete". A run is finished when its events are in the stream; the report is
  built from the rows the consumer has written by then, and kept.
- It gives as a reason for Streams that with Pub/Sub "disconnected consumers lose
  messages". The consumer reads with `>` only, so what was delivered to it before
  it stopped stays pending for ever. For the same reason its check of
  `processed_events` never finds an entry.
- Its state diagram has `running --> failed`. Nothing writes that status, and the
  event stream of such a run does not end.
- Its example of a report has 1000 successful requests and the accuracy 0.82.
  `assemble_report` takes the success of a request for the grade of its answer, which is
  neither in the event nor in the database, so the accuracy of a report is 1 as soon as a
  request succeeds.

One more defect has no run, because the property would repeat the lookup it is about:
`_print_benchmark_summary` asks a benchmark for `total_requests` and other fields that
are in its `metrics`, so the command line ends with an AttributeError after the report is
stored and before `JsonReporter` has saved it, unless the report has no results
(`PrintAndWrite`, where `cli` becomes `crashed`).

Two hazards in `PROJECT.json` have no property: this defect, and the page whose stream
ends before its GET is answered, which `PageSeesTheEnd` leaves out. The check of
`processed_events` is not among them: no behaviour of this code reaches it, since no entry
is delivered twice, so `CountedOnce` would hold without it.

## Proofs

`AimdControllerProofs` proves, for every configuration that satisfies the
assumptions of `AimdController` (those of `__post_init__`, and for the factors,
which the code does not validate, what the defaults satisfy), all five properties of
the run `controller`: `TargetStaysWithinBounds`, `LearnedCeilingIsKept`,
`LearningStaysMonotone`, `GrowthIsAlwaysEarned` and `PaceStaysCovering`; besides
them `CtlTypeCorrect`, and `ProbeStaysBlind`: during the blind probe nothing is learned
and the target does not move.

None of the bounds is inductive alone. The code replaces the configured maximum
by the learned concurrency limit as the ceiling of the growth and never clamps
the limit, so `TargetWithinBounds` needs the limit to be at most the maximum,
which holds because it was learned from a number of requests in flight that
was. The end of the probe raises the target without looking at the learned
limit, so `LearnedCeilingHolds` needs that a blind probe has not learned one.
`PaceCoversLearnedLimit` needs that an interval learned once is never shortened below
it (`Paced`); the two properties of steps say what an operation does to the record
it is given (`Follows`), and are the same induction.

The proof has a lemma for each update of the record (what it leaves in every
field), one for each operation (`SuccessSound`, `RateLimitedSound`), and the
theorems at the end. `GrowthIsEarned` is about what ends the probe: a 429 that names its
reason ends it without the second slot, and since it leaves the phase at once, no success
after it is counted as one of the probe. The lemmas speak of any record, so that proofs about the
scheduler can cite them.

`AimdSchedulerProofs` proves about a run of the adaptive scheduler, for any
finite set of questions, any number of retries and every configuration:

- `SchedulerTypeCorrect`, `InFlightMetricIsExact` and `InFlightStaysBounded`,
  the invariants `TypeOK`, `InFlightMetricExact` and `InFlightBounded` of the run
  `aimd`;
- `SchedulerTargetWithinBounds`: the bounds of the target for the controller as
  this scheduler drives it, with what its tasks really observe;
- `SchedulerInvariant`, the inductive invariant they follow from.

The metric, the bound and the controller depend on each other. The controller
stays within its bounds only if no outcome reports more requests in flight than
the maximum (`Metering`); the requests in flight are those of active tasks, which
are launched within the target of the controller (`Activity`), so what is
reported is within the bound if the metric is exact; and it is exact only if no
task is replaced while its request is under way, which is why the invariant says
where a question may be (`Places`): one that waits in the deque or for its delay
has no task and waits in one place only. `Queueing` adds that a task asleep in
the launch slot heads the queue of `launch_lock`. Initially the deque holds every
question and is as long as there are questions, so it holds each once
(`FirstDequeDistinct`). There is a lemma for each action; those that only move a
task share `TaskStepInv`, the handling of outcomes shares `OutcomeInv`, and the
steps of time and of the loop share `QuietInv`.

A second invariant, `PlacesInvariant`, gives `NothingIsLost` and
`SchedulerKeepsTheLedger`, that the adaptive scheduler implements `QuestionLedger`.
Three more facts are needed: a question without a task waits or has
its result, never both (`Located`); one result at a time is being published and the
others were, once (`Announcing`); a task that is done is still active or in the batch
that is being handled (`Collecting`). The refinement mapping reads the entry of a
question in the ledger from the place where it is, a task, the deque, the delayed
retries or the results, so most steps only move it: each step is shown to keep every
entry or to change one, as a try, a reply that is given back to wait or one that
settles, or to announce, finish or abort.

`SchedulerDrivesTheController` is the other refinement: what the scheduler does to its
controller is a step of `CtlSpec` or a stutter, so that everything proved of the
controller alone holds in a run (`LearningInARun`). What has to be shown is that an
outcome reports nothing `CtlSpec` would not accept. The requests in flight are bounded by
`Metering`; the launch rate needs `RatesInvariant`: each try of a question launches once,
so the launches of the last minute are among the tries made so far (`Tried`), and an
attempt that reports a rate has launched itself. The theorem assumes that
`ObservableRpm`, the bound of `CtlSpec` on these rates, is at least the number of tries a
run can make; the bound belongs to the model, not to the code.

`LaunchPacingProofs` proves `RetriesAreOnTime`, `LaunchesAreSpaced` and
`PausesAreRespected` for any questions, delays, intervals, pauses and any length of the
clock. Its invariant says that the launch lock holds the queued tasks and the one in
its slot, once each (`Locking`); that nothing launches while a task sleeps in its slot,
and that the interval it sleeps was read after the last launch (`Spacing`); that a task
which is past the pause had looked before the pause was set or after its end
(`Passing`); and that a delayed retry carries the time it is due (`Retrying`). The
interval may change at every outcome, but only one that changes during the sleep of the
slot is missed, and the next task reads it when it is granted the lock.

`PacingTypeCorrect` adds the bounds of these data (`BoundedInv`): no attempt is numbered
beyond the last, each interval a task waits for is one the controller had, and a
delayed question has exactly one entry. `TimedMetricsAreExact` says that two numbers
are what they stand for, and its invariant is `ExactInv`. The launch rate: what
`launch_timestamps` holds is the launches so far without a first part that is old
(`Timing`), and the loop of `popleft`, which stops at the first young entry, removes
all the old ones because they are in order (`ExpiredAreOld`, `PrunedCounts`). The
waiting time: a pause never ends before the one set earlier, so the waits are appended
in ascending order (`Waiting`, `PauseWaiting`); sorting such waits changes nothing
(`SortedAlready`), merging one more keeps the merged ones apart with the same instants
in their union (`MergeStep`), and the lengths of waits that lie apart add up to the
number of those instants (`DurationCounts`). The recursive functions of the merge and
of the sum are handled by the least counterexample (`Induction`), since induction over
data needs an operator as a parameter.

`FixedSchedulerProofs` proves every safety property of the run `fixed`, for any
number of questions, retries and permits: `PermitsAreConserved`, `PausesHold`, and
`FixedKeepsTheLedger`, that the scheduler implements `QuestionLedger`. The inductive
invariant (`FixedInvariant`) says that the waiters of the semaphore are the waiting
tasks, once each (`Queueing`), that attempt numbers stay within `max_retries + 1` and a
task at its outcome has made as many as it says (`Counting`), and that the results
published so far are those of the tasks that ended, once each (`Collection`). Permits
are conserved because every step that moves a task between holding and not holding
one moves the count with it (`HoldersMove`), on every way out of `async with`. The
refinement has a lemma for the three things a step can be for the ledger: nothing
(`LedgerMove`), the start of an attempt (`LedgerTry`) and its outcome (`LedgerReply`);
`LedgerMainStep` covers the collection, which announces and closes.

`InferenceServiceProofs` proves about the service alone, for any limits, any length
of the window and any number of requests: `RateIsStrict`, `RetryAfterIsAlwaysExact`,
`RefusalsAreAlwaysEarned`, `SlotsAreReleased`, `BackendStaysBounded` and
`ServiceTypeCorrect`, from the inductive invariant of
`ServiceInvariant`. That at most `rpm` admissions fall into any window speaks of
all that was ever admitted, the code of the entries it still holds; the two are
linked by `Covers`: the entries are the last admissions, in order, and every
admission that is not among them is older than a window. With `Ordered` (the
clock is monotonic) a new admission is then a window later than the one `rpm`
before it (`AdmitKeepsRate`). Retry-After is a promise about a later state, so
`Promised` says what a refusal leaves behind until the next admission: a full
window whose oldest entry expires after more than `retry_after - 1` and at most
`retry_after` seconds. `ExpiredEntries` shows that the loop, which stops at the
first entry that is not old, removes exactly the old ones.

`ServedRunProofs` is about the run and the service together. `ServiceServes` and
`RunRuns` show that in the composition each part behaves as its own module says,
whatever the other does, so that what is proved about either carries over:
`ServedRateIsStrict` and `ServedRetryAfterIsExact` are the first of these. The
properties that relate the two need an invariant about both: `Exchange` ties the
request of a task to the handler that serves it, through timeouts and lost
connections; `Pausing` says that while nothing else is admitted, `pause_until`
covers what the last refusal announced. From them follow `ArrivalsAlwaysFindSlots` and
`PausesAlwaysOpenTheWindow`.

`EventPipelineProofs` proves the invariants `AcknowledgedIsPersisted`, `OnlyFaultsDrop`
and `CountedOnce` of the run `pipeline`, and besides them `TypeOK`, `ReportNeverChanges`
(a stored report is never replaced) and `CompletionIsLast` (run_completed follows the
events of all questions of its run), for any number of runs, questions, requests,
crashes and any size of the batches. The invariants about the consumer need
`Handling`: what the worker has received is pending, and when it is about to
acknowledge a result, the result is in the database; an acknowledgement then keeps
`AcknowledgedIsPersisted`, and a crash anywhere only moves pending entries to
`dropped`. The stream only grows (`ApiStepInv`), so the steps of the API process keep
all of it. `CompletionIsLast` has an invariant of its own (`Announcing`): a run with
a run_completed event has ended, so none of its questions is announced later.
`ProgressStaysBounded` counts: the events of a run and its questions without one are
at most its questions and the repeated XADDs (`Tallied`), and what is counted is a
part of those events, by `CountedOnce`.

`PipelineKeepsThePromise` is the refinement of `ResultDelivery`. Beyond `PipelineInv` it
needs `Delivering`: the worker has the last entries that were delivered, no result is in
the database before its turn, and a request that is about to save a report holds no more
results than have been counted. The steps of the API process only append
(`ApiDelivers`); a transaction counts the next entry, and `processed` is never hit since
nothing is delivered twice (`PersistDelivers`); reading and acknowledging move to an entry
that is a result, for which nothing happens yet, or to one that is not, which is
skipped (`NextEntry`); a lost reply or a stop passes over the rest of the batch
(`ReadReplyLostDelivers`, `WorkerStopsDelivers`).

`LiveStaysForward` in the same module is the property `LiveNeverGoesBack` of the run
`page`, for any number of runs, messages under way and faults. Its invariant,
`PageInvariant`, contains that of the pipeline, which holds beside the pages as well. A
run only moves forward (`RunsAdvance`: its status by the stage of its task, its progress
by the transactions); what a live page shows, the messages on their way to it and the
state of the run itself are in that order (`Coherence`). The generator reads that state
anew for each message and so does the one of a stream that is opened again, so neither
can send an older one than before. Only the answer of the GET is outside this order, which is why the property
starts with the first message.

`RunReportingProofs` proves all three properties of the run `reporting`, for any
questions, latencies, number of attempts and repeated events: `CountersAlwaysBalance`,
`PercentilesAreAlwaysRanks` and `ReportAlwaysAddsUp`. Its first
half is about the operators, which are data: that every place of a sorted sequence is
filled by exactly one value (`PlacesAreFilled`: the places are distinct and as many as
the values), how many values are then below and above one (`SortedRanks`), what follows
for `Percentile` with the rounding of Python and for the median (`PercentileRank`,
`MedianHalves`), how a filter counts (`TakenCounts`), and what a whole report says of the
rows it is given (`ReportOfRows`). Where a recursive function is in the way, the least
counterexample takes the place of induction (`Induction`). The second half is the
invariant of the run (`AlwaysBalanced`): the counters are related to the attempts as sets
(`Balanced`: each action takes a question from one of them and puts it in another); each
event tells the result of a question that has been counted, each question whose event has
been sent has one, and one question at most is being published (`Streamed`); and a report
is that of the rows which were there when it was built (`Reported`), of which the table
only grows. That a report exceeds the counters by the repetitions at most is then a
comparison of two counts: the entries of one kind, of which all but `Repeated` are the
first of their question (`EntriesCounted`).

Every invariant and action property of the runs that pass is thus a theorem. Only
model-checked is liveness, whose proofs need fairness and ENABLED: `RunEnds` of both
schedulers, and `PageSeesTheEnd` and `EveryEntryIsHandled` of the run `page`.

## Not modelled

- The throughputs and the ETA of `RunMetrics` and of a report: quotients by the elapsed
  time. The copies of the controller's fields `refresh` makes for the logs.
- The loss of the stream by Redis itself (its persistence is configuration).
- Forms, rendering, options, parsing of question files, grading, authentication,
  health checks, logging, migrations, deployment: input, output, text or
  configuration.
- The sequential scheduler, a linear loop, and `Runner`: nothing constructs them.
- The pause docstring: `set_global_pause` promises to prevent "further question
  dispatches" (`application/runtime.py`), while a task of the adaptive scheduler looks
  at the pause once, before it queues for `launch_lock` and sleeps for its slot.
  `PausesRespected` of `LaunchPacing` says exactly which tasks may then dispatch during a
  pause, those that had looked before it was set; the fixed scheduler looks again once
  it holds the semaphore, and `NoDispatchDuringPause` holds for it.

## Plan

1. *Done*: controller, both schedulers, the ledger; the inference service; the event
   pipeline and run lifecycle, with crashes and restarts of both processes.
2. *Done*: pacing with a clock, the composition of a scheduler with the service, the
   run page, the numbers of a run and of its report.
3. *Done*: proofs of both schedulers with the refinements of the ledger and of the
   controller, of the pacing, of the composition, of the pipeline with its pages, and of
   the numbers of a run.
4. *Done*: the promise of the pipeline as a specification, `ResultDelivery`, and its
   refinement.
5. *Left*: the adaptive scheduler in the place of the fixed one in `ServedRun`.
