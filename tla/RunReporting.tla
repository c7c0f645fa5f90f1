---------------------------- MODULE RunReporting ----------------------------
(***************************************************************************)
(* What a run says of itself: the counters of RunMetrics that its progress *)
(* view shows, and the report computed from its results once they have     *)
(* travelled through the stream into the database (publish_result,         *)
(* _handle_event, assemble_report), asked for by a GET or by the command   *)
(* line, which prints it and writes it to a file.                          *)
(*                                                                         *)
(* The attempts of the questions interleave in the orders of either        *)
(* scheduler: the fixed one counts refusals and retries in its tasks while *)
(* the main coroutine waits for an XADD, the adaptive one between two of   *)
(* them.  Crashes are left to EventPipeline; an XADD that fails leaves its *)
(* question where it is, and the main coroutine does nothing more.  Wall   *)
(* times, and the throughputs derived from them, are left out.             *)
(***************************************************************************)
EXTENDS Integers, Sequences, FiniteSets, SequencesExt

CONSTANTS
    Questions,     \* the questions of the run
    Latencies,     \* latencies of answers, in milliseconds
    MaxAttempts,   \* max_retries + 1
    MaxRepeated,   \* bound: XADDs that are repeated by the client
    Origin         \* "api", or "cli" for a run of the command line

ASSUME ReportingConfig ==
    /\ IsFiniteSet(Questions)
    /\ Latencies \subseteq Nat
    /\ MaxAttempts \in Nat \ {0}
    /\ MaxRepeated \in Nat
    /\ Origin \in {"api", "cli"}

VARIABLES
    attempt,    \* the attempt of each question: stage, number, outcome
    metrics,    \* the counters of RunMetrics
    stream,     \* the QuestionCompleted events
    rows,       \* the rows of question_results, those of the first events
    finished,   \* the status of the run
    report,     \* the stored report, or NoReport
    cli         \* where the command line is after execute_benchmark

vars == <<attempt, metrics, stream, rows, finished, report, cli>>

None == -1          \* no latency
NoError == "none"
NoOutcome == [error |-> NoError]
NoReport == [built |-> FALSE]
Kinds == {"rpm", "concurrency", "generic"}

Init ==
    /\ attempt = [q \in Questions |-> [stage |-> "open", number |-> 0, outcome |-> NoOutcome]]
    /\ metrics = [http_attempts |-> 0, http_in_flight |-> 0, peak_http_in_flight |-> 0,
                  http_successes |-> 0, latencies_ms |-> <<>>, retries |-> 0,
                  rate_limited |-> 0, limited |-> [kind \in Kinds |-> 0],
                  completed |-> 0, success |-> 0, failure |-> 0, correct |-> 0]
    /\ stream = <<>>
    /\ rows = <<>>
    /\ finished = FALSE
    /\ report = NoReport
    /\ cli = "running"

-----------------------------------------------------------------------------
(* The attempts: execute_attempt and the handling of outcomes. *)

Outcomes ==
    [error : Kinds \cup {"client_error"}]
    \cup [latency_ms : Latencies, correct : BOOLEAN]

IsResult(outcome) == outcome \in [latency_ms : Latencies, correct : BOOLEAN]

\* record_launch and inflight_start
Launch(q) ==
    /\ attempt[q].stage = "open"
    /\ attempt' = [attempt EXCEPT ![q] = [stage |-> "in_flight", number |-> @.number + 1,
                                          outcome |-> NoOutcome]]
    /\ LET in_flight == metrics.http_in_flight + 1 IN
       metrics' = [metrics EXCEPT !.http_attempts = @ + 1,
                                  !.http_in_flight = in_flight,
                                  !.peak_http_in_flight = Max({@, in_flight})]
    /\ UNCHANGED <<stream, rows, finished, report, cli>>

\* inflight_end, and record_http_success for a result
Reply(q, outcome) ==
    /\ attempt[q].stage = "in_flight"
    /\ attempt' = [attempt EXCEPT ![q].stage = "replied", ![q].outcome = outcome]
    /\ metrics' = [metrics EXCEPT
                     !.http_in_flight = Max({0, @ - 1}),
                     !.http_successes = IF IsResult(outcome) THEN @ + 1 ELSE @,
                     !.latencies_ms = IF IsResult(outcome)
                                      THEN Append(@, outcome.latency_ms) ELSE @]
    /\ UNCHANGED <<stream, rows, finished, report, cli>>

\* record_rate_limit
RateLimitRecorded(m, outcome) ==
    IF outcome.error \in Kinds
    THEN [m EXCEPT !.rate_limited = @ + 1, !.limited[outcome.error] = @ + 1]
    ELSE m

\* A retry is recorded before the attempts are counted.
FaultyRetryRecorded(m, last) == [m EXCEPT !.retries = @ + 1]

RetryRecorded(m, last) == IF last THEN m ELSE [m EXCEPT !.retries = @ + 1]

HandleError(q) ==
    /\ attempt[q].stage = "replied" /\ ~IsResult(attempt[q].outcome)
    /\ LET last == attempt[q].number >= MaxAttempts IN
       /\ attempt' = [attempt EXCEPT ![q].stage = IF last THEN "failed" ELSE "open"]
       /\ metrics' = RetryRecorded(RateLimitRecorded(metrics, attempt[q].outcome), last)
    /\ UNCHANGED <<stream, rows, finished, report, cli>>

\* The result of an attempt, or build_failed_result of the last one
Result(outcome) ==
    IF IsResult(outcome)
    THEN [status |-> "success", correct |-> outcome.correct,
          latency_ms |-> outcome.latency_ms, error |-> NoError]
    ELSE [status |-> "failed", correct |-> FALSE,
          latency_ms |-> None, error |-> outcome.error]

\* record_completion
CompletionRecorded(m, result) ==
    [m EXCEPT !.completed = @ + 1,
              !.success = IF result.status = "success" THEN @ + 1 ELSE @,
              !.failure = IF result.status = "success" THEN @ ELSE @ + 1,
              !.correct = IF result.status = "success" /\ result.correct THEN @ + 1 ELSE @]

Publishing == {q \in Questions : attempt[q].stage \in {"publishing", "appended"}}

\* The main coroutine takes the next outcome when the XADD of the one before has
\* returned, counts it and starts its XADD.
Complete(q) ==
    /\ \/ attempt[q].stage = "replied" /\ IsResult(attempt[q].outcome)
       \/ attempt[q].stage = "failed"
    /\ Publishing = {}
    /\ attempt' = [attempt EXCEPT ![q].stage = "publishing"]
    /\ metrics' = CompletionRecorded(metrics, Result(attempt[q].outcome))
    /\ UNCHANGED <<stream, rows, finished, report, cli>>

\* The fields of a QuestionCompleted in the stream are texts, empty for None.
EmptyNumber == -2
EmptyText == ""
Fields(q, result) ==
    [question_id |-> q,
     success |-> IF result.status = "success" THEN "True" ELSE "False",
     latency_ms |-> IF result.latency_ms = None THEN EmptyNumber ELSE result.latency_ms,
     error |-> IF result.error = NoError THEN EmptyText ELSE result.error]

\* The questions with an event, and the events beyond one for each.
Announced == {stream[i].question_id : i \in DOMAIN stream}
Repeated == Len(stream) - Cardinality(Announced)

\* The XADD of publish_result arrives; the client repeats it if the reply is lost.
XAdd(q) ==
    /\ \/ attempt[q].stage = "publishing"
       \/ attempt[q].stage = "appended" /\ Repeated < MaxRepeated
    /\ attempt' = [attempt EXCEPT ![q].stage = "appended"]
    /\ stream' = Append(stream, Fields(q, Result(attempt[q].outcome)))
    /\ UNCHANGED <<metrics, rows, finished, report, cli>>

\* Its reply arrives.
Published(q) ==
    /\ attempt[q].stage = "appended"
    /\ attempt' = [attempt EXCEPT ![q].stage = "settled"]
    /\ UNCHANGED <<metrics, stream, rows, finished, report, cli>>

FinishRun ==
    /\ ~finished
    /\ \A q \in Questions : attempt[q].stage = "settled"
    /\ finished' = TRUE
    /\ UNCHANGED <<attempt, metrics, stream, rows, report, cli>>

\* The empty text of an error is kept.
FaultyRow(fields) ==
    [question_id |-> fields.question_id,
     success |-> fields.success = "True",
     latency_ms |-> IF fields.latency_ms = EmptyNumber THEN None ELSE fields.latency_ms,
     error |-> fields.error]

Row(fields) ==
    [question_id |-> fields.question_id,
     success |-> fields.success = "True",
     latency_ms |-> IF fields.latency_ms = EmptyNumber THEN None ELSE fields.latency_ms,
     error |-> IF fields.error = EmptyText THEN NoError ELSE fields.error]

\* The consumer writes the next event into a row.
Persist ==
    /\ Len(rows) < Len(stream)
    /\ rows' = Append(rows, Row(stream[Len(rows) + 1]))
    /\ UNCHANGED <<attempt, metrics, stream, finished, report, cli>>

-----------------------------------------------------------------------------
(* The metrics of a report: domain/reporting/metrics.py. *)

\* round() of Python: a half goes to the even neighbour.
Rounded(a, b) ==
    LET down == a \div b
        rest == 2 * (a % b)
    IN  IF rest < b \/ (rest = b /\ down % 2 = 0) THEN down ELSE down + 1

\* Where sorted(), which is stable, puts the value at i.
Place(values, i) ==
    Cardinality({j \in DOMAIN values : \/ values[j] < values[i]
                                      \/ (values[j] = values[i] /\ j <= i)})

Sorted(values) ==
    [place \in DOMAIN values |->
        values[CHOOSE i \in DOMAIN values : Place(values, i) = place]]

\* The values at the given places, in their order.
Taken(values, places) ==
    LET taken[n \in 0..Len(values)] ==
            IF n = 0 THEN <<>>
            ELSE IF n \in places THEN Append(taken[n - 1], values[n]) ELSE taken[n - 1]
    IN  taken[Len(values)]

\* int() in place of round()
FaultyIndex(n, percent) == ((n - 1) * percent) \div 100

Index(n, percent) == IF n = 1 THEN 0 ELSE Rounded((n - 1) * percent, 100)

Percentile(values, percent) ==
    IF values = <<>> THEN None
    ELSE Sorted(values)[Index(Len(values), percent) + 1]

\* Twice the median, which is the mean of two values for an even number of them.
TwiceMedian(values) ==
    LET n == Len(values)
        sorted == Sorted(values)
    IN  IF n = 0 THEN None
        ELSE IF n % 2 = 1 THEN 2 * sorted[(n + 1) \div 2]
        ELSE sorted[n \div 2] + sorted[n \div 2 + 1]

\* safe_ratio with four digits, as a number of ten-thousandths
SafeRatio(numerator, denominator) ==
    IF denominator = 0 THEN 0 ELSE Rounded(10000 * numerator, denominator)

FailureCount(results) == Cardinality({i \in DOMAIN results : results[i].error # NoError})

ComputeMetrics(results, include_latency_range) ==
    LET successful == {i \in DOMAIN results : results[i].correct}
        measured == {i \in successful : results[i].latency_ms # None}
        latencies == Taken([i \in DOMAIN results |-> results[i].latency_ms], measured)
        range == include_latency_range /\ latencies # <<>>
    IN  [total_requests |-> Len(results),
         successful_requests |-> Cardinality(successful),
         failure_count |-> FailureCount(results),
         accuracy |-> SafeRatio(Cardinality({i \in successful : results[i].correct}),
                                Cardinality(successful)),
         p50 |-> TwiceMedian(latencies),
         p95 |-> Percentile(latencies, 95),
         min |-> IF range THEN Min(ToSet(latencies)) ELSE None,
         max |-> IF range THEN Max(ToSet(latencies)) ELSE None]

OfBenchmark(results, id) ==
    Taken(results, {i \in DOMAIN results : results[i].benchmark_id = id})

PerBenchmark(results) ==
    {[benchmark_id |-> id, metrics |-> ComputeMetrics(OfBenchmark(results, id), FALSE)] :
        id \in {results[i].benchmark_id : i \in DOMAIN results}}

\* assemble_report: the id of the run stands in for the one of the benchmark, the
\* success of the request for the grade of the answer.
AssembleReport(persisted) ==
    LET results == [i \in DOMAIN persisted |->
                       [correct |-> persisted[i].success,
                        latency_ms |-> persisted[i].latency_ms,
                        error |-> persisted[i].error,
                        benchmark_id |-> "run"]]
    IN  [built |-> TRUE, summary |-> ComputeMetrics(results, TRUE),
         benchmarks |-> PerBenchmark(results)]

\* A GET of the report, when it has not been built.
GetReport ==
    /\ finished
    /\ report = NoReport
    /\ report' = AssembleReport(rows)
    /\ UNCHANGED <<attempt, metrics, stream, rows, finished, cli>>

-----------------------------------------------------------------------------
(* The command line, after its run. *)

\* A stored report makes the insertion fail.
BuildReport ==
    /\ Origin = "cli" /\ cli = "running" /\ finished
    /\ \/ /\ report = NoReport
          /\ report' = AssembleReport(rows)
          /\ cli' = "printing"
       \/ /\ report # NoReport
          /\ cli' = "crashed"
          /\ UNCHANGED report
    /\ UNCHANGED <<attempt, metrics, stream, rows, finished>>

\* What _print_benchmark_summary reads of each element of summary.benchmarks.
PrintedFields ==
    {"benchmark_id", "total_requests", "successful_requests", "failure_count",
     "accuracy", "p50", "p95"}

\* An attribute that is not there raises AttributeError.
SummaryPrintable == \A benchmark \in report.benchmarks : PrintedFields \subseteq DOMAIN benchmark

\* print_summary, then JsonReporter.write
PrintAndWrite ==
    /\ cli = "printing"
    /\ cli' = IF SummaryPrintable THEN "written" ELSE "crashed"
    /\ UNCHANGED <<attempt, metrics, stream, rows, finished, report>>

Next ==
    \/ \E q \in Questions :
          \/ Launch(q)
          \/ \E outcome \in Outcomes : Reply(q, outcome)
          \/ HandleError(q)
          \/ Complete(q)
          \/ XAdd(q)
          \/ Published(q)
    \/ FinishRun
    \/ Persist
    \/ GetReport
    \/ BuildReport
    \/ PrintAndWrite

Spec == Init /\ [][Next]_vars

-----------------------------------------------------------------------------

\* The questions at a stage whose last reply is a result, or is not.
At(stages, has_result) ==
    {q \in Questions : /\ attempt[q].stage \in stages
                       /\ IsResult(attempt[q].outcome) = has_result}

\* The counters of a run balance at every moment, between any two steps of its
\* attempts: every request is in flight, answered or an error, every error is a
\* retry, a failure or not handled yet, and every kind of refusal is counted.  The
\* progress view is ahead of the stream by the question that is being published,
\* however often an event is repeated.
CountersBalance ==
    /\ metrics.http_attempts =
         metrics.http_in_flight + metrics.http_successes + metrics.retries
         + metrics.failure + Cardinality(At({"replied", "failed"}, FALSE))
    /\ metrics.http_successes = metrics.success + Cardinality(At({"replied"}, TRUE))
    /\ metrics.http_successes = Len(metrics.latencies_ms)
    /\ metrics.completed = metrics.success + metrics.failure
    /\ metrics.completed =
         Cardinality(Announced)
         + Cardinality({q \in Questions : attempt[q].stage = "publishing"})
    /\ metrics.completed <= Cardinality(Announced) + 1
    /\ metrics.correct =
         Cardinality({q \in At({"publishing", "appended", "settled"}, TRUE) :
                         attempt[q].outcome.correct})
    /\ metrics.rate_limited =
         metrics.limited["rpm"] + metrics.limited["concurrency"] + metrics.limited["generic"]
    /\ metrics.http_in_flight = Cardinality(At({"in_flight"}, FALSE))
    /\ metrics.peak_http_in_flight >= metrics.http_in_flight

\* v has a rank, counted without sorting, within half a place of percent of n - 1.
NearRank(v, values, percent) ==
    LET n == Cardinality(DOMAIN values)
        below == Cardinality({i \in DOMAIN values : values[i] < v})
        upto == Cardinality({i \in DOMAIN values : values[i] <= v})
    IN  \E rank \in below..(upto - 1) :
           /\ 200 * rank - 2 * (n - 1) * percent <= 100
           /\ 2 * (n - 1) * percent - 200 * rank <= 100

\* The percentiles of the progress view and of the report are latencies that were
\* measured, at the rank that is asked for; half of the latencies are on either
\* side of the median.
PercentilesAreRanks ==
    /\ metrics.latencies_ms # <<>> =>
         \A percent \in {50, 95} :
            NearRank(Percentile(metrics.latencies_ms, percent), metrics.latencies_ms, percent)
    /\ report # NoReport =>
         LET successes == {i \in 1..report.summary.total_requests : rows[i].success}
             latencies == [i \in successes |-> rows[i].latency_ms]
             n == Cardinality(successes)
         IN  n > 0 =>
             /\ NearRank(report.summary.p95, latencies, 95)
             /\ 2 * Cardinality({i \in successes : 2 * latencies[i] < report.summary.p50}) <= n
             /\ 2 * Cardinality({i \in successes : 2 * latencies[i] > report.summary.p50}) <= n

\* A report adds up: each of its requests has succeeded or failed, its benchmarks are
\* the whole run, and it holds no more successes and failures than the run has counted
\* itself, other than those whose event was repeated.
ReportAddsUp ==
    report # NoReport =>
        LET s == report.summary IN
        /\ s.total_requests = s.successful_requests + s.failure_count
        /\ s.total_requests <= metrics.completed + Repeated
        /\ s.successful_requests <= metrics.success + Repeated
        /\ s.failure_count <= metrics.failure + Repeated
        /\ s.successful_requests > 0 => s.min <= s.p95 /\ s.p95 <= s.max
                                        /\ 2 * s.min <= s.p50 /\ s.p50 <= 2 * s.max
        /\ \A b \in report.benchmarks :
              b.metrics = [s EXCEPT !.min = None, !.max = None]

\* Violated: the accuracy of a report that has every result is the share of the
\* answers that were graded correct, as in the example of the README, where 1000
\* successful requests have the accuracy 0.82.
AccuracyIsOfAnswers ==
    /\ report # NoReport
    /\ report.summary.total_requests = Cardinality(Questions)
    /\ Repeated = 0
    => report.summary.accuracy = SafeRatio(metrics.correct, metrics.success)

=============================================================================
