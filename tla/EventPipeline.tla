---------------------------- MODULE EventPipeline ----------------------------
(***************************************************************************)
(* From a run that is asked for to a report: the lifecycle of the run in   *)
(* the API process (interfaces/api/routes/runs.py, execute_benchmark), the *)
(* events on the Redis stream, the persistence consumer that copies them   *)
(* to PostgreSQL in a process of its own, and the report built on demand   *)
(* (build_report).  Either process may stop at any moment.                 *)
(*                                                                         *)
(* A scheduler is what QuestionLedger says of it: it announces each        *)
(* question once, in any order, unless an exception ends it.               *)
(***************************************************************************)
EXTENDS Integers, Sequences, FiniteSets

CONSTANTS
    Runs,          \* the runs that are asked for
    Questions,     \* the questions of each run
    Readers,       \* requests for a report that may be under way at once
    BatchSize,     \* count of XREADGROUP
    MaxFaults,     \* bound: crashes and failures
    MaxRetried     \* bound: commands repeated by the client of Redis

ASSUME PipelineConfig ==
    /\ IsFiniteSet(Questions)
    /\ BatchSize \in Nat \ {0}
    /\ MaxFaults \in Nat
    /\ MaxRetried \in Nat

VARIABLES
    \* PostgreSQL
    status,        \* runs.status
    completed,     \* runs.completed
    results,       \* the number of rows of question_results
    processed,     \* processed_events
    report,        \* run_reports: the number of results it was built from
    \* Redis
    stream,        \* benchmark-events; the id of an entry is its position
    group,         \* the group persistence: its last delivered id, pending entries
    \* The API process
    task,          \* where run_benchmark is
    unannounced,   \* the questions without an event
    reader,        \* the requests for a report
    \* The persistence consumer, with the messages it has received
    worker,
    \* Histories
    dropped,       \* entries that were delivered to a worker that lost them
    faults, retried

database == <<status, completed, results, processed>>
redis == <<stream, group>>
api == <<task, unannounced>>
counts == <<dropped, faults, retried>>
vars == <<database, report, redis, api, reader, worker, counts>>

NoReport == -1
NoGroup == [cursor |-> -1, pending |-> {}]
Down == [at |-> "down", next |-> 1, last |-> 0]
Idle == [at |-> "idle"]

Init ==
    /\ status = [r \in Runs |-> "absent"]
    /\ completed = [r \in Runs |-> 0]
    /\ results = [r \in Runs |-> 0]
    /\ processed = {}
    /\ report = [r \in Runs |-> NoReport]
    /\ stream = <<>>
    /\ group = NoGroup
    /\ task = [r \in Runs |-> "none"]
    /\ unannounced = [r \in Runs |-> Questions]
    /\ reader = [c \in Readers |-> Idle]
    /\ worker = Down
    /\ dropped = {}
    /\ faults = 0
    /\ retried = 0

Fault == faults < MaxFaults /\ faults' = faults + 1

\* The client of Redis repeats a command whose reply it lost.
Retry(n) == retried + n <= MaxRetried /\ retried' = retried + n

-----------------------------------------------------------------------------
(* The lifecycle of a run. *)

Event(r, q) == [type |-> "question_completed", run |-> r, question |-> q]
Completion(r) == [type |-> "run_completed", run |-> r]

\* create_run commits the row and starts run_benchmark as a detached task.
CreateRun(r) ==
    /\ task[r] = "none"
    /\ status' = [status EXCEPT ![r] = "queued"]
    /\ task' = [task EXCEPT ![r] = "starting"]
    /\ UNCHANGED <<completed, results, processed, report, redis, unannounced, reader,
                   worker, counts>>

MarkStarted(r) ==
    /\ task[r] = "starting"
    /\ status' = [status EXCEPT ![r] = "running"]
    /\ task' = [task EXCEPT ![r] = "scheduling"]
    /\ UNCHANGED <<completed, results, processed, report, redis, unannounced, reader,
                   worker, counts>>

\* The question is announced and still counts as not announced.
FaultyAnnounce(r, q, n) ==
    /\ stream' = stream \o [i \in 1..n |-> Event(r, q)]
    /\ UNCHANGED unannounced

\* n entries: more than one if replies to XADD are lost and the client repeats it.
Announce(r, q, n) ==
    /\ stream' = stream \o [i \in 1..n |-> Event(r, q)]
    /\ unannounced' = [unannounced EXCEPT ![r] = IF n = 0 THEN @ ELSE @ \ {q}]

PublishResult(r, q) ==
    /\ task[r] = "scheduling"
    /\ q \in unannounced[r]
    /\ \E n \in 1..(1 + MaxRetried) : Announce(r, q, n) /\ Retry(n - 1)
    /\ UNCHANGED <<database, report, group, task, reader, worker, dropped, faults>>

\* The exception of XADD, with the entries of all its tries that arrived.
PublishFails(r, q) ==
    /\ task[r] = "scheduling"
    /\ q \in unannounced[r]
    /\ Fault
    /\ \E n \in 0..(1 + MaxRetried) :
          Announce(r, q, n) /\ Retry(IF n = 0 THEN 0 ELSE n - 1)
    /\ task' = [task EXCEPT ![r] = "dead"]
    /\ UNCHANGED <<database, report, group, reader, worker, dropped>>

SchedulerDone(r) == unannounced[r] = {}

MarkFinished(r) ==
    /\ task[r] = "scheduling"
    /\ SchedulerDone(r)
    /\ status' = [status EXCEPT ![r] = "finished"]
    /\ task' = [task EXCEPT ![r] = "finishing"]
    /\ UNCHANGED <<completed, results, processed, report, redis, unannounced, reader,
                   worker, counts>>

\* An XADD that is repeated, or fails with the entry in the stream, is not told
\* apart here: the only consumer ignores this event.
PublishCompletion(r) ==
    /\ task[r] = "finishing"
    /\ stream' = Append(stream, Completion(r))
    /\ task' = [task EXCEPT ![r] = "ended"]
    /\ UNCHANGED <<database, report, group, unannounced, reader, worker, counts>>

Alive(r) == task[r] \in {"starting", "scheduling", "finishing"}

\* An exception ends the detached task; nobody awaits it.
TaskFails(r) ==
    /\ Alive(r)
    /\ Fault
    /\ task' = [task EXCEPT ![r] = "dead"]
    /\ UNCHANGED <<database, report, redis, unannounced, reader, worker, dropped, retried>>

\* The API process stops and is started again: its tasks and requests are gone.
ApiRestarts ==
    /\ Fault
    /\ task' = [r \in Runs |-> IF Alive(r) THEN "dead" ELSE task[r]]
    /\ reader' = [c \in Readers |-> Idle]
    /\ UNCHANGED <<database, report, redis, unannounced, worker, dropped, retried>>

-----------------------------------------------------------------------------
(* The persistence consumer. *)

\* xgroup_create with id "$" in place of "0".
FaultyGroupStart == Len(stream)

GroupStart == 0

\* ensure_group keeps a group that exists (BUSYGROUP).
StartWorker ==
    /\ worker.at = "down"
    /\ worker' = [worker EXCEPT !.at = "reading"]
    /\ group' = IF group = NoGroup THEN [group EXCEPT !.cursor = GroupStart] ELSE group
    /\ UNCHANGED <<database, report, stream, api, reader, counts>>

IsResult(id) == stream[id].type = "question_completed"

\* Every event is persisted.
FaultyFirstStep(id) == "persist"

FirstStep(id) == IF IsResult(id) THEN "persist" ELSE "acknowledge"

\* The loop is left after the first message.
FaultyNextMessage(id, last) == [at |-> "reading", next |-> id, last |-> last]

\* The loop over the messages received.
NextMessage(id, last) ==
    [at |-> IF id <= last THEN FirstStep(id) ELSE "reading", next |-> id, last |-> last]

\* Only a full batch is delivered.
FaultyAvailable == IF Len(stream) - group.cursor < BatchSize THEN 0 ELSE BatchSize

Available ==
    LET new == Len(stream) - group.cursor
    IN  IF new < BatchSize THEN new ELSE BatchSize

\* XREADGROUP with ">": the entries never delivered, which become pending.
Deliver ==
    /\ worker.at = "reading"
    /\ Available > 0
    /\ group' = [cursor |-> group.cursor + Available,
                 pending |-> group.pending
                              \cup (group.cursor + 1)..(group.cursor + Available)]

Read ==
    /\ Deliver
    /\ worker' = [at |-> FirstStep(group.cursor + 1), next |-> group.cursor + 1,
                  last |-> group.cursor + Available]
    /\ UNCHANGED <<database, report, stream, api, reader, counts>>

\* The reply is lost and the client of Redis repeats the command.
ReadReplyLost ==
    /\ Deliver
    /\ Retry(1)
    /\ dropped' = dropped \cup (group.cursor + 1)..(group.cursor + Available)
    /\ UNCHANGED <<database, report, stream, api, reader, worker, faults>>

\* One transaction: the row of the result, the counter of the run and the id.
Persist ==
    /\ worker.at = "persist"
    /\ LET id == worker.next
           r == stream[id].run
           new == id \notin processed
       IN  /\ results' = [results EXCEPT ![r] = IF new THEN @ + 1 ELSE @]
           /\ completed' = [completed EXCEPT ![r] = IF new THEN @ + 1 ELSE @]
           /\ processed' = processed \cup {id}
    /\ worker' = [worker EXCEPT !.at = "acknowledge"]
    /\ UNCHANGED <<status, report, redis, api, reader, counts>>

Acknowledge ==
    /\ worker.at = "acknowledge"
    /\ group' = [group EXCEPT !.pending = @ \ {worker.next}]
    /\ worker' = NextMessage(worker.next + 1, worker.last)
    /\ UNCHANGED <<database, report, stream, api, reader, counts>>

Unhandled == IF worker.at \in {"persist", "acknowledge"}
             THEN worker.next..worker.last ELSE {}

\* A crash, or an exception: a transaction or an acknowledgement that fails.
WorkerStops ==
    /\ worker.at # "down"
    /\ Fault
    /\ worker' = Down
    /\ dropped' = dropped \cup Unhandled
    /\ UNCHANGED <<database, report, redis, api, reader, retried>>

-----------------------------------------------------------------------------
(* The report. *)

AskReport(c, r) ==
    /\ reader[c] = Idle
    /\ status[r] = "finished"
    /\ report[r] = NoReport
    /\ reader' = [reader EXCEPT ![c] = [at |-> "building", run |-> r]]
    /\ UNCHANGED <<database, report, redis, api, worker, counts>>

ReadResults(c) ==
    /\ reader[c].at = "building"
    /\ LET r == reader[c].run
       IN  reader' = [reader EXCEPT ![c] = [at |-> "saving", run |-> r,
                                            rows |-> results[r]]]
    /\ UNCHANGED <<database, report, redis, api, worker, counts>>

\* An upsert.
FaultySaved(r, rows) == rows

\* The primary key refuses a second report: the request fails.
Saved(r, rows) == IF report[r] = NoReport THEN rows ELSE report[r]

SaveReport(c) ==
    /\ reader[c].at = "saving"
    /\ LET r == reader[c].run
       IN  report' = [report EXCEPT ![r] = Saved(r, reader[c].rows)]
    /\ reader' = [reader EXCEPT ![c] = Idle]
    /\ UNCHANGED <<database, redis, api, worker, counts>>

-----------------------------------------------------------------------------

Work == Read \/ Persist \/ Acknowledge

Progress(r) ==
    \/ MarkStarted(r)
    \/ \E q \in Questions : PublishResult(r, q) \/ PublishFails(r, q)
    \/ MarkFinished(r)
    \/ PublishCompletion(r)
    \/ TaskFails(r)

Uninterrupted ==
    \/ \E r \in Runs :
          \/ CreateRun(r)
          \/ Progress(r)
          \/ \E c \in Readers : AskReport(c, r)
    \/ \E c \in Readers : ReadResults(c) \/ SaveReport(c)
    \/ StartWorker
    \/ Work
    \/ ReadReplyLost
    \/ WorkerStops

Next == Uninterrupted \/ ApiRestarts

Spec == Init /\ [][Next]_vars

\* Replies and commits arrive or fail; nothing restarts a worker that stopped.
Fairness ==
    /\ \A r \in Runs : WF_vars(Progress(r))
    /\ \A c \in Readers : WF_vars(ReadResults(c) \/ SaveReport(c))
    /\ WF_vars(Work)

FairSpec == Spec /\ Fairness

-----------------------------------------------------------------------------

Results(r) == {id \in DOMAIN stream : IsResult(id) /\ stream[id].run = r}

\* The entries that were delivered and acknowledged.
Acknowledged == {id \in 1..group.cursor : id \notin group.pending}

\* Every variable keeps its type; the group never delivers an entry that is not there.
TypeOK ==
    /\ status \in [Runs -> {"absent", "queued", "running", "finished"}]
    /\ completed \in [Runs -> Nat]
    /\ results \in [Runs -> Nat]
    /\ processed \subseteq DOMAIN stream
    /\ report \in [Runs -> Nat \cup {NoReport}]
    /\ group.cursor \in -1..Len(stream)
    /\ group.pending \subseteq 1..group.cursor
    /\ task \in [Runs -> {"none", "starting", "scheduling", "finishing", "ended", "dead"}]
    /\ unannounced \in [Runs -> SUBSET Questions]
    /\ worker.at \in {"down", "reading", "persist", "acknowledge"}
    /\ worker.at \in {"persist", "acknowledge"} => worker.next \in 1..worker.last
    /\ dropped \subseteq DOMAIN stream
    /\ faults \in 0..MaxFaults
    /\ retried \in 0..MaxRetried

\* A result that was acknowledged, and will never be delivered again, is in the
\* database, wherever the worker stopped and started.
AcknowledgedIsPersisted ==
    \A id \in Acknowledged : IsResult(id) => id \in processed

\* An entry is pending only while the worker has it, or because a fault took it.
OnlyFaultsDrop == group.pending \subseteq Unhandled \cup dropped

\* The counter of a run is the number of its results in the database, one for each
\* entry: stopping between the commit and the acknowledgement counts nothing twice.
CountedOnce ==
    \A r \in Runs : completed[r] = Cardinality(Results(r) \cap processed)

\* The progress of a run never exceeds its total, but for XADDs that were repeated.
ProgressBounded ==
    \A r \in Runs : completed[r] <= Cardinality(Questions) + retried

\* run_completed comes after the events of all questions of its run.
CompletionIsLast ==
    \A id \in DOMAIN stream :
        ~IsResult(id) =>
            /\ \A q \in Questions : \E i \in 1..(id - 1) : stream[i] = Event(stream[id].run, q)
            /\ \A i \in Results(stream[id].run) : i < id

\* A report that was served is served ever after, also when several requests
\* build it at once.
ReportNeverChanges ==
    [][\A r \in Runs : report[r] # NoReport => report'[r] = report[r]]_vars

\* How far the worker is: the last entry of which nothing more is counted.
Handled ==
    CASE worker.at = "persist" -> worker.next - 1
      [] worker.at = "acknowledge" -> worker.next
      [] OTHER -> IF group = NoGroup THEN 0 ELSE group.cursor

Delivery == INSTANCE ResultDelivery WITH
    log <- stream, taken <- Handled, score <- completed, failures <- faults + retried

\* The stream, its consumer and the reports keep the promise of ResultDelivery: with
\* crashes between a transaction and its acknowledgement, workers that start anew and
\* requests that build one report at once, results are still counted in order, once
\* each, passed over only by a failure, and a report is written once, from results
\* that are there.
ImplementsDelivery == Delivery!Spec

\* As long as there is a worker, every entry is handled, unless a fault took it.
EveryEntryIsHandled ==
    []<>(worker.at # "down") =>
        \A id \in 1..(Cardinality(Runs) * (Cardinality(Questions) + 1) + MaxRetried) :
            id \in DOMAIN stream ~> id \in Acknowledged \cup dropped

-----------------------------------------------------------------------------
(* What the documentation says, and the code does not do. *)

\* "GET /runs/{run_id}/report serves the persisted report once the run is complete":
\* a report covers every question of its run.
ReportIsComplete ==
    \A r \in Runs : report[r] # NoReport => report[r] >= Cardinality(Questions)

\* "Pub/Sub is fire-and-forget: disconnected consumers lose messages. Streams retain
\* entries": a worker that is back persists every result in the stream.
DisconnectedLosesNothing ==
    <>[](worker.at # "down") =>
        \A id \in 1..(Cardinality(Runs) * (Cardinality(Questions) + 1) + MaxRetried) :
            (id \in DOMAIN stream /\ IsResult(id)) ~> id \in processed

\* "running -> failed": a run whose task failed is marked as failed.
FailureIsRecorded ==
    \A r \in Runs : task[r] = "dead" ~> status[r] \in {"finished", "failed"}

=============================================================================
