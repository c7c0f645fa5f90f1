------------------------ MODULE EventPipelineProofs ------------------------
(***************************************************************************)
(* Proofs about the event pipeline and the pages of its runs, for any      *)
(* number of runs, questions, requests and faults and any size of the      *)
(* batches; and that the pipeline implements ResultDelivery.               *)
(***************************************************************************)
EXTENDS RunPage, FiniteSetTheorems, SequenceTheorems, TLAPS

Entry ==
    [type : {"question_completed"}, run : Runs, question : Questions]
      \cup [type : {"run_completed"}, run : Runs]

Request ==
    {Idle} \cup [at : {"building"}, run : Runs]
           \cup [at : {"saving"}, run : Runs, rows : Nat]

DatabaseTyped ==
    /\ status \in [Runs -> {"absent", "queued", "running", "finished"}]
    /\ completed \in [Runs -> Nat]
    /\ results \in [Runs -> Nat]
    /\ processed \subseteq DOMAIN stream
    /\ report \in [Runs -> Nat \cup {NoReport}]

RedisTyped ==
    /\ stream \in Seq(Entry)
    /\ group \in [cursor : Int, pending : SUBSET Int]
    /\ group.cursor \in -1..Len(stream)
    /\ group.pending \subseteq 1..group.cursor
    /\ dropped \subseteq DOMAIN stream

ApiTyped ==
    /\ task \in [Runs -> {"none", "starting", "scheduling", "finishing", "ended", "dead"}]
    /\ unannounced \in [Runs -> SUBSET Questions]
    /\ reader \in [Readers -> Request]
    /\ faults \in 0..MaxFaults
    /\ retried \in 0..MaxRetried

\* What the worker has received is pending, and the result it is about to
\* acknowledge is in the database.
Handling ==
    /\ worker \in [at : {"down", "reading", "persist", "acknowledge"}, next : Nat, last : Nat]
    /\ worker.at # "down" => group.cursor >= 0
    /\ worker.at \in {"persist", "acknowledge"} =>
         /\ worker.next \in 1..worker.last
         /\ worker.last <= group.cursor
         /\ worker.next..worker.last \subseteq group.pending
    /\ worker.at = "persist" => IsResult(worker.next)
    /\ worker.at = "acknowledge" /\ IsResult(worker.next) => worker.next \in processed

\* The inductive invariant.
PipelineInv ==
    /\ DatabaseTyped
    /\ RedisTyped
    /\ ApiTyped
    /\ Handling
    /\ AcknowledgedIsPersisted
    /\ OnlyFaultsDrop
    /\ CountedOnce

-----------------------------------------------------------------------------
(* The stream. *)

Grows(s, t) ==
    /\ Len(s) <= Len(t)
    /\ \A id \in 1..Len(s) : t[id] = s[id]

\* A sequence with new entries that are all the same.
LEMMA Lengthened ==
    ASSUME NEW S, NEW s \in Seq(S), NEW t \in Seq(S), NEW e, NEW n \in Nat, Len(t) = n,
           \A i \in 1..n : t[i] = e
    PROVE  /\ Len(s \o t) = Len(s) + n
           /\ DOMAIN (s \o t) = 1..(Len(s) + n)
           /\ \A i \in 1..Len(s) : (s \o t)[i] = s[i]
           /\ \A i \in (Len(s) + 1)..(Len(s) + n) : (s \o t)[i] = e
<1>1. Len(s \o t) = Len(s) + n /\ DOMAIN (s \o t) = 1..(Len(s) + n)
  <2>1. s \o t \in Seq(S) /\ Len(s \o t) = Len(s) + n
    BY ConcatProperties
  <2>2. DOMAIN (s \o t) = 1..Len(s \o t)
    BY <2>1, LenProperties
  <2> QED BY <2>1, <2>2
<1>2. \A i \in 1..(Len(s) + n) :
         (s \o t)[i] = IF i <= Len(s) THEN s[i] ELSE t[i - Len(s)]
  BY ConcatProperties
<1>3. ASSUME NEW i \in (Len(s) + 1)..(Len(s) + n)
      PROVE  (s \o t)[i] = e
  <2>1. Len(s) \in Nat
    OBVIOUS
  <2>2. i \in 1..(Len(s) + n) /\ ~(i <= Len(s)) /\ i - Len(s) \in 1..n
    BY <2>1
  <2> QED BY <1>2, <2>2
<1>4. \A i \in 1..Len(s) : i \in 1..(Len(s) + n) /\ i <= Len(s)
  BY LenProperties
<1> QED BY <1>1, <1>2, <1>3, <1>4

\* Entries are only ever appended.
LEMMA AppendedEntries ==
    ASSUME stream \in Seq(Entry), NEW r \in Runs, NEW q \in Questions, NEW n \in Nat
    PROVE  /\ stream \o [i \in 1..n |-> Event(r, q)] \in Seq(Entry)
           /\ Grows(stream, stream \o [i \in 1..n |-> Event(r, q)])
<1> DEFINE new == [i \in 1..n |-> Event(r, q)]
<1>1. Event(r, q) \in Entry
  BY DEF Event, Entry
<1>2. new \in Seq(Entry) /\ Len(new) = n
  BY <1>1
<1> HIDE DEF new
<1>3. stream \o new \in Seq(Entry)
  BY <1>2
<1>4. Len(stream \o new) = Len(stream) + n
  BY <1>2
<1>5. \A id \in 1..Len(stream) : (stream \o new)[id] = stream[id]
  BY <1>2
<1>6. Grows(stream, stream \o new)
  BY <1>4, <1>5 DEF Grows
<1> QED BY <1>3, <1>6 DEF new

\* As AppendedEntries, for the event of the end of a run.
LEMMA AppendedCompletion ==
    ASSUME stream \in Seq(Entry), NEW r \in Runs
    PROVE  /\ Append(stream, Completion(r)) \in Seq(Entry)
           /\ Grows(stream, Append(stream, Completion(r)))
<1>1. Completion(r) \in Entry
  BY DEF Completion, Entry
<1> QED BY <1>1 DEF Grows

\* The results of a run in the database, as a set of entries.
Persisted(r) == Results(r) \cap processed

LEMMA PersistedFinite ==
    ASSUME stream \in Seq(Entry), NEW r
    PROVE  IsFiniteSet(Persisted(r))
<1>1. IsFiniteSet(1..Len(stream))
  BY FS_Interval
<1>2. Persisted(r) \subseteq 1..Len(stream)
  BY DEF Persisted, Results
<1> QED BY <1>1, <1>2, FS_Subset

-----------------------------------------------------------------------------
(* The API process appends to the stream and leaves the consumer alone. *)

LEMMA ApiStepInv ==
    ASSUME PipelineInv, DatabaseTyped', RedisTyped', ApiTyped',
           UNCHANGED <<completed, processed, group, worker, dropped>>,
           Grows(stream, stream')
    PROVE  PipelineInv'
<1> USE DEF PipelineInv
<1>1. /\ stream \in Seq(Entry) /\ stream' \in Seq(Entry)
      /\ Len(stream) \in Nat /\ Len(stream') \in Nat
      /\ DOMAIN stream = 1..Len(stream) /\ DOMAIN stream' = 1..Len(stream')
  BY DEF RedisTyped
<1>2. \A id \in 1..Len(stream) : IsResult(id)' <=> IsResult(id)
  BY DEF Grows, IsResult
<1>3. Handling'
  <2>1. worker.at \in {"persist", "acknowledge"} => worker.next \in 1..Len(stream)
    BY <1>1 DEF Handling, RedisTyped
  <2> QED BY <1>2, <2>1 DEF Handling
<1>4. AcknowledgedIsPersisted'
  BY <1>1, <1>2 DEF AcknowledgedIsPersisted, Acknowledged, RedisTyped
<1>5. OnlyFaultsDrop'
  BY DEF OnlyFaultsDrop, Unhandled
<1>6. CountedOnce'
  <2>1. ASSUME NEW r \in Runs
        PROVE  (Results(r) \cap processed)' = Results(r) \cap processed
    BY <1>1, <1>2 DEF Results, DatabaseTyped, Grows
  <2> QED BY <2>1 DEF CountedOnce
<1> QED BY <1>3, <1>4, <1>5, <1>6

LEMMA CreateRunInv ==
    ASSUME PipelineInv, NEW r \in Runs, CreateRun(r)
    PROVE  PipelineInv'
<1> USE DEF CreateRun, redis, counts
<1>1. DatabaseTyped' /\ RedisTyped' /\ ApiTyped'
  BY DEF PipelineInv, DatabaseTyped, RedisTyped, ApiTyped
<1>2. Grows(stream, stream')
  BY DEF PipelineInv, RedisTyped, Grows
<1> QED BY <1>1, <1>2, ApiStepInv

LEMMA MarkStartedInv ==
    ASSUME PipelineInv, NEW r \in Runs, MarkStarted(r)
    PROVE  PipelineInv'
<1> USE DEF MarkStarted, redis, counts
<1>1. DatabaseTyped' /\ RedisTyped' /\ ApiTyped'
  BY DEF PipelineInv, DatabaseTyped, RedisTyped, ApiTyped
<1>2. Grows(stream, stream')
  BY DEF PipelineInv, RedisTyped, Grows
<1> QED BY <1>1, <1>2, ApiStepInv

LEMMA MarkFinishedInv ==
    ASSUME PipelineInv, NEW r \in Runs, MarkFinished(r)
    PROVE  PipelineInv'
<1> USE DEF MarkFinished, redis, counts
<1>1. DatabaseTyped' /\ RedisTyped' /\ ApiTyped'
  BY DEF PipelineInv, DatabaseTyped, RedisTyped, ApiTyped
<1>2. Grows(stream, stream')
  BY DEF PipelineInv, RedisTyped, Grows
<1> QED BY <1>1, <1>2, ApiStepInv

\* Typing of a stream that has grown.
LEMMA GrownTyped ==
    ASSUME PipelineInv, stream' \in Seq(Entry), Grows(stream, stream'),
           UNCHANGED <<database, report, group, dropped>>
    PROVE  DatabaseTyped' /\ RedisTyped'
<1>1. DOMAIN stream \subseteq DOMAIN stream' /\ Len(stream) <= Len(stream')
      /\ Len(stream) \in Nat /\ Len(stream') \in Nat
  BY DEF PipelineInv, RedisTyped, Grows
<1> QED BY <1>1 DEF PipelineInv, RedisTyped, DatabaseTyped, database

LEMMA PublishResultInv ==
    ASSUME PipelineInv, NEW r \in Runs, NEW q \in Questions, PublishResult(r, q)
    PROVE  PipelineInv'
<1> PICK n \in 1..(1 + MaxRetried) : Announce(r, q, n) /\ Retry(n - 1)
  BY DEF PublishResult
<1>1. stream' \in Seq(Entry) /\ Grows(stream, stream')
  <2>1. stream \in Seq(Entry) /\ n \in Nat
    BY PipelineConfig DEF PipelineInv, RedisTyped
  <2>2. stream' = stream \o [i \in 1..n |-> Event(r, q)]
    BY DEF Announce
  <2> QED BY ONLY <2>1, <2>2, AppendedEntries, r \in Runs, q \in Questions
<1>2. UNCHANGED <<database, report, group, task, reader, worker, dropped, faults>>
  BY DEF PublishResult
<1>3. DatabaseTyped' /\ RedisTyped'
  BY <1>1, <1>2, GrownTyped
<1>4. ApiTyped'
  <2>1. unannounced' \in [Runs -> SUBSET Questions]
    BY DEF Announce, PipelineInv, ApiTyped
  <2>2. retried' \in 0..MaxRetried
    BY PipelineConfig DEF Retry, PipelineInv, ApiTyped
  <2> QED BY <1>2, <2>1, <2>2 DEF PipelineInv, ApiTyped
<1> QED BY <1>1, <1>2, <1>3, <1>4, ApiStepInv DEF database

LEMMA PublishFailsInv ==
    ASSUME PipelineInv, NEW r \in Runs, NEW q \in Questions, PublishFails(r, q)
    PROVE  PipelineInv'
<1> PICK n \in 0..(1 + MaxRetried) :
            Announce(r, q, n) /\ Retry(IF n = 0 THEN 0 ELSE n - 1)
  BY DEF PublishFails
<1>1. stream' \in Seq(Entry) /\ Grows(stream, stream')
  <2>1. stream \in Seq(Entry) /\ n \in Nat
    BY PipelineConfig DEF PipelineInv, RedisTyped
  <2>2. stream' = stream \o [i \in 1..n |-> Event(r, q)]
    BY DEF Announce
  <2> QED BY ONLY <2>1, <2>2, AppendedEntries, r \in Runs, q \in Questions
<1>2. /\ UNCHANGED <<database, report, group, reader, worker, dropped>>
      /\ task' = [task EXCEPT ![r] = "dead"]
      /\ Fault
  BY DEF PublishFails
<1>3. DatabaseTyped' /\ RedisTyped'
  BY <1>1, <1>2, GrownTyped
<1>4. ApiTyped'
  <2>1. unannounced' \in [Runs -> SUBSET Questions]
    BY DEF Announce, PipelineInv, ApiTyped
  <2>2. faults' \in 0..MaxFaults
    BY <1>2, PipelineConfig DEF Fault, PipelineInv, ApiTyped
  <2>3. retried' \in 0..MaxRetried
    BY PipelineConfig DEF Retry, PipelineInv, ApiTyped
  <2> QED BY <1>2, <2>1, <2>2, <2>3 DEF PipelineInv, ApiTyped
<1> QED BY <1>1, <1>2, <1>3, <1>4, ApiStepInv DEF database

LEMMA PublishCompletionInv ==
    ASSUME PipelineInv, NEW r \in Runs, PublishCompletion(r)
    PROVE  PipelineInv'
<1>1. stream' \in Seq(Entry) /\ Grows(stream, stream')
  BY AppendedCompletion DEF PublishCompletion, PipelineInv, RedisTyped
<1>2. /\ UNCHANGED <<database, report, group, unannounced, reader, worker, counts>>
      /\ task' = [task EXCEPT ![r] = "ended"]
  BY DEF PublishCompletion
<1>3. DatabaseTyped' /\ RedisTyped'
  BY <1>1, <1>2, GrownTyped DEF counts
<1>4. ApiTyped'
  BY <1>2 DEF PipelineInv, ApiTyped, counts
<1> QED BY <1>1, <1>2, <1>3, <1>4, ApiStepInv DEF database, counts

\* Nothing but the tasks, the requests, the reports and the faults has changed.
LEMMA QuietInv ==
    ASSUME PipelineInv, ApiTyped', report' \in [Runs -> Nat \cup {NoReport}],
           UNCHANGED <<database, redis, worker, dropped>>
    PROVE  PipelineInv'
<1> USE DEF database, redis
<1>1. DatabaseTyped' /\ RedisTyped'
  BY DEF PipelineInv, DatabaseTyped, RedisTyped
<1>2. Grows(stream, stream')
  BY DEF PipelineInv, RedisTyped, Grows
<1> QED BY <1>1, <1>2, ApiStepInv

LEMMA TaskFailsInv ==
    ASSUME PipelineInv, NEW r \in Runs, TaskFails(r)
    PROVE  PipelineInv'
<1>1. ApiTyped'
  BY PipelineConfig DEF TaskFails, Fault, PipelineInv, ApiTyped
<1> QED BY <1>1, QuietInv DEF TaskFails, PipelineInv, DatabaseTyped

LEMMA ApiRestartsInv ==
    ASSUME PipelineInv, ApiRestarts
    PROVE  PipelineInv'
<1>1. ApiTyped'
  BY PipelineConfig DEF ApiRestarts, Fault, PipelineInv, ApiTyped, Request
<1> QED BY <1>1, QuietInv DEF ApiRestarts, PipelineInv, DatabaseTyped

-----------------------------------------------------------------------------
(* The report. *)

LEMMA AskReportInv ==
    ASSUME PipelineInv, NEW c \in Readers, NEW r \in Runs, AskReport(c, r)
    PROVE  PipelineInv'
<1>1. [at |-> "building", run |-> r] \in Request
  BY DEF Request
<1>2. ApiTyped'
  BY <1>1 DEF AskReport, PipelineInv, ApiTyped, api, counts
<1> QED BY <1>2, QuietInv DEF AskReport, PipelineInv, DatabaseTyped, counts

LEMMA ReadResultsInv ==
    ASSUME PipelineInv, NEW c \in Readers, ReadResults(c)
    PROVE  PipelineInv'
<1> DEFINE r == reader[c].run
<1>1. reader[c] \in Request /\ reader[c].at = "building"
  BY DEF ReadResults, PipelineInv, ApiTyped
<1>2. r \in Runs
  BY <1>1 DEF Request, Idle
<1>3. results[r] \in Nat
  BY <1>2 DEF PipelineInv, DatabaseTyped
<1>4. [at |-> "saving", run |-> r, rows |-> results[r]] \in Request
  BY <1>2, <1>3 DEF Request
<1>5. ApiTyped'
  BY <1>4 DEF ReadResults, PipelineInv, ApiTyped, api, counts
<1> QED BY <1>5, QuietInv DEF ReadResults, PipelineInv, DatabaseTyped, counts

LEMMA SaveReportInv ==
    ASSUME PipelineInv, NEW c \in Readers, SaveReport(c)
    PROVE  PipelineInv'
<1> DEFINE r == reader[c].run
<1>1. reader[c] \in Request /\ reader[c].at = "saving"
  BY DEF SaveReport, PipelineInv, ApiTyped
<1>2. r \in Runs /\ reader[c].rows \in Nat
  BY <1>1 DEF Request, Idle
<1>3. report' \in [Runs -> Nat \cup {NoReport}]
  BY <1>2 DEF SaveReport, Saved, PipelineInv, DatabaseTyped
<1>4. ApiTyped'
  BY DEF SaveReport, PipelineInv, ApiTyped, api, counts, Request
<1> QED BY <1>3, <1>4, QuietInv DEF SaveReport, counts

-----------------------------------------------------------------------------
(* The consumer. *)

LEMMA StartWorkerInv ==
    ASSUME PipelineInv, StartWorker
    PROVE  PipelineInv'
<1> USE DEF StartWorker, database, api, counts
<1>1. /\ group \in [cursor : Int, pending : SUBSET Int]
      /\ group.cursor \in -1..Len(stream) /\ group.pending \subseteq 1..group.cursor
      /\ Len(stream) \in Nat
  BY DEF PipelineInv, RedisTyped
<1>2. /\ group' \in [cursor : Int, pending : SUBSET Int]
      /\ group'.cursor \in 0..Len(stream)
      /\ group'.pending = group.pending
      /\ 1..group'.cursor = 1..group.cursor
  <2>1. CASE group = NoGroup
    BY <1>1, <2>1 DEF NoGroup, GroupStart
  <2>2. CASE group # NoGroup
    <3>1. group.cursor # -1
      <4>1. SUFFICES ASSUME group.cursor = -1 PROVE FALSE
        OBVIOUS
      <4>2. group.pending = {}
        BY <1>1, <4>1
      <4> QED BY <1>1, <2>2, <4>1, <4>2 DEF NoGroup
    <3> QED BY <1>1, <2>2, <3>1
  <2> QED BY <2>1, <2>2
<1>3. RedisTyped'
  <2>1. group'.pending \subseteq 1..group'.cursor
    BY <1>1, <1>2
  <2>2. stream' = stream /\ dropped' = dropped
    OBVIOUS
  <2>3. stream \in Seq(Entry) /\ dropped \subseteq DOMAIN stream
    BY DEF PipelineInv, RedisTyped
  <2>4. group'.cursor \in -1..Len(stream)
    BY <1>1, <1>2
  <2> QED BY <1>2, <2>1, <2>2, <2>3, <2>4 DEF RedisTyped
<1>4. DatabaseTyped' /\ ApiTyped'
  BY DEF PipelineInv, DatabaseTyped, ApiTyped
<1>5. Handling'
  BY <1>2 DEF PipelineInv, Handling
<1>6. AcknowledgedIsPersisted'
  BY <1>2 DEF PipelineInv, AcknowledgedIsPersisted, Acknowledged, IsResult
<1>7. OnlyFaultsDrop'
  BY <1>2 DEF PipelineInv, OnlyFaultsDrop, Unhandled, Handling
<1>8. CountedOnce'
  BY DEF PipelineInv, CountedOnce, Results, IsResult
<1> QED BY <1>3, <1>4, <1>5, <1>6, <1>7, <1>8 DEF PipelineInv

\* A delivery moves the cursor and makes what it passes pending.
LEMMA DeliveredTyped ==
    ASSUME PipelineInv, Deliver, UNCHANGED <<database, report, stream>>
    PROVE  LET new == (group.cursor + 1)..(group.cursor + Available)
           IN  /\ DatabaseTyped'
               /\ group' \in [cursor : Int, pending : SUBSET Int]
               /\ group.cursor >= 0 /\ group.cursor \in Int
               /\ Available \in Nat /\ Available > 0
               /\ group'.cursor = group.cursor + Available
               /\ group'.cursor <= Len(stream) /\ group'.cursor \in Nat
               /\ group'.pending = group.pending \cup new
               /\ group'.pending \subseteq 1..group'.cursor
               /\ new \subseteq DOMAIN stream
               /\ group.pending \subseteq dropped
<1> USE DEF database
<1>1. /\ group \in [cursor : Int, pending : SUBSET Int]
      /\ group.cursor \in 0..Len(stream) /\ group.pending \subseteq 1..group.cursor
      /\ Len(stream) \in Nat /\ DOMAIN stream = 1..Len(stream)
  BY DEF PipelineInv, RedisTyped, Handling, Deliver
<1>2. Available \in Nat /\ Available > 0 /\ group.cursor + Available <= Len(stream)
  BY <1>1, PipelineConfig DEF Available, Deliver
<1>3. /\ group'.cursor = group.cursor + Available
      /\ group'.pending = group.pending \cup (group.cursor + 1)..(group.cursor + Available)
      /\ group' \in [cursor : Int, pending : SUBSET Int]
  BY <1>1, <1>2 DEF Deliver
<1>4. group.pending \subseteq dropped
  BY DEF PipelineInv, OnlyFaultsDrop, Unhandled, Deliver
<1>5. DatabaseTyped'
  BY DEF PipelineInv, DatabaseTyped
<1> QED BY <1>1, <1>2, <1>3, <1>4, <1>5

\* What a delivery leaves of the acknowledged entries and of the counters.
LEMMA DeliveredKeeps ==
    ASSUME PipelineInv, Deliver, UNCHANGED <<database, report, stream>>
    PROVE  AcknowledgedIsPersisted' /\ CountedOnce'
<1>1. /\ group.cursor \in Int
      /\ Available \in Nat
      /\ group'.cursor = group.cursor + Available
      /\ group'.pending = group.pending \cup (group.cursor + 1)..(group.cursor + Available)
  BY DeliveredTyped
<1>2. Acknowledged' \subseteq Acknowledged
  BY <1>1 DEF Acknowledged
<1>3. AcknowledgedIsPersisted'
  BY <1>2 DEF PipelineInv, AcknowledgedIsPersisted, IsResult, database
<1>4. CountedOnce'
  BY DEF PipelineInv, CountedOnce, Results, IsResult, database
<1> QED BY <1>3, <1>4

LEMMA ReadInv ==
    ASSUME PipelineInv, Read
    PROVE  PipelineInv'
<1> DEFINE first == group.cursor + 1
           final == group.cursor + Available
<1>1. Deliver /\ UNCHANGED <<database, report, stream>>
  BY DEF Read
<1>2. /\ DatabaseTyped'
      /\ group' \in [cursor : Int, pending : SUBSET Int]
      /\ group.cursor >= 0 /\ group.cursor \in Int
      /\ Available \in Nat /\ Available > 0
      /\ group'.cursor = final
      /\ group'.cursor <= Len(stream) /\ group'.cursor \in Nat
      /\ group'.pending = group.pending \cup first..final
      /\ group'.pending \subseteq 1..group'.cursor
      /\ group.pending \subseteq dropped
  BY <1>1, DeliveredTyped
<1>3. worker' = [at |-> FirstStep(first), next |-> first, last |-> final]
  BY DEF Read
<1>4. RedisTyped'
  <2>1. dropped' = dropped /\ stream' = stream
    BY DEF Read, counts
  <2>2. stream \in Seq(Entry) /\ Len(stream) \in Nat /\ dropped \subseteq DOMAIN stream
    BY DEF PipelineInv, RedisTyped
  <2> QED BY <1>2, <2>1, <2>2 DEF RedisTyped
<1>5. ApiTyped'
  BY DEF Read, PipelineInv, ApiTyped, api, counts
<1>6. Handling'
  <2>1. first \in Nat /\ final \in Nat /\ first \in 1..final
    BY <1>2
  <2>2. worker' \in [at : {"down", "reading", "persist", "acknowledge"}, next : Nat, last : Nat]
    BY <1>3, <2>1 DEF FirstStep
  <2>3. /\ worker'.at = "persist" => IsResult(first)
        /\ worker'.at = "acknowledge" => ~IsResult(first)
    BY <1>3 DEF FirstStep
  <2>4. stream' = stream /\ processed' = processed
    BY <1>1 DEF database
  <2>5. worker'.next = first /\ worker'.last = final
    BY <1>3
  <2> HIDE DEF first, final
  <2> QED BY <1>2, <2>1, <2>2, <2>3, <2>4, <2>5 DEF Handling, IsResult
<1>7. OnlyFaultsDrop'
  <2>1. Unhandled' = first..final
    BY <1>3 DEF Unhandled, FirstStep
  <2>2. dropped' = dropped
    BY DEF Read, counts
  <2> QED BY <1>2, <2>1, <2>2 DEF OnlyFaultsDrop
<1> QED BY <1>1, <1>2, <1>4, <1>5, <1>6, <1>7, DeliveredKeeps DEF PipelineInv

LEMMA ReadReplyLostInv ==
    ASSUME PipelineInv, ReadReplyLost
    PROVE  PipelineInv'
<1> DEFINE new == (group.cursor + 1)..(group.cursor + Available)
<1>1. Deliver /\ UNCHANGED <<database, report, stream>> /\ worker' = worker
      /\ dropped' = dropped \cup new
  BY DEF ReadReplyLost
<1>2. /\ DatabaseTyped'
      /\ group' \in [cursor : Int, pending : SUBSET Int]
      /\ group'.cursor <= Len(stream) /\ group'.cursor \in Nat
      /\ group'.pending = group.pending \cup new
      /\ group'.pending \subseteq 1..group'.cursor
      /\ new \subseteq DOMAIN stream
      /\ group.pending \subseteq dropped
  BY <1>1, DeliveredTyped
<1> HIDE DEF new
<1>3. RedisTyped'
  <2>1. stream \in Seq(Entry) /\ Len(stream) \in Nat /\ dropped \subseteq DOMAIN stream
    BY DEF PipelineInv, RedisTyped
  <2> QED BY <1>1, <1>2, <2>1 DEF RedisTyped
<1>4. ApiTyped'
  BY PipelineConfig DEF ReadReplyLost, Retry, PipelineInv, ApiTyped, api
<1>5. Handling'
  BY <1>1, <1>2 DEF PipelineInv, Handling, Deliver
<1>6. OnlyFaultsDrop'
  BY <1>1, <1>2 DEF OnlyFaultsDrop
<1> QED BY <1>1, <1>2, <1>3, <1>4, <1>5, <1>6, DeliveredKeeps DEF PipelineInv

\* The transaction counts an entry that was not counted before.
LEMMA PersistCounts ==
    ASSUME PipelineInv, Persist
    PROVE  CountedOnce'
<1> DEFINE id == worker.next
           r == stream[id].run
<1>1. /\ stream \in Seq(Entry) /\ stream' = stream /\ DOMAIN stream = 1..Len(stream)
      /\ Len(stream) \in Nat
      /\ id \in DOMAIN stream /\ IsResult(id)
  BY DEF PipelineInv, RedisTyped, Handling, Persist, redis
<1>2. r \in Runs
  BY <1>1 DEF Entry
<1>3. /\ processed' = processed \cup {id}
      /\ completed' = [completed EXCEPT ![r] = IF id \notin processed THEN @ + 1 ELSE @]
  BY DEF Persist
<1>4. completed \in [Runs -> Nat] /\ \A x \in Runs : completed[x] = Cardinality(Persisted(x))
  BY DEF PipelineInv, DatabaseTyped, CountedOnce, Persisted
<1>5. \A x : Results(x)' = Results(x)
  BY <1>1 DEF Results, IsResult
<1>6. id \in Results(r) /\ \A x \in Runs : x # r => id \notin Results(x)
  BY <1>1 DEF Results
<1> HIDE DEF id, r
<1>7. ASSUME NEW x \in Runs
      PROVE  completed'[x] = Cardinality(Results(x) \cap processed')
  <2>1. CASE x = r /\ id \notin processed
    <3>1. Results(x) \cap processed' = Persisted(x) \cup {id} /\ id \notin Persisted(x)
      BY <1>3, <1>6, <2>1 DEF Persisted
    <3>2. Cardinality(Persisted(x) \cup {id}) = Cardinality(Persisted(x)) + 1
      BY <1>1, <3>1, PersistedFinite, FS_AddElement
    <3> QED BY <1>3, <1>4, <2>1, <3>1, <3>2
  <2>2. CASE ~(x = r /\ id \notin processed)
    <3>1. Results(x) \cap processed' = Persisted(x)
      BY <1>3, <1>6, <2>2 DEF Persisted
    <3> QED BY <1>3, <1>4, <2>2, <3>1
  <2> QED BY <2>1, <2>2
<1> QED BY <1>5, <1>7 DEF CountedOnce

LEMMA PersistInv ==
    ASSUME PipelineInv, Persist
    PROVE  PipelineInv'
<1> DEFINE id == worker.next
<1>1. /\ stream \in Seq(Entry) /\ DOMAIN stream = 1..Len(stream) /\ Len(stream) \in Nat
      /\ id \in DOMAIN stream
  BY DEF PipelineInv, RedisTyped, Handling, Persist
<1>2. stream[id].run \in Runs
  BY <1>1 DEF Entry
<1>3. /\ processed' = processed \cup {id}
      /\ worker' = [worker EXCEPT !.at = "acknowledge"]
      /\ UNCHANGED <<status, report, redis, api, reader, counts>>
  BY DEF Persist
<1>4. DatabaseTyped'
  <2>1. completed' \in [Runs -> Nat] /\ results' \in [Runs -> Nat]
    BY <1>2 DEF Persist, PipelineInv, DatabaseTyped
  <2> QED BY <1>1, <1>3, <2>1 DEF PipelineInv, DatabaseTyped, redis
<1>5. RedisTyped' /\ ApiTyped'
  BY <1>3 DEF PipelineInv, RedisTyped, ApiTyped, redis, api, counts
<1>6. Handling'
  BY <1>3 DEF PipelineInv, Handling, Persist, redis, IsResult
<1>7. AcknowledgedIsPersisted'
  BY <1>3 DEF PipelineInv, AcknowledgedIsPersisted, Acknowledged, IsResult, redis
<1>8. OnlyFaultsDrop'
  BY <1>3 DEF PipelineInv, OnlyFaultsDrop, Unhandled, Persist, Handling, redis, counts
<1> QED BY <1>4, <1>5, <1>6, <1>7, <1>8, PersistCounts DEF PipelineInv

LEMMA AcknowledgeInv ==
    ASSUME PipelineInv, Acknowledge
    PROVE  PipelineInv'
<1> DEFINE id == worker.next
           last == worker.last
<1> USE DEF database, api, counts
<1>1. /\ worker.at = "acknowledge"
      /\ group' = [group EXCEPT !.pending = @ \ {id}]
      /\ worker' = NextMessage(id + 1, last)
      /\ UNCHANGED <<database, report, stream, api, reader, counts>>
  BY DEF Acknowledge
<1>2. /\ group \in [cursor : Int, pending : SUBSET Int]
      /\ id \in Nat /\ last \in Nat /\ id \in 1..last /\ last <= group.cursor
      /\ id..last \subseteq group.pending
      /\ IsResult(id) => id \in processed
      /\ group.cursor >= 0
      /\ group.pending \subseteq id..last \cup dropped
  BY <1>1 DEF PipelineInv, RedisTyped, Handling, OnlyFaultsDrop, Unhandled
<1>3. /\ group'.cursor = group.cursor /\ group'.pending = group.pending \ {id}
      /\ group' \in [cursor : Int, pending : SUBSET Int]
  BY <1>1, <1>2
<1>4. /\ worker' \in [at : {"down", "reading", "persist", "acknowledge"}, next : Nat, last : Nat]
      /\ worker'.next = id + 1 /\ worker'.last = last
      /\ worker'.at \in {"persist", "acknowledge"} <=> id + 1 <= last
      /\ worker'.at = "persist" => IsResult(id + 1)
      /\ worker'.at = "acknowledge" => ~IsResult(id + 1)
  BY <1>1, <1>2 DEF NextMessage, FirstStep
<1> HIDE DEF id, last
<1>5. DatabaseTyped' /\ RedisTyped' /\ ApiTyped'
  BY <1>1, <1>2, <1>3 DEF PipelineInv, DatabaseTyped, RedisTyped, ApiTyped
<1>6. Handling'
  <2>1. stream' = stream /\ processed' = processed
    BY <1>1
  <2>2. id + 1 <= last => (id + 1)..last \subseteq group'.pending
    BY <1>2, <1>3
  <2> QED BY <1>2, <1>3, <1>4, <2>1, <2>2 DEF Handling, IsResult
<1>7. AcknowledgedIsPersisted'
  <2>1. Acknowledged' \subseteq Acknowledged \cup {id}
    BY <1>3 DEF Acknowledged
  <2>2. processed' = processed /\ \A x : IsResult(x)' <=> IsResult(x)
    BY <1>1 DEF IsResult
  <2> QED BY <1>2, <2>1, <2>2 DEF PipelineInv, AcknowledgedIsPersisted
<1>8. OnlyFaultsDrop'
  <2>1. Unhandled' = IF id + 1 <= last THEN (id + 1)..last ELSE {}
    BY <1>4 DEF Unhandled
  <2> QED BY <1>1, <1>2, <1>3, <2>1 DEF OnlyFaultsDrop
<1>9. CountedOnce'
  BY <1>1 DEF PipelineInv, CountedOnce, Results, IsResult
<1> QED BY <1>5, <1>6, <1>7, <1>8, <1>9 DEF PipelineInv

LEMMA WorkerStopsInv ==
    ASSUME PipelineInv, WorkerStops
    PROVE  PipelineInv'
<1> USE DEF database, redis, api
<1>1. /\ worker' = Down /\ dropped' = dropped \cup Unhandled
      /\ UNCHANGED <<database, report, redis, api, reader, retried>>
  BY DEF WorkerStops
<1>2. Unhandled \subseteq DOMAIN stream
  BY DEF PipelineInv, Handling, RedisTyped, Unhandled
<1>3. DatabaseTyped' /\ RedisTyped'
  BY <1>1, <1>2 DEF PipelineInv, DatabaseTyped, RedisTyped
<1>4. ApiTyped'
  BY <1>1, PipelineConfig DEF WorkerStops, Fault, PipelineInv, ApiTyped
<1>5. Handling'
  BY <1>1 DEF Handling, Down
<1>6. OnlyFaultsDrop'
  BY <1>1 DEF PipelineInv, OnlyFaultsDrop, Unhandled
<1>7. AcknowledgedIsPersisted' /\ CountedOnce'
  BY <1>1 DEF PipelineInv, AcknowledgedIsPersisted, Acknowledged, CountedOnce, Results, IsResult
<1> QED BY <1>3, <1>4, <1>5, <1>6, <1>7 DEF PipelineInv

-----------------------------------------------------------------------------

LEMMA InitInv == Init => PipelineInv
<1> SUFFICES ASSUME Init PROVE PipelineInv
  OBVIOUS
<1> USE DEF Init
<1>1. DOMAIN stream = {} /\ Len(stream) = 0 /\ stream \in Seq(Entry)
  OBVIOUS
<1>2. DatabaseTyped
  BY <1>1 DEF DatabaseTyped
<1>3. RedisTyped
  BY <1>1 DEF RedisTyped, NoGroup
<1>4. ApiTyped
  BY PipelineConfig DEF ApiTyped, Request
<1>5. Handling
  BY DEF Handling, Down
<1>6. AcknowledgedIsPersisted /\ OnlyFaultsDrop
  BY DEF AcknowledgedIsPersisted, OnlyFaultsDrop, Acknowledged, NoGroup
<1>7. CountedOnce
  <2>1. \A r \in Runs : Results(r) \cap processed = {}
    OBVIOUS
  <2> QED BY <2>1, FS_EmptySet DEF CountedOnce
<1> QED BY <1>2, <1>3, <1>4, <1>5, <1>6, <1>7 DEF PipelineInv

\* Every step preserves the inductive invariant.
LEMMA PipelineKept == PipelineInv /\ [Next]_vars => PipelineInv'
<1> SUFFICES ASSUME PipelineInv, [Next]_vars PROVE PipelineInv'
  OBVIOUS
<1>1. CASE \E r \in Runs : CreateRun(r)
  BY <1>1, CreateRunInv
<1>2. CASE \E r \in Runs : Progress(r)
  <2> PICK r \in Runs : Progress(r)
    BY <1>2
  <2> QED BY MarkStartedInv, PublishResultInv, PublishFailsInv, MarkFinishedInv,
             PublishCompletionInv, TaskFailsInv DEF Progress
<1>3. CASE \E r \in Runs, c \in Readers : AskReport(c, r)
  BY <1>3, AskReportInv
<1>4. CASE \E c \in Readers : ReadResults(c) \/ SaveReport(c)
  BY <1>4, ReadResultsInv, SaveReportInv
<1>5. CASE ApiRestarts
  BY <1>5, ApiRestartsInv
<1>6. CASE StartWorker
  BY <1>6, StartWorkerInv
<1>7. CASE Work
  BY <1>7, ReadInv, PersistInv, AcknowledgeInv DEF Work
<1>8. CASE ReadReplyLost
  BY <1>8, ReadReplyLostInv
<1>9. CASE WorkerStops
  BY <1>9, WorkerStopsInv
<1>10. CASE UNCHANGED vars
  <2>1. ApiTyped'
    BY <1>10 DEF PipelineInv, ApiTyped, vars, api, counts
  <2> QED BY <1>10, <2>1, QuietInv DEF vars, counts, PipelineInv, DatabaseTyped
<1> QED BY <1>1, <1>2, <1>3, <1>4, <1>5, <1>6, <1>7, <1>8, <1>9, <1>10 DEF Next, Uninterrupted

\* The inductive invariant of the pipeline.
THEOREM PipelineInvariant == Spec => []PipelineInv
  BY PipelineKept, InitInv, PTL DEF Spec

\* Every variable keeps its type, and the group delivers only what is in the stream.
THEOREM PipelineTypeCorrect == Spec => []TypeOK
<1>1. PipelineInv => TypeOK
  BY DEF PipelineInv, TypeOK, DatabaseTyped, RedisTyped, ApiTyped, Handling
<1> QED BY <1>1, PipelineInvariant, PTL

\* Once an event is acknowledged its result is in the database.
THEOREM AcknowledgedResultsArePersisted == Spec => []AcknowledgedIsPersisted
<1>1. PipelineInv => AcknowledgedIsPersisted
  BY DEF PipelineInv
<1> QED BY <1>1, PipelineInvariant, PTL

\* Entries that stay pending were taken by a fault.
THEOREM PendingIsAccountedFor == Spec => []OnlyFaultsDrop
<1>1. PipelineInv => OnlyFaultsDrop
  BY DEF PipelineInv
<1> QED BY <1>1, PipelineInvariant, PTL

\* The counter of a run is the number of its results, each counted once.
THEOREM ResultsAreCountedOnce == Spec => []CountedOnce
<1>1. PipelineInv => CountedOnce
  BY DEF PipelineInv
<1> QED BY <1>1, PipelineInvariant, PTL

\* A report, once stored, is never replaced, however many requests build one.
THEOREM ReportsNeverChange == Spec => ReportNeverChanges
<1> DEFINE Kept == \A r \in Runs : report[r] # NoReport => report'[r] = report[r]
<1>1. PipelineInv /\ [Next]_vars => [Kept]_vars
  <2> SUFFICES ASSUME PipelineInv, Next PROVE Kept
    OBVIOUS
  <2>1. report \in [Runs -> Nat \cup {NoReport}]
    BY DEF PipelineInv, DatabaseTyped
  <2>2. CASE \E c \in Readers : SaveReport(c)
    BY <2>1, <2>2 DEF SaveReport, Saved
  <2>3. CASE ~\E c \in Readers : SaveReport(c)
    <3>1. report' = report
      BY <2>3 DEF Next, Uninterrupted, Progress, Work, CreateRun, MarkStarted, PublishResult, PublishFails,
                  MarkFinished, PublishCompletion, TaskFails, ApiRestarts, AskReport,
                  ReadResults, StartWorker, Read, ReadReplyLost, Persist, Acknowledge,
                  WorkerStops
    <3> QED BY <3>1
  <2> QED BY <2>2, <2>3
<1> QED BY <1>1, PipelineInvariant, PTL DEF Spec, ReportNeverChanges

-----------------------------------------------------------------------------
(* The pipeline keeps the promise of ResultDelivery. *)

\* The worker has the last entries that were delivered, no result is in the database
\* before its turn, and a report under way holds results that were counted.
Delivering ==
    /\ worker.at \in {"persist", "acknowledge"} => worker.last = group.cursor
    /\ \A id \in processed : id <= Handled
    /\ \A r \in Runs : results[r] = completed[r]
    /\ \A c \in Readers :
          reader[c].at = "saving" => reader[c].rows <= completed[reader[c].run]

DeliveryInv == PipelineInv /\ Delivering

\* Where the worker is, by what it does.
Position ==
    /\ worker.at = "persist" => Handled = worker.next - 1
    /\ worker.at = "acknowledge" => Handled = worker.next
    /\ worker.at \in {"reading", "down"} /\ group.cursor >= 0 => Handled = group.cursor
    /\ group.cursor = -1 => Handled = 0
    /\ Handled \in 0..Len(stream)

LEMMA HandledIs == PipelineInv => Position
<1> SUFFICES ASSUME PipelineInv PROVE Position
  OBVIOUS
<1>1. /\ group \in [cursor : Int, pending : SUBSET Int] /\ group.cursor \in -1..Len(stream)
      /\ group.pending \subseteq 1..group.cursor /\ Len(stream) \in Nat
      /\ worker \in [at : {"down", "reading", "persist", "acknowledge"}, next : Nat, last : Nat]
      /\ worker.at # "down" => group.cursor >= 0
      /\ worker.at \in {"persist", "acknowledge"} =>
           /\ worker.next \in 1..worker.last
           /\ worker.last <= group.cursor
  BY DEF PipelineInv, RedisTyped, Handling
<1>2. worker.at \in {"down", "reading", "persist", "acknowledge"}
      /\ worker.next \in Nat /\ worker.last \in Nat
  BY <1>1
<1>3. group = NoGroup <=> group.cursor = -1
  <2>1. CASE group.cursor = -1
    <3>1. group.pending = {}
      BY <1>1, <2>1
    <3> QED BY <1>1, <2>1, <3>1 DEF NoGroup
  <2> QED BY <2>1 DEF NoGroup
<1>4. CASE worker.at = "persist"
  BY <1>1, <1>2, <1>4 DEF Handled, Position
<1>5. CASE worker.at = "acknowledge"
  BY <1>1, <1>2, <1>5 DEF Handled, Position
<1>6. CASE worker.at \in {"reading", "down"}
  BY <1>1, <1>2, <1>3, <1>6 DEF Handled, Position
<1> QED BY <1>2, <1>4, <1>5, <1>6 DEF Position

LEMMA HandledWillBe == PipelineInv' => Position'
BY HandledIs, PTL

\* What the API process does for a run appends to the stream, if anything.
LEMMA ApiDelivers ==
    ASSUME DeliveryInv, Grows(stream, stream'),
           UNCHANGED <<completed, results, processed, report, group, worker>>,
           faults' + retried' >= faults + retried,
           \A c \in Readers :
              \/ reader'[c] = reader[c]
              \/ reader'[c].at = "saving" => reader'[c].rows <= completed[reader'[c].run]
    PROVE  Delivering' /\ Delivery!Publish
<1>1. Handled' = Handled
  BY DEF Handled
<1>2. Delivering'
  BY <1>1 DEF DeliveryInv, Delivering
<1> QED BY <1>1, <1>2 DEF Delivery!Publish, Grows

LEMMA SaveReportDelivers ==
    ASSUME DeliveryInv, NEW c \in Readers, SaveReport(c)
    PROVE  Delivering' /\ [Delivery!Next]_(Delivery!vars)
<1>1. PICK r : r = reader[c].run
  OBVIOUS
<1>2. reader[c] \in Request /\ reader[c].at = "saving"
  BY DEF DeliveryInv, PipelineInv, ApiTyped, SaveReport
<1>3. r \in Runs /\ reader[c].rows \in Nat
  BY <1>1, <1>2 DEF Request, Idle
<1>4. /\ reader[c].rows <= completed[r] /\ completed[r] \in Nat
      /\ report \in [Runs -> Nat \cup {NoReport}]
  BY <1>1, <1>2, <1>3 DEF DeliveryInv, Delivering, PipelineInv, DatabaseTyped
<1>5. /\ report' = [report EXCEPT ![r] = Saved(r, reader[c].rows)]
      /\ UNCHANGED <<stream, group, worker, completed, results, processed, faults, retried>>
  BY <1>1 DEF SaveReport, database, redis, counts
<1>6. Handled' = Handled
  BY <1>5 DEF Handled
<1>7. Delivering'
  <2>1. ASSUME NEW d \in Readers
        PROVE  reader'[d] = reader[d] \/ reader'[d].at # "saving"
    <3>1. reader' = [reader EXCEPT ![c] = Idle] /\ reader \in [Readers -> Request]
      BY DEF SaveReport, DeliveryInv, PipelineInv, ApiTyped
    <3>2. CASE d = c
      BY <3>1, <3>2 DEF Idle
    <3>3. CASE d # c
      BY <3>1, <3>3
    <3> QED BY <3>2, <3>3
  <2> QED BY <1>5, <1>6, <2>1 DEF DeliveryInv, Delivering
<1>8. CASE report[r] = NoReport
  <2>1. \E n \in 0..completed[r] : report' = [report EXCEPT ![r] = n]
    <3>1. reader[c].rows \in 0..completed[r]
      BY <1>3, <1>4
    <3> QED BY <1>5, <1>8, <3>1 DEF Saved
  <2>2. Delivery!WriteReport(r)
    BY <1>5, <1>6, <1>8, <2>1 DEF Delivery!WriteReport
  <2> QED BY <1>3, <1>7, <2>2 DEF Delivery!Next
<1>9. CASE report[r] # NoReport
  <2>1. report' = report
    BY <1>4, <1>5, <1>9 DEF Saved
  <2> QED BY <1>5, <1>6, <1>7, <2>1 DEF Delivery!vars
<1> QED BY <1>8, <1>9

\* The other steps of the worker leave the results and the reports alone.
LEMMA WorkerDelivers ==
    ASSUME DeliveryInv, PipelineInv',
           UNCHANGED <<database, report, stream, reader>>,
           worker'.at \in {"persist", "acknowledge"} => worker'.last = group'.cursor,
           Handled <= Handled'
    PROVE  Delivering'
<1>1. Handled \in Nat /\ Handled' \in Nat
  <2>1. Handled \in 0..Len(stream)
    BY HandledIs DEF DeliveryInv, Position
  <2>2. (Handled \in 0..Len(stream))'
    BY HandledWillBe DEF Position
  <2> QED BY <2>1, <2>2
<1>2. \A id \in processed : id \in Nat
  BY DEF DeliveryInv, PipelineInv, DatabaseTyped, RedisTyped
<1>3. \A id \in processed' : id <= Handled'
  <2>1. \A id \in processed : id <= Handled
    BY DEF DeliveryInv, Delivering
  <2> QED BY <1>1, <1>2, <2>1 DEF database
<1> QED BY <1>3 DEF DeliveryInv, Delivering, database

LEMMA StartWorkerDelivers ==
    ASSUME DeliveryInv, PipelineInv', StartWorker
    PROVE  Delivering' /\ UNCHANGED Delivery!vars
<1>1. /\ worker.at = "down" /\ worker'.at = "reading"
      /\ UNCHANGED <<database, report, stream, reader, faults, retried>>
  BY DEF StartWorker, counts, DeliveryInv, PipelineInv, Handling
<1>2. /\ group.cursor = -1 => group'.cursor = 0
      /\ group.cursor >= 0 => group'.cursor = group.cursor
      /\ group.cursor \in -1..Len(stream) /\ Len(stream) \in Nat
  <2>1. /\ group \in [cursor : Int, pending : SUBSET Int]
        /\ group.cursor \in -1..Len(stream) /\ Len(stream) \in Nat
        /\ group.pending \subseteq 1..group.cursor
    BY DEF DeliveryInv, PipelineInv, RedisTyped
  <2>2. CASE group.cursor = -1
    <3>1. group.pending = {}
      BY <2>1, <2>2
    <3>2. group = NoGroup
      BY <2>1, <2>2, <3>1 DEF NoGroup
    <3> QED BY <2>1, <2>2, <3>2 DEF StartWorker, GroupStart
  <2>3. CASE group.cursor # -1
    BY <2>1, <2>3 DEF StartWorker, NoGroup
  <2> QED BY <2>1, <2>2, <2>3
<1>3. Handled' = Handled /\ Handled \in Nat
  <2>1. /\ worker.at \in {"reading", "down"} /\ group.cursor >= 0 => Handled = group.cursor
        /\ group.cursor = -1 => Handled = 0
    BY HandledIs DEF DeliveryInv, Position
  <2>2. (worker.at \in {"reading", "down"} /\ group.cursor >= 0 => Handled = group.cursor)'
    BY HandledWillBe DEF Position
  <2>3. worker.at \in {"reading", "down"} /\ worker'.at \in {"reading", "down"}
    BY <1>1
  <2>4. group.cursor = -1 \/ group.cursor >= 0
    BY <1>2
  <2> QED BY <1>2, <2>1, <2>2, <2>3, <2>4
<1>4. Delivering'
  BY <1>1, <1>3, WorkerDelivers
<1> QED BY <1>1, <1>3, <1>4 DEF Delivery!vars, database

\* The next entry is a result, which is not counted yet, or it is passed over.
LEMMA NextEntry ==
    ASSUME DeliveryInv, PipelineInv', NEW id \in 1..Len(stream), Handled = id - 1,
           worker'.next = id, worker'.at = FirstStep(id), worker'.last = group'.cursor,
           UNCHANGED <<database, report, stream, reader, faults, retried>>
    PROVE  Delivering' /\ [Delivery!Next]_(Delivery!vars)
<1>1. id \in Nat /\ Len(stream) \in Nat
  BY DEF DeliveryInv, PipelineInv, RedisTyped
<1>2. /\ worker'.at = "persist" => Handled' = worker'.next - 1
      /\ worker'.at = "acknowledge" => Handled' = worker'.next
  BY HandledWillBe DEF Position
<1>3. CASE IsResult(id)
  <2>1. Handled' = Handled
    BY <1>2, <1>3 DEF FirstStep
  <2>2. Delivering'
    BY <1>1, <2>1, WorkerDelivers
  <2> QED BY <2>1, <2>2 DEF Delivery!vars, database
<1>4. CASE ~IsResult(id)
  <2>1. Handled' = id /\ Handled = id - 1
    BY <1>2, <1>4 DEF FirstStep
  <2>2. Handled' = Handled + 1 /\ Handled < Len(stream) /\ Handled <= Handled'
    BY <1>1, <2>1
  <2>3. Delivering'
    BY <2>2, WorkerDelivers
  <2>4. Delivery!Skip
    BY <1>4, <2>1, <2>2 DEF Delivery!Skip, Delivery!IsResult, IsResult, database
  <2> QED BY <2>3, <2>4 DEF Delivery!Next
<1> QED BY <1>3, <1>4

LEMMA ReadDelivers ==
    ASSUME DeliveryInv, PipelineInv', Read
    PROVE  Delivering' /\ [Delivery!Next]_(Delivery!vars)
<1>1. /\ worker.at = "reading" /\ Available > 0
      /\ group'.cursor = group.cursor + Available
      /\ worker' = [at |-> FirstStep(group.cursor + 1), next |-> group.cursor + 1,
                    last |-> group.cursor + Available]
      /\ UNCHANGED <<database, report, stream, reader, faults, retried>>
  BY DEF Read, Deliver, counts
<1>2. group.cursor >= 0 /\ group.cursor \in Int /\ Len(stream) \in Nat
      /\ group.cursor \in -1..Len(stream)
  BY <1>1 DEF DeliveryInv, PipelineInv, Handling, RedisTyped
<1>3. group.cursor + 1 \in 1..Len(stream)
  <2>1. Len(stream) - group.cursor > 0
    BY <1>1, <1>2, PipelineConfig DEF Available
  <2> QED BY <1>2, <2>1
<1>4. Handled = (group.cursor + 1) - 1
  <2>1. Handled = group.cursor
    BY <1>1, <1>2, HandledIs DEF DeliveryInv, Position
  <2> QED BY <1>2, <2>1
<1> QED BY <1>1, <1>3, <1>4, NextEntry

LEMMA ReadReplyLostDelivers ==
    ASSUME DeliveryInv, PipelineInv', ReadReplyLost
    PROVE  Delivering' /\ Delivery!Fail
<1>1. /\ worker.at = "reading" /\ Available > 0
      /\ group'.cursor = group.cursor + Available
      /\ UNCHANGED <<database, report, stream, reader, worker, faults>>
      /\ retried' = retried + 1
  BY DEF ReadReplyLost, Deliver, Retry
<1>2. /\ group.cursor >= 0 /\ group.cursor \in Int /\ Len(stream) \in Nat
      /\ group'.cursor \in -1..Len(stream) /\ retried \in Nat /\ faults \in Nat
  BY <1>1 DEF DeliveryInv, PipelineInv, Handling, RedisTyped, ApiTyped
<1>3. Available \in Nat
  BY <1>1, <1>2, PipelineConfig DEF Available
<1>4. Handled = group.cursor
  BY <1>1, <1>2, HandledIs DEF DeliveryInv, Position
<1>5. Handled' = group'.cursor
  <2>1. (worker.at \in {"reading", "down"} /\ group.cursor >= 0 => Handled = group.cursor)'
    BY HandledWillBe DEF Position
  <2>2. worker'.at = "reading" /\ group'.cursor >= 0
    BY <1>1, <1>2, <1>3
  <2> QED BY <2>1, <2>2
<1>6. Handled <= Handled' /\ Handled' \in Handled..Len(stream)
  BY <1>1, <1>2, <1>3, <1>4, <1>5
<1>7. Delivering'
  BY <1>1, <1>6, WorkerDelivers
<1>8. faults' + retried' > faults + retried
  BY <1>1, <1>2
<1> QED BY <1>1, <1>6, <1>7, <1>8 DEF Delivery!Fail, database

\* An entry is counted in its turn, for the first time.
LEMMA PersistDelivers ==
    ASSUME DeliveryInv, PipelineInv', Persist
    PROVE  Delivering' /\ Delivery!Count
<1>1. PICK id, r : id = worker.next /\ r = stream[id].run
  OBVIOUS
<1>2. /\ worker.at = "persist" /\ IsResult(id) /\ id \in 1..Len(stream) /\ id \in Nat
      /\ worker.last = group.cursor
  <2>1. worker.at = "persist"
    BY DEF Persist
  <2>2. /\ worker.next \in 1..worker.last /\ worker.last <= group.cursor /\ worker.last \in Nat
        /\ group.cursor \in -1..Len(stream) /\ Len(stream) \in Nat /\ IsResult(worker.next)
        /\ worker.last = group.cursor
    BY <2>1 DEF DeliveryInv, Delivering, PipelineInv, Handling, RedisTyped
  <2> QED BY <1>1, <2>1, <2>2
<1>3. Handled = id - 1
  BY <1>1, <1>2, HandledIs DEF DeliveryInv, Position
<1>4. id \notin processed
  <2>1. id \in processed => id <= Handled
    BY DEF DeliveryInv, Delivering
  <2> QED BY <1>2, <1>3, <2>1
<1>5. r \in Runs
  <2>1. stream[id] \in Entry
    BY <1>2 DEF DeliveryInv, PipelineInv, RedisTyped
  <2> QED BY <1>1, <2>1 DEF Entry
<1>6. /\ results' = [results EXCEPT ![r] = @ + 1]
      /\ completed' = [completed EXCEPT ![r] = @ + 1]
      /\ processed' = processed \cup {id}
      /\ worker' = [worker EXCEPT !.at = "acknowledge"]
      /\ UNCHANGED <<report, stream, group, reader, faults, retried>>
  BY <1>1, <1>4 DEF Persist, redis, counts
<1>7. /\ worker'.at = "acknowledge" /\ worker'.next = id /\ worker'.last = worker.last
  BY <1>1, <1>6 DEF DeliveryInv, PipelineInv, Handling
<1>8. Handled' = id
  <2>1. (worker.at = "acknowledge" => Handled = worker.next)'
    BY HandledWillBe DEF Position
  <2> QED BY <1>7, <2>1
<1>9. \A x \in processed' : x <= Handled'
  <2>1. \A x \in processed : x <= Handled /\ x \in Nat
    BY DEF DeliveryInv, Delivering, PipelineInv, DatabaseTyped, RedisTyped
  <2> QED BY <1>2, <1>3, <1>6, <1>8, <2>1
<1>10. /\ results \in [Runs -> Nat] /\ completed \in [Runs -> Nat]
       /\ reader \in [Readers -> Request]
  BY DEF DeliveryInv, PipelineInv, DatabaseTyped, ApiTyped
<1>11. \A s \in Runs : results'[s] = completed'[s] /\ completed[s] <= completed'[s]
  <2> SUFFICES ASSUME NEW s \in Runs
               PROVE  results'[s] = completed'[s] /\ completed[s] <= completed'[s]
    OBVIOUS
  <2>1. results[s] = completed[s] /\ completed[s] \in Nat
    BY <1>10 DEF DeliveryInv, Delivering
  <2>2. CASE s = r
    BY <1>6, <1>10, <2>1, <2>2
  <2>3. CASE s # r
    BY <1>6, <1>10, <2>1, <2>3
  <2> QED BY <2>2, <2>3
<1>12. ASSUME NEW c \in Readers, reader'[c].at = "saving"
       PROVE  reader'[c].rows <= completed'[reader'[c].run]
  <2>1. reader'[c] = reader[c] /\ reader[c] \in Request
    BY <1>6, <1>10
  <2>2. reader[c].rows \in Nat /\ reader[c].run \in Runs
    BY <1>12, <2>1 DEF Request, Idle
  <2>3. reader[c].rows <= completed[reader[c].run]
    BY <1>12, <2>1 DEF DeliveryInv, Delivering
  <2>4. PICK s \in Runs : s = reader[c].run
    BY <2>2
  <2>5. completed[s] \in Nat /\ completed'[s] \in Nat /\ completed[s] <= completed'[s]
    <3>1. completed' \in [Runs -> Nat]
      BY DEF PipelineInv, DatabaseTyped
    <3> QED BY <1>10, <1>11, <3>1
  <2> QED BY <2>1, <2>2, <2>3, <2>4, <2>5
<1>13. Delivering'
  BY <1>2, <1>6, <1>7, <1>9, <1>11, <1>12 DEF Delivering
<1>14. Delivery!Count
  <2>1. Handled < Len(stream) /\ Handled' = Handled + 1
    BY <1>2, <1>3, <1>8
  <2> QED BY <1>1, <1>2, <1>6, <1>8, <2>1 DEF Delivery!Count, Delivery!IsResult, IsResult
<1> QED BY <1>13, <1>14

LEMMA AcknowledgeDelivers ==
    ASSUME DeliveryInv, PipelineInv', Acknowledge
    PROVE  Delivering' /\ [Delivery!Next]_(Delivery!vars)
<1>1. PICK id, last : id = worker.next /\ last = worker.last
  OBVIOUS
<1>2. /\ worker.at = "acknowledge" /\ group' = [group EXCEPT !.pending = @ \ {id}]
      /\ worker' = NextMessage(id + 1, last)
      /\ UNCHANGED <<database, report, stream, reader, faults, retried>>
  BY <1>1 DEF Acknowledge, counts
<1>3. /\ id \in 1..last /\ last \in Nat /\ last = group.cursor /\ Len(stream) \in Nat
      /\ group.cursor \in -1..Len(stream) /\ group'.cursor = group.cursor
  BY <1>1, <1>2 DEF DeliveryInv, Delivering, PipelineInv, Handling, RedisTyped
<1>4. Handled = id
  BY <1>1, <1>2, HandledIs DEF DeliveryInv, Position
<1>5. CASE id + 1 <= last
  <2>1. /\ worker'.at = FirstStep(id + 1) /\ worker'.next = id + 1
        /\ worker'.last = group'.cursor
    BY <1>2, <1>3, <1>5 DEF NextMessage
  <2>2. id + 1 \in 1..Len(stream) /\ Handled = (id + 1) - 1
    BY <1>3, <1>4, <1>5
  <2> QED BY <1>2, <2>1, <2>2, NextEntry
<1>6. CASE ~(id + 1 <= last)
  <2>1. worker'.at = "reading" /\ group'.cursor >= 0 /\ id = group'.cursor
    BY <1>2, <1>3, <1>6 DEF NextMessage
  <2>2. (worker.at \in {"reading", "down"} /\ group.cursor >= 0 => Handled = group.cursor)'
    BY HandledWillBe DEF Position
  <2>3. Handled' = Handled /\ Handled \in Nat
    BY <1>3, <1>4, <2>1, <2>2
  <2>4. Delivering'
    BY <1>2, <2>1, <2>3, WorkerDelivers
  <2> QED BY <1>2, <2>3, <2>4 DEF Delivery!vars, database
<1> QED BY <1>5, <1>6

\* What a worker leaves behind is passed over when the next one reads.
LEMMA WorkerStopsDelivers ==
    ASSUME DeliveryInv, PipelineInv', WorkerStops
    PROVE  Delivering' /\ Delivery!Fail
<1>1. /\ worker.at # "down" /\ worker'.at = "down"
      /\ faults' = faults + 1
      /\ UNCHANGED <<database, report, stream, group, reader, retried>>
  BY DEF WorkerStops, Fault, redis, Down
<1>2. /\ group.cursor >= 0 /\ group.cursor \in -1..Len(stream) /\ Len(stream) \in Nat
      /\ retried \in Nat /\ faults \in Nat
  BY <1>1 DEF DeliveryInv, PipelineInv, Handling, RedisTyped, ApiTyped
<1>3. Handled' = group.cursor
  <2>1. (worker.at \in {"reading", "down"} /\ group.cursor >= 0 => Handled = group.cursor)'
    BY HandledWillBe DEF Position
  <2> QED BY <1>1, <1>2, <2>1
<1>4. Handled <= group.cursor /\ Handled \in Nat
  <2>1. /\ worker.at = "persist" => Handled = worker.next - 1
        /\ worker.at = "acknowledge" => Handled = worker.next
        /\ worker.at \in {"reading", "down"} /\ group.cursor >= 0 => Handled = group.cursor
        /\ Handled \in 0..Len(stream)
    BY HandledIs DEF DeliveryInv, Position
  <2>2. /\ worker.at \in {"down", "reading", "persist", "acknowledge"}
        /\ worker.at \in {"persist", "acknowledge"} =>
             worker.next \in 1..worker.last /\ worker.last <= group.cursor
        /\ worker.next \in Nat /\ worker.last \in Nat
    BY DEF DeliveryInv, PipelineInv, Handling
  <2> QED BY <1>2, <2>1, <2>2
<1>5. Handled <= Handled' /\ Handled' \in Handled..Len(stream)
  BY <1>2, <1>3, <1>4
<1>6. Delivering'
  BY <1>1, <1>5, WorkerDelivers
<1>7. faults' + retried' > faults + retried
  BY <1>1, <1>2
<1> QED BY <1>1, <1>5, <1>6, <1>7 DEF Delivery!Fail, database

\* What a step of the pipeline is for the log.
LEMMA DeliveryStep ==
    ASSUME DeliveryInv, PipelineInv', Next
    PROVE  Delivering' /\ [Delivery!Next]_(Delivery!vars)
<1>1. /\ stream \in Seq(Entry) /\ Grows(stream, stream) /\ faults \in Nat /\ retried \in Nat
      /\ faults + retried >= faults + retried
  BY DEF DeliveryInv, PipelineInv, RedisTyped, ApiTyped, Grows
<1>2. ASSUME NEW r \in Runs,
             CreateRun(r) \/ MarkStarted(r) \/ MarkFinished(r) \/ TaskFails(r)
      PROVE  Delivering' /\ Delivery!Publish
  <2>1. UNCHANGED <<completed, results, processed, report, stream, group, worker, reader, retried>>
    BY <1>2 DEF CreateRun, MarkStarted, MarkFinished, TaskFails, database, redis, counts
  <2>2. faults' + retried' >= faults + retried
    <3>1. faults' = faults \/ faults' = faults + 1
      BY <1>2 DEF CreateRun, MarkStarted, MarkFinished, TaskFails, Fault, counts
    <3>2. retried' = retried /\ faults \in Nat /\ retried \in Nat
      BY <1>1, <2>1
    <3> QED BY ONLY <3>1, <3>2
  <2> QED BY <1>1, <2>1, <2>2, ApiDelivers
<1>3. ASSUME NEW r \in Runs, NEW q \in Questions, NEW n \in Nat, Announce(r, q, n),
             UNCHANGED <<database, report, group, worker, reader>>,
             faults' + retried' >= faults + retried
      PROVE  Delivering' /\ Delivery!Publish
  <2>1. Grows(stream, stream')
    <3>1. stream' = stream \o [i \in 1..n |-> Event(r, q)]
      BY <1>3 DEF Announce
    <3> QED BY <1>1, <3>1, AppendedEntries
  <2> QED BY <1>3, <2>1, ApiDelivers DEF database
<1>4. ASSUME NEW r \in Runs, NEW q \in Questions, PublishResult(r, q) \/ PublishFails(r, q)
      PROVE  Delivering' /\ Delivery!Publish
  <2>1. PICK n \in Nat : Announce(r, q, n)
    BY PipelineConfig, <1>4 DEF PublishResult, PublishFails
  <2>2. UNCHANGED <<database, report, group, worker, reader>>
    BY <1>4 DEF PublishResult, PublishFails
  <2>3. faults' + retried' >= faults + retried
    <3>1. CASE PublishResult(r, q)
      <4>1. PICK k \in 1..(1 + MaxRetried) : retried' = retried + (k - 1)
        BY <3>1 DEF PublishResult, Retry
      <4> QED BY <1>1, <3>1, <4>1, PipelineConfig DEF PublishResult
    <3>2. CASE PublishFails(r, q)
      <4>1. PICK k \in 0..(1 + MaxRetried) :
                retried' = retried + (IF k = 0 THEN 0 ELSE k - 1)
        BY <3>2 DEF PublishFails, Retry
      <4> QED BY <1>1, <3>2, <4>1, PipelineConfig DEF PublishFails, Fault
    <3> QED BY <1>4, <3>1, <3>2
  <2> QED BY <1>3, <2>1, <2>2, <2>3
<1>5. ASSUME NEW r \in Runs, PublishCompletion(r)
      PROVE  Delivering' /\ Delivery!Publish
  <2>1. Grows(stream, stream')
    BY <1>1, <1>5, AppendedCompletion DEF PublishCompletion
  <2> QED BY <1>1, <1>5, <2>1, ApiDelivers DEF PublishCompletion, database, counts
<1>6. ASSUME NEW c \in Readers, NEW r \in Runs, AskReport(c, r)
      PROVE  Delivering' /\ Delivery!Publish
  <2>1. \A d \in Readers : reader'[d] = reader[d] \/ reader'[d].at # "saving"
    <3>1. /\ reader' = [reader EXCEPT ![c] = [at |-> "building", run |-> r]]
          /\ reader \in [Readers -> Request]
      BY <1>6 DEF AskReport, DeliveryInv, PipelineInv, ApiTyped
    <3> QED BY <3>1
  <2> QED BY <1>1, <1>6, <2>1, ApiDelivers DEF AskReport, database, redis, counts
<1>7. ASSUME NEW c \in Readers, ReadResults(c)
      PROVE  Delivering' /\ Delivery!Publish
  <2>1. PICK r : r = reader[c].run
    OBVIOUS
  <2>2. /\ reader' = [reader EXCEPT ![c] = [at |-> "saving", run |-> r, rows |-> results[r]]]
        /\ reader \in [Readers -> Request] /\ reader[c].at = "building"
    BY <1>7, <2>1 DEF ReadResults, DeliveryInv, PipelineInv, ApiTyped
  <2>3. r \in Runs
    <3>1. reader[c] \in Request
      BY <2>2
    <3> QED BY <2>1, <2>2, <3>1 DEF Request, Idle
  <2>4. results[r] = completed[r] /\ completed[r] \in Nat
    BY <2>3 DEF DeliveryInv, Delivering, PipelineInv, DatabaseTyped
  <2>5. ASSUME NEW d \in Readers
        PROVE  \/ reader'[d] = reader[d]
               \/ reader'[d].at = "saving" => reader'[d].rows <= completed[reader'[d].run]
    <3>1. CASE d = c
      <4>1. reader'[d].rows = results[r] /\ reader'[d].run = r
        BY <2>2, <3>1
      <4> QED BY <2>4, <4>1
    <3>2. CASE d # c
      BY <2>2, <3>2
    <3> QED BY <3>1, <3>2
  <2> QED BY <1>1, <1>7, <2>5, ApiDelivers DEF ReadResults, database, redis, counts
<1>8. CASE ApiRestarts
  <2>1. \A d \in Readers : reader'[d].at # "saving"
    BY <1>8 DEF ApiRestarts, Idle
  <2>2. /\ UNCHANGED <<completed, results, processed, report, stream, group, worker, retried>>
        /\ faults' = faults + 1
    BY <1>8 DEF ApiRestarts, Fault, database, redis
  <2>3. faults' + retried' >= faults + retried
    BY <1>1, <2>2
  <2> QED BY <1>1, <2>1, <2>2, <2>3, ApiDelivers DEF Delivery!Next
<1>9. CASE StartWorker
  BY <1>9, StartWorkerDelivers
<1>10. CASE Work
  BY <1>10, ReadDelivers, PersistDelivers, AcknowledgeDelivers DEF Work, Delivery!Next
<1>11. CASE ReadReplyLost \/ WorkerStops
  BY <1>11, ReadReplyLostDelivers, WorkerStopsDelivers DEF Delivery!Next
<1>12. ASSUME NEW r \in Runs, CreateRun(r) \/ Progress(r)
       PROVE  Delivering' /\ Delivery!Publish
  BY <1>2, <1>4, <1>5, <1>12 DEF Progress
<1>13. ASSUME NEW c \in Readers, ReadResults(c) \/ SaveReport(c)
       PROVE  Delivering' /\ [Delivery!Next]_(Delivery!vars)
  BY <1>7, <1>13, SaveReportDelivers DEF Delivery!Next
<1> QED BY <1>6, <1>8, <1>9, <1>10, <1>11, <1>12, <1>13 DEF Next, Uninterrupted, Delivery!Next

LEMMA DeliveryStarts == Init => Delivering /\ Delivery!Init
<1> SUFFICES ASSUME Init PROVE Delivering /\ Delivery!Init
  OBVIOUS
<1>1. Handled = 0 /\ Len(stream) = 0
  BY DEF Init, Handled, Down
<1> QED BY <1>1 DEF Init, Delivering, Delivery!Init, Down, Idle

LEMMA DeliveryKept ==
    ASSUME DeliveryInv, [Next]_vars
    PROVE  DeliveryInv' /\ [Delivery!Next]_(Delivery!vars)
<1>1. PipelineInv'
  BY PipelineKept DEF DeliveryInv
<1>2. CASE Next
  BY <1>1, <1>2, DeliveryStep DEF DeliveryInv
<1>3. CASE UNCHANGED vars
  <2>1. UNCHANGED <<completed, results, processed, report, stream, group, worker, reader,
                    faults, retried>>
    BY <1>3 DEF vars, database, redis, counts
  <2>2. Handled' = Handled
    BY <2>1 DEF Handled
  <2>3. Delivering'
    BY <2>1, <2>2 DEF DeliveryInv, Delivering
  <2> QED BY <1>1, <2>1, <2>2, <2>3 DEF DeliveryInv, Delivery!vars
<1> QED BY <1>2, <1>3

\* The pipeline implements ResultDelivery: results are counted in the order of the
\* stream, at most once each, passed over only by a failure, and a report is written once
\* from results that were counted.
THEOREM PipelineKeepsThePromise == Spec => ImplementsDelivery
<1>1. Init => DeliveryInv /\ Delivery!Init
  BY DeliveryStarts, InitInv DEF DeliveryInv
<1>2. DeliveryInv /\ [Next]_vars => DeliveryInv' /\ [Delivery!Next]_(Delivery!vars)
  BY DeliveryKept
<1> QED BY <1>1, <1>2, PTL DEF Spec, ImplementsDelivery, Delivery!Spec

-----------------------------------------------------------------------------
(* The order of the events of a run. *)

\* An announced question has an event; a run that announces its end has announced
\* all of its questions, and announces nothing afterwards.
Announcing ==
    /\ \A r \in Runs : \A q \in Questions \ unannounced[r] :
         \E i \in 1..Len(stream) : stream[i] = Event(r, q)
    /\ \A r \in Runs : task[r] \in {"finishing", "ended"} => unannounced[r] = {}
    /\ \A i \in 1..Len(stream) : ~IsResult(i) => task[stream[i].run] = "ended"

OrderInv == Announcing /\ CompletionIsLast

LEMMA OrderQuiet ==
    ASSUME PipelineInv, OrderInv, UNCHANGED <<stream, unannounced>>,
           \A r \in Runs : \/ task'[r] = task[r]
                           \/ /\ task[r] # "ended"
                              /\ task'[r] = "finishing" => unannounced[r] = {}
                              /\ task'[r] # "ended"
    PROVE  OrderInv'
<1>1. stream \in Seq(Entry) /\ Len(stream) \in Nat
  BY DEF PipelineInv, RedisTyped
<1>2. \A i \in 1..Len(stream) : stream[i].run \in Runs
  BY <1>1 DEF Entry
<1>3. Announcing'
  BY <1>1, <1>2 DEF OrderInv, Announcing, IsResult
<1>4. CompletionIsLast'
  BY DEF OrderInv, CompletionIsLast, Results, IsResult
<1> QED BY <1>3, <1>4 DEF OrderInv

\* The events of a run that has not announced its end come before that end.
LEMMA OrderAnnounce ==
    ASSUME PipelineInv, OrderInv, NEW r \in Runs, NEW q \in Questions, NEW n \in Nat,
           Announce(r, q, n), task[r] = "scheduling",
           task' = task \/ task' = [task EXCEPT ![r] = "dead"]
    PROVE  OrderInv'
<1> DEFINE new == [i \in 1..n |-> Event(r, q)]
           L == Len(stream)
<1>1. stream \in Seq(Entry) /\ L \in Nat /\ DOMAIN stream = 1..L
  BY DEF PipelineInv, RedisTyped
<1>2. new \in Seq(Entry) /\ Len(new) = n /\ \A i \in 1..n : new[i] = Event(r, q)
  BY DEF Event, Entry
<1>3. stream' = stream \o new
  BY DEF Announce
<1> HIDE DEF new
<1>4. /\ Len(stream') = L + n
      /\ DOMAIN stream' = 1..(L + n)
      /\ \A i \in 1..L : stream'[i] = stream[i]
      /\ \A i \in (L + 1)..(L + n) : stream'[i] = Event(r, q)
  <2>1. /\ Len(stream \o new) = L + n
        /\ DOMAIN (stream \o new) = 1..(L + n)
        /\ \A i \in 1..L : (stream \o new)[i] = stream[i]
        /\ \A i \in (L + 1)..(L + n) : (stream \o new)[i] = Event(r, q)
    BY ONLY <1>1, <1>2, n \in Nat, Lengthened, SMTT(30)
  <2> QED BY <1>3, <2>1
<1> HIDE DEF L
<1>5. /\ unannounced \in [Runs -> SUBSET Questions]
      /\ task \in [Runs -> {"none", "starting", "scheduling", "finishing", "ended", "dead"}]
      /\ \A i \in 1..L : stream[i].run \in Runs
  BY <1>1 DEF PipelineInv, ApiTyped, Entry
<1>6. /\ \A i \in 1..L : IsResult(i)' <=> IsResult(i)
      /\ \A i \in (L + 1)..(L + n) : IsResult(i)' /\ stream'[i].run = r
  BY <1>1, <1>4 DEF IsResult, Event
<1>7. \A i \in 1..(L + n) : i \in 1..L \/ i \in (L + 1)..(L + n)
  BY <1>1
<1>8. Announcing'
  <2>1. ASSUME NEW x \in Runs, NEW y \in Questions \ unannounced'[x]
        PROVE  \E i \in 1..(L + n) : stream'[i] = Event(x, y)
    <3>1. CASE y \in Questions \ unannounced[x]
      <4> PICK i \in 1..L : stream[i] = Event(x, y)
        BY <1>5, <3>1 DEF OrderInv, Announcing, L
      <4> QED BY <1>1, <1>4
    <3>2. CASE y \in unannounced[x]
      <4>1. x = r /\ y = q /\ n # 0
        BY <1>5, <2>1, <3>2 DEF Announce
      <4>2. L + 1 \in (L + 1)..(L + n) /\ L + 1 \in 1..(L + n)
        BY <1>1, <4>1
      <4> QED BY <1>4, <4>1, <4>2
    <3> QED BY <2>1, <3>1, <3>2
  <2>2. ASSUME NEW x \in Runs, task'[x] \in {"finishing", "ended"}
        PROVE  unannounced'[x] = {}
    <3>1. task[x] \in {"finishing", "ended"} /\ x # r
      BY <1>5, <2>2
    <3> QED BY <1>5, <3>1 DEF Announce, OrderInv, Announcing
  <2>3. ASSUME NEW i \in 1..(L + n), ~IsResult(i)'
        PROVE  task'[stream'[i].run] = "ended"
    <3>1. i \in 1..L /\ ~IsResult(i)
      BY <1>6, <1>7, <2>3
    <3>2. task[stream[i].run] = "ended" /\ stream[i].run \in Runs
      BY <1>5, <3>1 DEF OrderInv, Announcing, L
    <3> QED BY <1>4, <1>5, <3>1, <3>2
  <2> QED BY <1>4, <2>1, <2>2, <2>3 DEF Announcing
<1>9. CompletionIsLast'
  <2> SUFFICES ASSUME NEW id \in 1..(L + n), ~IsResult(id)'
               PROVE  /\ \A y \in Questions :
                           \E i \in 1..(id - 1) : stream'[i] = Event(stream'[id].run, y)
                      /\ \A i \in 1..(L + n) :
                           IsResult(i)' /\ stream'[i].run = stream'[id].run => i < id
    BY <1>4 DEF CompletionIsLast, Results
  <2>1. id \in 1..L /\ ~IsResult(id) /\ stream'[id] = stream[id]
    BY <1>4, <1>6, <1>7
  <2>2. stream[id].run # r
    BY <2>1 DEF OrderInv, Announcing, L
  <2>3. /\ \A y \in Questions : \E i \in 1..(id - 1) : stream[i] = Event(stream[id].run, y)
        /\ \A i \in 1..L : IsResult(i) /\ stream[i].run = stream[id].run => i < id
    BY <1>1, <2>1 DEF OrderInv, CompletionIsLast, Results
  <2>4. \A i \in 1..(id - 1) : stream'[i] = stream[i]
    BY <1>1, <1>4, <2>1
  <2>5. ASSUME NEW i \in 1..(L + n), IsResult(i)', stream'[i].run = stream'[id].run
        PROVE  i < id
    <3>1. i \in 1..L
      BY <1>6, <1>7, <2>1, <2>2, <2>5
    <3> QED BY <1>4, <1>6, <2>1, <2>3, <2>5, <3>1
  <2> QED BY <2>1, <2>3, <2>4, <2>5
<1> QED BY <1>8, <1>9 DEF OrderInv

\* The end of a run comes after the events of all its questions.
LEMMA OrderComplete ==
    ASSUME PipelineInv, OrderInv, NEW r \in Runs, PublishCompletion(r)
    PROVE  OrderInv'
<1> DEFINE L == Len(stream)
<1>1. stream \in Seq(Entry) /\ L \in Nat /\ DOMAIN stream = 1..L
  BY DEF PipelineInv, RedisTyped
<1>2. /\ stream' = Append(stream, Completion(r)) /\ task[r] = "finishing"
      /\ task' = [task EXCEPT ![r] = "ended"] /\ unannounced' = unannounced
  BY DEF PublishCompletion
<1>3. /\ DOMAIN stream' = 1..(L + 1) /\ Len(stream') = L + 1
      /\ \A i \in 1..L : stream'[i] = stream[i]
      /\ stream'[L + 1] = Completion(r)
  BY <1>1, <1>2
<1> HIDE DEF L
<1>4. /\ task \in [Runs -> {"none", "starting", "scheduling", "finishing", "ended", "dead"}]
      /\ \A i \in 1..L : stream[i].run \in Runs
      /\ unannounced[r] = {}
  BY <1>1, <1>2 DEF PipelineInv, ApiTyped, Entry, OrderInv, Announcing
<1>5. \A i \in 1..(L + 1) : i \in 1..L \/ i = L + 1
  BY <1>1
<1>6. Announcing'
  <2>1. ASSUME NEW x \in Runs, NEW y \in Questions \ unannounced[x]
        PROVE  \E i \in 1..(L + 1) : stream'[i] = Event(x, y)
    <3> PICK i \in 1..L : stream[i] = Event(x, y)
      BY DEF OrderInv, Announcing, L
    <3> QED BY <1>1, <1>3
  <2>2. \A x \in Runs : task'[x] \in {"finishing", "ended"} => unannounced[x] = {}
    BY <1>2, <1>4 DEF OrderInv, Announcing
  <2>3. ASSUME NEW i \in 1..(L + 1), stream'[i].type # "question_completed"
        PROVE  task'[stream'[i].run] = "ended"
    <3>1. CASE i \in 1..L
      <4>1. ~IsResult(i)
        BY <1>3, <2>3, <3>1 DEF IsResult
      <4>2. task[stream[i].run] = "ended" /\ stream[i].run \in Runs
        BY <1>4, <3>1, <4>1 DEF OrderInv, Announcing, L
      <4> QED BY <1>2, <1>3, <1>4, <3>1, <4>2
    <3>2. CASE i = L + 1
      <4>1. stream'[i].run = r
        BY <1>3, <3>2 DEF Completion
      <4> QED BY <1>2, <1>4, <4>1
    <3> QED BY <1>5, <3>1, <3>2
  <2> QED BY <1>2, <1>3, <2>1, <2>2, <2>3 DEF Announcing, IsResult
<1>7. CompletionIsLast'
  <2> SUFFICES ASSUME NEW id \in 1..(L + 1), stream'[id].type # "question_completed"
               PROVE  /\ \A y \in Questions :
                           \E i \in 1..(id - 1) : stream'[i] = Event(stream'[id].run, y)
                      /\ \A i \in 1..(L + 1) :
                           /\ stream'[i].type = "question_completed"
                           /\ stream'[i].run = stream'[id].run
                           => i < id
    BY <1>3 DEF CompletionIsLast, Results, IsResult
  <2>1. \A i \in 1..(L + 1) : stream'[i].type = "question_completed" => i \in 1..L
    BY <1>3, <1>5 DEF Completion
  <2>2. CASE id = L + 1
    <3>1. stream'[id].run = r /\ id - 1 = L
      BY <1>1, <1>3, <2>2 DEF Completion
    <3>2. ASSUME NEW y \in Questions
          PROVE  \E i \in 1..(id - 1) : stream'[i] = Event(r, y)
      <4> PICK i \in 1..L : stream[i] = Event(r, y)
        BY <1>4 DEF OrderInv, Announcing, L
      <4> QED BY <1>3, <3>1
    <3>3. \A i \in 1..L : i < id
      BY <1>1, <2>2
    <3> QED BY <2>1, <3>1, <3>2, <3>3
  <2>3. CASE id \in 1..L
    <3>1. ~IsResult(id) /\ stream'[id] = stream[id]
      BY <1>3, <2>3 DEF IsResult
    <3>2. /\ \A y \in Questions : \E i \in 1..(id - 1) : stream[i] = Event(stream[id].run, y)
          /\ \A i \in 1..L : IsResult(i) /\ stream[i].run = stream[id].run => i < id
      BY <1>1, <2>3, <3>1 DEF OrderInv, CompletionIsLast, Results
    <3>3. \A i \in 1..(id - 1) : stream'[i] = stream[i]
      BY <1>1, <1>3, <2>3
    <3> QED BY <1>3, <2>1, <3>1, <3>2, <3>3 DEF IsResult
  <2> QED BY <1>5, <2>2, <2>3
<1> QED BY <1>6, <1>7 DEF OrderInv

\* run_completed follows the events of all questions of its run, XADDs that were
\* repeated included.
THEOREM CompletionComesLast == Spec => []CompletionIsLast
<1>1. Init => OrderInv
  <2> SUFFICES ASSUME Init PROVE OrderInv
    OBVIOUS
  <2>1. Len(stream) = 0 /\ DOMAIN stream = {}
    BY DEF Init
  <2> QED BY <2>1 DEF Init, OrderInv, Announcing, CompletionIsLast
<1>2. PipelineInv /\ OrderInv /\ [Next]_vars => OrderInv'
  <2> SUFFICES ASSUME PipelineInv, OrderInv, [Next]_vars PROVE OrderInv'
    OBVIOUS
  <2>1. task \in [Runs -> {"none", "starting", "scheduling", "finishing", "ended", "dead"}]
    BY DEF PipelineInv, ApiTyped
  <2>2. CASE \E r \in Runs : CreateRun(r)
    BY <2>1, <2>2, OrderQuiet DEF CreateRun, redis
  <2>3. CASE \E r \in Runs : Progress(r)
    <3> PICK r \in Runs : Progress(r)
      BY <2>3
    <3>1. CASE MarkStarted(r)
      BY <2>1, <3>1, OrderQuiet DEF MarkStarted, redis
    <3>2. CASE \E q \in Questions : PublishResult(r, q)
      <4> PICK q \in Questions : PublishResult(r, q)
        BY <3>2
      <4> PICK n \in 1..(1 + MaxRetried) : Announce(r, q, n)
        BY DEF PublishResult
      <4>1. n \in Nat /\ task[r] = "scheduling" /\ task' = task
        BY PipelineConfig DEF PublishResult
      <4> QED BY <4>1, OrderAnnounce
    <3>3. CASE \E q \in Questions : PublishFails(r, q)
      <4> PICK q \in Questions : PublishFails(r, q)
        BY <3>3
      <4> PICK n \in 0..(1 + MaxRetried) : Announce(r, q, n)
        BY DEF PublishFails
      <4>1. n \in Nat /\ task[r] = "scheduling" /\ task' = [task EXCEPT ![r] = "dead"]
        BY PipelineConfig DEF PublishFails
      <4> QED BY <4>1, OrderAnnounce
    <3>4. CASE MarkFinished(r)
      BY <2>1, <3>4, OrderQuiet DEF MarkFinished, SchedulerDone, redis
    <3>5. CASE PublishCompletion(r)
      BY <3>5, OrderComplete
    <3>6. CASE TaskFails(r)
      BY <2>1, <3>6, OrderQuiet DEF TaskFails, Alive, redis
    <3> QED BY <3>1, <3>2, <3>3, <3>4, <3>5, <3>6 DEF Progress
  <2>4. CASE ApiRestarts
    BY <2>1, <2>4, OrderQuiet DEF ApiRestarts, Alive, redis
  <2>5. CASE UNCHANGED <<stream, task, unannounced>>
    BY <2>5, OrderQuiet
  <2>6. \/ \E r \in Runs : CreateRun(r) \/ Progress(r)
        \/ ApiRestarts
        \/ UNCHANGED <<stream, task, unannounced>>
    BY DEF Next, Uninterrupted, vars, Work, AskReport, ReadResults, SaveReport, StartWorker, Read,
           ReadReplyLost, Persist, Acknowledge, WorkerStops, redis, api
  <2> QED BY <2>2, <2>3, <2>4, <2>5, <2>6
<1>3. OrderInv => CompletionIsLast
  BY DEF OrderInv
<1> QED BY <1>1, <1>2, <1>3, PipelineInvariant, PTL DEF Spec

-----------------------------------------------------------------------------
(* The progress of a run. *)

\* The events of a run and the questions without one are as many as the questions,
\* but for the XADDs that were repeated.
Tallied ==
    /\ retried \in Nat
    /\ \A r \in Runs :
          Cardinality(Results(r)) + Cardinality(unannounced[r]) <= Cardinality(Questions) + retried

\* The sets that are counted are finite.
LEMMA Countable ==
    ASSUME PipelineInv, NEW r \in Runs
    PROVE  /\ IsFiniteSet(Results(r)) /\ Cardinality(Results(r)) \in Nat
           /\ IsFiniteSet(unannounced[r]) /\ Cardinality(unannounced[r]) \in Nat
           /\ Cardinality(Questions) \in Nat
<1>1. stream \in Seq(Entry) /\ unannounced[r] \in SUBSET Questions
  BY DEF PipelineInv, RedisTyped, ApiTyped
<1>2. Len(stream) \in Int /\ 1 \in Int /\ DOMAIN stream = 1..Len(stream)
  BY <1>1
<1>3. IsFiniteSet(1..Len(stream))
  BY <1>2, FS_Interval
<1>4. Results(r) \subseteq 1..Len(stream)
  BY <1>2 DEF Results
<1> QED BY <1>1, <1>3, <1>4, PipelineConfig, FS_Subset, FS_CardinalityType

\* A step that announces nothing.
LEMMA TallyQuiet ==
    ASSUME PipelineInv, Tallied, UNCHANGED <<stream, unannounced>>,
           retried' \in Nat, retried' >= retried
    PROVE  Tallied'
<1>1. \A r \in Runs : Results(r)' = Results(r)
  BY DEF Results, IsResult
<1> SUFFICES ASSUME NEW r \in Runs
             PROVE  Cardinality(Results(r)) + Cardinality(unannounced[r])
                      <= Cardinality(Questions) + retried'
  BY <1>1 DEF Tallied
<1> QED BY Countable DEF Tallied

\* An event more is a question without event less, or was repeated.
LEMMA TallyAnnounce ==
    ASSUME PipelineInv, Tallied, NEW r \in Runs, NEW q \in unannounced[r], NEW n \in Nat,
           Announce(r, q, n),
           retried' \in Nat, retried' >= retried, retried' >= retried + (n - 1)
    PROVE  Tallied'
<1> DEFINE new == [i \in 1..n |-> Event(r, q)]
           L == Len(stream)
           added == (L + 1)..(L + n)
<1>1. /\ stream \in Seq(Entry) /\ L \in Nat /\ DOMAIN stream = 1..L
      /\ unannounced \in [Runs -> SUBSET Questions]
  BY DEF PipelineInv, RedisTyped, ApiTyped
<1>2. new \in Seq(Entry) /\ Len(new) = n /\ \A i \in 1..n : new[i] = Event(r, q)
  BY <1>1 DEF Event, Entry
<1>3. stream' = stream \o new
  BY DEF Announce
<1> HIDE DEF new
<1>4. /\ DOMAIN stream' = 1..(L + n)
      /\ \A i \in 1..L : stream'[i] = stream[i]
      /\ \A i \in added : stream'[i] = Event(r, q)
  <2>1. /\ Len(stream \o new) = L + n
        /\ DOMAIN (stream \o new) = 1..(L + n)
        /\ \A i \in 1..L : (stream \o new)[i] = stream[i]
        /\ \A i \in (L + 1)..(L + n) : (stream \o new)[i] = Event(r, q)
    BY ONLY <1>1, <1>2, n \in Nat, Lengthened, SMTT(30)
  <2> QED BY <1>3, <2>1
<1> HIDE DEF L
<1>5. /\ \A i \in 1..L : IsResult(i)' <=> IsResult(i)
      /\ \A i \in added : IsResult(i)' /\ stream'[i].run = r
      /\ \A i \in 1..(L + n) : i \in 1..L \/ i \in added
      /\ 1..L \subseteq 1..(L + n) /\ added \subseteq 1..(L + n) /\ (1..L) \cap added = {}
  BY <1>1, <1>4 DEF IsResult, Event
<1>6. \A x \in Runs : x # r => Results(x)' = Results(x) /\ unannounced'[x] = unannounced[x]
  BY <1>1, <1>4, <1>5 DEF Results, Announce
<1>7. Results(r)' = Results(r) \cup added /\ Results(r) \cap added = {}
  BY <1>1, <1>4, <1>5 DEF Results
<1>8. Cardinality(Results(r)') = Cardinality(Results(r)) + n
  <2>1. IsFiniteSet(added) /\ Cardinality(added) = n
    <3>1. L + 1 \in Int /\ L + n \in Int
      BY <1>1
    <3>2. IsFiniteSet(added)
          /\ Cardinality(added) = IF L + 1 > L + n THEN 0 ELSE (L + n) - (L + 1) + 1
      BY <3>1, FS_Interval
    <3> HIDE DEF added
    <3> QED BY <1>1, <3>2
  <2>2. IsFiniteSet(Results(r)) /\ Cardinality(Results(r)) \in Nat
    BY Countable
  <2> HIDE DEF added
  <2>3. Cardinality(Results(r) \cup added)
          = Cardinality(Results(r)) + Cardinality(added) - Cardinality(Results(r) \cap added)
    BY <2>1, <2>2, FS_Union
  <2>4. Cardinality(Results(r) \cap added) = 0
    BY <1>7, FS_EmptySet
  <2>5. Cardinality(Results(r)') = Cardinality(Results(r) \cup added)
    BY <1>7
  <2> QED BY <2>1, <2>2, <2>3, <2>4, <2>5
<1>9. Cardinality(unannounced'[r]) = Cardinality(unannounced[r]) - (IF n = 0 THEN 0 ELSE 1)
  <2>1. IsFiniteSet(unannounced[r]) /\ Cardinality(unannounced[r]) \in Nat
    BY Countable
  <2>2. unannounced'[r] = IF n = 0 THEN unannounced[r] ELSE unannounced[r] \ {q}
    BY <1>1 DEF Announce
  <2>3. Cardinality(unannounced[r] \ {q}) = Cardinality(unannounced[r]) - 1
    BY <2>1, FS_RemoveElement
  <2>4. CASE n = 0
    BY <2>1, <2>2, <2>4
  <2>5. CASE n # 0
    BY <2>2, <2>3, <2>5
  <2> QED BY <2>4, <2>5
<1>10. ASSUME NEW x \in Runs
       PROVE  Cardinality(Results(x)') + Cardinality(unannounced'[x])
                <= Cardinality(Questions) + retried'
  <2>1. /\ Cardinality(Results(x)) \in Nat /\ Cardinality(unannounced[x]) \in Nat
        /\ Cardinality(Questions) \in Nat /\ retried \in Nat
        /\ Cardinality(Results(x)) + Cardinality(unannounced[x]) <= Cardinality(Questions) + retried
    BY Countable DEF Tallied
  <2>2. CASE x = r
    BY <1>8, <1>9, <2>1, <2>2
  <2>3. CASE x # r
    BY <1>6, <2>1, <2>3
  <2> QED BY <2>2, <2>3
<1> QED BY <1>10 DEF Tallied

\* The end of a run is no result.
LEMMA TallyComplete ==
    ASSUME PipelineInv, Tallied, NEW r \in Runs, PublishCompletion(r)
    PROVE  Tallied'
<1>1. /\ stream \in Seq(Entry) /\ Len(stream) \in Nat /\ DOMAIN stream = 1..Len(stream)
      /\ stream' = Append(stream, Completion(r))
      /\ unannounced' = unannounced /\ retried' = retried
  BY DEF PipelineInv, RedisTyped, PublishCompletion, counts
<1>2. Completion(r) \in Entry
  BY DEF Completion, Entry
<1>3. /\ DOMAIN stream' = 1..(Len(stream) + 1)
      /\ \A i \in 1..Len(stream) : stream'[i] = stream[i]
      /\ stream'[Len(stream) + 1] = Completion(r)
  BY <1>1, <1>2
<1>4. \A i \in 1..(Len(stream) + 1) : i \in 1..Len(stream) \/ i = Len(stream) + 1
  BY <1>1
<1>5. \A x \in Runs : Results(x)' = Results(x)
  BY <1>1, <1>3, <1>4 DEF Results, IsResult, Completion
<1> QED BY <1>1, <1>5 DEF Tallied

\* The progress of a run never exceeds its total, but for XADDs that were repeated.
THEOREM ProgressStaysBounded == Spec => []ProgressBounded
<1>1. Init => Tallied
  <2> SUFFICES ASSUME Init PROVE Tallied
    OBVIOUS
  <2>1. \A r \in Runs : Results(r) = {} /\ unannounced[r] = Questions
    BY DEF Init, Results
  <2>2. Cardinality(Questions) \in Nat /\ retried = 0
    BY PipelineConfig, FS_CardinalityType DEF Init
  <2> QED BY <2>1, <2>2, FS_EmptySet DEF Tallied
<1>2. PipelineInv /\ Tallied /\ [Next]_vars => Tallied'
  <2> SUFFICES ASSUME PipelineInv, Tallied, [Next]_vars PROVE Tallied'
    OBVIOUS
  <2>1. retried \in Nat
    BY DEF Tallied
  <2>2. ASSUME NEW r \in Runs, NEW q \in Questions, PublishResult(r, q) PROVE Tallied'
    <3>1. PICK n \in 1..(1 + MaxRetried) : Announce(r, q, n) /\ Retry(n - 1)
      BY <2>2 DEF PublishResult
    <3>2. n \in Nat /\ n >= 1 /\ q \in unannounced[r] /\ retried' = retried + (n - 1)
      BY <2>2, <3>1, PipelineConfig DEF PublishResult, Retry
    <3> QED BY <2>1, <3>1, <3>2, TallyAnnounce
  <2>3. ASSUME NEW r \in Runs, NEW q \in Questions, PublishFails(r, q) PROVE Tallied'
    <3>1. PICK n \in 0..(1 + MaxRetried) :
              Announce(r, q, n) /\ Retry(IF n = 0 THEN 0 ELSE n - 1)
      BY <2>3 DEF PublishFails
    <3>2. n \in Nat /\ q \in unannounced[r] /\ retried' = retried + (IF n = 0 THEN 0 ELSE n - 1)
      BY <2>3, <3>1, PipelineConfig DEF PublishFails, Retry
    <3> QED BY <2>1, <3>1, <3>2, TallyAnnounce
  <2>4. ASSUME NEW r \in Runs, PublishCompletion(r) PROVE Tallied'
    BY <2>4, TallyComplete
  <2>5. CASE UNCHANGED <<stream, unannounced, retried>>
    BY <2>1, <2>5, TallyQuiet
  <2>6. CASE ReadReplyLost
    BY <2>1, <2>6, TallyQuiet DEF ReadReplyLost, Retry, api
  <2>7. \/ \E r \in Runs : \/ \E q \in Questions : PublishResult(r, q) \/ PublishFails(r, q)
                           \/ PublishCompletion(r)
        \/ ReadReplyLost
        \/ UNCHANGED <<stream, unannounced, retried>>
    BY DEF Next, Uninterrupted, Progress, vars, Work, CreateRun, MarkStarted, MarkFinished,
           TaskFails, ApiRestarts, AskReport, ReadResults, SaveReport, StartWorker, Read,
           Persist, Acknowledge, WorkerStops, redis, api, counts
  <2> QED BY <2>2, <2>3, <2>4, <2>5, <2>6, <2>7
<1>3. PipelineInv /\ Tallied => ProgressBounded
  <2> SUFFICES ASSUME PipelineInv, Tallied, NEW r \in Runs
               PROVE  completed[r] <= Cardinality(Questions) + retried
    BY DEF ProgressBounded
  <2>1. completed[r] = Cardinality(Results(r) \cap processed)
    BY DEF PipelineInv, CountedOnce
  <2>2. /\ IsFiniteSet(Results(r)) /\ Cardinality(Results(r)) \in Nat
        /\ Cardinality(unannounced[r]) \in Nat /\ Cardinality(Questions) \in Nat
    BY Countable
  <2>3. /\ Cardinality(Results(r) \cap processed) <= Cardinality(Results(r))
        /\ Cardinality(Results(r) \cap processed) \in Nat
    BY <2>2, FS_Subset, FS_CardinalityType
  <2> QED BY <2>1, <2>2, <2>3 DEF Tallied
<1> QED BY <1>1, <1>2, <1>3, PipelineInvariant, PTL DEF Spec

-----------------------------------------------------------------------------
(* The page of a run: what it shows, its GET, its stream and the run. *)

Statuses == {"absent", "queued", "running", "finished"}
States == [status : Statuses, completed : Nat]
Views == [view : {"none", "loading", "run", "error"}, live : BOOLEAN, run : States]
Gets == [at : {"none", "asked", "answered", "done"}, state : States]
Feeds == [at : {"closed", "open", "ended", "lost"}, transit : Seq(States)]

\* State a was read before state b.
Behind(a, b) == Rank(a) <= Rank(b) /\ a.completed <= b.completed

\* The messages under way are in the order in which they were read, none is ahead
\* of the run, and a page that is live is ahead of none of them.
InOrder(view, f, state) ==
    /\ \A i \in 1..Len(f.transit) : Behind(f.transit[i], state)
    /\ \A i, j \in 1..Len(f.transit) : i <= j => Behind(f.transit[i], f.transit[j])
    /\ view.live =>
         /\ Behind(view.run, state)
         /\ \A i \in 1..Len(f.transit) : Behind(view.run, f.transit[i])

\* A page that was not opened has no connections, one that was is of a run that
\* exists, and one that shows the run has had the answer of its GET, which will not
\* come again and take it back.
Coherent(view, g, f, state) ==
    /\ view.view = "none" => ~view.live /\ f.at = "closed" /\ f.transit = <<>> /\ g.at = "none"
    /\ view.view # "none" => state.status # "absent"
    /\ view.live \/ view.view = "run" => g.at = "done"
    /\ InOrder(view, f, state)

LEMMA RankIsNat == \A a : Rank(a) \in Nat
  BY DEF Rank

LEMMA BehindItself ==
    ASSUME NEW a \in States
    PROVE  Behind(a, a)
  BY RankIsNat DEF Behind, States

LEMMA BehindBehind ==
    ASSUME NEW a \in States, NEW b \in States, NEW c \in States, Behind(a, b), Behind(b, c)
    PROVE  Behind(a, c)
<1>1. Rank(a) \in Nat /\ Rank(b) \in Nat /\ Rank(c) \in Nat
  BY RankIsNat
<1>2. a.completed \in Nat /\ b.completed \in Nat /\ c.completed \in Nat
  BY DEF States
<1> QED BY <1>1, <1>2 DEF Behind

\* The run moves on.
LEMMA RunMovesOn ==
    ASSUME NEW view \in Views, NEW g \in Gets, NEW f \in Feeds,
           NEW s \in States, NEW t \in States, Coherent(view, g, f, s),
           s.status # "absent" => t.status # "absent" /\ Behind(s, t)
    PROVE  Coherent(view, g, f, t)
<1>1. f.transit \in Seq(States) /\ view.run \in States
  BY DEF Feeds, Views
<1>2. \A i \in 1..Len(f.transit) : f.transit[i] \in States
  BY <1>1
<1>3. CASE view.view = "none"
  <2>1. f.transit = <<>> /\ ~view.live
    BY <1>3 DEF Coherent
  <2>2. InOrder(view, f, t)
    BY <2>1 DEF InOrder
  <2> QED BY <1>3, <2>2 DEF Coherent
<1>4. CASE view.view # "none"
  <2>1. t.status # "absent" /\ Behind(s, t)
    BY <1>4 DEF Coherent
  <2>2. InOrder(view, f, s)
    BY DEF Coherent
  <2>3. \A i \in 1..Len(f.transit) : Behind(f.transit[i], t)
    BY <1>2, <2>1, <2>2, BehindBehind DEF InOrder
  <2>4. view.live => Behind(view.run, t)
    BY <1>1, <2>1, <2>2, BehindBehind DEF InOrder
  <2>5. InOrder(view, f, t)
    BY <2>2, <2>3, <2>4 DEF InOrder
  <2> QED BY <1>4, <2>1, <2>5 DEF Coherent
<1> QED BY <1>3, <1>4

\* A message with the state of the run is sent.
LEMMA MessageSent ==
    ASSUME NEW view \in Views, NEW g \in Gets, NEW f \in Feeds, NEW s \in States,
           Coherent(view, g, f, s), f.at = "open", NEW at \in {"open", "ended"}
    PROVE  LET h == [at |-> at, transit |-> f.transit \o <<s>>]
           IN  h \in Feeds /\ Coherent(view, g, h, s)
<1>1. f.transit \in Seq(States) /\ view.run \in States
  BY DEF Feeds, Views
<1> DEFINE long == f.transit \o <<s>>
           h == [at |-> at, transit |-> long]
<1>2. /\ long \in Seq(States) /\ Len(long) = Len(f.transit) + 1 /\ Len(f.transit) \in Nat
      /\ \A i \in 1..Len(f.transit) : long[i] = f.transit[i]
      /\ long[Len(f.transit) + 1] = s
  BY <1>1
<1> HIDE DEF long
<1>3. \A i \in 1..Len(long) : i \in 1..Len(f.transit) \/ i = Len(f.transit) + 1
  BY <1>2
<1>4. h.at = at /\ h.transit = long /\ h \in Feeds
  BY <1>2 DEF Feeds
<1>5. Behind(s, s)
  BY BehindItself
<1>6. InOrder(view, f, s)
  BY DEF Coherent
<1> HIDE DEF h
<1>7. \A i \in 1..Len(long) : Behind(long[i], s)
  BY <1>2, <1>3, <1>5, <1>6 DEF InOrder
<1>8. ASSUME NEW i \in 1..Len(long), NEW j \in 1..Len(long), i <= j
      PROVE  Behind(long[i], long[j])
  <2>1. CASE j = Len(f.transit) + 1
    BY <1>2, <1>7, <2>1
  <2>2. CASE j \in 1..Len(f.transit)
    <3>1. i \in 1..Len(f.transit)
      BY <1>2, <1>8, <2>2
    <3> QED BY <1>2, <1>6, <1>8, <2>2, <3>1 DEF InOrder
  <2> QED BY <1>3, <2>1, <2>2
<1>9. view.live => Behind(view.run, s) /\ \A i \in 1..Len(long) : Behind(view.run, long[i])
  BY <1>2, <1>3, <1>6 DEF InOrder
<1>10. InOrder(view, h, s)
  BY <1>4, <1>7, <1>8, <1>9 DEF InOrder
<1>11. view.view # "none"
  BY DEF Coherent
<1>12. Coherent(view, g, h, s)
  BY <1>10, <1>11 DEF Coherent
<1> QED BY <1>4, <1>12 DEF h, long

\* A new connection.
LEMMA ConnectsAnew ==
    ASSUME NEW view \in Views, NEW g \in Gets, NEW f \in Feeds, NEW s \in States,
           Coherent(view, g, f, s), view.view # "none"
    PROVE  Connected \in Feeds /\ Coherent(view, g, Connected, s)
<1>1. Connected.transit = <<>> /\ Connected \in Feeds
  BY DEF Connected, Feeds
<1>2. InOrder(view, Connected, s)
  BY <1>1 DEF InOrder, Coherent
<1> QED BY <1>1, <1>2 DEF Coherent

\* The answer of the GET, and its failure.
LEMMA AnswerKept ==
    ASSUME NEW view \in Views, NEW g \in Gets, NEW f \in Feeds, NEW s \in States,
           Coherent(view, g, f, s), g.at = "asked"
    PROVE  LET h == [at |-> "answered", state |-> s]
           IN  h \in Gets /\ Coherent(view, h, f, s)
<1> DEFINE h == [at |-> "answered", state |-> s]
<1>1. h \in Gets /\ h.at = "answered"
  BY DEF Gets
<1>2. view.view \notin {"none", "run"} /\ ~view.live
  BY DEF Coherent
<1> HIDE DEF h
<1>3. Coherent(view, h, f, s)
  BY <1>1, <1>2 DEF Coherent
<1> QED BY <1>1, <1>3 DEF h

LEMMA AnswerShown ==
    ASSUME NEW view \in Views, NEW g \in Gets, NEW f \in Feeds, NEW s \in States,
           Coherent(view, g, f, s), g.at = "answered"
    PROVE  LET v == [view |-> "run", live |-> view.live, run |-> g.state]
               h == [g EXCEPT !.at = "done"]
           IN  /\ v \in Views /\ h \in Gets /\ Coherent(v, h, f, s)
               /\ v.view # "none" /\ ~view.live
<1> DEFINE v == [view |-> "run", live |-> view.live, run |-> g.state]
           h == [g EXCEPT !.at = "done"]
<1>1. h \in Gets /\ h.at = "done"
  BY DEF Gets
<1>2. view.view # "none" /\ ~view.live
  BY DEF Coherent
<1>3. v \in Views /\ v.view = "run" /\ ~v.live
  BY <1>2 DEF Views, Gets
<1> HIDE DEF v, h
<1>4. InOrder(v, f, s)
  BY <1>3 DEF Coherent, InOrder
<1>5. Coherent(v, h, f, s)
  BY <1>1, <1>2, <1>3, <1>4 DEF Coherent
<1> QED BY <1>1, <1>2, <1>3, <1>5 DEF v, h

LEMMA GetLost ==
    ASSUME NEW view \in Views, NEW g \in Gets, NEW f \in Feeds, NEW s \in States,
           Coherent(view, g, f, s), g.at \in {"asked", "answered"}
    PROVE  LET v == [view EXCEPT !.view = "error"]
               h == [g EXCEPT !.at = "done"]
           IN  v \in Views /\ h \in Gets /\ Coherent(v, h, f, s) /\ ~view.live
<1> DEFINE v == [view EXCEPT !.view = "error"]
           h == [g EXCEPT !.at = "done"]
<1>1. h \in Gets /\ h.at = "done"
  BY DEF Gets
<1>2. view.view # "none" /\ ~view.live
  BY DEF Coherent
<1>3. v \in Views /\ v.view = "error" /\ ~v.live
  BY <1>2 DEF Views
<1> HIDE DEF v, h
<1>4. InOrder(v, f, s)
  BY <1>3 DEF Coherent, InOrder
<1>5. Coherent(v, h, f, s)
  BY <1>1, <1>2, <1>3, <1>4 DEF Coherent
<1> QED BY <1>1, <1>2, <1>3, <1>5 DEF v, h

\* A message arrives: what the page shows does not go back.
LEMMA MessageShown ==
    ASSUME NEW view \in Views, NEW g \in Gets, NEW f \in Feeds, NEW s \in States,
           Coherent(view, g, f, s), f.transit # <<>>
    PROVE  LET v == Merged(view, Head(f.transit))
               h == [f EXCEPT !.transit = Tail(f.transit)]
           IN  /\ v \in Views /\ h \in Feeds /\ Coherent(v, g, h, s)
               /\ view.live => Behind(view.run, v.run)
<1> DEFINE m == Head(f.transit)
           rest == Tail(f.transit)
           v == Merged(view, m)
           h == [f EXCEPT !.transit = rest]
<1>1. f.transit \in Seq(States) /\ view.run \in States
  BY DEF Feeds, Views
<1>2. /\ m \in States /\ m = f.transit[1] /\ 1 \in 1..Len(f.transit)
      /\ rest \in Seq(States) /\ Len(rest) = Len(f.transit) - 1 /\ Len(f.transit) \in Nat
      /\ \A i \in 1..Len(rest) : rest[i] = f.transit[i + 1] /\ i + 1 \in 1..Len(f.transit) /\ 1 <= i + 1
  BY <1>1
<1> HIDE DEF m, rest
<1>3. h \in Feeds /\ h.transit = rest /\ h.at = f.at
  BY <1>2 DEF Feeds
<1> HIDE DEF h
<1>4. view.view # "none" /\ InOrder(view, f, s)
  BY DEF Coherent
<1>5. \A i \in 1..Len(rest) : Behind(rest[i], s)
  BY <1>2, <1>4 DEF InOrder
<1>6. \A i, j \in 1..Len(rest) : i <= j => Behind(rest[i], rest[j])
  <2> SUFFICES ASSUME NEW i \in 1..Len(rest), NEW j \in 1..Len(rest), i <= j
               PROVE  Behind(rest[i], rest[j])
    OBVIOUS
  <2>1. i + 1 <= j + 1
    BY <1>2
  <2> QED BY <1>2, <1>4, <2>1 DEF InOrder
<1>7. Behind(m, s) /\ \A i \in 1..Len(rest) : Behind(m, rest[i])
  BY <1>2, <1>4 DEF InOrder
<1>8. CASE view.view # "run"
  <2>1. v = view
    BY <1>8 DEF Merged
  <2>2. view.live => \A i \in 1..Len(rest) : Behind(view.run, rest[i])
    BY <1>2, <1>4 DEF InOrder
  <2>3. InOrder(view, h, s)
    BY <1>3, <1>4, <1>5, <1>6, <2>2 DEF InOrder
  <2>4. Coherent(view, g, h, s)
    BY <1>4, <2>3 DEF Coherent
  <2> QED BY <1>1, <1>3, <2>1, <2>4, BehindItself DEF m, rest, h
<1>9. CASE view.view = "run"
  <2>1. v = [view |-> "run", live |-> TRUE, run |-> m]
    BY <1>9 DEF Merged
  <2>2. v \in Views /\ v.view = "run" /\ v.run = m
    BY <1>2, <2>1 DEF Views
  <2> HIDE DEF v
  <2>3. InOrder(v, h, s)
    BY <1>3, <1>5, <1>6, <1>7, <2>2 DEF InOrder
  <2>4. Coherent(v, g, h, s)
    BY <1>4, <1>9, <2>2, <2>3 DEF Coherent
  <2>5. view.live => Behind(view.run, v.run)
    BY <1>2, <1>4, <2>2 DEF InOrder
  <2> QED BY <1>3, <2>2, <2>4, <2>5 DEF v, m, rest, h
<1> QED BY <1>8, <1>9

\* The connection is lost with its last messages.
LEMMA ConnectionGone ==
    ASSUME NEW view \in Views, NEW g \in Gets, NEW f \in Feeds, NEW s \in States,
           Coherent(view, g, f, s), f.at \in {"open", "ended"}, NEW h \in Lost(f)
    PROVE  h \in Feeds /\ Coherent(view, g, h, s)
<1>1. PICK n \in 0..Len(f.transit) : h = [at |-> "lost", transit |-> SubSeq(f.transit, 1, n)]
  BY DEF Lost
<1>2. f.transit \in Seq(States)
  BY DEF Feeds
<1> DEFINE first == SubSeq(f.transit, 1, n)
<1>3. /\ first \in Seq(States) /\ Len(first) = n
      /\ \A i \in 1..n : first[i] = f.transit[i] /\ i \in 1..Len(f.transit)
  BY <1>2
<1> HIDE DEF first
<1>4. h.transit = first /\ h.at = "lost"
  BY <1>1 DEF first
<1>5. h \in Feeds
  BY <1>1, <1>3 DEF Feeds, first
<1>6. view.view # "none" /\ InOrder(view, f, s)
  BY DEF Coherent
<1>7. InOrder(view, h, s)
  BY <1>3, <1>4, <1>6 DEF InOrder
<1>8. Coherent(view, g, h, s)
  BY <1>6, <1>7 DEF Coherent
<1> QED BY <1>5, <1>8

-----------------------------------------------------------------------------
(* The runs move in one direction. *)

PageTyped ==
    /\ shown \in [Runs -> Views]
    /\ get \in [Runs -> Gets]
    /\ feed \in [Runs -> Feeds]

\* The task of a run tells how far its status can be.
Moving ==
    /\ status \in [Runs -> Statuses]
    /\ completed \in [Runs -> Nat]
    /\ \A r \in Runs : task[r] = "none" => status[r] = "absent"
    /\ \A r \in Runs : task[r] = "starting" => status[r] = "queued"

Coherence == \A r \in Runs : Coherent(shown[r], get[r], feed[r], State(r))

\* The inductive invariant of the pages: that of the pipeline is kept beside.
PageInv ==
    /\ PipelineInv
    /\ Moving
    /\ PageTyped
    /\ Coherence

LEMMA StateTyped ==
    ASSUME Moving, NEW r \in Runs
    PROVE  State(r) \in States
  BY DEF Moving, State, States

\* A step of the pipeline, or a fault of the page.
PipelineStep == Next \/ FaultOfPage \/ UNCHANGED vars

Advances(r) == status[r] # "absent" => status'[r] # "absent" /\ Behind(State(r), State(r)')

\* No step of the pipeline takes a run back.
LEMMA RunsAdvance ==
    ASSUME PipelineInv, Moving, PipelineStep
    PROVE  Moving' /\ \A r \in Runs : Advances(r)
<1>1. /\ status \in [Runs -> Statuses] /\ completed \in [Runs -> Nat]
      /\ task \in [Runs -> {"none", "starting", "scheduling", "finishing", "ended", "dead"}]
  BY DEF Moving, PipelineInv, ApiTyped
<1>2. ASSUME UNCHANGED <<status, completed>>,
             \A r \in Runs : task'[r] = task[r] \/ task'[r] \notin {"none", "starting"}
      PROVE  Moving' /\ \A r \in Runs : Advances(r)
  <2>1. Moving'
    BY <1>2 DEF Moving
  <2>2. \A r \in Runs : State(r)' = State(r) /\ State(r) \in States
    BY <1>2, StateTyped DEF State
  <2> QED BY <1>2, <2>1, <2>2, BehindItself DEF Advances
<1>3. ASSUME NEW r \in Runs, NEW s \in Statuses \ {"absent"}, NEW t,
             status' = [status EXCEPT ![r] = s], task' = [task EXCEPT ![r] = t],
             UNCHANGED completed,
             (t = "starting" /\ s = "queued") \/ t \notin {"none", "starting"},
             \/ status[r] = "absent"
             \/ status[r] = "queued" /\ s = "running"
             \/ s = "finished"
      PROVE  Moving' /\ \A p \in Runs : Advances(p)
  <2>1. Moving'
    BY <1>1, <1>3 DEF Moving
  <2>2. ASSUME NEW p \in Runs, status[p] # "absent"
        PROVE  status'[p] # "absent" /\ Behind(State(p), State(p)')
    <3>1. State(p).completed = completed[p] /\ State(p)'.completed = completed[p]
          /\ completed[p] \in Nat
      BY <1>1, <1>3 DEF State
    <3>2. CASE p # r
      <4>1. status'[p] = status[p]
        BY <1>1, <1>3, <3>2
      <4>2. State(p)' = State(p)
        BY <1>3, <4>1 DEF State
      <4> QED BY <2>2, <4>1, <4>2, StateTyped, BehindItself
    <3>3. CASE p = r
      <4>1. status'[p] = s
        BY <1>1, <1>3, <3>3
      <4>2. State(p).status = status[p] /\ State(p)'.status = s
        BY <4>1 DEF State
      <4>3. Rank(State(p)) <= Rank(State(p)')
        BY <1>3, <2>2, <3>3, <4>2 DEF Rank
      <4> QED BY <3>1, <4>1, <4>3 DEF Behind
    <3> QED BY <3>2, <3>3
  <2> QED BY <2>1, <2>2 DEF Advances
<1>4. ASSUME NEW r \in Runs, CreateRun(r)
      PROVE  Moving' /\ \A p \in Runs : Advances(p)
  <2>1. status[r] = "absent"
    BY <1>4 DEF CreateRun, Moving
  <2> QED BY <1>3, <1>4, <2>1 DEF CreateRun, Statuses
<1>5. ASSUME NEW r \in Runs, MarkStarted(r)
      PROVE  Moving' /\ \A p \in Runs : Advances(p)
  <2>1. status[r] = "queued"
    BY <1>5 DEF MarkStarted, Moving
  <2> QED BY <1>3, <1>5, <2>1 DEF MarkStarted, Statuses
<1>6. ASSUME NEW r \in Runs, MarkFinished(r)
      PROVE  Moving' /\ \A p \in Runs : Advances(p)
  BY <1>3, <1>6 DEF MarkFinished, Statuses
<1>7. CASE Persist
  <2>1. UNCHANGED <<status, task>>
    BY <1>7 DEF Persist, api
  <2>2. PICK p : completed' = completed \/ completed' = [completed EXCEPT ![p] = completed[p] + 1]
    <3> DEFINE id == worker.next
               r == stream[id].run
    <3>1. completed' = [completed EXCEPT ![r] = IF id \notin processed THEN completed[r] + 1
                                                                   ELSE completed[r]]
      BY <1>7 DEF Persist
    <3>2. [completed EXCEPT ![r] = completed[r]] = completed
      BY <1>1
    <3> QED BY <3>1, <3>2
  <2>3. completed' \in [Runs -> Nat] /\ \A r \in Runs : completed[r] <= completed'[r]
    BY <1>1, <2>2
  <2>4. Moving'
    BY <2>1, <2>3 DEF Moving
  <2>5. ASSUME NEW r \in Runs
        PROVE  Behind(State(r), State(r)')
    <3>1. /\ State(r).completed = completed[r] /\ State(r)'.completed = completed'[r]
          /\ State(r).status = State(r)'.status
      BY <2>1 DEF State
    <3>2. Rank(State(r)) = Rank(State(r)')
      BY <3>1 DEF Rank
    <3> QED BY <2>3, <3>1, <3>2, RankIsNat DEF Behind
  <2> QED BY <2>1, <2>4, <2>5 DEF Advances
<1>8. ASSUME NEW r \in Runs,
             PublishCompletion(r) \/ TaskFails(r)
               \/ \E q \in Questions : PublishResult(r, q) \/ PublishFails(r, q)
      PROVE  Moving' /\ \A p \in Runs : Advances(p)
  <2>1. UNCHANGED <<status, completed>>
    BY <1>8 DEF PublishCompletion, TaskFails, PublishResult, PublishFails, database
  <2>2. task' = task \/ \E t \in {"ended", "dead"} : task' = [task EXCEPT ![r] = t]
    BY <1>8 DEF PublishCompletion, TaskFails, PublishResult, PublishFails
  <2>3. \A p \in Runs : task'[p] = task[p] \/ task'[p] \notin {"none", "starting"}
    BY <1>1, <2>2
  <2> QED BY <1>2, <2>1, <2>3
<1>9. CASE ApiRestarts
  <2>1. UNCHANGED <<status, completed>>
        /\ \A p \in Runs : task'[p] = task[p] \/ task'[p] \notin {"none", "starting"}
    BY <1>9 DEF ApiRestarts, database
  <2> QED BY <1>2, <2>1
<1>10. CASE UNCHANGED <<status, completed, task>>
  BY <1>2, <1>10
<1>11. CASE \/ \E r \in Runs, c \in Readers : AskReport(c, r)
            \/ \E c \in Readers : ReadResults(c) \/ SaveReport(c)
            \/ StartWorker \/ Read \/ Acknowledge \/ ReadReplyLost \/ WorkerStops
            \/ FaultOfPage \/ UNCHANGED vars
  <2>1. UNCHANGED <<status, completed, task>>
    BY <1>11 DEF AskReport, ReadResults, SaveReport, StartWorker, Read, Acknowledge,
       ReadReplyLost, WorkerStops, FaultOfPage, vars, database, api
  <2> QED BY <1>10, <2>1
<1> QED BY <1>4, <1>5, <1>6, <1>7, <1>8, <1>9, <1>11
        DEF PipelineStep, Next, Uninterrupted, Progress, Work

\* Nor does it take a page that is left alone back.
LEMMA PipelineKeepsCoherence ==
    ASSUME PipelineInv, Moving, PageTyped, Coherence, PipelineStep
    PROVE  /\ Moving'
           /\ \A r \in Runs : State(r)' \in States
           /\ \A r \in Runs : Coherent(shown[r], get[r], feed[r], State(r)')
<1>1. Moving' /\ \A r \in Runs : Advances(r)
  BY RunsAdvance
<1>2. ASSUME NEW r \in Runs PROVE State(r) \in States /\ State(r)' \in States
  <2>1. State(r) \in States
    BY StateTyped
  <2>2. State(r)' \in States
    BY <1>1 DEF Moving, State, States
  <2> QED BY <2>1, <2>2
<1>3. ASSUME NEW r \in Runs PROVE Coherent(shown[r], get[r], feed[r], State(r)')
  <2>1. PICK s \in States : s = State(r)
    BY <1>2
  <2>2. PICK t \in States : t = State(r)'
    BY <1>2
  <2>3. s.status = status[r] /\ t.status = status'[r]
    BY <2>1, <2>2 DEF State
  <2>4. s.status # "absent" => t.status # "absent" /\ Behind(s, t)
    BY <1>1, <2>1, <2>2, <2>3 DEF Advances
  <2>5. shown[r] \in Views /\ get[r] \in Gets /\ feed[r] \in Feeds
    BY DEF PageTyped
  <2>6. Coherent(shown[r], get[r], feed[r], s)
    BY <2>1 DEF Coherence
  <2>7. Coherent(shown[r], get[r], feed[r], t)
    BY <2>4, <2>5, <2>6, RunMovesOn
  <2> QED BY <2>2, <2>7
<1> QED BY <1>1, <1>2, <1>3

\* A step of the page of one run, beside a step of the pipeline.
LEMMA PageMoves ==
    ASSUME PageInv, PipelineStep, PipelineInv', NEW r \in Runs,
           NEW v \in Views, NEW g \in Gets, NEW f \in Feeds,
           shown' = [shown EXCEPT ![r] = v],
           get' = [get EXCEPT ![r] = g],
           feed' = [feed EXCEPT ![r] = f],
           Coherent(v, g, f, State(r)')
    PROVE  PageInv'
<1>1. /\ Moving'
      /\ \A p \in Runs : Coherent(shown[p], get[p], feed[p], State(p)')
  BY PipelineKeepsCoherence DEF PageInv
<1>2. PageTyped'
  BY DEF PageInv, PageTyped
<1>3. ASSUME NEW p \in Runs
      PROVE  Coherent(shown'[p], get'[p], feed'[p], State(p)')
  <2>1. p # r => shown'[p] = shown[p] /\ get'[p] = get[p] /\ feed'[p] = feed[p]
    BY DEF PageInv, PageTyped
  <2>2. shown'[r] = v /\ get'[r] = g /\ feed'[r] = f
    BY DEF PageInv, PageTyped
  <2> QED BY <1>1, <2>1, <2>2
<1>4. Coherence'
  BY <1>3 DEF Coherence
<1> QED BY <1>1, <1>2, <1>4 DEF PageInv

\* What the page of r shows does not go back.
Forward(r) == shown[r].live => Behind(shown[r].run, shown'[r].run)

LEMMA StaysForward ==
    ASSUME PageTyped, NEW r \in Runs, shown'[r].run = shown[r].run
    PROVE  Forward(r)
<1>1. shown[r].run \in States
  BY DEF PageTyped, Views
<1> QED BY <1>1, BehindItself DEF Forward

\* The same for the pages of all runs, when that of one may change.
LEMMA OthersForward ==
    ASSUME PageTyped, NEW r \in Runs, NEW v \in Views, shown' = [shown EXCEPT ![r] = v],
           shown[r].live => Behind(shown[r].run, v.run)
    PROVE  \A p \in Runs : Forward(p)
<1>1. ASSUME NEW p \in Runs
      PROVE  Forward(p)
  <2>1. CASE p = r
    BY <2>1 DEF PageTyped, Forward
  <2>2. CASE p # r
    <3>1. shown'[p] = shown[p]
      BY <2>2 DEF PageTyped
    <3> QED BY <3>1, StaysForward
  <2> QED BY <2>1, <2>2
<1> QED BY <1>1

\* A step of one page.
OnePageStep(r) == \/ OpenPage(r) \/ PageStep(r)
                  \/ GetFails(r) \/ ConnectionLost(r) \/ HiddenAndVisible(r)

LEMMA OnePage ==
    ASSUME PageInv, PipelineInv', NEW r \in Runs, OnePageStep(r)
    PROVE  PageInv' /\ \A p \in Runs : Forward(p)
<1>1. /\ shown \in [Runs -> Views] /\ get \in [Runs -> Gets] /\ feed \in [Runs -> Feeds]
      /\ PageTyped /\ Moving
  BY DEF PageInv, PageTyped
<1>2. PICK v \in Views, g \in Gets, f \in Feeds : v = shown[r] /\ g = get[r] /\ f = feed[r]
  BY <1>1
<1>3. PICK s \in States : s = State(r)
  BY <1>1, StateTyped
<1>4. UNCHANGED vars \/ FaultOfPage
  BY DEF OnePageStep, OpenPage, PageStep, AnswerGet, ReceiveRun, Poll, ReceiveEvent, GetFails,
         ConnectionLost, HiddenAndVisible
<1>5. PipelineStep /\ State(r)' = s
  <2>1. UNCHANGED <<status, completed>>
    BY <1>4 DEF FaultOfPage, vars, database
  <2> QED BY <1>3, <1>4, <2>1 DEF PipelineStep, State
<1>6. Coherent(v, g, f, s)
  BY <1>2, <1>3 DEF PageInv, Coherence
<1>7. /\ shown = [shown EXCEPT ![r] = v]
      /\ get = [get EXCEPT ![r] = g]
      /\ feed = [feed EXCEPT ![r] = f]
  BY <1>1, <1>2
<1>8. ASSUME NEW w \in Views, NEW h \in Gets, NEW k \in Feeds,
             shown' = [shown EXCEPT ![r] = w],
             get' = [get EXCEPT ![r] = h],
             feed' = [feed EXCEPT ![r] = k],
             Coherent(w, h, k, s),
             v.live => Behind(v.run, w.run)
      PROVE  PageInv' /\ \A p \in Runs : Forward(p)
  <2>1. PageInv'
    BY <1>5, <1>8, PageMoves
  <2>2. \A p \in Runs : Forward(p)
    BY <1>1, <1>2, <1>8, OthersForward
  <2> QED BY <2>1, <2>2
<1>9. v.live => Behind(v.run, v.run)
  <2>1. v.run \in States
    BY DEF Views
  <2> QED BY <2>1, BehindItself
<1>10. CASE OpenPage(r)
  <2> DEFINE w == [v EXCEPT !.view = "loading"]
             h == [g EXCEPT !.at = "asked"]
  <2>1. v.view = "none" /\ s.status # "absent" /\ ~v.live
    BY <1>2, <1>3, <1>6, <1>10 DEF OpenPage, State, Coherent
  <2>2. /\ shown' = [shown EXCEPT ![r] = w]
        /\ get' = [get EXCEPT ![r] = h]
        /\ feed' = [feed EXCEPT ![r] = Connected]
    BY <1>2, <1>10 DEF OpenPage
  <2>3. w \in Views /\ w.view = "loading" /\ ~w.live
    BY <2>1 DEF Views
  <2>4. h \in Gets
    BY DEF Gets
  <2>5. Connected \in Feeds /\ Connected.transit = <<>>
    BY DEF Connected, Feeds
  <2> HIDE DEF w, h
  <2>6. InOrder(w, Connected, s)
    BY <2>3, <2>5 DEF InOrder
  <2>7. Coherent(w, h, Connected, s)
    BY <2>1, <2>3, <2>6 DEF Coherent
  <2> QED BY <1>8, <2>1, <2>2, <2>3, <2>4, <2>5, <2>7
<1>11. CASE AnswerGet(r)
  <2> DEFINE h == [at |-> "answered", state |-> s]
  <2>1. h \in Gets /\ Coherent(v, h, f, s)
    BY <1>2, <1>6, <1>11, AnswerKept DEF AnswerGet
  <2>2. get' = [get EXCEPT ![r] = h] /\ shown' = shown /\ feed' = feed
    BY <1>3, <1>11 DEF AnswerGet
  <2> HIDE DEF h
  <2> QED BY <1>7, <1>8, <1>9, <2>1, <2>2
<1>12. CASE ReceiveRun(r)
  <2> DEFINE w == [view |-> "run", live |-> v.live, run |-> g.state]
             h == [g EXCEPT !.at = "done"]
  <2>1. w \in Views /\ h \in Gets /\ Coherent(w, h, f, s) /\ w.view # "none" /\ ~v.live
    BY <1>2, <1>6, <1>12, AnswerShown DEF ReceiveRun
  <2>2. get' = [get EXCEPT ![r] = h] /\ shown' = [shown EXCEPT ![r] = w]
    BY <1>2, <1>12 DEF ReceiveRun
  <2>3. feed' = [feed EXCEPT ![r] = f] \/ feed' = [feed EXCEPT ![r] = Connected]
    BY <1>2, <1>12 DEF ReceiveRun
  <2> HIDE DEF w, h
  <2>4. Connected \in Feeds /\ Coherent(w, h, Connected, s)
    BY <2>1, ConnectsAnew
  <2> QED BY <1>8, <2>1, <2>2, <2>3, <2>4
<1>13. CASE Poll(r)
  <2>1. PICK at \in {"open", "ended"} : at = IF Final(State(r)) THEN "ended" ELSE "open"
    OBVIOUS
  <2> DEFINE k == [at |-> at, transit |-> f.transit \o <<s>>]
  <2>2. f.at = "open"
    BY <1>2, <1>13 DEF Poll
  <2>3. k \in Feeds /\ Coherent(v, g, k, s)
    BY <1>6, <2>2, MessageSent
  <2>4. feed' = [feed EXCEPT ![r] = k] /\ shown' = shown /\ get' = get
    BY <1>2, <1>3, <1>13, <2>1 DEF Poll, Polled
  <2> HIDE DEF k
  <2> QED BY <1>7, <1>8, <1>9, <2>3, <2>4
<1>14. CASE ReceiveEvent(r)
  <2> DEFINE w == Merged(v, Head(f.transit))
             k == [f EXCEPT !.transit = Tail(f.transit)]
  <2>1. f.transit # <<>>
    BY <1>2, <1>14 DEF ReceiveEvent
  <2>2. /\ w \in Views /\ k \in Feeds /\ Coherent(w, g, k, s)
        /\ v.live => Behind(v.run, w.run)
    BY <1>6, <2>1, MessageShown
  <2>3. shown' = [shown EXCEPT ![r] = w] /\ feed' = [feed EXCEPT ![r] = k] /\ get' = get
    BY <1>2, <1>14 DEF ReceiveEvent
  <2> HIDE DEF w, k
  <2> QED BY <1>7, <1>8, <2>2, <2>3
<1>15. CASE GetFails(r)
  <2> DEFINE w == [v EXCEPT !.view = "error"]
             h == [g EXCEPT !.at = "done"]
  <2>1. w \in Views /\ h \in Gets /\ Coherent(w, h, f, s) /\ ~v.live
    BY <1>2, <1>6, <1>15, GetLost DEF GetFails
  <2>2. get' = [get EXCEPT ![r] = h] /\ shown' = [shown EXCEPT ![r] = w] /\ feed' = feed
    BY <1>2, <1>15 DEF GetFails, Failed
  <2> HIDE DEF w, h
  <2> QED BY <1>7, <1>8, <2>1, <2>2
<1>16. CASE ConnectionLost(r)
  <2>1. PICK k \in Lost(f) : feed' = [feed EXCEPT ![r] = k]
    BY <1>2, <1>16 DEF ConnectionLost
  <2>2. k \in Feeds /\ Coherent(v, g, k, s)
    <3>1. f.at \in {"open", "ended"}
      BY <1>2, <1>16 DEF ConnectionLost, Unread
    <3> QED BY <1>2, <1>6, <2>1, <3>1, ConnectionGone
  <2>3. shown' = shown /\ get' = get
    BY <1>16 DEF ConnectionLost
  <2> QED BY <1>7, <1>8, <1>9, <2>1, <2>2, <2>3
<1>17. CASE HiddenAndVisible(r)
  <2>1. v.view # "none"
    BY <1>2, <1>6, <1>17 DEF HiddenAndVisible, Unread, Coherent
  <2>2. Connected \in Feeds /\ Coherent(v, g, Connected, s)
    BY <1>6, <2>1, ConnectsAnew
  <2>3. feed' = [feed EXCEPT ![r] = Connected] /\ shown' = shown /\ get' = get
    BY <1>17 DEF HiddenAndVisible
  <2> QED BY <1>7, <1>8, <1>9, <2>2, <2>3
<1> QED BY <1>10, <1>11, <1>12, <1>13, <1>14, <1>15, <1>16, <1>17 DEF OnePageStep, PageStep

\* The restart of the API breaks the connections of every page.
LEMMA RestartsPage ==
    ASSUME PageInv, PipelineInv', RestartApi
    PROVE  PageInv' /\ \A p \in Runs : Forward(p)
<1>1. /\ shown \in [Runs -> Views] /\ get \in [Runs -> Gets] /\ feed \in [Runs -> Feeds]
      /\ PageTyped /\ Moving /\ PipelineStep
  BY DEF PageInv, PageTyped, RestartApi, PipelineStep, Next
<1>2. /\ Moving'
      /\ \A p \in Runs : State(p)' \in States
      /\ \A p \in Runs : Coherent(shown[p], get[p], feed[p], State(p)')
  BY <1>1, PipelineKeepsCoherence DEF PageInv
<1>3. ASSUME NEW p \in Runs
      PROVE  /\ shown'[p] \in Views /\ get'[p] \in Gets /\ feed'[p] \in Feeds
             /\ Coherent(shown'[p], get'[p], feed'[p], State(p)')
             /\ Forward(p)
  <2>1. PICK v \in Views, g \in Gets, f \in Feeds : v = shown[p] /\ g = get[p] /\ f = feed[p]
    BY <1>1
  <2>2. PICK s \in States : s = State(p)'
    BY <1>2
  <2>3. Coherent(v, g, f, s)
    BY <1>2, <2>1, <2>2
  <2>4. /\ get'[p] = IF g.at = "asked" THEN [g EXCEPT !.at = "done"] ELSE g
        /\ shown'[p] = IF g.at = "asked" THEN [v EXCEPT !.view = "error"] ELSE v
        /\ feed'[p] = f \/ (feed'[p] \in Lost(f) /\ f.at \in {"open", "ended"})
    BY <2>1 DEF RestartApi, Failed, Unread
  <2>5. PICK w, h : w = shown'[p] /\ h = get'[p]
    OBVIOUS
  <2>6. w \in Views /\ h \in Gets /\ Coherent(w, h, f, s) /\ Forward(p)
    <3>1. CASE g.at = "asked"
      <4>1. w \in Views /\ h \in Gets /\ Coherent(w, h, f, s) /\ ~v.live
        BY <2>3, <2>4, <2>5, <3>1, GetLost
      <4> QED BY <2>1, <4>1 DEF Forward
    <3>2. CASE g.at # "asked"
      <4>1. w = v /\ h = g
        BY <2>4, <2>5, <3>2
      <4> QED BY <1>1, <2>1, <2>3, <2>5, <4>1, StaysForward
    <3> QED BY <3>1, <3>2
  <2>7. feed'[p] \in Feeds /\ Coherent(w, h, feed'[p], s)
    <3>1. CASE feed'[p] = f
      BY <2>6, <3>1
    <3>2. CASE feed'[p] \in Lost(f) /\ f.at \in {"open", "ended"}
      BY <2>6, <3>2, ConnectionGone
    <3> QED BY <2>4, <3>1, <3>2
  <2> QED BY <2>2, <2>5, <2>6, <2>7
<1>4. DOMAIN shown' = Runs /\ DOMAIN get' = Runs /\ DOMAIN feed' = Runs
  BY DEF RestartApi
<1>5. /\ shown' = [p \in Runs |-> shown'[p]]
      /\ get' = [p \in Runs |-> get'[p]]
      /\ feed' = [p \in Runs |-> feed'[p]]
  BY <1>4 DEF RestartApi
<1>6. PageTyped'
  BY <1>3, <1>5 DEF PageTyped
<1>7. Coherence'
  BY <1>3 DEF Coherence
<1> QED BY <1>2, <1>3, <1>6, <1>7 DEF PageInv

\* The steps of a page leave the invariant of the pipeline alone.
LEMMA PageKeepsPipeline ==
    ASSUME PipelineInv, [PageNext]_pageVars
    PROVE  PipelineInv'
<1>1. CASE [Next]_vars
  BY <1>1, PipelineKept
<1>2. CASE FaultOfPage
  <2>1. ApiTyped'
    BY <1>2, PipelineConfig DEF FaultOfPage, Fault, PipelineInv, ApiTyped, api
  <2> QED BY <1>2, <2>1, QuietInv DEF FaultOfPage, PipelineInv, DatabaseTyped
<1> QED BY <1>1, <1>2 DEF PageNext, RestartApi, Next, pageVars, OpenPage, PageStep, AnswerGet,
        ReceiveRun, Poll, ReceiveEvent, GetFails, ConnectionLost, HiddenAndVisible

\* Every step preserves the invariant of the pages, and none takes a page back.
LEMMA PageKept ==
    ASSUME PageInv, [PageNext]_pageVars
    PROVE  PageInv' /\ \A p \in Runs : Forward(p)
<1>1. PipelineInv' /\ PageTyped
  BY PageKeepsPipeline DEF PageInv
<1>2. ASSUME NEW r \in Runs, OnePageStep(r)
      PROVE  PageInv' /\ \A p \in Runs : Forward(p)
  BY <1>1, <1>2, OnePage
<1>3. CASE RestartApi
  BY <1>1, <1>3, RestartsPage
<1>4. CASE [Next]_vars /\ UNCHANGED page
  <2>1. PipelineStep /\ UNCHANGED <<shown, get, feed>>
    BY <1>4 DEF PipelineStep, page
  <2>2. /\ Moving'
        /\ \A r \in Runs : Coherent(shown[r], get[r], feed[r], State(r)')
    BY <2>1, PipelineKeepsCoherence DEF PageInv
  <2>3. PageTyped' /\ Coherence'
    BY <1>1, <2>1, <2>2 DEF PageTyped, Coherence
  <2>4. \A p \in Runs : Forward(p)
    BY <1>1, <2>1, StaysForward
  <2> QED BY <1>1, <2>2, <2>3, <2>4 DEF PageInv
<1> QED BY <1>2, <1>3, <1>4 DEF PageNext, OnePageStep, Next, pageVars

\* At the start no page is open and no run exists.
LEMMA PageStarts == PageInit => PageInv
<1> SUFFICES ASSUME PageInit PROVE PageInv
  OBVIOUS
<1>1. PipelineInv
  BY InitInv DEF PageInit
<1>2. Moving
  BY DEF PageInit, Init, Moving, Statuses
<1>3. NoState \in States
  BY DEF NoState, States, Statuses
<1> DEFINE v == [view |-> "none", live |-> FALSE, run |-> NoState]
           g == [at |-> "none", state |-> NoState]
           f == [at |-> "closed", transit |-> <<>>]
<1>4. v \in Views /\ g \in Gets /\ f \in Feeds
  BY <1>3 DEF Views, Gets, Feeds
<1>5. /\ shown = [r \in Runs |-> v] /\ get = [r \in Runs |-> g] /\ feed = [r \in Runs |-> f]
  BY DEF PageInit
<1>6. v.view = "none" /\ ~v.live /\ g.at = "none" /\ f.at = "closed" /\ f.transit = <<>>
  OBVIOUS
<1> HIDE DEF v, g, f
<1>7. PageTyped
  BY <1>4, <1>5 DEF PageTyped
<1>8. \A s : Coherent(v, g, f, s)
  BY <1>6 DEF Coherent, InOrder
<1>9. Coherence
  BY <1>5, <1>8 DEF Coherence
<1> QED BY <1>1, <1>2, <1>7, <1>9 DEF PageInv

\* The inductive invariant of the pages; that of the pipeline holds beside them.
THEOREM PageInvariant == PageSpec => []PageInv
<1>1. PageInv /\ [PageNext]_pageVars => PageInv'
  BY PageKept
<1> QED BY <1>1, PageStarts, PTL DEF PageSpec

\* Once a page shows what its stream sends, no answer, reconnection, lost message or
\* restart takes it back to an earlier status or to fewer completed questions.
THEOREM LiveStaysForward == PageSpec => LiveNeverGoesBack
<1> DEFINE Ahead == \A r \in Runs : shown[r].live =>
                      /\ Rank(shown[r].run) <= Rank(shown'[r].run)
                      /\ shown[r].run.completed <= shown'[r].run.completed
<1>1. PageInv /\ [PageNext]_pageVars => [Ahead]_pageVars
  BY PageKept DEF Forward, Behind
<1> QED BY <1>1, PageInvariant, PTL DEF PageSpec, LiveNeverGoesBack

=============================================================================
