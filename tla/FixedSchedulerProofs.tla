------------------------ MODULE FixedSchedulerProofs ------------------------
(***************************************************************************)
(* Proofs about a run of the fixed scheduler, for any finite set of        *)
(* questions, any concurrency and any number of retries: its permits are   *)
(* conserved, no request is sent during a pause, and it keeps the promises *)
(* of QuestionLedger.                                                      *)
(***************************************************************************)
EXTENDS FixedScheduler, FiniteSetTheorems, SequenceTheorems, TLAPS

Holders == {q \in Questions : task[q].stage \in {"in_flight", "holding"}}

\* The queue of the semaphore holds waiting tasks, once each.
Queueing ==
    /\ \A i \in 1..Len(waiters) : task[waiters[i]].stage = "waiting"
    /\ \A i, j \in 1..Len(waiters) : waiters[i] = waiters[j] => i = j

\* What the number of an attempt says: a task that sleeps after an error has
\* another one left, and a question has failed only after the last one.
Counting ==
    \A q \in Questions :
        /\ task[q].stage = "created" => task[q].attempt = 1
        /\ task[q].stage = "backoff" => task[q].attempt < MaxAttempts
        /\ task[q].stage = "failed" => task[q].attempt = MaxAttempts

\* Results are those of tasks that have ended, and each is published once: all of
\* them while the main coroutine waits, all but the last while it publishes.
Collection ==
    /\ \A i \in 1..Len(results) : task[results[i].question].stage \in {"success", "failed"}
    /\ \A q \in Questions : published[q] \in {0, 1} /\ (~Recorded(q) => published[q] = 0)
    /\ main \in {"waiting", "finished"} =>
         \A i \in 1..Len(results) : published[results[i].question] = 1
    /\ main = "publishing" =>
         /\ results # <<>>
         /\ published[results[Len(results)].question] = 0
         /\ \A i \in 1..(Len(results) - 1) : published[results[i].question] = 1

\* The inductive invariant.
RunInv == TypeOK /\ PermitsConserved /\ Queueing /\ Counting /\ Collection

-----------------------------------------------------------------------------
(* A task that moves. *)

\* Only a task that comes to hold a permit, or ceases to, changes their number.
LEMMA HoldersMove ==
    ASSUME TypeOK, NEW q \in Questions, NEW s \in Stages, NEW a \in 1..MaxAttempts, At(q, s, a)
    PROVE  /\ IsFiniteSet(Holders) /\ Cardinality(Holders) \in Nat
           /\ (q \in Holders) = (s \in {"in_flight", "holding"})
                => Cardinality(Holders') = Cardinality(Holders)
           /\ q \notin Holders /\ s \in {"in_flight", "holding"}
                => Cardinality(Holders') = Cardinality(Holders) + 1
           /\ q \in Holders /\ s \notin {"in_flight", "holding"}
                => Cardinality(Holders') = Cardinality(Holders) - 1
<1>1. IsFiniteSet(Holders) /\ Cardinality(Holders) \in Nat
  <2>1. Holders \subseteq Questions /\ IsFiniteSet(Questions)
    BY FixedConfig DEF Holders
  <2> QED BY <2>1, FS_Subset, FS_CardinalityType
<1>2. task' = [task EXCEPT ![q] = [stage |-> s, attempt |-> a]] /\ q \in DOMAIN task
      /\ DOMAIN task = Questions
  BY DEF At, TypeOK
<1>3. /\ task'[q].stage = s
      /\ \A p \in Questions : p # q => task'[p] = task[p]
  BY <1>2
<1>4. (q \in Holders) = (s \in {"in_flight", "holding"}) => Holders' = Holders
  BY <1>3 DEF Holders
<1>5. q \notin Holders /\ s \in {"in_flight", "holding"} => Holders' = Holders \cup {q}
  BY <1>3 DEF Holders
<1>6. q \in Holders /\ s \notin {"in_flight", "holding"} => Holders' = Holders \ {q}
  BY <1>3 DEF Holders
<1> QED BY <1>1, <1>4, <1>5, <1>6, FS_AddElement, FS_RemoveElement

LEMMA ResultsTyped ==
    ASSUME RunInv
    PROVE  \A i \in 1..Len(results) : results[i].question \in Questions
<1> DEFINE Entry == [question : Questions, status : {"success", "failed"}, attempts : 1..MaxAttempts]
<1>1. results \in Seq(Entry)
  BY DEF RunInv, TypeOK
<1> HIDE DEF Entry
<1>2. \A i \in 1..Len(results) : results[i] \in Entry
  BY <1>1
<1> QED BY <1>2 DEF Entry

\* What a step of a task that is not over leaves of the invariant, but for the
\* semaphore.
LEMMA TaskMoves ==
    ASSUME RunInv, NEW q \in Questions, NEW s \in Stages, NEW a \in 1..MaxAttempts,
           At(q, s, a), TaskUnchanged,
           task[q].stage \notin {"success", "failed"},
           s # "created", s = "backoff" => a < MaxAttempts, s = "failed" => a = MaxAttempts
    PROVE  /\ task' \in [Questions -> [stage : Stages, attempt : 1..MaxAttempts]]
           /\ Counting'
           /\ Collection'
<1>1. task' = [task EXCEPT ![q] = [stage |-> s, attempt |-> a]]
      /\ task \in [Questions -> [stage : Stages, attempt : 1..MaxAttempts]]
  BY DEF At, RunInv, TypeOK
<1>2. task' \in [Questions -> [stage : Stages, attempt : 1..MaxAttempts]]
  BY <1>1
<1>3. /\ task'[q].stage = s /\ task'[q].attempt = a
      /\ \A p \in Questions : p # q => task'[p] = task[p]
  BY <1>1
<1>4. Counting'
  BY <1>3 DEF RunInv, Counting
<1>5. Collection'
  <2>1. main' = main /\ results' = results /\ published' = published
    BY DEF TaskUnchanged
  <2>2. \A i \in 1..Len(results) : results[i].question \in Questions
    BY ResultsTyped
  <2>3. \A i \in 1..Len(results) : task'[results[i].question].stage \in {"success", "failed"}
    BY <1>3, <2>2 DEF RunInv, Collection
  <2> QED BY <2>1, <2>3 DEF RunInv, Collection, Recorded
<1> QED BY <1>2, <1>4, <1>5

LEMMA SameQueue ==
    ASSUME RunInv, NEW q \in Questions, NEW s \in Stages, NEW a \in 1..MaxAttempts, At(q, s, a),
           task[q].stage # "waiting", UNCHANGED waiters
    PROVE  Queueing'
<1>1. \A p \in Questions : p # q => task'[p] = task[p]
  BY DEF At, RunInv, TypeOK
<1>2. \A i \in 1..Len(waiters) : waiters[i] \in Questions /\ waiters[i] # q
  BY DEF RunInv, TypeOK, Queueing
<1> QED BY <1>1, <1>2 DEF RunInv, Queueing

LEMMA AttemptInv ==
    ASSUME RunInv, NEW q \in Questions, NEW attempt \in 1..MaxAttempts,
           task[q].stage \in {"created", "pausing", "backoff"}, BeginAttempt(q, attempt)
    PROVE  RunInv'
<1>0. /\ PermitsConserved /\ permits \in 0..MaxConcurrency /\ MaxConcurrency \in Nat
      /\ q \notin Holders /\ waiters \in Seq(Questions) /\ TypeOK
      /\ {"pausing", "in_flight", "waiting"} \subseteq Stages
  BY FixedConfig DEF RunInv, TypeOK, Holders, Stages
<1>1. CASE At(q, "pausing", attempt) /\ UNCHANGED <<permits, waiters>>
  <2>1. Cardinality(Holders') = Cardinality(Holders)
    BY <1>0, <1>1, HoldersMove
  <2>2. PermitsConserved'
    BY <1>0, <1>1, <2>1 DEF PermitsConserved, Holders
  <2>3. Queueing'
    BY <1>0, <1>1, SameQueue
  <2> QED BY <1>0, <1>1, <2>2, <2>3, TaskMoves DEF BeginAttempt, TaskUnchanged, RunInv, TypeOK
<1>2. CASE At(q, "in_flight", attempt) /\ permits > 0 /\ permits' = permits - 1 /\ UNCHANGED waiters
  <2>1. Cardinality(Holders') = Cardinality(Holders) + 1 /\ Cardinality(Holders) \in Nat
    BY <1>0, <1>2, HoldersMove
  <2>2. PermitsConserved' /\ permits' \in 0..MaxConcurrency
    BY <1>0, <1>2, <2>1 DEF PermitsConserved, Holders
  <2>3. Queueing'
    BY <1>0, <1>2, SameQueue
  <2> QED BY <1>0, <1>2, <2>2, <2>3, TaskMoves DEF BeginAttempt, TaskUnchanged, RunInv, TypeOK
<1>3. CASE At(q, "waiting", attempt) /\ waiters' = Append(waiters, q) /\ UNCHANGED permits
  <2>1. Cardinality(Holders') = Cardinality(Holders)
    BY <1>0, <1>3, HoldersMove
  <2>2. PermitsConserved'
    BY <1>0, <1>3, <2>1 DEF PermitsConserved, Holders
  <2>3. Queueing'
    <3>1. /\ task'[q].stage = "waiting"
          /\ \A p \in Questions : p # q => task'[p] = task[p]
      BY <1>0, <1>3 DEF At, TypeOK
    <3>2. \A i \in 1..Len(waiters) : waiters[i] \in Questions /\ waiters[i] # q
      BY <1>0 DEF RunInv, TypeOK, Queueing
    <3>3. /\ Len(waiters') = Len(waiters) + 1 /\ waiters'[Len(waiters) + 1] = q
          /\ \A i \in 1..Len(waiters) : waiters'[i] = waiters[i]
      BY <1>0, <1>3
    <3> QED BY <1>0, <3>1, <3>2, <3>3 DEF RunInv, Queueing
  <2>4. waiters' \in Seq(Questions)
    BY <1>0, <1>3
  <2> QED BY <1>0, <1>3, <2>2, <2>3, <2>4, TaskMoves DEF BeginAttempt, TaskUnchanged, RunInv, TypeOK
<1> QED BY <1>1, <1>2, <1>3 DEF BeginAttempt

LEMMA GrantedInv ==
    ASSUME RunInv, NEW q \in Questions, Granted(q)
    PROVE  RunInv'
<1> DEFINE s == StageAfterGrant
           a == task[q].attempt
<1>0. /\ PermitsConserved /\ permits \in 0..MaxConcurrency /\ MaxConcurrency \in Nat
      /\ waiters \in Seq(Questions) /\ waiters # <<>> /\ TypeOK
      /\ q = waiters[1] /\ 1 \in 1..Len(waiters) /\ s \in Stages /\ a \in 1..MaxAttempts
      /\ s \in {"in_flight", "holding"}
  BY FixedConfig DEF RunInv, TypeOK, Granted, StageAfterGrant, Stages
<1>1. task[q].stage = "waiting"
  BY <1>0 DEF RunInv, Queueing
<1>2. At(q, s, a) /\ TaskUnchanged
  BY DEF Granted
<1>3. Cardinality(Holders') = Cardinality(Holders) + 1 /\ Cardinality(Holders) \in Nat
  BY <1>0, <1>1, <1>2, HoldersMove DEF Holders
<1>4. PermitsConserved' /\ permits' \in 0..MaxConcurrency
  BY <1>0, <1>3 DEF PermitsConserved, Holders, Granted
<1>5. Queueing'
  <2>1. /\ waiters' = Tail(waiters) /\ Len(waiters') = Len(waiters) - 1
        /\ \A i \in 1..Len(waiters') : waiters'[i] = waiters[i + 1] /\ i + 1 \in 1..Len(waiters)
    BY <1>0 DEF Granted
  <2>2. \A p \in Questions : p # q => task'[p] = task[p]
    BY <1>0, <1>2 DEF At, TypeOK
  <2>3. \A i \in 1..Len(waiters') : waiters'[i] # q /\ waiters'[i] \in Questions
    BY <1>0, <2>1 DEF RunInv, Queueing
  <2> QED BY <2>1, <2>2, <2>3 DEF RunInv, Queueing
<1>6. waiters' \in Seq(Questions) /\ paused' = paused
  BY <1>0 DEF Granted
<1>7. task' \in [Questions -> [stage : Stages, attempt : 1..MaxAttempts]] /\ Counting' /\ Collection'
  BY <1>0, <1>1, <1>2, TaskMoves
<1> QED BY <1>2, <1>4, <1>5, <1>6, <1>7 DEF RunInv, TypeOK, TaskUnchanged

LEMMA HeldPauseEndsInv ==
    ASSUME RunInv, NEW q \in Questions, HeldPauseEnds(q)
    PROVE  RunInv'
<1>0. /\ TypeOK /\ PermitsConserved /\ task[q].attempt \in 1..MaxAttempts
      /\ "in_flight" \in Stages /\ q \in Holders
  BY DEF RunInv, TypeOK, HeldPauseEnds, Stages, Holders
<1>1. At(q, "in_flight", task[q].attempt) /\ UNCHANGED <<permits, waiters, paused>> /\ TaskUnchanged
      /\ task[q].stage = "holding"
  BY DEF HeldPauseEnds
<1>2. Cardinality(Holders') = Cardinality(Holders)
  BY <1>0, <1>1, HoldersMove
<1>3. PermitsConserved'
  BY <1>0, <1>1, <1>2 DEF PermitsConserved, Holders
<1>4. Queueing'
  BY <1>0, <1>1, SameQueue
<1>5. task' \in [Questions -> [stage : Stages, attempt : 1..MaxAttempts]] /\ Counting' /\ Collection'
  BY <1>0, <1>1, TaskMoves
<1> QED BY <1>1, <1>3, <1>4, <1>5 DEF RunInv, TypeOK, TaskUnchanged

\* Where the task of an attempt that ends goes.
LEMMA ReplyMoves ==
    ASSUME RunInv, NEW q \in Questions, NEW outcome \in Outcomes, Reply(q, outcome)
    PROVE  \E s \in Stages, a \in 1..MaxAttempts :
              /\ At(q, s, a)
              /\ s \in {"success", "raised", "failed", "pausing", "backoff"}
              /\ s = "failed" => a = MaxAttempts
              /\ s = "pausing" => a = task[q].attempt + 1
              /\ s # "pausing" => a = task[q].attempt
              /\ s = "backoff" => a < MaxAttempts
<1>0. task[q].attempt \in 1..MaxAttempts /\ MaxAttempts \in Nat
  BY FixedConfig DEF RunInv, TypeOK, MaxAttempts
<1>1. CASE outcome \in {"success", "raised"} /\ At(q, outcome, task[q].attempt)
  BY <1>0, <1>1 DEF Stages
<1>2. CASE IsLast(task[q].attempt) /\ At(q, "failed", task[q].attempt)
  BY <1>0, <1>2 DEF Stages, IsLast
<1>3. CASE ~IsLast(task[q].attempt) /\ At(q, "pausing", task[q].attempt + 1)
  BY <1>0, <1>3 DEF Stages, IsLast
<1>4. CASE ~IsLast(task[q].attempt) /\ At(q, "backoff", task[q].attempt)
  BY <1>0, <1>4 DEF Stages, IsLast
<1> QED BY <1>1, <1>2, <1>3, <1>4 DEF Reply

LEMMA ReplyInv ==
    ASSUME RunInv, NEW q \in Questions, NEW outcome \in Outcomes, Reply(q, outcome)
    PROVE  RunInv'
<1>0. /\ TypeOK /\ PermitsConserved /\ q \in Holders /\ permits \in 0..MaxConcurrency
      /\ MaxConcurrency \in Nat /\ permits' = permits + 1 /\ UNCHANGED waiters /\ TaskUnchanged
      /\ task[q].stage = "in_flight"
  BY FixedConfig DEF RunInv, TypeOK, Reply, Release, Holders
<1>1. PICK s \in Stages, a \in 1..MaxAttempts :
         /\ At(q, s, a)
         /\ s \in {"success", "raised", "failed", "pausing", "backoff"}
         /\ s = "failed" => a = MaxAttempts
         /\ s = "backoff" => a < MaxAttempts
  BY ReplyMoves
<1>2. Cardinality(Holders') = Cardinality(Holders) - 1 /\ Cardinality(Holders) \in Nat
  BY <1>0, <1>1, HoldersMove
<1>3. Cardinality(Holders') \in Nat
  <2>1. Holders' \subseteq Questions /\ IsFiniteSet(Questions)
    BY FixedConfig DEF Holders
  <2> QED BY <2>1, FS_Subset, FS_CardinalityType
<1>4. PermitsConserved' /\ permits' \in 0..MaxConcurrency
  BY <1>0, <1>2, <1>3 DEF PermitsConserved, Holders
<1>5. Queueing'
  BY <1>0, <1>1, SameQueue
<1>6. task' \in [Questions -> [stage : Stages, attempt : 1..MaxAttempts]] /\ Counting' /\ Collection'
  BY <1>0, <1>1, TaskMoves
<1>7. paused' \in BOOLEAN
  BY <1>0 DEF Reply, TypeOK
<1> QED BY <1>0, <1>4, <1>5, <1>6, <1>7 DEF RunInv, TypeOK, TaskUnchanged

LEMMA TaskStepInv ==
    ASSUME RunInv, NEW q \in Questions, TaskStep(q)
    PROVE  RunInv'
<1>0. task[q].attempt \in 1..MaxAttempts /\ MaxAttempts \in Nat /\ 1 \in 1..MaxAttempts
  BY FixedConfig DEF RunInv, TypeOK, MaxAttempts
<1>1. CASE Start(q)
  BY <1>0, <1>1, AttemptInv DEF Start
<1>2. CASE PauseEnds(q)
  BY <1>0, <1>2, AttemptInv DEF PauseEnds
<1>3. CASE BackoffEnds(q)
  <2>1. task[q].attempt + 1 \in 1..MaxAttempts
    BY <1>0, <1>3 DEF BackoffEnds, RunInv, Counting
  <2> QED BY <1>3, <2>1, AttemptInv DEF BackoffEnds
<1>4. CASE Granted(q)
  BY <1>4, GrantedInv
<1>5. CASE HeldPauseEnds(q)
  BY <1>5, HeldPauseEndsInv
<1>6. CASE \E outcome \in Outcomes : Reply(q, outcome)
  BY <1>6, ReplyInv
<1> QED BY <1>1, <1>2, <1>3, <1>4, <1>5, <1>6 DEF TaskStep

-----------------------------------------------------------------------------
(* The main coroutine. *)

\* The main coroutine leaves the tasks and the semaphore alone.
LEMMA MainLeaves ==
    ASSUME RunInv, UNCHANGED task, MainUnchanged,
           main' \in {"waiting", "publishing", "finished", "crashed"},
           results' \in Seq([question : Questions, status : {"success", "failed"},
                             attempts : 1..MaxAttempts]),
           published' \in [Questions -> Nat], Collection'
    PROVE  RunInv'
BY DEF RunInv, TypeOK, PermitsConserved, Queueing, Counting, MainUnchanged

LEMMA CollectInv ==
    ASSUME RunInv, NEW q \in Questions, Collect(q)
    PROVE  RunInv'
<1> DEFINE entry == [question |-> q, status |-> task[q].stage, attempts |-> task[q].attempt]
           Entry == [question : Questions, status : {"success", "failed"}, attempts : 1..MaxAttempts]
<1>1. /\ results \in Seq(Entry) /\ entry \in Entry /\ results' = Append(results, entry)
      /\ published \in [Questions -> Nat] /\ published' = published /\ task' = task
      /\ main = "waiting" /\ main' = "publishing"
  BY DEF RunInv, TypeOK, Collect
<1>2. entry.question = q
  OBVIOUS
<1>3. task[q].stage \in {"success", "failed"} /\ published[q] = 0
  BY DEF RunInv, Collection, Collect
<1> HIDE DEF entry, Entry
<1>4. /\ results' \in Seq(Entry) /\ Len(results') = Len(results) + 1 /\ Len(results) \in Nat
      /\ results'[Len(results')] = entry /\ results' # <<>>
      /\ \A i \in 1..Len(results) : results'[i] = results[i]
  BY <1>1
<1>5. Collection'
  <2>1. \A i \in 1..Len(results') : task'[results'[i].question].stage \in {"success", "failed"}
    BY <1>1, <1>2, <1>3, <1>4 DEF RunInv, Collection
  <2>2. \A p \in Questions : Recorded(p) => Recorded(p)'
    BY <1>1, <1>4 DEF Recorded
  <2>3. \A p \in Questions : published'[p] \in {0, 1} /\ (~Recorded(p)' => published'[p] = 0)
    BY <1>1, <2>2 DEF RunInv, Collection
  <2>4. /\ published'[results'[Len(results')].question] = 0
        /\ \A i \in 1..(Len(results') - 1) : published'[results'[i].question] = 1
    BY <1>1, <1>2, <1>3, <1>4 DEF RunInv, Collection
  <2> QED BY <1>1, <1>4, <2>1, <2>3, <2>4 DEF Collection
<1> QED BY <1>1, <1>4, <1>5, MainLeaves DEF Collect, Entry

LEMMA CollectExceptionInv ==
    ASSUME RunInv, NEW q \in Questions, CollectException(q)
    PROVE  RunInv'
<1>1. Collection'
  BY DEF RunInv, Collection, CollectException, Recorded
<1> QED BY <1>1, MainLeaves DEF CollectException, RunInv, TypeOK

\* The publication of the last result.
LEMMA AnnouncedLast ==
    ASSUME RunInv, main = "publishing"
    PROVE  LET q == results[Len(results)].question IN
           /\ q \in Questions /\ published[q] = 0 /\ Recorded(q)
           /\ task[q].stage \in {"success", "failed"}
           /\ Announced = [published EXCEPT ![q] = 1]
           /\ \A i \in 1..Len(results) : Announced[results[i].question] = 1
<1>1. /\ Len(results) \in Nat /\ Len(results) \in 1..Len(results) /\ DOMAIN results = 1..Len(results)
      /\ published \in [Questions -> Nat]
  BY DEF RunInv, TypeOK, Collection
<1>2. \A i \in 1..Len(results) : results[i].question \in Questions
  BY ResultsTyped
<1>3. /\ published[results[Len(results)].question] = 0
      /\ \A i \in 1..(Len(results) - 1) : published[results[i].question] = 1
      /\ task[results[Len(results)].question].stage \in {"success", "failed"}
  BY <1>1 DEF RunInv, Collection
<1>4. Announced = [published EXCEPT ![results[Len(results)].question] = 1]
  BY <1>1, <1>2, <1>3 DEF Announced
<1>5. \A i \in 1..Len(results) : Announced[results[i].question] = 1
  <2> TAKE i \in 1..Len(results)
  <2>1. CASE results[i].question = results[Len(results)].question
    BY <1>1, <1>2, <1>4, <2>1
  <2>2. CASE results[i].question # results[Len(results)].question
    <3>1. i \in 1..(Len(results) - 1)
      BY <1>1, <2>2
    <3> QED BY <1>1, <1>2, <1>3, <1>4, <2>2, <3>1
  <2> QED BY <2>1, <2>2
<1>6. Recorded(results[Len(results)].question)
  BY <1>1 DEF Recorded
<1> QED BY <1>1, <1>2, <1>3, <1>4, <1>5, <1>6

LEMMA PublishInv ==
    ASSUME RunInv, Publish
    PROVE  RunInv'
<1> DEFINE q == results[Len(results)].question
<1>1. /\ q \in Questions /\ published' = [published EXCEPT ![q] = 1] /\ Recorded(q)
      /\ results' = results /\ task' = task /\ main' = "waiting"
      /\ \A i \in 1..Len(results) : published'[results[i].question] = 1
  BY AnnouncedLast DEF Publish
<1>2. published \in [Questions -> Nat]
  BY DEF RunInv, TypeOK
<1> HIDE DEF q
<1>3. published' \in [Questions -> Nat]
  BY <1>1, <1>2
<1>4. \A p \in Questions : published'[p] \in {0, 1} /\ (~Recorded(p) => published'[p] = 0)
  BY <1>1, <1>2 DEF RunInv, Collection
<1>5. Collection'
  BY <1>1, <1>4 DEF RunInv, Collection, Recorded
<1> QED BY <1>1, <1>3, <1>5, MainLeaves DEF Publish, RunInv, TypeOK

LEMMA PublishFailsInv ==
    ASSUME RunInv, PublishFails
    PROVE  RunInv'
<1> DEFINE q == results[Len(results)].question
<1>1. /\ q \in Questions /\ published' \in {published, [published EXCEPT ![q] = 1]} /\ Recorded(q)
      /\ results' = results /\ task' = task /\ main' = "crashed"
  BY AnnouncedLast DEF PublishFails
<1>2. published \in [Questions -> Nat]
  BY DEF RunInv, TypeOK
<1> HIDE DEF q
<1>3. published' \in [Questions -> Nat]
  BY <1>1, <1>2
<1>4. \A p \in Questions : published'[p] \in {0, 1} /\ (~Recorded(p) => published'[p] = 0)
  BY <1>1, <1>2 DEF RunInv, Collection
<1>5. Collection'
  BY <1>1, <1>4 DEF RunInv, Collection, Recorded
<1> QED BY <1>1, <1>3, <1>5, MainLeaves DEF PublishFails, RunInv, TypeOK

LEMMA FinishRunInv ==
    ASSUME RunInv, FinishRun
    PROVE  RunInv'
<1>1. Collection'
  BY DEF RunInv, Collection, FinishRun, Recorded
<1> QED BY <1>1, MainLeaves DEF FinishRun, RunInv, TypeOK

-----------------------------------------------------------------------------

LEMMA InitInv == Init => RunInv
<1> SUFFICES ASSUME Init PROVE RunInv
  OBVIOUS
<1>1. /\ results = <<>> /\ waiters = <<>> /\ main = "waiting" /\ permits = MaxConcurrency
      /\ Len(results) = 0 /\ Len(waiters) = 0
      /\ \A q \in Questions : task[q] = [stage |-> "created", attempt |-> 1] /\ published[q] = 0
  BY DEF Init
<1>2. TypeOK
  <2>1. task \in [Questions -> [stage : Stages, attempt : 1..MaxAttempts]]
    BY FixedConfig DEF Init, Stages, MaxAttempts
  <2>2. permits \in 0..MaxConcurrency
    BY <1>1, FixedConfig
  <2>3. published \in [Questions -> Nat] /\ paused \in BOOLEAN
    BY DEF Init
  <2>4. results \in Seq([question : Questions, status : {"success", "failed"},
                         attempts : 1..MaxAttempts])
        /\ waiters \in Seq(Questions)
    BY <1>1
  <2> QED BY <1>1, <2>1, <2>2, <2>3, <2>4 DEF TypeOK
<1>3. PermitsConserved
  <2>1. Holders = {}
    BY <1>1 DEF Holders
  <2>2. Cardinality(Holders) = 0
    BY <2>1, FS_EmptySet
  <2>3. permits + Cardinality(Holders) = MaxConcurrency
    BY <1>1, <2>2, FixedConfig
  <2> QED BY <2>3 DEF PermitsConserved, Holders
<1>4. Queueing /\ Counting /\ Collection
  BY <1>1 DEF Queueing, Counting, Collection
<1> QED BY <1>2, <1>3, <1>4 DEF RunInv

LEMMA NextInv == RunInv /\ [Next]_vars => RunInv'
<1> SUFFICES ASSUME RunInv, [Next]_vars PROVE RunInv'
  OBVIOUS
<1>1. CASE \E q \in Questions : TaskStep(q)
  BY <1>1, TaskStepInv
<1>2. CASE MainStep
  BY <1>2, CollectInv, CollectExceptionInv, PublishInv, PublishFailsInv, FinishRunInv DEF MainStep
<1>3. CASE PauseElapses
  BY <1>3 DEF PauseElapses, RunInv, TypeOK, PermitsConserved, Queueing, Counting, Collection, Recorded
<1>4. CASE UNCHANGED vars
  BY <1>4 DEF vars, RunInv, TypeOK, PermitsConserved, Queueing, Counting, Collection, Recorded
<1> QED BY <1>1, <1>2, <1>3, <1>4 DEF Next, Stopped

\* The inductive invariant of a run.
THEOREM FixedInvariant == Spec => []RunInv
BY InitInv, NextInv, PTL DEF Spec

\* Every variable keeps its type: no attempt is numbered beyond max_retries + 1 and
\* the semaphore is never above its value.
THEOREM FixedTypeCorrect == Spec => []TypeOK
<1>1. RunInv => TypeOK
  BY DEF RunInv
<1> QED BY <1>1, FixedInvariant, PTL

\* The permits that are not free are held by attempts in flight or in their second
\* pause, whichever way attempts end.
THEOREM PermitsAreConserved == Spec => []PermitsConserved
<1>1. RunInv => PermitsConserved
  BY DEF RunInv
<1> QED BY <1>1, FixedInvariant, PTL

-----------------------------------------------------------------------------
(* The pause. *)

\* No step sends a request while the pause is set.
LEMMA DispatchesUnpaused ==
    ASSUME TypeOK, [Next]_vars, NEW q \in Questions,
           task[q].stage # "in_flight", task'[q].stage = "in_flight"
    PROVE  ~paused
<1>1. ASSUME NEW p \in Questions, NEW s, NEW a, At(p, s, a)
      PROVE  p = q /\ s = "in_flight"
  BY <1>1 DEF At, TypeOK
<1>2. CASE \E p \in Questions : TaskStep(p)
  <2>1. PICK p \in Questions : TaskStep(p)
    BY <1>2
  <2>2. ASSUME NEW n, BeginAttempt(p, n) PROVE ~paused
    BY <2>2, <1>1 DEF BeginAttempt
  <2>3. CASE Granted(p)
    BY <2>3, <1>1 DEF Granted, StageAfterGrant
  <2>4. CASE \E outcome \in Outcomes : Reply(p, outcome)
    <3>1. PICK outcome \in Outcomes : Reply(p, outcome)
      BY <2>4
    <3> QED BY <3>1, <1>1 DEF Reply
  <2> QED BY <2>1, <2>2, <2>3, <2>4 DEF TaskStep, Start, PauseEnds, BackoffEnds, HeldPauseEnds
<1>3. CASE task' = task
  BY <1>3
<1> QED
  BY <1>2, <1>3 DEF Next, MainStep, Collect, CollectException, Publish, PublishFails, FinishRun,
                    PauseElapses, Stopped, vars

\* Nothing is dispatched during a global pause.
THEOREM PausesHold == Spec => NoDispatchDuringPause
<1>1. TypeOK /\ [Next]_vars =>
        [\A q \in Questions :
           task[q].stage # "in_flight" /\ task'[q].stage = "in_flight" => ~paused]_vars
  BY DispatchesUnpaused
<1> QED BY <1>1, FixedTypeCorrect, PTL DEF Spec, NoDispatchDuringPause

-----------------------------------------------------------------------------
(* The refinement of the ledger. *)

StatusAt(stage) ==
    CASE stage \in {"in_flight", "raised"} -> "trying"
      [] stage \in {"success", "failed"}   -> stage
      [] OTHER                             -> "open"

AttemptsAt(stage, attempt) ==
    IF stage \in {"created", "pausing", "waiting", "holding"} THEN attempt - 1 ELSE attempt

Attempts == [q \in Questions |-> LedgerAttempts(q)]
Status == [q \in Questions |-> LedgerStatus(q)]
Closed == CASE main = "finished" -> "finished"
            [] main = "crashed"  -> "aborted"
            [] OTHER             -> "no"

\* A move of a task is a change of its entry in the ledger.
LEMMA LedgerMove ==
    ASSUME TypeOK, NEW q \in Questions, NEW s, NEW a, At(q, s, a)
    PROVE  /\ Attempts[q] = AttemptsAt(task[q].stage, task[q].attempt)
           /\ Status[q] = StatusAt(task[q].stage)
           /\ Attempts' = [Attempts EXCEPT ![q] = AttemptsAt(s, a)]
           /\ Status' = [Status EXCEPT ![q] = StatusAt(s)]
<1>1. /\ task'[q].stage = s /\ task'[q].attempt = a
      /\ \A p \in Questions : p # q => task'[p] = task[p]
  BY DEF At, TypeOK
<1>2. Attempts' = [p \in Questions |-> AttemptsAt(task'[p].stage, task'[p].attempt)]
      /\ Attempts = [p \in Questions |-> AttemptsAt(task[p].stage, task[p].attempt)]
  BY DEF Attempts, LedgerAttempts, AttemptsAt
<1>3. Status' = [p \in Questions |-> StatusAt(task'[p].stage)]
      /\ Status = [p \in Questions |-> StatusAt(task[p].stage)]
  BY DEF Status, LedgerStatus, StatusAt
<1> QED BY <1>1, <1>2, <1>3

\* A move that changes neither is no step of the ledger.
LEMMA LedgerStutter ==
    ASSUME TypeOK, NEW q \in Questions, NEW s, NEW a, At(q, s, a), TaskUnchanged,
           StatusAt(s) = StatusAt(task[q].stage),
           AttemptsAt(s, a) = AttemptsAt(task[q].stage, task[q].attempt)
    PROVE  UNCHANGED Ledger!ledger
<1>1. Attempts' = [Attempts EXCEPT ![q] = Attempts[q]] /\ Status' = [Status EXCEPT ![q] = Status[q]]
  BY LedgerMove
<1>2. Attempts' = Attempts /\ Status' = Status
  BY <1>1 DEF Attempts, Status
<1>3. published' = published /\ main' = main
  BY DEF TaskUnchanged
<1> QED BY <1>2, <1>3 DEF Ledger!ledger, Attempts, Status

\* A request that is sent is a new try.
LEMMA LedgerTry ==
    ASSUME RunInv, NEW q \in Questions, NEW a \in 1..MaxAttempts, At(q, "in_flight", a), TaskUnchanged,
           StatusAt(task[q].stage) = "open",
           AttemptsAt(task[q].stage, task[q].attempt) = a - 1
    PROVE  Ledger!Next
<1>1. /\ Attempts[q] = a - 1 /\ Status[q] = "open"
      /\ Attempts' = [Attempts EXCEPT ![q] = a] /\ Status' = [Status EXCEPT ![q] = "trying"]
  BY LedgerMove DEF RunInv, AttemptsAt, StatusAt
<1>2. a - 1 <= MaxRetries /\ (a - 1) + 1 = a
  BY FixedConfig DEF MaxAttempts
<1>3. Attempts' = [Attempts EXCEPT ![q] = @ + 1]
  BY <1>1, <1>2
<1>4. published' = published /\ Closed' = Closed
  BY DEF TaskUnchanged, Closed
<1>5. Ledger!Try(q)
  BY <1>1, <1>2, <1>3, <1>4 DEF Ledger!Try, Attempts, Status, Closed
<1> QED BY <1>5 DEF Ledger!Next

LEMMA LedgerAttempt ==
    ASSUME RunInv, NEW q \in Questions, NEW a \in 1..MaxAttempts, BeginAttempt(q, a),
           StatusAt(task[q].stage) = "open",
           AttemptsAt(task[q].stage, task[q].attempt) = a - 1
    PROVE  Ledger!Next \/ UNCHANGED Ledger!ledger
<1>1. CASE At(q, "pausing", a)
  BY <1>1, LedgerStutter DEF BeginAttempt, RunInv, StatusAt, AttemptsAt
<1>2. CASE At(q, "in_flight", a)
  BY <1>2, LedgerTry DEF BeginAttempt
<1>3. CASE At(q, "waiting", a)
  BY <1>3, LedgerStutter DEF BeginAttempt, RunInv, StatusAt, AttemptsAt
<1> QED BY <1>1, <1>2, <1>3 DEF BeginAttempt

\* The end of an attempt gives the question back or settles it.
LEMMA LedgerReply ==
    ASSUME RunInv, NEW q \in Questions, NEW outcome \in Outcomes, Reply(q, outcome)
    PROVE  Ledger!Next \/ UNCHANGED Ledger!ledger
<1>0. /\ TypeOK /\ task[q].stage = "in_flight" /\ TaskUnchanged
      /\ task[q].attempt \in 1..MaxAttempts /\ MaxRetries \in Nat /\ MaxAttempts = MaxRetries + 1
  BY FixedConfig DEF RunInv, TypeOK, Reply, MaxAttempts
<1>1. PICK s \in Stages, a \in 1..MaxAttempts :
         /\ At(q, s, a)
         /\ s \in {"success", "raised", "failed", "pausing", "backoff"}
         /\ s = "failed" => a = MaxAttempts
         /\ s = "pausing" => a = task[q].attempt + 1
         /\ s # "pausing" => a = task[q].attempt
         /\ s = "backoff" => a < MaxAttempts
  BY ReplyMoves
<1>2. /\ AttemptsAt(s, a) = task[q].attempt
      /\ Attempts[q] = task[q].attempt /\ Status[q] = "trying"
      /\ Attempts' = [Attempts EXCEPT ![q] = AttemptsAt(s, a)]
      /\ Status' = [Status EXCEPT ![q] = StatusAt(s)]
  BY <1>0, <1>1, LedgerMove DEF AttemptsAt, StatusAt
<1>3. Attempts' = Attempts
  BY <1>2 DEF Attempts
<1>4. published' = published /\ Closed' = Closed
  BY <1>0 DEF TaskUnchanged, Closed
<1>5. CASE s = "raised"
  BY <1>0, <1>1, <1>5, LedgerStutter DEF StatusAt, AttemptsAt
<1>6. CASE s \in {"pausing", "backoff"}
  <2>1. StatusAt(s) = "open" /\ Attempts[q] <= MaxRetries
    BY <1>0, <1>1, <1>2, <1>6 DEF StatusAt
  <2>2. Ledger!GiveBack(q)
    BY <1>2, <1>3, <1>4, <2>1 DEF Ledger!GiveBack, Attempts, Status, Closed
  <2> QED BY <2>2 DEF Ledger!Next
<1>7. CASE s \in {"success", "failed"}
  <2>1. StatusAt(s) = s /\ (s = "failed" => Attempts[q] = MaxRetries + 1)
    BY <1>0, <1>1, <1>2, <1>7 DEF StatusAt
  <2>2. Ledger!Settle(q)
    BY <1>2, <1>3, <1>4, <1>7, <2>1 DEF Ledger!Settle, Attempts, Status, Closed
  <2> QED BY <2>2 DEF Ledger!Next
<1> QED BY <1>1, <1>5, <1>6, <1>7

LEMMA LedgerTaskStep ==
    ASSUME RunInv, NEW q \in Questions, TaskStep(q)
    PROVE  Ledger!Next \/ UNCHANGED Ledger!ledger
<1>0. task[q].attempt \in 1..MaxAttempts /\ MaxAttempts \in Nat /\ 1 \in 1..MaxAttempts
  BY FixedConfig DEF RunInv, TypeOK, MaxAttempts
<1>1. CASE Start(q)
  <2>1. StatusAt(task[q].stage) = "open" /\ AttemptsAt(task[q].stage, task[q].attempt) = 1 - 1
    BY <1>1 DEF Start, StatusAt, AttemptsAt, RunInv, Counting
  <2> QED BY <1>0, <1>1, <2>1, LedgerAttempt DEF Start
<1>2. CASE PauseEnds(q)
  <2>1. StatusAt(task[q].stage) = "open"
        /\ AttemptsAt(task[q].stage, task[q].attempt) = task[q].attempt - 1
    BY <1>2 DEF PauseEnds, StatusAt, AttemptsAt
  <2> QED BY <1>0, <1>2, <2>1, LedgerAttempt DEF PauseEnds
<1>3. CASE BackoffEnds(q)
  <2>1. /\ StatusAt(task[q].stage) = "open"
        /\ AttemptsAt(task[q].stage, task[q].attempt) = (task[q].attempt + 1) - 1
        /\ task[q].attempt + 1 \in 1..MaxAttempts
    BY <1>0, <1>3 DEF BackoffEnds, StatusAt, AttemptsAt, RunInv, Counting
  <2> QED BY <1>3, <2>1, LedgerAttempt DEF BackoffEnds
<1>4. CASE Granted(q)
  <2>1. task[q].stage = "waiting"
    BY <1>4 DEF Granted, RunInv, TypeOK, Queueing
  <2>2. /\ StatusAt(task[q].stage) = "open" /\ StatusAt("holding") = "open"
        /\ AttemptsAt(task[q].stage, task[q].attempt) = task[q].attempt - 1
        /\ AttemptsAt("holding", task[q].attempt) = task[q].attempt - 1
    BY <2>1 DEF StatusAt, AttemptsAt
  <2>3. At(q, "holding", task[q].attempt) \/ At(q, "in_flight", task[q].attempt)
    BY <1>4 DEF Granted, StageAfterGrant
  <2>4. TaskUnchanged /\ TypeOK
    BY <1>4 DEF Granted, RunInv
  <2> QED BY <1>0, <2>2, <2>3, <2>4, LedgerStutter, LedgerTry
<1>5. CASE HeldPauseEnds(q)
  <2>1. /\ StatusAt(task[q].stage) = "open"
        /\ AttemptsAt(task[q].stage, task[q].attempt) = task[q].attempt - 1
    BY <1>5 DEF HeldPauseEnds, StatusAt, AttemptsAt
  <2> QED BY <1>0, <1>5, <2>1, LedgerTry DEF HeldPauseEnds
<1>6. CASE \E outcome \in Outcomes : Reply(q, outcome)
  BY <1>6, LedgerReply
<1> QED BY <1>1, <1>2, <1>3, <1>4, <1>5, <1>6 DEF TaskStep

\* The steps of the main coroutine: a publication announces, an exception aborts.
LEMMA LedgerMainStep ==
    ASSUME RunInv, MainStep
    PROVE  Ledger!Next \/ UNCHANGED Ledger!ledger
<1>0. task' = task => Attempts' = Attempts /\ Status' = Status
  BY DEF Attempts, Status, LedgerAttempts, LedgerStatus
<1>1. CASE \E q \in Questions : Collect(q)
  <2>1. task' = task /\ published' = published /\ Closed' = Closed
    BY <1>1 DEF Collect, Closed
  <2> QED BY <1>0, <2>1 DEF Ledger!ledger, Attempts, Status, Closed
<1>2. CASE \E q \in Questions : CollectException(q)
  <2>1. task' = task /\ published' = published /\ Closed = "no" /\ Closed' = "aborted"
    BY <1>2 DEF CollectException, Closed
  <2>2. Ledger!Abort
    BY <1>0, <2>1 DEF Ledger!Abort, Attempts, Status, Closed
  <2> QED BY <2>2 DEF Ledger!Next
<1>3. CASE Publish \/ PublishFails
  <2> DEFINE q == results[Len(results)].question
  <2>1. main = "publishing" /\ task' = task
    BY <1>3 DEF Publish, PublishFails
  <2>2. /\ q \in Questions /\ published[q] = 0 /\ task[q].stage \in {"success", "failed"}
        /\ Announced = [published EXCEPT ![q] = 1]
    BY <2>1, AnnouncedLast
  <2>3. published' \in {published, Announced} /\ Closed = "no"
        /\ (published' = published => Closed' = "aborted") /\ Closed' \in {"no", "aborted"}
    <3>1. Announced # published
      BY <2>2 DEF RunInv, TypeOK
    <3> QED BY <1>3, <2>1, <3>1 DEF Publish, PublishFails, Closed
  <2>4. Status[q] \in {"success", "failed"}
    BY <2>2 DEF Status, LedgerStatus
  <2> HIDE DEF q
  <2>5. CASE published' = published
    <3>1. Ledger!Abort
      BY <1>0, <2>1, <2>3, <2>5 DEF Ledger!Abort, Attempts, Status, Closed
    <3> QED BY <3>1 DEF Ledger!Next
  <2>6. CASE published' = Announced
    <3>1. published' = [published EXCEPT ![q] = 1] /\ Closed' \in {Closed, "aborted"}
      BY <2>2, <2>3, <2>6
    <3>2. Ledger!Announce(q)
      BY <1>0, <2>1, <2>2, <2>4, <3>1 DEF Ledger!Announce, Attempts, Status, Closed
    <3> QED BY <2>2, <3>2 DEF Ledger!Next
  <2> QED BY <2>3, <2>5, <2>6
<1>4. CASE FinishRun
  <2>1. /\ task' = task /\ published' = published /\ Closed = "no" /\ Closed' = "finished"
        /\ \A q \in Questions : Recorded(q)
    BY <1>4 DEF FinishRun, Closed, AllCollected
  <2>2. \A q \in Questions : published[q] = 1
    <3>1. DOMAIN results = 1..Len(results)
      BY DEF RunInv, TypeOK
    <3>2. \A i \in 1..Len(results) : published[results[i].question] = 1
      BY <1>4 DEF FinishRun, RunInv, Collection
    <3> QED BY <2>1, <3>1, <3>2 DEF Recorded
  <2>3. Ledger!Finish
    BY <1>0, <2>1, <2>2 DEF Ledger!Finish, Attempts, Status, Closed
  <2> QED BY <2>3 DEF Ledger!Next
<1> QED BY <1>1, <1>2, <1>3, <1>4 DEF MainStep

LEMMA LedgerInit == Init => Ledger!Init
<1> SUFFICES ASSUME Init PROVE Ledger!Init
  OBVIOUS
<1>1. \A q \in Questions : task[q] = [stage |-> "created", attempt |-> 1]
  BY DEF Init
<1>2. Attempts = [q \in Questions |-> 0]
  BY <1>1 DEF Attempts, LedgerAttempts
<1>3. Status = [q \in Questions |-> "open"]
  BY <1>1 DEF Status, LedgerStatus
<1>4. published = [q \in Questions |-> 0] /\ Closed = "no"
  BY DEF Init, Closed
<1> QED BY <1>2, <1>3, <1>4 DEF Ledger!Init, Attempts, Status, Closed

LEMMA LedgerNext == RunInv /\ [Next]_vars => [Ledger!Next]_(Ledger!ledger)
<1> SUFFICES ASSUME RunInv, [Next]_vars PROVE Ledger!Next \/ UNCHANGED Ledger!ledger
  OBVIOUS
<1>1. CASE \E q \in Questions : TaskStep(q)
  BY <1>1, LedgerTaskStep
<1>2. CASE MainStep
  BY <1>2, LedgerMainStep
<1>3. CASE UNCHANGED <<main, task, published>>
  BY <1>3 DEF Ledger!ledger, LedgerAttempts, LedgerStatus
<1> QED BY <1>1, <1>2, <1>3 DEF Next, Stopped, PauseElapses, vars

\* The scheduler keeps the promises of the ledger: no question is tried more than
\* max_retries + 1 times or twice at once, fails early, is announced twice, or is
\* missing when the run finishes.
THEOREM FixedKeepsTheLedger == Spec => ImplementsLedger
<1>1. RunInv /\ [Next]_vars => [Ledger!Next]_(Ledger!ledger)
  BY LedgerNext
<1> QED BY LedgerInit, <1>1, FixedInvariant, PTL DEF Spec, ImplementsLedger, Ledger!Spec

=============================================================================
