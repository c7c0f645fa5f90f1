------------------------ MODULE AimdSchedulerProofs ------------------------
(***************************************************************************)
(* Proofs about a run of the adaptive scheduler, for any number of         *)
(* questions and retries and every configuration: the types, the exactness *)
(* of the in-flight metric, the bound on the requests in flight, the       *)
(* bounds of the controller when this scheduler drives it, what becomes of *)
(* the questions, and the two refinements: of QuestionLedger and of the    *)
(* controller alone.                                                       *)
(***************************************************************************)
EXTENDS AimdScheduler, AimdControllerProofs, FiniteSetTheorems, SequenceTheorems

Tasks == [stage : Stages, attempt : Attempts \cup {0},
          outcome : Outcomes \cup {"none"},
          observed_in_flight : Nat, observed_launch_rpm : Nat]
Retries == [question : Questions, attempt : Attempts, due : BOOLEAN]
Results == [question : Questions, status : {"success", "failed"},
            attempts : Attempts]

\* Stages of a task that asyncio.wait has not returned yet.
Running == {"created", "pausing", "queued", "pacing", "in_flight"}

Typed ==
    /\ loop \in {"running", "waiting", "sleeping", "publishing", "finished", "crashed"}
    /\ pending \in Seq(Items)
    /\ delayed \subseteq Retries
    /\ active \subseteq Questions
    /\ handling \subseteq Questions
    /\ task \in [Questions -> Tasks]
    /\ launch_queue \in Seq(Questions)
    /\ spaced \in BOOLEAN
    /\ paused \in BOOLEAN
    /\ launches \in Nat
    /\ http_in_flight \in Nat
    /\ results \in Seq(Results)
    /\ published \in [Questions -> Nat]

\* A question in the deque or in the delayed retries has no task, and is there
\* once.  Otherwise a new task could replace one whose request is under way.
Places ==
    /\ \A i \in 1..Len(pending) : task[pending[i].question].stage = "none"
    /\ \A i, j \in 1..Len(pending) : pending[i].question = pending[j].question => i = j
    /\ \A item \in delayed : task[item.question].stage = "none"
    /\ \A x, y \in delayed : x.question = y.question => x = y
    /\ \A item \in delayed, i \in 1..Len(pending) : pending[i].question # item.question

\* The requests in flight are those of active tasks, of which there are at most
\* as many as the largest target.
Activity ==
    /\ \A q \in Questions : task[q].stage \in Running => q \in active
    /\ \A q \in handling : task[q].stage = "done"
    /\ \A q \in Questions : task[q].stage # "none" => task[q].attempt \in Attempts
    /\ Cardinality(active) <= MaxTargetConcurrency

\* launch_lock is held by its first task; the others wait for it.
Queueing ==
    /\ \A q \in Questions : task[q].stage \in {"queued", "pacing"} =>
         \E i \in 1..Len(launch_queue) : launch_queue[i] = q
    /\ \A q \in Questions : task[q].stage = "pacing" => launch_queue[1] = q

\* What an outcome reports is what was in flight, which never exceeds the
\* largest target.
Metering ==
    /\ http_in_flight = Cardinality(InFlight)
    /\ \A q \in Questions : task[q].stage \in {"in_flight", "done"} =>
         task[q].observed_in_flight \in 1..MaxTargetConcurrency

\* The inductive invariant.
SchedulerInv ==
    /\ CtlInv
    /\ Typed
    /\ Places
    /\ Activity
    /\ Queueing
    /\ Metering

-----------------------------------------------------------------------------
(* Updates of one task. *)

\* g is f except for the task of q, which has a new stage.
Differs(f, g, q, stage) ==
    /\ g \in [Questions -> Tasks]
    /\ g[q].stage = stage
    /\ g[q].attempt = f[q].attempt
    /\ \A r \in Questions : r # q => g[r] = f[r]

Staged(f, q, stage) == [f EXCEPT ![q].stage = stage]

\* A change of stage leaves the rest of the task alone.
LEMMA StageChanges ==
    ASSUME NEW f \in [Questions -> Tasks], NEW q \in Questions, NEW s \in Stages
    PROVE  /\ Differs(f, Staged(f, q, s), q, s)
           /\ Staged(f, q, s)[q].observed_in_flight = f[q].observed_in_flight
  BY DEF Differs, Tasks, Staged

\* What a dispatch does to its task.
Launched(f, q, rpm, n) ==
    [f EXCEPT ![q].stage = "in_flight",
              ![q].observed_launch_rpm = rpm,
              ![q].observed_in_flight = n]

\* A dispatch changes the stage and the observations of its task only.
LEMMA DispatchChanges ==
    ASSUME NEW f \in [Questions -> Tasks], NEW q \in Questions,
           NEW rpm \in Nat, NEW n \in Nat
    PROVE  /\ Differs(f, Launched(f, q, rpm, n), q, "in_flight")
           /\ Launched(f, q, rpm, n)[q].observed_in_flight = n
<1> DEFINE g1 == [f EXCEPT ![q].stage = "in_flight"]
           g2 == [g1 EXCEPT ![q].observed_launch_rpm = rpm]
           g3 == [g2 EXCEPT ![q].observed_in_flight = n]
<1>1. Launched(f, q, rpm, n) = g3
  BY DEF Launched
<1>2. Differs(f, g1, q, "in_flight")
  BY DEF Differs, Tasks, Stages
<1> HIDE DEF g1
<1>3. Differs(f, g2, q, "in_flight")
  BY <1>2 DEF Differs, Tasks
<1> HIDE DEF g2
<1>4. Differs(f, g3, q, "in_flight") /\ g3[q].observed_in_flight = n
  BY <1>3 DEF Differs, Tasks
<1> HIDE DEF g3
<1> QED BY <1>1, <1>4

Answered(f, q, outcome) ==
    [f EXCEPT ![q].stage = "done", ![q].outcome = outcome]

\* The end of a request changes the stage and the outcome of its task only.
LEMMA ReplyChanges ==
    ASSUME NEW f \in [Questions -> Tasks], NEW q \in Questions,
           NEW outcome \in Outcomes
    PROVE  /\ Differs(f, Answered(f, q, outcome), q, "done")
           /\ Answered(f, q, outcome)[q].observed_in_flight = f[q].observed_in_flight
<1> DEFINE g1 == [f EXCEPT ![q].stage = "done"]
           g2 == [g1 EXCEPT ![q].outcome = outcome]
<1>1. Answered(f, q, outcome) = g2
  BY DEF Answered
<1>2. Differs(f, g1, q, "done") /\ g1[q].observed_in_flight = f[q].observed_in_flight
  BY DEF Differs, Tasks, Stages
<1> HIDE DEF g1
<1>3. Differs(f, g2, q, "done") /\ g2[q].observed_in_flight = f[q].observed_in_flight
  BY <1>2 DEF Differs, Tasks
<1> HIDE DEF g2
<1> QED BY <1>1, <1>3

-----------------------------------------------------------------------------
(* The number of requests in flight. *)

InFlightOf(f) == {q \in Questions : f[q].stage = "in_flight"}

\* There are finitely many requests in flight.
LEMMA InFlightFinite ==
    ASSUME NEW f
    PROVE  IsFiniteSet(InFlightOf(f)) /\ Cardinality(InFlightOf(f)) \in Nat
<1>1. InFlightOf(f) \in SUBSET Questions
  BY DEF InFlightOf
<1>2. IsFiniteSet(InFlightOf(f))
  BY <1>1, RunConfig, FS_Subset
<1> QED BY <1>2, FS_CardinalityType

\* A dispatch adds one.
LEMMA FlightStarts ==
    ASSUME NEW f, NEW g, NEW q \in Questions,
           f[q].stage # "in_flight", Differs(f, g, q, "in_flight")
    PROVE  Cardinality(InFlightOf(g)) = Cardinality(InFlightOf(f)) + 1
<1>1. InFlightOf(g) = InFlightOf(f) \cup {q} /\ q \notin InFlightOf(f)
  BY DEF InFlightOf, Differs
<1> QED BY <1>1, InFlightFinite, FS_AddElement

\* The end of a request removes one.
LEMMA FlightEnds ==
    ASSUME NEW f, NEW g, NEW q \in Questions, NEW s,
           f[q].stage = "in_flight", s # "in_flight", Differs(f, g, q, s)
    PROVE  /\ Cardinality(InFlightOf(g)) = Cardinality(InFlightOf(f)) - 1
           /\ Cardinality(InFlightOf(g)) \in Nat
<1>1. InFlightOf(g) = InFlightOf(f) \ {q} /\ q \in InFlightOf(f)
  BY DEF InFlightOf, Differs
<1> QED BY <1>1, InFlightFinite, FS_RemoveElement

\* Any other change of a task leaves the number as it is.
LEMMA FlightKept ==
    ASSUME NEW f, NEW g, NEW q \in Questions, NEW s,
           f[q].stage # "in_flight", s # "in_flight", Differs(f, g, q, s)
    PROVE  InFlightOf(g) = InFlightOf(f)
  BY DEF InFlightOf, Differs

\* The requests in flight, with one more task about to dispatch, are no more than
\* the active tasks.
LEMMA FlightBounded ==
    ASSUME Typed, Activity
    PROVE  /\ Cardinality(InFlight) \in Nat
           /\ Cardinality(InFlight) <= MaxTargetConcurrency
           /\ \A q \in Questions :
                task[q].stage \in Running \ {"in_flight"} =>
                  Cardinality(InFlight) + 1 <= MaxTargetConcurrency
<1>1. IsFiniteSet(active) /\ Cardinality(active) \in Nat
  BY RunConfig, FS_Subset, FS_CardinalityType DEF Typed
<1>2. InFlight \in SUBSET active
  BY DEF Activity, InFlight, Running
<1>3. IsFiniteSet(InFlight) /\ Cardinality(InFlight) \in Nat
      /\ Cardinality(InFlight) <= Cardinality(active)
  BY <1>1, <1>2, FS_Subset, FS_CardinalityType
<1>4. ASSUME NEW q \in Questions, task[q].stage \in Running \ {"in_flight"}
      PROVE  Cardinality(InFlight) + 1 <= MaxTargetConcurrency
  <2>1. InFlight \cup {q} \in SUBSET active /\ q \notin InFlight
    BY <1>2, <1>4 DEF Activity, InFlight
  <2>2. Cardinality(InFlight \cup {q}) = Cardinality(InFlight) + 1
    BY <1>3, <2>1, FS_AddElement
  <2>3. Cardinality(InFlight \cup {q}) <= Cardinality(active)
    BY <1>1, <2>1, FS_Subset
  <2> QED BY <1>1, <1>3, <2>2, <2>3, ConcurrencyConfig DEF Activity
<1> QED BY <1>1, <1>3, <1>4, ConcurrencyConfig DEF Activity

-----------------------------------------------------------------------------
(* The steps of a task. *)

\* A task that moves on leaves the deque, the retries and the batch of outcomes
\* alone.
LEMMA TaskStepKeeps ==
    ASSUME Typed, Places, Activity, TaskUnchanged,
           NEW q \in Questions, NEW s \in Running \cup {"done"},
           task[q].stage \in Running,
           Differs(task, task', q, s)
    PROVE  Places' /\ Activity'
<1>1. /\ \A i \in 1..Len(pending) : pending[i].question \in Questions
      /\ \A item \in delayed : item.question \in Questions
  <2>1. pending \in Seq(Items) /\ delayed \subseteq Retries
    BY DEF Typed
  <2>2. \A i \in 1..Len(pending) : pending[i] \in Items
    BY <2>1
  <2> QED BY <2>1, <2>2 DEF Items, Retries
<1>2. Places'
  BY <1>1 DEF Places, TaskUnchanged, Differs, Running
<1>3. Activity'
  BY DEF Typed, Activity, TaskUnchanged, Differs, Running
<1> QED BY <1>2, <1>3

\* The task at the head of launch_lock releases it and dispatches.
LEMMA SlotReleased ==
    ASSUME Typed, Queueing, NEW q \in Questions,
           launch_queue # <<>>, launch_queue[1] = q,
           launch_queue' = Tail(launch_queue),
           Differs(task, task', q, "in_flight")
    PROVE  launch_queue' \in Seq(Questions) /\ Queueing'
<1>1. launch_queue \in Seq(Questions)
  BY DEF Typed
<1>2. /\ Tail(launch_queue) \in Seq(Questions)
      /\ Len(Tail(launch_queue)) = Len(launch_queue) - 1
      /\ \A i \in 1..(Len(launch_queue) - 1) : Tail(launch_queue)[i] = launch_queue[i + 1]
      /\ Len(launch_queue) \in Nat
  BY <1>1
<1>3. ASSUME NEW r \in Questions, task'[r].stage \in {"queued", "pacing"}
      PROVE  /\ task'[r].stage # "pacing"
             /\ \E i \in 1..Len(launch_queue') : launch_queue'[i] = r
  <2>1. r # q /\ task'[r] = task[r]
    BY <1>3 DEF Differs
  <2>2. PICK i \in 1..Len(launch_queue) : launch_queue[i] = r
    BY <1>3, <2>1 DEF Queueing
  <2>3. i # 1 /\ i - 1 \in 1..(Len(launch_queue) - 1) /\ (i - 1) + 1 = i
    BY <1>2, <2>1, <2>2
  <2>4. Tail(launch_queue)[i - 1] = r
    BY <1>2, <2>2, <2>3
  <2>5. task'[r].stage # "pacing"
    BY <2>1 DEF Queueing
  <2> QED BY <1>2, <2>3, <2>4, <2>5
<1> QED BY <1>2, <1>3 DEF Queueing

\* The metric stays exact through a dispatch, and the number reported with it is
\* within the bound.
LEMMA DispatchMetered ==
    ASSUME Typed, Activity, Metering, NEW q \in Questions,
           task[q].stage \in Running \ {"in_flight"},
           Dispatch(q)
    PROVE  /\ Differs(task, task', q, "in_flight")
           /\ Metering'
           /\ launches' \in Nat /\ http_in_flight' \in Nat /\ spaced' \in BOOLEAN
<1>1. /\ launches + 1 \in Nat /\ http_in_flight + 1 \in Nat
      /\ task \in [Questions -> Tasks]
  BY DEF Typed
<1>2. task' = Launched(task, q, launches + 1, http_in_flight + 1)
  BY DEF Dispatch, Launched
<1>3. /\ Differs(task, task', q, "in_flight")
      /\ task'[q].observed_in_flight = http_in_flight + 1
  BY <1>1, <1>2, DispatchChanges
<1>4. InFlight = InFlightOf(task) /\ InFlight' = InFlightOf(task')
  BY DEF InFlight, InFlightOf
<1>5. http_in_flight' = Cardinality(InFlight')
  <2>1. Cardinality(InFlightOf(task')) = Cardinality(InFlightOf(task)) + 1
    BY <1>3, FlightStarts
  <2> QED BY <1>4, <2>1 DEF Metering, Dispatch
<1>6. task'[q].observed_in_flight \in 1..MaxTargetConcurrency
  BY <1>1, <1>3, FlightBounded, ConcurrencyConfig DEF Metering
<1>7. Metering'
  BY <1>3, <1>5, <1>6 DEF Metering, Differs
<1> QED BY <1>1, <1>3, <1>7 DEF Dispatch, Typed

\* The metric stays exact when a task changes stage without dispatching.
LEMMA StageMetered ==
    ASSUME Typed, Metering, NEW q \in Questions, NEW s,
           task[q].stage # "in_flight", s \notin {"in_flight", "done"},
           Differs(task, task', q, s),
           http_in_flight' = http_in_flight
    PROVE  Metering'
<1>1. InFlight = InFlightOf(task) /\ InFlight' = InFlightOf(task')
  BY DEF InFlight, InFlightOf
<1>2. InFlight' = InFlight
  BY <1>1, FlightKept
<1> QED BY <1>2 DEF Metering, Differs

\* What a task step leaves alone, and what it must show of the rest.
LEMMA TaskStepInv ==
    ASSUME SchedulerInv, TaskUnchanged,
           NEW q \in Questions, NEW s \in Running \cup {"done"},
           task[q].stage \in Running,
           Differs(task, task', q, s),
           launch_queue' \in Seq(Questions), spaced' \in BOOLEAN,
           launches' \in Nat, http_in_flight' \in Nat,
           Queueing', Metering'
    PROVE  SchedulerInv'
<1>1. Places' /\ Activity'
  BY TaskStepKeeps DEF SchedulerInv
<1>2. CtlInv'
  BY DEF SchedulerInv, CtlInv, TaskUnchanged
<1>3. Typed'
  <2>1. Typed /\ task' \in [Questions -> Tasks]
    BY DEF SchedulerInv, Differs
  <2>2. /\ loop' = loop /\ pending' = pending /\ delayed' = delayed
        /\ active' = active /\ handling' = handling /\ paused' = paused
        /\ results' = results /\ published' = published
    BY DEF TaskUnchanged
  <2> QED BY <2>1, <2>2 DEF Typed
<1> QED BY <1>1, <1>2, <1>3 DEF SchedulerInv

\* A task that finds the scheduler paused.
LEMMA StartPausedInv ==
    ASSUME SchedulerInv, NEW q \in Questions, StartPaused(q)
    PROVE  SchedulerInv'
<1>1. Typed /\ Queueing /\ Metering /\ task \in [Questions -> Tasks]
  BY DEF SchedulerInv, Typed
<1>2. task' = Staged(task, q, "pausing")
  BY DEF StartPaused, Staged
<1>3. Differs(task, task', q, "pausing")
  BY <1>1, <1>2, StageChanges DEF Stages
<1>4. /\ TaskUnchanged
      /\ task[q].stage = "created"
      /\ UNCHANGED <<launch_queue, spaced, launches, http_in_flight>>
  BY DEF StartPaused
<1>5. Metering'
  BY <1>1, <1>3, <1>4, StageMetered
<1>6. Queueing'
  BY <1>1, <1>3, <1>4 DEF Queueing, Differs
<1>7. task[q].stage \in Running /\ "pausing" \in Running \cup {"done"}
  BY <1>4 DEF Running
<1> QED
  BY <1>1, <1>3, <1>4, <1>5, <1>6, <1>7, TaskStepInv DEF Typed

\* A task that sleeps for its slot, holding launch_lock.
LEMMA PacingInv ==
    ASSUME SchedulerInv, NEW q \in Questions, TaskUnchanged,
           task[q].stage \in Running \ {"in_flight"},
           launch_queue' \in Seq(Questions),
           launch_queue' # <<>>, launch_queue'[1] = q,
           launch_queue' = launch_queue \/ launch_queue = <<>>,
           task' = Staged(task, q, "pacing"),
           UNCHANGED <<spaced, launches, http_in_flight>>
    PROVE  SchedulerInv'
<1>1. Typed /\ Queueing /\ Metering /\ task \in [Questions -> Tasks]
  BY DEF SchedulerInv, Typed
<1>2. "pacing" \in Stages
  BY DEF Stages
<1>3. Differs(task, task', q, "pacing")
  BY <1>1, <1>2, StageChanges
<1>4. Metering'
  <2>1. http_in_flight' = http_in_flight /\ task[q].stage # "in_flight"
    OBVIOUS
  <2> QED BY <1>1, <1>3, <2>1, StageMetered
<1>5. Queueing'
  <2>1. \A r \in Questions : r # q => task'[r] = task[r]
    BY <1>3 DEF Differs
  <2>2. 1 \in 1..Len(launch_queue')
    OBVIOUS
  <2>3. CASE launch_queue' = launch_queue
    BY <1>1, <2>1, <2>2, <2>3 DEF Queueing
  <2>4. CASE launch_queue = <<>>
    <3>1. \A r \in Questions : task[r].stage \notin {"queued", "pacing"}
      BY <1>1, <2>4 DEF Queueing
    <3> QED BY <2>1, <2>2, <3>1 DEF Queueing
  <2> QED BY <2>3, <2>4
<1>6. task[q].stage \in Running /\ "pacing" \in Running \cup {"done"}
  BY DEF Running
<1> QED
  BY <1>1, <1>3, <1>4, <1>5, <1>6, TaskStepInv DEF Typed

\* A task that dispatches at the head of launch_lock, or without waiting for it.
LEMMA DispatchInv ==
    ASSUME SchedulerInv, NEW q \in Questions, TaskUnchanged,
           task[q].stage \in Running \ {"in_flight"},
           Dispatch(q),
           \/ /\ launch_queue # <<>> /\ launch_queue[1] = q
              /\ launch_queue' = Tail(launch_queue)
           \/ launch_queue = <<>> /\ launch_queue' = <<>>
    PROVE  SchedulerInv'
<1>1. Typed /\ Activity /\ Queueing /\ Metering
  BY DEF SchedulerInv
<1>2. /\ Differs(task, task', q, "in_flight")
      /\ Metering'
      /\ launches' \in Nat /\ http_in_flight' \in Nat /\ spaced' \in BOOLEAN
  BY <1>1, DispatchMetered
<1>3. launch_queue' \in Seq(Questions) /\ Queueing'
  <2>1. CASE launch_queue # <<>> /\ launch_queue[1] = q
             /\ launch_queue' = Tail(launch_queue)
    BY <1>1, <1>2, <2>1, SlotReleased
  <2>2. CASE launch_queue = <<>> /\ launch_queue' = <<>>
    BY <1>1, <1>2, <2>2 DEF Queueing, Differs
  <2> QED BY <2>1, <2>2
<1>4. task[q].stage \in Running /\ "in_flight" \in Running \cup {"done"}
  BY DEF Running
<1> QED
  BY <1>2, <1>3, <1>4, TaskStepInv

\* A task that takes launch_lock, or queues for it.
LEMMA TakeSlotInv ==
    ASSUME SchedulerInv, NEW q \in Questions, TakeSlot(q)
    PROVE  SchedulerInv'
<1>1. Typed /\ Queueing /\ Metering /\ task \in [Questions -> Tasks]
      /\ launch_queue \in Seq(Questions)
  BY DEF SchedulerInv, Typed
<1>2. TaskUnchanged /\ task[q].stage \in Running \ {"in_flight"}
  BY DEF TakeSlot, Running
<1>3. CASE launch_queue = <<>>
  <2>1. EnterSlot(q, <<q>>)
    BY <1>3 DEF TakeSlot
  <2>2. /\ <<q>> \in Seq(Questions) /\ <<q>> # <<>> /\ <<q>>[1] = q
        /\ Tail(<<q>>) = <<>>
    OBVIOUS
  <2>3. CASE /\ launch_queue' = <<q>>
             /\ task' = [task EXCEPT ![q].stage = "pacing"]
             /\ UNCHANGED <<spaced, launches, http_in_flight>>
    <3>1. task' = Staged(task, q, "pacing")
      BY <2>3 DEF Staged
    <3>2. launch_queue' = <<q>> /\ UNCHANGED <<spaced, launches, http_in_flight>>
      BY <2>3
    <3> QED BY <1>2, <1>3, <2>2, <3>1, <3>2, PacingInv
  <2>4. CASE launch_queue' = Tail(<<q>>) /\ Dispatch(q)
    BY <1>2, <1>3, <2>2, <2>4, DispatchInv
  <2> QED BY <2>1, <2>3, <2>4 DEF EnterSlot
<1>4. CASE launch_queue # <<>>
  <2>1. /\ launch_queue' = Append(launch_queue, q)
        /\ task' = Staged(task, q, "queued")
        /\ UNCHANGED <<spaced, launches, http_in_flight>>
    BY <1>4 DEF TakeSlot, Staged
  <2>2. "queued" \in Stages /\ "queued" \in Running \cup {"done"}
    BY DEF Stages, Running
  <2>3. Differs(task, task', q, "queued")
    BY <1>1, <2>1, <2>2, StageChanges
  <2>4. Metering'
    BY <1>1, <1>2, <2>1, <2>3, StageMetered
  <2>5. /\ launch_queue' \in Seq(Questions)
        /\ Len(launch_queue') = Len(launch_queue) + 1
        /\ Len(launch_queue) \in Nat
        /\ \A i \in 1..Len(launch_queue) : launch_queue'[i] = launch_queue[i]
        /\ launch_queue'[Len(launch_queue) + 1] = q
        /\ Len(launch_queue) >= 1
    BY <1>1, <1>4, <2>1
  <2>6. Queueing'
    <3>1. ASSUME NEW r \in Questions, task'[r].stage \in {"queued", "pacing"}
          PROVE  \E i \in 1..Len(launch_queue') : launch_queue'[i] = r
      <4>1. CASE r = q
        BY <2>5, <4>1
      <4>2. CASE r # q
        <5>1. PICK i \in 1..Len(launch_queue) : launch_queue[i] = r
          BY <1>1, <2>3, <3>1, <4>2 DEF Queueing, Differs
        <5> QED BY <2>5, <5>1
      <4> QED BY <4>1, <4>2
    <3>2. ASSUME NEW r \in Questions, task'[r].stage = "pacing"
          PROVE  launch_queue'[1] = r
      BY <1>1, <2>3, <2>5, <3>2 DEF Queueing, Differs
    <3> QED BY <3>1, <3>2 DEF Queueing
  <2>7. spaced' \in BOOLEAN /\ launches' \in Nat /\ http_in_flight' \in Nat
    BY <1>1, <2>1 DEF Typed
  <2> QED BY <1>2, <2>2, <2>3, <2>4, <2>5, <2>6, <2>7, TaskStepInv
<1> QED BY <1>3, <1>4

\* A task that is given launch_lock.
LEMMA SlotGrantedInv ==
    ASSUME SchedulerInv, NEW q \in Questions, SlotGranted(q)
    PROVE  SchedulerInv'
<1>1. Queueing /\ launch_queue \in Seq(Questions)
  BY DEF SchedulerInv, Typed
<1>2. /\ TaskUnchanged
      /\ task[q].stage = "queued"
      /\ task[q].stage \in Running \ {"in_flight"}
      /\ EnterSlot(q, launch_queue)
      /\ Head(launch_queue) = q
  BY DEF SlotGranted, Running
<1>3. launch_queue # <<>>
  BY <1>1, <1>2 DEF Queueing
<1>4. launch_queue[1] = q
  BY <1>1, <1>2, <1>3
<1>5. CASE /\ launch_queue' = launch_queue
           /\ task' = [task EXCEPT ![q].stage = "pacing"]
           /\ UNCHANGED <<spaced, launches, http_in_flight>>
  <2>1. task' = Staged(task, q, "pacing")
    BY <1>5 DEF Staged
  <2>2. launch_queue' = launch_queue /\ UNCHANGED <<spaced, launches, http_in_flight>>
    BY <1>5
  <2> QED BY <1>1, <1>2, <1>3, <1>4, <2>1, <2>2, PacingInv
<1>6. CASE launch_queue' = Tail(launch_queue) /\ Dispatch(q)
  BY <1>2, <1>3, <1>4, <1>6, DispatchInv
<1> QED BY <1>2, <1>5, <1>6 DEF EnterSlot

\* A task whose pacing sleep ends.
LEMMA PacingEndsInv ==
    ASSUME SchedulerInv, NEW q \in Questions, PacingEnds(q)
    PROVE  SchedulerInv'
<1>1. Queueing /\ launch_queue \in Seq(Questions)
  BY DEF SchedulerInv, Typed
<1>2. /\ TaskUnchanged
      /\ task[q].stage = "pacing"
      /\ task[q].stage \in Running \ {"in_flight"}
      /\ launch_queue' = Tail(launch_queue)
      /\ Dispatch(q)
  BY DEF PacingEnds, Running
<1>3. launch_queue # <<>> /\ launch_queue[1] = q
  BY <1>1, <1>2 DEF Queueing
<1> QED BY <1>2, <1>3, DispatchInv

\* A request that ends.
LEMMA ReplyInv ==
    ASSUME SchedulerInv, NEW q \in Questions, NEW outcome \in Outcomes,
           Reply(q, outcome)
    PROVE  SchedulerInv'
<1>1. Typed /\ Queueing /\ Metering /\ task \in [Questions -> Tasks]
  BY DEF SchedulerInv, Typed
<1>2. /\ TaskUnchanged
      /\ task[q].stage = "in_flight"
      /\ http_in_flight' = AtLeast(0, http_in_flight - 1)
      /\ task' = Answered(task, q, outcome)
      /\ UNCHANGED <<launch_queue, spaced, launches>>
  BY DEF Reply, RequestEnds, Answered
<1>3. /\ Differs(task, task', q, "done")
      /\ task'[q].observed_in_flight = task[q].observed_in_flight
  BY <1>1, <1>2, ReplyChanges
<1>4. InFlight = InFlightOf(task) /\ InFlight' = InFlightOf(task')
  BY DEF InFlight, InFlightOf
<1>5. /\ Cardinality(InFlight') = Cardinality(InFlight) - 1
      /\ Cardinality(InFlight') \in Nat
  BY <1>2, <1>3, <1>4, FlightEnds
<1>6. http_in_flight' = Cardinality(InFlight') /\ http_in_flight' \in Nat
  BY <1>1, <1>2, <1>5 DEF Metering, Typed, AtLeast
<1>7. Metering'
  BY <1>1, <1>2, <1>3, <1>6 DEF Metering, Differs
<1>8. Queueing'
  BY <1>1, <1>2, <1>3 DEF Queueing, Differs
<1>9. task[q].stage \in Running /\ "done" \in Running \cup {"done"}
  BY <1>2 DEF Running
<1>10. launch_queue' \in Seq(Questions) /\ spaced' \in BOOLEAN /\ launches' \in Nat
  BY <1>1, <1>2 DEF Typed
<1> QED
  BY <1>2, <1>3, <1>6, <1>7, <1>8, <1>9, <1>10, TaskStepInv

\* Every step of a task preserves the invariant.
LEMMA TaskInv ==
    ASSUME SchedulerInv, NEW q \in Questions, TaskStep(q)
    PROVE  SchedulerInv'
  BY StartPausedInv, TakeSlotInv, SlotGrantedInv, PacingEndsInv, ReplyInv
     DEF TaskStep

-----------------------------------------------------------------------------
(* The steps of the main coroutine. *)

\* At most n questions are named by the first n pairs of a deque.
LEMMA FirstAreFew ==
    ASSUME NEW deque, NEW k \in Nat,
           NEW S, S = {deque[i].question : i \in 1..k}
    PROVE  IsFiniteSet(S) /\ Cardinality(S) \in Nat /\ Cardinality(S) <= k
<1> DEFINE f == [i \in 1..k |-> deque[i].question]
<1>1. f \in Surjection(1..k, S)
  BY DEF Surjection
<1>2. IsFiniteSet(1..k) /\ Cardinality(1..k) = k
  BY FS_Interval
<1>3. IsFiniteSet(S) /\ Cardinality(S) <= k
  BY <1>1, <1>2, FS_Surjection
<1> QED BY <1>3, FS_CardinalityType

\* A new task has the attempt of its pair and nothing else.
LEMMA NewTask ==
    ASSUME NEW a \in Attempts
    PROVE  LET t == [NoTask EXCEPT !.stage = "created", !.attempt = a]
           IN  t \in Tasks /\ t.stage = "created" /\ t.attempt = a
  BY DEF NoTask, Tasks, Stages

\* What a launch does to a deque whose questions are distinct: its first k pairs get
\* a task each and the others stay, where k is within the free slots.
LEMMA LaunchMoves ==
    ASSUME SchedulerInv, NEW deque \in Seq(Items),
           \A i, j \in 1..Len(deque) : deque[i].question = deque[j].question => i = j,
           LaunchAvailable(deque)
    PROVE  \E k \in 0..Len(deque) :
             /\ k # 0 => k <= controller.target - Cardinality(active)
             /\ pending' \in Seq(Items)
             /\ Len(pending') = Len(deque) - k
             /\ \A j \in 1..Len(pending') : pending'[j] = deque[k + j]
             /\ active' = active \cup {deque[i].question : i \in 1..k}
             /\ task' \in [Questions -> Tasks]
             /\ \A i \in 1..k : /\ task'[deque[i].question].stage = "created"
                               /\ task'[deque[i].question].attempt = deque[i].attempt
             /\ \A q \in Questions :
                  (\A i \in 1..k : deque[i].question # q) => task'[q] = task[q]
<1> DEFINE k == AtMost(Len(deque), FreeSlots)
           first == {deque[i] : i \in 1..k}
<1>1. /\ Typed /\ CtlInv
      /\ task \in [Questions -> Tasks] /\ active \subseteq Questions
  BY DEF SchedulerInv, Typed
<1>2. IsFiniteSet(active) /\ Cardinality(active) \in Nat
  BY <1>1, RunConfig, FS_Subset, FS_CardinalityType
<1>3. controller.target \in 1..MaxTargetConcurrency /\ controller.target \in Nat
  BY <1>1, ConcurrencyConfig DEF CtlInv, Sound
<1>4. /\ Len(deque) \in Nat
      /\ FreeSlots \in Nat
      /\ k \in 0..Len(deque) /\ k \in Nat /\ k <= FreeSlots
      /\ k # 0 => k <= controller.target - Cardinality(active)
  BY <1>2, <1>3 DEF FreeSlots, AtLeast, AtMost
<1>5. /\ pending' = SubSeq(deque, k + 1, Len(deque))
      /\ active' = active \cup {pair.question : pair \in first}
      /\ task' = [q \in Questions |->
                    IF \E pair \in first : pair.question = q
                    THEN [NoTask EXCEPT !.stage = "created",
                            !.attempt = (CHOOSE pair \in first :
                                           pair.question = q).attempt]
                    ELSE task[q]]
  BY DEF LaunchAvailable
<1> HIDE DEF k
<1>6. {pair.question : pair \in first} = {deque[i].question : i \in 1..k}
  OBVIOUS
<1>7. \A i \in 1..Len(deque) :
        deque[i] \in Items /\ deque[i].question \in Questions /\ deque[i].attempt \in Attempts
  <2>1. \A i \in 1..Len(deque) : deque[i] \in Items
    OBVIOUS
  <2> QED BY <2>1 DEF Items
<1>8. /\ pending' \in Seq(Items)
      /\ Len(pending') = Len(deque) - k
      /\ \A j \in 1..Len(pending') : pending'[j] = deque[k + j]
  <2>1. k + 1 \in Int /\ Len(deque) \in Int
    BY <1>4
  <2>2. \A i \in (k + 1)..Len(deque) : deque[i] \in Items
    BY <1>4, <1>7
  <2> DEFINE rest == SubSeq(deque, k + 1, Len(deque))
  <2>3. /\ rest \in Seq(Items)
        /\ Len(rest) = IF k + 1 <= Len(deque) THEN Len(deque) - (k + 1) + 1 ELSE 0
        /\ \A j \in 1..(Len(deque) - (k + 1) + 1) : rest[j] = deque[k + 1 + j - 1]
    BY <2>1, <2>2, SubSeqProperties
  <2>4. pending' = rest
    BY <1>5
  <2> HIDE DEF rest
  <2>5. /\ pending' \in Seq(Items)
        /\ Len(pending') = Len(deque) - k
    BY <1>4, <2>3, <2>4
  <2>6. ASSUME NEW j \in 1..Len(pending')
        PROVE  pending'[j] = deque[k + j]
    <3>1. k + 1 + j - 1 = k + j /\ j \in 1..(Len(deque) - (k + 1) + 1)
      BY <1>4, <2>5
    <3> QED BY <2>3, <2>4, <3>1
  <2> QED BY <2>5, <2>6
<1>9. ASSUME NEW i \in 1..k
      PROVE  /\ task'[deque[i].question] \in Tasks
             /\ task'[deque[i].question].stage = "created"
             /\ task'[deque[i].question].attempt = deque[i].attempt
  <2> DEFINE q == deque[i].question
             pair == CHOOSE x \in first : x.question = q
  <2>1. i \in 1..Len(deque) /\ q \in Questions
    BY <1>4, <1>7
  <2>2. \E x \in first : x.question = q
    OBVIOUS
  <2>3. pair \in first /\ pair.question = q
    BY <2>2
  <2>4. task'[q] = [NoTask EXCEPT !.stage = "created", !.attempt = pair.attempt]
    BY <1>5, <2>1, <2>2
  <2> HIDE DEF pair
  <2>5. PICK j \in 1..k : pair = deque[j]
    BY <2>3
  <2>6. j = i
    BY <1>4, <2>1, <2>3, <2>5
  <2>7. pair = deque[i] /\ pair.attempt \in Attempts
    BY <1>7, <2>1, <2>5, <2>6
  <2> HIDE DEF q
  <2>8. task'[q] \in Tasks /\ task'[q].stage = "created" /\ task'[q].attempt = pair.attempt
    BY <2>4, <2>7, NewTask
  <2> QED BY <2>7, <2>8 DEF q
<1>10. ASSUME NEW q \in Questions, \A i \in 1..k : deque[i].question # q
       PROVE  task'[q] = task[q]
  <2>1. ~ \E x \in first : x.question = q
    BY <1>10
  <2> QED BY <1>5, <2>1
<1>11. task' \in [Questions -> Tasks]
  <2>1. task' = [q \in Questions |-> task'[q]]
    BY <1>5
  <2>2. \A q \in Questions : task'[q] \in Tasks
    BY <1>1, <1>9, <1>10
  <2> QED BY <2>1, <2>2
<1>12. active' = active \cup {deque[i].question : i \in 1..k}
  BY <1>5, <1>6
<1> HIDE DEF first
<1> QED BY <1>4, <1>8, <1>9, <1>10, <1>11, <1>12

\* The active tasks after a launch are no more than the target.
LEMMA LaunchBounded ==
    ASSUME SchedulerInv, NEW deque, NEW k \in Nat,
           k # 0 => k <= controller.target - Cardinality(active),
           active' = active \cup {deque[i].question : i \in 1..k}
    PROVE  active' = active \/ Cardinality(active') <= controller.target
<1> DEFINE launched == {deque[i].question : i \in 1..k}
<1>1. IsFiniteSet(active) /\ Cardinality(active) \in Nat
  BY RunConfig, FS_Subset, FS_CardinalityType DEF SchedulerInv, Typed
<1>2. controller.target \in Nat
  BY ConcurrencyConfig DEF SchedulerInv, CtlInv, Sound
<1>3. CASE k = 0
  <2>1. launched = {}
    BY <1>3
  <2> QED BY <2>1
<1>4. CASE k # 0
  <2>1. IsFiniteSet(launched) /\ Cardinality(launched) \in Nat /\ Cardinality(launched) <= k
    BY FirstAreFew
  <2> HIDE DEF launched
  <2>2. /\ Cardinality(active \cup launched) =
             Cardinality(active) + Cardinality(launched) - Cardinality(active \cap launched)
        /\ IsFiniteSet(active \cup launched)
    BY <1>1, <2>1, FS_Union
  <2>3. Cardinality(active \cap launched) \in Nat
    BY <1>1, FS_Subset, FS_CardinalityType
  <2>4. Cardinality(active \cup launched) <= controller.target
    BY <1>1, <1>2, <1>4, <2>1, <2>2, <2>3
  <2> QED BY <2>4 DEF launched
<1> QED BY <1>3, <1>4

\* Tasks are launched from a deque whose questions are distinct and have no task,
\* as many as the target allows.
LEMMA LaunchInv ==
    ASSUME SchedulerInv, handling = {},
           NEW deque \in Seq(Items),
           \A i \in 1..Len(deque) : task[deque[i].question].stage = "none",
           \A i, j \in 1..Len(deque) : deque[i].question = deque[j].question => i = j,
           LaunchAvailable(deque),
           delayed' \subseteq delayed,
           \A item \in delayed', i \in 1..Len(deque) : deque[i].question # item.question,
           loop' \in {"waiting", "sleeping", "running"},
           UNCHANGED <<controller, handling, launch_queue, spaced, paused, launches,
                       http_in_flight, results, published>>
    PROVE  SchedulerInv'
<1>1. /\ Typed /\ Places /\ Activity /\ Queueing /\ Metering /\ CtlInv
      /\ task \in [Questions -> Tasks] /\ active \subseteq Questions
      /\ delayed \subseteq Retries /\ Len(deque) \in Nat
  BY DEF SchedulerInv, Typed
<1>2. PICK k \in 0..Len(deque) :
        /\ k # 0 => k <= controller.target - Cardinality(active)
        /\ pending' \in Seq(Items)
        /\ Len(pending') = Len(deque) - k
        /\ \A j \in 1..Len(pending') : pending'[j] = deque[k + j]
        /\ active' = active \cup {deque[i].question : i \in 1..k}
        /\ task' \in [Questions -> Tasks]
        /\ \A i \in 1..k : /\ task'[deque[i].question].stage = "created"
                          /\ task'[deque[i].question].attempt = deque[i].attempt
        /\ \A q \in Questions :
             (\A i \in 1..k : deque[i].question # q) => task'[q] = task[q]
  BY LaunchMoves
<1> DEFINE launched == {deque[i].question : i \in 1..k}
<1>3. k \in Nat /\ \A i \in 1..k : i \in 1..Len(deque)
  BY <1>1, <1>2
<1>4. \A i \in 1..Len(deque) :
        deque[i] \in Items /\ deque[i].question \in Questions /\ deque[i].attempt \in Attempts
  <2>1. \A i \in 1..Len(deque) : deque[i] \in Items
    OBVIOUS
  <2> QED BY <2>1 DEF Items
<1>5. /\ pending' \in Seq(Items)
      /\ Len(pending') \in Nat
      /\ \A j \in 1..Len(pending') : pending'[j] = deque[k + j]
                                     /\ k + j \in 1..Len(deque)
                                     /\ k + j \notin 1..k
  BY <1>1, <1>2, <1>3
<1>6. ASSUME NEW q \in Questions
      PROVE  /\ q \in launched => task'[q].stage = "created" /\ task'[q].attempt \in Attempts
             /\ q \notin launched => task'[q] = task[q]
  <2>1. CASE q \in launched
    <3>1. PICK i \in 1..k : deque[i].question = q
      BY <2>1
    <3>2. task'[q].stage = "created" /\ task'[q].attempt = deque[i].attempt
      BY <1>2, <3>1
    <3> QED BY <1>3, <1>4, <2>1, <3>2
  <2>2. CASE q \notin launched
    <3>1. \A i \in 1..k : deque[i].question # q
      BY <2>2
    <3> QED BY <1>2, <2>2, <3>1
  <2> QED BY <2>1, <2>2
<1>7. \A q \in launched : q \in Questions /\ task[q].stage = "none"
  BY <1>3, <1>4
<1>8. task' \in [Questions -> Tasks]
  BY <1>2
<1>9. \A i \in 1..Len(deque) : i \notin 1..k => deque[i].question \notin launched
  BY <1>3
<1>10. \A item \in delayed' : item.question \in Questions /\ item.question \notin launched
  BY <1>1, <1>3 DEF Retries
<1>11. active' = active \cup launched
  BY <1>2
<1> HIDE DEF launched
<1>12. Typed'
  BY <1>1, <1>5, <1>7, <1>8, <1>11 DEF Typed
<1>13. Places'
  <2>1. \A i \in 1..Len(pending') : task'[pending'[i].question].stage = "none"
    BY <1>4, <1>5, <1>6, <1>9
  <2>2. \A i, j \in 1..Len(pending') :
          pending'[i].question = pending'[j].question => i = j
    <3> SUFFICES ASSUME NEW i \in 1..Len(pending'), NEW j \in 1..Len(pending'),
                        pending'[i].question = pending'[j].question
                 PROVE  i = j
      OBVIOUS
    <3>1. /\ k + i \in 1..Len(deque) /\ pending'[i] = deque[k + i]
          /\ k + j \in 1..Len(deque) /\ pending'[j] = deque[k + j]
      BY <1>5
    <3>2. \A x, y \in 1..Len(deque) : deque[x].question = deque[y].question => x = y
      OBVIOUS
    <3>3. deque[k + i].question = deque[k + j].question
      BY <3>1
    <3>4. k + i = k + j
      BY <3>1, <3>2, <3>3
    <3>5. i \in Nat /\ j \in Nat
      BY <1>5
    <3> QED BY <1>3, <3>4, <3>5
  <2>3. \A item \in delayed' : task'[item.question].stage = "none"
    BY <1>1, <1>6, <1>10 DEF Places
  <2>4. \A x, y \in delayed' : x.question = y.question => x = y
    BY <1>1 DEF Places
  <2>5. \A item \in delayed', i \in 1..Len(pending') : pending'[i].question # item.question
    <3> SUFFICES ASSUME NEW item \in delayed', NEW i \in 1..Len(pending')
                 PROVE  pending'[i].question # item.question
      OBVIOUS
    <3>1. k + i \in 1..Len(deque) /\ pending'[i] = deque[k + i]
      BY <1>5
    <3>2. deque[k + i].question # item.question
      BY <3>1
    <3> QED BY <3>1, <3>2
  <2> QED BY <2>1, <2>2, <2>3, <2>4, <2>5 DEF Places
<1>14. Activity'
  <2>1. Cardinality(active') <= MaxTargetConcurrency
    <3>1. controller.target \in 1..MaxTargetConcurrency
      BY <1>1 DEF CtlInv, Sound
    <3>2. active' \in SUBSET Questions
      BY <1>1, <1>7, <1>11
    <3>3. Cardinality(active') \in Nat
      BY <3>2, RunConfig, FS_Subset, FS_CardinalityType
    <3>4. active' = active \/ Cardinality(active') <= controller.target
      <4>1. /\ k # 0 => k <= controller.target - Cardinality(active)
            /\ active' = active \cup {deque[i].question : i \in 1..k}
            /\ k \in Nat
        BY <1>2, <1>3
      <4> QED BY <4>1, LaunchBounded
    <3>5. Cardinality(active) <= MaxTargetConcurrency
      BY <1>1 DEF Activity
    <3>6. CASE active' = active
      BY <3>5, <3>6
    <3>7. CASE Cardinality(active') <= controller.target
      BY <3>1, <3>3, <3>7, ConcurrencyConfig
    <3> QED BY <3>4, <3>6, <3>7
  <2>2. \A q \in Questions : task'[q].stage \in Running => q \in active'
    BY <1>1, <1>6, <1>11 DEF Activity
  <2>3. \A q \in Questions : task'[q].stage # "none" => task'[q].attempt \in Attempts
    BY <1>1, <1>6 DEF Activity
  <2> QED BY <2>1, <2>2, <2>3 DEF Activity
<1>15. Queueing'
  BY <1>1, <1>6 DEF Queueing
<1>16. Metering'
  <2>1. InFlight' = InFlight
    BY <1>6, <1>7 DEF InFlight
  <2> QED BY <1>1, <1>6, <2>1 DEF Metering
<1>17. CtlInv'
  BY <1>1 DEF CtlInv
<1> QED BY <1>12, <1>13, <1>14, <1>15, <1>16, <1>17 DEF SchedulerInv

\* q waits for its attempt a, in the deque or for its delay.
Waits(q, a) ==
    \/ \E i \in 1..Len(pending) : pending[i].question = q /\ pending[i].attempt = a
    \/ \E item \in delayed : item.question = q /\ item.attempt = a

\* An iteration launches from a deque that the retries that are due have joined:
\* with what is still delayed it holds all that was waiting, once.
LEMMA IterateDeque ==
    ASSUME SchedulerInv, Iterate
    PROVE  \E deque \in Seq(Items) :
             /\ LaunchAvailable(deque)
             /\ delayed' \subseteq delayed
             /\ \A i \in 1..Len(deque) : task[deque[i].question].stage = "none"
             /\ \A i, j \in 1..Len(deque) : deque[i].question = deque[j].question => i = j
             /\ \A item \in delayed', i \in 1..Len(deque) : deque[i].question # item.question
             /\ \A q \in Questions, a \in Attempts :
                  Waits(q, a) <=>
                    \/ \E i \in 1..Len(deque) : deque[i].question = q /\ deque[i].attempt = a
                    \/ \E item \in delayed' : item.question = q /\ item.attempt = a
<1> DEFINE ready == {item \in delayed : item.due}
<1>1. /\ Typed /\ Places
      /\ pending \in Seq(Items) /\ delayed \subseteq Retries
      /\ IsFiniteSet(delayed) => Cardinality(delayed) \in Nat
  BY FS_CardinalityType DEF SchedulerInv, Typed
<1>2. PICK n \in 0..Cardinality(delayed) : \E moved \in [1..n -> ready] :
        /\ MoveReadyTo(moved)
        /\ LaunchAvailable(pending \o [i \in 1..n |->
             [question |-> moved[i].question, attempt |-> moved[i].attempt]])
  BY DEF Iterate
<1>3. PICK moved \in [1..n -> ready] :
        /\ MoveReadyTo(moved)
        /\ LaunchAvailable(pending \o [i \in 1..n |->
             [question |-> moved[i].question, attempt |-> moved[i].attempt]])
  BY <1>2
<1> DEFINE added == [i \in 1..n |->
                       [question |-> moved[i].question, attempt |-> moved[i].attempt]]
           deque == pending \o added
<1>4. n \in Nat
  BY <1>2
<1>5. /\ \A i \in 1..n : moved[i] \in delayed /\ moved[i] \in Retries /\ moved[i].due
      /\ \A i, j \in 1..n : moved[i] = moved[j] => i = j
      /\ delayed' = delayed \ ready
      /\ \A item \in delayed' : item \in delayed /\ ~item.due
      /\ \A item \in delayed : item \in delayed' \/ \E i \in 1..n : moved[i] = item
  <2>1. DOMAIN moved = 1..n
    BY <1>3
  <2> QED BY <1>1, <1>3, <2>1 DEF MoveReadyTo
<1>6. /\ added \in Seq(Items) /\ Len(added) = n
      /\ \A i \in 1..n : /\ added[i].question = moved[i].question
                        /\ added[i].attempt = moved[i].attempt
  <2>1. \A i \in 1..n : [question |-> moved[i].question, attempt |-> moved[i].attempt]
                          \in Items
    BY <1>5 DEF Items, Retries
  <2> QED BY <1>4, <2>1
<1> HIDE DEF added
<1>7. /\ deque \in Seq(Items)
      /\ Len(pending) \in Nat
      /\ Len(deque) = Len(pending) + n
      /\ \A i \in 1..Len(pending) : deque[i] = pending[i]
      /\ \A i \in (Len(pending) + 1)..Len(deque) :
           /\ i - Len(pending) \in 1..n
           /\ deque[i] = added[i - Len(pending)]
  BY <1>1, <1>4, <1>6
<1> HIDE DEF deque
<1>8. ASSUME NEW i \in 1..Len(deque)
      PROVE  \/ i \in 1..Len(pending)
             \/ i \in (Len(pending) + 1)..Len(deque)
  BY <1>4, <1>7
<1>9. \A i \in 1..Len(deque) : task[deque[i].question].stage = "none"
  <2> SUFFICES ASSUME NEW i \in 1..Len(deque)
               PROVE  task[deque[i].question].stage = "none"
    OBVIOUS
  <2>1. CASE i \in 1..Len(pending)
    BY <1>1, <1>7, <2>1 DEF Places
  <2>2. CASE i \in (Len(pending) + 1)..Len(deque)
    <3>1. /\ deque[i].question = moved[i - Len(pending)].question
          /\ moved[i - Len(pending)] \in delayed
      BY <1>5, <1>6, <1>7, <2>2
    <3> QED BY <1>1, <3>1 DEF Places
  <2> QED BY <1>8, <2>1, <2>2
<1>10. \A i, j \in 1..Len(deque) : deque[i].question = deque[j].question => i = j
  <2> SUFFICES ASSUME NEW i \in 1..Len(deque), NEW j \in 1..Len(deque),
                      deque[i].question = deque[j].question
               PROVE  i = j
    OBVIOUS
  <2>1. CASE i \in 1..Len(pending) /\ j \in 1..Len(pending)
    BY <1>1, <1>7, <2>1 DEF Places
  <2>2. \A k \in 1..Len(pending), l \in (Len(pending) + 1)..Len(deque) :
          deque[k].question # deque[l].question
    <3>1. \A k \in 1..Len(pending) : deque[k] = pending[k]
      BY <1>7
    <3>2. \A l \in (Len(pending) + 1)..Len(deque) :
            \E item \in delayed : deque[l].question = item.question
      <4> SUFFICES ASSUME NEW l \in (Len(pending) + 1)..Len(deque)
                   PROVE  \E item \in delayed : deque[l].question = item.question
        OBVIOUS
      <4>1. /\ l - Len(pending) \in 1..n
            /\ deque[l].question = moved[l - Len(pending)].question
        BY <1>6, <1>7
      <4> QED BY <1>5, <4>1
    <3>3. \A item \in delayed, k \in 1..Len(pending) : pending[k].question # item.question
      BY <1>1 DEF Places
    <3> SUFFICES ASSUME NEW k \in 1..Len(pending), NEW l \in (Len(pending) + 1)..Len(deque)
                 PROVE  deque[k].question # deque[l].question
      OBVIOUS
    <3>4. PICK item \in delayed : deque[l].question = item.question
      BY <3>2
    <3>5. deque[k] = pending[k] /\ pending[k].question # item.question
      BY <3>1, <3>3
    <3> QED BY <3>4, <3>5
  <2>3. CASE \/ i \in 1..Len(pending) /\ j \in (Len(pending) + 1)..Len(deque)
             \/ j \in 1..Len(pending) /\ i \in (Len(pending) + 1)..Len(deque)
    BY <2>2, <2>3
  <2>4. CASE i \in (Len(pending) + 1)..Len(deque) /\ j \in (Len(pending) + 1)..Len(deque)
    <3>1. moved[i - Len(pending)] = moved[j - Len(pending)]
      BY <1>1, <1>5, <1>6, <1>7, <2>4 DEF Places
    <3>2. i - Len(pending) = j - Len(pending)
      BY <1>5, <1>7, <2>4, <3>1
    <3> QED BY <1>7, <3>2
  <2> QED BY <1>8, <2>1, <2>3, <2>4
<1>11. \A item \in delayed', i \in 1..Len(deque) : deque[i].question # item.question
  <2> SUFFICES ASSUME NEW item \in delayed', NEW i \in 1..Len(deque),
                      deque[i].question = item.question
               PROVE  FALSE
    OBVIOUS
  <2>1. CASE i \in 1..Len(pending)
    <3>1. item \in delayed /\ deque[i] = pending[i]
      BY <1>5, <1>7, <2>1
    <3> QED BY <1>1, <2>1, <3>1 DEF Places
  <2>2. CASE i \in (Len(pending) + 1)..Len(deque)
    <3>1. moved[i - Len(pending)] = item
      BY <1>1, <1>5, <1>6, <1>7, <2>2 DEF Places
    <3> QED BY <1>5, <1>7, <2>2, <3>1
  <2> QED BY <1>8, <2>1, <2>2
<1>12. LaunchAvailable(deque)
  BY <1>3 DEF deque, added
<1>13. delayed' \subseteq delayed
  BY <1>5
<1>14. ASSUME NEW q \in Questions, NEW a \in Attempts
       PROVE  Waits(q, a) <=>
                \/ \E i \in 1..Len(deque) : deque[i].question = q /\ deque[i].attempt = a
                \/ \E item \in delayed' : item.question = q /\ item.attempt = a
  <2>1. ASSUME NEW i \in 1..Len(pending)
        PROVE  i \in 1..Len(deque) /\ deque[i] = pending[i]
    BY <1>4, <1>7
  <2>2. ASSUME NEW i \in 1..n
        PROVE  /\ Len(pending) + i \in 1..Len(deque)
               /\ deque[Len(pending) + i].question = moved[i].question
               /\ deque[Len(pending) + i].attempt = moved[i].attempt
    <3>1. /\ Len(pending) + i \in (Len(pending) + 1)..Len(deque)
          /\ Len(pending) + i \in 1..Len(deque)
          /\ (Len(pending) + i) - Len(pending) = i
      BY <1>4, <1>7
    <3> QED BY <1>6, <1>7, <3>1
  <2>3. ASSUME NEW i \in (Len(pending) + 1)..Len(deque)
        PROVE  \E item \in delayed : /\ deque[i].question = item.question
                                     /\ deque[i].attempt = item.attempt
    BY <1>5, <1>6, <1>7
  <2>4. Waits(q, a) =>
          \/ \E i \in 1..Len(deque) : deque[i].question = q /\ deque[i].attempt = a
          \/ \E item \in delayed' : item.question = q /\ item.attempt = a
    <3>1. ASSUME NEW i \in 1..Len(pending),
                 pending[i].question = q, pending[i].attempt = a
          PROVE  \E j \in 1..Len(deque) : deque[j].question = q /\ deque[j].attempt = a
      BY <2>1, <3>1
    <3>2. ASSUME NEW item \in delayed, item.question = q, item.attempt = a
          PROVE  \/ \E j \in 1..Len(deque) : deque[j].question = q /\ deque[j].attempt = a
                 \/ item \in delayed'
      <4>1. CASE \E i \in 1..n : moved[i] = item
        BY <2>2, <3>2, <4>1
      <4> QED BY <1>5, <4>1
    <3> QED BY <3>1, <3>2 DEF Waits
  <2>5. ASSUME NEW i \in 1..Len(deque), deque[i].question = q, deque[i].attempt = a
        PROVE  Waits(q, a)
    <3>1. CASE i \in 1..Len(pending)
      BY <2>1, <2>5, <3>1 DEF Waits
    <3>2. CASE i \in (Len(pending) + 1)..Len(deque)
      BY <2>3, <2>5, <3>2 DEF Waits
    <3> QED BY <1>8, <3>1, <3>2
  <2>6. ASSUME NEW item \in delayed', item.question = q, item.attempt = a
        PROVE  Waits(q, a)
    BY <1>13, <2>6 DEF Waits
  <2> QED BY <2>4, <2>5, <2>6
<1> QED
  BY <1>7, <1>9, <1>10, <1>11, <1>12, <1>13, <1>14

\* An iteration of the loop.
LEMMA IterateInv ==
    ASSUME SchedulerInv, Iterate
    PROVE  SchedulerInv'
<1>1. PICK deque \in Seq(Items) :
        /\ LaunchAvailable(deque)
        /\ delayed' \subseteq delayed
        /\ \A i \in 1..Len(deque) : task[deque[i].question].stage = "none"
        /\ \A i, j \in 1..Len(deque) : deque[i].question = deque[j].question => i = j
        /\ \A item \in delayed', i \in 1..Len(deque) : deque[i].question # item.question
  BY IterateDeque
<1>2. /\ handling = {}
      /\ loop' \in {"waiting", "sleeping", "running"}
      /\ UNCHANGED <<controller, handling, launch_queue, spaced, paused, launches,
                     http_in_flight, results, published>>
  BY DEF Iterate
<1> QED BY <1>1, <1>2, LaunchInv

\* What the handling of an outcome or of a publication needs: the question is in
\* no container, and the task it leaves is neither running nor done.
LEMMA OutcomeInv ==
    ASSUME SchedulerInv, NEW q \in Questions, NEW s \in {"none", "publishing"},
           task[q].stage \in {"done", "publishing"},
           Differs(task, task', q, s) \/
             (s = "none" /\ task' = [task EXCEPT ![q] = NoTask]),
           handling' = handling \ {q},
           UNCHANGED <<pending, active, launch_queue, spaced, launches, http_in_flight>>,
           delayed' = delayed \/
             (s = "none" /\ \E item \in Retries : item.question = q
                                                  /\ delayed' = delayed \cup {item}),
           Sound(controller'),
           loop' \in {"running", "publishing"}, paused' \in BOOLEAN,
           results' \in Seq(Results), published' \in [Questions -> Nat]
    PROVE  SchedulerInv'
<1>1. /\ Typed /\ Places /\ Activity /\ Queueing /\ Metering
      /\ task \in [Questions -> Tasks] /\ delayed \subseteq Retries
      /\ pending \in Seq(Items) /\ handling \subseteq Questions
  BY DEF SchedulerInv, Typed
<1>2. /\ task' \in [Questions -> Tasks] /\ task'[q].stage = s
      /\ \A r \in Questions : r # q => task'[r] = task[r]
      /\ s = "none" \/ task'[q].attempt = task[q].attempt
  <2>1. CASE Differs(task, task', q, s)
    BY <2>1 DEF Differs
  <2>2. CASE s = "none" /\ task' = [task EXCEPT ![q] = NoTask]
    <3>1. NoTask \in Tasks /\ NoTask.stage = "none"
      BY DEF NoTask, Tasks, Stages
    <3> QED BY <1>1, <2>2, <3>1
  <2> QED BY <2>1, <2>2
<1>3. /\ \A i \in 1..Len(pending) : pending[i].question \in Questions
      /\ \A i \in 1..Len(pending) : pending[i].question # q
  <2>1. \A i \in 1..Len(pending) : pending[i] \in Items
    BY <1>1
  <2> QED BY <1>1, <2>1 DEF Items, Places
<1>4. \A item \in delayed : item.question \in Questions /\ item.question # q
  BY <1>1 DEF Retries, Places
<1>5. delayed' \subseteq Retries
  BY <1>1
<1>6. /\ pending' = pending /\ active' = active /\ launch_queue' = launch_queue
      /\ spaced' = spaced /\ launches' = launches /\ http_in_flight' = http_in_flight
  OBVIOUS
<1>7. Typed'
  BY <1>1, <1>2, <1>5, <1>6 DEF Typed
<1>8. Places'
  <2>1. CASE delayed' = delayed
    BY <1>1, <1>2, <1>3, <1>4, <1>6, <2>1 DEF Places
  <2>2. CASE delayed' # delayed
    <3>1. PICK item \in Retries : item.question = q /\ delayed' = delayed \cup {item}
      BY <2>2
    <3>2. s = "none"
      BY <2>2
    <3> QED BY <1>1, <1>2, <1>3, <1>4, <1>6, <3>1, <3>2 DEF Places
  <2> QED BY <2>1, <2>2
<1>9. Activity'
  <2>1. /\ \A r \in Questions : task[r].stage \in Running => r \in active
        /\ \A r \in handling : task[r].stage = "done"
        /\ \A r \in Questions : task[r].stage # "none" => task[r].attempt \in Attempts
        /\ Cardinality(active) <= MaxTargetConcurrency
    BY <1>1 DEF Activity
  <2>2. s \notin Running
    BY DEF Running
  <2>3. \A r \in Questions : task'[r].stage \in Running => r \in active
    BY <1>2, <2>1, <2>2
  <2>4. \A r \in handling' : task'[r].stage = "done"
    BY <1>1, <1>2, <2>1
  <2>5. \A r \in Questions : task'[r].stage # "none" => task'[r].attempt \in Attempts
    BY <1>2, <2>1
  <2> QED BY <1>6, <2>1, <2>3, <2>4, <2>5 DEF Activity
<1>10. Queueing'
  <2>1. \A r \in Questions : task'[r].stage \in {"queued", "pacing"} => task[r] = task'[r]
    BY <1>2
  <2> QED BY <1>1, <1>6, <2>1 DEF Queueing
<1>11. Metering'
  <2>1. InFlight' = InFlight
    BY <1>2 DEF InFlight
  <2> QED BY <1>1, <1>2, <1>6, <2>1 DEF Metering
<1> QED BY <1>7, <1>8, <1>9, <1>10, <1>11 DEF SchedulerInv, CtlInv

-----------------------------------------------------------------------------
(* The steps of the main coroutine. *)

\* A task whose outcome is about to be handled is done.
LEMMA HandledIsDone ==
    ASSUME SchedulerInv, NEW q \in Questions, q \in handling
    PROVE  /\ task[q].stage = "done" /\ task[q].attempt \in Attempts
           /\ task[q].observed_in_flight \in 1..MaxTargetConcurrency
           /\ task[q].observed_launch_rpm \in Nat
<1>1. Activity /\ Metering /\ task[q] \in Tasks
  BY DEF SchedulerInv, Typed
<1>2. task[q].stage = "done"
  BY <1>1 DEF Activity
<1> QED BY <1>1, <1>2 DEF Activity, Metering, Tasks

\* The result of a question is recorded; its task waits for the publication.
LEMMA RecordKeeps ==
    ASSUME SchedulerInv, NEW q \in Questions, NEW how \in {"success", "failed"},
           task[q].attempt \in Attempts, Record(q, how)
    PROVE  /\ results' \in Seq(Results)
           /\ Differs(task, task', q, "publishing")
           /\ loop' = "publishing"
<1>1. task \in [Questions -> Tasks] /\ results \in Seq(Results)
  BY DEF SchedulerInv, Typed
<1> DEFINE result == [question |-> q, status |-> how, attempts |-> task[q].attempt]
<1>2. result \in Results
  BY DEF Results
<1>3. results' = Append(results, result)
  BY DEF Record
<1> HIDE DEF result
<1>4. results' \in Seq(Results)
  BY <1>1, <1>2, <1>3
<1>5. task' = Staged(task, q, "publishing")
  BY DEF Record, Staged
<1>6. Differs(task, task', q, "publishing")
  BY <1>1, <1>5, StageChanges DEF Stages
<1> QED BY <1>4, <1>6 DEF Record

\* A success.
LEMMA HandleSuccessInv ==
    ASSUME SchedulerInv, NEW q \in Questions, HandleSuccess(q)
    PROVE  SchedulerInv'
<1>1. /\ q \in handling /\ Record(q, "success")
      /\ controller' = OnSuccess(controller)
      /\ handling' = handling \ {q}
      /\ UNCHANGED <<pending, delayed, active, launch_queue, spaced, paused,
                     launches, http_in_flight, published>>
  BY DEF HandleSuccess
<1>2. task[q].stage = "done" /\ task[q].attempt \in Attempts
  BY <1>1, HandledIsDone
<1>3. /\ results' \in Seq(Results)
      /\ Differs(task, task', q, "publishing")
      /\ loop' = "publishing"
  BY <1>1, <1>2, RecordKeeps
<1>4. Sound(controller')
  BY <1>1, SuccessSound DEF SchedulerInv, CtlInv
<1>5. paused' \in BOOLEAN /\ published' \in [Questions -> Nat]
  BY <1>1 DEF SchedulerInv, Typed
<1> QED BY <1>1, <1>2, <1>3, <1>4, <1>5, OutcomeInv

\* A failure: a retry is scheduled, or the question fails for good.
LEMMA HandleFailureInv ==
    ASSUME SchedulerInv, NEW q \in Questions, HandleFailure(q)
    PROVE  SchedulerInv'
<1>1. /\ q \in handling /\ React(task[q])
      /\ handling' = handling \ {q}
      /\ UNCHANGED <<pending, active, launch_queue, spaced, launches,
                     http_in_flight, published>>
      /\ loop = "running"
  BY DEF HandleFailure
<1>2. /\ task[q].stage = "done" /\ task[q].attempt \in Attempts
      /\ task[q].observed_in_flight \in 1..MaxTargetConcurrency
      /\ task[q].observed_launch_rpm \in Nat
  BY <1>1, HandledIsDone
<1>3. /\ Sound(controller) /\ paused \in BOOLEAN
      /\ published' \in [Questions -> Nat] /\ results \in Seq(Results)
  BY <1>1 DEF SchedulerInv, CtlInv, Typed
<1>4. Sound(controller') /\ paused' \in BOOLEAN
  <2>1. CASE task[q].outcome \in Reasons
    <3>1. /\ controller' = OnRateLimited(controller, task[q].outcome,
                  task[q].observed_in_flight, task[q].observed_launch_rpm)
          /\ paused' = (paused \/ Kind(controller, task[q].outcome,
                  task[q].observed_in_flight, task[q].observed_launch_rpm) # "concurrency")
      BY <1>1, <2>1 DEF React
    <3>2. Sound(controller')
      BY <1>2, <1>3, <2>1, <3>1, RateLimitedSound
    <3> QED BY <3>1, <3>2
  <2>2. CASE task[q].outcome \notin Reasons
    BY <1>1, <1>3, <2>2 DEF React
  <2> QED BY <2>1, <2>2
<1>5. CASE /\ RetriesLeft(task[q])
           /\ delayed' = delayed \cup {[question |-> q, due |-> FALSE,
                                        attempt |-> task[q].attempt + 1]}
           /\ task' = [task EXCEPT ![q] = NoTask]
           /\ UNCHANGED <<loop, results>>
  <2> DEFINE item == [question |-> q, due |-> FALSE, attempt |-> task[q].attempt + 1]
  <2>1. item \in Retries /\ item.question = q
    BY <1>2, <1>5, RunConfig DEF Retries, Attempts, RetriesLeft
  <2>2. delayed' = delayed \cup {item}
    BY <1>5
  <2> HIDE DEF item
  <2>3. \E x \in Retries : x.question = q /\ delayed' = delayed \cup {x}
    BY <2>1, <2>2
  <2>4. loop' = "running" /\ results' \in Seq(Results)
    BY <1>1, <1>3, <1>5
  <2> QED BY <1>1, <1>2, <1>3, <1>4, <1>5, <2>3, <2>4, OutcomeInv
<1>6. CASE Record(q, "failed") /\ UNCHANGED delayed
  <2>1. /\ results' \in Seq(Results)
        /\ Differs(task, task', q, "publishing")
        /\ loop' = "publishing"
    BY <1>2, <1>6, RecordKeeps
  <2> QED BY <1>1, <1>2, <1>3, <1>4, <1>6, <2>1, OutcomeInv
<1> QED BY <1>5, <1>6 DEF HandleFailure

\* The publication of a result.
LEMMA PublishInv ==
    ASSUME SchedulerInv, NEW q \in Questions, Publish(q)
    PROVE  SchedulerInv'
<1>1. /\ task[q].stage = "publishing" /\ loop' = "running"
      /\ task' = [task EXCEPT ![q] = NoTask]
      /\ published' = [published EXCEPT ![q] = @ + 1]
      /\ UNCHANGED <<controller, pending, delayed, active, handling, launch_queue,
                     spaced, paused, launches, http_in_flight, results>>
  BY DEF Publish
<1>2. q \notin handling
  BY <1>1 DEF SchedulerInv, Activity
<1>3. handling' = handling \ {q}
  BY <1>1, <1>2
<1>4. /\ Sound(controller') /\ paused' \in BOOLEAN /\ results' \in Seq(Results)
      /\ published' \in [Questions -> Nat]
  BY <1>1 DEF SchedulerInv, CtlInv, Typed
<1> QED BY <1>1, <1>3, <1>4, OutcomeInv

\* asyncio.wait returns the tasks that are done, which leave the active set.
LEMMA WaitReturnsInv ==
    ASSUME SchedulerInv, WaitReturns
    PROVE  SchedulerInv'
<1>1. /\ handling' = {q \in active : task[q].stage = "done"}
      /\ active' = active \ handling' /\ loop' = "running"
      /\ UNCHANGED <<controller, pending, delayed, task, launch_queue, spaced,
                     paused, launches, http_in_flight, results, published>>
  BY DEF WaitReturns
<1>2. Typed /\ Places /\ Activity /\ Queueing /\ Metering /\ CtlInv
  BY DEF SchedulerInv
<1>3. Typed'
  BY <1>1, <1>2 DEF Typed
<1>4. Activity'
  <2>1. IsFiniteSet(active) /\ Cardinality(active) \in Nat
    BY <1>2, RunConfig, FS_Subset, FS_CardinalityType DEF Typed
  <2>2. IsFiniteSet(active') /\ Cardinality(active') \in Nat
        /\ Cardinality(active') <= Cardinality(active)
    <3>1. active' \in SUBSET active
      BY <1>1
    <3> QED BY <2>1, <3>1, FS_Subset, FS_CardinalityType
  <2>3. Cardinality(active') <= MaxTargetConcurrency
    BY <1>2, <2>1, <2>2, ConcurrencyConfig DEF Activity
  <2> QED BY <1>1, <1>2, <2>3 DEF Activity, Running
<1>5. Places' /\ Queueing' /\ CtlInv'
  BY <1>1, <1>2 DEF Places, Queueing, CtlInv
<1>6. Metering'
  BY <1>1, <1>2 DEF Metering, InFlight
<1> QED BY <1>3, <1>4, <1>5, <1>6 DEF SchedulerInv

\* The steps that change nothing but the place of run_questions, the events of
\* the stream and what time alone changes.
LEMMA QuietInv ==
    ASSUME SchedulerInv,
           UNCHANGED <<controller, pending, delayed, active, handling, task,
                       launch_queue, http_in_flight, results>>,
           loop' \in {"running", "waiting", "sleeping", "publishing", "finished", "crashed"},
           spaced' \in BOOLEAN, paused' \in BOOLEAN, launches' \in Nat,
           published' \in [Questions -> Nat]
    PROVE  SchedulerInv'
<1>1. Typed /\ Places /\ Activity /\ Queueing /\ Metering /\ CtlInv
  BY DEF SchedulerInv
<1>2. Typed'
  BY <1>1 DEF Typed
<1>3. Places' /\ Activity'
  BY <1>1 DEF Places, Activity
<1>4. Queueing' /\ CtlInv'
  BY <1>1 DEF Queueing, CtlInv
<1>5. Metering'
  BY <1>1 DEF Metering, InFlight
<1> QED BY <1>2, <1>3, <1>4, <1>5 DEF SchedulerInv

\* Every step of the main coroutine.
LEMMA MainInv ==
    ASSUME SchedulerInv, MainStep
    PROVE  SchedulerInv'
<1>1. /\ spaced \in BOOLEAN /\ paused \in BOOLEAN /\ launches \in Nat
      /\ published \in [Questions -> Nat]
  BY DEF SchedulerInv, Typed
<1>2. CASE Iterate
  BY <1>2, IterateInv
<1>3. CASE WaitReturns
  BY <1>3, WaitReturnsInv
<1>4. CASE SleepEnds
  BY <1>1, <1>4, QuietInv DEF SleepEnds
<1>5. ASSUME NEW q \in Questions, HandleSuccess(q)
      PROVE  SchedulerInv'
  BY <1>5, HandleSuccessInv
<1>6. ASSUME NEW q \in Questions, HandleFailure(q)
      PROVE  SchedulerInv'
  BY <1>6, HandleFailureInv
<1>7. ASSUME NEW q \in Questions, HandleException(q)
      PROVE  SchedulerInv'
  BY <1>1, <1>7, QuietInv DEF HandleException
<1>8. ASSUME NEW q \in Questions, Publish(q)
      PROVE  SchedulerInv'
  BY <1>8, PublishInv
<1>9. ASSUME NEW q \in Questions, PublishFails(q)
      PROVE  SchedulerInv'
  <2>1. [published EXCEPT ![q] = @ + 1] \in [Questions -> Nat]
    BY <1>1
  <2>2. published' \in [Questions -> Nat]
    BY <1>1, <1>9, <2>1 DEF PublishFails
  <2> QED BY <1>1, <1>9, <2>2, QuietInv DEF PublishFails
<1>10. CASE FinishRun
  BY <1>1, <1>10, QuietInv DEF FinishRun
<1> QED
  BY <1>2, <1>3, <1>4, <1>5, <1>6, <1>7, <1>8, <1>9, <1>10 DEF MainStep

-----------------------------------------------------------------------------
(* The steps of the clock. *)

\* A retry becomes due: it stays the only entry of its question.
LEMMA DelayElapsesInv ==
    ASSUME SchedulerInv, NEW item \in delayed, DelayElapses(item)
    PROVE  SchedulerInv'
<1> DEFINE ripe == [item EXCEPT !.due = TRUE]
<1>1. /\ delayed' = (delayed \ {item}) \cup {ripe}
      /\ UNCHANGED <<spaced, paused, launches>>
      /\ UNCHANGED <<controller, loop, pending, active, handling, task, launch_queue,
                     http_in_flight, results, published>>
  BY DEF DelayElapses, ClockUnchanged
<1>2. Typed /\ Places /\ Activity /\ Queueing /\ Metering /\ CtlInv
  BY DEF SchedulerInv
<1>3. item \in Retries
  BY <1>2 DEF Typed
<1>4. ripe \in Retries /\ ripe.question = item.question
  BY <1>3 DEF Retries
<1> HIDE DEF ripe
<1>5. Typed'
  BY <1>1, <1>2, <1>4 DEF Typed
<1>6. Places'
  <2>1. /\ \A x \in delayed' : task[x.question].stage = "none"
        /\ \A x \in delayed', i \in 1..Len(pending) : pending[i].question # x.question
    BY <1>1, <1>2, <1>4 DEF Places
  <2>2. \A x, y \in delayed' : x.question = y.question => x = y
    BY <1>1, <1>2, <1>4 DEF Places
  <2> QED BY <1>1, <1>2, <2>1, <2>2 DEF Places
<1>7. Activity' /\ Queueing' /\ CtlInv'
  BY <1>1, <1>2 DEF Activity, Queueing, CtlInv
<1>8. Metering'
  BY <1>1, <1>2 DEF Metering, InFlight
<1> QED BY <1>5, <1>6, <1>7, <1>8 DEF SchedulerInv

\* The passing of time.
LEMMA ClockInv ==
    ASSUME SchedulerInv, Clock
    PROVE  SchedulerInv'
<1>1. /\ spaced \in BOOLEAN /\ paused \in BOOLEAN /\ launches \in Nat
      /\ published \in [Questions -> Nat]
      /\ loop \in {"running", "waiting", "sleeping", "publishing", "finished", "crashed"}
  BY DEF SchedulerInv, Typed
<1>2. CASE PauseElapses
  BY <1>1, <1>2, QuietInv DEF PauseElapses, ClockUnchanged
<1>3. CASE IntervalElapses
  BY <1>1, <1>3, QuietInv DEF IntervalElapses, ClockUnchanged
<1>4. ASSUME NEW item \in delayed, DelayElapses(item)
      PROVE  SchedulerInv'
  BY <1>4, DelayElapsesInv
<1>5. CASE LaunchAges
  <2>1. launches' \in Nat
    BY <1>1, <1>5 DEF LaunchAges
  <2> QED BY <1>1, <1>5, <2>1, QuietInv DEF LaunchAges, ClockUnchanged
<1> QED BY <1>2, <1>3, <1>4, <1>5 DEF Clock

-----------------------------------------------------------------------------
(* The initial states. *)

\* The deque of run_questions holds each question once.
LEMMA FirstDequeDistinct ==
    ASSUME Init
    PROVE  /\ pending \in Seq(Items)
           /\ \A i, j \in 1..Len(pending) :
                pending[i].question = pending[j].question => i = j
<1> DEFINE N == Cardinality(Questions)
           f == [i \in 1..N |-> pending[i].question]
<1>1. /\ pending \in [1..N -> [question : Questions, attempt : {1}]]
      /\ \A q \in Questions : \E i \in DOMAIN pending : pending[i].question = q
  BY DEF Init
<1>2. N \in Nat
  BY RunConfig, FS_CardinalityType
<1>3. IsFiniteSet(1..N) /\ Cardinality(1..N) = N
  BY <1>2, FS_Interval
<1>4. \A i \in 1..N : pending[i] \in Items /\ pending[i].question \in Questions
  BY <1>1, RunConfig DEF Items, Attempts
<1>5. pending \in Seq(Items) /\ Len(pending) = N
  <2>1. pending = [i \in 1..N |-> pending[i]]
    BY <1>1
  <2> QED BY <1>2, <1>4, <2>1
<1>6. f \in Surjection(1..N, Questions)
  <2>1. f \in [1..N -> Questions]
    BY <1>4
  <2>2. \A q \in Questions : \E i \in 1..N : f[i] = q
    BY <1>1
  <2> QED BY <2>1, <2>2 DEF Surjection
<1>7. f \in Injection(1..N, Questions)
  BY <1>3, <1>6, FS_SurjSameCardinalityImpliesInj
<1>8. \A i, j \in 1..N : f[i] = f[j] => i = j
  BY <1>7 DEF Injection, IsInjective
<1>9. \A i, j \in 1..N : pending[i].question = pending[j].question => i = j
  BY <1>8
<1> QED BY <1>5, <1>9

\* The inductive invariant holds initially.
LEMMA InitInv ==
    ASSUME Init
    PROVE  SchedulerInv
<1>1. /\ controller = Fresh /\ loop = "running" /\ delayed = {} /\ active = {}
      /\ handling = {} /\ task = [q \in Questions |-> NoTask] /\ launch_queue = <<>>
      /\ spaced = TRUE /\ paused = FALSE /\ launches = 0 /\ http_in_flight = 0
      /\ results = <<>> /\ published = [q \in Questions |-> 0]
  BY DEF Init, CtlInit
<1>2. NoTask \in Tasks /\ NoTask.stage = "none"
  BY DEF NoTask, Tasks, Stages
<1>3. /\ task \in [Questions -> Tasks]
      /\ \A q \in Questions : task[q].stage = "none"
  BY <1>1, <1>2
<1>4. /\ pending \in Seq(Items)
      /\ \A i, j \in 1..Len(pending) :
           pending[i].question = pending[j].question => i = j
  BY FirstDequeDistinct
<1>5. Typed
  <2>1. launch_queue \in Seq(Questions) /\ results \in Seq(Results)
    BY <1>1
  <2> QED BY <1>1, <1>3, <1>4, <2>1 DEF Typed
<1>6. Places
  <2>1. \A i \in 1..Len(pending) : pending[i].question \in Questions
    <3>1. \A i \in 1..Len(pending) : pending[i] \in Items
      BY <1>4
    <3> QED BY <3>1 DEF Items
  <2> QED BY <1>1, <1>3, <1>4, <2>1 DEF Places
<1>7. Activity
  <2>1. Cardinality(active) = 0
    BY <1>1, FS_EmptySet
  <2> QED BY <1>1, <1>3, <2>1, ConcurrencyConfig DEF Activity, Running
<1>8. Queueing
  BY <1>3 DEF Queueing
<1>9. Metering
  <2>1. InFlight = {}
    BY <1>3 DEF InFlight
  <2>2. Cardinality(InFlight) = 0
    BY <2>1, FS_EmptySet
  <2> QED BY <1>1, <1>3, <2>2 DEF Metering
<1>10. CtlInv
  BY <1>1, FreshSound DEF CtlInv
<1> QED BY <1>5, <1>6, <1>7, <1>8, <1>9, <1>10 DEF SchedulerInv

-----------------------------------------------------------------------------
(* The theorems. *)

\* Every step preserves the inductive invariant.
LEMMA SchedulerKept == SchedulerInv /\ [Next]_vars => SchedulerInv'
<1> SUFFICES ASSUME SchedulerInv, [Next]_vars
             PROVE  SchedulerInv'
  OBVIOUS
<1>1. CASE MainStep
  BY <1>1, MainInv
<1>2. ASSUME NEW q \in Questions, TaskStep(q)
      PROVE  SchedulerInv'
  BY <1>2, TaskInv
<1>3. CASE Clock
  BY <1>3, ClockInv
<1>4. CASE UNCHANGED vars
  <2>1. /\ spaced \in BOOLEAN /\ paused \in BOOLEAN /\ launches \in Nat
        /\ published \in [Questions -> Nat]
        /\ loop \in {"running", "waiting", "sleeping", "publishing",
                     "finished", "crashed"}
    BY DEF SchedulerInv, Typed
  <2> QED BY <1>4, <2>1, QuietInv DEF vars
<1>5. CASE Stopped
  BY <1>4, <1>5 DEF Stopped
<1> QED BY <1>1, <1>2, <1>3, <1>4, <1>5 DEF Next

\* The inductive invariant holds in every state of every run of the scheduler.
THEOREM SchedulerInvariant == Spec => []SchedulerInv
  BY InitInv, SchedulerKept, PTL DEF Spec

\* Every variable of the run keeps its type.
THEOREM SchedulerTypeCorrect == Spec => []TypeOK
<1>1. SchedulerInv => TypeOK
  BY DEF SchedulerInv, CtlInv, Sound, Typed, TypeOK, CtlTypeOK, Tasks, Retries, Results
<1> QED BY <1>1, SchedulerInvariant, PTL

\* The metric reported with every dispatch is the number of requests in flight,
\* in every interleaving of dispatches, replies and retries.
THEOREM InFlightMetricIsExact == Spec => []InFlightMetricExact
<1>1. SchedulerInv => InFlightMetricExact
  BY DEF SchedulerInv, Metering, InFlightMetricExact
<1> QED BY <1>1, SchedulerInvariant, PTL

\* The service never sees more requests at once than max_target_concurrency.
THEOREM InFlightStaysBounded == Spec => []InFlightBounded
<1>1. SchedulerInv => InFlightBounded
  BY FlightBounded DEF SchedulerInv, InFlightBounded
<1> QED BY <1>1, SchedulerInvariant, PTL

\* The bounds of the target hold for the controller as this scheduler drives it,
\* with the observations its tasks really report.
THEOREM SchedulerTargetWithinBounds == Spec => []TargetWithinBounds
<1>1. SchedulerInv => TargetWithinBounds
  BY DEF SchedulerInv, CtlInv, Sound, TargetWithinBounds
<1> QED BY <1>1, SchedulerInvariant, PTL

-----------------------------------------------------------------------------
(* The questions of a run: none is lost, and the ledger is kept. *)

Recorded(q) == \E i \in 1..Len(results) : results[i].question = q

\* A question without a task waits or has its result, never both, and has one
\* result.
Located ==
    /\ \A q \in Questions : task[q].stage = "none" =>
          (\E a \in Attempts : Waits(q, a)) \/ Recorded(q)
    /\ \A q \in Questions : Recorded(q) =>
          /\ task[q].stage \in {"none", "publishing"}
          /\ \A a \in Attempts : ~Waits(q, a)
    /\ \A i, j \in 1..Len(results) : results[i].question = results[j].question => i = j

\* One result at a time is being published; the others were, once.
Announcing ==
    /\ \A q \in Questions : task[q].stage = "publishing" =>
          /\ Recorded(q)
          /\ loop \in {"publishing", "crashed"}
          /\ loop = "publishing" => published[q] = 0
    /\ \A p, q \in Questions :
          task[p].stage = "publishing" /\ task[q].stage = "publishing" => p = q
    /\ \A q \in Questions :
          /\ published[q] \in {0, 1}
          /\ ~Recorded(q) => published[q] = 0
          /\ Recorded(q) /\ task[q].stage = "none" => published[q] = 1

\* A task that is done is not forgotten, and the loop waits only when the outcomes
\* of its last batch are handled.
Collecting ==
    /\ \A q \in Questions : task[q].stage = "done" => q \in active \cup handling
    /\ loop \in {"waiting", "sleeping"} => handling = {}

LedgerInv ==
    /\ SchedulerInv
    /\ Located
    /\ Announcing
    /\ Collecting

-----------------------------------------------------------------------------
(* What the steps do to the places of the questions. *)

\* A step of a task moves that task on, from before to after its request, and
\* changes nothing of the deque, the retries and the results.
LEMMA TaskMoves ==
    ASSUME SchedulerInv, NEW q \in Questions, TaskStep(q)
    PROVE  /\ TaskUnchanged
           /\ \E s \in Running \cup {"done"} :
                /\ Differs(task, task', q, s)
                /\ task[q].stage \in Running
                /\ task[q].stage = "in_flight" <=> s = "done"
<1>1. /\ task \in [Questions -> Tasks] /\ launches + 1 \in Nat /\ http_in_flight + 1 \in Nat
      /\ Queueing /\ launch_queue \in Seq(Questions)
  BY DEF SchedulerInv, Typed
<1>2. ASSUME NEW s \in {"pausing", "queued", "pacing"}, task' = [task EXCEPT ![q].stage = s]
      PROVE  Differs(task, task', q, s)
  <2>1. task' = Staged(task, q, s) /\ s \in Stages
    BY <1>2 DEF Staged, Stages
  <2> QED BY <1>1, <2>1, StageChanges
<1>3. ASSUME Dispatch(q)
      PROVE  Differs(task, task', q, "in_flight")
  <2>1. task' = Launched(task, q, launches + 1, http_in_flight + 1)
    BY <1>3 DEF Dispatch, Launched
  <2> QED BY <1>1, <2>1, DispatchChanges
<1>4. ASSUME NEW queue, EnterSlot(q, queue)
      PROVE  Differs(task, task', q, "pacing") \/ Differs(task, task', q, "in_flight")
  BY <1>2, <1>3, <1>4 DEF EnterSlot
<1>5. CASE StartPaused(q)
  BY <1>2, <1>5 DEF StartPaused, Running
<1>6. CASE TakeSlot(q)
  <2>1. \E s \in {"queued", "pacing", "in_flight"} : Differs(task, task', q, s)
    BY <1>2, <1>4, <1>6 DEF TakeSlot
  <2> QED BY <1>6, <2>1 DEF TakeSlot, Running
<1>7. CASE SlotGranted(q)
  BY <1>4, <1>7 DEF SlotGranted, Running
<1>8. CASE PacingEnds(q)
  BY <1>3, <1>8 DEF PacingEnds, Running
<1>9. CASE \E outcome \in Outcomes : Reply(q, outcome)
  <2>1. PICK outcome \in Outcomes : Reply(q, outcome)
    BY <1>9
  <2>2. task' = Answered(task, q, outcome)
    BY <2>1 DEF Reply, Answered
  <2>3. Differs(task, task', q, "done")
    BY <1>1, <2>2, ReplyChanges
  <2> QED BY <2>1, <2>3 DEF Reply, Running
<1> QED BY <1>5, <1>6, <1>7, <1>8, <1>9 DEF TaskStep

\* An iteration gives a task to some of the questions that wait, and leaves the
\* others where they are.
LEMMA IterateMoves ==
    ASSUME SchedulerInv, Iterate
    PROVE  /\ \A q \in Questions, a \in Attempts : Waits(q, a) =>
                \/ Waits(q, a)' /\ task'[q] = task[q]
                \/ task'[q].stage = "created" /\ task'[q].attempt = a
           /\ \A q \in Questions, a \in Attempts : Waits(q, a)' =>
                Waits(q, a) /\ task'[q] = task[q]
           /\ \A q \in Questions : (\A a \in Attempts : ~Waits(q, a)) => task'[q] = task[q]
           /\ \A q \in Questions : task'[q] = task[q] \/ task'[q].stage = "created"
           /\ active \subseteq active'
           /\ active' = active \/ Cardinality(active') <= controller.target
<1>1. PICK deque \in Seq(Items) :
        /\ LaunchAvailable(deque)
        /\ delayed' \subseteq delayed
        /\ \A i, j \in 1..Len(deque) : deque[i].question = deque[j].question => i = j
        /\ \A item \in delayed', i \in 1..Len(deque) : deque[i].question # item.question
        /\ \A q \in Questions, a \in Attempts :
             Waits(q, a) <=>
               \/ \E i \in 1..Len(deque) : deque[i].question = q /\ deque[i].attempt = a
               \/ \E item \in delayed' : item.question = q /\ item.attempt = a
  BY IterateDeque
<1>2. PICK k \in 0..Len(deque) :
        /\ k # 0 => k <= controller.target - Cardinality(active)
        /\ pending' \in Seq(Items)
        /\ Len(pending') = Len(deque) - k
        /\ \A j \in 1..Len(pending') : pending'[j] = deque[k + j]
        /\ active' = active \cup {deque[i].question : i \in 1..k}
        /\ task' \in [Questions -> Tasks]
        /\ \A i \in 1..k : /\ task'[deque[i].question].stage = "created"
                          /\ task'[deque[i].question].attempt = deque[i].attempt
        /\ \A q \in Questions :
             (\A i \in 1..k : deque[i].question # q) => task'[q] = task[q]
  BY <1>1, LaunchMoves
<1>3. /\ Len(deque) \in Nat /\ k \in Nat /\ k <= Len(deque)
      /\ \A i \in 1..k : i \in 1..Len(deque)
      /\ \A i \in 1..Len(deque) : deque[i] \in Items
  BY <1>2
<1>4. \A i \in 1..Len(deque) : deque[i].question \in Questions /\ deque[i].attempt \in Attempts
  BY <1>3 DEF Items
<1>5. ASSUME NEW i \in 1..Len(deque)
      PROVE  i \in 1..k \/ (i - k \in 1..Len(pending') /\ pending'[i - k] = deque[i])
  <2>1. CASE i <= k
    BY <1>3, <2>1
  <2>2. CASE i > k
    <3>1. i - k \in 1..Len(pending') /\ k + (i - k) = i
      BY <1>2, <1>3, <2>2
    <3> QED BY <1>2, <3>1
  <2> QED BY <1>3, <2>1, <2>2
<1>6. ASSUME NEW j \in 1..Len(pending')
      PROVE  /\ k + j \in 1..Len(deque) /\ pending'[j] = deque[k + j]
             /\ \A i \in 1..k : deque[i].question # deque[k + j].question
  <2>1. k + j \in 1..Len(deque) /\ k + j \notin 1..k
    BY <1>2, <1>3
  <2> QED BY <1>1, <1>2, <1>3, <2>1
<1>7. ASSUME NEW q \in Questions, NEW a \in Attempts, Waits(q, a)
      PROVE  \/ Waits(q, a)' /\ task'[q] = task[q]
             \/ task'[q].stage = "created" /\ task'[q].attempt = a
  <2>1. CASE \E i \in 1..Len(deque) : deque[i].question = q /\ deque[i].attempt = a
    <3>1. PICK i \in 1..Len(deque) : deque[i].question = q /\ deque[i].attempt = a
      BY <2>1
    <3>2. CASE i \in 1..k
      BY <1>2, <3>1, <3>2
    <3>3. CASE i - k \in 1..Len(pending') /\ pending'[i - k] = deque[i] /\ i \notin 1..k
      <4>1. \A l \in 1..k : deque[l].question # q
        BY <1>1, <1>3, <3>1, <3>3
      <4>2. Waits(q, a)'
        BY <3>1, <3>3 DEF Waits
      <4> QED BY <1>2, <4>1, <4>2
    <3> QED BY <1>5, <3>2, <3>3
  <2>2. CASE \E item \in delayed' : item.question = q /\ item.attempt = a
    <3>1. \A l \in 1..k : deque[l].question # q
      BY <1>1, <1>3, <2>2
    <3>2. Waits(q, a)'
      BY <2>2 DEF Waits
    <3> QED BY <1>2, <3>1, <3>2
  <2> QED BY <1>1, <1>7, <2>1, <2>2
<1>8. ASSUME NEW q \in Questions, NEW a \in Attempts, Waits(q, a)'
      PROVE  Waits(q, a) /\ task'[q] = task[q]
  <2>1. CASE \E j \in 1..Len(pending') : pending'[j].question = q /\ pending'[j].attempt = a
    <3>1. PICK j \in 1..Len(pending') : pending'[j].question = q /\ pending'[j].attempt = a
      BY <2>1
    <3>2. /\ k + j \in 1..Len(deque) /\ deque[k + j].question = q /\ deque[k + j].attempt = a
          /\ \A i \in 1..k : deque[i].question # q
      BY <1>6, <3>1
    <3>3. Waits(q, a)
      BY <1>1, <3>2
    <3> QED BY <1>2, <3>2, <3>3
  <2>2. CASE \E item \in delayed' : item.question = q /\ item.attempt = a
    <3>1. Waits(q, a)
      BY <1>1, <2>2
    <3>2. \A i \in 1..k : deque[i].question # q
      BY <1>1, <1>3, <2>2
    <3> QED BY <1>2, <3>1, <3>2
  <2> QED BY <1>8, <2>1, <2>2 DEF Waits
<1>9. ASSUME NEW q \in Questions, \A a \in Attempts : ~Waits(q, a)
      PROVE  task'[q] = task[q]
  <2>1. ASSUME NEW i \in 1..k, deque[i].question = q
        PROVE  FALSE
    BY <1>1, <1>3, <1>4, <1>9, <2>1
  <2> QED BY <1>2, <2>1
<1>10. ASSUME NEW q \in Questions
       PROVE  task'[q] = task[q] \/ task'[q].stage = "created"
  BY <1>2
<1>11. active' = active \/ Cardinality(active') <= controller.target
  <2>1. /\ k # 0 => k <= controller.target - Cardinality(active)
        /\ active' = active \cup {deque[i].question : i \in 1..k}
        /\ k \in Nat
    BY <1>2, <1>3
  <2> QED BY <2>1, LaunchBounded
<1>12. active \subseteq active'
  BY <1>2
<1> QED BY <1>7, <1>8, <1>9, <1>10, <1>11, <1>12

-----------------------------------------------------------------------------
(* The steps preserve the invariant. *)

\* What Waits and Recorded depend on.
LEMMA SamePlaces ==
    ASSUME UNCHANGED <<pending, delayed, results>>
    PROVE  /\ \A q, a : Waits(q, a)' <=> Waits(q, a)
           /\ \A q : Recorded(q)' <=> Recorded(q)
  BY DEF Waits, Recorded

\* No step but those of the tasks and of a result moves a question for good.
LEMMA StillLocated ==
    ASSUME Located, UNCHANGED <<task, results>>,
           \A q \in Questions, a \in Attempts : Waits(q, a)' <=> Waits(q, a)
    PROVE  Located'
<1>1. \A q : Recorded(q)' <=> Recorded(q)
  BY DEF Recorded
<1> QED BY <1>1 DEF Located

\* While no result is being published, the loop is free to go on.
LEMMA StillAnnounced ==
    ASSUME Announcing, UNCHANGED <<task, results, published>>,
           loop' = loop \/ loop \notin {"publishing", "crashed"}
    PROVE  Announcing'
<1>1. \A q : Recorded(q)' <=> Recorded(q)
  BY DEF Recorded
<1> QED BY <1>1 DEF Announcing

\* The step of a task.
LEMMA TaskKeepsPlaces ==
    ASSUME LedgerInv, NEW q \in Questions, TaskStep(q)
    PROVE  Located' /\ Announcing' /\ Collecting'
<1>1. /\ Located /\ Announcing /\ Collecting /\ Activity
      /\ SchedulerInv
  BY DEF LedgerInv, SchedulerInv
<1>2. PICK s \in Running \cup {"done"} :
        /\ Differs(task, task', q, s)
        /\ task[q].stage \in Running
  BY <1>1, TaskMoves
<1>3. TaskUnchanged
  BY <1>1, TaskMoves
<1>4. /\ \A p, a : Waits(p, a)' <=> Waits(p, a)
      /\ \A p : Recorded(p)' <=> Recorded(p)
  BY <1>3, SamePlaces DEF TaskUnchanged
<1>5. /\ \A p \in Questions : p # q => task'[p] = task[p]
      /\ task'[q].stage \notin {"none", "publishing"}
      /\ task[q].stage \notin {"none", "publishing"}
      /\ q \in active
  BY <1>1, <1>2 DEF Differs, Running, Activity
<1>6. results' = results /\ loop' = loop /\ published' = published
      /\ active' = active /\ handling' = handling
  BY <1>3 DEF TaskUnchanged
<1>7. Located'
  <2>1. \A p \in Questions : Recorded(p) => p # q
    BY <1>1, <1>5 DEF Located
  <2> QED BY <1>1, <1>4, <1>5, <1>6, <2>1 DEF Located
<1>8. Announcing'
  BY <1>1, <1>4, <1>5, <1>6 DEF Announcing
<1>9. Collecting'
  BY <1>1, <1>5, <1>6 DEF Collecting
<1> QED BY <1>7, <1>8, <1>9

\* An iteration of the loop.
LEMMA IterateKeepsPlaces ==
    ASSUME LedgerInv, Iterate
    PROVE  Located' /\ Announcing' /\ Collecting'
<1>1. /\ Located /\ Announcing /\ Collecting
      /\ SchedulerInv
  BY DEF LedgerInv
<1>2. /\ \A q \in Questions, a \in Attempts : Waits(q, a) =>
           Waits(q, a)' \/ task'[q].stage = "created"
      /\ \A q \in Questions, a \in Attempts : Waits(q, a)' => Waits(q, a)
      /\ \A q \in Questions : (\A a \in Attempts : ~Waits(q, a)) => task'[q] = task[q]
      /\ \A q \in Questions : task'[q] = task[q] \/ task'[q].stage = "created"
      /\ active \subseteq active'
  BY <1>1, IterateMoves
<1>3. /\ loop = "running" /\ loop' \in {"waiting", "sleeping", "running"}
      /\ handling = {} /\ handling' = handling /\ results' = results
      /\ published' = published
  BY DEF Iterate
<1>4. \A p : Recorded(p)' <=> Recorded(p)
  BY <1>3 DEF Recorded
<1>5. \A q \in Questions : Recorded(q) => task'[q] = task[q]
  BY <1>1, <1>2 DEF Located
<1>6. Located'
  <2>1. ASSUME NEW q \in Questions, task'[q].stage = "none"
        PROVE  (\E a \in Attempts : Waits(q, a)') \/ Recorded(q)
    <3>1. task[q].stage = "none"
      BY <1>2, <2>1
    <3> QED BY <1>1, <1>2, <2>1, <3>1 DEF Located
  <2>2. ASSUME NEW q \in Questions, Recorded(q)
        PROVE  /\ task'[q].stage \in {"none", "publishing"}
               /\ \A a \in Attempts : ~Waits(q, a)'
    BY <1>1, <1>2, <1>5, <2>2 DEF Located
  <2>3. \A i, j \in 1..Len(results') : results'[i].question = results'[j].question => i = j
    BY <1>1, <1>3 DEF Located
  <2> QED BY <1>4, <2>1, <2>2, <2>3 DEF Located
<1>7. Announcing'
  <2>1. \A q \in Questions : task[q].stage # "publishing"
    BY <1>1, <1>3 DEF Announcing
  <2>2. \A q \in Questions : task'[q].stage # "publishing"
    BY <1>2, <2>1
  <2>3. \A q \in Questions : Recorded(q) /\ task'[q].stage = "none" => published[q] = 1
    BY <1>1, <1>5 DEF Announcing
  <2> QED BY <1>1, <1>3, <1>4, <2>2, <2>3 DEF Announcing
<1>8. Collecting'
  BY <1>1, <1>2, <1>3 DEF Collecting
<1> QED BY <1>6, <1>7, <1>8

\* A result is appended.
LEMMA RecordAppends ==
    ASSUME SchedulerInv, NEW q \in Questions, NEW how, Record(q, how)
    PROVE  /\ Len(results') = Len(results) + 1 /\ Len(results) \in Nat
           /\ \A i \in 1..Len(results) : results'[i] = results[i]
           /\ results'[Len(results')].question = q
           /\ results'[Len(results')].status = how
           /\ results'[Len(results')].attempts = task[q].attempt
           /\ \A p : Recorded(p)' <=> Recorded(p) \/ p = q
           /\ task'[q].stage = "publishing"
           /\ \A p \in Questions : p # q => task'[p] = task[p]
<1> DEFINE result == [question |-> q, status |-> how, attempts |-> task[q].attempt]
<1>1. results \in Seq(Results) /\ task \in [Questions -> Tasks]
  BY DEF SchedulerInv, Typed
<1>2. results' = Append(results, result) /\ task' = [task EXCEPT ![q].stage = "publishing"]
  BY DEF Record
<1>3. result.question = q /\ result.status = how /\ result.attempts = task[q].attempt
  OBVIOUS
<1> HIDE DEF result
<1>4. /\ Len(results') = Len(results) + 1 /\ Len(results) \in Nat
      /\ \A i \in 1..Len(results) : results'[i] = results[i]
      /\ results'[Len(results')] = result
  BY <1>1, <1>2
<1>5. \A p : Recorded(p)' <=> Recorded(p) \/ p = q
  <2>1. ASSUME NEW i \in 1..Len(results')
        PROVE  i \in 1..Len(results) \/ i = Len(results')
    BY <1>4
  <2>2. /\ Len(results') \in 1..Len(results')
        /\ \A i \in 1..Len(results) : i \in 1..Len(results')
    BY <1>4
  <2> QED BY <1>3, <1>4, <2>1, <2>2 DEF Recorded
<1>6. task'[q].stage = "publishing" /\ \A p \in Questions : p # q => task'[p] = task[p]
  BY <1>1, <1>2 DEF Tasks
<1> QED BY <1>3, <1>4, <1>5, <1>6

\* The result of a question is recorded.
LEMMA RecordKeepsPlaces ==
    ASSUME LedgerInv, NEW q \in Questions, NEW how, Record(q, how),
           loop = "running", q \in handling, handling' = handling \ {q},
           UNCHANGED <<pending, delayed, active, published>>
    PROVE  Located' /\ Announcing' /\ Collecting'
<1>1. /\ Located /\ Announcing /\ Collecting /\ SchedulerInv /\ Places
      /\ task[q].stage = "done"
  BY HandledIsDone DEF LedgerInv, SchedulerInv
<1>2. /\ Len(results') = Len(results) + 1 /\ Len(results) \in Nat
      /\ \A i \in 1..Len(results) : results'[i] = results[i]
      /\ results'[Len(results')].question = q
      /\ \A p : Recorded(p)' <=> Recorded(p) \/ p = q
      /\ task'[q].stage = "publishing"
      /\ \A p \in Questions : p # q => task'[p] = task[p]
  BY <1>1, RecordAppends
<1>3. \A p, a : Waits(p, a)' <=> Waits(p, a)
  BY DEF Waits
<1>4. ~Recorded(q) /\ \A a \in Attempts : ~Waits(q, a)
  <2>1. ~Recorded(q)
    BY <1>1 DEF Located
  <2>2. \A a \in Attempts : ~Waits(q, a)
    BY <1>1 DEF Waits, Places
  <2> QED BY <2>1, <2>2
<1>5. Located'
  <2>1. \A i, j \in 1..Len(results') : results'[i].question = results'[j].question => i = j
    <3>1. ASSUME NEW i \in 1..Len(results')
          PROVE  \/ i = Len(results')
                 \/ /\ i \in 1..Len(results) /\ results'[i] = results[i]
                    /\ results[i].question # q
      BY <1>2, <1>4 DEF Recorded
    <3> QED BY <1>1, <1>2, <3>1 DEF Located
  <2>2. \A p \in Questions : task'[p].stage = "none" =>
          (\E a \in Attempts : Waits(p, a)) \/ Recorded(p)
    BY <1>1, <1>2 DEF Located
  <2>3. \A p \in Questions : Recorded(p)' =>
          /\ task'[p].stage \in {"none", "publishing"}
          /\ \A a \in Attempts : ~Waits(p, a)
    BY <1>1, <1>2, <1>4 DEF Located
  <2> QED BY <1>2, <1>3, <2>1, <2>2, <2>3 DEF Located
<1>6. Announcing'
  <2>1. \A p \in Questions : task[p].stage # "publishing"
    BY <1>1 DEF Announcing
  <2>2. published[q] = 0 /\ loop' = "publishing"
    BY <1>1, <1>4 DEF Announcing, Record
  <2> QED BY <1>1, <1>2, <2>1, <2>2 DEF Announcing
<1>7. Collecting'
  BY <1>1, <1>2 DEF Collecting, Record
<1> QED BY <1>5, <1>6, <1>7

\* A retry is scheduled.
LEMMA RetryWaits ==
    ASSUME SchedulerInv, NEW q \in Questions, NEW n,
           delayed' = delayed \cup {[question |-> q, due |-> FALSE, attempt |-> n]},
           pending' = pending
    PROVE  \A p, a : Waits(p, a)' <=> Waits(p, a) \/ (p = q /\ a = n)
<1> DEFINE item == [question |-> q, due |-> FALSE, attempt |-> n]
<1>1. item.question = q /\ item.attempt = n /\ delayed' = delayed \cup {item}
  OBVIOUS
<1> HIDE DEF item
<1> QED BY <1>1 DEF Waits

\* The question of a retry waits again, and only waits.
LEMMA RetryKeepsPlaces ==
    ASSUME LedgerInv, NEW q \in Questions, NEW n \in Attempts,
           q \in handling, loop' = loop, loop = "running", handling' = handling \ {q},
           task' = [task EXCEPT ![q] = NoTask],
           delayed' = delayed \cup {[question |-> q, due |-> FALSE, attempt |-> n]},
           UNCHANGED <<pending, active, published, results>>
    PROVE  Located' /\ Announcing' /\ Collecting'
<1>1. /\ Located /\ Announcing /\ Collecting /\ SchedulerInv
      /\ task \in [Questions -> Tasks] /\ task[q].stage = "done"
  BY HandledIsDone DEF LedgerInv, SchedulerInv, Typed
<1>2. \A p, a : Waits(p, a)' <=> Waits(p, a) \/ (p = q /\ a = n)
  BY <1>1, RetryWaits
<1>3. /\ task'[q].stage = "none" /\ \A p \in Questions : p # q => task'[p] = task[p]
      /\ \A p : Recorded(p)' <=> Recorded(p)
  BY <1>1 DEF NoTask, Recorded
<1>4. ~Recorded(q)
  BY <1>1 DEF Located
<1>5. Located'
  BY <1>1, <1>2, <1>3, <1>4 DEF Located
<1>6. Announcing'
  BY <1>1, <1>3, <1>4 DEF Announcing
<1>7. Collecting'
  BY <1>1, <1>3 DEF Collecting
<1> QED BY <1>5, <1>6, <1>7

\* The event of a result is in the stream; its task is gone.
LEMMA PublishKeepsPlaces ==
    ASSUME LedgerInv, NEW q \in Questions, Publish(q)
    PROVE  Located' /\ Announcing' /\ Collecting'
<1>1. /\ Located /\ Announcing /\ Collecting
      /\ task \in [Questions -> Tasks] /\ published \in [Questions -> Nat]
  BY DEF LedgerInv, SchedulerInv, Typed
<1>2. /\ loop = "publishing" /\ task[q].stage = "publishing" /\ loop' = "running"
      /\ published' = [published EXCEPT ![q] = @ + 1]
      /\ task' = [task EXCEPT ![q] = NoTask]
      /\ UNCHANGED <<pending, delayed, active, handling, results>>
  BY DEF Publish
<1>3. /\ \A p, a : Waits(p, a)' <=> Waits(p, a)
      /\ \A p : Recorded(p)' <=> Recorded(p)
  BY <1>2, SamePlaces
<1>4. /\ task'[q].stage = "none" /\ \A p \in Questions : p # q => task'[p] = task[p]
      /\ \A p \in Questions : p # q => published'[p] = published[p]
      /\ published'[q] = published[q] + 1
  BY <1>1, <1>2 DEF NoTask
<1>5. Recorded(q) /\ published[q] = 0 /\ \A p \in Questions : p # q => task[p].stage # "publishing"
  BY <1>1, <1>2 DEF Announcing
<1>6. Located'
  BY <1>1, <1>2, <1>3, <1>4, <1>5 DEF Located
<1>7. Announcing'
  BY <1>1, <1>3, <1>4, <1>5 DEF Announcing
<1>8. Collecting'
  BY <1>1, <1>2, <1>4 DEF Collecting
<1> QED BY <1>6, <1>7, <1>8

\* The publication fails, with the event in the stream or without.
LEMMA PublishFailsKeepsPlaces ==
    ASSUME LedgerInv, NEW q \in Questions, PublishFails(q)
    PROVE  Located' /\ Announcing' /\ Collecting'
<1>1. /\ Located /\ Announcing /\ Collecting /\ published \in [Questions -> Nat]
  BY DEF LedgerInv, SchedulerInv, Typed
<1>2. /\ loop = "publishing" /\ task[q].stage = "publishing" /\ loop' = "crashed"
      /\ published' \in {published, [published EXCEPT ![q] = @ + 1]}
      /\ UNCHANGED <<pending, delayed, active, handling, task, results>>
  BY DEF PublishFails
<1>3. /\ \A p, a : Waits(p, a)' <=> Waits(p, a)
      /\ \A p : Recorded(p)' <=> Recorded(p)
  BY <1>2, SamePlaces
<1>4. /\ \A p \in Questions : p # q => published'[p] = published[p]
      /\ published'[q] \in {0, 1}
      /\ Recorded(q)
  BY <1>1, <1>2 DEF Announcing
<1>5. Located'
  BY <1>1, <1>2, <1>3, StillLocated
<1>6. Announcing'
  BY <1>1, <1>2, <1>3, <1>4 DEF Announcing
<1>7. Collecting'
  BY <1>1, <1>2 DEF Collecting
<1> QED BY <1>5, <1>6, <1>7

\* The steps that leave the tasks, the results and the events alone.
LEMMA OthersKeepPlaces ==
    ASSUME LedgerInv, UNCHANGED <<pending, task, results, published>>,
           \A q \in Questions, a \in Attempts : Waits(q, a)' <=> Waits(q, a),
           active \cup handling \subseteq active' \cup handling',
           loop' = loop \/ loop \notin {"publishing", "crashed"},
           loop' \in {"waiting", "sleeping"} => handling' = {}
    PROVE  Located' /\ Announcing' /\ Collecting'
<1>1. Located /\ Announcing /\ Collecting
  BY DEF LedgerInv
<1>2. Collecting'
  BY <1>1 DEF Collecting
<1> QED BY <1>1, <1>2, StillLocated, StillAnnounced

\* A retry that becomes due still waits.
LEMMA DelayKeepsWaiting ==
    ASSUME SchedulerInv, NEW item \in delayed, DelayElapses(item)
    PROVE  \A q, a : Waits(q, a)' <=> Waits(q, a)
<1> DEFINE ripe == [item EXCEPT !.due = TRUE]
<1>1. delayed' = (delayed \ {item}) \cup {ripe} /\ pending' = pending
  BY DEF DelayElapses, ClockUnchanged
<1>2. item \in Retries
  BY DEF SchedulerInv, Typed
<1>3. ripe.question = item.question /\ ripe.attempt = item.attempt
  BY <1>2 DEF Retries
<1> HIDE DEF ripe
<1> QED BY <1>1, <1>3 DEF Waits

\* The handling of an outcome that is no result.
LEMMA FailureKeepsPlaces ==
    ASSUME LedgerInv, NEW q \in Questions, HandleFailure(q)
    PROVE  Located' /\ Announcing' /\ Collecting'
<1>1. /\ loop = "running" /\ q \in handling /\ handling' = handling \ {q}
      /\ UNCHANGED <<pending, active, published>>
      /\ task[q].attempt \in Attempts
  BY HandledIsDone DEF HandleFailure, LedgerInv
<1>2. CASE /\ RetriesLeft(task[q])
           /\ delayed' = delayed \cup {[question |-> q, due |-> FALSE,
                                        attempt |-> task[q].attempt + 1]}
           /\ task' = [task EXCEPT ![q] = NoTask]
           /\ UNCHANGED <<loop, results>>
  <2>1. task[q].attempt + 1 \in Attempts
    BY <1>1, <1>2, RunConfig DEF Attempts, RetriesLeft
  <2> QED BY <1>1, <1>2, <2>1, RetryKeepsPlaces
<1>3. CASE Record(q, "failed") /\ UNCHANGED delayed
  BY <1>1, <1>3, RecordKeepsPlaces
<1> QED BY <1>2, <1>3 DEF HandleFailure

\* Every step keeps every question in its place.
LEMMA LedgerInvKept == LedgerInv /\ [Next]_vars => LedgerInv'
<1> SUFFICES ASSUME LedgerInv, [Next]_vars
             PROVE  Located' /\ Announcing' /\ Collecting'
  BY SchedulerKept DEF LedgerInv
<1>1. SchedulerInv /\ (loop \in {"waiting", "sleeping"} => handling = {})
  BY DEF LedgerInv, Collecting
<1>2. ASSUME NEW q \in Questions, TaskStep(q)
      PROVE  Located' /\ Announcing' /\ Collecting'
  BY <1>2, TaskKeepsPlaces
<1>3. CASE Iterate
  BY <1>3, IterateKeepsPlaces
<1>4. ASSUME NEW q \in Questions, HandleSuccess(q)
      PROVE  Located' /\ Announcing' /\ Collecting'
  BY <1>4, RecordKeepsPlaces DEF HandleSuccess
<1>5. ASSUME NEW q \in Questions, HandleFailure(q)
      PROVE  Located' /\ Announcing' /\ Collecting'
  BY <1>5, FailureKeepsPlaces
<1>6. ASSUME NEW q \in Questions, Publish(q)
      PROVE  Located' /\ Announcing' /\ Collecting'
  BY <1>6, PublishKeepsPlaces
<1>7. ASSUME NEW q \in Questions, PublishFails(q)
      PROVE  Located' /\ Announcing' /\ Collecting'
  BY <1>7, PublishFailsKeepsPlaces
<1>8. ASSUME UNCHANGED <<pending, delayed, task, results, published>>,
             active \cup handling \subseteq active' \cup handling',
             loop' = loop \/ loop \notin {"publishing", "crashed"},
             (loop' = loop /\ handling' = handling) \/ loop' \notin {"waiting", "sleeping"}
      PROVE  Located' /\ Announcing' /\ Collecting'
  <2>1. \A q, a : Waits(q, a)' <=> Waits(q, a)
    BY <1>8, SamePlaces
  <2>2. loop' \in {"waiting", "sleeping"} => handling' = {}
    BY <1>1, <1>8
  <2> QED BY <1>8, <2>1, <2>2, OthersKeepPlaces
<1>9. CASE WaitReturns
  <2>1. handling = {}
    BY <1>1, <1>9 DEF WaitReturns
  <2> QED BY <1>8, <1>9, <2>1 DEF WaitReturns
<1>10. CASE SleepEnds
  BY <1>8, <1>10 DEF SleepEnds
<1>11. ASSUME NEW q \in Questions, HandleException(q)
       PROVE  Located' /\ Announcing' /\ Collecting'
  BY <1>8, <1>11 DEF HandleException
<1>12. CASE FinishRun
  BY <1>8, <1>12 DEF FinishRun
<1>13. CASE Clock
  <2>1. ASSUME NEW item \in delayed, DelayElapses(item)
        PROVE  Located' /\ Announcing' /\ Collecting'
    <3>1. \A q, a : Waits(q, a)' <=> Waits(q, a)
      BY <1>1, <2>1, DelayKeepsWaiting
    <3> QED BY <1>1, <2>1, <3>1, OthersKeepPlaces DEF DelayElapses, ClockUnchanged
  <2>2. CASE PauseElapses \/ IntervalElapses \/ LaunchAges
    BY <1>8, <2>2 DEF PauseElapses, IntervalElapses, LaunchAges, ClockUnchanged
  <2> QED BY <1>13, <2>1, <2>2 DEF Clock
<1>14. CASE UNCHANGED vars
  BY <1>8, <1>14 DEF vars
<1> QED
  BY <1>2, <1>3, <1>4, <1>5, <1>6, <1>7, <1>9, <1>10, <1>11, <1>12, <1>13, <1>14
     DEF Next, MainStep, Stopped

\* The places of the questions in the initial states.
LEMMA LedgerInvInit == Init => LedgerInv
<1> SUFFICES ASSUME Init PROVE LedgerInv
  OBVIOUS
<1>1. /\ loop = "running" /\ handling = {} /\ results = <<>>
      /\ task = [q \in Questions |-> NoTask] /\ published = [q \in Questions |-> 0]
      /\ pending \in [1..Cardinality(Questions) -> [question : Questions, attempt : {1}]]
      /\ \A q \in Questions : \E i \in DOMAIN pending : pending[i].question = q
  BY DEF Init
<1>2. SchedulerInv
  BY InitInv
<1>3. DOMAIN pending = 1..Len(pending)
  BY <1>2 DEF SchedulerInv, Typed
<1>4. \A q \in Questions : task[q].stage = "none" /\ ~Recorded(q)
  BY <1>1 DEF NoTask, Recorded
<1>5. 1 \in Attempts
  BY RunConfig DEF Attempts
<1>6. \A q \in Questions : Waits(q, 1)
  BY <1>1, <1>3 DEF Waits
<1>7. Located
  BY <1>1, <1>4, <1>5, <1>6 DEF Located
<1>8. Announcing /\ Collecting
  BY <1>1, <1>4 DEF Announcing, Collecting
<1> QED BY <1>2, <1>7, <1>8 DEF LedgerInv

\* In every state of every run a question waits, has a task or has its result, and
\* its result is published once.
THEOREM PlacesInvariant == Spec => []LedgerInv
  BY LedgerInvInit, LedgerInvKept, PTL DEF Spec

-----------------------------------------------------------------------------
(* No question is lost. *)

\* A set without two elements has one or none.
LEMMA AtMostOne ==
    ASSUME NEW S, \A x, y \in S : x = y
    PROVE  Cardinality(S) = IF S = {} THEN 0 ELSE 1
<1>1. CASE S = {}
  BY <1>1, FS_EmptySet
<1>2. CASE S # {}
  <2>1. PICK x \in S : TRUE
    BY <1>2
  <2>2. S = {x}
    BY <2>1
  <2> QED BY <1>2, <2>2, FS_Singleton
<1> QED BY <1>1, <1>2

\* The invariant leaves a question one place.
LEMMA OnePlace == LedgerInv => NoQuestionLost
<1> SUFFICES ASSUME LedgerInv, NEW q \in Questions PROVE PlacesOf(q) = 1
  BY DEF NoQuestionLost
<1> DEFINE InDeque == {i \in DOMAIN pending : pending[i].question = q}
           InDelay == {item \in delayed : item.question = q}
           InResults == {i \in DOMAIN results : results[i].question = q}
<1>1. /\ Typed /\ Places /\ Located /\ Announcing
      /\ pending \in Seq(Items) /\ results \in Seq(Results) /\ delayed \subseteq Retries
      /\ DOMAIN pending = 1..Len(pending) /\ DOMAIN results = 1..Len(results)
  BY DEF LedgerInv, SchedulerInv, Typed
<1>2. /\ \A i \in 1..Len(pending) : pending[i] \in Items /\ pending[i].attempt \in Attempts
      /\ \A item \in delayed : item.attempt \in Attempts
  <2>1. \A i \in 1..Len(pending) : pending[i] \in Items
    BY <1>1
  <2> QED BY <1>1, <2>1 DEF Items, Retries
<1>3. /\ \A x, y \in InDeque : x = y
      /\ \A x, y \in InDelay : x = y
      /\ \A x, y \in InResults : x = y
  BY <1>1 DEF Places, Located
<1>4. InDeque = {} \/ InDelay = {}
  BY <1>1 DEF Places
<1>5. (\E a \in Attempts : Waits(q, a)) <=> InDeque # {} \/ InDelay # {}
  BY <1>1, <1>2 DEF Waits
<1>6. Recorded(q) <=> InResults # {}
  BY <1>1 DEF Recorded
<1>7. InDeque # {} \/ InDelay # {} => task[q].stage = "none"
  BY <1>1 DEF Places
<1>8. /\ Cardinality(InDeque) = IF InDeque = {} THEN 0 ELSE 1
      /\ Cardinality(InDelay) = IF InDelay = {} THEN 0 ELSE 1
      /\ Cardinality(InResults) = IF InResults = {} THEN 0 ELSE 1
  BY <1>3, AtMostOne
<1>9. PlacesOf(q) = Cardinality(InDeque) + Cardinality(InDelay)
                    + (IF task[q].stage \notin {"none", "publishing"} THEN 1 ELSE 0)
                    + Cardinality(InResults)
  BY DEF PlacesOf
<1> HIDE DEF InDeque, InDelay, InResults
<1>10. CASE task[q].stage = "none"
  BY <1>1, <1>4, <1>5, <1>6, <1>8, <1>9, <1>10 DEF Located
<1>11. CASE task[q].stage = "publishing"
  BY <1>1, <1>6, <1>7, <1>8, <1>9, <1>11 DEF Announcing
<1>12. CASE task[q].stage \notin {"none", "publishing"}
  BY <1>1, <1>6, <1>7, <1>8, <1>9, <1>12 DEF Located
<1> QED BY <1>10, <1>11, <1>12

\* Whatever replies, retries, exceptions and suspensions do, each question is in the
\* deque, delayed, with a task or among the results, in one place only.
THEOREM NothingIsLost == Spec => []NoQuestionLost
  BY OnePlace, PlacesInvariant, PTL

-----------------------------------------------------------------------------
(* The entry of a question in the ledger. *)

StatusAt(stage) == IF stage \in Trying THEN "trying" ELSE "open"
AttemptsAt(stage, attempt) == IF stage \in Trying THEN attempt ELSE attempt - 1

\* The entry of q has status s and n attempts, read from where q is.
Entry(q, s, n) ==
    \/ /\ task[q].stage \notin {"none", "publishing"}
       /\ s = StatusAt(task[q].stage)
       /\ n = AttemptsAt(task[q].stage, task[q].attempt)
    \/ s = "open" /\ \E a \in Attempts : Waits(q, a) /\ n = a - 1
    \/ \E i \in 1..Len(results) :
          results[i].question = q /\ s = results[i].status /\ n = results[i].attempts

\* A question that waits does so for one attempt.
LEMMA WaitsOnce ==
    ASSUME LedgerInv, NEW q \in Questions, NEW a \in Attempts, Waits(q, a)
    PROVE  Waiting(q) = {a}
<1>1. Places /\ DOMAIN pending = 1..Len(pending)
  BY DEF LedgerInv, SchedulerInv, Typed
<1>2. a \in Waiting(q)
  BY <1>1 DEF Waits, Waiting
<1>3. ASSUME NEW b \in Waiting(q) PROVE b = a
  <2>1. \/ \E i \in 1..Len(pending) : pending[i].question = q /\ pending[i].attempt = b
        \/ \E item \in delayed : item.question = q /\ item.attempt = b
    BY <1>1, <1>3 DEF Waiting
  <2> QED BY <1>1, <2>1 DEF Waits, Places
<1> QED BY <1>2, <1>3

\* Every question has an entry, which is what the refinement mapping reads.
EntriesRead ==
    \A q \in Questions :
      /\ \E s, n : Entry(q, s, n)
      /\ \A s, n : Entry(q, s, n) => LedgerStatus(q) = s /\ LedgerAttempts(q) = n

\* The invariant gives every question its entry.
LEMMA EntryIs == LedgerInv => EntriesRead
<1> SUFFICES ASSUME LedgerInv, NEW q \in Questions
             PROVE  /\ \E s, n : Entry(q, s, n)
                    /\ \A s, n : Entry(q, s, n) =>
                         LedgerStatus(q) = s /\ LedgerAttempts(q) = n
  BY DEF EntriesRead
<1>1. /\ Typed /\ Places /\ Located /\ Announcing
      /\ results \in Seq(Results) /\ DOMAIN results = 1..Len(results)
  BY DEF LedgerInv, SchedulerInv, Typed
<1>2. \E s, n : Entry(q, s, n)
  <2>1. CASE task[q].stage \notin {"none", "publishing"}
    BY <2>1 DEF Entry
  <2>2. CASE \E a \in Attempts : Waits(q, a)
    BY <2>2 DEF Entry
  <2>3. CASE Recorded(q)
    BY <2>3 DEF Entry, Recorded
  <2> QED BY <1>1, <2>1, <2>2, <2>3 DEF Located, Announcing
<1>3. ASSUME NEW s, NEW n, Entry(q, s, n)
      PROVE  LedgerStatus(q) = s /\ LedgerAttempts(q) = n
  <2>1. Recorded(q) <=> \E i \in DOMAIN results : results[i].question = q
    BY <1>1 DEF Recorded
  <2>2. ~Recorded(q) => ~SettledAs(q, "success") /\ ~SettledAs(q, "failed")
    BY <1>1 DEF Recorded, SettledAs
  <2>3. CASE /\ task[q].stage \notin {"none", "publishing"}
             /\ s = StatusAt(task[q].stage)
             /\ n = AttemptsAt(task[q].stage, task[q].attempt)
    <3>1. ~Recorded(q)
      BY <1>1, <2>3 DEF Located
    <3> QED BY <2>1, <2>2, <2>3, <3>1
            DEF LedgerStatus, LedgerAttempts, StatusAt, AttemptsAt, Trying
  <2>4. CASE s = "open" /\ \E a \in Attempts : Waits(q, a) /\ n = a - 1
    <3>1. PICK a \in Attempts : Waits(q, a) /\ n = a - 1
      BY <2>4
    <3>2. Waiting(q) = {a}
      BY <3>1, WaitsOnce
    <3>3. (CHOOSE x \in Waiting(q) : TRUE) = a
      BY <3>2
    <3>4. ~Recorded(q)
      BY <1>1, <3>1 DEF Located
    <3>5. task[q].stage = "none"
      BY <1>1, <3>1 DEF Waits, Places
    <3> QED BY <2>1, <2>2, <2>4, <3>1, <3>3, <3>4, <3>5
            DEF LedgerStatus, LedgerAttempts, Trying
  <2>5. CASE \E i \in 1..Len(results) :
               results[i].question = q /\ s = results[i].status /\ n = results[i].attempts
    <3>1. PICK i \in 1..Len(results) :
            results[i].question = q /\ s = results[i].status /\ n = results[i].attempts
      BY <2>5
    <3>2. \A j \in DOMAIN results : results[j].question = q => j = i
      BY <1>1, <3>1 DEF Located
    <3>3. (CHOOSE j \in DOMAIN results : results[j].question = q) = i
      BY <1>1, <3>1, <3>2
    <3>4. results[i].status \in {"success", "failed"}
      <4>1. results[i] \in Results
        BY <1>1
      <4> QED BY <4>1 DEF Results
    <3>5. LedgerStatus(q) = s
      <4>1. \A how : SettledAs(q, how) <=> how = s
        BY <1>1, <3>1, <3>2 DEF SettledAs
      <4> QED BY <3>1, <3>4, <4>1 DEF LedgerStatus
    <3>6. LedgerAttempts(q) = n
      BY <1>1, <3>1, <3>3 DEF LedgerAttempts
    <3> QED BY <3>5, <3>6
  <2> QED BY <1>3, <2>3, <2>4, <2>5 DEF Entry
<1> QED BY <1>2, <1>3

\* The same of the state after a step.
LEMMA EntryIsNext ==
    ASSUME LedgerInv', NEW q \in Questions, NEW s, NEW n, Entry(q, s, n)'
    PROVE  LedgerStatus(q)' = s /\ LedgerAttempts(q)' = n
<1>1. LedgerInv' => EntriesRead'
  BY EntryIs, PTL
<1> QED BY <1>1 DEF EntriesRead

EntryStatus == [q \in Questions |-> LedgerStatus(q)]
EntryAttempts == [q \in Questions |-> LedgerAttempts(q)]
Closed == CASE loop = "finished" -> "finished"
            [] loop = "crashed" -> "aborted"
            [] OTHER -> "no"

\* The entry of q is the same after the step.
Keeps(q) == \E s, n : Entry(q, s, n) /\ Entry(q, s, n)'

\* A step that keeps every entry.
LEMMA LedgerKept ==
    ASSUME LedgerInv, LedgerInv', \A q \in Questions : Keeps(q)
    PROVE  EntryStatus' = EntryStatus /\ EntryAttempts' = EntryAttempts
<1>1. \A q \in Questions : LedgerStatus(q)' = LedgerStatus(q) /\ LedgerAttempts(q)' = LedgerAttempts(q)
  BY EntryIs, EntryIsNext DEF Keeps, EntriesRead
<1> QED BY <1>1 DEF EntryStatus, EntryAttempts

\* A step that changes the entry of q only.
LEMMA LedgerChange ==
    ASSUME LedgerInv, LedgerInv', NEW q \in Questions,
           NEW s, NEW n, NEW t, NEW m, Entry(q, s, n), Entry(q, t, m)',
           \A p \in Questions : p # q => Keeps(p)
    PROVE  /\ EntryStatus[q] = s /\ EntryAttempts[q] = n
           /\ EntryStatus' = [EntryStatus EXCEPT ![q] = t]
           /\ EntryAttempts' = [EntryAttempts EXCEPT ![q] = m]
<1>1. \A p \in Questions : p # q =>
         LedgerStatus(p)' = LedgerStatus(p) /\ LedgerAttempts(p)' = LedgerAttempts(p)
  BY EntryIs, EntryIsNext DEF Keeps, EntriesRead
<1>2. /\ LedgerStatus(q) = s /\ LedgerAttempts(q) = n
      /\ LedgerStatus(q)' = t /\ LedgerAttempts(q)' = m
  BY EntryIs, EntryIsNext DEF EntriesRead
<1> QED BY <1>1, <1>2 DEF EntryStatus, EntryAttempts

-----------------------------------------------------------------------------
(* The refinement: each step is one of the ledger or changes nothing of it. *)

\* The results so far stay as they are.
Extends == \A i \in 1..Len(results) : i \in 1..Len(results') /\ results'[i] = results[i]

\* A question whose task, place and result are the same keeps its entry.
LEMMA KeepsPlace ==
    ASSUME LedgerInv, NEW q \in Questions, task'[q] = task[q], Extends,
           \A a \in Attempts : Waits(q, a) => Waits(q, a)'
    PROVE  Keeps(q)
<1>1. PICK s, n : Entry(q, s, n)
  BY EntryIs DEF EntriesRead
<1>2. CASE /\ task[q].stage \notin {"none", "publishing"}
           /\ s = StatusAt(task[q].stage)
           /\ n = AttemptsAt(task[q].stage, task[q].attempt)
  <2>1. Entry(q, s, n)'
    BY <1>2 DEF Entry
  <2> QED BY <1>1, <2>1 DEF Keeps
<1>3. CASE s = "open" /\ \E a \in Attempts : Waits(q, a) /\ n = a - 1
  <2>1. Entry(q, s, n)'
    BY <1>3 DEF Entry, Attempts
  <2> QED BY <1>1, <2>1 DEF Keeps
<1>4. CASE \E i \in 1..Len(results) :
             results[i].question = q /\ s = results[i].status /\ n = results[i].attempts
  <2>1. Entry(q, s, n)'
    BY <1>4 DEF Entry, Extends
  <2> QED BY <1>1, <2>1 DEF Keeps
<1> QED BY <1>1, <1>2, <1>3, <1>4 DEF Entry

\* A question with a result keeps its entry.
LEMMA KeepsResult ==
    ASSUME NEW q \in Questions, Recorded(q), Extends
    PROVE  Keeps(q)
<1>1. PICK i \in 1..Len(results) : results[i].question = q
  BY DEF Recorded
<1>2. PICK s, n : s = results[i].status /\ n = results[i].attempts
  OBVIOUS
<1>3. Entry(q, s, n) /\ Entry(q, s, n)'
  BY <1>1, <1>2 DEF Entry, Extends
<1> QED BY <1>3 DEF Keeps

\* A step that changes no entry, no event and not the end of the run.
LEMMA NoLedgerStep ==
    ASSUME LedgerInv, LedgerInv', \A q \in Questions : Keeps(q),
           published' = published, Closed' = Closed
    PROVE  UNCHANGED Ledger!ledger
<1>1. EntryStatus' = EntryStatus /\ EntryAttempts' = EntryAttempts
  BY LedgerKept
<1> QED BY <1>1 DEF Ledger!ledger, EntryStatus, EntryAttempts, Closed

\* The step of a task: a dispatch is a try, the rest is no step of the ledger.
LEMMA TaskLedger ==
    ASSUME LedgerInv, LedgerInv', NEW q \in Questions, TaskStep(q)
    PROVE  \/ task'[q].stage = "in_flight" /\ Ledger!Try(q)
           \/ task'[q].stage # "in_flight" /\ UNCHANGED Ledger!ledger
<1>1. /\ SchedulerInv /\ Activity /\ task \in [Questions -> Tasks]
  BY DEF LedgerInv, SchedulerInv, Typed
<1>2. PICK stage \in Running \cup {"done"} :
        /\ Differs(task, task', q, stage)
        /\ task[q].stage \in Running
        /\ task[q].stage = "in_flight" <=> stage = "done"
  BY <1>1, TaskMoves
<1>3. TaskUnchanged
  BY <1>1, TaskMoves
<1>4. PICK a : a = task[q].attempt
  OBVIOUS
<1>5. a \in Attempts /\ a \in Nat /\ a - 1 <= MaxRetries /\ (a - 1) + 1 = a
  BY <1>1, <1>2, <1>4, RunConfig DEF Activity, Running, Attempts
<1>6. /\ task'[q].stage = stage /\ task'[q].attempt = a
      /\ stage \notin {"none", "publishing"} /\ task[q].stage \notin {"none", "publishing"}
      /\ \A p \in Questions : p # q => task'[p] = task[p]
  BY <1>2, <1>4 DEF Differs, Running
<1>7. Extends /\ (\A p, b : Waits(p, b)' <=> Waits(p, b)) /\ published' = published
      /\ Closed' = Closed
  BY <1>3, SamePlaces DEF TaskUnchanged, Extends, Closed
<1>8. \A p \in Questions : p # q => Keeps(p)
  BY <1>6, <1>7, KeepsPlace
<1>9. CASE stage # "in_flight"
  <2>1. PICK s, n : s = StatusAt(task[q].stage) /\ n = AttemptsAt(task[q].stage, a)
    OBVIOUS
  <2>2. s = StatusAt(stage) /\ n = AttemptsAt(stage, a)
    BY <1>2, <1>9, <2>1 DEF StatusAt, AttemptsAt, Trying, Running
  <2>3. Entry(q, s, n) /\ Entry(q, s, n)'
    BY <1>4, <1>6, <2>1, <2>2 DEF Entry
  <2>4. Keeps(q)
    BY <2>3 DEF Keeps
  <2> QED BY <1>6, <1>7, <1>8, <1>9, <2>4, NoLedgerStep
<1>10. CASE stage = "in_flight"
  <2>1. task[q].stage \notin Trying /\ stage \in Trying
    BY <1>2, <1>10 DEF Trying, Running
  <2>2. PICK n : n = a - 1
    OBVIOUS
  <2>3. Entry(q, "open", n) /\ Entry(q, "trying", a)'
    BY <1>4, <1>6, <2>1, <2>2 DEF Entry, StatusAt, AttemptsAt
  <2>4. /\ EntryStatus[q] = "open" /\ EntryAttempts[q] = n
        /\ EntryStatus' = [EntryStatus EXCEPT ![q] = "trying"]
        /\ EntryAttempts' = [EntryAttempts EXCEPT ![q] = a]
    BY <1>8, <2>3, LedgerChange
  <2>5. EntryAttempts' = [EntryAttempts EXCEPT ![q] = @ + 1] /\ EntryAttempts[q] <= MaxRetries
    BY <1>5, <2>2, <2>4
  <2>6. Ledger!Try(q)
    BY <1>7, <2>4, <2>5 DEF Ledger!Try, EntryStatus, EntryAttempts, Closed
  <2> QED BY <1>6, <1>10, <2>6
<1> QED BY <1>9, <1>10

\* The loop gives tasks to questions, which is no step of the ledger.
LEMMA IterateLedger ==
    ASSUME LedgerInv, LedgerInv', Iterate
    PROVE  UNCHANGED Ledger!ledger
<1>1. SchedulerInv /\ Places /\ Located
  BY DEF LedgerInv, SchedulerInv
<1>2. /\ \A q \in Questions, a \in Attempts : Waits(q, a) =>
           \/ Waits(q, a)' /\ task'[q] = task[q]
           \/ task'[q].stage = "created" /\ task'[q].attempt = a
      /\ \A q \in Questions : (\A a \in Attempts : ~Waits(q, a)) => task'[q] = task[q]
  BY <1>1, IterateMoves
<1>3. published' = published /\ Closed' = Closed /\ Extends
  BY DEF Iterate, Closed, Extends
<1>4. ASSUME NEW q \in Questions
      PROVE  Keeps(q)
  <2>1. CASE \A a \in Attempts : ~Waits(q, a)
    BY <1>2, <1>3, <2>1, KeepsPlace
  <2>2. ASSUME NEW a \in Attempts, Waits(q, a)
        PROVE  Keeps(q)
    <3>1. PICK n : n = a - 1
      OBVIOUS
    <3>2. Entry(q, "open", n)
      BY <2>2, <3>1 DEF Entry
    <3>3. CASE Waits(q, a)'
      <4>1. Entry(q, "open", n)'
        BY <3>1, <3>3 DEF Entry, Attempts
      <4> QED BY <3>2, <4>1 DEF Keeps
    <3>4. CASE task'[q].stage = "created" /\ task'[q].attempt = a
      <4>1. Entry(q, "open", n)'
        BY <3>1, <3>4 DEF Entry, StatusAt, AttemptsAt, Trying
      <4> QED BY <3>2, <4>1 DEF Keeps
    <3> QED BY <1>2, <2>2, <3>3, <3>4
  <2> QED BY <2>1, <2>2
<1> QED BY <1>3, <1>4, NoLedgerStep

\* A result settles its question.
LEMMA RecordLedger ==
    ASSUME LedgerInv, LedgerInv', NEW q \in Questions, NEW how, Record(q, how),
           loop = "running", q \in handling,
           how \in {"success", "failed"}, how = "failed" => task[q].attempt = MaxRetries + 1,
           UNCHANGED <<pending, delayed, published>>
    PROVE  Ledger!Next
<1>1. /\ SchedulerInv /\ task[q].stage = "done"
  BY HandledIsDone DEF LedgerInv
<1>2. /\ Len(results') = Len(results) + 1 /\ Len(results) \in Nat
      /\ \A i \in 1..Len(results) : results'[i] = results[i]
      /\ results'[Len(results')].question = q
      /\ results'[Len(results')].status = how
      /\ results'[Len(results')].attempts = task[q].attempt
      /\ \A p \in Questions : p # q => task'[p] = task[p]
  BY <1>1, RecordAppends
<1>3. Extends /\ Len(results') \in 1..Len(results')
  BY <1>2 DEF Extends
<1>4. \A p, b : Waits(p, b)' <=> Waits(p, b)
  BY DEF Waits
<1>5. \A p \in Questions : p # q => Keeps(p)
  BY <1>2, <1>3, <1>4, KeepsPlace
<1>6. PICK a : a = task[q].attempt
  OBVIOUS
<1>7. Entry(q, "trying", a)
  BY <1>1, <1>6 DEF Entry, StatusAt, AttemptsAt, Trying
<1>8. Entry(q, how, a)'
  BY <1>2, <1>3, <1>6 DEF Entry
<1>9. /\ EntryStatus[q] = "trying" /\ EntryAttempts[q] = a
      /\ EntryStatus' = [EntryStatus EXCEPT ![q] = how]
      /\ EntryAttempts' = [EntryAttempts EXCEPT ![q] = a]
  BY <1>5, <1>7, <1>8, LedgerChange
<1>10. EntryAttempts' = EntryAttempts
  BY <1>9 DEF EntryAttempts
<1>11. Closed' = Closed /\ published' = published
  BY DEF Closed, Record
<1>12. Ledger!Settle(q)
  BY <1>6, <1>9, <1>10, <1>11 DEF Ledger!Settle, EntryStatus, EntryAttempts, Closed
<1> QED BY <1>12 DEF Ledger!Next

\* A retry gives the question back.
LEMMA RetryLedger ==
    ASSUME LedgerInv, LedgerInv', NEW q \in Questions,
           q \in handling, loop' = loop, RetriesLeft(task[q]),
           task' = [task EXCEPT ![q] = NoTask],
           delayed' = delayed \cup {[question |-> q, due |-> FALSE,
                                    attempt |-> task[q].attempt + 1]},
           UNCHANGED <<pending, published, results>>
    PROVE  Ledger!Next
<1>1. /\ SchedulerInv /\ task \in [Questions -> Tasks]
      /\ task[q].stage = "done" /\ task[q].attempt \in Attempts
  BY HandledIsDone DEF LedgerInv, SchedulerInv, Typed
<1>2. PICK a, b : a = task[q].attempt /\ b = a + 1
  OBVIOUS
<1>3. /\ a \in Nat /\ a <= MaxRetries /\ b - 1 = a /\ b \in Attempts
  BY <1>1, <1>2, RunConfig DEF Attempts, RetriesLeft
<1>4. \A p, c : Waits(p, c)' <=> Waits(p, c) \/ (p = q /\ c = b)
  BY <1>1, <1>2, RetryWaits
<1>5. Extends /\ \A p \in Questions : p # q => task'[p] = task[p]
  BY <1>1 DEF Extends
<1>6. \A p \in Questions : p # q => Keeps(p)
  BY <1>4, <1>5, KeepsPlace
<1>7. Entry(q, "trying", a)
  BY <1>1, <1>2 DEF Entry, StatusAt, AttemptsAt, Trying
<1>8. Entry(q, "open", a)'
  BY <1>3, <1>4 DEF Entry, Attempts
<1>9. /\ EntryStatus[q] = "trying" /\ EntryAttempts[q] = a
      /\ EntryStatus' = [EntryStatus EXCEPT ![q] = "open"]
      /\ EntryAttempts' = [EntryAttempts EXCEPT ![q] = a]
  BY <1>6, <1>7, <1>8, LedgerChange
<1>10. EntryAttempts' = EntryAttempts
  BY <1>9 DEF EntryAttempts
<1>11. Closed' = Closed /\ published' = published
  BY DEF Closed
<1>12. Ledger!GiveBack(q)
  BY <1>3, <1>9, <1>10, <1>11 DEF Ledger!GiveBack, EntryStatus, EntryAttempts, Closed
<1> QED BY <1>12 DEF Ledger!Next

\* An event announces its question, whether the run goes on or not.
LEMMA PublishLedger ==
    ASSUME LedgerInv, LedgerInv', NEW q \in Questions, Publish(q) \/ PublishFails(q)
    PROVE  Ledger!Next
<1>1. /\ Located /\ Announcing /\ task \in [Questions -> Tasks]
      /\ published \in [Questions -> Nat] /\ results \in Seq(Results)
  BY DEF LedgerInv, SchedulerInv, Typed
<1>2. /\ loop = "publishing" /\ task[q].stage = "publishing"
      /\ published' \in {published, [published EXCEPT ![q] = @ + 1]}
      /\ published' = published => loop' = "crashed"
      /\ loop' \in {"running", "crashed"}
      /\ \A p \in Questions : p # q => task'[p] = task[p]
      /\ UNCHANGED <<pending, delayed, results>>
  <2>1. [published EXCEPT ![q] = @ + 1] # published
    BY <1>1
  <2> QED BY <1>1, <2>1 DEF Publish, PublishFails
<1>3. Recorded(q) /\ published[q] = 0
  BY <1>1, <1>2 DEF Announcing
<1>4. Extends /\ \A p, b : Waits(p, b)' <=> Waits(p, b)
  BY <1>2, SamePlaces DEF Extends
<1>5. \A p \in Questions : Keeps(p)
  BY <1>2, <1>3, <1>4, KeepsPlace, KeepsResult
<1>6. EntryStatus' = EntryStatus /\ EntryAttempts' = EntryAttempts
  BY <1>5, LedgerKept
<1>7. Closed = "no" /\ (loop' = "crashed" => Closed' = "aborted") /\ Closed' \in {"no", "aborted"}
  BY <1>2 DEF Closed
<1>8. CASE published' = published
  <2>1. Ledger!Abort
    BY <1>2, <1>6, <1>7, <1>8 DEF Ledger!Abort, EntryStatus, EntryAttempts, Closed
  <2> QED BY <2>1 DEF Ledger!Next
<1>9. CASE published' = [published EXCEPT ![q] = @ + 1]
  <2>1. published' = [published EXCEPT ![q] = 1]
    BY <1>3, <1>9
  <2>2. EntryStatus[q] \in {"success", "failed"}
    <3>1. PICK i \in 1..Len(results) : results[i].question = q
      BY <1>3 DEF Recorded
    <3>2. results[i] \in Results
      BY <1>1
    <3>3. PICK s, n : s = results[i].status /\ n = results[i].attempts
      OBVIOUS
    <3>4. Entry(q, s, n)
      BY <3>1, <3>3 DEF Entry
    <3>5. LedgerStatus(q) = s
      BY <3>4, EntryIs DEF EntriesRead
    <3> QED BY <3>2, <3>3, <3>5 DEF EntryStatus, Results
  <2>3. Closed' \in {Closed, "aborted"}
    BY <1>7
  <2>4. Ledger!Announce(q)
    BY <1>3, <1>6, <2>1, <2>2, <2>3 DEF Ledger!Announce, EntryStatus, EntryAttempts, Closed
  <2> QED BY <2>4 DEF Ledger!Next
<1> QED BY <1>2, <1>8, <1>9

\* The run ends: with an exception, or with every question announced.
LEMMA EndLedger ==
    ASSUME LedgerInv, LedgerInv',
           FinishRun \/ \E q \in Questions : HandleException(q)
    PROVE  Ledger!Next
<1>1. /\ UNCHANGED <<pending, delayed, task, results, published>>
      /\ loop = "running"
  BY DEF FinishRun, HandleException
<1>2. Extends /\ \A p, b : Waits(p, b)' <=> Waits(p, b)
  BY <1>1, SamePlaces DEF Extends
<1>3. \A p \in Questions : Keeps(p)
  BY <1>1, <1>2, KeepsPlace
<1>4. EntryStatus' = EntryStatus /\ EntryAttempts' = EntryAttempts
  BY <1>3, LedgerKept
<1>5. CASE \E q \in Questions : HandleException(q)
  <2>1. Closed = "no" /\ Closed' = "aborted"
    BY <1>1, <1>5 DEF HandleException, Closed
  <2>2. Ledger!Abort
    BY <1>1, <1>4, <2>1 DEF Ledger!Abort, EntryStatus, EntryAttempts, Closed
  <2> QED BY <2>2 DEF Ledger!Next
<1>6. CASE FinishRun
  <2>1. Closed = "no" /\ Closed' = "finished"
    BY <1>6 DEF FinishRun, Closed
  <2>2. /\ Located /\ Announcing /\ Collecting /\ Activity /\ task \in [Questions -> Tasks]
        /\ handling = {} /\ pending = <<>> /\ delayed = {} /\ active = {}
    BY <1>6 DEF LedgerInv, SchedulerInv, Typed, FinishRun
  <2>3. \A q \in Questions : published[q] = 1
    <3> SUFFICES ASSUME NEW q \in Questions PROVE published[q] = 1
      OBVIOUS
    <3>1. task[q].stage \notin Running \cup {"done", "publishing"}
      BY <1>1, <2>2 DEF Activity, Collecting, Announcing
    <3>2. task[q].stage = "none"
      <4>1. task[q].stage \in Stages
        BY <2>2 DEF Tasks
      <4> QED BY <3>1, <4>1 DEF Stages, Running
    <3>3. \A a : ~Waits(q, a)
      BY <2>2 DEF Waits
    <3> QED BY <2>2, <3>2, <3>3 DEF Located, Announcing
  <2>4. Ledger!Finish
    BY <1>1, <1>4, <2>1, <2>3 DEF Ledger!Finish, EntryStatus, EntryAttempts, Closed
  <2> QED BY <2>4 DEF Ledger!Next
<1> QED BY <1>5, <1>6

\* The steps of which the ledger sees nothing: the return of asyncio.wait or of a
\* sleep, and the clock.
LEMMA QuietLedger ==
    ASSUME LedgerInv, LedgerInv', UNCHANGED <<task, results, published>>, Closed' = Closed,
           \A q, a : Waits(q, a)' <=> Waits(q, a)
    PROVE  UNCHANGED Ledger!ledger
<1>1. Extends
  BY DEF Extends
<1>2. \A q \in Questions : Keeps(q)
  BY <1>1, KeepsPlace
<1> QED BY <1>2, NoLedgerStep

\* At the start every question is open and none was tried.
LEMMA LedgerInit == Init => Ledger!Init
<1> SUFFICES ASSUME Init PROVE Ledger!Init
  OBVIOUS
<1>1. LedgerInv
  BY LedgerInvInit
<1>2. 1 \in Attempts /\ 0 = 1 - 1 /\ DOMAIN pending = 1..Len(pending)
  BY <1>1, RunConfig DEF Attempts, LedgerInv, SchedulerInv, Typed
<1>3. ASSUME NEW q \in Questions
      PROVE  LedgerStatus(q) = "open" /\ LedgerAttempts(q) = 0
  <2>1. PICK i \in 1..Len(pending) : pending[i].question = q
    BY <1>2 DEF Init
  <2>2. pending[i].attempt = 1
    BY <1>2, <2>1 DEF Init
  <2>3. Waits(q, 1)
    BY <2>1, <2>2 DEF Waits
  <2>4. Entry(q, "open", 0)
    BY <1>2, <2>3 DEF Entry
  <2> QED BY <1>1, <2>4, EntryIs DEF EntriesRead
<1>4. published = [q \in Questions |-> 0] /\ Closed = "no"
  BY DEF Init, Closed
<1> QED BY <1>3, <1>4 DEF Ledger!Init, Closed

\* Every step is a step of the ledger or changes nothing of it.
LEMMA LedgerNext == LedgerInv /\ [Next]_vars => [Ledger!Next]_(Ledger!ledger)
<1> SUFFICES ASSUME LedgerInv, [Next]_vars PROVE Ledger!Next \/ UNCHANGED Ledger!ledger
  OBVIOUS
<1>1. LedgerInv' /\ SchedulerInv
  BY LedgerInvKept DEF LedgerInv
<1>2. ASSUME NEW q \in Questions, TaskStep(q)
      PROVE  Ledger!Next \/ UNCHANGED Ledger!ledger
  BY <1>1, <1>2, TaskLedger DEF Ledger!Next
<1>3. CASE Iterate
  BY <1>1, <1>3, IterateLedger
<1>4. ASSUME NEW q \in Questions, HandleSuccess(q)
      PROVE  Ledger!Next
  <2>1. /\ loop = "running" /\ q \in handling /\ Record(q, "success")
        /\ UNCHANGED <<pending, delayed, published>>
    BY <1>4 DEF HandleSuccess
  <2>2. "success" \in {"success", "failed"} /\ "success" # "failed"
    OBVIOUS
  <2> QED BY <1>1, <2>1, <2>2, RecordLedger
<1>5. ASSUME NEW q \in Questions, HandleFailure(q)
      PROVE  Ledger!Next
  <2>1. /\ loop = "running" /\ q \in handling
        /\ UNCHANGED <<pending, published>>
        /\ task[q].attempt \in Attempts
    BY <1>1, <1>5, HandledIsDone DEF HandleFailure
  <2>2. CASE /\ RetriesLeft(task[q])
             /\ delayed' = delayed \cup {[question |-> q, due |-> FALSE,
                                          attempt |-> task[q].attempt + 1]}
             /\ task' = [task EXCEPT ![q] = NoTask]
             /\ UNCHANGED <<loop, results>>
    BY <1>1, <2>1, <2>2, RetryLedger
  <2>3. CASE ~RetriesLeft(task[q]) /\ Record(q, "failed") /\ UNCHANGED delayed
    <3>1. task[q].attempt = MaxRetries + 1
      BY <2>1, <2>3, RunConfig DEF RetriesLeft, Attempts
    <3> QED BY <1>1, <2>1, <2>3, <3>1, RecordLedger
  <2> QED BY <1>5, <2>2, <2>3 DEF HandleFailure
<1>6. CASE FinishRun \/ \E q \in Questions : HandleException(q)
  BY <1>1, <1>6, EndLedger
<1>7. ASSUME NEW q \in Questions, Publish(q) \/ PublishFails(q)
      PROVE  Ledger!Next
  BY <1>1, <1>7, PublishLedger
<1>8. CASE WaitReturns \/ SleepEnds \/ UNCHANGED vars
  <2>1. UNCHANGED <<pending, delayed, task, results, published>> /\ Closed' = Closed
    BY <1>8 DEF WaitReturns, SleepEnds, vars, Closed
  <2> QED BY <1>1, <2>1, SamePlaces, QuietLedger
<1>9. CASE Clock
  <2>1. UNCHANGED <<task, results, published, pending>> /\ Closed' = Closed
    BY <1>9 DEF Clock, PauseElapses, IntervalElapses, DelayElapses, LaunchAges,
                ClockUnchanged, Closed
  <2>2. \A q, a : Waits(q, a)' <=> Waits(q, a)
    <3>1. CASE \E item \in delayed : DelayElapses(item)
      BY <1>1, <3>1, DelayKeepsWaiting
    <3>2. CASE UNCHANGED delayed
      BY <2>1, <3>2, SamePlaces
    <3> QED BY <1>9, <3>1, <3>2 DEF Clock, PauseElapses, IntervalElapses, LaunchAges
  <2> QED BY <1>1, <2>1, <2>2, QuietLedger
<1> QED BY <1>2, <1>3, <1>4, <1>5, <1>6, <1>7, <1>8, <1>9 DEF Next, MainStep, Stopped

\* The scheduler keeps the promises of the ledger: no question is tried more than
\* max_retries + 1 times or twice at once, fails early, is announced twice, or is
\* missing when the run finishes.
THEOREM SchedulerKeepsTheLedger == Spec => ImplementsLedger
<1>1. LedgerInv /\ [Next]_vars => [Ledger!Next]_(Ledger!ledger)
  BY LedgerNext
<1> QED BY LedgerInit, <1>1, PlacesInvariant, PTL DEF Spec, ImplementsLedger, Ledger!Spec

-----------------------------------------------------------------------------
(* The refinement of the controller. *)

\* The dispatches a run may make, and those its questions have made.
Dispatches == Questions \X Attempts
Tried == {d \in Dispatches : d[2] <= EntryAttempts[d[1]]}

\* The launches of the last minute are among the dispatches made, and the rate that
\* an attempt reports is at least its own launch and at most all of them.
Rated ==
    /\ launches <= Cardinality(Tried)
    /\ \A q \in Questions : task[q].stage \in Trying =>
         task[q].observed_launch_rpm \in 1..Cardinality(Dispatches)

RatedInv == LedgerInv /\ Rated

\* There are finitely many dispatches.
LEMMA DispatchesFew ==
    /\ IsFiniteSet(Dispatches)
    /\ Cardinality(Dispatches) = Cardinality(Questions) * (MaxRetries + 1)
    /\ Cardinality(Dispatches) \in Nat
<1>1. PICK k \in Int : k = MaxRetries + 1 /\ k > 0
  BY RunConfig
<1>2. IsFiniteSet(Attempts) /\ Cardinality(Attempts) = MaxRetries + 1
  <2>1. 1 \in Int
    OBVIOUS
  <2>2. IsFiniteSet(1..k) /\ Cardinality(1..k) = IF 1 > k THEN 0 ELSE k - 1 + 1
    BY <1>1, <2>1, FS_Interval
  <2>3. Cardinality(1..k) = k
    BY <1>1, <2>2
  <2> QED BY <1>1, <2>2, <2>3 DEF Attempts
<1>3. IsFiniteSet(Dispatches)
      /\ Cardinality(Dispatches) = Cardinality(Questions) * Cardinality(Attempts)
  BY <1>2, RunConfig, FS_Product DEF Dispatches
<1> QED BY <1>2, <1>3, FS_CardinalityType

\* So there are finitely many among them that were made.
LEMMA TriedFew ==
    /\ IsFiniteSet(Tried) /\ Cardinality(Tried) \in Nat
    /\ Cardinality(Tried) <= Cardinality(Dispatches)
<1>1. Tried \in SUBSET Dispatches
  BY DEF Tried
<1> QED BY <1>1, DispatchesFew, FS_Subset, FS_CardinalityType

\* A question has made at most max_retries + 1 attempts.
LEMMA EntryAttemptsTyped ==
    ASSUME LedgerInv, NEW q \in Questions
    PROVE  EntryAttempts[q] \in 0..(MaxRetries + 1)
<1>1. /\ Typed /\ Activity /\ MaxRetries \in Nat
      /\ results \in Seq(Results) /\ DOMAIN results = 1..Len(results)
  BY RunConfig DEF LedgerInv, SchedulerInv, Typed
<1>2. PICK s, n : Entry(q, s, n)
  BY EntryIs DEF EntriesRead
<1>3. EntryAttempts[q] = n
  BY <1>2, EntryIs DEF EntriesRead, EntryAttempts
<1>4. CASE /\ task[q].stage \notin {"none", "publishing"}
           /\ n = AttemptsAt(task[q].stage, task[q].attempt)
  <2>1. task[q].attempt \in 1..(MaxRetries + 1)
    BY <1>1, <1>4 DEF Activity, Attempts
  <2>2. n = task[q].attempt \/ n = task[q].attempt - 1
    BY <1>4 DEF AttemptsAt
  <2> QED BY <1>1, <1>3, <2>1, <2>2
<1>5. CASE \E a \in Attempts : Waits(q, a) /\ n = a - 1
  BY <1>1, <1>3, <1>5 DEF Attempts
<1>6. CASE \E i \in 1..Len(results) : n = results[i].attempts
  <2>1. PICK i \in 1..Len(results) : n = results[i].attempts
    BY <1>6
  <2>2. results[i] \in Results
    BY <1>1, <2>1
  <2> QED BY <1>1, <1>3, <2>1, <2>2 DEF Results, Attempts
<1> QED BY <1>2, <1>4, <1>5, <1>6 DEF Entry

\* A try of the ledger is one more dispatch made.
LEMMA TryCounts ==
    ASSUME LedgerInv, NEW q \in Questions, Ledger!Try(q)
    PROVE  Cardinality(Tried') >= Cardinality(Tried) + 1
<1>1. /\ EntryAttempts' = [EntryAttempts EXCEPT ![q] = EntryAttempts[q] + 1]
      /\ EntryAttempts[q] <= MaxRetries
  BY DEF Ledger!Try, EntryAttempts
<1>2. \A p \in Questions : EntryAttempts[p] \in 0..(MaxRetries + 1)
  BY EntryAttemptsTyped
<1>3. PICK n \in Nat : n = EntryAttempts[q]
  BY <1>2
<1>4. /\ \A p \in Questions : p # q => EntryAttempts'[p] = EntryAttempts[p]
      /\ EntryAttempts'[q] = n + 1
  BY <1>1, <1>3 DEF EntryAttempts
<1>5. PICK d : d = <<q, n + 1>>
  OBVIOUS
<1>6. d \in Dispatches /\ d[1] = q /\ d[2] = n + 1
  BY <1>1, <1>3, <1>5, RunConfig DEF Dispatches, Attempts
<1>7. d \in Tried' /\ d \notin Tried
  BY <1>3, <1>4, <1>6 DEF Tried, Dispatches
<1>8. Tried \subseteq Tried'
  <2>1. ASSUME NEW e \in Tried PROVE e \in Tried'
    <3>1. e \in Dispatches /\ e[1] \in Questions /\ e[2] \in Nat /\ e[2] <= EntryAttempts[e[1]]
      BY <2>1, RunConfig DEF Tried, Dispatches, Attempts
    <3>2. e[2] <= EntryAttempts'[e[1]]
      BY <1>2, <1>3, <1>4, <3>1
    <3> QED BY <3>1, <3>2 DEF Tried, Dispatches
  <2> QED BY <2>1
<1>9. Tried \cup {d} \in SUBSET Tried' /\ Tried' \in SUBSET Dispatches
  BY <1>7, <1>8 DEF Tried, Dispatches
<1>10. Cardinality(Tried \cup {d}) = Cardinality(Tried) + 1
  BY <1>7, TriedFew, FS_AddElement
<1>11. IsFiniteSet(Tried') /\ Cardinality(Tried \cup {d}) <= Cardinality(Tried')
       /\ Cardinality(Tried') \in Nat
  BY <1>9, DispatchesFew, FS_Subset, FS_CardinalityType
<1> QED BY <1>10, <1>11, TriedFew

\* No step takes a dispatch back.
LEMMA TriedKept ==
    ASSUME LedgerInv, [Next]_vars
    PROVE  Cardinality(Tried') >= Cardinality(Tried)
<1>1. Ledger!Next \/ UNCHANGED Ledger!ledger
  BY LedgerNext
<1>2. ASSUME NEW q \in Questions, Ledger!Try(q)
      PROVE  Cardinality(Tried') >= Cardinality(Tried)
  <2>1. PICK c \in Nat : c = Cardinality(Tried)
    BY TriedFew
  <2>2. Tried' \in SUBSET Dispatches
    BY DEF Tried, Dispatches
  <2>3. PICK d \in Nat : d = Cardinality(Tried')
    BY <2>2, DispatchesFew, FS_Subset, FS_CardinalityType
  <2>4. d >= c + 1
    BY <1>2, <2>1, <2>3, TryCounts
  <2> QED BY <2>1, <2>3, <2>4
<1>3. CASE EntryAttempts' = EntryAttempts
  <2>1. Tried' = Tried
    BY <1>3 DEF Tried, Dispatches
  <2> QED BY <2>1, TriedFew
<1>4. (\E q \in Questions : Ledger!Try(q)) \/ EntryAttempts' = EntryAttempts
  BY <1>1 DEF Ledger!Next, Ledger!ledger, Ledger!GiveBack, Ledger!Settle, Ledger!Announce,
     Ledger!Finish, Ledger!Abort, EntryAttempts
<1> QED BY <1>2, <1>3, <1>4

-----------------------------------------------------------------------------
(* The rates that the attempts report. *)

\* A dispatch reports the launches so far, its own included.
LEMMA DispatchRates ==
    ASSUME NEW f \in [Questions -> Tasks], NEW q \in Questions,
           NEW rpm \in Nat, NEW n \in Nat
    PROVE  Launched(f, q, rpm, n)[q].observed_launch_rpm = rpm
<1> DEFINE g1 == [f EXCEPT ![q].stage = "in_flight"]
           g2 == [g1 EXCEPT ![q].observed_launch_rpm = rpm]
           g3 == [g2 EXCEPT ![q].observed_in_flight = n]
<1>1. Launched(f, q, rpm, n) = g3
  BY DEF Launched
<1>2. g1 \in [Questions -> Tasks]
  BY DEF Tasks, Stages
<1> HIDE DEF g1
<1>3. g2 \in [Questions -> Tasks] /\ g2[q].observed_launch_rpm = rpm
  BY <1>2 DEF Tasks
<1> HIDE DEF g2
<1>4. g3[q].observed_launch_rpm = rpm
  BY <1>3 DEF Tasks
<1> QED BY <1>1, <1>4

\* The end of a request keeps what its dispatch reported.
LEMMA ReplyKeepsRate ==
    ASSUME NEW f \in [Questions -> Tasks], NEW q \in Questions,
           NEW outcome \in Outcomes
    PROVE  Answered(f, q, outcome)[q].observed_launch_rpm = f[q].observed_launch_rpm
<1> DEFINE g1 == [f EXCEPT ![q].stage = "done"]
           g2 == [g1 EXCEPT ![q].outcome = outcome]
<1>1. Answered(f, q, outcome) = g2
  BY DEF Answered
<1>2. g1 \in [Questions -> Tasks] /\ g1[q].observed_launch_rpm = f[q].observed_launch_rpm
  BY DEF Tasks, Stages
<1> HIDE DEF g1
<1>3. g2[q].observed_launch_rpm = f[q].observed_launch_rpm
  BY <1>2 DEF Tasks
<1> QED BY <1>1, <1>3

\* A step of a task is a dispatch, which counts and reports a launch, or leaves the
\* launches and what was reported alone.
LEMMA TaskRates ==
    ASSUME SchedulerInv, NEW q \in Questions, TaskStep(q)
    PROVE  \/ /\ task'[q].stage = "in_flight"
              /\ launches' = launches + 1
              /\ task'[q].observed_launch_rpm = launches + 1
           \/ /\ launches' = launches
              /\ task'[q].stage \in Trying =>
                   /\ task[q].stage \in Trying
                   /\ task'[q].observed_launch_rpm = task[q].observed_launch_rpm
<1>1. /\ task \in [Questions -> Tasks] /\ launches + 1 \in Nat /\ http_in_flight + 1 \in Nat
  BY DEF SchedulerInv, Typed
<1>2. ASSUME NEW s \in {"pausing", "queued", "pacing"}, task' = [task EXCEPT ![q].stage = s],
             launches' = launches
      PROVE  launches' = launches /\ task'[q].stage \notin Trying
  BY <1>1, <1>2 DEF Trying, Tasks
<1>3. ASSUME Dispatch(q)
      PROVE  /\ task'[q].stage = "in_flight"
             /\ launches' = launches + 1
             /\ task'[q].observed_launch_rpm = launches + 1
  <2>1. task' = Launched(task, q, launches + 1, http_in_flight + 1)
    BY <1>3 DEF Dispatch, Launched
  <2> QED BY <1>1, <1>3, <2>1, DispatchRates, DispatchChanges DEF Dispatch, Differs
<1>4. ASSUME NEW queue, EnterSlot(q, queue)
      PROVE  \/ Dispatch(q)
             \/ launches' = launches /\ task'[q].stage \notin Trying
  BY <1>2, <1>4 DEF EnterSlot
<1>5. CASE StartPaused(q)
  BY <1>2, <1>5 DEF StartPaused
<1>6. CASE TakeSlot(q)
  BY <1>2, <1>3, <1>4, <1>6 DEF TakeSlot
<1>7. CASE SlotGranted(q)
  BY <1>3, <1>4, <1>7 DEF SlotGranted
<1>8. CASE PacingEnds(q)
  BY <1>3, <1>8 DEF PacingEnds
<1>9. ASSUME NEW outcome \in Outcomes, Reply(q, outcome)
      PROVE  /\ launches' = launches
             /\ task[q].stage \in Trying
             /\ task'[q].observed_launch_rpm = task[q].observed_launch_rpm
  <2>1. task' = Answered(task, q, outcome) /\ task[q].stage = "in_flight"
    BY <1>9 DEF Reply, Answered
  <2> QED BY <1>1, <1>9, <2>1, ReplyKeepsRate DEF Reply, Trying
<1> QED BY <1>5, <1>6, <1>7, <1>8, <1>9 DEF TaskStep

\* No other step counts a launch or leaves a task that it changed with a request.
LEMMA OthersRate ==
    ASSUME SchedulerInv, MainStep \/ Clock \/ UNCHANGED vars
    PROVE  /\ launches' <= launches /\ launches' \in Nat
           /\ \A p \in Questions : task'[p].stage \in Trying => task'[p] = task[p]
<1>1. task \in [Questions -> Tasks] /\ launches \in Nat
  BY DEF SchedulerInv, Typed
<1>2. ASSUME NEW q \in Questions, Differs(task, task', q, "publishing") \/ task' = [task EXCEPT ![q] = NoTask]
      PROVE  \A p \in Questions : task'[p].stage \in Trying => task'[p] = task[p]
  BY <1>1, <1>2 DEF Differs, NoTask, Trying
<1>3. CASE Iterate
  <2>1. launches' = launches
    BY <1>3 DEF Iterate
  <2> QED BY <1>1, <1>3, <2>1, IterateMoves DEF Trying
<1>4. ASSUME NEW q \in Questions, HandleSuccess(q)
      PROVE  /\ launches' <= launches /\ launches' \in Nat
             /\ \A p \in Questions : task'[p].stage \in Trying => task'[p] = task[p]
  <2>1. task[q].attempt \in Attempts /\ Record(q, "success") /\ launches' = launches
        /\ "success" \in {"success", "failed"}
    BY <1>4, HandledIsDone DEF HandleSuccess
  <2>2. Differs(task, task', q, "publishing")
    BY <2>1, RecordKeeps
  <2>3. \A p \in Questions : task'[p].stage \in Trying => task'[p] = task[p]
    BY <1>2, <2>2
  <2> QED BY <1>1, <2>1, <2>3
<1>5. ASSUME NEW q \in Questions, HandleFailure(q)
      PROVE  /\ launches' <= launches /\ launches' \in Nat
             /\ \A p \in Questions : task'[p].stage \in Trying => task'[p] = task[p]
  <2>1. /\ task[q].attempt \in Attempts /\ launches' = launches
        /\ "failed" \in {"success", "failed"}
        /\ Record(q, "failed") \/ task' = [task EXCEPT ![q] = NoTask]
    BY <1>5, HandledIsDone DEF HandleFailure
  <2>2. Differs(task, task', q, "publishing") \/ task' = [task EXCEPT ![q] = NoTask]
    BY <2>1, RecordKeeps
  <2>3. \A p \in Questions : task'[p].stage \in Trying => task'[p] = task[p]
    BY <1>2, <2>2
  <2> QED BY <1>1, <2>1, <2>3
<1>6. ASSUME NEW q \in Questions, Publish(q)
      PROVE  /\ launches' <= launches /\ launches' \in Nat
             /\ \A p \in Questions : task'[p].stage \in Trying => task'[p] = task[p]
  <2>1. task' = [task EXCEPT ![q] = NoTask] /\ launches' = launches
    BY <1>6 DEF Publish
  <2>2. \A p \in Questions : task'[p].stage \in Trying => task'[p] = task[p]
    BY <1>2, <2>1
  <2> QED BY <1>1, <2>1, <2>2
<1>7. CASE UNCHANGED <<task, launches>>
  BY <1>1, <1>7
<1>8. CASE LaunchAges
  <2>1. task' = task /\ launches' = launches - 1 /\ launches > 0
    BY <1>8 DEF LaunchAges, ClockUnchanged
  <2> QED BY <1>1, <2>1
<1>9. \/ Iterate \/ LaunchAges \/ UNCHANGED <<task, launches>>
      \/ \E q \in Questions : HandleSuccess(q) \/ HandleFailure(q) \/ Publish(q)
  BY DEF MainStep, WaitReturns, SleepEnds, HandleException, PublishFails, FinishRun, Clock,
     PauseElapses, IntervalElapses, DelayElapses, ClockUnchanged, vars
<1> QED BY <1>3, <1>4, <1>5, <1>6, <1>7, <1>8, <1>9

\* The rates that are reported stay within the dispatches of the run.
LEMMA RatedKept == RatedInv /\ [Next]_vars => RatedInv'
<1> SUFFICES ASSUME RatedInv, [Next]_vars
             PROVE  RatedInv'
  OBVIOUS
<1>1. /\ LedgerInv /\ LedgerInv' /\ SchedulerInv /\ Rated
      /\ launches \in Nat
  BY LedgerInvKept DEF RatedInv, LedgerInv, SchedulerInv, Typed
<1>2. PICK limit \in Nat : limit = Cardinality(Dispatches)
  BY DispatchesFew
<1>3. PICK c \in Nat : c = Cardinality(Tried)
  BY TriedFew
<1>4. PICK d \in Nat : d = Cardinality(Tried')
  <2>1. Tried' \in SUBSET Dispatches
    BY DEF Tried, Dispatches
  <2>2. IsFiniteSet(Tried') /\ Cardinality(Tried') \in Nat
    BY <2>1, DispatchesFew, FS_Subset, FS_CardinalityType
  <2> QED BY <2>2
<1>5. d <= limit
  <2>1. Tried' \in SUBSET Dispatches
    BY DEF Tried, Dispatches
  <2>2. Cardinality(Tried') <= Cardinality(Dispatches)
    BY <2>1, DispatchesFew, FS_Subset
  <2> QED BY <1>2, <1>4, <2>2
<1>6. d >= c /\ launches <= c
  BY <1>1, <1>3, <1>4, TriedKept DEF Rated
<1>7. Dispatches' = Dispatches
  BY DEF Dispatches
<1>8. ASSUME launches' \in Nat, launches' <= d,
             \A p \in Questions : task'[p].stage \in Trying =>
               \/ /\ task[p].stage \in Trying
                  /\ task'[p].observed_launch_rpm = task[p].observed_launch_rpm
               \/ task'[p].observed_launch_rpm = launches' /\ launches' >= 1
      PROVE  RatedInv'
  <2>1. \A p \in Questions : task'[p].stage \in Trying =>
          task'[p].observed_launch_rpm \in 1..limit
    BY <1>1, <1>2, <1>4, <1>5, <1>8 DEF Rated
  <2>2. Rated'
    BY <1>2, <1>4, <1>7, <1>8, <2>1 DEF Rated, Trying
  <2> QED BY <1>1, <2>2 DEF RatedInv
<1>9. ASSUME NEW q \in Questions, TaskStep(q)
      PROVE  RatedInv'
  <2>1. \A p \in Questions : p # q => task'[p] = task[p]
    BY <1>1, <1>9, TaskMoves DEF Differs
  <2>2. CASE task'[q].stage = "in_flight" /\ launches' = launches + 1
             /\ task'[q].observed_launch_rpm = launches + 1
    <3>1. Ledger!Try(q)
      BY <1>1, <1>9, <2>2, TaskLedger
    <3>2. d >= c + 1
      BY <1>1, <1>3, <1>4, <3>1, TryCounts
    <3>3. launches' \in Nat /\ launches' <= d /\ launches' >= 1
          /\ task'[q].observed_launch_rpm = launches'
      BY <1>1, <1>6, <2>2, <3>2
    <3> QED BY <1>8, <2>1, <3>3
  <2>3. CASE /\ launches' = launches
             /\ task'[q].stage \in Trying =>
                   /\ task[q].stage \in Trying
                   /\ task'[q].observed_launch_rpm = task[q].observed_launch_rpm
    <3>1. launches' \in Nat /\ launches' <= d
      BY <1>1, <1>6, <2>3
    <3> QED BY <1>8, <2>1, <2>3, <3>1
  <2> QED BY <1>1, <1>9, <2>2, <2>3, TaskRates
<1>10. CASE MainStep \/ Clock \/ UNCHANGED vars
  <2>1. /\ launches' <= launches /\ launches' \in Nat
        /\ \A p \in Questions : task'[p].stage \in Trying => task'[p] = task[p]
    BY <1>1, <1>10, OthersRate
  <2>2. launches' <= d
    BY <1>1, <1>6, <2>1
  <2> QED BY <1>8, <2>1, <2>2
<1> QED BY <1>9, <1>10 DEF Next, Stopped

\* At the start nothing was launched.
LEMMA RatedInit == Init => RatedInv
<1> SUFFICES ASSUME Init PROVE RatedInv
  OBVIOUS
<1>1. launches = 0 /\ task = [q \in Questions |-> NoTask]
  BY DEF Init
<1>2. Rated
  BY <1>1, TriedFew DEF Rated, Trying, NoTask
<1> QED BY <1>2, LedgerInvInit DEF RatedInv

\* The launch rate that an attempt reports to the controller is positive and at most
\* the number of dispatches that the run can make, whatever ages out of the minute.
THEOREM RatesInvariant == Spec => []RatedInv
  BY RatedInit, RatedKept, PTL DEF Spec

\* A step of the run is a step of the controller or leaves it alone.
LEMMA ControllerNext ==
    ASSUME Cardinality(Questions) * (MaxRetries + 1) <= ObservableRpm,
           RatedInv, [Next]_vars
    PROVE  CtlNext \/ UNCHANGED controller
<1>1. SchedulerInv /\ Rated
  BY DEF RatedInv, LedgerInv
<1>2. ASSUME NEW q \in Questions, HandleSuccess(q)
      PROVE  CtlNext
  BY <1>2 DEF HandleSuccess, CtlNext, Succeed
<1>3. ASSUME NEW q \in Questions, HandleFailure(q)
      PROVE  CtlNext \/ UNCHANGED controller
  <2>1. /\ task[q].stage = "done"
        /\ task[q].observed_in_flight \in 1..MaxTargetConcurrency
    BY <1>1, <1>3, HandledIsDone DEF HandleFailure
  <2>2. task[q].observed_launch_rpm \in 1..Cardinality(Dispatches)
    BY <1>1, <2>1 DEF Rated, Trying
  <2>3. task[q].observed_launch_rpm \in 1..ObservableRpm
    BY <2>2, DispatchesFew, FactorConfig
  <2>4. React(task[q])
    BY <1>3 DEF HandleFailure
  <2> QED BY <2>1, <2>3, <2>4 DEF React, CtlNext, RateLimited
<1>4. CASE ~ \E q \in Questions : HandleSuccess(q) \/ HandleFailure(q)
  BY <1>4 DEF Next, MainStep, Iterate, WaitReturns, SleepEnds, HandleException, Publish,
     PublishFails, FinishRun, TaskStep, StartPaused, TakeSlot, SlotGranted, PacingEnds, Reply,
     TaskUnchanged, Clock, PauseElapses, IntervalElapses, DelayElapses, LaunchAges,
     ClockUnchanged, Stopped, vars
<1> QED BY <1>2, <1>3, <1>4

\* The scheduler drives its controller only as the controller alone may be driven:
\* by the outcome of one attempt at a time, with at most max_target_concurrency
\* requests reported in flight and, since every attempt launches once, no rate above
\* the number of attempts.
THEOREM SchedulerDrivesTheController ==
    ASSUME Cardinality(Questions) * (MaxRetries + 1) <= ObservableRpm
    PROVE  Spec => ImplementsController
<1>1. Init => CtlInit
  BY DEF Init
<1>2. RatedInv /\ [Next]_vars => [CtlNext]_controller
  BY ControllerNext
<1> QED BY <1>1, <1>2, RatesInvariant, PTL DEF Spec, ImplementsController, CtlSpec

\* So what the controller promises of its learning holds in every run: no estimate is
\* forgotten or relaxed, and no slot is gained without a streak of successes.
COROLLARY LearningInARun ==
    ASSUME Cardinality(Questions) * (MaxRetries + 1) <= ObservableRpm
    PROVE  Spec => LearningIsMonotone /\ GrowthIsEarned /\ []PaceCoversLearnedLimit
  BY SchedulerDrivesTheController, LearningStaysMonotone, GrowthIsAlwaysEarned,
     PaceStaysCovering, PTL DEF ImplementsController

=============================================================================
