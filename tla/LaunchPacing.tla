---------------------------- MODULE LaunchPacing ----------------------------
(***************************************************************************)
(* The timing of the adaptive scheduler, with a clock: when the attempts   *)
(* of a run are launched.  A task looks at the global pause of             *)
(* SchedulerRuntime, waits for launch_lock and for its launch slot, and    *)
(* sends its request; a refused one pauses everybody and is retried after  *)
(* a delay by DelayedRetries.  AimdScheduler lets all these sleeps end at  *)
(* any time; this module shows what their lengths guarantee.               *)
(*                                                                         *)
(* The target is left to AimdScheduler: whatever is ready is launched.  A  *)
(* sleep ends at its time or later, since the event loop may be busy.      *)
(***************************************************************************)
EXTENDS Integers, Sequences, FiniteSets, SequencesExt

CONSTANTS
    Questions,      \* the questions of the run
    MaxAttempts,    \* max_retries + 1
    Intervals,      \* the values launch_interval_sec takes, in ticks
    RetryAfters,    \* the values of Retry-After, in ticks
    Backoffs,       \* the delays after other errors, in ticks
    Jitter,         \* the largest jitter added to a pause or a delay
    Window,         \* the 60 seconds of launch_rpm
    Horizon         \* bound: the last instant of the clock

ASSUME PacingConfig ==
    /\ IsFiniteSet(Questions)
    /\ MaxAttempts \in Nat \ {0}
    /\ Intervals \subseteq 1..Horizon /\ Intervals # {}
    /\ RetryAfters \subseteq Nat \ {0}
    /\ Backoffs \subseteq Nat \ {0}
    /\ Jitter \in Nat
    /\ Window \in Nat
    /\ Horizon \in Nat

VARIABLES
    now,             \* time.monotonic()
    items,           \* DelayedRetries._items: ready_at and question, in no order
    wake_at,         \* when the suspension of the loop times out, Awake or Never
    task,            \* the question's place and the data of its attempt
    launch_lock,     \* tasks in the lock: its holder or next holder, then waiters
    last_launch_at,
    interval,        \* controller.launch_interval_sec
    pause_until,
    wait_intervals,  \* RunMetrics.wait_intervals: the pauses, as they were set
    timestamps,      \* SchedulerMetrics.launch_timestamps
    launches,        \* history: the requests sent
    pauses,          \* history: the pauses asked for by 429s
    changes          \* history: how often the interval has changed

loop == <<items, wake_at>>
slot == <<launch_lock, last_launch_at, timestamps, launches>>
control == <<interval, pause_until, wait_intervals, pauses, changes>>
vars == <<now, loop, task, slot, control>>

Awake == -1
Never == 3 * Horizon + 1
LongAgo == -Horizon

\* pending: in the deque                 delayed: in DelayedRetries
\* created: launched, not yet run        pausing: asleep in respect_global_pause
\* queued:  waiting for launch_lock      pacing:  asleep in _wait_launch_slot
\* in_flight, done
Stages == {"pending", "delayed", "created", "pausing", "queued", "pacing",
           "in_flight", "done"}

\* until: when its sleep ends; due: when its attempt may start; passed: when it
\* last found no pause; gap, seen: the interval it waits for, and its version
Fresh == [stage |-> "pending", attempt |-> 1, due |-> 0, until |-> 0, passed |-> 0,
          gap |-> 0, seen |-> 0]

Init ==
    /\ now = 0
    /\ items = {}
    /\ wake_at = Awake
    /\ task = [q \in Questions |-> Fresh]
    /\ launch_lock = <<>>
    /\ last_launch_at = LongAgo
    /\ interval \in Intervals
    /\ pause_until = 0
    /\ wait_intervals = <<>>
    /\ timestamps = <<>>
    /\ launches = <<>>
    /\ pauses = {}
    /\ changes = 0

-----------------------------------------------------------------------------
(* SchedulerMetrics._prune. *)

\* Only the first entry that is old is removed.
FaultyPruned(ts) == IF ts # <<>> /\ now - Head(ts) > Window THEN Tail(ts) ELSE ts

\* The loop of popleft stops at the first entry that is not old.
Expired(ts) ==
    CHOOSE n \in 0..Len(ts) :
        /\ \A i \in 1..n : now - ts[i] > Window
        /\ n < Len(ts) => now - ts[n + 1] <= Window

Pruned(ts) == SubSeq(ts, Expired(ts) + 1, Len(ts))

-----------------------------------------------------------------------------
(* The loop of run_questions and its delayed retries. *)

\* Takes the list for sorted, from the wrong end.
FaultyNextReadyAt(retries) == Max({item.ready_at : item \in retries})

NextReadyAt(retries) == Min({item.ready_at : item \in retries})

\* next_delay, as the instant at which it ends; None when nothing is delayed.
NextDelay(retries) ==
    IF retries = {} THEN Never ELSE Max({now, NextReadyAt(retries)})

\* The list is not rebuilt.
FaultyKept(retries) == retries

Kept(retries) == {item \in retries : item.ready_at > now}

\* refresh, move_ready_to and _launch_available, then the suspension.
Iterate ==
    /\ wake_at = Awake
    /\ LET ready == {item.question : item \in {x \in items : x.ready_at <= now}} IN
       task' = [q \in Questions |->
                   IF q \in ready \/ task[q].stage = "pending"
                   THEN [task[q] EXCEPT !.stage = "created"] ELSE task[q]]
    /\ items' = Kept(items)
    /\ wake_at' = NextDelay(items')
    /\ timestamps' = Pruned(timestamps)
    /\ UNCHANGED <<now, launch_lock, last_launch_at, launches, control>>

\* A task completes before the timeout, or the timeout fires.
Resume ==
    /\ wake_at # Awake
    /\ now >= wake_at \/ \E q \in Questions : task[q].stage = "in_flight"
    /\ wake_at' = Awake
    /\ UNCHANGED <<now, items, task, slot, control>>

-----------------------------------------------------------------------------
(* A task: _run_one_attempt. *)

\* The slot is taken when the wait is computed, not when it is over.
FaultyLaunchedAt(t) == t.until - t.gap

LaunchedAt(t) == now

\* The end of _wait_launch_slot, and record_launch; rest waits for the lock.
Launch(q, t, rest) ==
    /\ last_launch_at' = LaunchedAt(t)
    /\ timestamps' = Pruned(Append(timestamps, now))
    /\ launches' = Append(launches,
                          [question |-> q, at |-> now, due |-> t.due, passed |-> t.passed,
                           gap |-> t.gap, seen |-> t.seen, changes |-> changes,
                           launch_rpm |-> Len(timestamps')])
    /\ launch_lock' = rest
    /\ task' = [task EXCEPT ![q] = [Fresh EXCEPT !.stage = "in_flight",
                                                 !.attempt = t.attempt]]

\* The holder of the lock computes its wait from the interval of this moment.
TakeSlot(q, t, rest) ==
    LET slot_at == last_launch_at + interval
        holder == [t EXCEPT !.gap = interval, !.seen = changes]
    IN  \/ /\ slot_at <= now
           /\ Launch(q, holder, rest)
        \/ /\ slot_at > now
           /\ task' = [task EXCEPT ![q] = [holder EXCEPT !.stage = "pacing",
                                                      !.until = slot_at]]
           /\ launch_lock' = <<q>> \o rest
           /\ UNCHANGED <<last_launch_at, timestamps, launches>>

PauseSeen == now < pause_until

\* The body of respect_global_pause, then the lock.
LookAtPause(q) ==
    LET t == [task[q] EXCEPT !.passed = now] IN
    \/ /\ PauseSeen
       /\ task' = [task EXCEPT ![q].stage = "pausing", ![q].until = pause_until]
       /\ UNCHANGED slot
    \/ /\ ~PauseSeen /\ launch_lock = <<>>
       /\ TakeSlot(q, t, <<>>)
    \/ /\ ~PauseSeen /\ launch_lock # <<>>
       /\ task' = [task EXCEPT ![q] = [t EXCEPT !.stage = "queued"]]
       /\ launch_lock' = Append(launch_lock, q)
       /\ UNCHANGED <<last_launch_at, timestamps, launches>>

Start(q) ==
    /\ task[q].stage = "created"
    /\ LookAtPause(q)
    /\ UNCHANGED <<now, loop, control>>

PauseSleepEnds(q) ==
    /\ task[q].stage = "pausing" /\ now >= task[q].until
    /\ LookAtPause(q)
    /\ UNCHANGED <<now, loop, control>>

SlotGranted(q) ==
    /\ launch_lock # <<>> /\ q = Head(launch_lock)
    /\ task[q].stage = "queued"
    /\ TakeSlot(q, task[q], Tail(launch_lock))
    /\ UNCHANGED <<now, loop, control>>

PacingEnds(q) ==
    /\ task[q].stage = "pacing" /\ now >= task[q].until
    /\ Launch(q, task[q], Tail(launch_lock))
    /\ UNCHANGED <<now, loop, control>>

-----------------------------------------------------------------------------
(* The handling of an outcome: _handle_outcome. *)

TasksStarted == \A q \in Questions : task[q].stage # "created"

HandledNow(q) == wake_at = Awake /\ TasksStarted /\ task[q].stage = "in_flight"

\* DelayedRetries.schedule, or the result of the last attempt.
RetryOrFail(q, delay) ==
    IF task[q].attempt < MaxAttempts
    THEN /\ items' = items \cup {[ready_at |-> now + delay, question |-> q]}
         /\ task' = [task EXCEPT ![q] = [Fresh EXCEPT !.stage = "delayed",
                                                      !.attempt = task[q].attempt + 1,
                                                      !.due = now + delay]]
    ELSE /\ task' = [task EXCEPT ![q].stage = "done"]
         /\ UNCHANGED items

\* What the controller makes of an outcome: any interval.
Retune == interval' \in Intervals /\ changes' = changes + (IF interval' = interval THEN 0 ELSE 1)

\* The pause of the last 429 replaces the others.
FaultyPausedUntil(candidate) == candidate

PausedUntil(candidate) == Max({pause_until, candidate})

Succeed(q) ==
    /\ HandledNow(q)
    /\ task' = [task EXCEPT ![q].stage = "done"]
    /\ Retune
    /\ UNCHANGED <<now, loop, slot, pause_until, wait_intervals, pauses>>

\* A 429 for the request rate or of an unknown kind: the retry and the pause have
\* a jitter each.
RateLimited(q, retry_after) ==
    /\ HandledNow(q)
    /\ \E jitter \in 0..Jitter :
         LET candidate == now + retry_after + jitter IN
         /\ pause_until' = PausedUntil(candidate)
         /\ wait_intervals' = Append(wait_intervals, [start |-> now, end |-> pause_until'])
         /\ pauses' = pauses \cup {[from |-> now, until |-> candidate]}
    /\ Retune
    /\ \E jitter \in 0..Jitter : RetryOrFail(q, retry_after + jitter)
    /\ UNCHANGED <<now, wake_at, slot>>

\* A 429 for the concurrency, or a client error: no pause.
FailsAlone(q, delay) ==
    /\ HandledNow(q)
    /\ \E jitter \in 0..Jitter : RetryOrFail(q, delay + jitter)
    /\ UNCHANGED <<now, wake_at, slot, control>>

-----------------------------------------------------------------------------
(* RunMetrics.wait_wall_sec: how long the run has been told to wait. *)

Merge(merged, wait) ==
    IF wait.end <= wait.start THEN merged
    ELSE IF merged = <<>> \/ wait.start > Last(merged).end THEN Append(merged, wait)
    ELSE [merged EXCEPT ![Len(merged)].end = Max({@, wait.end})]

Earlier(a, b) == a.start < b.start \/ (a.start = b.start /\ a.end < b.end)

\* Where sorted() puts the wait at i.
Place(waits, i) ==
    Cardinality({j \in DOMAIN waits : \/ Earlier(waits[j], waits[i])
                                      \/ (waits[j] = waits[i] /\ j <= i)})

Sorted(waits) ==
    [place \in DOMAIN waits |->
        waits[CHOOSE i \in DOMAIN waits : Place(waits, i) = place]]

Merged(waits) ==
    LET merged[n \in 0..Len(waits)] ==
            IF n = 0 THEN <<>> ELSE Merge(merged[n - 1], waits[n])
    IN  merged[Len(waits)]

Duration(waits) ==
    LET duration[n \in 0..Len(waits)] ==
            IF n = 0 THEN 0 ELSE duration[n - 1] + waits[n].end - waits[n].start
    IN  duration[Len(waits)]

WaitWall(waits) == Duration(Merged(Sorted(waits)))

-----------------------------------------------------------------------------

Tick ==
    /\ now < Horizon
    /\ now' = now + 1
    /\ UNCHANGED <<loop, task, slot, control>>

Next ==
    \/ Iterate
    \/ Resume
    \/ \E q \in Questions :
          \/ Start(q)
          \/ PauseSleepEnds(q)
          \/ SlotGranted(q)
          \/ PacingEnds(q)
          \/ Succeed(q)
          \/ \E retry_after \in RetryAfters : RateLimited(q, retry_after)
          \/ \E delay \in RetryAfters \cup Backoffs : FailsAlone(q, delay)
    \/ Tick

Spec == Init /\ [][Next]_vars

-----------------------------------------------------------------------------

\* Every variable keeps its type, and a question is in one place: delayed once,
\* or once in the lock, or neither.
TypeOK ==
    /\ now \in 0..Horizon
    /\ wake_at \in {Awake} \cup Nat
    /\ task \in [Questions -> [stage : Stages, attempt : 1..MaxAttempts, due : Nat,
                               until : Nat, passed : 0..Horizon,
                               gap : {0} \cup Intervals, seen : 0..changes]]
    /\ interval \in Intervals
    /\ last_launch_at \in {LongAgo} \cup 0..now
    /\ IsInjective(launch_lock)
    /\ ToSet(launch_lock) = {q \in Questions : task[q].stage \in {"queued", "pacing"}}
    /\ {item.question : item \in items} = {q \in Questions : task[q].stage = "delayed"}
    /\ Cardinality(items) = Cardinality({q \in Questions : task[q].stage = "delayed"})

\* A retry is neither late nor early: the loop does not sleep past the first one
\* that is due, in whatever order they were scheduled, and none is sent before
\* its delay is over.
RetriesOnTime ==
    /\ wake_at # Awake => \A item \in items : wake_at <= item.ready_at
    /\ \A i \in DOMAIN launches : launches[i].at >= launches[i].due

\* Launches are spaced by an interval that was in force after the launch before
\* them: a 429 that lengthens it during a pacing sleep misses that one launch,
\* and no other.
LaunchesSpaced ==
    \A i \in 1..(Len(launches) - 1) :
        /\ launches[i + 1].at >= launches[i].at + launches[i + 1].gap
        /\ launches[i + 1].seen >= launches[i].changes

\* Every Retry-After is waited for to its end, however many overlap, by all tasks
\* but those that had found no pause before it was set.
PausesRespected ==
    \A i \in DOMAIN launches : \A pause \in pauses :
        launches[i].at \in pause.from..(pause.until - 1)
            => launches[i].passed <= pause.from

\* Two numbers of the run agree with what happened: the launch rate an attempt
\* reports, from which the controller learns, counts the launches of the last minute
\* and no older one, and the waiting time in the logs is the time that lies in a
\* pause, counted once where pauses overlap.
TimedMetricsExact ==
    /\ \A i \in DOMAIN launches :
          launches[i].launch_rpm =
              Cardinality({j \in 1..i : launches[i].at - launches[j].at <= Window})
    /\ WaitWall(wait_intervals) =
          Cardinality(UNION {pause.from..(pause.until - 1) : pause \in pauses})

=============================================================================
