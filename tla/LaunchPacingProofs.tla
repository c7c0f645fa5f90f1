-------------------------- MODULE LaunchPacingProofs --------------------------
(***************************************************************************)
(* Proofs about the timing of the adaptive scheduler, for every set of     *)
(* intervals, delays, pauses and jitters: launches are spaced, pauses are  *)
(* waited for, and retries are neither early nor slept past; the types     *)
(* with their bounds hold; and the launch rate and the waiting time that a *)
(* run reports are the numbers they stand for.                             *)
(***************************************************************************)
EXTENDS LaunchPacing, WellFoundedInduction, SequenceTheorems, FiniteSetTheorems,
        FunctionTheorems, TLAPS

Tasks == [stage : Stages, attempt : Nat, due : Nat, until : Nat, passed : Nat,
          gap : Nat, seen : Nat]

OnLock(lock, q) == \E i \in 1..Len(lock) : lock[i] = q
Once(lock) == \A i, j \in 1..Len(lock) : lock[i] = lock[j] => i = j

\* The types, but for the launch rate that launches report.
Typed ==
    /\ now \in Nat
    /\ items \subseteq [ready_at : Nat, question : Questions]
    /\ wake_at \in Int
    /\ task \in [Questions -> Tasks]
    /\ launch_lock \in Seq(Questions)
    /\ last_launch_at \in Int
    /\ interval \in Nat
    /\ pause_until \in Nat
    /\ changes \in Nat
    /\ \A pause \in pauses : pause.from \in Nat /\ pause.until \in Nat
    /\ \E S : launches \in Seq(S)
    /\ \A i \in 1..Len(launches) :
          /\ launches[i].at \in Nat /\ launches[i].due \in Nat
          /\ launches[i].passed \in Nat /\ launches[i].gap \in Nat
          /\ launches[i].seen \in Nat /\ launches[i].changes \in Nat

\* launch_lock holds the tasks that queue and the one that sleeps, which has it.
Locking ==
    /\ Once(launch_lock)
    /\ \A q \in Questions :
          task[q].stage \in {"queued", "pacing"} <=> OnLock(launch_lock, q)
    /\ \A q \in Questions : task[q].stage = "pacing" => launch_lock[1] = q

\* Nothing is launched while a task sleeps in its slot, and the interval it waits for
\* was read after the last launch.
Spacing ==
    /\ last_launch_at <= now
    /\ Len(launches) > 0 =>
          /\ last_launch_at = launches[Len(launches)].at
          /\ launches[Len(launches)].changes <= changes
    /\ \A q \in Questions : task[q].stage = "pacing" =>
          /\ task[q].until = last_launch_at + task[q].gap
          /\ Len(launches) > 0 => task[q].seen >= launches[Len(launches)].changes
    /\ LaunchesSpaced

\* t has looked at the pause: before a pause was set, or when it was over.
Looked(t) ==
    /\ t.passed <= now
    /\ \A pause \in pauses : t.passed <= pause.from \/ pause.until <= t.passed

Passing ==
    /\ \A pause \in pauses : pause.from <= now /\ pause.until <= pause_until
    /\ \A q \in Questions : task[q].stage \in {"queued", "pacing"} => Looked(task[q])
    /\ \A i \in 1..Len(launches) :
          launches[i].passed <= launches[i].at /\ launches[i].at <= now
    /\ PausesRespected

\* The entry of a delayed question says when it is due, and no other question is early.
Retrying ==
    /\ \A item \in items : task[item.question].stage = "delayed"
                           /\ item.ready_at = task[item.question].due
    /\ \A q \in Questions : task[q].stage # "delayed" => task[q].due <= now
    /\ RetriesOnTime

PacingInv ==
    /\ Typed
    /\ Locking
    /\ Spacing
    /\ Passing
    /\ Retrying

-----------------------------------------------------------------------------
(* Helpers. *)

\* A set of instants has a first.
LEMMA FirstInstant ==
    ASSUME NEW S, S \subseteq Nat, S # {}
    PROVE  \E x \in S : \A y \in S : x <= y
<1> DEFINE R == {ss \in Nat \X Nat : ss[1] < ss[2]}
<1>1. IsWellFoundedOn(R, Nat)
  BY NatLessThanWellFounded DEF OpToRel
<1>2. PICK x \in S : \A y \in S : ~(<<y, x>> \in R)
  <2> HIDE DEF R
  <2> QED BY <1>1, WFMin
<1>3. \A y \in S : x <= y
  <2> SUFFICES ASSUME NEW y \in S PROVE ~(y < x)
    OBVIOUS
  <2> QED BY <1>2
<1> QED BY <1>3

\* Min and Max, which are given by CHOOSE.
LEMMA MinOf ==
    ASSUME NEW S, S \subseteq Nat, S # {}
    PROVE  Min(S) \in S /\ \A y \in S : Min(S) <= y
BY FirstInstant DEF Min

LEMMA MaxOfTwo ==
    ASSUME NEW a \in Nat, NEW b \in Nat
    PROVE  /\ Max({a, b}) \in {a, b}
           /\ Max({a, b}) >= a /\ Max({a, b}) >= b
<1>1. \E x \in {a, b} : \A y \in {a, b} : x >= y
  <2>1. CASE a >= b
    BY <2>1
  <2>2. CASE b >= a
    BY <2>2
  <2> QED BY <2>1, <2>2
<1>2. Max({a, b}) \in {a, b} /\ \A y \in {a, b} : Max({a, b}) >= y
  BY <1>1 DEF Max
<1> QED BY <1>2

\* The loop never sleeps past a retry that is not due.
LEMMA SleepsNotPast ==
    ASSUME NEW retries, retries \subseteq [ready_at : Nat, question : Questions],
           now \in Nat, \A item \in retries : item.ready_at > now
    PROVE  /\ NextDelay(retries) \in Nat
           /\ \A item \in retries : NextDelay(retries) <= item.ready_at
<1> DEFINE instants == {item.ready_at : item \in retries}
<1>1. CASE retries = {}
  BY <1>1, PacingConfig DEF NextDelay, Never
<1>2. CASE retries # {}
  <2>1. instants \subseteq Nat /\ instants # {}
    BY <1>2
  <2>2. Min(instants) \in instants /\ \A y \in instants : Min(instants) <= y
    BY <2>1, MinOf
  <2>3. Min(instants) \in Nat /\ Min(instants) > now
    BY <2>1, <2>2
  <2>4. Max({now, Min(instants)}) = Min(instants)
    BY <2>3, MaxOfTwo
  <2>5. NextDelay(retries) = Min(instants)
    BY <1>2, <2>4 DEF NextDelay, NextReadyAt
  <2> QED BY <2>2, <2>3, <2>5
<1> QED BY <1>1, <1>2

\* The first of the lock leaves it.
LEMMA FirstLeaves ==
    ASSUME NEW lock \in Seq(Questions), lock # <<>>, Once(lock)
    PROVE  /\ Tail(lock) \in Seq(Questions) /\ Once(Tail(lock))
           /\ Head(lock) = lock[1] /\ OnLock(lock, lock[1])
           /\ \A p : OnLock(Tail(lock), p) <=> OnLock(lock, p) /\ p # lock[1]
<1>1. /\ Tail(lock) \in Seq(Questions)
      /\ Len(Tail(lock)) = Len(lock) - 1 /\ Len(lock) \in Nat /\ Len(lock) > 0
      /\ \A i \in 1..Len(Tail(lock)) : Tail(lock)[i] = lock[i + 1]
      /\ Head(lock) = lock[1]
  OBVIOUS
<1>2. Once(Tail(lock))
  <2> SUFFICES ASSUME NEW i \in 1..Len(Tail(lock)), NEW j \in 1..Len(Tail(lock)),
                      Tail(lock)[i] = Tail(lock)[j]
               PROVE  i = j
    BY DEF Once
  <2>1. i + 1 \in 1..Len(lock) /\ j + 1 \in 1..Len(lock) /\ lock[i + 1] = lock[j + 1]
    BY <1>1
  <2>2. i + 1 = j + 1
    BY <2>1 DEF Once
  <2> QED BY <2>2, <1>1
<1>3. ASSUME NEW p, OnLock(Tail(lock), p)
      PROVE  OnLock(lock, p) /\ p # lock[1]
  <2>1. PICK i \in 1..Len(Tail(lock)) : Tail(lock)[i] = p
    BY <1>3 DEF OnLock
  <2>2. i + 1 \in 1..Len(lock) /\ lock[i + 1] = p /\ 1 \in 1..Len(lock) /\ i + 1 # 1
    BY <1>1, <2>1
  <2> QED BY <2>2 DEF OnLock, Once
<1>4. ASSUME NEW p, OnLock(lock, p), p # lock[1]
      PROVE  OnLock(Tail(lock), p)
  <2>1. PICK i \in 1..Len(lock) : lock[i] = p
    BY <1>4 DEF OnLock
  <2>2. i - 1 \in 1..Len(Tail(lock)) /\ (i - 1) + 1 = i
    BY <1>1, <1>4, <2>1
  <2>3. Tail(lock)[i - 1] = p
    BY <1>1, <2>1, <2>2
  <2> QED BY <2>2, <2>3 DEF OnLock
<1>5. OnLock(lock, lock[1])
  BY <1>1 DEF OnLock
<1> QED BY <1>1, <1>2, <1>3, <1>4, <1>5

\* A task queues for the lock.
LEMMA LastJoins ==
    ASSUME NEW lock \in Seq(Questions), Once(lock), NEW q \in Questions, ~OnLock(lock, q)
    PROVE  /\ Append(lock, q) \in Seq(Questions) /\ Once(Append(lock, q))
           /\ \A p : OnLock(Append(lock, q), p) <=> OnLock(lock, p) \/ p = q
           /\ lock # <<>> => Append(lock, q)[1] = lock[1]
<1>1. PICK longer : longer = Append(lock, q)
  OBVIOUS
<1>2. /\ longer \in Seq(Questions) /\ Len(longer) = Len(lock) + 1 /\ Len(lock) \in Nat
      /\ \A i \in 1..Len(lock) : longer[i] = lock[i]
      /\ longer[Len(lock) + 1] = q
      /\ lock # <<>> => Len(lock) > 0
  BY <1>1
<1>3. \A i \in 1..Len(lock) : lock[i] # q
  BY DEF OnLock
<1>4. Once(longer)
  BY <1>2, <1>3 DEF Once
<1>5. \A p : OnLock(longer, p) <=> OnLock(lock, p) \/ p = q
  BY <1>2 DEF OnLock
<1> QED BY <1>1, <1>2, <1>4, <1>5

\* A task has the lock before those that queue.
LEMMA FirstJoins ==
    ASSUME NEW rest \in Seq(Questions), Once(rest), NEW q \in Questions, ~OnLock(rest, q)
    PROVE  /\ <<q>> \o rest \in Seq(Questions) /\ Once(<<q>> \o rest)
           /\ \A p : OnLock(<<q>> \o rest, p) <=> OnLock(rest, p) \/ p = q
           /\ (<<q>> \o rest)[1] = q
<1>1. PICK longer : longer = <<q>> \o rest
  OBVIOUS
<1>2. /\ longer \in Seq(Questions) /\ Len(longer) = Len(rest) + 1 /\ Len(rest) \in Nat
      /\ longer[1] = q
      /\ \A i \in 1..Len(rest) : longer[i + 1] = rest[i]
  BY <1>1
<1>3. \A i \in 1..Len(rest) : rest[i] # q
  BY DEF OnLock
<1>4. \A i \in 1..Len(longer) : i = 1 \/ (i - 1 \in 1..Len(rest) /\ longer[i] = rest[i - 1])
  <2> SUFFICES ASSUME NEW i \in 1..Len(longer), i # 1
               PROVE  i - 1 \in 1..Len(rest) /\ longer[i] = rest[i - 1]
    OBVIOUS
  <2>1. i - 1 \in 1..Len(rest) /\ (i - 1) + 1 = i
    BY <1>2
  <2> QED BY <1>2, <2>1
<1>5. Once(longer)
  <2> SUFFICES ASSUME NEW i \in 1..Len(longer), NEW j \in 1..Len(longer), longer[i] = longer[j]
               PROVE  i = j
    BY DEF Once
  <2>1. CASE i = 1 \/ j = 1
    BY <1>2, <1>3, <1>4, <2>1
  <2>2. CASE i # 1 /\ j # 1
    <3>1. i - 1 \in 1..Len(rest) /\ j - 1 \in 1..Len(rest) /\ rest[i - 1] = rest[j - 1]
      BY <1>4, <2>2
    <3>2. i - 1 = j - 1
      BY <3>1 DEF Once
    <3> QED BY <3>2
  <2> QED BY <2>1, <2>2
<1>6. \A p : OnLock(longer, p) <=> OnLock(rest, p) \/ p = q
  <2>1. ASSUME NEW p, OnLock(longer, p) PROVE OnLock(rest, p) \/ p = q
    <3>1. PICK i \in 1..Len(longer) : longer[i] = p
      BY <2>1 DEF OnLock
    <3>2. i = 1 \/ (i - 1 \in 1..Len(rest) /\ rest[i - 1] = p)
      BY <1>4, <3>1
    <3> QED BY <1>2, <3>1, <3>2 DEF OnLock
  <2>2. ASSUME NEW p, OnLock(rest, p) PROVE OnLock(longer, p)
    <3>1. PICK i \in 1..Len(rest) : rest[i] = p
      BY <2>2 DEF OnLock
    <3>2. i + 1 \in 1..Len(longer) /\ longer[i + 1] = p
      BY <1>2, <3>1
    <3> QED BY <3>2 DEF OnLock
  <2>3. OnLock(longer, q)
    BY <1>2 DEF OnLock
  <2> QED BY <2>1, <2>2, <2>3
<1> QED BY <1>1, <1>2, <1>5, <1>6

-----------------------------------------------------------------------------
(* The steps preserve the invariant. *)

\* A request is sent: by the task that had the lock, which it releases, or by one
\* that found it free.
LEMMA LaunchInv ==
    ASSUME PacingInv, NEW q \in Questions, NEW t \in Tasks, NEW rest \in Seq(Questions),
           Launch(q, t, rest), UNCHANGED <<now, loop, control>>,
           task[q].stage # "delayed",
           t.due <= now, Looked(t),
           last_launch_at + t.gap <= now,
           Len(launches) > 0 => t.seen >= launches[Len(launches)].changes,
           Once(rest),
           \A p : OnLock(rest, p) <=> OnLock(launch_lock, p) /\ p # q,
           \A p \in Questions : task[p].stage = "pacing" => p = q
    PROVE  PacingInv'
<1> DEFINE e == [question |-> q, at |-> now, due |-> t.due, passed |-> t.passed,
                 gap |-> t.gap, seen |-> t.seen, changes |-> changes,
                 launch_rpm |-> Len(timestamps')]
           sent == [Fresh EXCEPT !.stage = "in_flight", !.attempt = t.attempt]
<1>1. /\ Typed /\ Locking /\ Spacing /\ Passing /\ Retrying
      /\ now \in Nat /\ task \in [Questions -> Tasks]
  BY DEF PacingInv, Typed
<1>2. /\ last_launch_at' = now /\ launch_lock' = rest
      /\ launches' = Append(launches, e) /\ task' = [task EXCEPT ![q] = sent]
  BY DEF Launch, LaunchedAt
<1>3. /\ UNCHANGED <<now, items, wake_at, interval, pause_until, pauses, changes>>
  BY DEF loop, control
<1>4. /\ e.at = now /\ e.due = t.due /\ e.passed = t.passed /\ e.gap = t.gap
      /\ e.seen = t.seen /\ e.changes = changes
  OBVIOUS
<1>5. /\ t.due \in Nat /\ t.passed \in Nat /\ t.gap \in Nat /\ t.seen \in Nat
      /\ t.attempt \in Nat /\ changes \in Nat
  BY <1>1 DEF Tasks, Typed
<1>6. sent \in Tasks /\ sent.stage = "in_flight" /\ sent.due = 0
  BY <1>5 DEF Fresh, Tasks, Stages
<1> HIDE DEF e, sent
<1>7. /\ \E S : launches' \in Seq(S)
      /\ Len(launches') = Len(launches) + 1 /\ Len(launches) \in Nat
      /\ DOMAIN launches = 1..Len(launches) /\ DOMAIN launches' = 1..Len(launches')
      /\ \A i \in 1..Len(launches) : launches'[i] = launches[i]
      /\ launches'[Len(launches')] = e
  <2>1. PICK S : launches \in Seq(S)
    BY <1>1 DEF Typed
  <2>2. launches \in Seq(S \cup {e}) /\ e \in S \cup {e}
    BY <2>1
  <2> QED BY <1>2, <2>2
<1>8. \A i \in 1..Len(launches') : i = Len(launches') \/ i \in 1..Len(launches)
  BY <1>7
<1>9. /\ task' \in [Questions -> Tasks] /\ task'[q] = sent
      /\ \A p \in Questions : p # q => task'[p] = task[p]
  BY <1>1, <1>2, <1>6
<1>10. Typed'
  <2>1. \A i \in 1..Len(launches') :
          /\ launches'[i].at \in Nat /\ launches'[i].due \in Nat
          /\ launches'[i].passed \in Nat /\ launches'[i].gap \in Nat
          /\ launches'[i].seen \in Nat /\ launches'[i].changes \in Nat
    <3> SUFFICES ASSUME NEW i \in 1..Len(launches')
                 PROVE  /\ launches'[i].at \in Nat /\ launches'[i].due \in Nat
                        /\ launches'[i].passed \in Nat /\ launches'[i].gap \in Nat
                        /\ launches'[i].seen \in Nat /\ launches'[i].changes \in Nat
      OBVIOUS
    <3>1. CASE i = Len(launches')
      BY <1>1, <1>4, <1>5, <1>7, <3>1
    <3>2. CASE i \in 1..Len(launches)
      <4>1. launches'[i] = launches[i]
        BY <1>7, <3>2
      <4> QED BY <1>1, <3>2, <4>1 DEF Typed
    <3> QED BY <1>8, <3>1, <3>2
  <2>2. \E S : launches' \in Seq(S)
    BY <1>7
  <2> QED BY <1>1, <1>2, <1>3, <1>9, <2>1, <2>2 DEF Typed
<1>11. Locking'
  BY <1>1, <1>2, <1>6, <1>9 DEF Locking
<1>12. Spacing'
  <2>1. LaunchesSpaced'
    <3> SUFFICES ASSUME NEW i \in 1..(Len(launches') - 1)
                 PROVE  /\ launches'[i + 1].at >= launches'[i].at + launches'[i + 1].gap
                        /\ launches'[i + 1].seen >= launches'[i].changes
      BY DEF LaunchesSpaced
    <3>1. CASE i = Len(launches)
      BY <1>1, <1>3, <1>4, <1>5, <1>7, <3>1 DEF Spacing
    <3>2. CASE i # Len(launches)
      <4>0. Len(launches) \in Nat /\ Len(launches') - 1 = Len(launches)
        BY <1>7
      <4>1. i \in 1..(Len(launches) - 1) /\ i \in 1..Len(launches) /\ i + 1 \in 1..Len(launches)
        BY <3>2, <4>0
      <4> QED BY <1>1, <1>7, <4>1 DEF Spacing, LaunchesSpaced
    <3> QED BY <3>1, <3>2
  <2>2. last_launch_at' = launches'[Len(launches')].at
        /\ launches'[Len(launches')].changes <= changes'
    BY <1>2, <1>3, <1>4, <1>5, <1>7
  <2>3. \A p \in Questions : task'[p].stage # "pacing"
    BY <1>6, <1>9
  <2> QED BY <1>1, <1>2, <1>3, <2>1, <2>2, <2>3 DEF Spacing
<1>13. Passing'
  <2>1. \A p \in Questions : task'[p].stage \in {"queued", "pacing"} => Looked(task'[p])
    BY <1>1, <1>6, <1>9 DEF Passing
  <2>2. \A p \in Questions : Looked(task'[p]) => Looked(task[p])'
    BY <1>3 DEF Looked
  <2>3. PausesRespected'
    <3> SUFFICES ASSUME NEW i \in 1..Len(launches'), NEW pause \in pauses,
                        launches'[i].at \in pause.from..(pause.until - 1)
                 PROVE  launches'[i].passed <= pause.from
      BY <1>3, <1>7 DEF PausesRespected
    <3>1. CASE i = Len(launches')
      <4>1. launches'[i].at = now /\ launches'[i].passed = t.passed
        BY <1>4, <1>7, <3>1
      <4>2. pause.from \in Nat /\ pause.until \in Nat
        BY <1>1 DEF Typed
      <4>3. t.passed <= now /\ (t.passed <= pause.from \/ pause.until <= t.passed)
        BY DEF Looked
      <4> QED BY <1>1, <1>5, <4>1, <4>2, <4>3
    <3>2. CASE i \in 1..Len(launches)
      BY <1>1, <1>7, <3>2 DEF Passing, PausesRespected
    <3> QED BY <1>8, <3>1, <3>2
  <2>4. \A i \in 1..Len(launches') :
          launches'[i].passed <= launches'[i].at /\ launches'[i].at <= now'
    BY <1>1, <1>3, <1>4, <1>5, <1>7, <1>8 DEF Passing, Looked
  <2>5. \A pause \in pauses' : pause.from <= now' /\ pause.until <= pause_until'
    BY <1>1, <1>3 DEF Passing
  <2> QED BY <2>1, <2>2, <2>3, <2>4, <2>5 DEF Passing
<1>14. Retrying'
  <2>1. \A item \in items : item.question \in Questions /\ item.question # q
    BY <1>1 DEF Retrying, Typed
  <2>2. RetriesOnTime'
    <3>1. \A i \in 1..Len(launches') : launches'[i].at >= launches'[i].due
      BY <1>1, <1>4, <1>5, <1>7, <1>8 DEF Retrying, RetriesOnTime
    <3> QED BY <1>1, <1>3, <1>7, <3>1 DEF Retrying, RetriesOnTime
  <2>3. \A p \in Questions : task'[p].stage # "delayed" => task'[p].due <= now
    BY <1>1, <1>6, <1>9 DEF Retrying
  <2> QED BY <1>1, <1>3, <1>9, <2>1, <2>2, <2>3 DEF Retrying
<1> QED BY <1>10, <1>11, <1>12, <1>13, <1>14 DEF PacingInv

\* A task goes from one place to another before its request.
LEMMA MoveInv ==
    ASSUME PacingInv, NEW q \in Questions, NEW t \in Tasks,
           task' = [task EXCEPT ![q] = t],
           UNCHANGED <<now, loop, control, last_launch_at, timestamps, launches>>,
           task[q].stage # "delayed", t.stage # "delayed", t.due <= now,
           launch_lock' \in Seq(Questions), Once(launch_lock'),
           \A p \in Questions : p # q => (OnLock(launch_lock', p) <=> OnLock(launch_lock, p)),
           OnLock(launch_lock', q) <=> t.stage \in {"queued", "pacing"},
           t.stage \in {"queued", "pacing"} => Looked(t),
           t.stage = "pacing" =>
             /\ launch_lock'[1] = q
             /\ t.until = last_launch_at + t.gap
             /\ Len(launches) > 0 => t.seen >= launches[Len(launches)].changes,
           \A p \in Questions : p # q /\ task[p].stage = "pacing" => launch_lock'[1] = p
    PROVE  PacingInv'
<1>1. /\ Typed /\ Locking /\ Spacing /\ Passing /\ Retrying
      /\ task \in [Questions -> Tasks]
  BY DEF PacingInv, Typed
<1>2. UNCHANGED <<now, items, wake_at, interval, pause_until, pauses, changes,
                  last_launch_at, launches>>
  BY DEF loop, control
<1>3. /\ task' \in [Questions -> Tasks] /\ task'[q] = t
      /\ \A p \in Questions : p # q => task'[p] = task[p]
  BY <1>1
<1>4. Typed'
  BY <1>1, <1>2, <1>3 DEF Typed
<1>5. Locking'
  BY <1>1, <1>3 DEF Locking
<1>6. Spacing'
  BY <1>1, <1>2, <1>3 DEF Spacing, LaunchesSpaced
<1>7. Passing'
  <2>1. \A p \in Questions : task'[p].stage \in {"queued", "pacing"} => Looked(task'[p])
    BY <1>1, <1>3 DEF Passing
  <2>2. \A p \in Questions : Looked(task'[p]) => Looked(task[p])'
    BY <1>2 DEF Looked
  <2> QED BY <1>1, <1>2, <2>1, <2>2 DEF Passing, PausesRespected
<1>8. Retrying'
  <2>1. \A item \in items : item.question \in Questions /\ item.question # q
    BY <1>1 DEF Retrying, Typed
  <2> QED BY <1>1, <1>2, <1>3, <2>1 DEF Retrying, RetriesOnTime
<1> QED BY <1>4, <1>5, <1>6, <1>7, <1>8 DEF PacingInv

\* The task that has the lock launches, or sleeps for what is left of the interval.
LEMMA TakeSlotInv ==
    ASSUME PacingInv, NEW q \in Questions, NEW t \in Tasks, NEW rest \in Seq(Questions),
           TakeSlot(q, t, rest), UNCHANGED <<now, loop, control>>,
           task[q].stage # "delayed", t.due <= now, Looked(t),
           Once(rest),
           \A p : OnLock(rest, p) <=> OnLock(launch_lock, p) /\ p # q,
           \A p \in Questions : task[p].stage # "pacing"
    PROVE  PacingInv'
<1> DEFINE slot_at == last_launch_at + interval
           holder == [t EXCEPT !.gap = interval, !.seen = changes]
           sleeper == [holder EXCEPT !.stage = "pacing", !.until = slot_at]
<1>1. /\ Typed /\ Locking /\ Spacing /\ Passing
      /\ now \in Nat /\ interval \in Nat /\ changes \in Nat /\ last_launch_at \in Int
  BY DEF PacingInv, Typed
<1>2. /\ holder \in Tasks /\ holder.due = t.due /\ holder.passed = t.passed
      /\ holder.gap = interval /\ holder.seen = changes
  BY <1>1 DEF Tasks
<1>3. Looked(holder)
  BY <1>2 DEF Looked
<1>4. Len(launches) > 0 => changes >= launches[Len(launches)].changes
  <2>1. \E S : launches \in Seq(S)
    BY <1>1 DEF Typed
  <2>2. Len(launches) \in Nat
    BY <2>1
  <2>3. Len(launches) > 0 => launches[Len(launches)].changes \in Nat
    BY <1>1, <2>2 DEF Typed
  <2> QED BY <1>1, <2>3 DEF Spacing
<1>5. CASE slot_at <= now /\ Launch(q, holder, rest)
  <2> HIDE DEF holder
  <2> QED BY <1>2, <1>3, <1>4, <1>5, LaunchInv
<1>6. CASE /\ slot_at > now
           /\ task' = [task EXCEPT ![q] = sleeper]
           /\ launch_lock' = <<q>> \o rest
           /\ UNCHANGED <<last_launch_at, timestamps, launches>>
  <2> HIDE DEF holder
  <2>0. slot_at \in Nat /\ "pacing" \in Stages
    BY <1>1, <1>6 DEF Stages
  <2>1. /\ sleeper \in Tasks /\ sleeper.stage = "pacing" /\ sleeper.due = t.due
        /\ sleeper.passed = t.passed /\ sleeper.until = last_launch_at + sleeper.gap
        /\ sleeper.seen = changes
    BY <1>2, <2>0 DEF Tasks
  <2> HIDE DEF sleeper
  <2>2. Looked(sleeper)
    BY <2>1 DEF Looked
  <2>3. ~OnLock(rest, q)
    OBVIOUS
  <2>4. /\ launch_lock' \in Seq(Questions) /\ Once(launch_lock') /\ launch_lock'[1] = q
        /\ \A p : OnLock(launch_lock', p) <=> OnLock(rest, p) \/ p = q
    BY <1>6, <2>3, FirstJoins
  <2>5. \A p \in Questions : p # q => (OnLock(launch_lock', p) <=> OnLock(launch_lock, p))
    BY <2>4
  <2> QED BY <1>4, <1>6, <2>1, <2>2, <2>4, <2>5, MoveInv
<1> QED BY <1>5, <1>6 DEF TakeSlot

\* A task looks at the pause, and sleeps, queues or takes the lock.
LEMMA LookAtPauseInv ==
    ASSUME PacingInv, NEW q \in Questions, LookAtPause(q), UNCHANGED <<now, loop, control>>,
           task[q].stage \in {"created", "pausing"}
    PROVE  PacingInv'
<1> DEFINE t == [task[q] EXCEPT !.passed = now]
           asleep == [task[q] EXCEPT !.stage = "pausing", !.until = pause_until]
           waiting == [t EXCEPT !.stage = "queued"]
<1>1. /\ Typed /\ Locking /\ Passing /\ Retrying
      /\ now \in Nat /\ pause_until \in Nat /\ task[q] \in Tasks
      /\ launch_lock \in Seq(Questions)
  BY DEF PacingInv, Typed
<1>2. /\ t \in Tasks /\ t.stage = task[q].stage /\ t.due = task[q].due /\ t.passed = now
  BY <1>1 DEF Tasks
<1>3. task[q].due <= now /\ ~OnLock(launch_lock, q) /\ Once(launch_lock)
  BY <1>1 DEF Retrying, Locking
<1>4. CASE /\ task' = [task EXCEPT ![q].stage = "pausing", ![q].until = pause_until]
           /\ UNCHANGED slot
  <2>1. task' = [task EXCEPT ![q] = asleep]
    BY <1>4
  <2>2. asleep \in Tasks /\ asleep.stage = "pausing" /\ asleep.due = task[q].due
    BY <1>1 DEF Tasks, Stages
  <2>3. UNCHANGED <<launch_lock, last_launch_at, timestamps, launches>>
    BY <1>4 DEF slot
  <2>4. \A p \in Questions : p # q /\ task[p].stage = "pacing" => launch_lock[1] = p
    BY <1>1 DEF Locking
  <2> HIDE DEF asleep
  <2> QED BY <1>1, <1>3, <2>1, <2>2, <2>3, <2>4, MoveInv
<1>5. ASSUME ~PauseSeen
      PROVE  Looked(t)
  BY <1>1, <1>2, <1>5 DEF Looked, PauseSeen, Passing, Typed
<1>6. CASE ~PauseSeen /\ launch_lock = <<>> /\ TakeSlot(q, t, <<>>)
  <2>1. /\ <<>> \in Seq(Questions) /\ Once(<<>>)
        /\ \A p : ~OnLock(<<>>, p)
    BY DEF Once, OnLock
  <2>2. \A p \in Questions : task[p].stage # "pacing"
    BY <1>1, <1>6, <2>1 DEF Locking
  <2> HIDE DEF t
  <2> QED BY <1>2, <1>3, <1>5, <1>6, <2>1, <2>2, TakeSlotInv
<1>7. CASE /\ ~PauseSeen /\ launch_lock # <<>>
           /\ task' = [task EXCEPT ![q] = waiting]
           /\ launch_lock' = Append(launch_lock, q)
           /\ UNCHANGED <<last_launch_at, timestamps, launches>>
  <2>1. /\ waiting \in Tasks /\ waiting.stage = "queued" /\ waiting.due = task[q].due
        /\ waiting.passed = now
    BY <1>2 DEF Tasks, Stages
  <2>2. Looked(waiting)
    BY <1>2, <1>5, <1>7, <2>1 DEF Looked
  <2>3. /\ launch_lock' \in Seq(Questions) /\ Once(launch_lock')
        /\ \A p : OnLock(launch_lock', p) <=> OnLock(launch_lock, p) \/ p = q
        /\ launch_lock'[1] = launch_lock[1]
    BY <1>1, <1>3, <1>7, LastJoins
  <2>4. \A p \in Questions : p # q /\ task[p].stage = "pacing" => launch_lock'[1] = p
    BY <1>1, <2>3 DEF Locking
  <2> HIDE DEF waiting
  <2> QED BY <1>3, <1>7, <2>1, <2>2, <2>3, <2>4, MoveInv
<1> QED BY <1>4, <1>6, <1>7 DEF LookAtPause

\* The first of those that queue gets the lock.
LEMMA SlotGrantedInv ==
    ASSUME PacingInv, NEW q \in Questions, SlotGranted(q)
    PROVE  PacingInv'
<1>1. /\ Typed /\ Locking /\ Passing /\ Retrying
      /\ task[q] \in Tasks /\ launch_lock \in Seq(Questions)
  BY DEF PacingInv, Typed
<1>2. /\ launch_lock # <<>> /\ q = Head(launch_lock) /\ task[q].stage = "queued"
      /\ TakeSlot(q, task[q], Tail(launch_lock)) /\ UNCHANGED <<now, loop, control>>
  BY DEF SlotGranted
<1>3. /\ Tail(launch_lock) \in Seq(Questions) /\ Once(Tail(launch_lock)) /\ q = launch_lock[1]
      /\ \A p : OnLock(Tail(launch_lock), p) <=> OnLock(launch_lock, p) /\ p # q
  BY <1>1, <1>2, FirstLeaves DEF Locking
<1>4. \A p \in Questions : task[p].stage # "pacing"
  BY <1>1, <1>2, <1>3 DEF Locking
<1>5. task[q].due <= now /\ Looked(task[q])
  BY <1>1, <1>2 DEF Retrying, Passing
<1> QED BY <1>1, <1>2, <1>3, <1>4, <1>5, TakeSlotInv

\* The sleep for the slot is over.
LEMMA PacingEndsInv ==
    ASSUME PacingInv, NEW q \in Questions, PacingEnds(q)
    PROVE  PacingInv'
<1>1. /\ Typed /\ Locking /\ Spacing /\ Passing /\ Retrying
      /\ task[q] \in Tasks /\ launch_lock \in Seq(Questions)
  BY DEF PacingInv, Typed
<1>2. /\ task[q].stage = "pacing" /\ now >= task[q].until
      /\ Launch(q, task[q], Tail(launch_lock)) /\ UNCHANGED <<now, loop, control>>
  BY DEF PacingEnds
<1>3. launch_lock # <<>> /\ q = launch_lock[1] /\ Once(launch_lock)
  <2>1. OnLock(launch_lock, q)
    BY <1>1, <1>2 DEF Locking
  <2> QED BY <1>1, <1>2, <2>1 DEF Locking, OnLock
<1>4. /\ Tail(launch_lock) \in Seq(Questions) /\ Once(Tail(launch_lock))
      /\ \A p : OnLock(Tail(launch_lock), p) <=> OnLock(launch_lock, p) /\ p # q
  BY <1>1, <1>3, FirstLeaves
<1>5. \A p \in Questions : task[p].stage = "pacing" => p = q
  BY <1>1, <1>3 DEF Locking
<1>6. /\ task[q].due <= now /\ Looked(task[q])
      /\ last_launch_at + task[q].gap <= now
      /\ Len(launches) > 0 => task[q].seen >= launches[Len(launches)].changes
  BY <1>1, <1>2 DEF Retrying, Passing, Spacing
<1> QED BY <1>1, <1>2, <1>4, <1>5, <1>6, LaunchInv

\* An iteration moves the retries that are due and no other.
LEMMA IterateInv ==
    ASSUME PacingInv, Iterate
    PROVE  PacingInv'
<1> DEFINE ready == {item.question : item \in {x \in items : x.ready_at <= now}}
<1>1. /\ Typed /\ Locking /\ Spacing /\ Passing /\ Retrying
      /\ now \in Nat /\ task \in [Questions -> Tasks]
      /\ items \subseteq [ready_at : Nat, question : Questions]
  BY DEF PacingInv, Typed
<1>2. /\ task' = [q \in Questions |-> IF q \in ready \/ task[q].stage = "pending"
                                      THEN [task[q] EXCEPT !.stage = "created"] ELSE task[q]]
      /\ items' = {item \in items : item.ready_at > now}
      /\ wake_at' = NextDelay(items')
      /\ UNCHANGED <<now, launch_lock, last_launch_at, launches, interval, pause_until,
                     pauses, changes>>
  BY DEF Iterate, Kept, control
<1>3. ASSUME NEW q \in Questions, q \in ready
      PROVE  task[q].stage = "delayed" /\ task[q].due <= now
    <2>1. PICK item \in items : item.ready_at <= now /\ item.question = q
      BY <1>3
    <2> QED BY <1>1, <2>1 DEF Retrying
<1>4. ASSUME NEW q \in Questions
      PROVE  /\ task'[q] \in Tasks
             /\ \/ task'[q] = task[q] /\ task[q].stage # "pending" /\ q \notin ready
                \/ /\ task[q].stage \in {"pending", "delayed"} /\ task[q].due <= now
                   /\ task'[q].stage = "created" /\ task'[q].due = task[q].due
  <2>1. task[q] \in Tasks
    BY <1>1
  <2>2. CASE q \in ready \/ task[q].stage = "pending"
    <3>1. task[q].stage \in {"pending", "delayed"} /\ task[q].due <= now
      BY <1>1, <1>3, <2>2 DEF Retrying
    <3>2. task'[q] = [task[q] EXCEPT !.stage = "created"]
      BY <1>2, <2>2
    <3> QED BY <2>1, <3>1, <3>2 DEF Tasks, Stages
  <2>3. CASE ~(q \in ready \/ task[q].stage = "pending")
    <3>1. task'[q] = task[q]
      BY <1>2, <2>3
    <3> QED BY <2>1, <2>3, <3>1
  <2> QED BY <2>2, <2>3
<1>5. \A item \in items' : item \in items /\ item.ready_at > now
  BY <1>2
<1>6. /\ wake_at' \in Nat
      /\ \A item \in items' : wake_at' <= item.ready_at
  BY <1>1, <1>2, <1>5, SleepsNotPast
<1>7. Typed'
  <2>1. task' \in [Questions -> Tasks]
    BY <1>2, <1>4
  <2> QED BY <1>1, <1>2, <1>6, <2>1 DEF Typed
<1>8. \A q \in Questions : task'[q].stage \in {"queued", "pacing"}
                              \/ task[q].stage \in {"queued", "pacing"} => task'[q] = task[q]
  BY <1>4
<1>9. Locking'
  BY <1>1, <1>2, <1>8 DEF Locking
<1>10. Spacing'
  BY <1>1, <1>2, <1>8 DEF Spacing, LaunchesSpaced
<1>11. Passing'
  BY <1>1, <1>2, <1>8 DEF Passing, Looked, PausesRespected
<1>12. Retrying'
  <2>1. ASSUME NEW item \in items'
        PROVE  task'[item.question].stage = "delayed" /\ item.ready_at = task'[item.question].due
    <3>1. /\ item \in items /\ item.ready_at > now /\ item.question \in Questions
          /\ item.ready_at \in Nat
          /\ task[item.question].stage = "delayed" /\ item.ready_at = task[item.question].due
      BY <1>1, <1>5 DEF Retrying
    <3>2. item.question \notin ready
      BY <1>1, <1>3, <3>1
    <3>3. task'[item.question] = task[item.question]
      BY <1>2, <3>1, <3>2
    <3> QED BY <3>1, <3>3
  <2>2. \A q \in Questions : task'[q].stage # "delayed" => task'[q].due <= now
    BY <1>1, <1>4 DEF Retrying
  <2>3. RetriesOnTime'
    BY <1>1, <1>2, <1>6 DEF Retrying, RetriesOnTime
  <2> QED BY <1>2, <2>1, <2>2, <2>3 DEF Retrying
<1> QED BY <1>7, <1>9, <1>10, <1>11, <1>12 DEF PacingInv

\* An outcome settles its question or delays it, and may change the interval and set
\* a pause from now on.
LEMMA OutcomeInv ==
    ASSUME PacingInv, NEW q \in Questions, HandledNow(q), NEW delay \in Nat,
           \/ task' = [task EXCEPT ![q].stage = "done"] /\ items' = items
           \/ RetryOrFail(q, delay),
           UNCHANGED <<now, wake_at, slot>>,
           interval' \in Nat, changes' \in Nat, changes' >= changes,
           pause_until' \in Nat, pause_until' >= pause_until,
           \A pause \in pauses' :
             \/ pause \in pauses
             \/ pause.from = now /\ pause.until \in Nat /\ pause.until <= pause_until'
    PROVE  PacingInv'
<1>1. /\ Typed /\ Locking /\ Spacing /\ Passing /\ Retrying
      /\ now \in Nat /\ task \in [Questions -> Tasks] /\ task[q] \in Tasks
      /\ items \subseteq [ready_at : Nat, question : Questions]
      /\ task[q].stage = "in_flight" /\ wake_at = Awake
  BY DEF PacingInv, Typed, HandledNow
<1>2. UNCHANGED <<now, wake_at, launch_lock, last_launch_at, launches>>
  BY DEF slot
<1>3. task[q].attempt \in Nat /\ task[q].attempt + 1 \in Nat /\ now + delay \in Nat
  BY <1>1 DEF Tasks
<1>4. PICK t \in Tasks :
        /\ task' = [task EXCEPT ![q] = t]
        /\ \/ t.stage = "done" /\ t.due = task[q].due /\ items' = items
           \/ /\ t.stage = "delayed" /\ t.due = now + delay
              /\ items' = items \cup {[ready_at |-> now + delay, question |-> q]}
  <2> DEFINE over == [task[q] EXCEPT !.stage = "done"]
             again == [Fresh EXCEPT !.stage = "delayed", !.attempt = task[q].attempt + 1,
                                    !.due = now + delay]
  <2>1. over \in Tasks /\ over.stage = "done" /\ over.due = task[q].due
    BY <1>1 DEF Tasks, Stages
  <2>2. again \in Tasks /\ again.stage = "delayed" /\ again.due = now + delay
    BY <1>3 DEF Tasks, Stages, Fresh
  <2>3. \/ task' = [task EXCEPT ![q] = over] /\ items' = items
        \/ /\ task' = [task EXCEPT ![q] = again]
           /\ items' = items \cup {[ready_at |-> now + delay, question |-> q]}
    BY DEF RetryOrFail
  <2> HIDE DEF over, again
  <2> QED BY <2>1, <2>2, <2>3
<1>5. /\ task' \in [Questions -> Tasks] /\ task'[q] = t
      /\ \A p \in Questions : p # q => task'[p] = task[p]
  BY <1>1, <1>4
<1>6. \A item \in items' : \/ item \in items
                           \/ /\ t.stage = "delayed" /\ item.question = q
                              /\ item.ready_at = t.due /\ t.due = now + delay
                              /\ item \in [ready_at : Nat, question : Questions]
  BY <1>3, <1>4
<1>7. Typed'
  <2>1. items' \subseteq [ready_at : Nat, question : Questions]
    BY <1>1, <1>6
  <2>2. \A pause \in pauses' : pause.from \in Nat /\ pause.until \in Nat
    BY <1>1 DEF Typed
  <2> QED BY <1>1, <1>2, <1>5, <2>1, <2>2 DEF Typed
<1>8. \A p \in Questions : task'[p].stage \in {"queued", "pacing"}
                              \/ task[p].stage \in {"queued", "pacing"} => task'[p] = task[p]
  <2>1. t.stage \notin {"queued", "pacing"} /\ task[q].stage \notin {"queued", "pacing"}
    BY <1>1, <1>4
  <2> QED BY <1>5, <2>1
<1>9. Locking'
  BY <1>1, <1>2, <1>8 DEF Locking
<1>10. Spacing'
  <2>1. Len(launches) > 0 => launches[Len(launches)].changes \in Nat
    <3>1. PICK S : launches \in Seq(S)
      BY <1>1 DEF Typed
    <3>2. Len(launches) \in Nat
      BY <3>1
    <3> QED BY <1>1, <3>2 DEF Typed
  <2>2. changes \in Nat
    BY <1>1 DEF Typed
  <2>3. Len(launches) > 0 => launches[Len(launches)].changes <= changes'
    BY <1>1, <2>1, <2>2 DEF Spacing
  <2> QED BY <1>1, <1>2, <1>8, <2>3 DEF Spacing, LaunchesSpaced
<1>11. Passing'
  <2>1. \A pause \in pauses' : /\ pause.from \in Nat /\ pause.until \in Nat
                               /\ pause.from <= now /\ pause.until <= pause_until'
    BY <1>1 DEF Passing, Typed
  <2>2. ASSUME NEW p \in Questions, task'[p].stage \in {"queued", "pacing"}
        PROVE  Looked(task[p])'
    <3>1. Looked(task[p]) /\ task'[p] = task[p]
      BY <1>1, <1>8, <2>2 DEF Passing
    <3> QED BY <1>2, <3>1 DEF Looked
  <2>3. PausesRespected'
    <3>1. DOMAIN launches = 1..Len(launches)
      BY <1>1 DEF Typed
    <3> SUFFICES ASSUME NEW i \in 1..Len(launches), NEW pause \in pauses',
                        launches[i].at \in pause.from..(pause.until - 1)
                 PROVE  launches[i].passed <= pause.from
      BY <1>2, <3>1 DEF PausesRespected
    <3>2. CASE pause \in pauses
      BY <1>1, <3>1, <3>2 DEF Passing, PausesRespected
    <3>3. CASE pause.from = now
      <4>1. /\ launches[i].passed <= launches[i].at /\ launches[i].at <= now
            /\ launches[i].passed \in Nat /\ launches[i].at \in Nat
        BY <1>1 DEF Passing, Typed
      <4> QED BY <1>1, <3>3, <4>1
    <3> QED BY <3>2, <3>3
  <2> QED BY <1>1, <1>2, <2>1, <2>2, <2>3 DEF Passing
<1>12. Retrying'
  <2>1. \A item \in items' : task'[item.question].stage = "delayed"
                             /\ item.ready_at = task'[item.question].due
    BY <1>1, <1>5, <1>6 DEF Retrying
  <2>2. \A p \in Questions : task'[p].stage # "delayed" => task'[p].due <= now
    BY <1>1, <1>4, <1>5 DEF Retrying
  <2>3. RetriesOnTime'
    BY <1>1, <1>2 DEF Retrying, RetriesOnTime
  <2> QED BY <1>2, <2>1, <2>2, <2>3 DEF Retrying
<1> QED BY <1>7, <1>9, <1>10, <1>11, <1>12 DEF PacingInv

\* A success retunes the controller.
LEMMA SucceedInv ==
    ASSUME PacingInv, NEW q \in Questions, Succeed(q)
    PROVE  PacingInv'
<1>1. Typed
  BY DEF PacingInv
<1>2. /\ HandledNow(q) /\ task' = [task EXCEPT ![q].stage = "done"] /\ items' = items
      /\ UNCHANGED <<now, wake_at, slot, pause_until, pauses>>
      /\ interval' \in Nat /\ changes' \in Nat /\ changes' >= changes
  BY <1>1, PacingConfig DEF Succeed, Retune, loop, Typed
<1>3. pause_until' \in Nat /\ pause_until' >= pause_until /\ 0 \in Nat
  BY <1>1, <1>2 DEF Typed
<1> QED BY <1>2, <1>3, OutcomeInv

\* A 429 extends the pause, or leaves it when it was longer.
LEMMA RateLimitedInv ==
    ASSUME PacingInv, NEW q \in Questions, NEW retry_after \in RetryAfters,
           RateLimited(q, retry_after)
    PROVE  PacingInv'
<1>1. Typed /\ now \in Nat /\ pause_until \in Nat /\ retry_after \in Nat
  BY PacingConfig DEF PacingInv, Typed
<1>2. /\ HandledNow(q) /\ UNCHANGED <<now, wake_at, slot>>
      /\ interval' \in Nat /\ changes' \in Nat /\ changes' >= changes
  BY <1>1, PacingConfig DEF RateLimited, Retune, Typed
<1>3. PICK jitter \in 0..Jitter :
        /\ pause_until' = Max({pause_until, now + retry_after + jitter})
        /\ pauses' = pauses \cup {[from |-> now, until |-> now + retry_after + jitter]}
  BY DEF RateLimited, PausedUntil
<1>4. now + retry_after + jitter \in Nat
  BY <1>1, PacingConfig
<1>5. /\ pause_until' \in Nat /\ pause_until' >= pause_until
      /\ pause_until' >= now + retry_after + jitter
  BY <1>1, <1>3, <1>4, MaxOfTwo
<1>6. \A pause \in pauses' :
        \/ pause \in pauses
        \/ pause.from = now /\ pause.until \in Nat /\ pause.until <= pause_until'
  BY <1>3, <1>4, <1>5
<1>7. PICK delay \in Nat : RetryOrFail(q, delay)
  <2>1. PICK other \in 0..Jitter : RetryOrFail(q, retry_after + other)
    BY DEF RateLimited
  <2>2. retry_after + other \in Nat
    BY <1>1, PacingConfig
  <2> QED BY <2>1, <2>2
<1> QED BY <1>2, <1>5, <1>6, <1>7, OutcomeInv

\* Other failures concern their question only.
LEMMA FailsAloneInv ==
    ASSUME PacingInv, NEW q \in Questions, NEW wait \in RetryAfters \cup Backoffs,
           FailsAlone(q, wait)
    PROVE  PacingInv'
<1>1. Typed /\ wait \in Nat
  BY PacingConfig DEF PacingInv
<1>2. /\ HandledNow(q)
      /\ UNCHANGED <<now, wake_at, slot, interval, changes, pause_until, pauses>>
  BY DEF FailsAlone, control
<1>3. /\ interval' \in Nat /\ changes' \in Nat /\ changes' >= changes
      /\ pause_until' \in Nat /\ pause_until' >= pause_until
  BY <1>1, <1>2 DEF Typed
<1>4. PICK delay \in Nat : RetryOrFail(q, delay)
  <2>1. PICK jitter \in 0..Jitter : RetryOrFail(q, wait + jitter)
    BY DEF FailsAlone
  <2>2. wait + jitter \in Nat
    BY <1>1, PacingConfig
  <2> QED BY <2>1, <2>2
<1> QED BY <1>2, <1>3, <1>4, OutcomeInv

\* The clock only brings what is due.
LEMMA TickInv ==
    ASSUME PacingInv, Tick
    PROVE  PacingInv'
<1>1. /\ Typed /\ Locking /\ Spacing /\ Passing /\ Retrying /\ now \in Nat
      /\ task \in [Questions -> Tasks]
  BY DEF PacingInv, Typed
<1>2. /\ now' = now + 1
      /\ UNCHANGED <<items, wake_at, task, launch_lock, last_launch_at, launches, interval,
                     pause_until, pauses, changes>>
  BY DEF Tick, loop, slot, control
<1>3. Typed' /\ Locking'
  BY <1>1, <1>2 DEF Typed, Locking
<1>4. Spacing'
  BY <1>1, <1>2 DEF Spacing, LaunchesSpaced, Typed
<1>5. Passing'
  <2>1. \A q \in Questions : Looked(task[q]) => Looked(task[q])'
    BY <1>1, <1>2 DEF Looked, Tasks
  <2>2. \A i \in 1..Len(launches) : launches[i].at <= now'
    BY <1>1, <1>2 DEF Passing, Typed
  <2>3. \A pause \in pauses : pause.from <= now'
    BY <1>1, <1>2 DEF Passing, Typed
  <2> QED BY <1>1, <1>2, <2>1, <2>2, <2>3 DEF Passing, PausesRespected
<1>6. Retrying'
  <2>1. \A q \in Questions : task[q].due <= now => task[q].due <= now'
    BY <1>1, <1>2 DEF Tasks
  <2> QED BY <1>1, <1>2, <2>1 DEF Retrying, RetriesOnTime
<1> QED BY <1>3, <1>4, <1>5, <1>6 DEF PacingInv

\* The loop wakes up.
LEMMA ResumeInv ==
    ASSUME PacingInv, Resume
    PROVE  PacingInv'
<1>1. Typed /\ Locking /\ Spacing /\ Passing /\ Retrying
  BY DEF PacingInv
<1>2. /\ wake_at' = Awake
      /\ UNCHANGED <<now, items, task, launch_lock, last_launch_at, launches, interval,
                     pause_until, pauses, changes>>
  BY DEF Resume, slot, control
<1>3. Typed' /\ Locking'
  BY <1>1, <1>2 DEF Typed, Locking, Awake
<1>4. Spacing' /\ Passing'
  BY <1>1, <1>2 DEF Spacing, LaunchesSpaced, Passing, Looked, PausesRespected
<1>5. Retrying'
  BY <1>1, <1>2 DEF Retrying, RetriesOnTime
<1> QED BY <1>3, <1>4, <1>5 DEF PacingInv

\* The initial states satisfy the invariant.
LEMMA InitInv == Init => PacingInv
<1> SUFFICES ASSUME Init PROVE PacingInv
  OBVIOUS
<1>1. /\ now = 0 /\ items = {} /\ wake_at = Awake /\ launch_lock = <<>>
      /\ task = [q \in Questions |-> Fresh] /\ last_launch_at = LongAgo
      /\ interval \in Intervals /\ pause_until = 0 /\ pauses = {} /\ changes = 0
      /\ launches = <<>> /\ Len(launches) = 0 /\ Len(launch_lock) = 0
  BY DEF Init
<1>2. Fresh \in Tasks /\ Fresh.stage = "pending" /\ Fresh.due = 0
  BY DEF Fresh, Tasks, Stages
<1>3. Typed
  <2>1. interval \in Nat /\ last_launch_at \in Int /\ wake_at \in Int
    BY <1>1, PacingConfig DEF LongAgo, Awake
  <2>2. launches \in Seq({})
    BY <1>1
  <2> QED BY <1>1, <1>2, <2>1, <2>2 DEF Typed
<1>4. Locking
  BY <1>1, <1>2 DEF Locking, Once, OnLock
<1>5. Spacing
  <2>1. last_launch_at <= now
    BY <1>1, PacingConfig DEF LongAgo
  <2> QED BY <1>1, <1>2, <2>1 DEF Spacing, LaunchesSpaced
<1>6. Passing
  BY <1>1, <1>2 DEF Passing, PausesRespected
<1>7. Retrying
  BY <1>1, <1>2 DEF Retrying, RetriesOnTime
<1> QED BY <1>3, <1>4, <1>5, <1>6, <1>7 DEF PacingInv

\* Every step preserves it.
LEMMA NextInv == PacingInv /\ [Next]_vars => PacingInv'
<1> SUFFICES ASSUME PacingInv, [Next]_vars PROVE PacingInv'
  OBVIOUS
<1>1. ASSUME NEW q \in Questions, Start(q) \/ PauseSleepEnds(q) PROVE PacingInv'
  BY <1>1, LookAtPauseInv DEF Start, PauseSleepEnds
<1>2. CASE UNCHANGED vars
  <2>1. UNCHANGED <<now, items, wake_at, task, launch_lock, last_launch_at, launches, interval,
                    pause_until, pauses, changes>>
    BY <1>2 DEF vars, loop, slot, control
  <2> QED BY <2>1 DEF PacingInv, Typed, Locking, Spacing, LaunchesSpaced, Passing, Looked,
                      PausesRespected, Retrying, RetriesOnTime
<1> QED
  BY <1>1, <1>2, IterateInv, ResumeInv, SlotGrantedInv, PacingEndsInv, SucceedInv, RateLimitedInv,
     FailsAloneInv, TickInv DEF Next

\* The inductive invariant of the timing.
THEOREM PacingInvariant == Spec => []PacingInv
BY InitInv, NextInv, PTL DEF Spec

\* A retry is never sent before its delay is over, and the loop never sleeps past one.
THEOREM RetriesAreOnTime == Spec => []RetriesOnTime
<1>1. PacingInv => RetriesOnTime
  BY DEF PacingInv, Retrying
<1> QED BY <1>1, PacingInvariant, PTL

\* Launches are spaced by an interval that was in force after the launch before them.
THEOREM LaunchesAreSpaced == Spec => []LaunchesSpaced
<1>1. PacingInv => LaunchesSpaced
  BY DEF PacingInv, Spacing
<1> QED BY <1>1, PacingInvariant, PTL

\* During a pause only tasks are launched that had looked before it was set.
THEOREM PausesAreRespected == Spec => []PausesRespected
<1>1. PacingInv => PausesRespected
  BY DEF PacingInv, Passing
<1> QED BY <1>1, PacingInvariant, PTL

-----------------------------------------------------------------------------
(* The types, with the bounds of the clock and of the attempts. *)

\* The data of an attempt, whatever its place.
Fits(t, version) ==
    /\ t.attempt \in 1..MaxAttempts
    /\ t.passed <= Horizon
    /\ t.gap \in {0} \cup Intervals
    /\ t.seen <= version

\* No attempt is numbered beyond the last one, none waits for an interval the
\* controller never had, and a question that is delayed has an entry.
Bounded ==
    /\ now <= Horizon
    /\ wake_at \in {Awake} \cup Nat
    /\ interval \in Intervals
    /\ last_launch_at \in {LongAgo} \cup Nat
    /\ \A q \in Questions : Fits(task[q], changes)
    /\ \A q \in Questions : task[q].stage = "delayed" => \E item \in items : item.question = q

BoundedInv == PacingInv /\ Bounded

\* The step of a task: its data and the time of the last launch change.
LEMMA TaskBounded ==
    ASSUME BoundedInv, NEW q \in Questions, NEW t \in Tasks,
           task' = [task EXCEPT ![q] = t], t.stage # "delayed", Fits(t, changes),
           last_launch_at' \in {last_launch_at, now},
           UNCHANGED <<now, loop, control>>
    PROVE  Bounded'
<1>1. /\ Typed /\ Bounded /\ now \in Nat /\ task \in [Questions -> Tasks]
      /\ UNCHANGED <<now, items, wake_at, interval, changes>>
  BY DEF BoundedInv, PacingInv, Typed, loop, control
<1>2. /\ task'[q] = t
      /\ \A p \in Questions : p # q => task'[p] = task[p]
  BY <1>1
<1>3. \A p \in Questions : Fits(task'[p], changes)
  BY <1>1, <1>2 DEF Bounded
<1>4. \A p \in Questions : task'[p].stage = "delayed" => \E item \in items : item.question = p
  BY <1>1, <1>2 DEF Bounded
<1>5. last_launch_at' \in {LongAgo} \cup Nat
  BY <1>1 DEF Bounded
<1> QED BY <1>1, <1>3, <1>4, <1>5 DEF Bounded

LEMMA LaunchBounded ==
    ASSUME BoundedInv, NEW q \in Questions, NEW t \in Tasks, NEW rest,
           Launch(q, t, rest), UNCHANGED <<now, loop, control>>, Fits(t, changes)
    PROVE  Bounded'
<1> DEFINE sent == [Fresh EXCEPT !.stage = "in_flight", !.attempt = t.attempt]
<1>1. changes \in Nat /\ Horizon \in Nat /\ t.attempt \in Nat
  BY PacingConfig DEF BoundedInv, PacingInv, Typed, Tasks
<1>2. task' = [task EXCEPT ![q] = sent] /\ last_launch_at' = now
  BY DEF Launch, LaunchedAt
<1>3. /\ sent \in Tasks /\ sent.stage = "in_flight" /\ sent.attempt = t.attempt
      /\ sent.passed = 0 /\ sent.gap = 0 /\ sent.seen = 0
  BY <1>1 DEF Fresh, Tasks, Stages
<1> HIDE DEF sent
<1>4. Fits(sent, changes)
  BY <1>1, <1>3 DEF Fits
<1> QED BY <1>2, <1>3, <1>4, TaskBounded

LEMMA TakeSlotBounded ==
    ASSUME BoundedInv, NEW q \in Questions, NEW t \in Tasks, NEW rest,
           TakeSlot(q, t, rest), UNCHANGED <<now, loop, control>>, Fits(t, changes)
    PROVE  Bounded'
<1> DEFINE slot_at == last_launch_at + interval
           holder == [t EXCEPT !.gap = interval, !.seen = changes]
           sleeper == [holder EXCEPT !.stage = "pacing", !.until = slot_at]
<1>1. /\ now \in Nat /\ interval \in Nat /\ changes \in Nat /\ last_launch_at \in Int
      /\ interval \in Intervals
  BY DEF BoundedInv, Bounded, PacingInv, Typed
<1>2. holder \in Tasks /\ Fits(holder, changes)
  <2>1. /\ holder \in Tasks /\ holder.attempt = t.attempt /\ holder.passed = t.passed
        /\ holder.gap = interval /\ holder.seen = changes
    BY <1>1 DEF Tasks
  <2> HIDE DEF holder
  <2> QED BY <1>1, <2>1 DEF Fits
<1>3. CASE slot_at <= now /\ Launch(q, holder, rest)
  <2> HIDE DEF holder
  <2> QED BY <1>2, <1>3, LaunchBounded
<1>4. CASE /\ slot_at > now
           /\ task' = [task EXCEPT ![q] = sleeper]
           /\ UNCHANGED last_launch_at
  <2> HIDE DEF holder
  <2>1. slot_at \in Nat /\ "pacing" \in Stages
    BY <1>1, <1>4 DEF Stages
  <2>2. sleeper \in Tasks /\ sleeper.stage = "pacing" /\ Fits(sleeper, changes)
    BY <1>2, <2>1 DEF Tasks, Fits
  <2> HIDE DEF sleeper
  <2> QED BY <1>4, <2>2, TaskBounded
<1> QED BY <1>3, <1>4 DEF TakeSlot

LEMMA LookAtPauseBounded ==
    ASSUME BoundedInv, NEW q \in Questions, LookAtPause(q), UNCHANGED <<now, loop, control>>,
           task[q].stage \in {"created", "pausing"}
    PROVE  Bounded'
<1> DEFINE t == [task[q] EXCEPT !.passed = now]
           asleep == [task[q] EXCEPT !.stage = "pausing", !.until = pause_until]
           waiting == [t EXCEPT !.stage = "queued"]
<1>1. /\ now \in Nat /\ pause_until \in Nat /\ task[q] \in Tasks
      /\ now <= Horizon /\ Fits(task[q], changes)
  BY DEF BoundedInv, Bounded, PacingInv, Typed
<1>2. t \in Tasks /\ Fits(t, changes)
  BY <1>1 DEF Tasks, Fits
<1>3. CASE /\ task' = [task EXCEPT ![q].stage = "pausing", ![q].until = pause_until]
           /\ UNCHANGED slot
  <2>1. task' = [task EXCEPT ![q] = asleep] /\ UNCHANGED last_launch_at
    BY <1>3 DEF slot
  <2>2. asleep \in Tasks /\ asleep.stage = "pausing" /\ Fits(asleep, changes)
    BY <1>1 DEF Tasks, Stages, Fits
  <2> HIDE DEF asleep
  <2> QED BY <2>1, <2>2, TaskBounded
<1>4. CASE TakeSlot(q, t, <<>>)
  <2> HIDE DEF t
  <2> QED BY <1>2, <1>4, TakeSlotBounded
<1>5. CASE task' = [task EXCEPT ![q] = waiting] /\ UNCHANGED last_launch_at
  <2>1. waiting \in Tasks /\ waiting.stage = "queued" /\ Fits(waiting, changes)
    BY <1>2 DEF Tasks, Stages, Fits
  <2> HIDE DEF waiting
  <2> QED BY <1>5, <2>1, TaskBounded
<1> QED BY <1>3, <1>4, <1>5 DEF LookAtPause

\* A retry that is due leaves the list with its entry.
LEMMA IterateBounded ==
    ASSUME BoundedInv, Iterate
    PROVE  Bounded'
<1> DEFINE ready == {item.question : item \in {x \in items : x.ready_at <= now}}
<1>1. /\ Bounded /\ now \in Nat /\ task \in [Questions -> Tasks]
      /\ items \subseteq [ready_at : Nat, question : Questions]
  BY DEF BoundedInv, PacingInv, Typed
<1>2. /\ task' = [q \in Questions |-> IF q \in ready \/ task[q].stage = "pending"
                                      THEN [task[q] EXCEPT !.stage = "created"] ELSE task[q]]
      /\ items' = {item \in items : item.ready_at > now}
      /\ wake_at' = NextDelay(items')
      /\ UNCHANGED <<now, last_launch_at, interval, changes>>
  BY DEF Iterate, Kept, control
<1>3. wake_at' \in Nat
  BY <1>1, <1>2, SleepsNotPast
<1>4. ASSUME NEW q \in Questions
      PROVE  Fits(task'[q], changes)
  <2>1. task[q] \in Tasks /\ Fits(task[q], changes)
    BY <1>1 DEF Bounded
  <2>2. task'[q] = [task[q] EXCEPT !.stage = "created"] \/ task'[q] = task[q]
    BY <1>2
  <2> QED BY <2>1, <2>2 DEF Tasks, Fits
<1>5. ASSUME NEW q \in Questions, task'[q].stage = "delayed"
      PROVE  \E item \in items' : item.question = q
  <2>1. task[q] \in Tasks
    BY <1>1
  <2>2. q \notin ready /\ task'[q] = task[q]
    <3>1. CASE q \in ready \/ task[q].stage = "pending"
      <4>1. task'[q] = [task[q] EXCEPT !.stage = "created"]
        BY <1>2, <3>1
      <4> QED BY <1>5, <2>1, <4>1 DEF Tasks
    <3>2. CASE ~(q \in ready \/ task[q].stage = "pending")
      BY <1>2, <3>2
    <3> QED BY <3>1, <3>2
  <2>3. PICK item \in items : item.question = q
    BY <1>1, <1>5, <2>2 DEF Bounded
  <2>4. item.ready_at > now
    BY <1>1, <2>2, <2>3
  <2> QED BY <1>2, <2>3, <2>4
<1> QED BY <1>1, <1>2, <1>3, <1>4, <1>5 DEF Bounded

\* A question that is delayed has an attempt left.
LEMMA OutcomeBounded ==
    ASSUME BoundedInv, NEW q \in Questions, HandledNow(q), NEW delay \in Nat,
           \/ task' = [task EXCEPT ![q].stage = "done"] /\ items' = items
           \/ RetryOrFail(q, delay),
           UNCHANGED <<now, wake_at, slot>>,
           interval' \in Intervals, changes' \in Nat, changes' >= changes
    PROVE  Bounded'
<1>1. /\ Bounded /\ now \in Nat /\ changes \in Nat /\ task \in [Questions -> Tasks]
      /\ task[q] \in Tasks /\ Fits(task[q], changes) /\ last_launch_at' = last_launch_at
      /\ \A p \in Questions : task[p] \in Tasks /\ Fits(task[p], changes)
  BY DEF BoundedInv, PacingInv, Typed, Bounded, slot
<1> DEFINE over == [task[q] EXCEPT !.stage = "done"]
           again == [Fresh EXCEPT !.stage = "delayed", !.attempt = task[q].attempt + 1,
                                  !.due = now + delay]
           entry == [ready_at |-> now + delay, question |-> q]
<1>2. \/ task' = [task EXCEPT ![q] = over] /\ items' = items
      \/ /\ task[q].attempt < MaxAttempts
         /\ task' = [task EXCEPT ![q] = again] /\ items' = items \cup {entry}
  BY DEF RetryOrFail
<1>3. over.stage = "done" /\ Fits(over, changes)
  BY <1>1 DEF Tasks, Fits
<1>4. task[q].attempt < MaxAttempts => Fits(again, changes)
  <2>1. task[q].attempt \in Nat /\ MaxAttempts \in Nat /\ Horizon \in Nat
    BY <1>1, PacingConfig DEF Tasks
  <2>2. /\ again.attempt = task[q].attempt + 1 /\ again.passed = 0 /\ again.gap = 0
        /\ again.seen = 0
    BY DEF Fresh
  <2> HIDE DEF again
  <2> QED BY <1>1, <2>1, <2>2 DEF Fits
<1>5. entry.question = q
  OBVIOUS
<1> HIDE DEF over, again, entry
<1>6. ASSUME NEW p \in Questions
      PROVE  Fits(task'[p], changes')
  <2>1. Fits(task'[p], changes)
    BY <1>1, <1>2, <1>3, <1>4
  <2>2. task'[p].seen \in Nat \/ task'[p].seen \in Int
    <3>1. over.seen \in Nat
      BY <1>1 DEF over, Tasks
    <3>2. again.seen \in Nat
      BY DEF again, Fresh
    <3>3. task[p].seen \in Nat
      BY <1>1 DEF Tasks
    <3> QED BY <1>1, <1>2, <3>1, <3>2, <3>3
  <2> QED BY <1>1, <2>1, <2>2 DEF Fits
<1>7. ASSUME NEW p \in Questions, task'[p].stage = "delayed"
      PROVE  \E item \in items' : item.question = p
  <2>1. CASE p = q
    <3>1. task'[p] # over
      BY <1>3, <1>7
    <3> QED BY <1>1, <1>2, <1>5, <2>1, <3>1
  <2>2. CASE p # q
    <3>1. task'[p] = task[p]
      BY <1>1, <1>2, <2>2
    <3>2. items \subseteq items'
      BY <1>2
    <3> QED BY <1>1, <1>7, <3>1, <3>2 DEF Bounded
  <2> QED BY <2>1, <2>2
<1> QED BY <1>1, <1>6, <1>7 DEF Bounded

LEMMA BoundedNext == BoundedInv /\ [Next]_vars => BoundedInv'
<1> SUFFICES ASSUME BoundedInv, [Next]_vars PROVE Bounded'
  BY NextInv DEF BoundedInv
<1>1. /\ Typed /\ Bounded /\ now \in Nat /\ changes \in Nat /\ task \in [Questions -> Tasks]
      /\ interval \in Intervals /\ 0 \in Nat
  BY DEF BoundedInv, PacingInv, Typed, Bounded
<1>2. ASSUME UNCHANGED <<items, task, last_launch_at, interval, changes>>,
             now' <= Horizon, wake_at' \in {Awake} \cup Nat
      PROVE  Bounded'
  BY <1>1, <1>2 DEF Bounded
<1>3. CASE Iterate
  BY <1>3, IterateBounded
<1>4. CASE Resume
  BY <1>1, <1>2, <1>4 DEF Resume, slot, control, Bounded
<1>5. ASSUME NEW q \in Questions, Start(q) \/ PauseSleepEnds(q)
      PROVE  Bounded'
  BY <1>5, LookAtPauseBounded DEF Start, PauseSleepEnds
<1>6. ASSUME NEW q \in Questions, SlotGranted(q)
      PROVE  Bounded'
  BY <1>1, <1>6, TakeSlotBounded DEF SlotGranted, Bounded
<1>7. ASSUME NEW q \in Questions, PacingEnds(q)
      PROVE  Bounded'
  BY <1>1, <1>7, LaunchBounded DEF PacingEnds, Bounded
<1>8. ASSUME Retune
      PROVE  interval' \in Intervals /\ changes' \in Nat /\ changes' >= changes
  BY <1>1, <1>8 DEF Retune
<1>9. ASSUME NEW q \in Questions, Succeed(q)
      PROVE  Bounded'
  <2>1. /\ HandledNow(q) /\ task' = [task EXCEPT ![q].stage = "done"] /\ items' = items
        /\ UNCHANGED <<now, wake_at, slot>>
    BY <1>9 DEF Succeed, loop
  <2> QED BY <1>1, <1>8, <1>9, <2>1, OutcomeBounded DEF Succeed
<1>10. ASSUME NEW q \in Questions, NEW retry_after \in RetryAfters, RateLimited(q, retry_after)
       PROVE  Bounded'
  <2>1. PICK jitter \in 0..Jitter : RetryOrFail(q, retry_after + jitter)
    BY <1>10 DEF RateLimited
  <2>2. retry_after + jitter \in Nat
    BY PacingConfig
  <2>3. /\ HandledNow(q) /\ Retune /\ UNCHANGED <<now, wake_at, slot>>
    BY <1>10 DEF RateLimited
  <2> QED BY <1>8, <2>1, <2>2, <2>3, OutcomeBounded
<1>11. ASSUME NEW q \in Questions, NEW wait \in RetryAfters \cup Backoffs, FailsAlone(q, wait)
       PROVE  Bounded'
  <2>1. PICK jitter \in 0..Jitter : RetryOrFail(q, wait + jitter)
    BY <1>11 DEF FailsAlone
  <2>2. wait + jitter \in Nat
    BY PacingConfig
  <2>3. /\ HandledNow(q) /\ UNCHANGED <<now, wake_at, slot, interval, changes>>
    BY <1>11 DEF FailsAlone, control
  <2>4. interval' \in Intervals /\ changes' \in Nat /\ changes' >= changes
    BY <1>1, <2>3
  <2> QED BY <2>1, <2>2, <2>3, <2>4, OutcomeBounded
<1>12. CASE Tick
  <2>1. now' <= Horizon
    BY <1>1, <1>12, PacingConfig DEF Tick
  <2> QED BY <1>1, <1>2, <1>12, <2>1 DEF Tick, loop, slot, control, Bounded
<1>13. CASE UNCHANGED vars
  BY <1>1, <1>2, <1>13 DEF vars, loop, slot, control, Bounded
<1> QED BY <1>3, <1>4, <1>5, <1>6, <1>7, <1>9, <1>10, <1>11, <1>12, <1>13 DEF Next

LEMMA BoundedInit == Init => BoundedInv
<1> SUFFICES ASSUME Init PROVE Bounded
  BY InitInv DEF BoundedInv
<1>1. Fits(Fresh, 0)
  BY PacingConfig DEF Fits, Fresh
<1>2. /\ now = 0 /\ wake_at = Awake /\ interval \in Intervals /\ last_launch_at = LongAgo
      /\ changes = 0 /\ task = [q \in Questions |-> Fresh] /\ Fresh.stage = "pending"
  BY DEF Init, Fresh
<1> QED BY <1>1, <1>2, PacingConfig DEF Bounded

\* The entries of the delayed retries are those of the delayed questions, one each.
LEMMA OneEntryEach ==
    ASSUME BoundedInv
    PROVE  LET delayed == {q \in Questions : task[q].stage = "delayed"}
           IN  /\ {item.question : item \in items} = delayed
               /\ Cardinality(items) = Cardinality(delayed)
<1> DEFINE delayed == {q \in Questions : task[q].stage = "delayed"}
           entry == [q \in delayed |-> [ready_at |-> task[q].due, question |-> q]]
<1>1. /\ items \subseteq [ready_at : Nat, question : Questions]
      /\ \A item \in items : task[item.question].stage = "delayed"
                             /\ item.ready_at = task[item.question].due
      /\ \A q \in delayed : \E item \in items : item.question = q
  BY DEF BoundedInv, PacingInv, Typed, Retrying, Bounded
<1>2. {item.question : item \in items} = delayed
  BY <1>1
<1>3. \A item \in items : item.question \in delayed /\ item = entry[item.question]
  BY <1>1
<1>4. \A q \in delayed : entry[q] \in items /\ entry[q].question = q
  <2> SUFFICES ASSUME NEW q \in delayed PROVE entry[q] \in items /\ entry[q].question = q
    OBVIOUS
  <2>1. PICK item \in items : item.question = q
    BY <1>1
  <2> QED BY <1>3, <2>1
<1>5. entry \in [delayed -> items]
  BY <1>4
<1>6. IsFiniteSet(delayed)
  BY PacingConfig, FS_Subset
<1> HIDE DEF delayed, entry
<1>7. entry \in Injection(delayed, items)
  BY <1>4, <1>5 DEF Injection, IsInjective
<1>8. entry \in Surjection(delayed, items)
  BY <1>3, <1>5 DEF Surjection
<1>9. ExistsBijection(delayed, items)
  BY <1>7, <1>8 DEF ExistsBijection, Bijection
<1>10. Cardinality(items) = Cardinality(delayed)
  BY <1>6, <1>9, FS_Bijection
<1> QED BY <1>2, <1>10 DEF delayed

\* The inductive invariant of the timing holds together with the bounds of its data.
THEOREM BoundedInvariant == Spec => []BoundedInv
BY BoundedInit, BoundedNext, PTL DEF Spec

\* Every variable keeps its type; a question is delayed once, or once in the lock, or
\* neither.
THEOREM PacingTypeCorrect == Spec => []TypeOK
<1> SUFFICES ASSUME BoundedInv PROVE TypeOK
  BY BoundedInvariant, PTL
<1>1. Typed /\ Locking /\ Spacing /\ Bounded
  BY DEF BoundedInv, PacingInv
<1>2. now \in 0..Horizon
  BY <1>1, PacingConfig DEF Typed, Bounded
<1>3. task \in [Questions -> [stage : Stages, attempt : 1..MaxAttempts, due : Nat,
                              until : Nat, passed : 0..Horizon,
                              gap : {0} \cup Intervals, seen : 0..changes]]
  <2> SUFFICES ASSUME NEW q \in Questions
               PROVE  task[q] \in [stage : Stages, attempt : 1..MaxAttempts, due : Nat,
                                   until : Nat, passed : 0..Horizon,
                                   gap : {0} \cup Intervals, seen : 0..changes]
    BY <1>1 DEF Typed
  <2>1. task[q] \in Tasks /\ Fits(task[q], changes) /\ changes \in Nat /\ Horizon \in Nat
    BY <1>1, PacingConfig DEF Typed, Bounded
  <2>2. task[q].passed \in 0..Horizon /\ task[q].seen \in 0..changes
    BY <2>1 DEF Tasks, Fits
  <2> QED BY <2>1, <2>2 DEF Tasks, Fits
<1>4. last_launch_at \in {LongAgo} \cup 0..now
  BY <1>1 DEF Typed, Spacing, Bounded
<1>5. launch_lock \in Seq(Questions) /\ DOMAIN launch_lock = 1..Len(launch_lock)
  BY <1>1 DEF Typed
<1>6. IsInjective(launch_lock)
  BY <1>1, <1>5 DEF IsInjective, Locking, Once
<1>7. ToSet(launch_lock) = {q \in Questions : task[q].stage \in {"queued", "pacing"}}
  <2>1. \A q \in ToSet(launch_lock) : q \in Questions /\ OnLock(launch_lock, q)
    BY <1>5 DEF ToSet, OnLock
  <2>2. \A q \in Questions : OnLock(launch_lock, q) => q \in ToSet(launch_lock)
    BY <1>5 DEF ToSet, OnLock
  <2> QED BY <1>1, <2>1, <2>2 DEF Locking
<1> QED BY <1>1, <1>2, <1>3, <1>4, <1>6, <1>7, OneEntryEach DEF TypeOK, Bounded

-----------------------------------------------------------------------------
(* The launch rate. *)

\* The loop of popleft removes the old entries of a sequence in order, and only those.
LEMMA ExpiredAreOld ==
    ASSUME NEW ts \in Seq(Nat), now \in Nat,
           \A i, j \in 1..Len(ts) : i <= j => ts[i] <= ts[j]
    PROVE  /\ Expired(ts) \in 0..Len(ts)
           /\ \A i \in 1..Len(ts) : now - ts[i] > Window <=> i <= Expired(ts)
<1> DEFINE L == Len(ts)
           Stops(n) == /\ \A i \in 1..n : now - ts[i] > Window
                       /\ n < L => now - ts[n + 1] <= Window
           young == {i \in 1..L : now - ts[i] <= Window}
<1>1. /\ L \in Nat /\ Window \in Nat
      /\ \A i \in 1..L : ts[i] \in Nat
      /\ \A i, j \in 1..L : i <= j => ts[i] <= ts[j]
  BY PacingConfig
<1>2. Expired(ts) = CHOOSE n \in 0..L : Stops(n)
  BY DEF Expired
<1> HIDE DEF L
<1>3. \E n \in 0..L : Stops(n)
  <2>1. CASE young = {}
    <3>1. Stops(L)
      BY <1>1, <2>1
    <3> QED BY <1>1, <3>1
  <2>2. CASE young # {}
    <3>1. PICK x \in young : \A y \in young : x <= y
      <4>1. young \subseteq Nat
        BY <1>1
      <4> QED BY <2>2, <4>1, FirstInstant
    <3>2. x - 1 \in 0..L /\ (x - 1) + 1 = x
      BY <1>1
    <3>3. Stops(x - 1)
      BY <1>1, <3>1, <3>2
    <3> QED BY <3>2, <3>3
  <2> QED BY <2>1, <2>2
<1> HIDE DEF Stops
<1>4. PICK m : m = Expired(ts) /\ m \in 0..L /\ Stops(m)
  BY <1>2, <1>3
<1>5. ASSUME NEW i \in 1..L
      PROVE  now - ts[i] > Window <=> i <= m
  <2>1. CASE i <= m
    BY <1>4, <2>1 DEF Stops
  <2>2. CASE i > m
    <3>1. m + 1 \in 1..L /\ m + 1 <= i /\ m < L
      BY <1>1, <1>4, <2>2
    <3>2. now - ts[m + 1] <= Window
      BY <1>4, <3>1 DEF Stops
    <3>3. ts[m + 1] <= ts[i] /\ ts[m + 1] \in Nat /\ ts[i] \in Nat /\ Window \in Nat
      BY <1>1, <3>1
    <3>4. ~(now - ts[i] > Window)
      BY <3>2, <3>3
    <3> QED BY <1>4, <2>2, <3>4
  <2> QED BY <1>1, <1>4, <2>1, <2>2
<1> QED BY <1>4, <1>5 DEF L

\* ts is what is left of times without the first k.
After(ts, times, k) ==
    /\ Len(times) = k + Len(ts)
    /\ \A i \in 1..Len(ts) : ts[i] = times[k + i]

InOrder(times) == \A i, j \in 1..Len(times) : i <= j => times[i] <= times[j]

LEMMA AfterAppend ==
    ASSUME NEW times \in Seq(Nat), NEW ts \in Seq(Nat), NEW k \in Nat, NEW x \in Nat,
           After(ts, times, k), InOrder(times), \A i \in 1..Len(times) : times[i] <= x
    PROVE  /\ After(Append(ts, x), Append(times, x), k) /\ InOrder(Append(times, x))
           /\ \A i \in 1..k : Append(times, x)[i] = times[i]
<1>1. PICK l \in Nat, n \in Nat : l = Len(ts) /\ n = Len(times)
  OBVIOUS
<1>2. PICK longer, larger : longer = Append(ts, x) /\ larger = Append(times, x)
  OBVIOUS
<1>3. /\ Len(longer) = l + 1 /\ longer[l + 1] = x /\ \A i \in 1..l : longer[i] = ts[i]
      /\ Len(larger) = n + 1 /\ larger[n + 1] = x /\ \A i \in 1..n : larger[i] = times[i]
  BY <1>1, <1>2
<1>4. n = k + l /\ \A i \in 1..l : ts[i] = times[k + i]
  BY <1>1 DEF After
<1>5. ASSUME NEW i \in 1..(l + 1)
      PROVE  longer[i] = larger[k + i]
  <2>1. CASE i = l + 1
    <3>1. k + i = n + 1
      BY <1>4, <2>1
    <3> QED BY <1>3, <2>1, <3>1
  <2>2. CASE i # l + 1
    <3>1. i \in 1..l
      BY <2>2
    <3>2. k + i \in 1..n
      BY <1>4, <3>1
    <3> QED BY <1>3, <1>4, <3>1, <3>2
  <2> QED BY <2>1, <2>2
<1>6. After(longer, larger, k)
  <2>1. n + 1 = k + (l + 1)
    BY <1>4
  <2> QED BY <1>3, <1>5, <2>1 DEF After
<1>7. \A i \in 1..n : times[i] <= x
  BY <1>1
<1>8. ASSUME NEW i \in 1..(n + 1), NEW j \in 1..(n + 1), i <= j
      PROVE  larger[i] <= larger[j]
  <2>1. CASE j = n + 1
    <3>1. CASE i = n + 1
      BY <1>3, <2>1, <3>1
    <3>2. CASE i # n + 1
      <4>1. i \in 1..n
        BY <3>2
      <4> QED BY <1>3, <1>7, <2>1, <4>1
    <3> QED BY <3>1, <3>2
  <2>2. CASE j # n + 1
    <3>1. i \in 1..n /\ j \in 1..n
      BY <1>8, <2>2
    <3> QED BY <1>1, <1>3, <1>8, <3>1 DEF InOrder
  <2> QED BY <2>1, <2>2
<1>9. InOrder(larger)
  BY <1>3, <1>8 DEF InOrder
<1>10. \A i \in 1..k : larger[i] = times[i]
  <2>1. \A i \in 1..k : i \in 1..n
    BY <1>4
  <2> QED BY <1>3, <2>1
<1> QED BY <1>2, <1>6, <1>9, <1>10

\* What is left is what is not old, and as many.
LEMMA PrunedCounts ==
    ASSUME NEW times \in Seq(Nat), NEW ts \in Seq(Nat), NEW k \in Nat, now \in Nat,
           After(ts, times, k), InOrder(times), \A i \in 1..k : now - times[i] > Window
    PROVE  /\ Pruned(ts) \in Seq(Nat)
           /\ \E m \in Nat : /\ After(Pruned(ts), times, m)
                             /\ \A i \in 1..m : now - times[i] > Window
           /\ Len(Pruned(ts)) =
                Cardinality({i \in 1..Len(times) : now - times[i] <= Window})
<1>1. PICK l \in Nat, n \in Nat : l = Len(ts) /\ n = Len(times)
  OBVIOUS
<1>2. n = k + l /\ \A i \in 1..l : ts[i] = times[k + i]
  BY <1>1 DEF After
<1>3. Window \in Nat /\ \A i \in 1..n : times[i] \in Nat
  BY <1>1, PacingConfig
<1>4. \A i \in 1..l : k + i \in 1..n
  BY <1>2
<1>5. ASSUME NEW i \in 1..l, NEW j \in 1..l, i <= j
      PROVE  ts[i] <= ts[j]
  <2>1. k + i \in 1..n /\ k + j \in 1..n /\ k + i <= k + j
    <3>1. k + i \in 1..n /\ k + j \in 1..n
      BY <1>4
    <3>2. i \in Nat /\ j \in Nat /\ i <= j
      BY <1>1, <1>5
    <3>3. k + i <= k + j
      BY ONLY <3>2, k \in Nat
    <3> QED BY <3>1, <3>3
  <2>2. times[k + i] <= times[k + j]
    BY <1>1, <2>1 DEF InOrder
  <2> QED BY <1>2, <2>2
<1>6. PICK m \in 0..l : /\ m = Expired(ts)
                        /\ \A i \in 1..l : now - ts[i] > Window <=> i <= m
  BY <1>1, <1>5, ExpiredAreOld
<1>7. PICK rest : rest = Pruned(ts) /\ rest = SubSeq(ts, m + 1, l)
  BY <1>1, <1>6 DEF Pruned
<1>8. m + 1 \in Int /\ l \in Int /\ l - m \in Nat
  OBVIOUS
<1>9. /\ rest \in Seq(Nat) /\ Len(rest) = l - m
      /\ \A i \in 1..(l - m) : rest[i] = ts[m + i]
  <2>1. \A i \in (m + 1)..l : ts[i] \in Nat
    BY <1>1
  <2>2. rest \in Seq(Nat)
    BY <1>7, <1>8, <2>1, SubSeqProperties
  <2>3. Len(rest) = IF m + 1 <= l THEN l - (m + 1) + 1 ELSE 0
    BY <1>1, <1>7, <1>8, SubSeqProperties
  <2>4. Len(rest) = l - m
    BY <2>3
  <2>5. \A i \in 1..(l - m) : rest[i] = ts[(m + 1) + i - 1]
    BY <1>1, <1>7, <1>8, <2>4, SubSeqProperties
  <2>6. \A i \in 1..(l - m) : (m + 1) + i - 1 = m + i
    OBVIOUS
  <2> QED BY <2>2, <2>4, <2>5, <2>6
<1>10. ASSUME NEW i \in 1..n
       PROVE  now - times[i] > Window <=> i <= k + m
  <2>1. CASE i <= k
    <3>1. now - times[i] > Window
      BY <2>1
    <3> QED BY <2>1, <3>1
  <2>2. CASE i > k
    <3>1. i - k \in 1..l /\ k + (i - k) = i
      BY <1>2, <2>2
    <3>2. ts[i - k] = times[i]
      BY <1>2, <3>1
    <3>3. now - ts[i - k] > Window <=> i - k <= m
      BY <1>6, <3>1
    <3>4. i - k <= m <=> i <= k + m
      OBVIOUS
    <3> QED BY <3>2, <3>3, <3>4
  <2> QED BY <2>1, <2>2
<1>11. k + m \in Nat /\ k + m <= n
  BY <1>2
<1>12. After(rest, times, k + m)
  <2>1. n = (k + m) + (l - m)
    BY <1>2
  <2>2. ASSUME NEW i \in 1..(l - m)
        PROVE  rest[i] = times[(k + m) + i]
    <3>1. m + i \in 1..l /\ k + (m + i) = (k + m) + i
      OBVIOUS
    <3> QED BY <1>2, <1>9, <3>1
  <2> QED BY <1>1, <1>9, <2>1, <2>2 DEF After
<1>13. \A i \in 1..(k + m) : now - times[i] > Window
  <2>1. \A i \in 1..(k + m) : i \in 1..n /\ i <= k + m
    BY <1>11
  <2> QED BY <1>10, <2>1
<1>14. {i \in 1..n : now - times[i] <= Window} = (k + m + 1)..n
  <2>1. ASSUME NEW i \in 1..n
        PROVE  now - times[i] <= Window <=> i > k + m
    <3>1. times[i] \in Nat
      BY <1>3
    <3>2. now - times[i] <= Window <=> ~(now - times[i] > Window)
      BY <1>3, <3>1
    <3> QED BY <1>10, <1>11, <3>2
  <2>2. (k + m + 1)..n \subseteq 1..n
    BY <1>11
  <2> QED BY <1>11, <2>1, <2>2
<1>15. PICK a \in Int, b \in Int : a = k + m + 1 /\ b = n
  OBVIOUS
<1>16. Cardinality(a..b) = IF a > b THEN 0 ELSE b - a + 1
  BY FS_Interval
<1>17. Cardinality(a..b) = l - m
  BY <1>2, <1>15, <1>16
<1> QED BY <1>1, <1>7, <1>9, <1>11, <1>12, <1>13, <1>14, <1>15, <1>17

\* When the requests were sent, in order; what launch_timestamps has forgotten of it is
\* old, and each rate counted what was not.
Times == [i \in 1..Len(launches) |-> launches[i].at]

Timing ==
    /\ timestamps \in Seq(Nat)
    /\ InOrder(Times)
    /\ \E k \in Nat : /\ After(timestamps, Times, k)
                      /\ \A i \in 1..k : now - Times[i] > Window
    /\ \A i \in 1..Len(launches) :
          launches[i].launch_rpm =
              Cardinality({j \in 1..i : launches[i].at - launches[j].at <= Window})

\* A launch removes what is old and counts what is left.
LEMMA LaunchTiming ==
    ASSUME PacingInv, Timing, NEW q \in Questions, NEW t \in Tasks, NEW rest,
           Launch(q, t, rest), UNCHANGED now
    PROVE  Timing'
<1>1. /\ now \in Nat /\ Window \in Nat /\ timestamps \in Seq(Nat)
      /\ \A i \in 1..Len(launches) : launches[i].at \in Nat /\ launches[i].at <= now
  BY PacingConfig DEF PacingInv, Typed, Passing, Timing
<1>2. PICK S : launches \in Seq(S)
  BY DEF PacingInv, Typed
<1>3. PICK n \in Nat : n = Len(launches)
  BY <1>2
<1>4. PICK times : times = Times
  OBVIOUS
<1>5. /\ times \in Seq(Nat) /\ Len(times) = n
      /\ \A i \in 1..n : times[i] = launches[i].at /\ times[i] <= now
  BY <1>1, <1>3, <1>4 DEF Times
<1>6. PICK k \in Nat : /\ After(timestamps, times, k)
                       /\ \A i \in 1..k : now - times[i] > Window
  BY <1>4 DEF Timing
<1>7. InOrder(times)
  BY <1>4 DEF Timing
<1>8. PICK ts, larger : ts = Append(timestamps, now) /\ larger = Append(times, now)
  OBVIOUS
<1>9. /\ ts \in Seq(Nat) /\ larger \in Seq(Nat) /\ Len(larger) = n + 1
      /\ larger[n + 1] = now /\ \A i \in 1..n : larger[i] = times[i]
  <2>1. ts \in Seq(Nat) /\ larger \in Seq(Nat)
    BY <1>1, <1>5, <1>8
  <2>2. /\ Len(larger) = n + 1 /\ larger[n + 1] = now
        /\ \A i \in 1..n : larger[i] = times[i]
    <3>1. times \in Seq(Nat) /\ Len(times) = n
      BY <1>5
    <3> QED BY <1>8, <3>1
  <2> QED BY <2>1, <2>2
<1>10. /\ After(ts, larger, k) /\ InOrder(larger)
       /\ \A i \in 1..k : now - larger[i] > Window
  <2>1. \A i \in 1..Len(times) : times[i] <= now
    BY <1>5
  <2>2. /\ After(ts, larger, k) /\ InOrder(larger)
        /\ \A i \in 1..k : larger[i] = times[i]
    <3>1. /\ times \in Seq(Nat) /\ timestamps \in Seq(Nat) /\ now \in Nat
          /\ After(timestamps, times, k)
      BY <1>1, <1>5, <1>6
    <3>2. /\ After(Append(timestamps, now), Append(times, now), k)
          /\ InOrder(Append(times, now))
          /\ \A i \in 1..k : Append(times, now)[i] = times[i]
      BY <1>7, <2>1, <3>1, AfterAppend
    <3> QED BY <1>8, <3>2
  <2> QED BY <1>6, <2>2
<1>11. timestamps' = Pruned(ts)
  BY <1>8 DEF Launch
<1>12. /\ timestamps' \in Seq(Nat)
       /\ \E m \in Nat : /\ After(timestamps', larger, m)
                         /\ \A i \in 1..m : now - larger[i] > Window
       /\ Len(timestamps') = Cardinality({i \in 1..(n + 1) : now - larger[i] <= Window})
  BY <1>1, <1>9, <1>10, <1>11, PrunedCounts
<1>13. PICK e : /\ launches' = Append(launches, e) /\ e.at = now
                /\ e.launch_rpm = Len(timestamps')
  BY DEF Launch
<1>14. /\ Len(launches') = n + 1 /\ launches'[n + 1] = e
       /\ \A i \in 1..n : launches'[i] = launches[i]
  BY <1>2, <1>3, <1>13
<1>15. \A i \in 1..(n + 1) : launches'[i].at = larger[i]
  <2> SUFFICES ASSUME NEW i \in 1..(n + 1) PROVE launches'[i].at = larger[i]
    OBVIOUS
  <2>1. CASE i = n + 1
    BY <1>9, <1>13, <1>14, <2>1
  <2>2. CASE i \in 1..n
    BY <1>5, <1>9, <1>14, <2>2
  <2> QED BY <2>1, <2>2
<1>16. Times' = larger
  <2>1. Times' = [i \in 1..(n + 1) |-> larger[i]]
    BY <1>14, <1>15 DEF Times
  <2>2. larger = [i \in 1..(n + 1) |-> larger[i]]
    BY <1>9
  <2> QED BY <2>1, <2>2
<1>17. ASSUME NEW i \in 1..(n + 1)
       PROVE  launches'[i].launch_rpm =
                Cardinality({j \in 1..i : launches'[i].at - launches'[j].at <= Window})
  <2>1. CASE i = n + 1
    <3>1. {j \in 1..i : launches'[i].at - launches'[j].at <= Window}
            = {j \in 1..(n + 1) : now - larger[j] <= Window}
      BY <1>9, <1>15, <2>1
    <3> QED BY <1>12, <1>13, <1>14, <2>1, <3>1
  <2>2. CASE i # n + 1
    <3>1. i \in 1..n /\ \A j \in 1..i : j \in 1..n
      BY <2>2
    <3>2. {j \in 1..i : launches'[i].at - launches'[j].at <= Window}
            = {j \in 1..i : launches[i].at - launches[j].at <= Window}
      BY <1>14, <3>1
    <3> QED BY <1>3, <1>14, <3>1, <3>2 DEF Timing
  <2> QED BY <2>1, <2>2
<1> QED BY <1>10, <1>12, <1>14, <1>16, <1>17 DEF Timing

-----------------------------------------------------------------------------
(* The waiting time. *)

\* A set of naturals that holds 0 and, with any number, the next one is all of them.
LEMMA Induction ==
    ASSUME NEW S, 0 \in S, \A n \in Nat : n \in S => n + 1 \in S
    PROVE  \A n \in Nat : n \in S
<1> DEFINE T == Nat \ S
<1>1. SUFFICES ASSUME T # {} PROVE FALSE
  OBVIOUS
<1>2. PICK x \in T : \A y \in T : x <= y
  <2>1. T \subseteq Nat
    OBVIOUS
  <2> HIDE DEF T
  <2> QED BY <1>1, <2>1, FirstInstant
<1>3. x \in Nat /\ x # 0 /\ x \notin S
  BY <1>2
<1>4. x - 1 \in Nat /\ ~(x <= x - 1) /\ (x - 1) + 1 = x
  BY <1>3
<1>5. x - 1 \in S
  BY <1>2, <1>4
<1> QED BY <1>3, <1>4, <1>5

Waits == [start : Nat, end : Nat]

\* The instants in the first n waits.
CoveredUpTo(waits, n) ==
    {x \in Nat : \E i \in 1..n : waits[i].start <= x /\ x < waits[i].end}

\* No wait starts or ends before the one before it.
Ascending(waits) ==
    /\ waits \in Seq(Waits)
    /\ \A i \in 1..Len(waits) : waits[i].start < waits[i].end
    /\ \A i, j \in 1..Len(waits) :
          i <= j => waits[i].start <= waits[j].start /\ waits[i].end <= waits[j].end

\* No two waits overlap or touch.
Apart(waits) ==
    /\ waits \in Seq(Waits)
    /\ \A i \in 1..Len(waits) : waits[i].start < waits[i].end
    /\ \A i, j \in 1..Len(waits) : i < j => waits[i].end < waits[j].start

\* Waits in order stay where they are.
LEMMA SortedAlready ==
    ASSUME NEW waits, Ascending(waits)
    PROVE  Sorted(waits) = waits
<1>1. PICK n \in Nat : n = Len(waits) /\ DOMAIN waits = 1..n
  BY DEF Ascending
<1>2. \A i \in 1..n : waits[i] \in Waits
  BY <1>1 DEF Ascending
<1>3. ASSUME NEW i \in 1..n
      PROVE  Place(waits, i) = i
  <2>1. ASSUME NEW j \in 1..n
        PROVE  Earlier(waits[j], waits[i]) \/ (waits[j] = waits[i] /\ j <= i) <=> j <= i
    <3>1. /\ waits[i].start \in Nat /\ waits[i].end \in Nat
          /\ waits[j].start \in Nat /\ waits[j].end \in Nat
      BY <1>2 DEF Waits
    <3>2. CASE j <= i
      <4>1. waits[j].start <= waits[i].start /\ waits[j].end <= waits[i].end
        BY <1>1, <3>2 DEF Ascending
      <4>2. waits[j].start = waits[i].start /\ waits[j].end = waits[i].end
              => waits[j] = waits[i]
        BY <1>2 DEF Waits
      <4> QED BY <3>1, <3>2, <4>1, <4>2 DEF Earlier
    <3>3. CASE i < j
      <4>1. waits[i].start <= waits[j].start /\ waits[i].end <= waits[j].end
        BY <1>1, <3>3 DEF Ascending
      <4>2. ~Earlier(waits[j], waits[i])
        BY <3>1, <4>1 DEF Earlier
      <4> QED BY <3>3, <4>2
    <3> QED BY <3>2, <3>3
  <2>2. {j \in 1..n : Earlier(waits[j], waits[i]) \/ (waits[j] = waits[i] /\ j <= i)} = 1..i
    BY <2>1
  <2>3. Cardinality(1..i) = i
    BY FS_Interval
  <2> QED BY <1>1, <2>2, <2>3 DEF Place
<1> DEFINE At(place) == CHOOSE i \in 1..n : Place(waits, i) = place
<1>4. \A place \in 1..n : At(place) = place
  <2> SUFFICES ASSUME NEW place \in 1..n PROVE At(place) = place
    OBVIOUS
  <2> QED BY <1>3
<1>5. Sorted(waits) = [place \in 1..n |-> waits[place]]
  <2>1. Sorted(waits) = [place \in 1..n |-> waits[At(place)]]
    BY <1>1 DEF Sorted
  <2> HIDE DEF At
  <2> QED BY <1>4, <2>1
<1>6. waits = [place \in 1..n |-> waits[place]]
  BY <1>1 DEF Ascending
<1> QED BY <1>5, <1>6

\* The waits merged so far, and their duration.
MergedUpTo(waits) ==
    LET merged[n \in 0..Len(waits)] ==
            IF n = 0 THEN <<>> ELSE Merge(merged[n - 1], waits[n])
    IN  merged

DurationUpTo(waits) ==
    LET duration[n \in 0..Len(waits)] ==
            IF n = 0 THEN 0 ELSE duration[n - 1] + waits[n].end - waits[n].start
    IN  duration

\* They exist, and go on one wait at a time.
LEMMA MergedDefined ==
    ASSUME NEW waits, Len(waits) \in Nat
    PROVE  /\ Merged(waits) = MergedUpTo(waits)[Len(waits)]
           /\ MergedUpTo(waits)[0] = <<>>
           /\ \A n \in 1..Len(waits) :
                 MergedUpTo(waits)[n] = Merge(MergedUpTo(waits)[n - 1], waits[n])
<1>0. Merged(waits) = MergedUpTo(waits)[Len(waits)]
  BY DEF Merged, MergedUpTo
<1> DEFINE N == Len(waits)
           Step(f, n) == IF n = 0 THEN <<>> ELSE Merge(f[n - 1], waits[n])
           S == {m \in Nat : \E f : f = [n \in 0..m |-> Step(f, n)]}
<1>1. 0 \in S
  <2> DEFINE f == [n \in 0..0 |-> <<>>]
  <2>1. f = [n \in 0..0 |-> Step(f, n)]
    OBVIOUS
  <2> QED BY <2>1
<1>2. \A m \in Nat : m \in S => m + 1 \in S
  <2> SUFFICES ASSUME NEW m \in Nat, m \in S PROVE m + 1 \in S
    OBVIOUS
  <2>1. PICK h : h = [n \in 0..m |-> Step(h, n)]
    OBVIOUS
  <2> DEFINE g == [n \in 0..(m + 1) |-> IF n \in 0..m THEN h[n] ELSE Step(h, n)]
  <2>2. \A n \in 0..(m + 1) : g[n] = Step(g, n)
    <3> SUFFICES ASSUME NEW n \in 0..(m + 1) PROVE g[n] = Step(g, n)
      OBVIOUS
    <3>1. n # 0 => n - 1 \in 0..m /\ g[n - 1] = h[n - 1]
      OBVIOUS
    <3>2. g[n] = Step(h, n)
      BY <2>1
    <3> QED BY <3>1, <3>2
  <2>3. g = [n \in 0..(m + 1) |-> Step(g, n)]
    BY <2>2
  <2> HIDE DEF g
  <2>4. \E f : f = [n \in 0..(m + 1) |-> Step(f, n)]
    BY <2>3
  <2>5. m + 1 \in Nat
    OBVIOUS
  <2> HIDE DEF Step
  <2> QED BY <2>4, <2>5
<1> HIDE DEF S
<1>3. N \in S
  BY <1>1, <1>2, Induction
<1> DEFINE merged == MergedUpTo(waits)
<1>4. merged = [n \in 0..N |-> Step(merged, n)]
  BY <1>3 DEF S, MergedUpTo
<1> HIDE DEF merged
<1>5. \A n \in 0..N : merged[n] = Step(merged, n)
  <2> HIDE DEF Step
  <2> QED BY <1>4
<1>6. \A n \in 1..N : n \in 0..N /\ n # 0
  OBVIOUS
<1>7. /\ merged[0] = <<>>
      /\ \A n \in 1..N : merged[n] = Merge(merged[n - 1], waits[n])
  BY <1>5, <1>6
<1> QED BY <1>0, <1>7 DEF merged

LEMMA DurationDefined ==
    ASSUME NEW waits, Len(waits) \in Nat
    PROVE  /\ Duration(waits) = DurationUpTo(waits)[Len(waits)]
           /\ DurationUpTo(waits)[0] = 0
           /\ \A n \in 1..Len(waits) :
                 DurationUpTo(waits)[n] =
                     DurationUpTo(waits)[n - 1] + waits[n].end - waits[n].start
<1>0. Duration(waits) = DurationUpTo(waits)[Len(waits)]
  BY DEF Duration, DurationUpTo
<1> DEFINE N == Len(waits)
           Step(f, n) == IF n = 0 THEN 0 ELSE f[n - 1] + waits[n].end - waits[n].start
           S == {m \in Nat : \E f : f = [n \in 0..m |-> Step(f, n)]}
<1>1. 0 \in S
  <2> DEFINE f == [n \in 0..0 |-> 0]
  <2>1. f = [n \in 0..0 |-> Step(f, n)]
    OBVIOUS
  <2> QED BY <2>1
<1>2. \A m \in Nat : m \in S => m + 1 \in S
  <2> SUFFICES ASSUME NEW m \in Nat, m \in S PROVE m + 1 \in S
    OBVIOUS
  <2>1. PICK h : h = [n \in 0..m |-> Step(h, n)]
    OBVIOUS
  <2> DEFINE g == [n \in 0..(m + 1) |-> IF n \in 0..m THEN h[n] ELSE Step(h, n)]
  <2>2. \A n \in 0..(m + 1) : g[n] = Step(g, n)
    <3> SUFFICES ASSUME NEW n \in 0..(m + 1) PROVE g[n] = Step(g, n)
      OBVIOUS
    <3>1. n # 0 => n - 1 \in 0..m /\ g[n - 1] = h[n - 1]
      OBVIOUS
    <3>2. g[n] = Step(h, n)
      BY <2>1
    <3> QED BY <3>1, <3>2
  <2>3. g = [n \in 0..(m + 1) |-> Step(g, n)]
    BY <2>2
  <2> HIDE DEF g
  <2>4. \E f : f = [n \in 0..(m + 1) |-> Step(f, n)]
    BY <2>3
  <2>5. m + 1 \in Nat
    OBVIOUS
  <2> HIDE DEF Step
  <2> QED BY <2>4, <2>5
<1> HIDE DEF S
<1>3. N \in S
  BY <1>1, <1>2, Induction
<1> DEFINE duration == DurationUpTo(waits)
<1>4. duration = [n \in 0..N |-> Step(duration, n)]
  BY <1>3 DEF S, DurationUpTo
<1> HIDE DEF duration
<1>5. \A n \in 0..N : duration[n] = Step(duration, n)
  <2> HIDE DEF Step
  <2> QED BY <1>4
<1>6. \A n \in 1..N : n \in 0..N /\ n # 0
  OBVIOUS
<1>7. /\ duration[0] = 0
      /\ \A n \in 1..N : duration[n] = duration[n - 1] + waits[n].end - waits[n].start
  BY <1>5, <1>6
<1> QED BY <1>0, <1>7 DEF duration

\* The duration of waits that are apart is the number of the instants in them.
LEMMA DurationCounts ==
    ASSUME NEW waits, Apart(waits)
    PROVE  Duration(waits) = Cardinality(CoveredUpTo(waits, Len(waits)))
<1>1. PICK N \in Nat : N = Len(waits)
  BY DEF Apart
<1>2. PICK duration : duration = DurationUpTo(waits)
  OBVIOUS
<1>3. /\ Duration(waits) = duration[N] /\ duration[0] = 0
      /\ \A n \in 1..N : duration[n] = duration[n - 1] + waits[n].end - waits[n].start
  BY <1>1, <1>2, DurationDefined
<1>4. /\ \A i \in 1..N : /\ waits[i].start \in Nat /\ waits[i].end \in Nat
                         /\ waits[i].start < waits[i].end
      /\ \A i, j \in 1..N : i < j => waits[i].end < waits[j].start
  <2>1. \A i \in 1..N : waits[i] \in Waits
    BY <1>1 DEF Apart
  <2> QED BY <1>1, <2>1 DEF Apart, Waits
<1> DEFINE Counted(n) == /\ IsFiniteSet(CoveredUpTo(waits, n))
                         /\ duration[n] = Cardinality(CoveredUpTo(waits, n))
           S == {n \in Nat : n <= N => Counted(n)}
<1>5. 0 \in S
  <2>1. CoveredUpTo(waits, 0) = {}
    BY DEF CoveredUpTo
  <2>2. Counted(0)
    BY <1>3, <2>1, FS_EmptySet
  <2> QED BY <2>2
<1>6. ASSUME NEW n \in Nat, n \in S
      PROVE  n + 1 \in S
  <2> SUFFICES ASSUME n + 1 <= N PROVE Counted(n + 1)
    OBVIOUS
  <2>1. n <= N /\ n + 1 \in 1..N /\ (n + 1) - 1 = n /\ \A i \in 1..n : i \in 1..N /\ i < n + 1
    BY <1>1
  <2>2. Counted(n)
    BY <1>6, <2>1
  <2>3. PICK a \in Nat, b \in Nat : a = waits[n + 1].start /\ b = waits[n + 1].end
    BY <1>4, <2>1
  <2>4. a < b
    BY <1>4, <2>1, <2>3
  <2>5. CoveredUpTo(waits, n + 1) = CoveredUpTo(waits, n) \cup (a..(b - 1))
    <3>1. ASSUME NEW x \in CoveredUpTo(waits, n + 1)
          PROVE  x \in CoveredUpTo(waits, n) \cup (a..(b - 1))
      <4>1. PICK i \in 1..(n + 1) : waits[i].start <= x /\ x < waits[i].end
        BY DEF CoveredUpTo
      <4>2. x \in Nat
        BY DEF CoveredUpTo
      <4>3. CASE i = n + 1
        <5>1. a <= x /\ x < b
          BY <2>3, <4>1, <4>3
        <5> QED BY <4>2, <5>1
      <4>4. CASE i # n + 1
        <5>1. i \in 1..n
          BY <4>4
        <5> QED BY <4>1, <4>2, <5>1 DEF CoveredUpTo
      <4> QED BY <4>3, <4>4
    <3>2. ASSUME NEW x \in CoveredUpTo(waits, n)
          PROVE  x \in CoveredUpTo(waits, n + 1)
      <4>1. \A i \in 1..n : i \in 1..(n + 1)
        OBVIOUS
      <4> QED BY <4>1 DEF CoveredUpTo
    <3>3. ASSUME NEW x \in a..(b - 1)
          PROVE  x \in CoveredUpTo(waits, n + 1)
      <4>1. x \in Nat /\ a <= x /\ x < b /\ n + 1 \in 1..(n + 1)
        OBVIOUS
      <4> QED BY <2>3, <4>1 DEF CoveredUpTo
    <3> QED BY <3>1, <3>2, <3>3
  <2>6. CoveredUpTo(waits, n) \cap (a..(b - 1)) = {}
    <3> SUFFICES ASSUME NEW x \in CoveredUpTo(waits, n), x \in a..(b - 1) PROVE FALSE
      OBVIOUS
    <3>1. PICK i \in 1..n : waits[i].start <= x /\ x < waits[i].end
      BY DEF CoveredUpTo
    <3>2. waits[i].end < a /\ waits[i].end \in Nat
      BY <1>4, <2>1, <2>3
    <3> QED BY <3>1, <3>2
  <2>7. PICK last : last = b - 1 /\ last \in Int
    OBVIOUS
  <2>8. IsFiniteSet(a..last) /\ Cardinality(a..last) = b - a
    <3>1. /\ IsFiniteSet(a..last)
          /\ Cardinality(a..last) = IF a > last THEN 0 ELSE last - a + 1
      BY <2>7, FS_Interval
    <3>2. ~(a > last) /\ last - a + 1 = b - a
      BY <2>4, <2>7
    <3> QED BY <3>1, <3>2
  <2>9. PICK before, new, all : /\ before = CoveredUpTo(waits, n) /\ new = a..last
                                /\ all = CoveredUpTo(waits, n + 1)
    OBVIOUS
  <2>10. all = before \cup new /\ before \cap new = {}
    BY <2>5, <2>6, <2>7, <2>9
  <2>11. /\ IsFiniteSet(before) /\ IsFiniteSet(new) /\ duration[n] = Cardinality(before)
         /\ Cardinality(new) = b - a
    BY <2>2, <2>8, <2>9
  <2>12. IsFiniteSet(all) /\ Cardinality(all) = Cardinality(before) + (b - a)
    <3>1. /\ IsFiniteSet(all)
          /\ Cardinality(all) = Cardinality(before) + Cardinality(new) - Cardinality({})
      BY <2>10, <2>11, FS_Union
    <3>2. Cardinality({}) = 0 /\ Cardinality(before) \in Nat
      BY <2>11, FS_EmptySet, FS_CardinalityType
    <3> QED BY <2>11, <3>1, <3>2
  <2>13. Cardinality(before) \in Nat
    BY <2>11, FS_CardinalityType
  <2>14. duration[n + 1] = duration[n] + b - a
    BY <1>3, <2>1, <2>3
  <2>15. duration[n + 1] = Cardinality(before) + (b - a)
    BY <2>11, <2>13, <2>14
  <2> QED BY <2>9, <2>12, <2>15
<1>7. \A n \in Nat : n \in S
  <2> HIDE DEF S
  <2> QED BY <1>5, <1>6, Induction
<1>8. Counted(N)
  BY <1>7
<1> QED BY <1>1, <1>3, <1>8

\* A wait that comes after those merged so far is merged with the last of them, or
\* is apart from it.
LEMMA MergeStep ==
    ASSUME NEW waits, Ascending(waits), NEW n \in Nat, n + 1 <= Len(waits),
           NEW merged, Apart(merged),
           merged = <<>> <=> n = 0,
           n > 0 => /\ merged[Len(merged)].end = waits[n].end
                    /\ merged[Len(merged)].start <= waits[n].start,
           CoveredUpTo(merged, Len(merged)) = CoveredUpTo(waits, n)
    PROVE  LET longer == Merge(merged, waits[n + 1])
           IN  /\ Apart(longer) /\ longer # <<>>
               /\ longer[Len(longer)].end = waits[n + 1].end
               /\ longer[Len(longer)].start <= waits[n + 1].start
               /\ CoveredUpTo(longer, Len(longer)) = CoveredUpTo(waits, n + 1)
<1>1. PICK N \in Nat, m \in Nat : N = Len(waits) /\ m = Len(merged)
  BY DEF Ascending, Apart
<1>2. n + 1 \in 1..N /\ (n > 0 => n \in 1..N)
  BY <1>1
<1>3. PICK w : w = waits[n + 1]
  OBVIOUS
<1>4. w \in Waits /\ w.start \in Nat /\ w.end \in Nat /\ w.start < w.end
  <2>1. w \in Waits /\ w.start < w.end
    BY <1>1, <1>2, <1>3 DEF Ascending
  <2> QED BY <2>1 DEF Waits
<1>5. /\ merged \in Seq(Waits) /\ (merged = <<>> <=> m = 0)
      /\ \A i \in 1..m : /\ merged[i] \in Waits /\ merged[i].start \in Nat
                         /\ merged[i].end \in Nat /\ merged[i].start < merged[i].end
      /\ \A i, j \in 1..m : i < j => merged[i].end < merged[j].start
  <2>1. \A i \in 1..m : merged[i] \in Waits
    BY <1>1 DEF Apart
  <2>2. \A wait \in Waits : wait.start \in Nat /\ wait.end \in Nat
    BY DEF Waits
  <2>3. merged \in Seq(Waits) /\ (merged = <<>> <=> m = 0)
    BY <1>1 DEF Apart
  <2> QED BY <1>1, <2>1, <2>2, <2>3 DEF Apart
<1>6. \A x \in Nat : x \in CoveredUpTo(waits, n + 1) <=>
                        \/ x \in CoveredUpTo(waits, n)
                        \/ w.start <= x /\ x < w.end
  <2> SUFFICES ASSUME NEW x \in Nat
               PROVE  x \in CoveredUpTo(waits, n + 1) <=>
                        \/ x \in CoveredUpTo(waits, n)
                        \/ w.start <= x /\ x < w.end
    OBVIOUS
  <2>1. \A i : i \in 1..(n + 1) <=> i \in 1..n \/ i = n + 1
    OBVIOUS
  <2> QED BY <1>3, <2>1 DEF CoveredUpTo
<1> DEFINE Result(longer) ==
             /\ Apart(longer) /\ longer # <<>>
             /\ longer[Len(longer)].end = w.end
             /\ longer[Len(longer)].start <= w.start
             /\ CoveredUpTo(longer, Len(longer)) = CoveredUpTo(waits, n + 1)
<1>7. ASSUME \A i \in 1..m : merged[i].end < w.start
      PROVE  Result(Append(merged, w))
  <2>1. PICK longer : longer = Append(merged, w)
    OBVIOUS
  <2>2. /\ longer \in Seq(Waits) /\ Len(longer) = m + 1 /\ longer[m + 1] = w
        /\ \A i \in 1..m : longer[i] = merged[i]
    BY <1>1, <1>4, <1>5, <2>1
  <2>3. \A i : i \in 1..(m + 1) <=> i \in 1..m \/ i = m + 1
    OBVIOUS
  <2>4. \A i \in 1..(m + 1) : longer[i].start < longer[i].end
    BY <1>4, <1>5, <2>2, <2>3
  <2>5. ASSUME NEW i \in 1..(m + 1), NEW j \in 1..(m + 1), i < j
        PROVE  longer[i].end < longer[j].start
    <3>1. i \in 1..m
      BY <2>5
    <3>2. CASE j = m + 1
      BY <1>7, <2>2, <3>1, <3>2
    <3>3. CASE j \in 1..m
      BY <1>5, <2>2, <2>5, <3>1, <3>3
    <3> QED BY <2>3, <3>2, <3>3
  <2>6. Apart(longer)
    BY <2>2, <2>4, <2>5 DEF Apart
  <2>7. ASSUME NEW x \in Nat
        PROVE  x \in CoveredUpTo(longer, m + 1) <=>
                  \/ x \in CoveredUpTo(merged, m)
                  \/ w.start <= x /\ x < w.end
    BY <2>2, <2>3 DEF CoveredUpTo
  <2>8. CoveredUpTo(longer, m + 1) = CoveredUpTo(waits, n + 1)
    <3>1. /\ CoveredUpTo(longer, m + 1) \subseteq Nat
          /\ CoveredUpTo(waits, n + 1) \subseteq Nat
      BY DEF CoveredUpTo
    <3>2. CoveredUpTo(merged, m) = CoveredUpTo(waits, n)
      BY <1>1
    <3> QED BY <1>6, <2>7, <3>1, <3>2
  <2>9. longer # <<>> /\ longer[m + 1].end = w.end /\ longer[m + 1].start <= w.start
    BY <1>4, <2>2
  <2> QED BY <2>1, <2>2, <2>6, <2>8, <2>9
<1>8. ASSUME m > 0, w.start <= merged[m].end
      PROVE  Result([merged EXCEPT ![m].end = Max({@, w.end})])
  <2>1. m \in 1..m /\ n > 0 /\ n \in 1..N
    BY <1>2, <1>5, <1>8
  <2>2. /\ merged[m].end = waits[n].end /\ merged[m].start <= waits[n].start
        /\ waits[n].start \in Nat
        /\ waits[n].start <= w.start /\ waits[n].end <= w.end
    <3>1. waits[n] \in Waits /\ n <= n + 1
      BY <1>1, <2>1 DEF Ascending
    <3> QED BY <1>1, <1>2, <1>3, <2>1, <3>1 DEF Ascending, Waits
  <2>3. /\ merged[m].start \in Nat /\ merged[m].end \in Nat
        /\ merged[m].start <= w.start /\ merged[m].end <= w.end
    BY <1>4, <1>5, <2>1, <2>2
  <2>4. Max({merged[m].end, w.end}) = w.end
    <3>1. /\ Max({merged[m].end, w.end}) \in {merged[m].end, w.end}
          /\ Max({merged[m].end, w.end}) >= w.end
      BY <1>4, <2>3, MaxOfTwo
    <3> QED BY <1>4, <2>3, <3>1
  <2>5. PICK last : last = [merged[m] EXCEPT !.end = w.end]
    OBVIOUS
  <2>6. last \in Waits /\ last.start = merged[m].start /\ last.end = w.end
    BY <1>4, <1>5, <2>1, <2>5 DEF Waits
  <2>7. PICK longer : longer = [merged EXCEPT ![m] = last]
    OBVIOUS
  <2>8. longer = [merged EXCEPT ![m].end = Max({@, w.end})]
    BY <2>4, <2>5, <2>7
  <2>9. /\ longer \in Seq(Waits) /\ Len(longer) = m /\ longer[m] = last
        /\ \A i \in 1..m : i # m => longer[i] = merged[i]
    BY <1>1, <1>5, <2>1, <2>6, <2>7
  <2>10. ASSUME NEW i \in 1..m
         PROVE  longer[i].start = merged[i].start /\ longer[i].start < longer[i].end
    <3>1. CASE i = m
      BY <1>4, <2>3, <2>6, <2>9, <3>1
    <3>2. CASE i # m
      BY <1>5, <2>9, <3>2
    <3> QED BY <3>1, <3>2
  <2>11. ASSUME NEW i \in 1..m, NEW j \in 1..m, i < j
         PROVE  longer[i].end < longer[j].start
    <3>1. i # m
      BY <2>11
    <3> QED BY <1>5, <2>9, <2>10, <2>11, <3>1
  <2>12. Apart(longer)
    BY <2>9, <2>10, <2>11 DEF Apart
  <2>13. ASSUME NEW x \in Nat
         PROVE  x \in CoveredUpTo(longer, m) <=>
                   \/ x \in CoveredUpTo(merged, m)
                   \/ w.start <= x /\ x < w.end
    <3>1. ASSUME NEW i \in 1..m, longer[i].start <= x, x < longer[i].end
          PROVE  \/ merged[i].start <= x /\ x < merged[i].end
                 \/ w.start <= x /\ x < w.end
      <4>1. CASE i = m
        <5>1. merged[m].start <= x /\ x < w.end
          BY <2>6, <2>9, <3>1, <4>1
        <5> QED BY <1>4, <1>8, <2>3, <4>1, <5>1
      <4>2. CASE i # m
        BY <2>9, <3>1, <4>2
      <4> QED BY <4>1, <4>2
    <3>2. ASSUME NEW i \in 1..m, merged[i].start <= x, x < merged[i].end
          PROVE  longer[i].start <= x /\ x < longer[i].end
      <4>1. CASE i = m
        <5>1. longer[i].start = merged[m].start /\ longer[i].end = w.end
          BY <2>6, <2>9, <4>1
        <5> QED BY <1>4, <2>3, <3>2, <4>1, <5>1
      <4>2. CASE i # m
        BY <2>9, <3>2, <4>2
      <4> QED BY <4>1, <4>2
    <3>3. ASSUME w.start <= x, x < w.end
          PROVE  longer[m].start <= x /\ x < longer[m].end
      BY <1>4, <2>3, <2>6, <2>9, <3>3
    <3> QED BY <2>1, <3>1, <3>2, <3>3 DEF CoveredUpTo
  <2>14. CoveredUpTo(longer, m) = CoveredUpTo(waits, n + 1)
    <3>1. /\ CoveredUpTo(longer, m) \subseteq Nat
          /\ CoveredUpTo(waits, n + 1) \subseteq Nat
      BY DEF CoveredUpTo
    <3>2. CoveredUpTo(merged, m) = CoveredUpTo(waits, n)
      BY <1>1
    <3> QED BY <1>6, <2>13, <3>1, <3>2
  <2>15. longer # <<>>
    BY <1>8, <2>9
  <2>16. Result(longer)
    BY <2>3, <2>6, <2>9, <2>12, <2>14, <2>15
  <2> QED BY <2>8, <2>16
<1>9. Result(Merge(merged, w))
  <2>0. ~(w.end <= w.start)
    BY <1>4
  <2> HIDE DEF Result
  <2>1. CASE merged = <<>>
    <3>1. m = 0
      BY <1>5, <2>1
    <3>2. Merge(merged, w) = Append(merged, w)
      BY <2>0, <2>1 DEF Merge
    <3> QED BY <1>7, <3>1, <3>2
  <2>2. CASE merged # <<>> /\ w.start > merged[m].end
    <3>1. m \in 1..m /\ \A i \in 1..m : i < m \/ i = m
      BY <1>5, <2>2
    <3>2. \A i \in 1..m : merged[i].end < w.start
      <4> SUFFICES ASSUME NEW i \in 1..m, i < m PROVE merged[i].end < w.start
        BY <1>4, <1>5, <2>2, <3>1
      <4>1. merged[i].end < merged[m].start /\ merged[m].start < merged[m].end
        BY <1>5, <3>1
      <4>2. /\ merged[i].end \in Nat /\ merged[m].start \in Nat
            /\ merged[m].end \in Nat /\ w.start \in Nat
        BY <1>4, <1>5, <3>1
      <4>3. merged[m].end < w.start
        BY <2>2, <4>2
      <4> QED BY <4>1, <4>2, <4>3
    <3>3. Merge(merged, w) = Append(merged, w)
      BY <1>1, <2>0, <2>2 DEF Merge, Last
    <3> QED BY <1>7, <3>2, <3>3
  <2>3. CASE merged # <<>> /\ ~(w.start > merged[m].end)
    <3>1. m > 0 /\ m \in 1..m
      BY <1>5, <2>3
    <3>2. w.start <= merged[m].end
      BY <1>4, <1>5, <2>3, <3>1
    <3>3. Merge(merged, w) = [merged EXCEPT ![m].end = Max({@, w.end})]
      BY <1>1, <2>0, <2>3 DEF Merge, Last
    <3> QED BY <1>8, <3>1, <3>2, <3>3
  <2> QED BY <2>1, <2>2, <2>3
<1> QED BY <1>3, <1>9

\* What wait_wall_sec returns for pauses in the order in which they are set: the number
\* of the instants in them, each once.
LEMMA WaitWallCounts ==
    ASSUME NEW waits, Ascending(waits)
    PROVE  WaitWall(waits) = Cardinality(CoveredUpTo(waits, Len(waits)))
<1>1. PICK N \in Nat : N = Len(waits)
  BY DEF Ascending
<1>2. PICK merged : merged = MergedUpTo(waits)
  OBVIOUS
<1>3. /\ Merged(waits) = merged[N] /\ merged[0] = <<>>
      /\ \A n \in 1..N : merged[n] = Merge(merged[n - 1], waits[n])
  BY <1>1, <1>2, MergedDefined
<1> DEFINE Good(m, n) ==
             /\ Apart(m) /\ (m = <<>> <=> n = 0)
             /\ n > 0 => /\ m[Len(m)].end = waits[n].end
                         /\ m[Len(m)].start <= waits[n].start
             /\ CoveredUpTo(m, Len(m)) = CoveredUpTo(waits, n)
           S == {n \in Nat : n <= N => Good(merged[n], n)}
<1>4. 0 \in S
  <2>1. Apart(<<>>)
    BY DEF Apart
  <2>2. CoveredUpTo(<<>>, Len(<<>>)) = {} /\ CoveredUpTo(waits, 0) = {}
    BY DEF CoveredUpTo
  <2>3. Good(<<>>, 0)
    BY <2>1, <2>2
  <2> HIDE DEF Good
  <2> QED BY <1>3, <2>3
<1>5. ASSUME NEW n \in Nat, n \in S
      PROVE  n + 1 \in S
  <2> SUFFICES ASSUME n + 1 <= N PROVE Good(merged[n + 1], n + 1)
    OBVIOUS
  <2>1. n <= N /\ n + 1 \in 1..N /\ (n + 1) - 1 = n /\ n + 1 > 0 /\ n + 1 # 0
    BY <1>1
  <2>2. PICK m : m = merged[n]
    OBVIOUS
  <2>3. Good(m, n)
    BY <1>5, <2>1, <2>2
  <2>4. merged[n + 1] = Merge(m, waits[n + 1])
    BY <1>3, <2>1, <2>2
  <2>5. PICK longer : longer = Merge(m, waits[n + 1])
    OBVIOUS
  <2>6. /\ Apart(longer) /\ longer # <<>>
        /\ longer[Len(longer)].end = waits[n + 1].end
        /\ longer[Len(longer)].start <= waits[n + 1].start
        /\ CoveredUpTo(longer, Len(longer)) = CoveredUpTo(waits, n + 1)
    BY <1>1, <2>3, <2>5, MergeStep
  <2>7. Good(longer, n + 1)
    BY <2>1, <2>6
  <2> HIDE DEF Good
  <2> QED BY <2>4, <2>5, <2>7
<1>6. \A n \in Nat : n \in S
  <2> HIDE DEF S
  <2> QED BY <1>4, <1>5, Induction
<1>7. Good(merged[N], N)
  <2> HIDE DEF Good
  <2> QED BY <1>6
<1>8. PICK m : m = merged[N]
  OBVIOUS
<1>9. Apart(m) /\ CoveredUpTo(m, Len(m)) = CoveredUpTo(waits, N)
  BY <1>7, <1>8
<1>10. Sorted(waits) = waits
  BY SortedAlready
<1>11. WaitWall(waits) = Duration(m)
  BY <1>3, <1>8, <1>10 DEF WaitWall
<1> QED BY <1>1, <1>9, <1>11, DurationCounts

-----------------------------------------------------------------------------
(* The two numbers are exact. *)

\* The waits are in the order in which they were set and none exceeds the last pause,
\* which somebody asked for; together they are the pauses.
Waiting ==
    /\ Ascending(wait_intervals)
    /\ \A i \in 1..Len(wait_intervals) :
          wait_intervals[i].start <= now /\ wait_intervals[i].end <= pause_until
    /\ pause_until > 0 => \E pause \in pauses : pause.until = pause_until
    /\ CoveredUpTo(wait_intervals, Len(wait_intervals)) =
          {x \in Nat : \E pause \in pauses : pause.from <= x /\ x < pause.until}

ExactInv == PacingInv /\ Timing /\ Waiting

\* A pause is set from now on, to its own end or to that of a longer one.
LEMMA PauseWaiting ==
    ASSUME PacingInv, Waiting, NEW candidate \in Nat, candidate > now,
           UNCHANGED now,
           pause_until' = Max({pause_until, candidate}),
           wait_intervals' = Append(wait_intervals, [start |-> now, end |-> pause_until']),
           pauses' = pauses \cup {[from |-> now, until |-> candidate]}
    PROVE  Waiting'
<1>1. /\ now \in Nat /\ pause_until \in Nat
      /\ \A pause \in pauses : /\ pause.from \in Nat /\ pause.until \in Nat
                               /\ pause.from <= now /\ pause.until <= pause_until
  BY DEF PacingInv, Typed, Passing
<1>2. PICK until : until = pause_until'
  OBVIOUS
<1>3. /\ until \in {pause_until, candidate} /\ until \in Nat
      /\ until >= pause_until /\ until >= candidate /\ until > now
  <2>1. /\ until \in {pause_until, candidate}
        /\ until >= pause_until /\ until >= candidate
    BY <1>1, <1>2, MaxOfTwo
  <2> QED BY <1>1, <2>1
<1>4. PICK w : w = [start |-> now, end |-> until]
  OBVIOUS
<1>5. w \in Waits /\ w.start = now /\ w.end = until
  BY <1>1, <1>3, <1>4 DEF Waits
<1>6. PICK n \in Nat : n = Len(wait_intervals)
  BY DEF Waiting, Ascending
<1>7. /\ wait_intervals \in Seq(Waits)
      /\ \A i \in 1..n : /\ wait_intervals[i].start < wait_intervals[i].end
                         /\ wait_intervals[i].start <= now
                         /\ wait_intervals[i].end <= pause_until
      /\ \A i, j \in 1..n : i <= j =>
            /\ wait_intervals[i].start <= wait_intervals[j].start
            /\ wait_intervals[i].end <= wait_intervals[j].end
  BY <1>6 DEF Waiting, Ascending
<1>8. \A i \in 1..n : wait_intervals[i].start \in Nat /\ wait_intervals[i].end \in Nat
  <2>1. \A i \in 1..n : wait_intervals[i] \in Waits
    BY <1>6, <1>7
  <2> QED BY <2>1 DEF Waits
<1>9. PICK longer : longer = wait_intervals' /\ longer = Append(wait_intervals, w)
  BY <1>2, <1>4
<1>10. /\ longer \in Seq(Waits) /\ Len(longer) = n + 1 /\ longer[n + 1] = w
       /\ \A i \in 1..n : longer[i] = wait_intervals[i]
  BY <1>5, <1>6, <1>7, <1>9
<1>11. \A i : i \in 1..(n + 1) <=> i \in 1..n \/ i = n + 1
  OBVIOUS
<1>12. \A i \in 1..(n + 1) : /\ longer[i].start < longer[i].end
                             /\ longer[i].start <= now /\ longer[i].end <= until
  <2> SUFFICES ASSUME NEW i \in 1..(n + 1)
               PROVE  /\ longer[i].start < longer[i].end
                      /\ longer[i].start <= now /\ longer[i].end <= until
    OBVIOUS
  <2>1. CASE i = n + 1
    BY <1>1, <1>3, <1>5, <1>10, <2>1
  <2>2. CASE i \in 1..n
    <3>1. longer[i] = wait_intervals[i]
      BY <1>10, <2>2
    <3>2. /\ wait_intervals[i].start < wait_intervals[i].end
          /\ wait_intervals[i].start <= now /\ wait_intervals[i].end <= pause_until
      BY <1>7, <2>2
    <3>3. wait_intervals[i].end \in Nat
      BY <1>8, <2>2
    <3>4. wait_intervals[i].end <= until
      BY <1>1, <1>3, <3>2, <3>3
    <3> QED BY <3>1, <3>2, <3>4
  <2> QED BY <1>11, <2>1, <2>2
<1>13. ASSUME NEW i \in 1..(n + 1), NEW j \in 1..(n + 1), i <= j
       PROVE  longer[i].start <= longer[j].start /\ longer[i].end <= longer[j].end
  <2>1. CASE j = n + 1
    <3>1. longer[j].start = now /\ longer[j].end = until
      BY <1>5, <1>10, <2>1
    <3> QED BY <1>12, <3>1
  <2>2. CASE j \in 1..n
    <3>1. i \in 1..n
      BY <1>13, <2>2
    <3> QED BY <1>7, <1>10, <1>13, <2>2, <3>1
  <2> QED BY <1>11, <2>1, <2>2
<1>14. Ascending(longer)
  BY <1>10, <1>12, <1>13 DEF Ascending
<1>15. \E pause \in pauses' : pause.until = until
  <2>1. CASE until = candidate
    <3>1. PICK p : p = [from |-> now, until |-> candidate]
      OBVIOUS
    <3>2. p \in pauses' /\ p.until = candidate
      BY <3>1
    <3> QED BY <2>1, <3>2
  <2>2. CASE until # candidate
    <3>1. until = pause_until /\ pause_until > 0
      BY <1>1, <1>3, <2>2
    <3> QED BY <3>1 DEF Waiting
  <2> QED BY <2>1, <2>2
<1>16. ASSUME NEW x \in Nat
       PROVE  (\E i \in 1..(n + 1) : longer[i].start <= x /\ x < longer[i].end)
                <=> \E pause \in pauses' : pause.from <= x /\ x < pause.until
  <2>1. (\E i \in 1..n : longer[i].start <= x /\ x < longer[i].end)
          <=> \E pause \in pauses : pause.from <= x /\ x < pause.until
    <3>1. (\E i \in 1..n : wait_intervals[i].start <= x /\ x < wait_intervals[i].end)
            <=> \E pause \in pauses : pause.from <= x /\ x < pause.until
      BY <1>6 DEF Waiting, CoveredUpTo
    <3> QED BY <1>10, <3>1
  <2>2. (\E i \in 1..(n + 1) : longer[i].start <= x /\ x < longer[i].end)
          <=> \/ \E i \in 1..n : longer[i].start <= x /\ x < longer[i].end
              \/ now <= x /\ x < until
    BY <1>5, <1>10, <1>11
  <2>3. (\E pause \in pauses' : pause.from <= x /\ x < pause.until)
          <=> \/ \E pause \in pauses : pause.from <= x /\ x < pause.until
              \/ now <= x /\ x < candidate
    <3>1. PICK p : p = [from |-> now, until |-> candidate]
      OBVIOUS
    <3>2. p.from = now /\ p.until = candidate /\ pauses' = pauses \cup {p}
      BY <3>1
    <3> QED BY <3>2
  <2>4. CASE until = candidate
    BY <2>1, <2>2, <2>3, <2>4
  <2>5. CASE until # candidate
    <3>1. until = pause_until /\ pause_until > 0
      BY <1>1, <1>3, <2>5
    <3>2. PICK pause \in pauses : pause.until = until /\ pause.from <= now
                                  /\ pause.from \in Nat
      BY <1>1, <3>1 DEF Waiting
    <3>3. now <= x /\ x < until => pause.from <= x /\ x < pause.until
      BY <1>1, <3>2
    <3>4. now <= x /\ x < candidate => now <= x /\ x < until
      BY <1>1, <1>3
    <3> QED BY <2>1, <2>2, <2>3, <3>2, <3>3, <3>4
  <2> QED BY <2>4, <2>5
<1>17. CoveredUpTo(longer, n + 1) =
         {x \in Nat : \E pause \in pauses' : pause.from <= x /\ x < pause.until}
  BY <1>16 DEF CoveredUpTo
<1> QED BY <1>2, <1>9, <1>10, <1>12, <1>14, <1>15, <1>17 DEF Waiting

\* No other step sets a pause.
LEMMA QuietWaiting ==
    ASSUME PacingInv, Waiting, now' \in {now, now + 1},
           UNCHANGED <<pause_until, wait_intervals, pauses>>
    PROVE  Waiting'
<1>1. now \in Nat
  BY DEF PacingInv, Typed
<1>2. \A i \in 1..Len(wait_intervals) : wait_intervals[i].start <= now'
  <2> SUFFICES ASSUME NEW i \in 1..Len(wait_intervals) PROVE wait_intervals[i].start <= now'
    OBVIOUS
  <2>1. wait_intervals[i] \in Waits /\ wait_intervals[i].start <= now
    BY DEF Waiting, Ascending
  <2>2. wait_intervals[i].start \in Nat
    BY <2>1 DEF Waits
  <2> QED BY <1>1, <2>1, <2>2
<1> QED BY <1>2 DEF Waiting

\* An iteration removes what is old and launches nothing.
LEMMA RefreshTiming ==
    ASSUME PacingInv, Timing, timestamps' = Pruned(timestamps), UNCHANGED <<now, launches>>
    PROVE  Timing'
<1>1. now \in Nat /\ \A i \in 1..Len(launches) : launches[i].at \in Nat
  BY DEF PacingInv, Typed
<1>2. PICK times : times = Times
  OBVIOUS
<1>3. PICK k \in Nat : /\ After(timestamps, times, k)
                       /\ \A i \in 1..k : now - times[i] > Window
  BY <1>2 DEF Timing
<1>4. times \in Seq(Nat)
  <2>1. PICK S : launches \in Seq(S)
    BY DEF PacingInv, Typed
  <2>2. PICK n \in Nat : n = Len(launches)
    BY <2>1
  <2> QED BY <1>1, <1>2, <2>2 DEF Times
<1>5. timestamps \in Seq(Nat) /\ InOrder(times)
  BY <1>2 DEF Timing
<1>6. /\ timestamps' \in Seq(Nat)
      /\ \E m \in Nat : /\ After(timestamps', times, m)
                        /\ \A i \in 1..m : now - times[i] > Window
  BY <1>1, <1>3, <1>4, <1>5, PrunedCounts
<1>7. Times' = times
  BY <1>2 DEF Times
<1> QED BY <1>5, <1>6, <1>7 DEF Timing

\* What is old stays old.
LEMMA QuietTiming ==
    ASSUME PacingInv, Timing, now' \in {now, now + 1}, UNCHANGED <<timestamps, launches>>
    PROVE  Timing'
<1>1. now \in Nat /\ Window \in Nat /\ \A i \in 1..Len(launches) : launches[i].at \in Nat
  BY PacingConfig DEF PacingInv, Typed
<1>2. PICK k \in Nat : /\ After(timestamps, Times, k)
                       /\ \A i \in 1..k : now - Times[i] > Window
  BY DEF Timing
<1>3. PICK times : times = Times
  OBVIOUS
<1>4. Times' = times /\ timestamps' = timestamps
  BY <1>3 DEF Times
<1>5. \A i \in 1..k : now' - times[i] > Window
  <2> SUFFICES ASSUME NEW i \in 1..k PROVE now' - times[i] > Window
    OBVIOUS
  <2>1. /\ Len(times) = k + Len(timestamps) /\ Len(timestamps) \in Nat
        /\ Len(times) = Len(launches)
    <3>1. \E S : launches \in Seq(S)
      BY DEF PacingInv, Typed
    <3>2. Len(launches) \in Nat
      BY <3>1
    <3>3. Len(times) = Len(launches)
      BY <1>3, <3>2 DEF Times
    <3>4. Len(timestamps) \in Nat
      BY DEF Timing
    <3>5. Len(times) = k + Len(timestamps)
      BY <1>2, <1>3 DEF After
    <3> QED BY <3>3, <3>4, <3>5
  <2>2. i \in 1..Len(launches)
    BY <2>1
  <2>3. times[i] \in Nat
    BY <1>1, <1>3, <2>2 DEF Times
  <2>4. now - times[i] > Window
    BY <1>2, <1>3
  <2> QED BY <1>1, <2>3, <2>4
<1>6. After(timestamps, times, k) /\ InOrder(times)
  BY <1>2, <1>3 DEF Timing
<1> QED BY <1>4, <1>5, <1>6 DEF Timing

LEMMA SlotTiming ==
    ASSUME PacingInv, Timing, NEW q \in Questions, NEW t \in Tasks, NEW rest,
           TakeSlot(q, t, rest), UNCHANGED now
    PROVE  Timing'
<1> DEFINE holder == [t EXCEPT !.gap = interval, !.seen = changes]
<1>1. holder \in Tasks
  BY DEF PacingInv, Typed, Tasks
<1>2. CASE Launch(q, holder, rest)
  <2> HIDE DEF holder
  <2> QED BY <1>1, <1>2, LaunchTiming
<1>3. CASE UNCHANGED <<last_launch_at, timestamps, launches>>
  BY <1>3, QuietTiming
<1> QED BY <1>2, <1>3 DEF TakeSlot

LEMMA LookTiming ==
    ASSUME PacingInv, Timing, NEW q \in Questions, LookAtPause(q), UNCHANGED now
    PROVE  Timing'
<1> DEFINE t == [task[q] EXCEPT !.passed = now]
<1>1. t \in Tasks
  BY DEF PacingInv, Typed, Tasks
<1>2. CASE TakeSlot(q, t, <<>>)
  <2> HIDE DEF t
  <2> QED BY <1>1, <1>2, SlotTiming
<1>3. CASE UNCHANGED <<timestamps, launches>>
  BY <1>3, QuietTiming
<1> QED BY <1>2, <1>3 DEF LookAtPause, slot

LEMMA ExactNext == ExactInv /\ [Next]_vars => ExactInv'
<1> SUFFICES ASSUME ExactInv, [Next]_vars PROVE Timing' /\ Waiting'
  BY NextInv DEF ExactInv
<1>1. /\ PacingInv /\ Timing /\ Waiting /\ now \in Nat
      /\ \A q \in Questions : task[q] \in Tasks
  BY DEF ExactInv, PacingInv, Typed
<1>2. ASSUME now' \in {now, now + 1}, UNCHANGED <<timestamps, launches>>,
             UNCHANGED <<pause_until, wait_intervals, pauses>>
      PROVE  Timing' /\ Waiting'
  BY <1>1, <1>2, QuietTiming, QuietWaiting
<1>3. ASSUME NEW q \in Questions, NEW retry_after \in RetryAfters, RateLimited(q, retry_after)
      PROVE  Timing' /\ Waiting'
  <2>1. PICK jitter \in 0..Jitter :
          LET candidate == now + retry_after + jitter IN
          /\ pause_until' = PausedUntil(candidate)
          /\ wait_intervals' = Append(wait_intervals, [start |-> now, end |-> pause_until'])
          /\ pauses' = pauses \cup {[from |-> now, until |-> candidate]}
    BY <1>3 DEF RateLimited
  <2>2. UNCHANGED now /\ UNCHANGED <<timestamps, launches>>
    BY <1>3 DEF RateLimited, slot
  <2>3. PICK candidate : candidate = now + retry_after + jitter
    OBVIOUS
  <2>4. candidate \in Nat /\ candidate > now
    BY <1>1, <2>3, PacingConfig
  <2>5. /\ pause_until' = Max({pause_until, candidate})
        /\ wait_intervals' = Append(wait_intervals, [start |-> now, end |-> pause_until'])
        /\ pauses' = pauses \cup {[from |-> now, until |-> candidate]}
    BY <2>1, <2>3 DEF PausedUntil
  <2>6. Waiting'
    BY <1>1, <2>2, <2>4, <2>5, PauseWaiting
  <2> QED BY <1>1, <2>2, <2>6, QuietTiming
<1>4. ASSUME NEW q \in Questions, Start(q) \/ PauseSleepEnds(q)
      PROVE  Timing' /\ Waiting'
  BY <1>1, <1>4, LookTiming, QuietWaiting DEF Start, PauseSleepEnds, control
<1>5. ASSUME NEW q \in Questions, SlotGranted(q)
      PROVE  Timing' /\ Waiting'
  BY <1>1, <1>5, SlotTiming, QuietWaiting DEF SlotGranted, control
<1>6. ASSUME NEW q \in Questions, PacingEnds(q)
      PROVE  Timing' /\ Waiting'
  BY <1>1, <1>6, LaunchTiming, QuietWaiting DEF PacingEnds, control
<1>7. CASE Iterate
  BY <1>1, <1>7, RefreshTiming, QuietWaiting DEF Iterate, control
<1>8. CASE Resume \/ Tick \/ UNCHANGED vars
  BY <1>2, <1>8 DEF Resume, Tick, vars, slot, control
<1>9. ASSUME NEW q \in Questions, Succeed(q)
      PROVE  Timing' /\ Waiting'
  BY <1>2, <1>9 DEF Succeed, slot
<1>10. ASSUME NEW q \in Questions, NEW wait \in RetryAfters \cup Backoffs, FailsAlone(q, wait)
      PROVE  Timing' /\ Waiting'
  BY <1>2, <1>10 DEF FailsAlone, slot, control
<1> QED BY <1>3, <1>4, <1>5, <1>6, <1>7, <1>8, <1>9, <1>10 DEF Next

LEMMA ExactInit == Init => ExactInv
<1> SUFFICES ASSUME Init PROVE Timing /\ Waiting
  BY InitInv DEF ExactInv
<1>1. /\ timestamps = <<>> /\ launches = <<>> /\ wait_intervals = <<>> /\ pauses = {}
      /\ pause_until = 0
  BY DEF Init
<1>2. Timing
  <2>1. Len(launches) = 0 /\ Len(timestamps) = 0 /\ timestamps \in Seq(Nat)
    BY <1>1
  <2>2. Len(Times) = 0
    BY <2>1 DEF Times
  <2>3. After(timestamps, Times, 0) /\ \A i \in 1..0 : now - Times[i] > Window
    BY <2>1, <2>2 DEF After
  <2>4. InOrder(Times)
    BY <2>2 DEF InOrder
  <2> QED BY <2>1, <2>3, <2>4 DEF Timing
<1>3. Waiting
  <2>1. Ascending(wait_intervals) /\ Len(wait_intervals) = 0
    BY <1>1 DEF Ascending
  <2>2. CoveredUpTo(wait_intervals, 0) = {}
    BY DEF CoveredUpTo
  <2> QED BY <1>1, <2>1, <2>2 DEF Waiting
<1> QED BY <1>2, <1>3

\* The entries left by popleft and the waits set so far stand for what happened.
THEOREM ExactInvariant == Spec => []ExactInv
BY ExactInit, ExactNext, PTL DEF Spec

\* The launch rate that an attempt reports counts the launches of the last minute, and
\* the waiting time the instants that lie in a pause.
THEOREM TimedMetricsAreExact == Spec => []TimedMetricsExact
<1> SUFFICES ASSUME ExactInv PROVE TimedMetricsExact
  BY ExactInvariant, PTL
<1>1. PacingInv /\ Timing /\ Waiting
  BY DEF ExactInv
<1>2. \A i \in DOMAIN launches :
          launches[i].launch_rpm =
              Cardinality({j \in 1..i : launches[i].at - launches[j].at <= Window})
  <2>1. \E S : launches \in Seq(S)
    BY <1>1 DEF PacingInv, Typed
  <2>2. DOMAIN launches = 1..Len(launches)
    BY <2>1
  <2> QED BY <1>1, <2>2 DEF Timing
<1>3. UNION {pause.from..(pause.until - 1) : pause \in pauses}
        = {x \in Nat : \E pause \in pauses : pause.from <= x /\ x < pause.until}
  <2>1. \A pause \in pauses : pause.from \in Nat /\ pause.until \in Nat
    BY <1>1 DEF PacingInv, Typed
  <2>2. ASSUME NEW pause \in pauses, NEW x
        PROVE  x \in pause.from..(pause.until - 1)
                 <=> x \in Nat /\ pause.from <= x /\ x < pause.until
    <3>1. pause.from \in Nat /\ pause.until \in Nat
      BY <2>1
    <3> QED BY <3>1
  <2> QED BY <2>2
<1>4. WaitWall(wait_intervals) =
        Cardinality(CoveredUpTo(wait_intervals, Len(wait_intervals)))
  BY <1>1, WaitWallCounts DEF Waiting
<1> QED BY <1>1, <1>2, <1>3, <1>4 DEF TimedMetricsExact, Waiting
===============================================================================
