------------------------ MODULE AimdControllerProofs ------------------------
(***************************************************************************)
(* Proofs about the controller, for every configuration that satisfies the *)
(* assumptions of AimdController.  The lemmas speak of any record, so that *)
(* the proofs about the scheduler can cite them.                           *)
(***************************************************************************)
EXTENDS AimdController, TLAPS

\* The inductive invariant.  TargetWithinBounds is not inductive alone: a learned
\* limit replaces max_target_concurrency as the ceiling of the growth, so it has
\* to be bounded too, and it is because it was learned from a number of requests
\* in flight.  LearnedCeilingHolds is not inductive alone either, since the end
\* of the probe raises the target without looking at the learned limit; it may,
\* because a blind probe has not learned one.
Sound(c) ==
    /\ c \in Controllers
    /\ c.successes < SuccessesBeforeIncrease
    /\ c.phase = Probe => c.probes < SuccessesBeforeRpmProbe
    /\ c.target \in 1..MaxTargetConcurrency
    /\ c.concurrency_limit <= MaxTargetConcurrency
    /\ c.concurrency_limit # None => c.target <= c.concurrency_limit
    /\ c.phase = Probe =>
         /\ KnowsNothing(c)
         /\ c.successes = 0
         /\ c.target = InitialConcurrency

\* The interval of c paces the requests below the limit c has learned.
Paced(c) ==
    c.rpm_limit # None => c.interval >= AtMost(MaxLaunchInterval, PaceFor(c.rpm_limit))

\* What an operation may make of c: no estimate is relaxed, nothing seen is
\* forgotten, and the target grows by one at most, once that is earned.
Follows(c, d) ==
    /\ c.rpm_limit # None => d.rpm_limit \in 1..c.rpm_limit
    /\ c.concurrency_limit # None => d.concurrency_limit \in 1..c.concurrency_limit
    /\ c.structured => d.structured
    /\ c.phase = Adaptive => d.phase = Adaptive
    /\ d.target > c.target =>
         /\ d.target = c.target + 1
         /\ \/ BlindProbeEnds(c, d)
            \/ c.phase = Adaptive /\ c.successes = SuccessesBeforeIncrease - 1
    /\ d.probes > c.probes => c.phase = Probe /\ KnowsNothing(c)
    /\ Paced(c) => Paced(d)

\* The fields of a record, so that a leaf needs no EXCEPT.
Has(d, target, interval, phase, successes, probes, structured, rpm_limit,
    concurrency_limit) ==
    /\ d \in Controllers
    /\ d.target = target /\ d.interval = interval /\ d.phase = phase
    /\ d.successes = successes /\ d.probes = probes
    /\ d.structured = structured
    /\ d.rpm_limit = rpm_limit /\ d.concurrency_limit = concurrency_limit

\* A percentage of at most 100 of a natural number is a natural number no larger
\* (the reduction of the target by on_generic_overload).
LEMMA PercentReduces ==
    ASSUME NEW t \in Nat, NEW p \in 0..100
    PROVE  (t * p) \div 100 \in 0..t
<1>1. t * p \in Nat /\ t * p <= t * 100
  <2>1. t * p \in Nat
    OBVIOUS
  <2>2. t * (100 - p) \in Nat
    OBVIOUS
  <2>3. t * p + t * (100 - p) = t * 100
    OBVIOUS
  <2> QED BY <2>1, <2>2, <2>3
<1> DEFINE x == t * p
<1>2. x \in Nat /\ x <= t * 100
  BY <1>1
<1> HIDE DEF x
<1>3. x \div 100 \in 0..t
  BY <1>2
<1> QED BY <1>3 DEF x

\* Any percentage of a natural number is a natural number (the speed-ups and the
\* backoff of the launch interval).
LEMMA PercentOfNat ==
    ASSUME NEW t \in Nat, NEW p \in Nat
    PROVE  (t * p) \div 100 \in Nat
<1> DEFINE x == t * p
<1>1. x \in Nat
  OBVIOUS
<1> HIDE DEF x
<1>2. x \div 100 \in Nat
  BY <1>1
<1> QED BY <1>2 DEF x

\* A backoff never shortens the interval.
LEMMA BackedOffLonger ==
    ASSUME NEW t \in Nat
    PROVE  BackedOff(t) \in Nat /\ BackedOff(t) >= t
<1> DEFINE x == t * BackoffPercent
<1>1. x \in Nat /\ x >= t * 100
  <2>1. BackoffPercent - 100 \in Nat
    BY FactorConfig
  <2>2. t * (BackoffPercent - 100) \in Nat
    BY <2>1
  <2>3. t * (BackoffPercent - 100) + t * 100 = t * BackoffPercent
    BY FactorConfig
  <2> QED BY <2>2, <2>3
<1> HIDE DEF x
<1>2. x \div 100 \in Nat /\ x \div 100 >= t
  BY <1>1
<1> QED BY <1>2, FactorConfig DEF BackedOff, x

\* The interval computed from a learned request-rate limit is a natural number.
LEMMA PaceForNat ==
    ASSUME NEW n \in Nat
    PROVE  PaceFor(n) \in Nat
<1> DEFINE d == n * RpmTargetPermille
           m == Minute * 1000
<1>1. d \in Nat /\ m \in Nat
  BY RatioConfig, FactorConfig
<1> HIDE DEF d, m
<1>2. d > 1000 => m \div d \in Nat
  BY <1>1
<1>3. PaceFor(n) = IF d <= 1000 THEN Minute ELSE m \div d
  BY DEF PaceFor, d, m
<1> QED BY <1>1, <1>2, <1>3, FactorConfig

\* reset() establishes the invariant.
LEMMA FreshSound == Sound(Fresh)
BY ConcurrencyConfig, IntervalConfig, StreakConfig
   DEF Sound, KnowsNothing, Fresh, Controllers, Phases, Probe, Adaptive, None

-----------------------------------------------------------------------------
(* What each update of the record leaves in its fields. *)

\* _reset_success_counters changes the two counters only.
LEMMA ResetCountersFields ==
    ASSUME NEW c \in Controllers
    PROVE  Has(ResetCounters(c), c.target, c.interval, c.phase, 0,
          0, c.structured, c.rpm_limit, c.concurrency_limit)
<1> DEFINE d == [c EXCEPT !.successes = 0]
           e == [d EXCEPT !.probes = 0]
<1>1. ResetCounters(c) = e
  BY DEF ResetCounters
<1>2. Has(d, c.target, c.interval, c.phase, 0,
          c.probes, c.structured, c.rpm_limit, c.concurrency_limit)
  BY DEF Has, Controllers, Phases
<1> HIDE DEF d
<1>3. Has(e, c.target, c.interval, c.phase, 0,
          0, c.structured, c.rpm_limit, c.concurrency_limit)
  BY <1>2 DEF Has, Controllers, Phases
<1> HIDE DEF e
<1> QED BY <1>1, <1>3

\* A probe success that does not end the probe changes the count of probes and
\* the interval only.
LEMMA ProbedFields ==
    ASSUME NEW c \in Controllers, NEW x \in Nat, NEW y \in Nat
    PROVE  Has([c EXCEPT !.probes = x, !.interval = y], c.target, y, c.phase, c.successes,
          x, c.structured, c.rpm_limit, c.concurrency_limit)
<1> DEFINE d == [c EXCEPT !.probes = x]
           e == [d EXCEPT !.interval = y]
<1>1. [c EXCEPT !.probes = x, !.interval = y] = e
  OBVIOUS
<1>2. Has(d, c.target, c.interval, c.phase, c.successes,
          x, c.structured, c.rpm_limit, c.concurrency_limit)
  BY DEF Has, Controllers, Phases
<1> HIDE DEF d
<1>3. Has(e, c.target, y, c.phase, c.successes,
          x, c.structured, c.rpm_limit, c.concurrency_limit)
  BY <1>2 DEF Has, Controllers, Phases
<1> HIDE DEF e
<1> QED BY <1>1, <1>3

\* _mark_structured_429 changes the flag and the phase only.
LEMMA MarkedFields ==
    ASSUME NEW c \in Controllers
    PROVE  Has([c EXCEPT !.structured = TRUE, !.phase = Adaptive], c.target, c.interval, Adaptive, c.successes,
          c.probes, TRUE, c.rpm_limit, c.concurrency_limit)
<1> DEFINE d == [c EXCEPT !.structured = TRUE]
           e == [d EXCEPT !.phase = Adaptive]
<1>1. [c EXCEPT !.structured = TRUE, !.phase = Adaptive] = e
  OBVIOUS
<1>2. Has(d, c.target, c.interval, c.phase, c.successes,
          c.probes, TRUE, c.rpm_limit, c.concurrency_limit)
  BY DEF Has, Controllers, Phases
<1> HIDE DEF d
<1>3. Has(e, c.target, c.interval, Adaptive, c.successes,
          c.probes, TRUE, c.rpm_limit, c.concurrency_limit)
  BY <1>2 DEF Has, Controllers, Phases
<1> HIDE DEF e
<1> QED BY <1>1, <1>3

\* The end of the probe changes the phase and the target only.
LEMMA SteeredFields ==
    ASSUME NEW c \in Controllers, NEW x \in Nat
    PROVE  Has([c EXCEPT !.phase = Adaptive, !.target = x], x, c.interval, Adaptive, c.successes,
          c.probes, c.structured, c.rpm_limit, c.concurrency_limit)
<1> DEFINE d == [c EXCEPT !.phase = Adaptive]
           e == [d EXCEPT !.target = x]
<1>1. [c EXCEPT !.phase = Adaptive, !.target = x] = e
  OBVIOUS
<1>2. Has(d, c.target, c.interval, Adaptive, c.successes,
          c.probes, c.structured, c.rpm_limit, c.concurrency_limit)
  BY DEF Has, Controllers, Phases
<1> HIDE DEF d
<1>3. Has(e, x, c.interval, Adaptive, c.successes,
          c.probes, c.structured, c.rpm_limit, c.concurrency_limit)
  BY <1>2 DEF Has, Controllers, Phases
<1> HIDE DEF e
<1> QED BY <1>1, <1>3

\* A full streak of successes changes the target, the interval and the count of
\* successes only.
LEMMA GrownFields ==
    ASSUME NEW c \in Controllers, NEW x \in Nat, NEW y \in Nat
    PROVE  Has([c EXCEPT !.target = x, !.interval = y, !.successes = 0], x, y, c.phase, 0,
          c.probes, c.structured, c.rpm_limit, c.concurrency_limit)
<1> DEFINE d == [c EXCEPT !.target = x]
           e == [d EXCEPT !.interval = y]
           f == [e EXCEPT !.successes = 0]
<1>1. [c EXCEPT !.target = x, !.interval = y, !.successes = 0] = f
  OBVIOUS
<1>2. Has(d, x, c.interval, c.phase, c.successes,
          c.probes, c.structured, c.rpm_limit, c.concurrency_limit)
  BY DEF Has, Controllers, Phases
<1> HIDE DEF d
<1>3. Has(e, x, y, c.phase, c.successes,
          c.probes, c.structured, c.rpm_limit, c.concurrency_limit)
  BY <1>2 DEF Has, Controllers, Phases
<1> HIDE DEF e
<1>4. Has(f, x, y, c.phase, 0,
          c.probes, c.structured, c.rpm_limit, c.concurrency_limit)
  BY <1>3 DEF Has, Controllers, Phases
<1> HIDE DEF f
<1> QED BY <1>1, <1>4

\* on_generic_overload, before it resets the counters, changes the target, the
\* interval and the phase only.
LEMMA SlowedFields ==
    ASSUME NEW c \in Controllers, NEW x \in Nat, NEW y \in Nat
    PROVE  Has([c EXCEPT !.target = x, !.interval = y, !.phase = Adaptive], x, y, Adaptive, c.successes,
          c.probes, c.structured, c.rpm_limit, c.concurrency_limit)
<1> DEFINE d == [c EXCEPT !.target = x]
           e == [d EXCEPT !.interval = y]
           f == [e EXCEPT !.phase = Adaptive]
<1>1. [c EXCEPT !.target = x, !.interval = y, !.phase = Adaptive] = f
  OBVIOUS
<1>2. Has(d, x, c.interval, c.phase, c.successes,
          c.probes, c.structured, c.rpm_limit, c.concurrency_limit)
  BY DEF Has, Controllers, Phases
<1> HIDE DEF d
<1>3. Has(e, x, y, c.phase, c.successes,
          c.probes, c.structured, c.rpm_limit, c.concurrency_limit)
  BY <1>2 DEF Has, Controllers, Phases
<1> HIDE DEF e
<1>4. Has(f, x, y, Adaptive, c.successes,
          c.probes, c.structured, c.rpm_limit, c.concurrency_limit)
  BY <1>3 DEF Has, Controllers, Phases
<1> HIDE DEF f
<1> QED BY <1>1, <1>4

\* on_concurrency_limited, before it resets the counters, changes the learned
\* limit, the target and the phase only.
LEMMA CappedFields ==
    ASSUME NEW c \in Controllers, NEW x \in Nat, NEW y \in Nat
    PROVE  Has([c EXCEPT !.concurrency_limit = x, !.target = y, !.phase = Adaptive], y, c.interval, Adaptive, c.successes,
          c.probes, c.structured, c.rpm_limit, x)
<1> DEFINE d == [c EXCEPT !.concurrency_limit = x]
           e == [d EXCEPT !.target = y]
           f == [e EXCEPT !.phase = Adaptive]
<1>1. [c EXCEPT !.concurrency_limit = x, !.target = y, !.phase = Adaptive] = f
  OBVIOUS
<1>2. Has(d, c.target, c.interval, c.phase, c.successes,
          c.probes, c.structured, c.rpm_limit, x)
  BY DEF Has, Controllers, Phases
<1> HIDE DEF d
<1>3. Has(e, y, c.interval, c.phase, c.successes,
          c.probes, c.structured, c.rpm_limit, x)
  BY <1>2 DEF Has, Controllers, Phases
<1> HIDE DEF e
<1>4. Has(f, y, c.interval, Adaptive, c.successes,
          c.probes, c.structured, c.rpm_limit, x)
  BY <1>3 DEF Has, Controllers, Phases
<1> HIDE DEF f
<1> QED BY <1>1, <1>4

-----------------------------------------------------------------------------
(* The two operations of the interface preserve the invariant. *)

\* The end of the probe preserves the invariant, although it raises the target
\* without looking at the learned limit (_on_probe_success, on_rpm_limited).
LEMMA AfterProbeSound ==
    ASSUME NEW c \in Controllers,
           c.target = InitialConcurrency,
           c.successes = 0,
           c.concurrency_limit = None
    PROVE  /\ Sound(AfterProbe(c))
           /\ AfterProbe(c).phase = Adaptive
           /\ AfterProbe(c).interval = c.interval
           /\ AfterProbe(c).rpm_limit = c.rpm_limit
           /\ AfterProbe(c).structured = c.structured
           /\ AfterProbe(c).probes = c.probes
           /\ AfterProbe(c).target \in {c.target, c.target + 1}
<1> DEFINE x == AtMost(MaxTargetConcurrency, AtLeast(2, c.target))
<1>1. x \in Nat /\ x \in 1..MaxTargetConcurrency /\ x \in {c.target, c.target + 1}
  BY ConcurrencyConfig DEF AtMost, AtLeast
<1> HIDE DEF x
<1> DEFINE d == [c EXCEPT !.phase = Adaptive, !.target = x]
<1>2. Has(d, x, c.interval, Adaptive, c.successes, c.probes, c.structured,
          c.rpm_limit, c.concurrency_limit)
  BY <1>1, SteeredFields
<1>3. AfterProbe(c) = d
  BY DEF AfterProbe, x
<1> HIDE DEF d
<1> QED
  BY <1>1, <1>2, <1>3, StreakConfig, ConcurrencyConfig
     DEF Sound, KnowsNothing, Has, Probe, Adaptive, None

\* on_success preserves the invariant and forgets nothing.
LEMMA SuccessSound ==
    ASSUME NEW c, Sound(c)
    PROVE  Sound(OnSuccess(c)) /\ Follows(c, OnSuccess(c))
<1>1. c \in Controllers
  BY DEF Sound, KnowsNothing
<1>2. /\ c.interval \in Nat /\ c.probes \in Nat /\ c.target \in Nat
      /\ c.successes \in Nat /\ c.concurrency_limit \in Nat /\ c.rpm_limit \in Nat
  BY <1>1 DEF Controllers
<1>3. CASE c.phase = Probe /\ ~c.structured
  <2> DEFINE y == AtLeast(MinLaunchInterval, (c.interval * ProbeSpeedupPercent) \div 100)
             counted == [c EXCEPT !.probes = c.probes + 1, !.interval = y]
  <2>1. y \in Nat /\ c.probes + 1 \in Nat
    BY <1>2, PercentOfNat, IntervalConfig, FactorConfig DEF AtLeast
  <2>2. OnSuccess(c) = IF counted.probes < SuccessesBeforeRpmProbe THEN counted
                                                                 ELSE AfterProbe(counted)
    BY <1>3 DEF OnSuccess, OnProbeSuccess
  <2> HIDE DEF y
  <2>3. Has(counted, c.target, y, c.phase, c.successes, c.probes + 1, c.structured,
            c.rpm_limit, c.concurrency_limit)
    BY <1>1, <1>2, <2>1, ProbedFields
  <2> HIDE DEF counted
  <2>4. CASE counted.probes < SuccessesBeforeRpmProbe
    <3>1. Sound(counted)
      BY <2>3, <2>4 DEF Sound, KnowsNothing, Has
    <3>2. Follows(c, counted)
      BY <1>2, <1>3, <2>3 DEF Follows, Paced, Sound, KnowsNothing, Has, Probe, Adaptive
    <3> QED BY <2>2, <2>4, <3>1, <3>2
  <2>5. CASE ~(counted.probes < SuccessesBeforeRpmProbe)
    <3>1. /\ counted \in Controllers
          /\ counted.target = InitialConcurrency
          /\ counted.successes = 0
          /\ counted.concurrency_limit = None
      BY <1>3, <2>3 DEF Sound, KnowsNothing, Has
    <3>2. counted.target = c.target
      BY <2>3 DEF Has
    <3>3. Sound(AfterProbe(counted)) /\ AfterProbe(counted).rpm_limit = None
          /\ AfterProbe(counted).target \in {c.target, c.target + 1}
          /\ AfterProbe(counted).phase = Adaptive /\ ~AfterProbe(counted).structured
      BY <1>3, <2>3, <3>1, <3>2, AfterProbeSound DEF Sound, KnowsNothing, Has
    <3>4. KnowsNothing(c) /\ c.probes = SuccessesBeforeRpmProbe - 1
      BY <1>2, <1>3, <2>3, <2>5, StreakConfig DEF Sound, Has
    <3> DEFINE e == AfterProbe(counted)
    <3> HIDE DEF e
    <3>5. BlindProbeEnds(c, e)
      BY <1>3, <3>3, <3>4 DEF BlindProbeEnds, e
    <3>6. Follows(c, e)
      BY <1>2, <1>3, <3>3, <3>4, <3>5 DEF Follows, Paced, KnowsNothing, Probe, Adaptive, e
    <3> QED BY <2>2, <2>5, <3>3, <3>6 DEF e
  <2> QED BY <2>4, <2>5
<1>4. CASE ~(c.phase = Probe /\ ~c.structured)
  <2>1. c.phase # Probe /\ c.phase = Adaptive
    BY <1>1, <1>4 DEF Sound, KnowsNothing, Controllers, Phases
  <2>2. CASE ~StreakComplete(c)
    <3> DEFINE d == [c EXCEPT !.successes = c.successes + 1]
    <3>1. OnSuccess(c) = d
      BY <1>4, <2>2 DEF OnSuccess
    <3>2. Has(d, c.target, c.interval, c.phase, c.successes + 1, c.probes, c.structured,
              c.rpm_limit, c.concurrency_limit)
      BY <1>1, <1>2 DEF Has, Controllers
    <3>3. c.successes + 1 < SuccessesBeforeIncrease
      BY <1>2, <2>2, StreakConfig DEF StreakComplete
    <3> HIDE DEF d
    <3>4. Sound(d)
      BY <2>1, <3>2, <3>3 DEF Sound, KnowsNothing, Has
    <3>5. Follows(c, d)
      BY <1>2, <2>1, <3>2 DEF Follows, Paced, Has, None
    <3> QED BY <3>1, <3>4, <3>5
  <2>3. CASE StreakComplete(c)
    <3> DEFINE x == IF c.target < Ceiling(c) THEN c.target + 1 ELSE c.target
               y == IF c.rpm_limit # None THEN c.interval
                    ELSE AtLeast(MinLaunchInterval,
                                 (c.interval * SuccessSpeedupPercent) \div 100)
               d == [c EXCEPT !.target = x, !.interval = y, !.successes = 0]
    <3>1. OnSuccess(c) = d
      BY <1>4, <2>3 DEF OnSuccess, Grown
    <3>2. y \in Nat
      BY <1>2, PercentOfNat, IntervalConfig, FactorConfig DEF AtLeast
    <3>3. /\ x \in Nat /\ x \in 1..MaxTargetConcurrency
          /\ c.concurrency_limit # None => x <= c.concurrency_limit
      <4>1. c.target \in 1..MaxTargetConcurrency
            /\ c.concurrency_limit <= MaxTargetConcurrency
            /\ (c.concurrency_limit # None => c.target <= c.concurrency_limit)
        BY DEF Sound, KnowsNothing
      <4>2. CASE c.concurrency_limit # None
        <5>1. Ceiling(c) = c.concurrency_limit
          BY <4>2 DEF Ceiling
        <5> HIDE DEF Ceiling
        <5> QED BY <1>2, <4>1, <4>2, <5>1, ConcurrencyConfig
      <4>3. CASE c.concurrency_limit = None
        <5>1. Ceiling(c) = MaxTargetConcurrency
          BY <4>3 DEF Ceiling
        <5> QED BY <1>2, <4>1, <4>3, <5>1, ConcurrencyConfig
      <4> QED BY <4>2, <4>3
    <3> HIDE DEF x, y
    <3>4. Has(d, x, y, c.phase, 0, c.probes, c.structured, c.rpm_limit,
              c.concurrency_limit)
      BY <1>1, <3>2, <3>3, GrownFields
    <3> HIDE DEF d
    <3>5. Sound(d)
      BY <2>1, <3>3, <3>4, StreakConfig DEF Sound, KnowsNothing, Has
    <3>6. x \in {c.target, c.target + 1} /\ (c.rpm_limit # None => y = c.interval)
      BY DEF x, y
    <3>7. c.successes = SuccessesBeforeIncrease - 1
      BY <1>2, <2>3, StreakConfig DEF StreakComplete, Sound
    <3>8. Follows(c, d)
      BY <1>2, <2>1, <3>4, <3>6, <3>7 DEF Follows, Paced, Has, None
    <3> QED BY <3>1, <3>5, <3>8
  <2> QED BY <2>2, <2>3
<1> QED BY <1>3, <1>4

\* The reaction to a 429 preserves the invariant, if it reports at least one and
\* at most max_target_concurrency requests in flight.
LEMMA RateLimitedSound ==
    ASSUME NEW c, Sound(c),
           NEW reason \in Reasons,
           NEW in_flight \in 1..MaxTargetConcurrency,
           NEW launch_rpm \in Nat
    PROVE  /\ Sound(OnRateLimited(c, reason, in_flight, launch_rpm))
           /\ launch_rpm # 0 => Follows(c, OnRateLimited(c, reason, in_flight, launch_rpm))
<1> DEFINE m == MarkStructured(c, reason)
<1>1. c \in Controllers
  BY DEF Sound, KnowsNothing
<1>2. /\ Sound(m)
      /\ m.interval = c.interval /\ m.target = c.target
      /\ m.rpm_limit = c.rpm_limit /\ m.concurrency_limit = c.concurrency_limit
      /\ c.structured => m.structured
      /\ c.phase = Adaptive => m.phase = Adaptive
      /\ m.phase = Probe => c.phase = Probe
      /\ c.probes \in Nat
  <2>1. CASE reason = "generic" \/ c.structured
    BY <1>1, <2>1 DEF Controllers, MarkStructured, Adaptive, Probe
  <2>2. CASE ~(reason = "generic" \/ c.structured)
    <3>1. m = [c EXCEPT !.structured = TRUE, !.phase = Adaptive]
      BY <2>2 DEF MarkStructured
    <3>2. Has(m, c.target, c.interval, Adaptive, c.successes, c.probes, TRUE,
              c.rpm_limit, c.concurrency_limit)
      BY <1>1, <3>1, MarkedFields
    <3> HIDE DEF m
    <3> QED BY <1>1, <3>2 DEF Sound, KnowsNothing, Has, Probe, Adaptive, Controllers
  <2> QED BY <2>1, <2>2
<1> HIDE DEF m
<1>3. m \in Controllers
  BY <1>2 DEF Sound, KnowsNothing
<1>4. m.interval \in Nat /\ m.target \in Nat /\ m.rpm_limit \in Nat
      /\ m.concurrency_limit \in Nat
  BY <1>3 DEF Controllers
<1>5. /\ Sound(OnRpmLimited(m, launch_rpm))
      /\ launch_rpm # 0 => Follows(c, OnRpmLimited(m, launch_rpm))
  <2> DEFINE learned == LearnRpm(m, launch_rpm)
             pace == IF learned.rpm_limit = None THEN BackedOff(m.interval)
                                                 ELSE PaceFor(learned.rpm_limit)
             y == AtMost(MaxLaunchInterval, AtLeast(MinLaunchInterval, pace))
             slowed == [learned EXCEPT !.interval = y]
             paced == ResetCounters(slowed)
  <2>1. /\ Has(learned, m.target, m.interval, m.phase, m.successes, m.probes,
               m.structured, learned.rpm_limit, m.concurrency_limit)
        /\ m.rpm_limit # None => learned.rpm_limit \in 1..m.rpm_limit
        /\ launch_rpm # 0 => learned.rpm_limit # None
    <3>1. CASE launch_rpm = 0
      BY <1>3, <1>4, <3>1 DEF LearnRpm, Has, None
    <3>2. CASE launch_rpm # 0
      <4> DEFINE r == Tightened(m.rpm_limit, AtLeast(1, launch_rpm - 1))
      <4>1. r \in Nat /\ r # None /\ (m.rpm_limit # None => r \in 1..m.rpm_limit)
        BY <1>4 DEF Tightened, AtLeast, AtMost, None
      <4>2. learned = [m EXCEPT !.rpm_limit = r]
        BY <3>2 DEF LearnRpm
      <4> HIDE DEF r
      <4> QED BY <1>3, <4>1, <4>2 DEF Has, Controllers
    <3> QED BY <3>1, <3>2
  <2>2. OnRpmLimited(m, launch_rpm) = IF m.phase = Probe THEN AfterProbe(paced) ELSE paced
    BY DEF OnRpmLimited
  <2> HIDE DEF learned
  <2>3. learned.rpm_limit \in Nat
    BY <2>1 DEF Has, Controllers
  <2>4. BackedOff(m.interval) \in Nat
    BY <1>4, BackedOffLonger
  <2>5. /\ y \in Nat
        /\ learned.rpm_limit # None =>
             y >= AtMost(MaxLaunchInterval, PaceFor(learned.rpm_limit))
    BY <2>3, <2>4, PaceForNat, IntervalConfig DEF AtMost, AtLeast
  <2> HIDE DEF y
  <2>6. Has(slowed, m.target, y, m.phase, m.successes, m.probes,
            m.structured, learned.rpm_limit, m.concurrency_limit)
    BY <2>1, <2>3, <2>5 DEF Has, Controllers
  <2> HIDE DEF slowed
  <2>7. Has(paced, m.target, y, m.phase, 0, 0, m.structured, learned.rpm_limit,
            m.concurrency_limit)
    BY <2>6, ResetCountersFields DEF Has
  <2> HIDE DEF paced
  <2>8. CASE m.phase = Probe
    <3>1. /\ paced \in Controllers
          /\ paced.target = InitialConcurrency
          /\ paced.successes = 0
          /\ paced.concurrency_limit = None
      BY <1>2, <2>7, <2>8 DEF Sound, KnowsNothing, Has
    <3> DEFINE d == AfterProbe(paced)
    <3>2. /\ Sound(d) /\ d.interval = paced.interval /\ d.rpm_limit = paced.rpm_limit
          /\ d.structured = paced.structured /\ d.target \in {paced.target, paced.target + 1}
          /\ d.phase = Adaptive /\ d.probes = paced.probes
      BY <3>1, AfterProbeSound
    <3> HIDE DEF d
    <3>3. /\ d.interval = y /\ d.rpm_limit = learned.rpm_limit /\ d.structured = m.structured
          /\ d.target \in {m.target, m.target + 1} /\ d.probes = 0 /\ d.phase = Adaptive
      BY <2>7, <3>2 DEF Has
    <3>4. c.phase = Probe /\ c.rpm_limit = None /\ c.concurrency_limit = None /\ ~c.structured
          /\ c.phase # Adaptive /\ KnowsNothing(c)
      BY <1>2, <2>8 DEF Sound, KnowsNothing, Probe, Adaptive
    <3>5. Paced(d)
      BY <2>5, <3>3 DEF Paced
    <3>6. ~m.structured
      BY <1>2, <2>8 DEF Sound, KnowsNothing
    <3>7. launch_rpm # 0 => BlindProbeEnds(c, d)
      BY <2>1, <3>3, <3>4, <3>6 DEF BlindProbeEnds
    <3>8. launch_rpm # 0 => Follows(c, d)
      BY <1>2, <1>4, <3>3, <3>4, <3>5, <3>7 DEF Follows
    <3> QED BY <2>2, <2>8, <3>2, <3>8 DEF d
  <2>9. CASE m.phase # Probe
    <3>1. Sound(paced)
      BY <1>2, <2>7, <2>9, StreakConfig DEF Sound, KnowsNothing, Has
    <3>2. Paced(paced)
      BY <2>5, <2>7 DEF Paced, Has
    <3>3. Follows(c, paced)
      <4>1. paced.phase = Adaptive
        BY <1>3, <2>7, <2>9 DEF Has, Controllers, Phases
      <4>2. c.concurrency_limit # None => paced.concurrency_limit \in 1..c.concurrency_limit
        BY <1>2, <1>4, <2>7 DEF Has, None
      <4>3. /\ paced.target = c.target /\ paced.structured = m.structured /\ paced.probes = 0
            /\ c.rpm_limit # None => paced.rpm_limit \in 1..c.rpm_limit
        BY <1>2, <2>1, <2>7 DEF Has
      <4> QED BY <1>2, <1>4, <3>2, <4>1, <4>2, <4>3 DEF Follows
    <3> QED BY <2>2, <2>9, <3>1, <3>3
  <2> QED BY <2>8, <2>9
<1>6. Sound(OnConcurrencyLimited(m, in_flight)) /\ Follows(c, OnConcurrencyLimited(m, in_flight))
  <2> DEFINE x == Tightened(m.concurrency_limit, AtLeast(1, in_flight - 1))
             y == AtMost(x, m.target)
             capped == [m EXCEPT !.concurrency_limit = x, !.target = y, !.phase = Adaptive]
  <2>1. /\ x \in Nat /\ x # 0
        /\ y \in Nat /\ y \in 1..MaxTargetConcurrency
        /\ y <= x
        /\ x <= MaxTargetConcurrency
        /\ y <= m.target
        /\ m.concurrency_limit # None => x \in 1..m.concurrency_limit
    BY <1>2, <1>4, ConcurrencyConfig DEF Tightened, AtLeast, AtMost, Sound, None
  <2>2. OnConcurrencyLimited(m, in_flight) = ResetCounters(capped)
    BY DEF OnConcurrencyLimited
  <2> HIDE DEF x, y
  <2>3. Has(capped, y, m.interval, Adaptive, m.successes, m.probes, m.structured,
            m.rpm_limit, x)
    BY <1>3, <2>1, CappedFields
  <2> HIDE DEF capped
  <2>4. Has(ResetCounters(capped), y, m.interval, Adaptive, 0, 0, m.structured,
            m.rpm_limit, x)
    BY <2>3, ResetCountersFields DEF Has
  <2> DEFINE d == ResetCounters(capped)
  <2> HIDE DEF d
  <2>5. Sound(d)
    BY <2>1, <2>4, StreakConfig DEF Sound, KnowsNothing, Has, Probe, Adaptive, None, d
  <2>6. /\ d.target <= c.target /\ d.target \in Nat /\ d.interval = c.interval
        /\ d.rpm_limit = c.rpm_limit /\ d.phase = Adaptive /\ d.structured = m.structured
        /\ d.probes = 0
        /\ c.concurrency_limit # None => d.concurrency_limit \in 1..c.concurrency_limit
    BY <1>2, <2>1, <2>4 DEF Has, d
  <2>7. Follows(c, d)
    BY <1>2, <1>4, <2>6 DEF Follows, Paced, None
  <2> QED BY <2>2, <2>5, <2>7 DEF d
<1>7. Sound(OnGenericOverload(m)) /\ Follows(c, OnGenericOverload(m))
  <2> DEFINE x == ReducedTarget(m.target)
             y == AtMost(MaxLaunchInterval, BackedOff(m.interval))
             slowed == [m EXCEPT !.target = x, !.interval = y, !.phase = Adaptive]
  <2>1. BackedOff(m.interval) \in Nat /\ BackedOff(m.interval) >= m.interval
    BY <1>4, BackedOffLonger
  <2>2. y \in Nat /\ \A p \in Nat : m.interval >= AtMost(MaxLaunchInterval, p) =>
                                      y >= AtMost(MaxLaunchInterval, p)
    BY <1>4, <2>1, IntervalConfig DEF AtMost
  <2>3. /\ x \in Nat /\ x \in 1..MaxTargetConcurrency
        /\ x <= m.target
    <3>1. (m.target * OverloadPercent) \div 100 \in 0..m.target
      BY <1>4, FactorConfig, PercentReduces
    <3> QED BY <1>2, <3>1, ConcurrencyConfig DEF ReducedTarget, AtLeast, Sound
  <2>4. OnGenericOverload(m) = ResetCounters(slowed)
    BY DEF OnGenericOverload
  <2> HIDE DEF x, y
  <2>5. Has(slowed, x, y, Adaptive, m.successes, m.probes, m.structured,
            m.rpm_limit, m.concurrency_limit)
    BY <1>3, <2>2, <2>3, SlowedFields
  <2> HIDE DEF slowed
  <2>6. Has(ResetCounters(slowed), x, y, Adaptive, 0, 0, m.structured,
            m.rpm_limit, m.concurrency_limit)
    BY <2>5, ResetCountersFields DEF Has
  <2> DEFINE d == ResetCounters(slowed)
  <2> HIDE DEF d
  <2>7. Sound(d)
    BY <1>2, <1>4, <2>3, <2>6, StreakConfig DEF Sound, KnowsNothing, Has, Probe, Adaptive, d
  <2>8. /\ d.target <= c.target /\ d.target \in Nat /\ d.interval = y
        /\ d.rpm_limit = c.rpm_limit /\ d.concurrency_limit = c.concurrency_limit
        /\ d.phase = Adaptive /\ d.structured = m.structured /\ d.probes = 0
    BY <1>2, <2>3, <2>6 DEF Has, d
  <2>9. Paced(c) => Paced(d)
    BY <1>2, <1>4, <2>2, <2>8, PaceForNat DEF Paced
  <2>10. Follows(c, d)
    BY <1>2, <1>4, <2>8, <2>9 DEF Follows, None
  <2> QED BY <2>4, <2>7, <2>10 DEF d
<1> QED
  BY <1>5, <1>6, <1>7 DEF OnRateLimited, m

-----------------------------------------------------------------------------
(* The theorems. *)

CtlInv == Sound(controller)

LEMMA StepFollows ==
    CtlInv /\ [CtlNext]_controller => [Follows(controller, controller')]_controller
<1> SUFFICES ASSUME Sound(controller), CtlNext
             PROVE  Follows(controller, controller')
  BY DEF CtlInv
<1>1. CASE Succeed
  BY <1>1, SuccessSound DEF Succeed
<1>2. ASSUME NEW reason \in Reasons, NEW in_flight \in 1..MaxTargetConcurrency,
             NEW launch_rpm \in 1..ObservableRpm,
             RateLimited(reason, in_flight, launch_rpm)
      PROVE  Follows(controller, controller')
  BY <1>2, RateLimitedSound, FactorConfig DEF RateLimited
<1> QED BY <1>1, <1>2 DEF CtlNext

\* The inductive invariant holds in every behaviour of the controller.
THEOREM CtlInvariant == CtlSpec => []CtlInv
<1>1. CtlInit => CtlInv
  BY FreshSound DEF CtlInit, CtlInv
<1>2. CtlInv /\ [CtlNext]_controller => CtlInv'
  <2> SUFFICES ASSUME Sound(controller), [CtlNext]_controller
               PROVE  Sound(controller')
    BY DEF CtlInv
  <2>1. CASE Succeed
    BY <2>1, SuccessSound DEF Succeed
  <2>2. ASSUME NEW reason \in Reasons, NEW in_flight \in 1..MaxTargetConcurrency,
               NEW launch_rpm \in 1..ObservableRpm,
               RateLimited(reason, in_flight, launch_rpm)
        PROVE  Sound(controller')
    BY <2>2, RateLimitedSound, FactorConfig DEF RateLimited
  <2>3. CASE UNCHANGED controller
    BY <2>3
  <2> QED BY <2>1, <2>2, <2>3 DEF CtlNext
<1> QED BY <1>1, <1>2, PTL DEF CtlSpec

\* Type correctness of the controller.
THEOREM CtlTypeCorrect == CtlSpec => []CtlTypeOK
<1>1. CtlInv => CtlTypeOK
  BY DEF CtlInv, Sound, KnowsNothing, CtlTypeOK
<1> QED BY <1>1, CtlInvariant, PTL

\* Whatever the replies, the target stays between 1 and max_target_concurrency.
THEOREM TargetStaysWithinBounds == CtlSpec => []TargetWithinBounds
<1>1. CtlInv => TargetWithinBounds
  BY DEF CtlInv, Sound, KnowsNothing, TargetWithinBounds
<1> QED BY <1>1, CtlInvariant, PTL

\* The target never exceeds a learned concurrency limit.
THEOREM LearnedCeilingIsKept == CtlSpec => []LearnedCeilingHolds
<1>1. CtlInv => LearnedCeilingHolds
  BY DEF CtlInv, Sound, KnowsNothing, LearnedCeilingHolds
<1> QED BY <1>1, CtlInvariant, PTL

\* Within a run nothing that was learned is forgotten or relaxed.
THEOREM LearningStaysMonotone == CtlSpec => LearningIsMonotone
<1>1. CtlInv /\ [CtlNext]_controller =>
        [Follows(controller, controller')]_controller
  BY StepFollows
<1>2. [Follows(controller, controller')]_controller =>
        [ /\ controller.rpm_limit # None =>
                controller'.rpm_limit \in 1..controller.rpm_limit
          /\ controller.concurrency_limit # None =>
                controller'.concurrency_limit \in 1..controller.concurrency_limit
          /\ controller.structured => controller'.structured
          /\ controller.phase = Adaptive => controller'.phase = Adaptive ]_controller
  BY DEF Follows
<1> QED BY <1>1, <1>2, CtlInvariant, PTL DEF CtlSpec, LearningIsMonotone

\* The target grows by one slot at a time, after a full streak of successes or when
\* the probe ends blindly; nothing counts as a probe once anything has been learned.
THEOREM GrowthIsAlwaysEarned == CtlSpec => GrowthIsEarned
<1>1. CtlInv /\ [CtlNext]_controller =>
        [Follows(controller, controller')]_controller
  BY StepFollows
<1>2. [Follows(controller, controller')]_controller =>
        [ /\ controller'.target > controller.target =>
                /\ controller'.target = controller.target + 1
                /\ \/ BlindProbeEnds(controller, controller')
                   \/ /\ controller.phase = Adaptive
                      /\ controller.successes = SuccessesBeforeIncrease - 1
          /\ controller'.probes > controller.probes =>
                controller.phase = Probe /\ KnowsNothing(controller) ]_controller
  BY DEF Follows
<1> QED BY <1>1, <1>2, CtlInvariant, PTL DEF CtlSpec, GrowthIsEarned

\* The launch interval keeps covering the learned request-rate limit.
THEOREM PaceStaysCovering == CtlSpec => []PaceCoversLearnedLimit
<1>1. CtlInit => Paced(controller)
  BY DEF CtlInit, Fresh, Paced, None
<1>2. CtlInv /\ [CtlNext]_controller /\ Paced(controller) => Paced(controller)'
  BY StepFollows DEF Follows, Paced
<1>3. Paced(controller) => PaceCoversLearnedLimit
  BY DEF Paced, PaceCoversLearnedLimit
<1> QED BY <1>1, <1>2, <1>3, CtlInvariant, PTL DEF CtlSpec

\* The probe ends with the first piece of knowledge.
THEOREM ProbeStaysBlind == CtlSpec => []ProbeIsBlind
<1>1. CtlInv => ProbeIsBlind
  BY DEF CtlInv, Sound, KnowsNothing, ProbeIsBlind
<1> QED BY <1>1, CtlInvariant, PTL

=============================================================================
