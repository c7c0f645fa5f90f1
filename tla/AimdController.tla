--------------------------- MODULE AimdController ---------------------------
(***************************************************************************)
(* The pure state machine of domain/scheduling/aimd/controller.py: it      *)
(* turns the outcome of each attempt into a target concurrency and a       *)
(* launch interval.  The fields of the Python object are the fields of     *)
(* one record, and every method is an operator from record to record, so   *)
(* that the scheduler can apply several of them in one step as the code    *)
(* does: classify_rate_limit, then the method of its kind.                 *)
(*                                                                         *)
(* Durations are integers in an arbitrary unit; Minute is 60 seconds in    *)
(* that unit.  Float factors are percentages and products are rounded      *)
(* down.  For the default factor 0.70 that is exactly what floor() in the  *)
(* code returns for every concurrency below 90.                            *)
(*                                                                         *)
(* Definitions named Faulty... are variants with a plausible bug, one line *)
(* away from the definition that follows them; nothing uses them but the   *)
(* runs that show that each property can fail.                             *)
(***************************************************************************)
EXTENDS Integers

CONSTANTS
    InitialConcurrency,       \* initial_concurrency
    MaxTargetConcurrency,     \* max_target_concurrency
    InitialLaunchInterval,    \* initial_launch_interval_sec
    MinLaunchInterval,        \* min_launch_interval_sec
    MaxLaunchInterval,        \* max_launch_interval_sec
    SuccessesBeforeIncrease,  \* successes_before_concurrency_increase
    SuccessesBeforeRpmProbe,  \* successes_before_rpm_probe
    OverloadPercent,          \* generic_overload_concurrency_factor
    ProbeSpeedupPercent,      \* probe_speedup_factor
    SuccessSpeedupPercent,    \* success_speedup_factor
    BackoffPercent,           \* launch_interval_backoff_factor
    BackoffAdd,               \* launch_interval_backoff_sec
    RpmTargetPermille,        \* rpm_capacity_target_ratio
    Minute,                   \* 60 seconds, in the unit of the intervals
    ObservableRpm             \* bound: launch rates an outcome may report

\* What __post_init__ of the configuration enforces.
ASSUME ConcurrencyConfig ==
    /\ InitialConcurrency \in Nat \ {0}
    /\ MaxTargetConcurrency \in Nat
    /\ MaxTargetConcurrency >= InitialConcurrency

ASSUME IntervalConfig ==
    /\ InitialLaunchInterval \in Nat
    /\ MinLaunchInterval \in Nat
    /\ MaxLaunchInterval \in Nat
    /\ MaxLaunchInterval >= MinLaunchInterval

ASSUME StreakConfig ==
    /\ SuccessesBeforeIncrease \in Nat \ {0}
    /\ SuccessesBeforeRpmProbe \in Nat

ASSUME RatioConfig == RpmTargetPermille \in 1..1000

\* The factors are not validated by the code; the defaults, which no caller
\* overrides, satisfy this.
ASSUME FactorConfig ==
    /\ OverloadPercent \in 0..100
    /\ ProbeSpeedupPercent \in Nat
    /\ SuccessSpeedupPercent \in Nat
    /\ BackoffPercent \in Nat /\ BackoffPercent >= 100
    /\ BackoffAdd \in Nat
    /\ Minute \in Nat \ {0}
    /\ ObservableRpm \in Nat \ {0}

\* An estimate that the code holds as Python's None; a learned estimate is >= 1.
None == 0

Probe == "opaque_rpm_probe"
Adaptive == "adaptive"
Phases == {Probe, Adaptive}

\* What classify_rate_limit_reason makes of the reason a 429 carries.
Reasons == {"rpm", "concurrency", "generic"}

AtLeast(bound, x) == IF x < bound THEN bound ELSE x   \* max(bound, x)
AtMost(bound, x) == IF x > bound THEN bound ELSE x    \* min(bound, x)

\* The last observation wins.
FaultyTightened(estimate, candidate) == candidate

\* An estimate only ever tightens.
Tightened(estimate, candidate) ==
    IF estimate = None THEN candidate ELSE AtMost(estimate, candidate)

-----------------------------------------------------------------------------

Fresh ==
    [ target      |-> InitialConcurrency,
      interval    |-> InitialLaunchInterval,
      phase       |-> IF SuccessesBeforeRpmProbe > 0 THEN Probe ELSE Adaptive,
      successes   |-> 0,
      probes      |-> 0,
      structured  |-> FALSE,
      rpm_limit   |-> None,
      concurrency_limit |-> None ]

ResetCounters(c) == [c EXCEPT !.successes = 0, !.probes = 0]

\* Leaving the probe opens at least a second slot.
AfterProbe(c) ==
    [c EXCEPT !.phase = Adaptive,
              !.target = AtMost(MaxTargetConcurrency, AtLeast(2, c.target))]

LearnRpm(c, launch_rpm) ==
    IF launch_rpm <= 0 THEN c
    ELSE [c EXCEPT !.rpm_limit = Tightened(@, AtLeast(1, launch_rpm - 1))]

BackedOff(interval) == (interval * BackoffPercent) \div 100 + BackoffAdd

\* 60 / max(1, limit * ratio)
PaceFor(rpm_limit) ==
    IF rpm_limit * RpmTargetPermille <= 1000 THEN Minute
    ELSE (Minute * 1000) \div (rpm_limit * RpmTargetPermille)

\* A 429 whose reason is unknown is blamed on the request rate when nothing
\* else was in flight or the rate was within 10% of the learned limit.
Kind(c, reason, in_flight, launch_rpm) ==
    IF /\ reason = "generic"
       /\ \/ in_flight <= 1
          \/ c.rpm_limit # None /\ launch_rpm >= (90 * c.rpm_limit) \div 100
    THEN "rpm"
    ELSE reason

\* The probe goes on, now that a 429 has named its reason.
FaultyMarkStructured(c, reason) ==
    IF reason = "generic" \/ c.structured THEN c ELSE [c EXCEPT !.structured = TRUE]

MarkStructured(c, reason) ==
    IF reason = "generic" \/ c.structured THEN c
    ELSE [c EXCEPT !.structured = TRUE, !.phase = Adaptive]

OnRpmLimited(c, launch_rpm) ==
    LET learned == LearnRpm(c, launch_rpm)
        pace == IF learned.rpm_limit = None THEN BackedOff(c.interval)
                                            ELSE PaceFor(learned.rpm_limit)
        paced == ResetCounters(
                   [learned EXCEPT !.interval =
                      AtMost(MaxLaunchInterval, AtLeast(MinLaunchInterval, pace))])
    IN  IF c.phase = Probe THEN AfterProbe(paced) ELSE paced

OnConcurrencyLimited(c, in_flight) ==
    LET limit == Tightened(c.concurrency_limit, AtLeast(1, in_flight - 1))
    IN  ResetCounters([c EXCEPT !.concurrency_limit = limit,
                                !.target = AtMost(limit, @),
                                !.phase = Adaptive])

\* No minimum.
FaultyReducedTarget(target) == (target * OverloadPercent) \div 100

ReducedTarget(target) == AtLeast(1, (target * OverloadPercent) \div 100)

OnGenericOverload(c) ==
    ResetCounters(
      [c EXCEPT !.target = ReducedTarget(@),
                !.interval = AtMost(MaxLaunchInterval, BackedOff(@)),
                !.phase = Adaptive])

\* The whole reaction to a 429: classify_rate_limit, then the method of its kind.
OnRateLimited(c, reason, in_flight, launch_rpm) ==
    LET kind == Kind(c, reason, in_flight, launch_rpm)
        marked == MarkStructured(c, reason)
    IN  CASE kind = "rpm"         -> OnRpmLimited(marked, launch_rpm)
          [] kind = "concurrency" -> OnConcurrencyLimited(marked, in_flight)
          [] OTHER                -> OnGenericOverload(marked)

OnProbeSuccess(c) ==
    LET counted == [c EXCEPT !.probes = @ + 1,
                             !.interval = AtLeast(MinLaunchInterval,
                                            (@ * ProbeSpeedupPercent) \div 100)]
    IN  IF counted.probes < SuccessesBeforeRpmProbe THEN counted
                                                    ELSE AfterProbe(counted)

\* The learned limit is forgotten.
FaultyCeiling(c) == MaxTargetConcurrency

Ceiling(c) == IF c.concurrency_limit # None THEN c.concurrency_limit
                                            ELSE MaxTargetConcurrency

\* The interval is shortened whatever has been learned.
FaultyGrown(c) ==
    [c EXCEPT !.target = IF @ < Ceiling(c) THEN @ + 1 ELSE @,
              !.interval = AtLeast(MinLaunchInterval,
                                   (@ * SuccessSpeedupPercent) \div 100),
              !.successes = 0]

\* A full streak of successes: one more slot, and a shorter interval as long
\* as no request-rate limit has been learned.
Grown(c) ==
    [c EXCEPT !.target = IF @ < Ceiling(c) THEN @ + 1 ELSE @,
              !.interval = IF c.rpm_limit # None THEN @
                           ELSE AtLeast(MinLaunchInterval,
                                        (@ * SuccessSpeedupPercent) \div 100),
              !.successes = 0]

StreakComplete(c) == c.successes + 1 >= SuccessesBeforeIncrease

OnSuccess(c) ==
    IF c.phase = Probe /\ ~c.structured THEN OnProbeSuccess(c)
    ELSE IF StreakComplete(c) THEN Grown(c)
    ELSE [c EXCEPT !.successes = @ + 1]

-----------------------------------------------------------------------------

VARIABLE controller

CtlInit == controller = Fresh

Succeed == controller' = OnSuccess(controller)

RateLimited(reason, in_flight, launch_rpm) ==
    controller' = OnRateLimited(controller, reason, in_flight, launch_rpm)

\* The scheduler never reports more requests in flight than the largest target
\* (proved in AimdSchedulerProofs).
CtlNext ==
    \/ Succeed
    \/ \E reason \in Reasons, in_flight \in 1..MaxTargetConcurrency,
          launch_rpm \in 1..ObservableRpm :
          RateLimited(reason, in_flight, launch_rpm)

CtlSpec == CtlInit /\ [][CtlNext]_controller

-----------------------------------------------------------------------------

Controllers ==
    [ target : Nat, interval : Nat, phase : Phases, successes : Nat, probes : Nat,
      structured : BOOLEAN, rpm_limit : Nat, concurrency_limit : Nat ]

\* Every field keeps its type, and no counter reaches the threshold that ends it.
CtlTypeOK ==
    /\ controller \in Controllers
    /\ controller.successes < SuccessesBeforeIncrease
    /\ controller.phase = Probe => controller.probes < SuccessesBeforeRpmProbe

\* The target is never 0, which would make run_questions spin without launching
\* anything, and never above max_target_concurrency, the "safety ceiling" of the
\* configuration - although the ceiling used once a limit is learned is that
\* limit, which the code does not clamp.
TargetWithinBounds ==
    controller.target \in 1..MaxTargetConcurrency

\* Once the service has shown that it refuses n requests in flight, no
\* sequence of successes or other limits takes the target back to n.
LearnedCeilingHolds ==
    controller.concurrency_limit # None =>
        controller.target <= controller.concurrency_limit

KnowsNothing(c) == ~c.structured /\ c.rpm_limit = None /\ c.concurrency_limit = None

\* As long as the controller is still probing blindly, it has learned nothing:
\* no structured 429, no limit, no growth of the target.
ProbeIsBlind ==
    controller.phase = Probe =>
        /\ KnowsNothing(controller)
        /\ controller.successes = 0
        /\ controller.target = InitialConcurrency

\* Once a request-rate limit has been learned, the launch interval paces the
\* requests below it, whatever successes and overloads follow - unless
\* max_launch_interval_sec forces a faster pace.
PaceCoversLearnedLimit ==
    controller.rpm_limit # None =>
        controller.interval >= AtMost(MaxLaunchInterval, PaceFor(controller.rpm_limit))

\* Within a run an estimate is never forgotten and never relaxed, and the probe
\* is never entered again.
LearningIsMonotone ==
    [][ /\ controller.rpm_limit # None =>
              controller'.rpm_limit \in 1..controller.rpm_limit
        /\ controller.concurrency_limit # None =>
              controller'.concurrency_limit \in 1..controller.concurrency_limit
        /\ controller.structured => controller'.structured
        /\ controller.phase = Adaptive => controller'.phase = Adaptive ]_controller

\* After the last success of the probe, or the first 429 that is blamed on the rate
\* although it gives no reason.
BlindProbeEnds(c, d) ==
    /\ c.phase = Probe /\ d.phase = Adaptive
    /\ KnowsNothing(c) /\ ~d.structured
    /\ c.probes = SuccessesBeforeRpmProbe - 1 \/ d.rpm_limit # None

\* The increase is additive and earned: one slot at a time, when the probe ends
\* blindly or after a full streak of successes.  A 429 that names its reason ends the
\* probe without a second slot, and no success after it, or after anything else that
\* has been learned, counts as one of the probe.
GrowthIsEarned ==
    [][ /\ controller'.target > controller.target =>
              /\ controller'.target = controller.target + 1
              /\ \/ BlindProbeEnds(controller, controller')
                 \/ /\ controller.phase = Adaptive
                    /\ controller.successes = SuccessesBeforeIncrease - 1
        /\ controller'.probes > controller.probes =>
              controller.phase = Probe /\ KnowsNothing(controller) ]_controller

=============================================================================
