-------------------------- MODULE InferenceService --------------------------
(***************************************************************************)
(* The admission control of the inference service: RpmLimiter and          *)
(* ConcurrencyLimiter (limiters/), and the handler infer                   *)
(* (api/routes/inference.py) that uses both around the call to Ollama.     *)
(*                                                                         *)
(* The locks of the limiters are never held across a suspension, so a      *)
(* handler runs in one step up to its suspension in ollama_client.generate *)
(* and in one step from there to its end.  A request may lose its client   *)
(* (which gives up after its own timeout): the handler does not notice.    *)
(***************************************************************************)
EXTENDS Integers, Sequences, FiniteSets

CONSTANTS
    Requests,         \* requests that may be under way at the same time
    Rpm,              \* rpm
    MaxConcurrency,   \* max_concurrency
    Window,           \* WINDOW_SECONDS, in ticks of the clock
    Second,           \* ticks in a second, the unit of Retry-After
    Horizon           \* bound: the last instant of the clock

\* The constructors of the limiters reject other values.
ASSUME LimitsConfig ==
    /\ Rpm \in Nat \ {0}
    /\ MaxConcurrency \in Nat \ {0}

ASSUME ServiceConfig ==
    /\ IsFiniteSet(Requests)
    /\ Window \in Nat \ {0}
    /\ Second \in Nat \ {0}
    /\ Horizon \in Nat

VARIABLES
    now,          \* the monotonic clock
    in_flight,    \* ConcurrencyLimiter.in_flight
    timestamps,   \* RpmLimiter.timestamps
    generating,   \* the requests whose handler is suspended in generate
    admitted,     \* history: the instants of all admissions
    refusal       \* history: the last 429

vars == <<now, in_flight, timestamps, generating, admitted, refusal>>

NoRefusal == [cause |-> "none", at |-> 0, retry_after |-> 1,
              admissions |-> 0, generating |-> 0]

Init ==
    /\ now = 0
    /\ in_flight = 0
    /\ timestamps = <<>>
    /\ generating = {}
    /\ admitted = <<>>
    /\ refusal = NoRefusal

-----------------------------------------------------------------------------
(* The limiters. *)

\* `<' in place of `<='.
FaultyIsOld(t) == t < now - Window

IsOld(t) == t <= now - Window

\* The loop of popleft stops at the first entry that is not old.
Expired(ts) ==
    CHOOSE n \in 0..Len(ts) :
        /\ \A i \in 1..n : IsOld(ts[i])
        /\ n < Len(ts) => ~IsOld(ts[n + 1])

Recent(ts) == SubSeq(ts, Expired(ts) + 1, Len(ts))

FaultyHasRoom(ts) == Len(ts) <= Rpm

HasRoom(ts) == Len(ts) < Rpm

\* Rounded down.
FaultyRetryAfterFloor(oldest) ==
    IF (Window - (now - oldest)) \div Second < 1 THEN 1
    ELSE (Window - (now - oldest)) \div Second

\* max(1, ceil(what is left of the window)), in seconds
RetryAfter(oldest) ==
    LET seconds == (Window - (now - oldest) + Second - 1) \div Second
    IN  IF seconds < 1 THEN 1 ELSE seconds

HasSlot == in_flight < MaxConcurrency

Acquired(n) == n + 1

\* The return for an exhausted window is outside the try statement.
FaultyReleased(n, way_out) == IF way_out = "rpm_limited" THEN n ELSE n - 1

\* release, in a finally clause; without an acquisition it raises.
Released(n, way_out) == IF n <= 0 THEN n ELSE n - 1

-----------------------------------------------------------------------------
(* The handler. *)

Refuse(cause, retry_after) ==
    refusal' = [cause |-> cause, at |-> now, retry_after |-> retry_after,
                admissions |-> Len(admitted),
                generating |-> Cardinality(generating)]

ConcurrencyLimited(r) ==
    /\ r \notin generating
    /\ ~HasSlot
    /\ Refuse("concurrency", 1)
    /\ UNCHANGED <<now, in_flight, timestamps, generating, admitted>>

RpmLimited(r) ==
    /\ r \notin generating
    /\ HasSlot
    /\ ~HasRoom(Recent(timestamps))
    /\ timestamps' = Recent(timestamps)
    /\ in_flight' = Released(Acquired(in_flight), "rpm_limited")
    /\ Refuse("rpm", RetryAfter(Recent(timestamps)[1]))
    /\ UNCHANGED <<now, generating, admitted>>

Admit(r) ==
    /\ r \notin generating
    /\ HasSlot
    /\ HasRoom(Recent(timestamps))
    /\ timestamps' = Append(Recent(timestamps), now)
    /\ in_flight' = Acquired(in_flight)
    /\ generating' = generating \cup {r}
    /\ admitted' = Append(admitted, now)
    /\ UNCHANGED <<now, refusal>>

\* An answer, a 503 for an error or a timeout of Ollama, a 500 for any other
\* exception, or the cancellation of the handler.
WaysOut == {"answered", "unavailable", "failed", "cancelled"}

Finish(r, way_out) ==
    /\ r \in generating
    /\ generating' = generating \ {r}
    /\ in_flight' = Released(in_flight, way_out)
    /\ UNCHANGED <<now, timestamps, admitted, refusal>>

Tick ==
    /\ now < Horizon
    /\ now' = now + 1
    /\ UNCHANGED <<in_flight, timestamps, generating, admitted, refusal>>

Next ==
    \/ \E r \in Requests :
          \/ ConcurrencyLimited(r)
          \/ RpmLimited(r)
          \/ Admit(r)
          \/ \E way_out \in WaysOut : Finish(r, way_out)
    \/ Tick

Spec == Init /\ [][Next]_vars

-----------------------------------------------------------------------------

\* Every variable keeps its type; Retry-After is at least a second and at most
\* the window, rounded up to seconds.
TypeOK ==
    /\ now \in 0..Horizon
    /\ in_flight \in 0..MaxConcurrency
    /\ timestamps \in Seq(0..now) /\ Len(timestamps) <= Rpm
    /\ generating \subseteq Requests
    /\ admitted \in Seq(0..now)
    /\ refusal \in [cause : {"none", "rpm", "concurrency"}, at : 0..now,
                    retry_after : 1..(Window + Second), admissions : 0..Len(admitted),
                    generating : 0..MaxConcurrency]

\* "Concurrency capacity is always released" (README of the service), once and
\* on every way out, and only by those that acquired it.
SlotsMatchHandlers == in_flight = Cardinality(generating)

\* "Never admit more than the configured concurrency": what Ollama sees.
BackendBounded == Cardinality(generating) <= MaxConcurrency

\* "Strict enforcement over any rolling 60-second interval": an admission and the
\* one Rpm later are at least a window apart, over all that was ever admitted.
StrictRpm ==
    \A i \in DOMAIN admitted :
        i + Rpm \in DOMAIN admitted => admitted[i + Rpm] - admitted[i] >= Window

\* "Retry-After is consistent with the rolling window": a refused client that
\* waits that long finds room, unless others were admitted meanwhile, and would
\* not have found any more than a second earlier.
RetryAfterIsExact ==
    refusal.cause = "rpm" /\ Len(admitted) = refusal.admissions =>
        /\ now >= refusal.at + refusal.retry_after * Second =>
             HasRoom(Recent(timestamps))
        /\ now < refusal.at + (refusal.retry_after - 1) * Second =>
             ~HasRoom(Recent(timestamps))

\* "Capacity available -> admit": only a full window or full concurrency refuses,
\* and a refused request uses nothing up.
RefusalsAreEarned ==
    /\ refusal.cause = "rpm" =>
         Cardinality({i \in 1..refusal.admissions :
                        admitted[i] > refusal.at - Window}) = Rpm
    /\ refusal.cause = "concurrency" => refusal.generating = MaxConcurrency

=============================================================================
