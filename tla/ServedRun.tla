------------------------------ MODULE ServedRun ------------------------------
(***************************************************************************)
(* A run of the fixed scheduler against the inference service: the tasks   *)
(* of FixedScheduler, whose requests InferenceClient.infer sends to the    *)
(* handlers of InferenceService, and the replies it maps to outcomes.      *)
(* Requests and replies take their time.  The client gives up on a request *)
(* after its timeout or an error of the connection; the service does not   *)
(* notice and goes on.                                                     *)
(*                                                                         *)
(* Pauses last as long as Retry-After says, on the clock of the service.   *)
(* The main coroutine, which only collects results, is left out.           *)
(***************************************************************************)
EXTENDS InferenceService

CONSTANTS
    Questions,        \* the questions of the run
    RunConcurrency,   \* max_concurrency of the scheduler
    MaxRetries,       \* max_retries
    Jitter            \* the largest jitter of a pause, in ticks

ASSUME ServedConfig ==
    /\ IsFiniteSet(Questions)
    /\ RunConcurrency \in Nat \ {0}
    /\ MaxRetries \in Nat
    /\ Jitter \in Nat

VARIABLES
    main, task, permits, waiters, paused, results, published,   \* the run
    request,       \* the request of each question, between both processes
    pause_until,
    waited         \* history: the refusal of the rate last waited for

Run == INSTANCE FixedScheduler WITH MaxConcurrency <- RunConcurrency, Faults <- {}

runVars == <<main, task, permits, waiters, paused, results, published>>
between == <<request, pause_until, waited>>
servedVars == <<vars, runVars, between>>

\* none; sent: not arrived; admitted: with its handler; refused, answered: the
\* reply is under way
NoRequest == [at |-> "none", handler |-> {}, outcome |-> "none", refusal |-> NoRefusal]

ServedInit ==
    /\ Init
    /\ Run!Init
    /\ request = [q \in Questions |-> NoRequest]
    /\ pause_until = 0
    /\ waited = NoRefusal

-----------------------------------------------------------------------------
(* The service. *)

Arrive(q, r) ==
    /\ request[q].at = "sent"
    /\ \/ /\ Admit(r)
          /\ request' = [request EXCEPT ![q].at = "admitted", ![q].handler = {r}]
       \/ /\ RpmLimited(r) \/ ConcurrencyLimited(r)
          /\ request' = [request EXCEPT ![q].at = "refused", ![q].refusal = refusal']
    /\ UNCHANGED <<runVars, pause_until, waited>>

\* infer: a reply of the service other than a result is an InferenceHttpError, a
\* connection that is lost an InferenceNetworkError.
OutcomeOf(way_out) == IF way_out = "answered" THEN "success" ELSE "client_error"

\* The slot is released before the reply is sent, to a client that still waits.
HandlerEnds(r, way_out) ==
    /\ Finish(r, way_out)
    /\ request' = [q \in Questions |->
                      IF request[q].handler = {r}
                      THEN [NoRequest EXCEPT !.at = "answered", !.outcome = OutcomeOf(way_out)]
                      ELSE request[q]]
    /\ UNCHANGED <<runVars, pause_until, waited>>

-----------------------------------------------------------------------------
(* The run. *)

\* A task moves, and sends a request when it comes to execute_attempt.
Advance(q) ==
    /\ \/ Run!Start(q) \/ Run!PauseEnds(q) \/ Run!BackoffEnds(q)
       \/ Run!Granted(q) \/ Run!HeldPauseEnds(q)
    /\ request' = [request EXCEPT ![q].at = IF task'[q].stage = "in_flight" THEN "sent" ELSE "none"]
    /\ UNCHANGED <<vars, pause_until, waited>>

\* The header is not read.
FaultyParsed(retry_after) == 1

\* _parse_retry_after of the header as the service writes it, an integer
Parsed(retry_after) == IF retry_after < 1 THEN 1 ELSE retry_after

\* set_global_pause, unless the attempt was the last.
SetGlobalPause(q, refused) ==
    IF task'[q].stage # "pausing" THEN UNCHANGED <<pause_until, waited>>
    ELSE /\ \E jitter \in 0..Jitter :
              LET candidate == now + Parsed(refused.retry_after) * Second + jitter
              IN  pause_until' = IF candidate > pause_until THEN candidate ELSE pause_until
         /\ waited' = IF refused.cause = "rpm" THEN refused ELSE waited

ReceiveReply(q) ==
    /\ \/ /\ request[q].at = "answered"
          /\ Run!Reply(q, request[q].outcome)
          /\ UNCHANGED <<pause_until, waited>>
       \/ /\ request[q].at = "refused"
          /\ Run!Reply(q, "rate_limited")
          /\ SetGlobalPause(q, request[q].refusal)
    /\ request' = [request EXCEPT ![q] = NoRequest]
    /\ UNCHANGED vars

\* TimeoutException or RequestError; the handler, if there is one, goes on.
GiveUp(q) ==
    /\ request[q].at # "none"
    /\ Run!Reply(q, "client_error")
    /\ request' = [request EXCEPT ![q] = NoRequest]
    /\ UNCHANGED <<vars, pause_until, waited>>

PauseElapses ==
    /\ now >= pause_until
    /\ Run!PauseElapses
    /\ UNCHANGED <<vars, between>>

ServedNext ==
    \/ \E q \in Questions :
          \/ Advance(q)
          \/ ReceiveReply(q)
          \/ GiveUp(q)
          \/ \E r \in Requests : Arrive(q, r)
    \/ \E r \in Requests, way_out \in WaysOut : HandlerEnds(r, way_out)
    \/ PauseElapses
    \/ Tick /\ UNCHANGED <<runVars, between>>

ServedSpec == ServedInit /\ [][ServedNext]_servedVars

-----------------------------------------------------------------------------

\* The handlers whose client has given up on them.
Abandoned == generating \ UNION {request[q].handler : q \in Questions}

\* A run whose concurrency is within the limit of the service is never refused for
\* its concurrency, but for the handlers of requests it has given up: an attempt
\* frees its permit after the service has freed its slot.
ArrivalsFindSlots ==
    RunConcurrency <= MaxConcurrency /\ Abandoned = {} =>
        \A q \in Questions : request[q].at = "sent" => HasSlot

\* When a pause for a 429 of the rate is over, and nothing was admitted since, the
\* window has room: the scheduler, which counts from the arrival of the reply in
\* seconds, never runs into the same full window again.
PausesOpenTheWindow ==
    waited.cause = "rpm" /\ ~paused /\ Len(admitted) = waited.admissions =>
        HasRoom(Recent(timestamps))

=============================================================================
