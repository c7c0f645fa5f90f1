--------------------------- MODULE ServedRunProofs ---------------------------
(***************************************************************************)
(* Proofs about a run against the inference service, for every limit of    *)
(* either: the service behaves as InferenceService and the run as          *)
(* FixedScheduler, so that what is proved of each holds between them too;  *)
(* and the two properties that need both.                                  *)
(***************************************************************************)
EXTENDS ServedRun, InferenceServiceProofs

RunProofs == INSTANCE FixedSchedulerProofs WITH MaxConcurrency <- RunConcurrency, Faults <- {}

Refusals == [cause : {"none", "rpm", "concurrency"}, at : Nat, retry_after : Nat,
             admissions : Nat, generating : Nat]

RequestStates == [at : {"none", "sent", "admitted", "refused", "answered"},
                  handler : SUBSET Requests,
                  outcome : {"none", "success", "client_error"},
                  refusal : Refusals]

\* Every request in flight is somewhere between both processes, and only those;
\* it has one handler, from its admission to its reply.
Exchange ==
    /\ request \in [Questions -> RequestStates]
    /\ \A q \in Questions :
          /\ request[q].at = "none" <=> task[q].stage # "in_flight"
          /\ request[q].at = "answered" => request[q].outcome # "none"
          /\ request[q].handler # {} => request[q].at = "admitted"
          /\ \A r, s \in request[q].handler : r = s

\* The window that x was refused for is still full, unless another request was
\* admitted, and opens within the wait that x announced.
KeptAt(x, time, admissions, window) ==
    /\ x.at <= time
    /\ x.admissions <= admissions
    /\ x.cause = "rpm" /\ x.admissions = admissions =>
         /\ Len(window) = Rpm
         /\ Left(window[1], x.at) <= x.retry_after * Second

Kept(x) == KeptAt(x, now, Len(admitted), timestamps)

\* The pause lasts at least until the wait announced is over.
Pausing ==
    /\ pause_until \in Nat
    /\ waited \in Refusals
    /\ waited.cause = "rpm" => waited.at + waited.retry_after * Second <= pause_until
    /\ ~paused => pause_until <= now
    /\ Kept(waited)
    /\ \A q \in Questions : Kept(request[q].refusal)

\* The inductive invariant.
ServedInv == ServiceInv /\ RunProofs!RunInv /\ Exchange /\ Pausing

-----------------------------------------------------------------------------
(* The parts are those of the other modules. *)

\* The number of elements is the same in the instance.
LEMMA SameCardinality ==
    /\ \A S : RunProofs!IsFiniteSet(S) = IsFiniteSet(S)
    /\ \A S : RunProofs!Cardinality(S) = Cardinality(S)
<1>1. \A S : RunProofs!IsFiniteSet(S) = IsFiniteSet(S)
  BY DEF IsFiniteSet, RunProofs!IsFiniteSet
<1>2. \A S : RunProofs!Cardinality(S) = Cardinality(S)
  BY DEF Cardinality, RunProofs!Cardinality, IsFiniteSet, RunProofs!IsFiniteSet
<1> QED BY <1>1, <1>2

\* The configuration of the run is one of FixedScheduler.
LEMMA RunConfig ==
    /\ RunProofs!IsFiniteSet(Questions)
    /\ RunConcurrency \in Nat \ {0}
    /\ MaxRetries \in Nat
    /\ {} \subseteq {"raised", "publish"}
BY ServedConfig, SameCardinality

LEMMA SameTaskSteps ==
    ASSUME NEW q \in Questions
    PROVE  /\ Run!Start(q) => RunProofs!Start(q)
           /\ Run!PauseEnds(q) => RunProofs!PauseEnds(q)
           /\ Run!BackoffEnds(q) => RunProofs!BackoffEnds(q)
           /\ Run!Granted(q) => RunProofs!Granted(q)
           /\ Run!HeldPauseEnds(q) => RunProofs!HeldPauseEnds(q)
           /\ \A outcome : Run!Reply(q, outcome) => RunProofs!Reply(q, outcome)
<1>1. Run!Start(q) => RunProofs!Start(q)
  BY DEF Run!Start, RunProofs!Start, Run!BeginAttempt, RunProofs!BeginAttempt, Run!At,
         RunProofs!At, Run!TaskUnchanged, RunProofs!TaskUnchanged
<1>2. Run!PauseEnds(q) => RunProofs!PauseEnds(q)
  BY DEF Run!PauseEnds, RunProofs!PauseEnds, Run!BeginAttempt, RunProofs!BeginAttempt, Run!At,
         RunProofs!At, Run!TaskUnchanged, RunProofs!TaskUnchanged
<1>3. Run!BackoffEnds(q) => RunProofs!BackoffEnds(q)
  BY DEF Run!BackoffEnds, RunProofs!BackoffEnds, Run!BeginAttempt, RunProofs!BeginAttempt, Run!At,
         RunProofs!At, Run!TaskUnchanged, RunProofs!TaskUnchanged
<1>4. Run!Granted(q) => RunProofs!Granted(q)
  BY DEF Run!Granted, RunProofs!Granted, Run!StageAfterGrant, RunProofs!StageAfterGrant,
         Run!At, RunProofs!At, Run!TaskUnchanged, RunProofs!TaskUnchanged
<1>5. Run!HeldPauseEnds(q) => RunProofs!HeldPauseEnds(q)
  BY DEF Run!HeldPauseEnds, RunProofs!HeldPauseEnds, Run!At, RunProofs!At,
         Run!TaskUnchanged, RunProofs!TaskUnchanged
<1>6. ASSUME NEW outcome, Run!Reply(q, outcome)
      PROVE  RunProofs!Reply(q, outcome)
  BY <1>6
     DEF Run!Reply, RunProofs!Reply, Run!TasksStarted, RunProofs!TasksStarted, Run!At, RunProofs!At,
         Run!Release, RunProofs!Release, Run!IsLast, RunProofs!IsLast, Run!MaxAttempts,
         RunProofs!MaxAttempts, Run!TaskUnchanged, RunProofs!TaskUnchanged
<1> QED BY <1>1, <1>2, <1>3, <1>4, <1>5, <1>6

\* A step of both is one of the service, or leaves it as it is.
LEMMA ServiceStep == [ServedNext]_servedVars => [Next]_vars
<1> SUFFICES ASSUME [ServedNext]_servedVars PROVE Next \/ UNCHANGED vars
  OBVIOUS
<1>1. ASSUME NEW q \in Questions, NEW r \in Requests, Arrive(q, r)
      PROVE  Next
  BY <1>1 DEF Arrive, Next
<1>2. ASSUME NEW r \in Requests, NEW way_out \in WaysOut, HandlerEnds(r, way_out)
      PROVE  Next
  BY <1>2 DEF HandlerEnds, Next
<1>3. ASSUME NEW q \in Questions, Advance(q) \/ ReceiveReply(q) \/ GiveUp(q)
      PROVE  UNCHANGED vars
  BY <1>3 DEF Advance, ReceiveReply, GiveUp
<1>4. PauseElapses \/ Tick \/ UNCHANGED servedVars => Next \/ UNCHANGED vars
  BY DEF PauseElapses, Next, servedVars
<1> QED BY <1>1, <1>2, <1>3, <1>4 DEF ServedNext

\* A step of both is one of the run, or leaves it as it is.
LEMMA RunStep == Exchange /\ [ServedNext]_servedVars => [RunProofs!Next]_runVars
<1> SUFFICES ASSUME Exchange, [ServedNext]_servedVars PROVE RunProofs!Next \/ UNCHANGED runVars
  OBVIOUS
<1>1. ASSUME NEW q \in Questions, Advance(q)
      PROVE  RunProofs!Next
  <2>1. RunProofs!TaskStep(q)
    BY <1>1, SameTaskSteps DEF Advance, RunProofs!TaskStep
  <2> QED BY <2>1 DEF RunProofs!Next
<1>2. ASSUME NEW q \in Questions, ReceiveReply(q) \/ GiveUp(q)
      PROVE  RunProofs!Next
  <2>1. \E outcome \in {"success", "client_error", "rate_limited"} : Run!Reply(q, outcome)
    BY <1>2 DEF ReceiveReply, GiveUp, Exchange, RequestStates
  <2>2. RunProofs!TaskStep(q)
    BY <2>1, SameTaskSteps DEF RunProofs!TaskStep, RunProofs!Outcomes
  <2> QED BY <2>2 DEF RunProofs!Next
<1>3. PauseElapses => RunProofs!Next
  BY DEF PauseElapses, Run!PauseElapses, RunProofs!PauseElapses, RunProofs!Next
<1>4. ASSUME NEW q \in Questions, NEW r \in Requests, Arrive(q, r)
      PROVE  UNCHANGED runVars
  BY <1>4 DEF Arrive
<1>5. ASSUME NEW r \in Requests, NEW way_out \in WaysOut, HandlerEnds(r, way_out)
      PROVE  UNCHANGED runVars
  BY <1>5 DEF HandlerEnds
<1>6. CASE Tick /\ UNCHANGED <<runVars, between>>
  BY <1>6
<1>7. CASE UNCHANGED servedVars
  BY <1>7 DEF servedVars
<1> QED BY <1>1, <1>2, <1>3, <1>4, <1>5, <1>6, <1>7 DEF ServedNext

-----------------------------------------------------------------------------
(* The invariant. *)

\* What a refusal announced stays true, whatever the service does.
LEMMA StaysKept ==
    ASSUME ServiceInv, [Next]_vars, NEW x \in Refusals, KeptAt(x, now, Len(admitted), timestamps)
    PROVE  KeptAt(x, now', Len(admitted'), timestamps')
<1>1. /\ Typed /\ Ordered /\ Covers(timestamps) /\ now \in Nat /\ Len(admitted) \in Nat
      /\ admitted \in Seq(Nat) /\ x.at \in Nat /\ x.admissions \in Nat
  BY ServiceConfig DEF ServiceInv, Typed, Refusals
<1>2. ASSUME NEW r \in Requests, RpmLimited(r)
      PROVE  timestamps' = timestamps
  <2>1. /\ ~HasRoom(Recent(timestamps)) /\ timestamps' = Recent(timestamps)
        /\ Rpm \in Nat /\ Len(timestamps) <= Rpm /\ Len(timestamps) \in Nat
    BY <1>1, <1>2, LimitsConfig DEF RpmLimited, Covers
  <2>2. /\ Len(Recent(timestamps)) = Len(timestamps) - Expired(timestamps)
        /\ Expired(timestamps) = 0 => Recent(timestamps) = timestamps
        /\ Expired(timestamps) \in 0..Len(timestamps)
    BY <1>1, RecentEntries, ExpiredEntries
  <2> QED BY <2>1, <2>2 DEF HasRoom
<1>3. ASSUME NEW r \in Requests, Admit(r)
      PROVE  Len(admitted') = Len(admitted) + 1 /\ now' = now
  BY <1>1, <1>3 DEF Admit
<1>4. CASE UNCHANGED <<now, admitted, timestamps>>
  BY <1>4
<1>5. ASSUME NEW r \in Requests, ConcurrencyLimited(r)
      PROVE  UNCHANGED <<now, admitted, timestamps>>
  BY <1>5 DEF ConcurrencyLimited
<1>6. ASSUME NEW r \in Requests, RpmLimited(r)
      PROVE  UNCHANGED <<now, admitted, timestamps>>
  BY <1>2, <1>6 DEF RpmLimited
<1>7. ASSUME NEW r \in Requests, NEW way_out \in WaysOut, Finish(r, way_out)
      PROVE  UNCHANGED <<now, admitted, timestamps>>
  BY <1>7 DEF Finish
<1>8. CASE \E r \in Requests : Admit(r)
  BY <1>1, <1>3, <1>8 DEF KeptAt
<1>9. CASE Tick
  BY <1>1, <1>9 DEF Tick, KeptAt
<1>10. CASE UNCHANGED vars
  BY <1>4, <1>10 DEF vars
<1> QED BY <1>4, <1>5, <1>6, <1>7, <1>8, <1>9, <1>10 DEF Next

\* The last refusal of the service.
LEMMA RefusalKept == ServiceInv => Kept(refusal) /\ refusal \in Refusals
<1> SUFFICES ASSUME ServiceInv PROVE Kept(refusal) /\ refusal \in Refusals
  OBVIOUS
<1>1. Promised /\ refusal \in Refusals
  BY DEF ServiceInv, Typed, Refusals
<1> QED BY <1>1 DEF Promised, Kept, KeptAt

\* A task whose stage is s has a request under way exactly if it is in flight.
LEMMA TaskAt ==
    ASSUME RunProofs!RunInv, NEW q \in Questions, NEW s, NEW a, RunProofs!At(q, s, a)
    PROVE  task'[q].stage = s /\ \A p \in Questions : p # q => task'[p] = task[p]
BY DEF RunProofs!RunInv, RunProofs!TypeOK, RunProofs!At

LEMMA AdvanceExchange ==
    ASSUME RunProofs!RunInv, Exchange, NEW q \in Questions, Advance(q)
    PROVE  Exchange'
<1>1. \E s, a : RunProofs!At(q, s, a)
  BY SameTaskSteps
     DEF Advance, RunProofs!Start, RunProofs!PauseEnds, RunProofs!BackoffEnds, RunProofs!Granted,
         RunProofs!HeldPauseEnds, RunProofs!BeginAttempt
<1>2. \A p \in Questions : p # q => task'[p] = task[p]
  BY <1>1, TaskAt
<1>3. task[q].stage # "in_flight"
  <2>1. RunProofs!Granted(q) => task[q].stage = "waiting"
    BY DEF RunProofs!Granted, RunProofs!RunInv, RunProofs!Queueing, RunProofs!TypeOK
  <2> QED BY <2>1, SameTaskSteps DEF Advance, RunProofs!Start, RunProofs!PauseEnds,
             RunProofs!BackoffEnds, RunProofs!HeldPauseEnds
<1>4. request' = [request EXCEPT ![q].at = IF task'[q].stage = "in_flight" THEN "sent" ELSE "none"]
  BY DEF Advance
<1>5. request[q].at = "none" /\ request[q].handler = {}
  BY <1>3 DEF Exchange
<1>6. /\ request'[q].at = IF task'[q].stage = "in_flight" THEN "sent" ELSE "none"
      /\ request'[q].handler = {}
      /\ \A p \in Questions : p # q => request'[p] = request[p]
      /\ request' \in [Questions -> RequestStates]
  BY <1>4, <1>5 DEF Exchange, RequestStates
<1> QED BY <1>2, <1>6 DEF Exchange

LEMMA ReplyExchange ==
    ASSUME RunProofs!RunInv, Exchange, NEW q \in Questions, ReceiveReply(q) \/ GiveUp(q)
    PROVE  Exchange'
<1>1. /\ \E outcome : Run!Reply(q, outcome)
      /\ request' = [request EXCEPT ![q] = NoRequest]
  BY DEF ReceiveReply, GiveUp
<1>2. LET a == task[q].attempt IN
      \/ RunProofs!At(q, "success", a) \/ RunProofs!At(q, "raised", a)
      \/ RunProofs!At(q, "failed", a) \/ RunProofs!At(q, "backoff", a)
      \/ RunProofs!At(q, "pausing", a + 1)
  BY <1>1, SameTaskSteps DEF RunProofs!Reply
<1>3. task'[q].stage # "in_flight" /\ \A p \in Questions : p # q => task'[p] = task[p]
  BY <1>2, TaskAt
<1>4. NoRequest \in RequestStates
  BY DEF NoRequest, NoRefusal, Refusals, RequestStates
<1>5. /\ request' \in [Questions -> RequestStates]
      /\ request'[q] = NoRequest
      /\ \A p \in Questions : p # q => request'[p] = request[p]
  BY <1>1, <1>4 DEF Exchange
<1> QED BY <1>3, <1>5 DEF Exchange, NoRequest

LEMMA ServiceExchange ==
    ASSUME ServiceInv', RunProofs!RunInv, Exchange,
           \/ \E q \in Questions, r \in Requests : Arrive(q, r)
           \/ \E r \in Requests, way_out \in WaysOut : HandlerEnds(r, way_out)
    PROVE  Exchange'
<1>1. ASSUME NEW q \in Questions, NEW r \in Requests, Arrive(q, r)
      PROVE  Exchange'
  <2>1. task' = task /\ request[q].at = "sent"
    BY <1>1 DEF Arrive, runVars
  <2>2. refusal' \in Refusals
    BY DEF ServiceInv, Typed, Refusals
  <2> DEFINE admittance == [request[q] EXCEPT !.at = "admitted", !.handler = {r}]
             turndown == [request[q] EXCEPT !.at = "refused", !.refusal = refusal']
  <2>3. \E new \in {admittance, turndown} : request' = [request EXCEPT ![q] = new]
    BY <1>1 DEF Arrive
  <2>4. /\ admittance \in RequestStates /\ admittance.at = "admitted" /\ admittance.handler = {r}
        /\ turndown \in RequestStates /\ turndown.at = "refused" /\ turndown.handler = {}
    BY <2>1, <2>2 DEF Exchange, RequestStates
  <2> HIDE DEF admittance, turndown
  <2>5. /\ request' \in [Questions -> RequestStates]
        /\ request'[q] \in {admittance, turndown}
        /\ \A p \in Questions : p # q => request'[p] = request[p]
    BY <2>3, <2>4 DEF Exchange
  <2> QED BY <2>1, <2>4, <2>5 DEF Exchange
<1>2. ASSUME NEW r \in Requests, NEW way_out \in WaysOut, HandlerEnds(r, way_out)
      PROVE  Exchange'
  <2>1. /\ task' = task
        /\ request' = [q \in Questions |->
                        IF request[q].handler = {r}
                        THEN [NoRequest EXCEPT !.at = "answered", !.outcome = OutcomeOf(way_out)]
                        ELSE request[q]]
    BY <1>2 DEF HandlerEnds, runVars
  <2>2. OutcomeOf(way_out) \in {"success", "client_error"}
    BY DEF OutcomeOf
  <2> DEFINE reply == [NoRequest EXCEPT !.at = "answered", !.outcome = OutcomeOf(way_out)]
  <2>3. /\ reply \in RequestStates
        /\ reply.at = "answered" /\ reply.handler = {} /\ reply.outcome # "none"
    BY <2>2 DEF NoRequest, NoRefusal, Refusals, RequestStates
  <2> HIDE DEF reply
  <2>4. \A q \in Questions : request[q].handler = {r} => request[q].at = "admitted"
    BY DEF Exchange
  <2> QED BY <2>1, <2>3, <2>4 DEF Exchange, reply
<1> QED BY <1>1, <1>2

\* What every step leaves of Pausing: the waits that are remembered.
LEMMA WaitsKept ==
    ASSUME ServiceInv, ServiceInv', Exchange, Exchange', Pausing, [ServedNext]_servedVars,
           waited' \in {waited} \cup {request[q].refusal : q \in Questions},
           \A q \in Questions :
              request'[q].refusal \in {request[q].refusal, NoRefusal, refusal'}
    PROVE  /\ waited' \in Refusals
           /\ Kept(waited)'
           /\ \A q \in Questions : Kept(request[q].refusal)'
<1>1. /\ now' \in Nat /\ Len(admitted') \in Nat
      /\ refusal' \in Refusals
      /\ KeptAt(refusal', now', Len(admitted'), timestamps')
  <2>1. Typed' /\ Promised'
    BY DEF ServiceInv
  <2>2. /\ now' \in Nat /\ admitted' \in Seq(Nat) /\ refusal' \in Refusals
    BY <2>1, ServiceConfig DEF Typed, Refusals
  <2>3. Len(admitted') \in Nat
    BY <2>2
  <2>4. KeptAt(refusal', now', Len(admitted'), timestamps')
    BY <2>1, <2>2, <2>3 DEF Promised, KeptAt
  <2> QED BY <2>2, <2>3, <2>4
<1>2. \A x \in Refusals : Kept(x) => KeptAt(x, now', Len(admitted'), timestamps')
  BY StaysKept, ServiceStep DEF Kept
<1>3. KeptAt(NoRefusal, now', Len(admitted'), timestamps')
  BY <1>1 DEF NoRefusal, KeptAt
<1>4. waited \in Refusals /\ \A q \in Questions : request[q].refusal \in Refusals
  BY DEF Pausing, Exchange, RequestStates
<1>5. /\ waited' \in Refusals
      /\ KeptAt(waited', now', Len(admitted'), timestamps')
  BY <1>2, <1>4 DEF Pausing
<1>6. \A q \in Questions : KeptAt(request'[q].refusal, now', Len(admitted'), timestamps')
  BY <1>1, <1>2, <1>3, <1>4 DEF Pausing
<1> QED BY <1>5, <1>6 DEF Kept

\* Every step that sets no pause, and does not end one before its time.
LEMMA SamePause ==
    ASSUME ServiceInv, ServiceInv', Exchange, Exchange', Pausing, [ServedNext]_servedVars,
           UNCHANGED <<pause_until, waited>>, now' >= now,
           paused' = paused \/ now >= pause_until,
           \A q \in Questions :
              request'[q].refusal \in {request[q].refusal, NoRefusal, refusal'}
    PROVE  Pausing'
<1>1. /\ waited' \in Refusals
      /\ Kept(waited)'
      /\ \A q \in Questions : Kept(request[q].refusal)'
  BY WaitsKept
<1>2. now \in Nat /\ now' \in Nat /\ pause_until \in Nat
  BY ServiceConfig DEF ServiceInv, Typed, Pausing
<1> QED BY <1>1, <1>2 DEF Pausing

LEMMA ReplyPausing ==
    ASSUME ServedInv, ServiceInv', Exchange', NEW q \in Questions, ReceiveReply(q) \/ GiveUp(q)
    PROVE  Pausing'
<1>1. /\ ServiceInv /\ RunProofs!RunInv /\ Exchange /\ Pausing /\ UNCHANGED vars
      /\ now' = now /\ [ServedNext]_servedVars
      /\ request' = [request EXCEPT ![q] = NoRequest]
  BY DEF ServedInv, ReceiveReply, GiveUp, ServedNext, vars
<1>2. \A p \in Questions : request'[p].refusal \in {request[p].refusal, NoRefusal}
  BY <1>1 DEF Exchange, NoRequest
<1>3. now \in Nat /\ now >= now /\ Second \in Nat /\ Jitter \in Nat
  BY <1>1, ServiceConfig, ServedConfig DEF ServiceInv, Typed
<1>4. CASE UNCHANGED <<pause_until, waited, paused>>
  BY <1>1, <1>2, <1>3, <1>4, SamePause
<1>5. ASSUME NEW outcome \in {"success", "client_error"}, Run!Reply(q, outcome)
      PROVE  paused' = paused
  BY <1>5 DEF Run!Reply
<1>6. CASE request[q].at = "refused" /\ Run!Reply(q, "rate_limited")
           /\ SetGlobalPause(q, request[q].refusal)
  <2>1. CASE UNCHANGED <<pause_until, waited>> /\ task'[q].stage # "pausing"
    <3>1. RunProofs!Reply(q, "rate_limited")
      BY <1>6, SameTaskSteps
    <3>2. paused' = paused
      BY <1>1, <2>1, <3>1, TaskAt DEF RunProofs!Reply
    <3> QED BY <1>4, <2>1, <3>2
  <2>2. CASE task'[q].stage = "pausing"
    <3> DEFINE refused == request[q].refusal
    <3>1. PICK jitter \in 0..Jitter :
            LET candidate == now + Parsed(refused.retry_after) * Second + jitter
            IN  pause_until' = IF candidate > pause_until THEN candidate ELSE pause_until
      BY <1>6, <2>2 DEF SetGlobalPause
    <3>2. waited' = IF refused.cause = "rpm" THEN refused ELSE waited
      BY <1>6, <2>2 DEF SetGlobalPause
    <3>3. paused' = TRUE
      <4>1. RunProofs!Reply(q, "rate_limited")
        BY <1>6, SameTaskSteps
      <4> QED BY <1>1, <2>2, <4>1, TaskAt DEF RunProofs!Reply
    <3>4. /\ waited' \in Refusals
          /\ Kept(waited)'
          /\ \A p \in Questions : Kept(request[p].refusal)'
      BY <1>1, <1>2, <3>2, WaitsKept
    <3>5. /\ refused \in Refusals /\ refused.at \in Nat /\ refused.retry_after \in Nat
          /\ refused.at <= now
      BY <1>1 DEF Exchange, RequestStates, Refusals, Pausing, Kept, KeptAt
    <3>6. waited \in Refusals /\ waited.at \in Nat /\ waited.retry_after \in Nat
          /\ pause_until \in Nat
      BY <1>1 DEF Pausing, Refusals
    <3>7. /\ refused.retry_after * Second \in Nat /\ waited.retry_after * Second \in Nat
          /\ Parsed(refused.retry_after) * Second \in Nat
          /\ refused.retry_after * Second <= Parsed(refused.retry_after) * Second
      <4>1. CASE refused.retry_after < 1
        BY <1>3, <3>5, <3>6, <4>1 DEF Parsed
      <4>2. CASE refused.retry_after >= 1
        BY <1>3, <3>5, <3>6, <4>2 DEF Parsed
      <4> QED BY <3>5, <4>1, <4>2
    <3>8. /\ pause_until' \in Nat /\ pause_until' >= pause_until
          /\ pause_until' >= refused.at + refused.retry_after * Second
      <4> HIDE DEF refused
      <4> QED BY <1>3, <3>1, <3>5, <3>6, <3>7
    <3>9. waited'.cause = "rpm" => waited'.at + waited'.retry_after * Second <= pause_until'
      <4>1. CASE waited' = refused
        BY <3>8, <4>1
      <4>2. CASE waited' = waited
        BY <1>1, <3>6, <3>7, <3>8, <4>2 DEF Pausing
      <4> QED BY <3>2, <4>1, <4>2
    <3> QED BY <3>3, <3>4, <3>8, <3>9 DEF Pausing
  <2> QED BY <1>6, <2>1, <2>2 DEF SetGlobalPause
<1>7. request[q].at = "answered" => request[q].outcome \in {"success", "client_error"}
  BY <1>1 DEF Exchange, RequestStates
<1> QED BY <1>4, <1>5, <1>6, <1>7 DEF ReceiveReply, GiveUp

LEMMA ServedInitInv == ServedInit => ServedInv
<1> SUFFICES ASSUME ServedInit PROVE ServedInv
  OBVIOUS
<1>1. ServiceInv
  BY InitInv DEF ServedInit
<1>2. RunProofs!Init
  BY DEF ServedInit, Run!Init, RunProofs!Init
<1>3. RunProofs!RunInv
  BY <1>2, RunConfig, RunProofs!InitInv
<1>4. Exchange
  <2>1. NoRequest \in RequestStates
    BY DEF NoRequest, NoRefusal, Refusals, RequestStates
  <2>2. \A q \in Questions : request[q] = NoRequest /\ task[q].stage = "created"
    BY DEF ServedInit, Run!Init
  <2>3. NoRequest.at = "none" /\ NoRequest.handler = {}
    BY DEF NoRequest
  <2> QED BY <2>1, <2>2, <2>3 DEF Exchange, ServedInit
<1>5. Pausing
  <2>1. now = 0 /\ admitted = <<>> /\ pause_until = 0 /\ waited = NoRefusal
        /\ \A q \in Questions : request[q].refusal = NoRefusal
    BY DEF ServedInit, Init, NoRequest
  <2>2. NoRefusal \in Refusals /\ NoRefusal.cause = "none" /\ Kept(NoRefusal)
    BY <2>1 DEF NoRefusal, Refusals, Kept, KeptAt
  <2> QED BY <2>1, <2>2 DEF Pausing
<1> QED BY <1>1, <1>3, <1>4, <1>5 DEF ServedInv

LEMMA ServedNextInv == ServedInv /\ [ServedNext]_servedVars => ServedInv'
<1> SUFFICES ASSUME ServedInv, [ServedNext]_servedVars PROVE ServedInv'
  OBVIOUS
<1>1. ServiceInv /\ RunProofs!RunInv /\ Exchange /\ Pausing
  BY DEF ServedInv
<1>2. ServiceInv'
  BY <1>1, ServiceStep, NextKeepsService
<1>3. RunProofs!RunInv'
  BY <1>1, RunStep, RunConfig, RunProofs!NextInv DEF runVars, RunProofs!vars
<1>4. now \in Nat /\ now >= now
  BY <1>1, ServiceConfig DEF ServiceInv, Typed
<1>5. ASSUME NEW q \in Questions, Advance(q)
      PROVE  Exchange' /\ Pausing'
  <2>1. Exchange'
    BY <1>1, <1>5, AdvanceExchange
  <2>2. /\ UNCHANGED <<pause_until, waited, now>>
        /\ \A p \in Questions : request'[p].refusal = request[p].refusal
    BY <1>1, <1>5 DEF Advance, Exchange, RequestStates, vars
  <2>3. paused' = paused
    BY <1>5, SameTaskSteps
       DEF Advance, RunProofs!Start, RunProofs!PauseEnds, RunProofs!BackoffEnds, RunProofs!Granted,
           RunProofs!HeldPauseEnds, RunProofs!BeginAttempt
  <2> QED BY <1>1, <1>2, <1>4, <2>1, <2>2, <2>3, SamePause
<1>6. ASSUME NEW q \in Questions, ReceiveReply(q) \/ GiveUp(q)
      PROVE  Exchange' /\ Pausing'
  BY <1>1, <1>2, <1>6, ReplyExchange, ReplyPausing
<1>7. ASSUME NEW q \in Questions, NEW r \in Requests, Arrive(q, r)
      PROVE  Exchange' /\ Pausing'
  <2>1. Exchange'
    BY <1>1, <1>2, <1>7, ServiceExchange
  <2>2. UNCHANGED <<pause_until, waited, paused, now>>
    BY <1>7 DEF Arrive, runVars, Admit, RpmLimited, ConcurrencyLimited
  <2>3. \A p \in Questions : request'[p].refusal \in {request[p].refusal, refusal'}
    BY <1>1, <1>7 DEF Arrive, Exchange, RequestStates
  <2> QED BY <1>1, <1>2, <1>4, <2>1, <2>2, <2>3, SamePause
<1>8. ASSUME NEW r \in Requests, NEW way_out \in WaysOut, HandlerEnds(r, way_out)
      PROVE  Exchange' /\ Pausing'
  <2>1. Exchange'
    BY <1>1, <1>2, <1>8, ServiceExchange
  <2>2. UNCHANGED <<pause_until, waited, paused, now>>
    BY <1>8 DEF HandlerEnds, runVars, Finish
  <2>3. \A p \in Questions : request'[p].refusal \in {request[p].refusal, NoRefusal}
    BY <1>8 DEF HandlerEnds, NoRequest
  <2> QED BY <1>1, <1>2, <1>4, <2>1, <2>2, <2>3, SamePause
<1>9. ASSUME UNCHANGED <<request, pause_until, waited, task>>, now' >= now,
             paused' = paused \/ now >= pause_until
      PROVE  Exchange' /\ Pausing'
  <2>1. Exchange'
    BY <1>1, <1>9 DEF Exchange
  <2>2. \A p \in Questions : request'[p].refusal = request[p].refusal
    BY <1>9
  <2> QED BY <1>1, <1>2, <1>9, <2>1, <2>2, SamePause
<1>10. PauseElapses => /\ UNCHANGED <<request, pause_until, waited, task, now>>
                       /\ now >= pause_until
  BY DEF PauseElapses, between, vars, Run!PauseElapses
<1>11. Tick /\ UNCHANGED <<runVars, between>> =>
         UNCHANGED <<request, pause_until, waited, task, paused>> /\ now' >= now
  BY <1>4 DEF between, runVars, Tick
<1>12. UNCHANGED servedVars => UNCHANGED <<request, pause_until, waited, task, paused, now>>
  BY DEF servedVars, vars, runVars, between
<1>13. Exchange' /\ Pausing'
  BY <1>4, <1>5, <1>6, <1>7, <1>8, <1>9, <1>10, <1>11, <1>12 DEF ServedNext
<1> QED BY <1>2, <1>3, <1>13 DEF ServedInv

-----------------------------------------------------------------------------
(* The theorems. *)

\* The inductive invariant holds in every state of a run and its service.
THEOREM ServedInvariant == ServedSpec => []ServedInv
BY ServedInitInv, ServedNextInv, PTL DEF ServedSpec

\* To the service a run is a client like any other: what InferenceServiceProofs
\* shows of the limiters holds against this one too.
THEOREM ServiceServes == ServedSpec => Spec
<1>1. ServedInit => Init
  BY DEF ServedInit
<1>2. [ServedNext]_servedVars => [Next]_vars
  BY ServiceStep
<1> QED BY <1>1, <1>2, PTL DEF ServedSpec, Spec

\* The service is a server like any other: the run does nothing that FixedScheduler
\* does not allow, so what FixedSchedulerProofs shows of it holds here too.
THEOREM RunRuns == ServedSpec => RunProofs!Spec
<1>1. ServedInit => RunProofs!Init
  BY DEF ServedInit, Run!Init, RunProofs!Init
<1>2. Exchange /\ [ServedNext]_servedVars => [RunProofs!Next]_(RunProofs!vars)
  BY RunStep DEF runVars, RunProofs!vars
<1>3. ServedInv => Exchange
  BY DEF ServedInv
<1> QED BY <1>1, <1>2, <1>3, ServedInvariant, PTL DEF ServedSpec, RunProofs!Spec

\* Against this client too, no rolling window admits more than rpm requests.
THEOREM ServedRateIsStrict == ServedSpec => []StrictRpm
BY ServiceServes, RateIsStrict, PTL

\* Against this client too, Retry-After is the time until the window has room.
THEOREM ServedRetryAfterIsExact == ServedSpec => []RetryAfterIsExact
BY ServiceServes, RetryAfterIsAlwaysExact, PTL

\* A run whose concurrency is within the limit of the service finds a slot for
\* every request it sends, unless it has given up on others: each slot belongs to
\* the request of a task that holds a permit.
THEOREM ArrivalsAlwaysFindSlots == ServedSpec => []ArrivalsFindSlots
<1>1. ServedInv => ArrivalsFindSlots
  <2> SUFFICES ASSUME ServedInv, RunConcurrency <= MaxConcurrency, Abandoned = {},
                      NEW q \in Questions, request[q].at = "sent"
               PROVE  HasSlot
    BY DEF ArrivalsFindSlots
  <2> DEFINE served == {p \in Questions : request[p].at = "admitted"}
             holders == {p \in Questions : task[p].stage \in {"in_flight", "holding"}}
  <2>1. /\ Slots /\ Exchange /\ RunProofs!PermitsConserved /\ permits \in Nat
        /\ generating \subseteq Requests
        /\ RunConcurrency \in Nat /\ MaxConcurrency \in Nat
    BY ServedConfig, LimitsConfig
       DEF ServedInv, ServiceInv, Typed, RunProofs!RunInv, RunProofs!TypeOK
  <2>2. IsFiniteSet(served) /\ IsFiniteSet(holders)
        /\ Cardinality(served) \in Nat /\ Cardinality(holders) \in Nat
    <3>1. served \subseteq Questions /\ holders \subseteq Questions
      OBVIOUS
    <3> QED BY <3>1, ServedConfig, FS_Subset, FS_CardinalityType
  <2>3. Cardinality(generating) <= Cardinality(served)
    <3>1. \A r \in generating : \E p \in served : r \in request[p].handler
      BY <2>1 DEF Abandoned, Exchange
    <3> DEFINE client == [r \in generating |-> CHOOSE p \in served : r \in request[p].handler]
    <3>2. \A r \in generating : client[r] \in served /\ r \in request[client[r]].handler
      BY <3>1
    <3> HIDE DEF client
    <3>3. client \in [generating -> served]
      BY <3>2 DEF client
    <3>4. \A r, s \in generating : client[r] = client[s] => r = s
      BY <2>1, <3>2 DEF Exchange
    <3>5. client \in Injection(generating, served)
      BY <3>3, <3>4 DEF Injection, IsInjective
    <3> QED BY <2>2, <3>5, FS_Injection
  <2>4. Cardinality(served) + 1 <= Cardinality(holders)
    <3>1. served \cup {q} \subseteq holders /\ q \notin served
      BY <2>1 DEF Exchange
    <3>2. Cardinality(served \cup {q}) = Cardinality(served) + 1
      BY <2>2, <3>1, FS_AddElement
    <3> QED BY <2>2, <3>1, <3>2, FS_Subset
  <2>5. permits + Cardinality(holders) = RunConcurrency
    BY <2>1, SameCardinality DEF RunProofs!PermitsConserved
  <2>6. in_flight = Cardinality(generating)
    BY <2>1 DEF Slots
  <2>7. in_flight \in Nat
    BY DEF ServedInv, ServiceInv, Typed
  <2> HIDE DEF served, holders
  <2> QED BY <2>1, <2>2, <2>3, <2>4, <2>5, <2>6, <2>7 DEF HasSlot
<1> QED BY <1>1, ServedInvariant, PTL

\* After a pause for a 429 of the rate the window has room, unless others have been
\* admitted: the run never meets the same full window again.
THEOREM PausesAlwaysOpenTheWindow == ServedSpec => []PausesOpenTheWindow
<1>1. ServedInv => PausesOpenTheWindow
  <2> SUFFICES ASSUME ServedInv, waited.cause = "rpm", ~paused, Len(admitted) = waited.admissions
               PROVE  HasRoom(Recent(timestamps))
    BY DEF PausesOpenTheWindow
  <2> DEFINE wait == waited.retry_after * Second
  <2>1. /\ Typed /\ Ordered /\ Covers(timestamps)
        /\ Rpm \in Nat /\ Rpm # 0 /\ Window \in Int /\ now \in Int
        /\ waited.at \in Int /\ wait \in Int /\ pause_until \in Int
        /\ Len(timestamps) = Rpm
        /\ timestamps[1] \in Int
        /\ Left(timestamps[1], waited.at) <= wait
        /\ waited.at + wait <= pause_until /\ pause_until <= now
    <3>1. Typed /\ Ordered /\ Covers(timestamps) /\ Pausing
      BY DEF ServedInv, ServiceInv
    <3>2. /\ Rpm \in Nat /\ Rpm # 0 /\ Window \in Int /\ Second \in Int /\ now \in Int
          /\ timestamps \in Seq(Nat)
      BY <3>1, LimitsConfig, ServiceConfig DEF Typed
    <3>3. waited.at \in Int /\ waited.retry_after \in Int /\ pause_until \in Int
      BY <3>1 DEF Pausing, Refusals
    <3>4. /\ Len(timestamps) = Rpm
          /\ Left(timestamps[1], waited.at) <= wait
          /\ waited.at + wait <= pause_until /\ pause_until <= now
      BY <3>1 DEF Pausing, Kept, KeptAt
    <3>5. wait \in Int
      BY <3>2, <3>3
    <3>6. timestamps[1] \in Int
      BY <3>2, <3>4, SeqOfNat
    <3> QED BY <3>1, <3>2, <3>3, <3>4, <3>5, <3>6
  <2>2. /\ Len(Recent(timestamps)) = Rpm - Expired(timestamps)
        /\ Expired(timestamps) \in 0..Rpm
        /\ IsOld(timestamps[1]) <=> 1 <= Expired(timestamps)
    BY <2>1, RecentEntries, ExpiredEntries
  <2> HIDE DEF wait
  <2> QED BY <2>1, <2>2 DEF Left, IsOld, HasRoom
<1> QED BY <1>1, ServedInvariant, PTL

=============================================================================
