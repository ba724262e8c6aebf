---------------------------- MODULE LlmGateway ----------------------------
(***************************************************************************)
(* The LLM spending of one scan in one worker process: the layer retry     *)
(* loop (packages/orchestrator/src/retry.ts), the gateway with its pre-    *)
(* call budget guard, provider retries, model fallback and tier escalation *)
(* (packages/llm-gateway/src/gateway.ts, retry.ts, escalation.ts), the     *)
(* cost meter and the registry that joins them (packages/cost-meter/src),  *)
(* and the between-layers check of the orchestrator.                       *)
(*                                                                         *)
(* A run is one execution of runLayerJob.  Two runs of a scan overlap when *)
(* a stalled job is redelivered to the process that still executes it, or  *)
(* when a resume follows a budget halt.  A call is sized by the tokens the *)
(* guard estimates for it; the provider may use up to Drift tokens more.   *)
(***************************************************************************)
EXTENDS Integers, FiniteSets

CONSTANTS
  Runs,              \* executions of runLayerJob that may overlap
  Models,            \* model ids
  Rate,              \* price of a token of each model
  Matrix,            \* the model of each tier
  FallbackModel,     \* config.llm.fallbackModel, or NoModel
  NoModel,
  ATTEMPTS,          \* RETRY_POLICIES[layer].attempts
  MAX_RETRIES,       \* retryPolicy.maxRetries
  MAX_ESCALATIONS,   \* escalation.maxEscalations, 0 when escalation is off
  MaxUsd,            \* policy.maxUsd
  MaxTotalTokens,    \* policy.maxTotalTokens
  HardHalt,          \* policy.enforcement = "hard_halt"
  \* bounds of the instance
  MaxSize,           \* tokens the guard estimates for a call
  Drift,             \* tokens a call may use beyond its estimate
  MaxCalls,          \* calls of one attempt of a layer
  MaxLayers,         \* executions started
  MaxResumes         \* resumes after a budget halt

TIER_ORDER == 1 .. 3
TopTier == 3

ASSUME RunsAssumption == IsFiniteSet(Runs) /\ Runs # {}
ASSUME PriceAssumption ==
  /\ NoModel \notin Models
  /\ Rate \in [Models -> Nat]
  /\ Matrix \in [TIER_ORDER -> Models]
  /\ FallbackModel \in Models \cup {NoModel}
ASSUME PolicyAssumption ==
  /\ ATTEMPTS \in Nat \ {0} /\ MAX_RETRIES \in Nat /\ MAX_ESCALATIONS \in Nat
  /\ MaxUsd \in Nat /\ MaxTotalTokens \in Nat /\ HardHalt \in BOOLEAN
ASSUME BoundsAssumption ==
  /\ MaxSize \in Nat \ {0} /\ Drift \in Nat /\ MaxCalls \in Nat
  /\ MaxLayers \in Nat /\ MaxResumes \in Nat

VARIABLES
  status,      \* of the scan: "running", "partial" (budget halt) or "cancelled"
  killed,      \* the kill registry knows the scan
  meters,      \* the meter the controller caches for the scan, 0 if none
  registered,  \* the meter in the budget registry, 0 if none
  spent,       \* what has been recorded on each meter
  created,     \* number of meters created
  pc,          \* where each run is
  run,         \* the run's captured meter, attempt and abort signal
  call,        \* the gateway call a run is waiting for
  layers,      \* executions started
  resumes      \* resumes so far

vars == <<status, killed, meters, registered, spent, created, pc, run, call, layers, resumes>>

Meters == 1 .. (MaxResumes + 1)
Usage(n, m) == [tokens |-> n, usd |-> n * Rate[m]]
NoCall == [kind |-> "none", tier |-> 1, size |-> 1, ctx |-> 0, model |-> NoModel,
           tries |-> 0, fallback |-> FALSE, escalations |-> 0, requests |-> 0]
\* A complete() or a stream(), routed by tier.  A call pinned to a model behaves
\* as one whose answer is never of low confidence.
Kinds == {"complete", "stream"}
NoRun == [meter |-> 0, attempt |-> 0, calls |-> 0, aborted |-> FALSE]

Init ==
  /\ status = "running" /\ killed = FALSE
  /\ meters = 0 /\ registered = 0 /\ created = 0
  /\ spent = [m \in Meters |-> [tokens |-> 0, usd |-> 0]]
  /\ pc = [r \in Runs |-> "idle"]
  /\ run = [r \in Runs |-> NoRun]
  /\ call = [r \in Runs |-> NoCall]
  /\ layers = 0 /\ resumes = 0

-----------------------------------------------------------------------------
(* The pieces of the gateway and of the meter *)

\* nextTier, with TopTier for "no tier above".
nextTier(t) == IF t = TopTier THEN TopTier ELSE t + 1

\* CostMeter.record on the meter the registry holds when the call completes.
record(m, u) ==
  spent' = [spent EXCEPT ![m] = [tokens |-> @.tokens + u.tokens, usd |-> @.usd + u.usd]]

\* account: without a registered meter the usage of the call is recorded nowhere.
account(u) == IF registered = 0 THEN UNCHANGED spent ELSE record(registered, u)

\* checkBudget.exceeded
exceeded(m) == spent[m].usd > MaxUsd \/ spent[m].tokens > MaxTotalTokens

\* Variant of refused: the guard compares what is spent, not what would be.
refused_SoFar(m, size, model) == exceeded(m)

\* assertPreCallBudget: refuse when the recorded spend plus the estimate clears
\* the ceiling.
refused(m, size, model) ==
  \/ spent[m].usd + Usage(size, model).usd > MaxUsd
  \/ spent[m].tokens + size > MaxTotalTokens

\* cleanup: the controller forgets the meter and its registration.
cleanup == meters' = 0 /\ registered' = 0

-----------------------------------------------------------------------------
(* runLayerJob and runWithRetry *)

\* runLayerJob up to executeLayer: getMeter, register, the scan's abort signal.
StartLayer(r) ==
  /\ pc[r] = "idle"
  /\ status = "running" /\ ~killed
  /\ layers < MaxLayers
  /\ layers' = layers + 1
  /\ created' = IF meters = 0 THEN created + 1 ELSE created
  /\ meters' = IF meters = 0 THEN created' ELSE meters
  /\ registered' = meters'
  /\ run' = [run EXCEPT ![r] = [NoRun EXCEPT !.meter = meters']]
  /\ pc' = [pc EXCEPT ![r] = "attempt"]
  /\ UNCHANGED <<status, killed, spent, call, resumes>>

\* The execution is over: its locals are gone.
End(r) == pc' = [pc EXCEPT ![r] = "idle"] /\ run' = [run EXCEPT ![r] = NoRun]

\* Variant of Attempt: the loop does not look at the signal.
Attempt_IgnoresSignal(r) ==
  /\ pc[r] = "attempt"
  /\ pc' = [pc EXCEPT ![r] = "layer"]
  /\ run' = [run EXCEPT ![r].attempt = @ + 1, ![r].calls = 0]
  /\ UNCHANGED <<status, killed, meters, registered, spent, created, call, layers, resumes>>

\* The head of the retry loop: an aborted signal ends it.
Attempt(r) ==
  /\ pc[r] = "attempt"
  /\ IF run[r].aborted
     THEN End(r)
     ELSE /\ pc' = [pc EXCEPT ![r] = "layer"]
          /\ run' = [run EXCEPT ![r].attempt = @ + 1, ![r].calls = 0]
  /\ UNCHANGED <<status, killed, meters, registered, spent, created, call, layers, resumes>>

\* The layer throws: an error that is not retriable, an aborted signal and the
\* last attempt end the loop; otherwise it sleeps (a sleep an abort interrupts)
\* and comes back to its head.
Throw(r, retriable) ==
  IF run[r].aborted \/ ~retriable \/ run[r].attempt >= ATTEMPTS
  THEN End(r)
  ELSE pc' = [pc EXCEPT ![r] = "attempt"] /\ UNCHANGED run

\* Variant of LayerThrows: a failed layer forgets the scan's meter.
LayerThrows_Cleanup(r) ==
  /\ pc[r] = "layer"
  /\ \E retriable \in BOOLEAN : Throw(r, retriable)
  /\ cleanup
  /\ UNCHANGED <<status, killed, spent, created, call, layers, resumes>>

\* The layer's own error.
LayerThrows(r) ==
  /\ pc[r] = "layer"
  /\ \E retriable \in BOOLEAN : Throw(r, retriable)
  /\ UNCHANGED <<status, killed, meters, registered, spent, created, call, layers, resumes>>

\* The layer returned; its output is persisted and the controller goes on to
\* the budget check.
LayerReturns(r) ==
  /\ pc[r] = "layer"
  /\ pc' = [pc EXCEPT ![r] = "enforce"]
  /\ UNCHANGED <<status, killed, meters, registered, spent, created, run, call, layers, resumes>>

\* enforceBudget on the meter the run captured: over the ceiling, a hard halt
\* makes the scan partial and finalizeComplete forgets its meter.
EnforceBudget(r) ==
  /\ pc[r] = "enforce"
  /\ End(r)
  /\ IF exceeded(run[r].meter) /\ HardHalt
     THEN status' = "partial" /\ cleanup
     ELSE UNCHANGED <<status, meters, registered>>
  /\ UNCHANGED <<killed, spent, created, call, layers, resumes>>

-----------------------------------------------------------------------------
(* complete() and stream() *)

\* A call on its way to the provider (resolveModelId, the first attempt).
Dispatched(c) ==
  [c EXCEPT !.ctx = 0, !.model = Matrix[c.tier], !.tries = 0, !.fallback = FALSE, !.requests = @ + 1]

\* completeOnce up to the estimate of the call: the guard takes the context the
\* registry holds now and awaits the token count.  Without a context, or without
\* hard_halt, there is no guard.
Dispatch(r, c) ==
  IF registered # 0 /\ HardHalt
  THEN pc' = [pc EXCEPT ![r] = "guard"] /\ call' = [call EXCEPT ![r] = [c EXCEPT !.ctx = registered]]
  ELSE pc' = [pc EXCEPT ![r] = "inflight"] /\ call' = [call EXCEPT ![r] = Dispatched(c)]

\* The tokens are counted: the guard compares with what its context has recorded
\* by now, and the call goes to the provider or is refused.
Guard(r) ==
  LET c == call[r] IN
  /\ pc[r] = "guard"
  /\ IF refused(c.ctx, c.size, Matrix[c.tier])
     THEN pc' = [pc EXCEPT ![r] = "refused"] /\ call' = [call EXCEPT ![r] = NoCall]
     ELSE pc' = [pc EXCEPT ![r] = "inflight"] /\ call' = [call EXCEPT ![r] = Dispatched(c)]
  /\ UNCHANGED <<status, killed, meters, registered, spent, created, run, layers, resumes>>

\* The layer calls the gateway.
Call(r) ==
  /\ pc[r] = "layer"
  /\ run[r].calls < MaxCalls
  /\ run' = [run EXCEPT ![r].calls = @ + 1]
  /\ \E kind \in Kinds, t \in TIER_ORDER, n \in 1 .. MaxSize :
       Dispatch(r, [NoCall EXCEPT !.kind = kind, !.tier = t, !.size = n])
  /\ UNCHANGED <<status, killed, meters, registered, spent, created, layers, resumes>>

\* BudgetExceededError reaches the layer, which lets it through (it is not
\* retriable) or falls back to a result without the model.
Refused(r) ==
  /\ pc[r] = "refused"
  /\ \/ Throw(r, FALSE)
     \/ pc' = [pc EXCEPT ![r] = "layer"] /\ UNCHANGED run
  /\ UNCHANGED <<status, killed, meters, registered, spent, created, call, layers, resumes>>

\* withRetry and withRetryAndFallback: a request failed or timed out.  The
\* primary model is retried while the error is retriable, then the fallback
\* model gets one request; a stream gets neither.
Fail(r) ==
  LET c == call[r] IN
  /\ pc[r] = "inflight"
  /\ \E retriable \in BOOLEAN :
       \/ /\ c.kind # "stream" /\ ~c.fallback /\ retriable /\ c.tries < MAX_RETRIES
          /\ call' = [call EXCEPT ![r].tries = @ + 1, ![r].requests = @ + 1]
          /\ UNCHANGED <<pc, run>>
       \/ /\ c.kind # "stream" /\ ~c.fallback /\ (~retriable \/ c.tries >= MAX_RETRIES)
          /\ FallbackModel \notin {NoModel, c.model}
          /\ call' = [call EXCEPT ![r].fallback = TRUE, ![r].model = FallbackModel,
                                  ![r].requests = @ + 1]
          /\ UNCHANGED <<pc, run>>
       \/ /\ c.kind # "stream"
          /\ c.fallback \/ (FallbackModel \in {NoModel, c.model}
                            /\ (~retriable \/ c.tries >= MAX_RETRIES))
          /\ call' = [call EXCEPT ![r] = NoCall]
          /\ Throw(r, retriable) \/ (pc' = [pc EXCEPT ![r] = "layer"] /\ UNCHANGED run)
       \/ /\ c.kind = "stream"
          /\ call' = [call EXCEPT ![r] = NoCall]
          /\ pc' = [pc EXCEPT ![r] = "layer"] /\ UNCHANGED run
  /\ UNCHANGED <<status, killed, meters, registered, spent, created, layers, resumes>>

\* Variant of escalates: no cap on the escalations of a call.
escalates_NoCap(c, low) == c.kind # "stream" /\ low /\ nextTier(c.tier) # c.tier

\* Whether completeWithEscalation asks the next tier again.
escalates(c, low) ==
  /\ c.kind # "stream" /\ low
  /\ c.escalations < MAX_ESCALATIONS
  /\ nextTier(c.tier) # c.tier

\* The provider answers: the usage is recorded, then a low-confidence answer
\* of a tier-routed call goes to the next tier, through the guard again.
Succeed(r) ==
  /\ pc[r] = "inflight"
  /\ \E n \in 1 .. (call[r].size + Drift), low \in BOOLEAN :
       /\ account(Usage(n, call[r].model))
       /\ IF escalates(call[r], low)
          THEN /\ call' = [call EXCEPT ![r].tier = nextTier(@), ![r].escalations = @ + 1]
               /\ pc' = [pc EXCEPT ![r] = "escalate"]
          ELSE /\ call' = [call EXCEPT ![r] = NoCall]
               /\ pc' = [pc EXCEPT ![r] = "layer"]
  /\ UNCHANGED <<status, killed, meters, registered, created, run, layers, resumes>>

\* The next turn of completeWithEscalation.
Escalate(r) ==
  /\ pc[r] = "escalate"
  /\ Dispatch(r, call[r])
  /\ UNCHANGED <<status, killed, meters, registered, spent, created, run, layers, resumes>>

-----------------------------------------------------------------------------
(* The operator *)

\* kill and cancel: the signals of the runs abort, the scan is cancelled and
\* its meter forgotten.  A request in flight is not interrupted.
Kill ==
  /\ status = "running"
  /\ status' = "cancelled" /\ killed' = TRUE
  /\ run' = [r \in Runs |-> [run[r] EXCEPT !.aborted = (pc[r] # "idle")]]
  /\ cleanup
  /\ UNCHANGED <<spent, created, pc, call, layers, resumes>>

\* resume of a scan the budget halted.
Resume ==
  /\ status = "partial" /\ ~killed
  /\ resumes < MaxResumes
  /\ resumes' = resumes + 1
  /\ status' = "running"
  /\ UNCHANGED <<killed, meters, registered, spent, created, pc, run, call, layers>>

Step(r) ==
  \/ Attempt(r) \/ LayerThrows(r) \/ LayerReturns(r) \/ EnforceBudget(r)
  \/ Call(r) \/ Guard(r) \/ Refused(r) \/ Fail(r) \/ Succeed(r) \/ Escalate(r)

Next == Kill \/ Resume \/ \E r \in Runs : StartLayer(r) \/ Step(r)

Spec == Init /\ [][Next]_vars

-----------------------------------------------------------------------------
(* Properties *)

PCs == {"idle", "attempt", "layer", "enforce", "guard", "inflight", "refused", "escalate"}
\* One complete() sends at most the retries, and one fallback request, of each
\* tier it is escalated to.
MaxCallRequests == (MAX_ESCALATIONS + 1) * (MAX_RETRIES + 2)
Calls == [kind : Kinds \cup {"none"}, tier : TIER_ORDER,
          size : 1 .. MaxSize, ctx : 0 .. (MaxResumes + 1), model : Models \cup {NoModel}, tries : 0 .. MAX_RETRIES,
          fallback : BOOLEAN, escalations : 0 .. MAX_ESCALATIONS, requests : 0 .. MaxCallRequests]

\* Every variable has its type: attempts, retries and escalations stay within
\* their policies, the three nested loops of withRetry, withRetryAndFallback and
\* completeWithEscalation do not multiply further, and a meter is created at most
\* once per resume.
TypeOK ==
  /\ status \in {"running", "partial", "cancelled"} /\ killed \in BOOLEAN
  /\ created \in 0 .. (MaxResumes + 1)
  /\ meters \in 0 .. created /\ registered \in 0 .. created
  /\ spent \in [Meters -> [tokens : Nat, usd : Nat]]
  /\ pc \in [Runs -> PCs]
  /\ run \in [Runs -> [meter : 0 .. created, attempt : 0 .. ATTEMPTS,
                       calls : 0 .. MaxCalls, aborted : BOOLEAN]]
  /\ call \in [Runs -> Calls]
  /\ layers \in 0 .. MaxLayers /\ resumes \in 0 .. MaxResumes

\* The most one call can use.
MaxCallTokens == MaxSize + Drift
MaxCallUsd(rate) == MaxCallTokens * rate

\* The guard reads the recorded spend, and records only when a call completes:
\* calls of overlapping runs can pass it on the same reading.  The meter of a
\* hard-halted scan still never shows more tokens than the ceiling, the drift
\* of one call and one whole call for each other run of the scan
\* (assertPreCallBudget, account, register).
OvershootBounded ==
  HardHalt => \A m \in Meters :
    spent[m].tokens <= MaxTotalTokens + Drift + (Cardinality(Runs) - 1) * MaxCallTokens

\* While the scan runs and was never resumed, every call of every run meets the
\* guard and is recorded on the meter the between-layers check of that run will
\* read (getMeter, register, account): no run disarms it for another.
GuardArmed ==
  status = "running" /\ resumes = 0 =>
    \A r \in Runs : pc[r] # "idle" => registered # 0 /\ run[r].meter = registered

\* runWithRetry starts no further attempt of a layer whose signal is aborted,
\* wherever in its calls and sleeps the kill finds it.
NoAttemptAfterAbort ==
  [][\A r \in Runs : pc[r] # "idle" /\ run[r].aborted =>
        pc'[r] = "idle" \/ run'[r] = [run[r] EXCEPT !.calls = run'[r].calls]]_vars
=============================================================================
