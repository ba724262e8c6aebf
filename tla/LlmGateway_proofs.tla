-------------------------- MODULE LlmGateway_proofs --------------------------
(***************************************************************************)
(* The safety of the LLM spending for any number of overlapping runs, any  *)
(* prices, policies and bounds.                                            *)
(*                                                                         *)
(* The ceiling holds up to what is on its way: each call that the guard of *)
(* the registered meter can no longer stop may still add its whole size    *)
(* and drift.  Only the call that passed the guard last is known to fit,   *)
(* so the invariant singles one such call out and counts the others at the *)
(* largest size there is.                                                  *)
(***************************************************************************)
EXTENDS LlmGateway, FiniteSetTheorems, TLAPS

\* One meter per resume, cached and registered together.
Metered ==
  /\ registered = meters
  /\ created <= resumes + 1 /\ (status = "running" /\ meters = 0 => created <= resumes)
  /\ \A m \in Meters : m > created => spent[m].tokens = 0

\* A run that is to start an attempt has one left.
AttemptsLeft == \A r \in Runs : pc[r] = "attempt" => run[r].attempt < ATTEMPTS

\* The requests of the tiers a call has left behind.
TierRequests(c) == c.escalations * (MAX_RETRIES + 2)

\* A call in flight is sent to a real model, and has sent what its retries and
\* its fallback account for.
RequestsCounted ==
  \A r \in Runs :
    /\ pc[r] = "inflight" =>
         /\ call[r].model \in Models
         /\ call[r].requests <=
              TierRequests(call[r]) + 1 + call[r].tries + (IF call[r].fallback THEN 1 ELSE 0)
    /\ pc[r] \in {"guard", "escalate"} => call[r].requests <= TierRequests(call[r])

\* The runs whose call the guard of the registered meter no longer stops.
Unchecked ==
  {r \in Runs : pc[r] = "inflight" \/ (pc[r] = "guard" /\ call[r].ctx # registered)}

Ceiling == MaxTotalTokens + Drift + (Cardinality(Runs) - 1) * MaxCallTokens

\* What the unchecked calls may still add fits under the ceiling, one of them
\* counted at its own size.
Ahead ==
  HardHalt =>
    /\ \A m \in Meters : spent[m].tokens <= Ceiling
    /\ registered # 0 =>
         \/ spent[registered].tokens + Cardinality(Unchecked) * MaxCallTokens <= Ceiling
         \/ \E r \in Unchecked :
              spent[registered].tokens + call[r].size + Drift
                + (Cardinality(Unchecked) - 1) * MaxCallTokens <= Ceiling

Inv == TypeOK /\ Metered /\ AttemptsLeft /\ RequestsCounted /\ Ahead /\ GuardArmed
-----------------------------------------------------------------------------
(* Arithmetic *)

LEMMA Constants ==
  /\ ATTEMPTS \in Nat \ {0} /\ MAX_RETRIES \in Nat /\ MAX_ESCALATIONS \in Nat
  /\ MaxUsd \in Nat /\ MaxTotalTokens \in Nat /\ HardHalt \in BOOLEAN
  /\ MaxSize \in Nat \ {0} /\ Drift \in Nat /\ MaxCalls \in Nat
  /\ MaxLayers \in Nat /\ MaxResumes \in Nat
  BY PolicyAssumption, BoundsAssumption

LEMMA MulMono == \A a, b, k \in Nat : a <= b => a * k \in Nat /\ a * k <= b * k
  OBVIOUS

LEMMA MulPred == \A a \in Int, k \in Nat : a * k \in Int /\ (a - 1) * k = a * k - k
  OBVIOUS

LEMMA MulSucc == \A a, k \in Nat : (a + 1) * k = a * k + k
  OBVIOUS

LEMMA RunsCounted ==
  /\ Cardinality(Runs) \in Nat \ {0} /\ MaxCallTokens \in Nat \ {0} /\ Ceiling \in Nat
  /\ (Cardinality(Runs) - 1) * MaxCallTokens \in Nat
<1>1. Cardinality(Runs) \in Nat \ {0}
  BY RunsAssumption, FS_CardinalityType, FS_EmptySet
<1>2. MaxCallTokens \in Nat \ {0}
  BY Constants DEF MaxCallTokens
<1>3. (Cardinality(Runs) - 1) * MaxCallTokens \in Nat
  BY <1>1, <1>2, MulMono
<1>. QED BY <1>1, <1>2, <1>3, Constants DEF Ceiling

\* The requests of a tier fit into the bound as long as a tier is left.
LEMMA RequestRoom ==
  ASSUME NEW e \in 0 .. MAX_ESCALATIONS
  PROVE  /\ e * (MAX_RETRIES + 2) \in Nat /\ MaxCallRequests \in Nat
         /\ (e + 1) * (MAX_RETRIES + 2) = e * (MAX_RETRIES + 2) + MAX_RETRIES + 2
         /\ e * (MAX_RETRIES + 2) + MAX_RETRIES + 2 <= MaxCallRequests
<1>1. e \in Nat /\ e + 1 \in Nat /\ MAX_ESCALATIONS + 1 \in Nat /\ MAX_RETRIES + 2 \in Nat
      /\ e + 1 <= MAX_ESCALATIONS + 1
  BY Constants
<1>2. (e + 1) * (MAX_RETRIES + 2) <= MaxCallRequests
  BY <1>1, MulMono DEF MaxCallRequests
<1>3. (e + 1) * (MAX_RETRIES + 2) = e * (MAX_RETRIES + 2) + MAX_RETRIES + 2
  BY <1>1, MulSucc, Constants
<1>4. e * (MAX_RETRIES + 2) \in Nat /\ MaxCallRequests \in Nat
  BY <1>1, MulMono DEF MaxCallRequests
<1>. QED BY <1>2, <1>3, <1>4

LEMMA SubCount ==
  ASSUME NEW S, NEW T, S \subseteq T, T \subseteq Runs
  PROVE  /\ Cardinality(S) \in Nat /\ Cardinality(T) \in Nat
         /\ Cardinality(S) <= Cardinality(T) /\ Cardinality(T) <= Cardinality(Runs)
<1>1. IsFiniteSet(T)
  BY RunsAssumption, FS_Subset
<1>. QED BY <1>1, RunsAssumption, FS_Subset, FS_CardinalityType

LEMMA RemoveCount ==
  ASSUME NEW T, T \subseteq Runs, NEW r \in T
  PROVE  Cardinality(T \ {r}) = Cardinality(T) - 1 /\ Cardinality(T) \in Nat
<1>1. IsFiniteSet(T)
  BY RunsAssumption, FS_Subset
<1>. QED BY <1>1, FS_RemoveElement, FS_CardinalityType

-----------------------------------------------------------------------------
(* Calls *)

LEMMA NoCallTyped == NoCall \in Calls
<1>1. 0 \in 0 .. MaxCallRequests
  BY RequestRoom, Constants
<1>. QED BY <1>1, Constants DEF NoCall, Calls, TIER_ORDER

\* A call that goes to the provider has room for its request.
LEMMA DispatchedTyped ==
  ASSUME NEW c \in Calls, c.requests <= TierRequests(c)
  PROVE  LET d == Dispatched(c) IN
         /\ d \in Calls /\ d.model \in Models /\ d.size = c.size
         /\ d.requests <= TierRequests(d) + 1 + d.tries + (IF d.fallback THEN 1 ELSE 0)
<1>1. c.escalations \in 0 .. MAX_ESCALATIONS /\ c.requests \in Nat /\ c.tier \in TIER_ORDER
  BY DEF Calls
<1>2. Matrix[c.tier] \in Models
  BY <1>1, PriceAssumption
<1>3. c.requests + 1 \in 0 .. MaxCallRequests
  BY <1>1, RequestRoom, Constants DEF TierRequests
<1>6. Dispatched(c) \in Calls
  <2>. DEFINE d1 == [c EXCEPT !.ctx = 0]
              d2 == [d1 EXCEPT !.model = Matrix[c.tier]]
              d3 == [d2 EXCEPT !.tries = 0]
              d4 == [d3 EXCEPT !.fallback = FALSE]
              d5 == [d4 EXCEPT !.requests = c.requests + 1]
  <2>. HIDE DEF d1, d2, d3, d4, d5
  <2>1. d1 \in Calls
    BY Constants DEF Calls, d1
  <2>2. d2 \in Calls
    BY ONLY <1>2, <2>1 DEF Calls, d2
  <2>3. d3 \in Calls
    BY ONLY <2>2, Constants DEF Calls, d3
  <2>4. d4 \in Calls
    BY ONLY <2>3 DEF Calls, d4
  <2>5. d5 \in Calls
    BY ONLY <1>3, <2>4 DEF Calls, d5
  <2>6. Dispatched(c) = d5
    BY DEF Dispatched, Calls, d1, d2, d3, d4, d5
  <2>. QED BY <2>5, <2>6
<1>4. /\ Dispatched(c).model = Matrix[c.tier] /\ Dispatched(c).size = c.size
      /\ Dispatched(c).requests = c.requests + 1 /\ Dispatched(c).escalations = c.escalations
      /\ Dispatched(c).tries = 0 /\ Dispatched(c).fallback = FALSE
  BY DEF Calls, Dispatched
<1>5. TierRequests(Dispatched(c)) = TierRequests(c) /\ TierRequests(c) \in Nat
  BY <1>1, <1>4, RequestRoom DEF TierRequests
<1>. QED BY <1>1, <1>2, <1>4, <1>5, <1>6
-----------------------------------------------------------------------------
(* The ceiling *)

\* Nothing is recorded and no call gets past the guard.
LEMMA AheadKept ==
  ASSUME TypeOK, Ahead, UNCHANGED spent, registered' \in {0, registered},
         registered' # 0 => /\ Unchecked' \subseteq Unchecked
                            /\ \A r \in Unchecked' : call'[r].size = call[r].size
  PROVE  Ahead'
<1>. SUFFICES ASSUME HardHalt PROVE Ahead'
  BY DEF Ahead
<1>1. \A m \in Meters : spent'[m].tokens <= Ceiling
  BY DEF Ahead
<1>2. CASE registered' = 0
  BY <1>1, <1>2 DEF Ahead
<1>3. CASE registered' # 0
  <2>. DEFINE n == Cardinality(Unchecked)
              k == Cardinality(Unchecked')
              s == spent[registered].tokens
  <2>1. k \in Nat /\ n \in Nat /\ k <= n
    BY <1>3, SubCount DEF Unchecked
  <2>2. registered \in Meters /\ s \in Nat
    BY <1>3, Constants DEF TypeOK, Meters
  <2>3. CASE s + n * MaxCallTokens <= Ceiling
    <3>1. k * MaxCallTokens <= n * MaxCallTokens /\ k * MaxCallTokens \in Nat
          /\ n * MaxCallTokens \in Nat
      BY <2>1, RunsCounted, MulMono
    <3>2. s + k * MaxCallTokens <= Ceiling
      BY <2>2, <2>3, <3>1, RunsCounted
    <3>. QED BY <1>1, <1>3, <3>2 DEF Ahead
  <2>4. ASSUME NEW r \in Unchecked,
               s + call[r].size + Drift + (n - 1) * MaxCallTokens <= Ceiling
        PROVE  Ahead'
    <3>1. call[r].size \in Nat
      BY Constants DEF TypeOK, Calls, Unchecked
    <3>2. CASE r \in Unchecked'
      <4>1. /\ (n - 1) * MaxCallTokens = n * MaxCallTokens - MaxCallTokens
            /\ (k - 1) * MaxCallTokens = k * MaxCallTokens - MaxCallTokens
            /\ k * MaxCallTokens <= n * MaxCallTokens
            /\ k * MaxCallTokens \in Nat /\ n * MaxCallTokens \in Nat
        BY <2>1, RunsCounted, MulMono, MulPred
      <4>2. s + call[r].size + Drift + (k - 1) * MaxCallTokens <= Ceiling
        BY <2>2, <2>4, <3>1, <4>1, RunsCounted, Constants
      <4>3. call'[r].size = call[r].size
        BY <1>3, <3>2
      <4>. QED BY <1>1, <1>3, <3>2, <4>2, <4>3 DEF Ahead
    <3>3. CASE r \notin Unchecked'
      <4>1. k <= n - 1 /\ n - 1 \in Nat
        <5>1. Unchecked' \subseteq Unchecked \ {r} /\ Unchecked \subseteq Runs
          BY <1>3, <3>3 DEF Unchecked
        <5>2. Cardinality(Unchecked \ {r}) = n - 1
          BY <5>1, RemoveCount
        <5>3. Unchecked \ {r} \subseteq Runs
          BY <5>1
        <5>. QED BY <5>1, <5>2, <5>3, SubCount
      <4>2. k * MaxCallTokens <= (n - 1) * MaxCallTokens /\ k * MaxCallTokens \in Nat
            /\ (n - 1) * MaxCallTokens \in Nat
        BY <2>1, <4>1, RunsCounted, MulMono
      <4>3. s + k * MaxCallTokens <= Ceiling
        BY <2>2, <2>4, <3>1, <4>2, RunsCounted, Constants
      <4>. QED BY <1>1, <1>3, <4>3 DEF Ahead
    <3>. QED BY <3>2, <3>3
  <2>. QED BY <1>3, <2>3, <2>4 DEF Ahead
<1>. QED BY <1>2, <1>3

\* A call passes the guard of the registered meter: it is the one that fits.
LEMMA AheadGuard ==
  ASSUME TypeOK, Ahead, UNCHANGED <<spent, registered>>, NEW r \in Runs,
         spent[registered].tokens + call[r].size <= MaxTotalTokens,
         r \in Unchecked', call'[r].size = call[r].size
  PROVE  Ahead'
<1>. SUFFICES ASSUME HardHalt, registered # 0 PROVE Ahead'
  BY DEF Ahead
<1>. DEFINE k == Cardinality(Unchecked')
            s == spent[registered].tokens
            N == Cardinality(Runs)
<1>1. k \in Nat /\ k <= N
  BY SubCount DEF Unchecked
<1>2. registered \in Meters /\ s \in Nat /\ call[r].size \in Nat
  <2>1. registered \in Meters /\ spent[registered] \in [tokens : Nat, usd : Nat]
    BY Constants DEF TypeOK, Meters
  <2>2. call[r] \in Calls
    BY DEF TypeOK
  <2>3. call[r].size \in 1 .. MaxSize
    BY <2>2 DEF Calls
  <2>. QED BY <2>1, <2>3, Constants
<1>3. /\ (k - 1) * MaxCallTokens = k * MaxCallTokens - MaxCallTokens
      /\ (N - 1) * MaxCallTokens = N * MaxCallTokens - MaxCallTokens
      /\ k * MaxCallTokens <= N * MaxCallTokens
      /\ k * MaxCallTokens \in Nat /\ N * MaxCallTokens \in Nat
  BY <1>1, RunsCounted, MulMono, MulPred
<1>4. s + call[r].size + Drift + (k - 1) * MaxCallTokens <= Ceiling
  BY <1>2, <1>3, RunsCounted, Constants DEF Ceiling
<1>. QED BY <1>4 DEF Ahead

\* A call completes: what it used was counted.
LEMMA AheadRecord ==
  ASSUME TypeOK, Ahead, NEW r \in Unchecked, Unchecked' = Unchecked \ {r},
         registered # 0, UNCHANGED registered,
         NEW u \in Nat, u <= call[r].size + Drift,
         spent'[registered].tokens = spent[registered].tokens + u,
         \A m \in Meters \ {registered} : spent'[m].tokens = spent[m].tokens,
         \A q \in Unchecked \ {r} : call'[q].size = call[q].size
  PROVE  Ahead'
<1>. SUFFICES ASSUME HardHalt PROVE Ahead'
  BY DEF Ahead
<1>. DEFINE n == Cardinality(Unchecked)
            s == spent[registered].tokens
<1>1. Unchecked \subseteq Runs /\ r \in Runs
  BY DEF Unchecked
<1>2. n \in Nat /\ Cardinality(Unchecked') = n - 1 /\ n - 1 \in Nat
  BY <1>1, RemoveCount, SubCount
<1>3. registered \in Meters /\ s \in Nat /\ call[r].size \in Nat /\ call[r].size <= MaxSize
  <2>1. registered \in Meters /\ spent[registered] \in [tokens : Nat, usd : Nat]
    BY Constants DEF TypeOK, Meters
  <2>2. call[r] \in Calls
    BY <1>1 DEF TypeOK
  <2>3. call[r].size \in 1 .. MaxSize
    BY <2>2 DEF Calls
  <2>. QED BY <2>1, <2>3, Constants
<1>4. /\ (n - 1) * MaxCallTokens = n * MaxCallTokens - MaxCallTokens
      /\ (n - 1) * MaxCallTokens \in Nat
      /\ ((n - 1) - 1) * MaxCallTokens = (n - 1) * MaxCallTokens - MaxCallTokens
      /\ u <= MaxCallTokens
  BY <1>2, <1>3, RunsCounted, MulMono, MulPred, Constants DEF MaxCallTokens
<1>5. ASSUME s + u + (n - 1) * MaxCallTokens <= Ceiling PROVE Ahead'
  <2>1. \A m \in Meters : spent'[m].tokens <= Ceiling
    BY <1>3, <1>4, <1>5, RunsCounted DEF Ahead
  <2>. QED BY <1>2, <1>5, <2>1 DEF Ahead
<1>6. CASE s + n * MaxCallTokens <= Ceiling
  <2>1. s + u + (n - 1) * MaxCallTokens <= Ceiling
    BY <1>3, <1>4, <1>6, <1>2, RunsCounted
  <2>. QED BY <1>5, <2>1
<1>7. ASSUME NEW q \in Unchecked,
             s + call[q].size + Drift + (n - 1) * MaxCallTokens <= Ceiling
      PROVE  Ahead'
  <2>1. CASE q = r
    <3>1. s + u + (n - 1) * MaxCallTokens <= Ceiling
      BY <1>3, <1>4, <1>7, <2>1, RunsCounted, Constants
    <3>. QED BY <1>5, <3>1
  <2>2. CASE q # r
    <3>1. call[q].size \in Nat
      BY Constants DEF TypeOK, Calls, Unchecked
    <3>2. (s + u) + call[q].size + Drift + ((n - 1) - 1) * MaxCallTokens <= Ceiling
      BY <1>3, <1>4, <1>7, <3>1, RunsCounted, Constants
    <3>3. n - 1 # 0
      <4>1. q \in Unchecked' /\ IsFiniteSet(Unchecked')
        BY <1>1, <2>2, RunsAssumption, FS_Subset
      <4>. QED BY <1>2, <4>1, FS_EmptySet
    <3>4. ((n - 1) - 1) * MaxCallTokens \in Nat
      BY <1>2, <3>3, RunsCounted, MulMono
    <3>5. \A m \in Meters : spent'[m].tokens <= Ceiling
      BY <1>3, <1>4, <3>1, <3>2, <3>4, RunsCounted, Constants DEF Ahead
    <3>. QED BY <1>2, <2>2, <3>2, <3>5 DEF Ahead
  <2>. QED BY <2>1, <2>2
<1>. QED BY <1>6, <1>7 DEF Ahead
-----------------------------------------------------------------------------
(* The steps of a run *)

RunRecs == [meter : 0 .. created, attempt : 0 .. ATTEMPTS, calls : 0 .. MaxCalls,
            aborted : BOOLEAN]

LEMMA NoRunTyped == ASSUME TypeOK PROVE NoRun \in RunRecs /\ NoRun.meter = 0
<1>1. 0 \in 0 .. created /\ 0 \in 0 .. ATTEMPTS /\ 0 \in 0 .. MaxCalls
  BY Constants DEF TypeOK
<1>. QED BY <1>1 DEF NoRun, RunRecs

\* What a call was counted for does not depend on other runs.
Counted(p, c) ==
  /\ p = "inflight" =>
       /\ c.model \in Models
       /\ c.requests <= TierRequests(c) + 1 + c.tries + (IF c.fallback THEN 1 ELSE 0)
  /\ p \in {"guard", "escalate"} => c.requests <= TierRequests(c)

\* A step of run r, its call apart, that leaves the meters alone.
LEMMA RunStep ==
  ASSUME Inv, NEW r \in Runs, pc[r] # "idle",
         NEW x \in PCs, pc' = [pc EXCEPT ![r] = x],
         NEW v \in RunRecs, run' = [run EXCEPT ![r] = v],
         x = "attempt" => v.attempt < ATTEMPTS,
         x # "idle" => v.meter = run[r].meter,
         NEW d \in Calls, call' = [call EXCEPT ![r] = d], Counted(x, d),
         UNCHANGED <<status, killed, meters, registered, created, layers, resumes>>
  PROVE  /\ spent' \in [Meters -> [tokens : Nat, usd : Nat]] => TypeOK'
         /\ AttemptsLeft' /\ RequestsCounted' /\ GuardArmed'
         /\ (\A m \in Meters : spent'[m].tokens # spent[m].tokens => m <= created) => Metered'
<1>. USE DEF Inv
<1>1. ASSUME spent' \in [Meters -> [tokens : Nat, usd : Nat]] PROVE TypeOK'
  <2>1. pc' \in [Runs -> PCs] /\ call' \in [Runs -> Calls]
    BY DEF TypeOK
  <2>2. run' \in [Runs -> RunRecs]
    BY DEF TypeOK, RunRecs
  <2>. QED BY <1>1, <2>1, <2>2 DEF TypeOK, RunRecs
<1>2. AttemptsLeft'
  BY DEF AttemptsLeft, TypeOK
<1>3. RequestsCounted'
  BY DEF RequestsCounted, Counted, TypeOK
<1>4. GuardArmed'
  BY DEF GuardArmed, TypeOK
<1>5. ASSUME \A m \in Meters : spent'[m].tokens # spent[m].tokens => m <= created PROVE Metered'
  BY <1>5 DEF Metered, TypeOK, Meters
<1>. QED BY <1>1, <1>2, <1>3, <1>4, <1>5

\* A step of the retry loop, or the end of a call.
LEMMA LoopStep ==
  ASSUME Inv, NEW r \in Runs, pc[r] # "idle",
         NEW x \in {"idle", "attempt", "layer", "enforce", "refused"},
         pc' = [pc EXCEPT ![r] = x],
         NEW v \in RunRecs, run' = [run EXCEPT ![r] = v],
         x = "attempt" => v.attempt < ATTEMPTS,
         x # "idle" => v.meter = run[r].meter,
         NEW d \in Calls, call' = [call EXCEPT ![r] = d],
         UNCHANGED <<status, killed, meters, registered, spent, created, layers, resumes>>
  PROVE  Inv'
<1>. USE DEF Inv
<1>1. x \in PCs /\ Counted(x, d)
  BY DEF PCs, Counted
<1>2. spent' \in [Meters -> [tokens : Nat, usd : Nat]]
  BY DEF TypeOK
<1>3. TypeOK' /\ AttemptsLeft' /\ RequestsCounted' /\ GuardArmed' /\ Metered'
  BY <1>1, <1>2, RunStep
<1>4. Unchecked' \subseteq Unchecked /\ \A q \in Unchecked' : call'[q].size = call[q].size
  BY DEF Unchecked, TypeOK
<1>5. Ahead'
  BY <1>4, AheadKept
<1>. QED BY <1>3, <1>5

\* The loop sleeps and tries again, or is over.
LEMMA ThrowStep ==
  ASSUME Inv, NEW r \in Runs, pc[r] # "idle", NEW retriable \in BOOLEAN, Throw(r, retriable),
         NEW d \in Calls, call' = [call EXCEPT ![r] = d],
         UNCHANGED <<status, killed, meters, registered, spent, created, layers, resumes>>
  PROVE  Inv'
<1>1. CASE End(r)
  BY <1>1, LoopStep, NoRunTyped DEF End, Inv
<1>2. CASE /\ pc' = [pc EXCEPT ![r] = "attempt"] /\ UNCHANGED run
           /\ ~(run[r].attempt >= ATTEMPTS)
  <2>1. run[r] \in RunRecs /\ run' = [run EXCEPT ![r] = run[r]]
    BY <1>2 DEF Inv, TypeOK, RunRecs
  <2>2. run[r].attempt < ATTEMPTS
    BY <1>2, <2>1, Constants DEF RunRecs
  <2>. QED BY <1>2, <2>1, <2>2, LoopStep
<1>. QED BY <1>1, <1>2 DEF Throw

\* The layer goes on after a call.
LEMMA BackToLayer ==
  ASSUME Inv, NEW r \in Runs, pc[r] # "idle", pc' = [pc EXCEPT ![r] = "layer"], UNCHANGED run,
         NEW d \in Calls, call' = [call EXCEPT ![r] = d],
         UNCHANGED <<status, killed, meters, registered, spent, created, layers, resumes>>
  PROVE  Inv'
<1>1. run[r] \in RunRecs /\ run' = [run EXCEPT ![r] = run[r]]
  BY DEF Inv, TypeOK, RunRecs
<1>. QED BY <1>1, LoopStep

LEMMA SameCall == ASSUME TypeOK, NEW r \in Runs, UNCHANGED call
                  PROVE  call[r] \in Calls /\ call' = [call EXCEPT ![r] = call[r]]
  BY DEF TypeOK

LEMMA AttemptInv == ASSUME Inv, NEW r \in Runs, Attempt(r) PROVE Inv'
<1>1. call[r] \in Calls /\ call' = [call EXCEPT ![r] = call[r]] /\ pc[r] # "idle"
  BY SameCall DEF Attempt, Inv
<1>2. CASE End(r)
  BY <1>1, <1>2, LoopStep, NoRunTyped DEF End, Inv, Attempt
<1>3. CASE /\ pc' = [pc EXCEPT ![r] = "layer"]
           /\ run' = [run EXCEPT ![r].attempt = @ + 1, ![r].calls = 0]
  <2>. DEFINE v == [run[r] EXCEPT !.attempt = @ + 1, !.calls = 0]
  <2>1. run[r] \in RunRecs /\ run[r].attempt < ATTEMPTS
    BY DEF Attempt, Inv, TypeOK, RunRecs, AttemptsLeft
  <2>2. run[r].attempt + 1 \in 0 .. ATTEMPTS /\ 0 \in 0 .. MaxCalls
    BY <2>1, Constants DEF RunRecs
  <2>3. v \in RunRecs /\ v.meter = run[r].meter
    BY <2>1, <2>2 DEF RunRecs
  <2>4. run' = [run EXCEPT ![r] = v]
    BY <1>3 DEF Inv, TypeOK
  <2>. HIDE DEF v
  <2>. QED BY <1>1, <1>3, <2>3, <2>4, LoopStep DEF Attempt
<1>. QED BY <1>2, <1>3 DEF Attempt

LEMMA LayerThrowsInv == ASSUME Inv, NEW r \in Runs, LayerThrows(r) PROVE Inv'
<1>1. call[r] \in Calls /\ call' = [call EXCEPT ![r] = call[r]] /\ pc[r] # "idle"
  BY SameCall DEF LayerThrows, Inv
<1>2. PICK retriable \in BOOLEAN : Throw(r, retriable)
  BY DEF LayerThrows
<1>. QED BY <1>1, <1>2, ThrowStep DEF LayerThrows

LEMMA LayerReturnsInv == ASSUME Inv, NEW r \in Runs, LayerReturns(r) PROVE Inv'
<1>1. call[r] \in Calls /\ call' = [call EXCEPT ![r] = call[r]] /\ pc[r] # "idle"
  BY SameCall DEF LayerReturns, Inv
<1>2. run[r] \in RunRecs /\ run' = [run EXCEPT ![r] = run[r]]
  BY DEF LayerReturns, Inv, TypeOK, RunRecs
<1>. QED BY <1>1, <1>2, LoopStep DEF LayerReturns

LEMMA RefusedInv == ASSUME Inv, NEW r \in Runs, Refused(r) PROVE Inv'
<1>1. call[r] \in Calls /\ call' = [call EXCEPT ![r] = call[r]] /\ pc[r] # "idle"
  BY SameCall DEF Refused, Inv
<1>. QED BY <1>1, ThrowStep, BackToLayer DEF Refused

LEMMA EnforceBudgetInv == ASSUME Inv, NEW r \in Runs, EnforceBudget(r) PROVE Inv'
<1>1. call[r] \in Calls /\ call' = [call EXCEPT ![r] = call[r]] /\ pc[r] # "idle"
  BY SameCall DEF EnforceBudget, Inv
<1>2. CASE UNCHANGED <<status, meters, registered>>
  BY <1>1, <1>2, LoopStep, NoRunTyped DEF End, Inv, EnforceBudget
<1>3. CASE status' = "partial" /\ cleanup
  <2>1. NoRun \in RunRecs
    BY NoRunTyped DEF Inv
  <2>2. TypeOK'
    BY <1>3, <2>1 DEF EnforceBudget, Inv, TypeOK, RunRecs, cleanup, End, PCs
  <2>3. Metered'
    BY <1>3, Constants DEF EnforceBudget, Inv, Metered, TypeOK, cleanup
  <2>4. AttemptsLeft' /\ RequestsCounted'
    BY <1>3 DEF EnforceBudget, Inv, AttemptsLeft, RequestsCounted, TypeOK, End
  <2>5. Ahead'
    BY <1>3, AheadKept DEF EnforceBudget, Inv, cleanup
  <2>6. GuardArmed'
    BY <1>3 DEF GuardArmed
  <2>. QED BY <2>2, <2>3, <2>4, <2>5, <2>6 DEF Inv
<1>. QED BY <1>2, <1>3 DEF EnforceBudget
-----------------------------------------------------------------------------
(* The steps of a call *)

LEMMA DispatchStep ==
  ASSUME Inv, NEW r \in Runs, pc[r] \in {"layer", "escalate"},
         NEW c \in Calls, c.requests <= TierRequests(c), Dispatch(r, c),
         NEW v \in RunRecs, run' = [run EXCEPT ![r] = v], v.meter = run[r].meter,
         UNCHANGED <<status, killed, meters, registered, spent, created, layers, resumes>>
  PROVE  Inv'
<1>0. spent' \in [Meters -> [tokens : Nat, usd : Nat]] /\ pc[r] # "idle"
  BY DEF TypeOK, Inv
<1>1. CASE registered # 0 /\ HardHalt
  <2>. DEFINE d == [c EXCEPT !.ctx = registered]
  <2>1. /\ pc' = [pc EXCEPT ![r] = "guard"] /\ call' = [call EXCEPT ![r] = d]
    BY <1>1 DEF Dispatch
  <2>2. registered \in 0 .. (MaxResumes + 1)
    BY Constants DEF Inv, TypeOK
  <2>3. d \in Calls /\ d.ctx = registered /\ d.requests = c.requests
        /\ d.escalations = c.escalations
    BY <2>2 DEF Calls
  <2>4. Counted("guard", d) /\ "guard" \in PCs
    BY <2>3 DEF Counted, TierRequests, PCs
  <2>. HIDE DEF d
  <2>5. TypeOK' /\ AttemptsLeft' /\ RequestsCounted' /\ GuardArmed' /\ Metered'
    BY <1>0, <2>1, <2>3, <2>4, RunStep
  <2>6. Unchecked' \subseteq Unchecked /\ \A q \in Unchecked' : call'[q].size = call[q].size
    BY <2>1, <2>3 DEF Unchecked, Inv, TypeOK
  <2>7. Ahead'
    BY <2>6, AheadKept DEF Inv
  <2>. QED BY <2>5, <2>7 DEF Inv
<1>2. CASE ~(registered # 0 /\ HardHalt)
  <2>1. pc' = [pc EXCEPT ![r] = "inflight"] /\ call' = [call EXCEPT ![r] = Dispatched(c)]
    BY <1>2 DEF Dispatch
  <2>2. Dispatched(c) \in Calls /\ Counted("inflight", Dispatched(c)) /\ "inflight" \in PCs
    BY DispatchedTyped DEF Counted, PCs
  <2>3. TypeOK' /\ AttemptsLeft' /\ RequestsCounted' /\ GuardArmed' /\ Metered'
    BY <1>0, <2>1, <2>2, RunStep
  <2>4. Ahead'
    BY <1>2 DEF Inv, Ahead
  <2>. QED BY <2>3, <2>4 DEF Inv
<1>. QED BY <1>1, <1>2

LEMMA CallInv == ASSUME Inv, NEW r \in Runs, Call(r) PROVE Inv'
<1>1. PICK kind \in Kinds, t \in TIER_ORDER, n \in 1 .. MaxSize :
        Dispatch(r, [NoCall EXCEPT !.kind = kind, !.tier = t, !.size = n])
  BY DEF Call
<1>. DEFINE c == [NoCall EXCEPT !.kind = kind, !.tier = t, !.size = n]
            v == [run[r] EXCEPT !.calls = @ + 1]
<1>2. c \in Calls /\ c.requests = 0 /\ c.escalations = 0
  BY NoCallTyped DEF NoCall, Calls
<1>3. c.requests <= TierRequests(c)
  BY <1>2, Constants DEF TierRequests
<1>4. run[r] \in RunRecs /\ run[r].calls + 1 \in 0 .. MaxCalls
  BY Constants DEF Call, Inv, TypeOK, RunRecs
<1>5. v \in RunRecs /\ v.meter = run[r].meter /\ run' = [run EXCEPT ![r] = v]
  BY <1>4 DEF RunRecs, Call
<1>. HIDE DEF c, v
<1>6. Dispatch(r, c)
  BY <1>1 DEF c
<1>. QED BY <1>2, <1>3, <1>5, <1>6, DispatchStep DEF Call

LEMMA EscalateInv == ASSUME Inv, NEW r \in Runs, Escalate(r) PROVE Inv'
<1>1. call[r] \in Calls /\ call[r].requests <= TierRequests(call[r])
  BY DEF Escalate, Inv, TypeOK, RequestsCounted
<1>2. run[r] \in RunRecs /\ run' = [run EXCEPT ![r] = run[r]]
  BY DEF Escalate, Inv, TypeOK, RunRecs
<1>. QED BY <1>1, <1>2, DispatchStep DEF Escalate

LEMMA GuardInv == ASSUME Inv, NEW r \in Runs, Guard(r) PROVE Inv'
<1>1. run[r] \in RunRecs /\ run' = [run EXCEPT ![r] = run[r]] /\ pc[r] # "idle"
      /\ spent' \in [Meters -> [tokens : Nat, usd : Nat]]
  BY DEF Guard, Inv, TypeOK, RunRecs
<1>2. CASE pc' = [pc EXCEPT ![r] = "refused"] /\ call' = [call EXCEPT ![r] = NoCall]
  BY <1>1, <1>2, NoCallTyped, LoopStep DEF Guard
<1>3. CASE /\ ~refused(call[r].ctx, call[r].size, Matrix[call[r].tier])
           /\ pc' = [pc EXCEPT ![r] = "inflight"]
           /\ call' = [call EXCEPT ![r] = Dispatched(call[r])]
  <2>1. call[r] \in Calls /\ call[r].requests <= TierRequests(call[r])
    BY DEF Guard, Inv, TypeOK, RequestsCounted
  <2>2. /\ Dispatched(call[r]) \in Calls /\ Counted("inflight", Dispatched(call[r]))
        /\ Dispatched(call[r]).size = call[r].size /\ "inflight" \in PCs
    BY <2>1, DispatchedTyped DEF Counted, PCs
  <2>3. TypeOK' /\ AttemptsLeft' /\ RequestsCounted' /\ GuardArmed' /\ Metered'
    BY <1>1, <1>3, <2>2, RunStep DEF Guard
  <2>4. /\ r \in Unchecked' /\ call'[r].size = call[r].size
        /\ Unchecked' \subseteq Unchecked \cup {r}
        /\ \A q \in Unchecked' : call'[q].size = call[q].size
    BY <1>3, <2>2 DEF Guard, Unchecked, Inv, TypeOK
  <2>5. CASE registered = 0
    BY <2>3, <2>5 DEF Ahead, Inv, Guard
  <2>6. CASE call[r].ctx = registered /\ registered # 0
    <3>1. registered \in Meters /\ call[r].size \in Nat
      BY <2>1, <2>6, Constants DEF Inv, TypeOK, Meters, Calls
    <3>2. spent[registered].tokens \in Nat
      BY <3>1 DEF Inv, TypeOK
    <3>3. spent[registered].tokens + call[r].size <= MaxTotalTokens
      BY <1>3, <2>6, <3>1, <3>2, Constants DEF refused
    <3>4. Ahead'
      BY <2>4, <3>3, AheadGuard DEF Inv, Guard
    <3>. QED BY <2>3, <3>4 DEF Inv
  <2>7. CASE call[r].ctx # registered
    <3>1. Unchecked' \subseteq Unchecked
      BY <2>4, <2>7 DEF Unchecked, Guard
    <3>2. Ahead'
      BY <2>4, <3>1, AheadKept DEF Inv, Guard
    <3>. QED BY <2>3, <3>2 DEF Inv
  <2>. QED BY <2>5, <2>6, <2>7
<1>. QED BY <1>2, <1>3 DEF Guard
\* The request is sent again, to the same model or to the fallback.
LEMMA ResendStep ==
  ASSUME Inv, NEW r \in Runs, pc[r] = "inflight", UNCHANGED <<pc, run>>,
         NEW d \in Calls, call' = [call EXCEPT ![r] = d], Counted("inflight", d),
         d.size = call[r].size,
         UNCHANGED <<status, killed, meters, registered, spent, created, layers, resumes>>
  PROVE  Inv'
<1>1. /\ run[r] \in RunRecs /\ run' = [run EXCEPT ![r] = run[r]]
      /\ pc' = [pc EXCEPT ![r] = "inflight"] /\ "inflight" \in PCs
      /\ spent' \in [Meters -> [tokens : Nat, usd : Nat]]
  BY DEF Inv, TypeOK, RunRecs, PCs
<1>2. TypeOK' /\ AttemptsLeft' /\ RequestsCounted' /\ GuardArmed' /\ Metered'
  BY <1>1, RunStep
<1>3. Unchecked' \subseteq Unchecked /\ \A q \in Unchecked' : call'[q].size = call[q].size
  BY DEF Unchecked, Inv, TypeOK
<1>4. Ahead'
  BY <1>3, AheadKept DEF Inv
<1>. QED BY <1>2, <1>4 DEF Inv

LEMMA FailInv == ASSUME Inv, NEW r \in Runs, Fail(r) PROVE Inv'
<1>. DEFINE c == call[r]
<1>1. /\ pc[r] = "inflight" /\ pc[r] # "idle" /\ c \in Calls /\ c.model \in Models
      /\ c.requests <= TierRequests(c) + 1 + c.tries + (IF c.fallback THEN 1 ELSE 0)
      /\ UNCHANGED <<status, killed, meters, registered, spent, created, layers, resumes>>
  BY DEF Fail, Inv, TypeOK, RequestsCounted
<1>2. /\ c.escalations \in 0 .. MAX_ESCALATIONS /\ c.tries \in 0 .. MAX_RETRIES
      /\ c.requests \in Nat /\ c.fallback \in BOOLEAN
      /\ TierRequests(c) \in Nat /\ TierRequests(c) + MAX_RETRIES + 2 <= MaxCallRequests
      /\ MaxCallRequests \in Nat
  <2>1. /\ c.escalations \in 0 .. MAX_ESCALATIONS /\ c.tries \in 0 .. MAX_RETRIES
        /\ c.requests \in Nat /\ c.fallback \in BOOLEAN
    BY <1>1 DEF Calls
  <2>. QED BY <2>1, RequestRoom DEF TierRequests
<1>3. ASSUME ~c.fallback, c.tries < MAX_RETRIES, UNCHANGED <<pc, run>>,
             call' = [call EXCEPT ![r].tries = @ + 1, ![r].requests = @ + 1]
      PROVE  Inv'
  <2>. DEFINE d == [c EXCEPT !.tries = @ + 1, !.requests = @ + 1]
  <2>1. c.tries + 1 \in 0 .. MAX_RETRIES /\ c.requests + 1 \in 0 .. MaxCallRequests
    BY <1>1, <1>2, <1>3, Constants
  <2>2. d \in Calls
    BY <1>1, <2>1 DEF Calls
  <2>3. /\ d.tries = c.tries + 1 /\ d.requests = c.requests + 1 /\ d.fallback = c.fallback
        /\ d.model = c.model /\ d.size = c.size /\ d.escalations = c.escalations
    BY <1>1 DEF Calls
  <2>4. call' = [call EXCEPT ![r] = d]
    BY <1>3 DEF Inv, TypeOK
  <2>. HIDE DEF d
  <2>5. Counted("inflight", d)
    BY <1>1, <1>2, <1>3, <2>3 DEF Counted, TierRequests
  <2>. QED BY <1>1, <1>3, <2>2, <2>3, <2>4, <2>5, ResendStep
<1>4. ASSUME ~c.fallback, FallbackModel \notin {NoModel, c.model}, UNCHANGED <<pc, run>>,
             call' = [call EXCEPT ![r].fallback = TRUE, ![r].model = FallbackModel,
                                  ![r].requests = @ + 1]
      PROVE  Inv'
  <2>. DEFINE d1 == [c EXCEPT !.fallback = TRUE]
              d2 == [d1 EXCEPT !.model = FallbackModel]
              d == [d2 EXCEPT !.requests = c.requests + 1]
  <2>1. FallbackModel \in Models /\ c.requests + 1 \in 0 .. MaxCallRequests
    BY <1>1, <1>2, <1>4, Constants, PriceAssumption
  <2>. HIDE DEF d1, d2
  <2>2. d1 \in Calls /\ d2 \in Calls
    <3>1. d1 \in Calls
      BY <1>1 DEF Calls, d1
    <3>. QED BY <2>1, <3>1 DEF Calls, d2
  <2>3. d \in Calls
    BY <2>1, <2>2 DEF Calls
  <2>4. /\ d.tries = c.tries /\ d.requests = c.requests + 1 /\ d.fallback = TRUE
        /\ d.model = FallbackModel /\ d.size = c.size /\ d.escalations = c.escalations
    BY <1>1 DEF Calls, d1, d2
  <2>5. call' = [call EXCEPT ![r] = d]
    BY <1>4 DEF Inv, TypeOK, d1, d2
  <2>. HIDE DEF d
  <2>6. Counted("inflight", d)
    BY <1>1, <1>2, <1>4, <2>1, <2>4 DEF Counted, TierRequests
  <2>. QED BY <1>1, <1>4, <2>3, <2>4, <2>5, <2>6, ResendStep
<1>5. ASSUME call' = [call EXCEPT ![r] = NoCall],
             NEW retriable \in BOOLEAN,
             Throw(r, retriable) \/ (pc' = [pc EXCEPT ![r] = "layer"] /\ UNCHANGED run)
      PROVE  Inv'
  BY <1>1, <1>5, NoCallTyped, ThrowStep, BackToLayer
<1>. HIDE DEF c
<1>. QED BY <1>3, <1>4, <1>5 DEF Fail, c

LEMMA SucceedInv == ASSUME Inv, NEW r \in Runs, Succeed(r) PROVE Inv'
<1>. DEFINE c == call[r]
<1>1. PICK n \in 1 .. (c.size + Drift), low \in BOOLEAN :
        /\ account(Usage(n, c.model))
        /\ IF escalates(c, low)
           THEN /\ call' = [call EXCEPT ![r].tier = nextTier(@), ![r].escalations = @ + 1]
                /\ pc' = [pc EXCEPT ![r] = "escalate"]
           ELSE /\ call' = [call EXCEPT ![r] = NoCall]
                /\ pc' = [pc EXCEPT ![r] = "layer"]
  BY DEF Succeed
<1>2. /\ pc[r] = "inflight" /\ c \in Calls /\ c.model \in Models
      /\ c.requests <= TierRequests(c) + 1 + c.tries + (IF c.fallback THEN 1 ELSE 0)
      /\ UNCHANGED <<status, killed, meters, registered, created, layers, resumes>>
      /\ run[r] \in RunRecs /\ run' = [run EXCEPT ![r] = run[r]]
  BY DEF Succeed, Inv, TypeOK, RequestsCounted, RunRecs
<1>3. /\ c.escalations \in 0 .. MAX_ESCALATIONS /\ c.tries \in 0 .. MAX_RETRIES
      /\ c.requests \in Nat /\ c.fallback \in BOOLEAN /\ c.tier \in TIER_ORDER
      /\ c.size \in 1 .. MaxSize
  BY <1>2 DEF Calls
<1>4. PICK x \in {"layer", "escalate"}, d \in Calls :
        pc' = [pc EXCEPT ![r] = x] /\ call' = [call EXCEPT ![r] = d] /\ Counted(x, d)
  <2>1. CASE escalates(c, low)
    <3>. DEFINE d1 == [c EXCEPT !.tier = nextTier(@), !.escalations = @ + 1]
    <3>1. nextTier(c.tier) \in TIER_ORDER /\ c.escalations + 1 \in 0 .. MAX_ESCALATIONS
      BY <1>3, <2>1, Constants DEF escalates, nextTier, TIER_ORDER, TopTier
    <3>2. d1 \in Calls /\ d1.requests = c.requests /\ d1.escalations = c.escalations + 1
      BY <1>2, <3>1 DEF Calls
    <3>3. call' = [call EXCEPT ![r] = d1] /\ pc' = [pc EXCEPT ![r] = "escalate"]
      BY <1>1, <2>1 DEF Inv, TypeOK
    <3>. HIDE DEF d1
    <3>4. Counted("escalate", d1)
      BY <1>2, <1>3, <3>2, RequestRoom, Constants DEF Counted, TierRequests
    <3>. QED BY <3>2, <3>3, <3>4
  <2>2. CASE ~escalates(c, low)
    BY <1>1, <2>2, NoCallTyped DEF Counted
  <2>. QED BY <2>1, <2>2
<1>5. x \in PCs /\ pc[r] # "idle" /\ x # "attempt"
  BY <1>2, <1>4 DEF PCs
<1>6. r \in Unchecked /\ Unchecked' = Unchecked \ {r}
  BY <1>2, <1>4 DEF Unchecked, Inv, TypeOK
<1>7. \A q \in Unchecked \ {r} : call'[q].size = call[q].size
  BY <1>4 DEF Unchecked, Inv, TypeOK
<1>8. CASE registered = 0
  <2>1. UNCHANGED spent /\ spent' \in [Meters -> [tokens : Nat, usd : Nat]]
    BY <1>1, <1>8 DEF account, Inv, TypeOK
  <2>2. TypeOK' /\ AttemptsLeft' /\ RequestsCounted' /\ GuardArmed' /\ Metered'
    BY <1>2, <1>4, <1>5, <2>1, RunStep
  <2>3. Ahead'
    BY <1>2, <1>8, <2>1, AheadKept DEF Inv
  <2>. QED BY <2>2, <2>3 DEF Inv
<1>9. CASE registered # 0
  <2>. DEFINE s == spent[registered]
  <2>1. registered \in Meters /\ s \in [tokens : Nat, usd : Nat] /\ registered <= created
    BY <1>9, Constants DEF Inv, TypeOK, Meters
  <2>2. n \in Nat /\ n <= c.size + Drift /\ n * Rate[c.model] \in Nat
    <3>1. n \in Nat /\ n <= c.size + Drift /\ Rate[c.model] \in Nat
      BY <1>2, <1>3, Constants, PriceAssumption
    <3>. QED BY <3>1, MulMono
  <2>. DEFINE w == [tokens |-> s.tokens + n, usd |-> s.usd + n * Rate[c.model]]
  <2>3. w \in [tokens : Nat, usd : Nat] /\ w.tokens = s.tokens + n
    BY <2>1, <2>2
  <2>4. spent' = [spent EXCEPT ![registered] = w]
    BY <1>1, <1>9 DEF account, record, Usage
  <2>. HIDE DEF w
  <2>5. spent' \in [Meters -> [tokens : Nat, usd : Nat]]
    BY <2>1, <2>3, <2>4 DEF Inv, TypeOK
  <2>6. /\ spent'[registered].tokens = spent[registered].tokens + n
        /\ \A m \in Meters \ {registered} : spent'[m].tokens = spent[m].tokens
    BY <2>1, <2>3, <2>4 DEF Inv, TypeOK
  <2>7. TypeOK' /\ AttemptsLeft' /\ RequestsCounted' /\ GuardArmed' /\ Metered'
    BY <1>2, <1>4, <1>5, <2>1, <2>5, <2>6, RunStep
  <2>8. Ahead'
    BY <1>2, <1>6, <1>7, <1>9, <2>2, <2>6, AheadRecord DEF Inv
  <2>. QED BY <2>7, <2>8 DEF Inv
<1>. QED BY <1>8, <1>9
-----------------------------------------------------------------------------
(* Starting, killing and resuming *)

LEMMA StartLayerInv == ASSUME Inv, NEW r \in Runs, StartLayer(r) PROVE Inv'
<1>. USE DEF Inv
<1>1. /\ created' \in 1 .. (MaxResumes + 1) /\ created <= created' /\ created \in Nat
      /\ meters' \in 1 .. created' /\ registered' = meters'
      /\ meters # 0 => UNCHANGED <<created, meters, registered>>
      /\ meters = 0 => created' = created + 1 /\ meters' = created'
      /\ UNCHANGED <<status, killed, spent, call, resumes>>
  BY Constants DEF StartLayer, TypeOK, Metered
<1>. DEFINE v == [NoRun EXCEPT !.meter = meters']
<1>2. /\ v \in [meter : 0 .. created', attempt : 0 .. ATTEMPTS, calls : 0 .. MaxCalls,
                 aborted : BOOLEAN]
      /\ v.meter = registered'
  <2>1. meters' \in 0 .. created' /\ 0 \in 0 .. ATTEMPTS /\ 0 \in 0 .. MaxCalls
    BY <1>1, Constants
  <2>. QED BY <1>1, <2>1 DEF NoRun
<1>3. run' = [run EXCEPT ![r] = v] /\ pc' = [pc EXCEPT ![r] = "attempt"] /\ v.attempt = 0
  BY DEF StartLayer, NoRun
<1>. HIDE DEF v
<1>4. TypeOK'
  <2>1. \A q \in Runs : run[q] \in [meter : 0 .. created', attempt : 0 .. ATTEMPTS,
                                      calls : 0 .. MaxCalls, aborted : BOOLEAN]
    BY <1>1 DEF TypeOK
  <2>2. run' \in [Runs -> [meter : 0 .. created', attempt : 0 .. ATTEMPTS,
                            calls : 0 .. MaxCalls, aborted : BOOLEAN]]
    BY <1>2, <1>3, <2>1 DEF TypeOK
  <2>3. layers' \in 0 .. MaxLayers
    BY Constants DEF StartLayer, TypeOK
  <2>4. /\ created' \in 0 .. (MaxResumes + 1)
        /\ meters' \in 0 .. created' /\ registered' \in 0 .. created'
    BY <1>1, Constants
  <2>5. pc' \in [Runs -> PCs]
    BY <1>3 DEF TypeOK, PCs
  <2>. QED BY <1>1, <2>2, <2>3, <2>4, <2>5 DEF TypeOK
<1>5. Metered'
  <2>1. created' <= resumes + 1 /\ resumes \in Nat
    <3>1. status = "running" /\ created \in Nat /\ resumes \in Nat
      BY DEF StartLayer, TypeOK
    <3>2. CASE meters = 0
      BY <1>1, <3>1, <3>2 DEF Metered
    <3>3. CASE meters # 0
      BY <1>1, <3>1, <3>3 DEF Metered
    <3>. QED BY <3>2, <3>3
  <2>2. \A m \in Meters : m > created' => m > created
    BY <1>1 DEF Meters
  <2>3. meters' # 0
    BY <1>1
  <2>4. created' \in Nat /\ created' <= resumes' + 1 /\ resumes' \in Nat
    BY <1>1, <2>1, Constants
  <2>5. \A m \in Meters : m > created' => spent'[m].tokens = 0
    BY <1>1, <2>2 DEF Metered
  <2>. QED BY <1>1, <2>3, <2>4, <2>5 DEF Metered, Meters
<1>6. AttemptsLeft'
  BY <1>3, Constants DEF AttemptsLeft, TypeOK
<1>7. RequestsCounted'
  BY <1>1, <1>3 DEF RequestsCounted, TypeOK
<1>8. GuardArmed'
  BY <1>1, <1>2, <1>3 DEF GuardArmed, TypeOK, Metered
<1>9. Ahead'
  <2>1. CASE meters # 0
    <3>1. Unchecked' \subseteq Unchecked
      BY <1>1, <1>3, <2>1 DEF Unchecked, TypeOK
    <3>. QED BY <1>1, <2>1, <3>1, AheadKept
  <2>2. CASE meters = 0
    <3>1. registered' \in Meters /\ registered' > created
      BY <1>1, <2>2, Constants DEF Meters
    <3>2. spent'[registered'].tokens = 0
      BY <1>1, <3>1 DEF Metered
    <3>3. Unchecked' \subseteq Runs \ {r}
      BY <1>3 DEF Unchecked, TypeOK
    <3>4. Cardinality(Runs \ {r}) = Cardinality(Runs) - 1
      BY RemoveCount
    <3>5. Cardinality(Unchecked') \in Nat /\ Cardinality(Unchecked') <= Cardinality(Runs) - 1
      BY <3>3, <3>4, SubCount
    <3>6. Cardinality(Unchecked') * MaxCallTokens <= (Cardinality(Runs) - 1) * MaxCallTokens
          /\ Cardinality(Unchecked') * MaxCallTokens \in Nat
      BY <3>5, RunsCounted, MulMono
    <3>7. 0 + Cardinality(Unchecked') * MaxCallTokens <= Ceiling
      BY <3>6, RunsCounted, Constants DEF Ceiling
    <3>. QED BY <1>1, <3>2, <3>7 DEF Ahead
  <2>. QED BY <2>1, <2>2
<1>. QED BY <1>4, <1>5, <1>6, <1>7, <1>8, <1>9

LEMMA KillInv == ASSUME Inv, Kill PROVE Inv'
<1>. USE DEF Inv
<1>1. run' \in [Runs -> RunRecs] /\ \A r \in Runs : run'[r].attempt = run[r].attempt
  BY DEF Kill, TypeOK, RunRecs
<1>2. TypeOK'
  BY <1>1 DEF Kill, TypeOK, RunRecs, cleanup
<1>3. Metered'
  BY Constants DEF Kill, Metered, TypeOK, cleanup
<1>4. AttemptsLeft' /\ RequestsCounted'
  BY <1>1 DEF Kill, AttemptsLeft, RequestsCounted
<1>5. Ahead'
  BY AheadKept DEF Kill, cleanup
<1>6. GuardArmed'
  BY DEF Kill, GuardArmed
<1>. QED BY <1>2, <1>3, <1>4, <1>5, <1>6

LEMMA ResumeInv == ASSUME Inv, Resume PROVE Inv'
<1>. USE DEF Inv
<1>1. TypeOK'
  BY Constants DEF Resume, TypeOK
<1>2. Metered'
  BY Constants DEF Resume, Metered, TypeOK
<1>3. AttemptsLeft' /\ RequestsCounted'
  BY DEF Resume, AttemptsLeft, RequestsCounted
<1>4. Unchecked' = Unchecked
  BY DEF Resume, Unchecked
<1>5. Ahead'
  BY <1>4 DEF Resume, Ahead
<1>6. GuardArmed'
  BY Constants DEF Resume, GuardArmed, TypeOK
<1>. QED BY <1>1, <1>2, <1>3, <1>5, <1>6

LEMMA InitInv == Init => Inv
<1>. SUFFICES ASSUME Init PROVE Inv
  OBVIOUS
<1>1. TypeOK
  <2>1. created = 0 /\ NoRun \in RunRecs
    <3>1. 0 \in 0 .. created /\ 0 \in 0 .. ATTEMPTS /\ 0 \in 0 .. MaxCalls
      BY Constants DEF Init
    <3>. QED BY <3>1 DEF NoRun, RunRecs, Init
  <2>2. run \in [Runs -> RunRecs] /\ call \in [Runs -> Calls] /\ pc \in [Runs -> PCs]
    BY <2>1, NoCallTyped DEF Init, PCs
  <2>3. spent \in [Meters -> [tokens : Nat, usd : Nat]]
    BY DEF Init
  <2>4. 0 \in 0 .. (MaxResumes + 1) /\ 0 \in 0 .. MaxLayers /\ 0 \in 0 .. MaxResumes /\ 0 \in 0 .. 0
    BY Constants
  <2>. QED BY <2>1, <2>2, <2>3, <2>4 DEF Init, TypeOK, RunRecs
<1>2. Metered
  BY Constants DEF Init, Metered, Meters
<1>3. AttemptsLeft /\ RequestsCounted /\ GuardArmed
  BY DEF Init, AttemptsLeft, RequestsCounted, GuardArmed
<1>4. Ahead
  BY RunsCounted DEF Init, Ahead
<1>. QED BY <1>1, <1>2, <1>3, <1>4 DEF Inv

LEMMA NextInv == Inv /\ [Next]_vars => Inv'
<1>. SUFFICES ASSUME Inv, [Next]_vars PROVE Inv'
  OBVIOUS
<1>1. CASE UNCHANGED vars
  BY <1>1 DEF vars, Inv, TypeOK, Metered, AttemptsLeft, RequestsCounted, Ahead, Unchecked,
              GuardArmed
<1>2. ASSUME NEW r \in Runs, Step(r) PROVE Inv'
  BY <1>2, AttemptInv, LayerThrowsInv, LayerReturnsInv, EnforceBudgetInv, CallInv, GuardInv,
     RefusedInv, FailInv, SucceedInv, EscalateInv DEF Step
<1>. QED BY <1>1, <1>2, StartLayerInv, KillInv, ResumeInv DEF Next

-----------------------------------------------------------------------------
(* The properties *)

\* Every variable has its type: attempts, retries and escalations stay within
\* their policies, the requests of one complete() within the product of them, and
\* the controller creates at most one meter per resume.
THEOREM TypeCorrect == Spec => []TypeOK
<1>1. Inv => TypeOK
  BY DEF Inv
<1>. QED BY <1>1, InitInv, NextInv, PTL DEF Spec

\* However many runs of a scan overlap, a hard-halted meter shows at most the
\* ceiling, the drift of one call and one whole call for each other run, although
\* the guard reads the meter before, and account writes it after, the request.
THEOREM SpendIsBounded == Spec => []OvershootBounded
<1>1. Inv => OvershootBounded
  BY DEF Inv, Ahead, OvershootBounded, Ceiling
<1>. QED BY <1>1, InitInv, NextInv, PTL DEF Spec

\* Until the scan is halted, every run reads and writes the one registered meter:
\* no end, failure or start of a run takes the guard away from another.
THEOREM GuardStaysArmed == Spec => []GuardArmed
<1>1. Inv => GuardArmed
  BY DEF Inv
<1>. QED BY <1>1, InitInv, NextInv, PTL DEF Spec

\* A run whose signal is aborted changes nothing but the calls of the attempt it is
\* in, and ends.
LEMMA AbortedStep ==
  ASSUME Inv, [Next]_vars, NEW r \in Runs, pc[r] # "idle", run[r].aborted
  PROVE  pc'[r] = "idle" \/ run'[r] = [run[r] EXCEPT !.calls = run'[r].calls]
<1>1. run[r] \in RunRecs /\ pc \in [Runs -> PCs] /\ run \in [Runs -> RunRecs]
  BY DEF Inv, TypeOK, RunRecs
<1>2. CASE run'[r] = run[r]
  BY <1>1, <1>2 DEF RunRecs
<1>3. CASE Kill
  BY <1>1, <1>3 DEF Kill, RunRecs
<1>4. CASE Resume \/ UNCHANGED vars
  <2>1. run' = run
    BY <1>4, Zenon DEF Resume, vars
  <2> QED BY <1>2, <2>1
<1>5. ASSUME NEW q \in Runs, q # r, StartLayer(q) \/ Step(q) PROVE run'[r] = run[r]
  <2>1. CASE StartLayer(q) \/ EnforceBudget(q) \/ Attempt(q)
    BY <1>1, <1>5, <2>1 DEF StartLayer, EnforceBudget, Attempt, End
  <2>2. CASE LayerThrows(q) \/ Refused(q)
    BY <1>1, <1>5, <2>2 DEF LayerThrows, Refused, Throw, End
  <2>3. CASE LayerReturns(q) \/ Guard(q) \/ Succeed(q) \/ Escalate(q)
    <3>1. run' = run
      BY <2>3 DEF LayerReturns, Guard, Succeed, Escalate
    <3> QED BY <3>1
  <2>4. CASE Call(q)
    BY <1>1, <1>5, <2>4 DEF Call
  <2>5. CASE Fail(q)
    <3>1. run' = run \/ \E retriable \in BOOLEAN : Throw(q, retriable)
      BY <2>5, Zenon DEF Fail
    <3> QED BY <1>1, <1>5, <3>1 DEF Throw, End
  <2> QED BY <1>5, <2>1, <2>2, <2>3, <2>4, <2>5 DEF Step
<1>6. CASE Call(r)
  BY <1>1, <1>6 DEF Call, RunRecs
<1>7. CASE StartLayer(r) \/ (Step(r) /\ ~Call(r))
  BY <1>1, <1>2, <1>7 DEF StartLayer, Step, Attempt, LayerThrows, LayerReturns, EnforceBudget,
     Guard, Refused, Fail, Succeed, Escalate, Throw, End
<1>. QED BY <1>2, <1>3, <1>4, <1>5, <1>6, <1>7 DEF Next

\* Once its signal is aborted, runWithRetry starts no further attempt of a layer.
THEOREM NoAttemptOnceAborted == Spec => NoAttemptAfterAbort
<1>1. Inv /\ [Next]_vars =>
        [\A r \in Runs : pc[r] # "idle" /\ run[r].aborted =>
            pc'[r] = "idle" \/ run'[r] = [run[r] EXCEPT !.calls = run'[r].calls]]_vars
  BY AbortedStep
<1>. QED BY <1>1, InitInv, NextInv, PTL DEF Spec, NoAttemptAfterAbort
=============================================================================
