---------------------------- MODULE Confirmation ----------------------------
(***************************************************************************)
(* Layer 3 of a scan, on the output of Layer 2: the runner                 *)
(* (apps/worker/src/runners.ts),                                           *)
(* confirmFindings (packages/confirm/src/confirm.ts) with its static, live *)
(* and investigation paths, the scope guard every probe passes (guard.ts), *)
(* and the red-team scenarios of the purple-team loop (scenarios.ts,       *)
(* purple-loop.ts).                                                        *)
(*                                                                         *)
(* The layer is one asynchronous function: a step of the model is what     *)
(* runs between two awaits.  The kill switch fires between any two steps;  *)
(* LLM answers, HTTP responses, transport errors and test results are      *)
(* chosen by the environment.  Time matters to the rate limit only: Tick   *)
(* makes the recorded send times older.                                    *)
(***************************************************************************)
EXTENDS CorrelationRules

CONSTANTS
  Candidates,        \* the candidates of Layer 1
  CorrelatedMap,     \* the App Map they were correlated with
  Answers,           \* the scores a model may answer to the correlation of a root cause
  Marks,             \* the false-positive marks when Layer 2 ran
  LaterMarks,        \* the marks made between Layer 2 and Layer 3
  Shapes,            \* confirmed-exploit shapes learned from earlier scans
  AppMap,            \* the App Map confirmed against
  Jobs,              \* what the layer is called with: allowLive, stagingUrl, repoRoot
  Allowlist,         \* config.dast.allowlist
  Production,        \* the hosts that look like production
  Responses,         \* the responses a target may give
  Payloads,          \* the payloads a model may compose
  RequestCap,        \* config.dast.scope.maxRequestsPerScan
  MutatingCap,       \* config.dast.scope.maxMutatingRequests
  RPS,               \* config.dast.scope.maxRequestsPerSecond
  Window,            \* ticks of the rate-limit window
  MaxTurns,          \* config.confirmation.investigation.maxTurns
  Verifiers,         \* config.confirmation.investigation.verifierCount
  Severities,        \* config.confirmation.investigation.severities
  Scenario,          \* the scenario selected for each category, or NoScenario
  NoScenario,
  MAX_ADAPTIVE_ROUNDS,
  MaxCrashes         \* bound: crashes of the worker while the layer runs

\* Candidates, answers and scenarios have the shape of their schemas, and the
\* limits the range of theirs (config/src/schema.ts).  Nothing is assumed of the
\* App Maps, the marks, the responses and the payloads.
ASSUME ConfirmationAssumption ==
  /\ Candidates \in Seq([category : Categories, file : STRING, line : Nat,
                         rawSeverity : DOMAIN SEVERITY_WEIGHT, sanitized : BOOLEAN,
                         pkg : STRING, ruleId : STRING])
  /\ \A a \in Answers : /\ a.reach = <<>> \/ a.reach[1] \in Int
                        /\ a.impact = <<>> \/ a.impact[1] \in Int
  /\ \A j \in Jobs : j.allowLive \in BOOLEAN /\ j.repoRoot \in BOOLEAN
  /\ \A c \in Categories : Scenario[c] # NoScenario => Scenario[c].steps \in Seq(STRING)
  /\ RequestCap \in Nat /\ MutatingCap \in Nat /\ RPS \in Nat \ {0} /\ Window \in Nat \ {0}
  /\ MaxTurns \in Nat \ {0} /\ Verifiers \in Nat \ {0}
  /\ MAX_ADAPTIVE_ROUNDS \in Nat /\ MaxCrashes \in Nat

VARIABLES
  probable,     \* the output of Layer 2: the findings, highest priority first
  job,          \* the arguments of the layer
  killed,       \* signal.aborted
  crashes,      \* crashes so far
  pc,           \* what the layer waits for
  cur,          \* index of the finding in rank order, then in confirmed
  confirmed,    \* pairs of a finding and how it was confirmed
  unconfirmed,  \* the appendix
  guard,        \* the counters of the scope guard
  w,            \* what is known of the finding at hand
  atKill        \* findings classified when the kill switch fired

vars == <<probable, job, killed, crashes, pc, cur, confirmed, unconfirmed, guard, w,
          atKill>>
layer == <<probable, job, killed, crashes, atKill>>
results == <<confirmed, unconfirmed>>

\* A send time is the number of the request and its age.
NoGuard == [on |-> FALSE, total |-> 0, mutating |-> 0, sendTimes |-> {}]
NewGuard == [NoGuard EXCEPT !.on = TRUE]
NoWork == [static |-> "none", live |-> FALSE, mode |-> "fixed", probes |-> <<>>,
           base |-> <<>>, last |-> <<>>, round |-> 0, tried |-> 0,
           turn |-> 0, file |-> FALSE, test |-> "none", votes |-> 0, voters |-> 0, calls |-> 0]

finding == probable[cur]
category == finding.category
classified == Len(confirmed) + Len(unconfirmed)
findingIds == {probable[i].id : i \in DOMAIN probable}

Ended == {"done", "halted"}

Init ==
  /\ probable \in correlate(CorrelatedMap, Candidates, Marks, Shapes, Answers)
  /\ job \in Jobs
  /\ killed = FALSE /\ crashes = 0
  /\ pc = "start" /\ cur = 1
  /\ confirmed = <<>> /\ unconfirmed = <<>>
  /\ guard = NoGuard /\ w = NoWork
  /\ atKill = 0

-----------------------------------------------------------------------------
(* The kill switch, crashes, the start of the layer *)

\* KillSwitchActivatedError leaves the layer and ends its retries.
Halt ==
  /\ killed
  /\ pc' = "halted"
  /\ UNCHANGED <<layer, cur, results, guard, w>>

Kill ==
  /\ ~killed /\ pc \notin Ended
  /\ killed' = TRUE
  /\ atKill' = classified
  /\ UNCHANGED <<probable, job, crashes, pc, cur, results, guard, w>>

\* The worker dies and the job is redelivered: everything the layer held in
\* memory is gone; a scan that was killed meanwhile is not run again.
Crash ==
  /\ pc \notin Ended /\ crashes < MaxCrashes
  /\ crashes' = crashes + 1
  /\ pc' = IF killed THEN "halted" ELSE "start"
  /\ cur' = 1 /\ confirmed' = <<>> /\ unconfirmed' = <<>>
  /\ guard' = NoGuard /\ w' = NoWork
  /\ UNCHANGED <<probable, job, killed, atKill>>

\* assertLiveAuthorized, with dast.enabled and productionBlocked.
assertLiveAuthorized ==
  /\ job.allowLive
  /\ job.stagingUrl \in Allowlist
  /\ job.stagingUrl \notin Production

\* confirmFindings up to the loop; the retry loop looks at the signal first.
Start ==
  /\ pc = "start" /\ ~killed
  /\ pc' = "finding"
  /\ guard' = IF assertLiveAuthorized THEN NewGuard ELSE NoGuard
  /\ UNCHANGED <<layer, cur, results, w>>

-----------------------------------------------------------------------------
(* One finding *)

confirm(via) ==
  /\ confirmed' = Append(confirmed, <<finding.id, via>>)
  /\ pc' = "classified"
  /\ UNCHANGED unconfirmed
toUnconfirmed ==
  /\ unconfirmed' = Append(unconfirmed, finding.id)
  /\ pc' = "classified"
  /\ UNCHANGED confirmed
goto(label) == pc' = label /\ UNCHANGED results

\* Layer 3 passes no rule to the marks.
knownFalsePositive == isKnownFalsePositive(Marks \cup LaterMarks, finding, "none")

\* Variant of TakeFinding: the kill switch is left to the probes.
TakeFinding_NoKillCheck ==
  /\ pc = "finding" /\ cur <= Len(probable)
  /\ IF knownFalsePositive \/ ruledOut(AppMap, finding)
     THEN toUnconfirmed
     ELSE goto("static")
  /\ UNCHANGED <<layer, cur, guard, w>>

\* Variant of TakeFinding: a finding ruled out is skipped, not reported.
TakeFinding_Skips ==
  /\ pc = "finding" /\ cur <= Len(probable)
  /\ ~killed
  /\ goto(IF knownFalsePositive \/ ruledOut(AppMap, finding)
          THEN "classified" ELSE "static")
  /\ UNCHANGED <<layer, cur, guard, w>>

\* The top of the loop: kill switch, known false positives, the structural gate.
TakeFinding ==
  /\ pc = "finding" /\ cur <= Len(probable)
  /\ ~killed
  /\ IF knownFalsePositive \/ ruledOut(AppMap, finding)
     THEN toUnconfirmed
     ELSE goto("static")
  /\ UNCHANGED <<layer, cur, guard, w>>

\* Variant of NextFinding: the state of one finding leaks into the next.
NextFinding_KeepsWork ==
  /\ pc = "classified"
  /\ pc' = "finding" /\ cur' = cur + 1
  /\ UNCHANGED <<layer, results, guard, w>>

\* The loop goes on: the locals of the finding are gone.
NextFinding ==
  /\ pc = "classified"
  /\ pc' = "finding" /\ cur' = cur + 1 /\ w' = NoWork
  /\ UNCHANGED <<layer, results, guard>>

\* confirmStatic: without a data flow there is nothing to review; with one the
\* model may veto the proof, and a review that fails keeps it.
Static ==
  /\ pc = "static"
  /\ IF reachable(AppMap, finding)
     THEN \E verdict \in {"confirmed", "vetoed"} :
             w' = [w EXCEPT !.static = verdict, !.calls = @ + 1]
     ELSE w' = [w EXCEPT !.static = "unproven"]
  /\ goto("live")
  /\ UNCHANGED <<layer, cur, guard>>

isEligibleForInvestigation ==
  BASE_SEVERITY[category] \in Severities \/ finding.priorShape

\* A live proof first, then the static one, then the investigation; the locals
\* of a live attempt that failed are gone.
Settle ==
  /\ pc = "settle"
  /\ \/ w.live /\ confirm("live")
     \/ ~w.live /\ w.static = "confirmed" /\ confirm("static")
     \/ /\ ~w.live /\ w.static # "confirmed"
        /\ IF isEligibleForInvestigation THEN goto("turn") ELSE toUnconfirmed
  /\ w' = IF w.live THEN w
          ELSE [NoWork EXCEPT !.static = w.static, !.calls = w.calls]
  /\ UNCHANGED <<layer, cur, guard>>

-----------------------------------------------------------------------------
(* confirmLive and the scope guard *)

\* confirmLive from the session on.
probeWith(session) ==
  LET probes == craftProbes(category, session)
  IN /\ w' = [w EXCEPT !.probes = probes]
     /\ goto(IF probes = <<>> THEN "settle" ELSE "gate")

needsAuth ==
  LET route == findRoute(AppMap, finding)
  IN route # <<>> /\ route[1].authState \in {"authenticated", "role_gated"}

Live ==
  /\ pc = "live"
  /\ IF ~guard.on \/ category \notin LIVE_CONFIRMABLE_CATEGORIES
     THEN goto("settle") /\ UNCHANGED w
     ELSE IF needsAuth THEN goto("login") /\ UNCHANGED w
     ELSE probeWith("none")
  /\ UNCHANGED <<layer, cur, guard>>

\* The kill switch is looked at once, then a browser is launched.
Login ==
  /\ pc = "login" /\ ~killed
  /\ goto("browser")
  /\ UNCHANGED <<layer, cur, guard, w>>

\* The browser asks the target for its login page, past the guard and whatever
\* the signal says by now, or cannot be launched.
Browse ==
  /\ pc = "browser"
  /\ goto("page") \/ goto("settle")
  /\ UNCHANGED <<layer, cur, guard, w>>

\* The page has come; a login that fails leaves the finding to its static proof.
LoggedIn ==
  /\ pc = "page"
  /\ \/ goto("settle") /\ UNCHANGED w
     \/ \E session \in {"bare", "headers"} : probeWith(session)
  /\ UNCHANGED <<layer, cur, guard>>

mutating(p) == p.method \in MUTATING_METHODS

\* Variant of assertProbeAllowed: the request cap is off by one.
assertProbeAllowed_OneMore(p) ==
  /\ guard.total <= RequestCap
  /\ mutating(p) => guard.mutating < MutatingCap
  /\ job.stagingUrl \in Allowlist /\ job.stagingUrl \notin Production

\* assertProbeAllowed after the kill switch: caps, allowlist, production.
assertProbeAllowed(p) ==
  /\ guard.total < RequestCap
  /\ mutating(p) => guard.mutating < MutatingCap
  /\ job.stagingUrl \in Allowlist /\ job.stagingUrl \notin Production

\* throttle: as many sends in the window as the limit allows.
throttled == Cardinality(guard.sendTimes) >= RPS

\* What follows a probe that was refused or went wrong for good.
Abandon(g) ==
  /\ guard' = g
  /\ IF w.mode = "scenario"
     THEN goto("purple") /\ cur' = cur + 1 /\ w' = NoWork
     ELSE goto("settle") /\ UNCHANGED <<cur, w>>

\* transport.send: the request leaves the process.
Send ==
  /\ goto("inflight")
  /\ UNCHANGED <<layer, cur, guard, w>>

\* The gate before a probe, with the throttle.
Gate ==
  /\ pc = "gate" /\ ~killed
  /\ \/ /\ ~assertProbeAllowed(Head(w.probes))
        /\ Abandon(guard)
        /\ UNCHANGED layer
     \/ /\ assertProbeAllowed(Head(w.probes)) /\ throttled
        /\ goto("sleep")
        /\ UNCHANGED <<layer, cur, guard, w>>
     \/ assertProbeAllowed(Head(w.probes)) /\ ~throttled /\ Send

\* Variant of Wake: the kill switch is not looked at after the sleep.
Wake_NoKillCheck == pc = "sleep" /\ ~throttled /\ Send

\* The oldest send has left the window.
Wake == pc = "sleep" /\ ~killed /\ ~throttled /\ Send

\* The kill switch at a gate or in the sleep: it halts the layer, but one of
\* the purple-team loop only skips the scenario.
KilledAtGate ==
  /\ pc \in {"gate", "sleep"} /\ killed
  /\ IF w.mode = "scenario" THEN Abandon(guard) /\ UNCHANGED layer ELSE Halt

\* What follows a probe: the next one, or the verdict.
afterProbe == IF w.mode # "adaptive" /\ Len(w.probes) > 1 THEN "gate" ELSE "verdict"

\* The response of a probe that belongs to a finding is recorded and collected.
Response ==
  /\ pc = "inflight"
  /\ \E r \in Responses :
       LET p == Head(w.probes)
           g == [guard EXCEPT !.total = @ + 1,
                              !.mutating = IF mutating(p) THEN @ + 1 ELSE @,
                              !.sendTimes = @ \cup {<<guard.total, 0>>}]
       IN IF w.mode = "scenario" /\ Len(w.probes) = 1 THEN Abandon(g)
          ELSE /\ guard' = g
               /\ w' = [w EXCEPT !.probes = Tail(@),
                                 !.base = IF p.role = "baseline" THEN <<r>> ELSE @,
                                 !.last = IF p.role \in {"payload", "adaptive_payload"}
                                          THEN <<r>> ELSE @]
               /\ goto(afterProbe)
               /\ UNCHANGED cur
  /\ UNCHANGED layer

\* A transport error: the probe is skipped, nothing is recorded; a scenario ends.
TransportError ==
  /\ pc = "inflight"
  /\ IF w.mode = "scenario" THEN Abandon(guard)
     ELSE /\ w' = [w EXCEPT !.probes = Tail(@)]
          /\ goto(IF w.mode = "adaptive" THEN "round" ELSE afterProbe)
          /\ UNCHANGED <<cur, guard>>
  /\ UNCHANGED layer

\* The kill switch aborts the request in flight.
Abort ==
  /\ pc = "inflight" /\ killed
  /\ IF w.mode = "scenario" THEN Abandon(guard)
     ELSE goto("halted") /\ UNCHANGED <<cur, guard, w>>
  /\ UNCHANGED layer

\* The oracle on what was collected; an ambiguous miss goes to the model.
Verdict ==
  /\ pc = "verdict"
  /\ IF oracle(category, w.base, w.last)
     THEN w' = [w EXCEPT !.live = TRUE] /\ goto("settle")
     ELSE /\ UNCHANGED w
          /\ goto(IF isAmbiguous(category, w.base, w.last) THEN "round" ELSE "settle")
  /\ UNCHANGED <<layer, cur, guard>>

-----------------------------------------------------------------------------
(* runAdaptiveLoop *)

exhausted == w.tried = PAYLOAD_VARIANTS[category]
composable == category \in COMPOSABLE_LIVE_CATEGORIES

\* Variant of Round: a round that sent nothing is not counted.
Round_CountsResponses ==
  /\ pc = "round" /\ ~killed
  /\ IF w.round = MAX_ADAPTIVE_ROUNDS \/ (~composable /\ exhausted)
     THEN goto("settle") /\ UNCHANGED w
     ELSE /\ w' = [w EXCEPT !.round = IF @ = 0 THEN 1 ELSE @, !.calls = @ + 1]
          /\ goto("choose")
  /\ UNCHANGED <<layer, cur, guard>>

\* A round asks the model for a variant or, in some categories, a payload.
Round ==
  /\ pc = "round" /\ ~killed
  /\ IF w.round = MAX_ADAPTIVE_ROUNDS \/ (~composable /\ exhausted)
     THEN goto("settle") /\ UNCHANGED w
     ELSE /\ w' = [w EXCEPT !.round = @ + 1, !.calls = @ + 1]
          /\ goto("choose")
  /\ UNCHANGED <<layer, cur, guard>>

\* The answer: no usable choice, a variant not tried yet, or a composed payload
\* that passes the safety predicate.
Choose ==
  /\ pc = "choose" /\ ~killed
  /\ \/ goto("settle") /\ UNCHANGED w
     \/ /\ ~exhausted
        /\ w' = [w EXCEPT !.tried = @ + 1, !.mode = "adaptive",
                          !.probes = << adaptiveProbe(category) >>]
        /\ goto("gate")
     \/ /\ composable
        /\ \E p \in Payloads : evaluateComposedPayloadSafety(category, p)
        /\ w' = [w EXCEPT !.mode = "adaptive", !.probes = << adaptiveProbe(category) >>]
        /\ goto("gate")
  /\ UNCHANGED <<layer, cur, guard>>

-----------------------------------------------------------------------------
(* attemptInvestigationConfirmation *)

\* A turn: a stream, and complete() when it gave no tool call.  The answer is
\* more tool calls, a conclusion, or nothing usable.
Turn ==
  /\ pc = "turn" /\ ~killed
  /\ IF w.turn = turnsCap(MaxTurns, finding.score)
     THEN toUnconfirmed /\ UNCHANGED w
     ELSE \E calls \in 1 .. 2 :
            \/ w' = [w EXCEPT !.turn = @ + 1, !.calls = @ + calls] /\ goto("turn")
            \/ \E file \in BOOLEAN :
                 /\ w' = [w EXCEPT !.turn = @ + 1, !.calls = @ + calls, !.file = file]
                 /\ goto("evidence")
            \/ w' = [w EXCEPT !.turn = @ + 1, !.calls = @ + calls] /\ toUnconfirmed
  /\ UNCHANGED <<layer, cur, guard>>

\* gatherExecutableEvidence: the named test is run in the checkout and must fail.
Evidence ==
  /\ pc = "evidence"
  /\ \E test \in {"fails", "passes", "not run"} :
       /\ w' = [w EXCEPT !.test = test]
       /\ IF job.repoRoot /\ w.file /\ test = "fails" THEN goto("verify") ELSE toUnconfirmed
  /\ UNCHANGED <<layer, cur, guard>>

\* One verifier after the other; a verifier that fails rejects.
Verify ==
  /\ pc = "verify"
  /\ \E vote \in 0 .. 1 :
       /\ w' = [w EXCEPT !.voters = @ + 1, !.votes = @ + vote, !.calls = @ + 1]
       /\ IF w.voters + 1 < Verifiers THEN goto("verify")
          ELSE IF w.votes + vote >= requiredVotes(Verifiers) THEN confirm("investigation")
          ELSE toUnconfirmed
  /\ UNCHANGED <<layer, cur, guard>>

-----------------------------------------------------------------------------
(* The purple-team loop of the runner *)

\* confirmFindings returns; the runner goes on to the scenarios.
Output ==
  /\ pc = "finding" /\ cur > Len(probable)
  /\ goto(IF job.allowLive /\ confirmed # <<>> THEN "purple" ELSE "done")
  /\ cur' = 1
  /\ UNCHANGED <<layer, guard, w>>

\* runPurpleTeamVerification: the scenario of the next confirmed finding, under
\* a scope guard of its own; the list of scenarios may fail to load.
NextScenario ==
  /\ pc = "purple" /\ cur <= Len(confirmed)
  /\ LET s == Scenario[confirmed[cur][1][1]] IN
     IF s # NoScenario /\ assertLiveAuthorized /\ s.steps # <<>>
     THEN /\ guard' = NewGuard
          /\ w' = [NoWork EXCEPT !.mode = "scenario",
                                 !.probes = [i \in DOMAIN s.steps |-> probe(s.steps[i], "step")]]
          /\ goto("gate")
          /\ UNCHANGED cur
     ELSE cur' = cur + 1 /\ goto("purple") /\ UNCHANGED <<w, guard>>
  /\ UNCHANGED layer
Done ==
  /\ pc = "purple"
  /\ cur > Len(confirmed) \/ cur = 1
  /\ goto("done")
  /\ UNCHANGED <<layer, cur, guard, w>>

\* Variant of Tick: sends that left the window are not dropped.
Tick_NoPrune ==
  /\ guard.sendTimes # {} /\ pc \notin Ended
  /\ guard' = [guard EXCEPT !.sendTimes =
                 {<<s[1], IF s[2] < Window THEN s[2] + 1 ELSE s[2]>> : s \in @}]
  /\ UNCHANGED <<layer, pc, cur, results, w>>

\* Time passes for the rate limit.
Tick ==
  /\ guard.sendTimes # {} /\ pc \notin Ended
  /\ guard' = [guard EXCEPT !.sendTimes =
                 {<<s[1], s[2] + 1>> : s \in {x \in @ : x[2] + 1 < Window}}]
  /\ UNCHANGED <<layer, pc, cur, results, w>>

-----------------------------------------------------------------------------
\* The points of the code that look at the signal and throw.
KilledAtCheck ==
  /\ \/ pc \in {"start", "login", "round", "choose", "turn"}
     \/ pc = "finding" /\ cur <= Len(probable)
  /\ Halt

Step ==
  \/ Start \/ TakeFinding \/ NextFinding \/ Static \/ Settle
  \/ Live \/ Login \/ Browse \/ LoggedIn \/ Gate \/ Wake \/ KilledAtGate \/ KilledAtCheck
  \/ Response \/ TransportError \/ Abort \/ Verdict
  \/ Round \/ Choose \/ Turn \/ Evidence \/ Verify
  \/ Output \/ NextScenario \/ Done

Next == Step \/ Kill \/ Crash \/ Tick

Spec == Init /\ [][Next]_vars

\* Requests and model calls time out, so the layer's own steps are taken, and
\* time passes; nothing is assumed of the kill switch or of crashes.
FairSpec == Spec /\ WF_vars(Step) /\ WF_vars(Tick)

-----------------------------------------------------------------------------
(* Properties *)

Labels == {"start", "finding", "static", "live", "login", "browser", "page", "gate", "sleep", "inflight",
           "verdict", "round", "choose", "settle", "turn", "evidence", "verify",
           "classified", "purple"} \cup Ended

\* The model calls one finding may cost: its review, the rounds of the adaptive
\* loop, two per turn of the investigation and one per verifier.
MaxLlmCalls == 1 + MAX_ADAPTIVE_ROUNDS + 2 * ABSOLUTE_MAX_INVESTIGATION_TURNS + Verifiers

\* Type correctness of the layer's state: the rounds, turns, verifiers and model
\* calls of a finding stay within their bounds, also when rounds send nothing and
\* streams come back empty, the send times within the window.
TypeOK ==
  /\ job \in Jobs /\ killed \in BOOLEAN /\ crashes \in 0 .. MaxCrashes
  /\ pc \in Labels /\ cur \in 1 .. Len(probable) + 1
  /\ confirmed \in Seq(findingIds \X {"live", "static", "investigation"})
  /\ unconfirmed \in Seq(findingIds)
  /\ guard.on \in BOOLEAN /\ guard.total \in Nat /\ guard.mutating \in 0 .. guard.total
  /\ guard.sendTimes \subseteq Nat \X (0 .. Window - 1)
  /\ w.static \in {"none", "unproven", "vetoed", "confirmed"}
  /\ w.mode \in {"fixed", "adaptive", "scenario"}
  /\ w.round \in 0 .. MAX_ADAPTIVE_ROUNDS
  /\ w.turn \in 0 .. ABSOLUTE_MAX_INVESTIGATION_TURNS
  /\ w.votes \in 0 .. w.voters /\ w.voters \in 0 .. Verifiers
  /\ w.calls \in 0 .. MaxLlmCalls
  /\ atKill \in 0 .. Len(probable)

\* The caps hold for the requests a scope guard has recorded and for the one
\* that left and is not recorded yet: the check before a probe and the record
\* after its response are not one step (assertProbeAllowed, throttle, record).
CapsHeld ==
  LET pending == IF pc = "inflight" THEN 1 ELSE 0
      pendingMutating == IF pc = "inflight" /\ mutating(Head(w.probes)) THEN 1 ELSE 0
  IN /\ guard.total + pending <= RequestCap
     /\ guard.mutating + pendingMutating <= MutatingCap

\* A guard never has more recorded sends in a window than the rate allows, with
\* the throttle's sleep between its look at the times and the send (throttle).
RateHeld == Cardinality(guard.sendTimes) <= RPS

\* A request, a probe or the browser's for the login page, leaves the process only
\* for a scan with live tests approved against an allowlisted host that does not
\* look like production (assertLiveAuthorized).
ProbesAuthorized ==
  pc \in {"inflight", "page"} =>
    job.allowLive /\ job.stagingUrl \in Allowlist /\ job.stagingUrl \notin Production

\* Every probe passed the whole guard: authorized, within the caps and within the
\* rate.  The login page is authorized, and neither counted nor throttled
\* (ScopeGuard, confirmLive, runScenario).
ProbesGuarded == CapsHeld /\ RateHeld /\ ProbesAuthorized

\* Once the kill switch has fired no probe leaves the process, whatever the layer
\* was waiting for (a model, a sleep, a scenario), and no browser login begins.
\* One whose browser is being launched goes on to its page: the driver does not
\* look at the signal it is given (ScopeGuard, defaultBrowserDriver).
NoProbeAfterKill ==
  [][killed => /\ pc # "inflight" => pc' # "inflight"
               /\ pc \notin {"browser", "page"} => pc' \notin {"browser", "page"}]_vars

\* The kill switch stops the layer within the finding at hand: at most one more
\* finding is classified after it fired (confirmFindings' loop).
KillPrompt == killed => classified <= atKill + 1

\* No candidate is lost or reported twice on its way through grouping, demotion,
\* ranking and confirmation: each is in the appendix of Layer 2 or merged into
\* exactly one finding (groupCandidates, correlate).
CandidatesKept ==
  LET demoted == demotedCandidates(CorrelatedMap, Candidates, Marks)
  IN \A c \in DOMAIN Candidates :
       Cardinality({i \in DOMAIN probable : c \in probable[i].merged})
         = IF c \in demoted THEN 0 ELSE 1

\* The model only nudges the ranking: a finding is never probed before one whose
\* App Map scores stay ahead when every score may move by a tenth (blendScore,
\* comparePending).
RankGrounded ==
  LET group(f) == CHOOSE g \in groupCandidates(CorrelatedMap, Candidates) : g.key = f.id
      capped(n, one) == IF n > one THEN one ELSE IF n < 0 THEN 0 ELSE n
      moved(f, tenths) ==
        LET g == group(f).grounding
        IN capped(reachabilityScoreFor(g) + 100 * tenths, 1000) * exposureScoreFor(g)
             * capped(impactScoreFor(group(f).rep, g) + 2000 * tenths, 20000)
  IN \A i, j \in DOMAIN probable :
       i < j => moved(probable[i], 1) >= moved(probable[j], -1)

\* Every finding up to the one at hand is classified exactly once and none is
\* left out when the layer completes (confirmFindings: each path ends in
\* confirmed or in the appendix); so every candidate of Layer 1 is accounted for
\* once, in an order grounded in the App Map.
ClassifiedOnce ==
  LET done == {confirmed[i][1] : i \in DOMAIN confirmed} \cup Range(unconfirmed)
      n == IF pc \in {"purple", "done"} \/ w.mode = "scenario" THEN Len(probable)
           ELSE IF pc = "classified" THEN cur ELSE cur - 1
  IN /\ pc = "start" => CandidatesKept /\ RankGrounded
     /\ pc # "halted" =>
          /\ done = {probable[i].id : i \in 1 .. n}
          /\ classified = n

\* A static proof the review did not veto is never lost: neither a live attempt
\* that fails, is refused by the guard or cannot log in, nor an exhausted budget
\* of probes puts the finding into the appendix (confirmFindings).
StaticFloor ==
  pc = "classified" /\ w.static = "confirmed" =>
    confirmed # <<>> /\ Last(confirmed)[1] = finding.id

\* A finding is confirmed only on evidence of its own: a response of this
\* finding that the oracle accepts, an unvetoed data flow, or a failing test in
\* the checkout and a strict majority of all verifiers
\* (attemptInvestigationConfirmation).
ConfirmedBacked ==
  pc = "classified" /\ confirmed # <<>> /\ Last(confirmed)[1] = finding.id =>
    LET via == Last(confirmed)[2] IN
    /\ ~knownFalsePositive /\ ~ruledOut(AppMap, finding)
    /\ via = "live" => guard.total > 0 /\ oracle(category, w.base, w.last)
    /\ via = "static" => w.static = "confirmed" /\ reachable(AppMap, finding)
    /\ via = "investigation" =>
         job.repoRoot /\ w.test = "fails" /\ w.voters = Verifiers /\ 2 * w.votes > Verifiers

\* A verdict follows the evidence in both directions, over every order in which
\* the review, live probes and investigation of a finding may fail.
VerdictBacked == StaticFloor /\ ConfirmedBacked

\* The layer ends: no loop of findings, rounds, turns, probes, sleeps or
\* scenarios goes on for ever.
LayerEnds == <>(pc \in Ended)
=============================================================================
