---------------------------- MODULE FixDelivery ----------------------------
(***************************************************************************)
(* Layers 4 and 5 of a scan: a fix is proposed, validated and classified   *)
(* for every confirmed finding (packages/fix/src), the fixes are stored,   *)
(* the fix gate is passed, and pull requests are opened for the            *)
(* auto-eligible ones (packages/report/src), each under the retry loop and *)
(* the persistence of the orchestrator.                                    *)
(*                                                                         *)
(* A step is what runs between two awaits.  Model answers, test runs, git  *)
(* and the pull-request API are chosen by the environment; the worker may  *)
(* crash anywhere, and the queue delivers the job once more, then gives it *)
(* up.  A resume adds a job only if the queue keeps none of that id.       *)
(***************************************************************************)
EXTENDS Integers, Sequences, FiniteSetsExt

CONSTANTS
  Finding,          \* the confirmed findings: category, language, file, what a fix finds there
  Confirmed,        \* their ids, in order
  Proposals,        \* per finding, the patches a model may propose: id, auth, lines, applies, and whether
                    \*   the patched source is rid of the vulnerable pattern (removes) and
                    \*   has the safe one (safe)
  Deterministic,    \* per finding, the patch of the strategy's own transform, or NoPatch
  NoPatch,
  Configs,          \* the deployments: opener ("none", "git" or "api"), agentLoop,
                    \*   maxIterations, maxToolCalls, containerProof, autoFix, approverRequired,
                    \*   humanRequiredCategoriesAlways
  Attempts,         \* RETRY_POLICIES.layer4/5.attempts
  MaxFaults,        \* bound: crashes, failed appends, failed git and API calls
  MaxStalls,        \* maxStalledCount: deliveries after a crash
  MaxResumes        \* bound: resumes that find no queued job

\* The shapes of findings, patches and deployments: every flag is a Boolean, a
\* file is plain, auth code or shared, and the limits are natural numbers.
ASSUME FixAssumption ==
  /\ Confirmed \in Seq(DOMAIN Finding)
  /\ DOMAIN Deterministic = DOMAIN Finding /\ DOMAIN Proposals = DOMAIN Finding
  /\ \A f \in DOMAIN Finding :
       /\ Finding[f].file \in {"plain", "auth", "shared"}
       /\ Finding[f].vulnerable \in BOOLEAN /\ Finding[f].safe \in BOOLEAN
       /\ Finding[f].readable \in BOOLEAN
  /\ \A f \in DOMAIN Finding : NoPatch \notin Proposals[f]
  /\ \A f \in DOMAIN Finding : \A c \in (Proposals[f] \cup {Deterministic[f]}) \ {NoPatch} :
       /\ c.auth \in BOOLEAN /\ c.lines \in Nat
       /\ c.applies \in BOOLEAN /\ c.removes \in BOOLEAN /\ c.safe \in BOOLEAN
  /\ \A c \in Configs :
       /\ c.agentLoop \in BOOLEAN /\ c.containerProof \in BOOLEAN
       /\ c.autoFix \in BOOLEAN /\ c.approverRequired \in BOOLEAN
       /\ c.maxIterations \in Nat /\ c.maxToolCalls \in Nat
  /\ Attempts \in Nat \ {0} /\ MaxFaults \in Nat
  /\ MaxStalls \in Nat /\ MaxResumes \in Nat

VARIABLES
  config,
  status,     \* status of the scan
  gateState,
  fixApproved, \* history: an approver has passed the fix gate
  job,        \* the current layer's job: "ready" until it returns, then kept
              \*   "completed", given up "failed", or "gone" from the queue
  stalls,     \* deliveries of it that a crash cost
  autoApply,  \* of the Layer 5 job
  loaded,     \* gateState of the Scan copy the delivery works on
  pc, attempt, cur,
  p,          \* the locals of generateOne; plans: the pull requests still to open
  out,        \* what the running layer has produced: fixes, then pull requests
  rows,       \* the Fix table
  prRows,     \* the PullRequest table
  auditedFixes, auditedPrs,
  local,      \* branches of the checkout
  remote,     \* branches of the client's repository
  prs,        \* pull requests of the client's repository, in order
  killed, faults, resumes

row == <<status, gateState, fixApproved>>
tables == <<rows, prRows, auditedFixes, auditedPrs>>
queue == <<job, stalls, autoApply>>
vcs == <<local, remote, prs>>
env == <<config, killed, faults, resumes>>
locals == <<loaded, pc, attempt, cur, p, out>>
vars == <<row, tables, queue, vcs, env, locals>>

Ended == {"completed", "failed", "cancelled"}
finding == Confirmed[cur]
Fault == faults < MaxFaults /\ faults' = faults + 1

-----------------------------------------------------------------------------
(* risk.ts *)

ALWAYS_HUMAN_REQUIRED_CATEGORIES ==
  {"broken_access_control", "broken_authentication", "weak_crypto", "idor", "csrf",
   "sensitive_data_exposure", "insecure_deserialization"}
AUTO_ELIGIBLE_CATEGORIES ==
  {"sql_injection", "nosql_injection", "xss", "permissive_cors", "insecure_cookie",
   "missing_security_headers", "open_redirect"}
MAX_AUTO_CHANGED_LINES == 40

\* deriveRiskSignals: the file of the finding is the only one a patch changes.
touchesAuthOrCrypto(f, patch) == Finding[f].file = "auth" \/ (patch # NoPatch /\ patch.auth)
wideBlastRadius(f, patch) ==
  Finding[f].file = "shared" \/ (patch # NoPatch /\ patch.lines > MAX_AUTO_CHANGED_LINES)

\* Deployment policy, then classifyFixRisk; an advisory fix is uncertain.
classifyConfirmedFindingRisk(f, patch, alwaysHumanCategories) ==
  IF /\ Finding[f].category \notin alwaysHumanCategories
     /\ ~touchesAuthOrCrypto(f, patch)
     /\ ~wideBlastRadius(f, patch)
     /\ patch # NoPatch
     /\ Finding[f].category \notin ALWAYS_HUMAN_REQUIRED_CATEGORIES
     /\ Finding[f].category \in AUTO_ELIGIBLE_CATEGORIES
  THEN "auto-eligible" ELSE "human-required"

-----------------------------------------------------------------------------
(* strategies.ts, patch.ts, container-validate.ts *)

FIX_STRATEGIES ==
  ({"sql_injection", "xss", "permissive_cors", "hardcoded_secret", "nosql_injection",
    "insecure_cookie", "missing_security_headers", "open_redirect"} \X {"js_ts"})
    \cup {<<"insecure_cookie", "python">>, <<"sql_injection", "python">>,
          <<"insecure_cookie", "jvm">>, <<"hardcoded_secret", "jvm">>}
pickStrategy(f) == <<Finding[f].category, Finding[f].language>> \in FIX_STRATEGIES

verdict(pre, post) == [failsPrePatch |-> pre, passesPostPatch |-> post]

\* renderProofTest: the vulnerable pattern is not in the source and the safe one,
\* if the strategy has one, is.
proofTest(vulnerable, safe) == ~vulnerable /\ safe

\* validatePatch: the proof test ran on both sources, or one run broke.
validatePatch(f, c) ==
  {verdict(~proofTest(Finding[f].vulnerable, Finding[f].safe),
           c.applies /\ proofTest(~c.removes, c.safe)),
   verdict(FALSE, FALSE)}

\* validatePatchWithContainerReplay: the replays reproduce the recorded
\* evidence or not; without live evidence, or when a container fails, the
\* proof test decides.
validatePatchWithContainerReplay(f, c) ==
  validatePatch(f, c) \cup
  IF Finding[f].live THEN {verdict(pre, c.applies /\ gone) : pre, gone \in BOOLEAN} ELSE {}

validations(f, c) ==
  IF config.containerProof THEN validatePatchWithContainerReplay(f, c) ELSE validatePatch(f, c)
accepted(v) == v.failsPrePatch /\ v.passesPostPatch

-----------------------------------------------------------------------------
NoWork == [source |-> FALSE, iters |-> 0, rounds |-> 0, calls |-> 0, last |-> NoPatch,
           candidates |-> <<>>, fix |-> <<>>, plans |-> {}]
newFix(f, patch) ==
  [finding |-> f, patch |-> patch, pr |-> 0,
   riskClass |-> classifyConfirmedFindingRisk(f, patch, config.humanRequiredCategoriesAlways)]

Init ==
  /\ config \in Configs
  /\ status = "running" /\ gateState = "estimate_approved" /\ fixApproved = FALSE
  /\ job = "ready" /\ stalls = 0 /\ autoApply = FALSE
  /\ loaded = gateState /\ pc = "start4" /\ attempt = 1 /\ cur = 1 /\ p = NoWork /\ out = <<>>
  /\ rows = [f \in Range(Confirmed) |-> <<>>] /\ prRows = {}
  /\ auditedFixes = {} /\ auditedPrs = {}
  /\ local = {} /\ remote = {} /\ prs = <<>>
  /\ killed = FALSE /\ faults = 0 /\ resumes = 0

\* A delivery or an attempt of a layer starts: its locals are empty.
begin(label, n) ==
  /\ pc' = label /\ attempt' = n
  /\ cur' = 1 /\ p' = NoWork /\ out' = <<>>
startOf == IF pc \in {"start4", "layer4", "propose", "validate", "audit4", "persist4"}
           THEN "start4" ELSE "start5"

\* runLayerJob returns, and the queue keeps the job as completed.
return(label) == job' = "completed" /\ begin(label, 1)

\* failScan writes the copy of the delivery over whatever the row says by now,
\* a kill included.  The checkpoint stays, so a resume starts at the failed layer.
failScan ==
  /\ status' = "failed" /\ gateState' = loaded
  /\ return(startOf)

\* Variant of Throw: the attempts are not counted.
Throw_Uncounted == begin(startOf, attempt) /\ UNCHANGED <<status, gateState, job>>

\* An attempt threw: runWithRetry tries again unless the kill switch is on or
\* the attempts are used up.
Throw ==
  IF killed THEN return(startOf) /\ UNCHANGED <<status, gateState>>
  ELSE IF attempt < Attempts THEN begin(startOf, attempt + 1) /\ UNCHANGED <<status, gateState, job>>
  ELSE failScan

\* The layer runs only under a scan that is running: runLayerJob and the top of
\* an attempt look, nothing within the layer does.
running == status = "running" /\ ~killed
AtStart == pc \in {"start4", "start5"} /\ job = "ready"

\* The row is read once per delivery; further attempts keep the copy.
load == loaded' = IF attempt = 1 THEN gateState ELSE loaded

BeginLayer4 ==
  /\ pc = "start4" /\ AtStart /\ running
  /\ pc' = "layer4" /\ load
  /\ UNCHANGED <<row, tables, queue, vcs, env, attempt, cur, p, out>>

\* A delivery, or an attempt, that finds the scan stopped.
Skip ==
  /\ AtStart /\ ~running
  /\ return(pc)
  /\ UNCHANGED <<row, tables, stalls, autoApply, loaded, vcs, env>>

-----------------------------------------------------------------------------
(* Layer 4: generateFixes *)

TakeFinding ==
  /\ pc = "layer4" /\ cur <= Len(Confirmed)
  /\ \E source \in {TRUE, Finding[finding].readable} : p' = [NoWork EXCEPT !.source = source]
  /\ pc' = "propose"
  /\ UNCHANGED <<row, tables, queue, vcs, env, loaded, attempt, cur, out>>

\* generateOne after the proposal: the candidates in the order they are tried.
candidates(patch) ==
  IF p.source /\ pickStrategy(finding)
  THEN (IF patch # NoPatch THEN <<patch>> ELSE <<>>) \o
       (IF Deterministic[finding] # NoPatch THEN <<Deterministic[finding]>> ELSE <<>>)
  ELSE <<>>

\* The proposal is made, and its locals are gone.
Propose(q, patch) ==
  /\ p' = [NoWork EXCEPT !.source = q.source, !.calls = q.calls, !.candidates = candidates(patch)]
  /\ pc' = "validate"

\* proposeFixWithLlm: one call, whatever it gives.
SingleShot ==
  \E patch \in Proposals[finding] \cup {NoPatch} : Propose([p EXCEPT !.calls = @ + 1], patch)

\* The loop's own oracle knows the vulnerable pattern only.
cheapPatchOracle(patch) == patch.applies /\ Finding[finding].vulnerable /\ patch.removes
oracleGiven == pickStrategy(finding) /\ p.source

\* Variant of AgentTurn: a reply that cannot be used costs no attempt.
AgentTurn_FreeRetries ==
  LET q == [p EXCEPT !.calls = @ + 1]
  IN \/ Propose(q, NoPatch)
     \/ p' = q /\ UNCHANGED pc
     \/ \E patch \in Proposals[finding] : Propose([q EXCEPT !.iters = @ + 1], patch)

maxIters == IF config.maxIterations < 1 THEN 1 ELSE config.maxIterations

\* proposeFixWithAgent, a turn: the call fails, the model reads a file, or it
\* proposes.  The last proposal is taken when the attempts are used up.
AgentTurn ==
  LET q == [p EXCEPT !.calls = @ + 1, !.iters = @ + 1]
      retry(patch) == IF q.iters < maxIters THEN p' = [q EXCEPT !.last = patch] /\ UNCHANGED pc
                      ELSE Propose(q, patch)
  IN \/ Propose([p EXCEPT !.calls = @ + 1], p.last)
     \/ /\ p.rounds < config.maxToolCalls
        /\ p' = [p EXCEPT !.calls = @ + 1, !.rounds = @ + 1] /\ UNCHANGED pc
     \/ retry(NoPatch)
     \/ ~oracleGiven /\ Propose(q, NoPatch)
     \/ \E patch \in Proposals[finding] :
          IF oracleGiven /\ ~cheapPatchOracle(patch) THEN retry(patch) ELSE Propose(q, patch)

ProposeFix ==
  /\ pc = "propose"
  /\ IF config.agentLoop THEN AgentTurn ELSE SingleShot
  /\ UNCHANGED <<row, tables, queue, vcs, env, loaded, attempt, cur, out>>

\* Variant of Validate: the first candidate is shipped once any validates.
Validate_ShipsFirst ==
  /\ pc = "validate"
  /\ p' = [p EXCEPT !.fix = << newFix(finding, IF p.candidates = <<>> THEN NoPatch
                                               ELSE Head(p.candidates)) >>]
  /\ pc' = "audit4"
  /\ UNCHANGED <<row, tables, queue, vcs, env, loaded, attempt, cur, out>>

\* The candidates are validated in turn; the first that holds is shipped, an
\* advisory fix without a patch when none does.
Validate ==
  /\ pc = "validate"
  /\ IF p.candidates = <<>>
     THEN p' = [p EXCEPT !.fix = << newFix(finding, NoPatch) >>] /\ pc' = "audit4"
     ELSE LET c == Head(p.candidates)
          IN \E v \in validations(finding, c) :
               IF accepted(v)
               THEN p' = [p EXCEPT !.fix = << newFix(finding, c) >>] /\ pc' = "audit4"
               ELSE p' = [p EXCEPT !.candidates = Tail(@)] /\ UNCHANGED pc
  /\ UNCHANGED <<row, tables, queue, vcs, env, loaded, attempt, cur, out>>

\* auditFixGenerated: an append that fails fails the attempt.
AuditFix ==
  /\ pc = "audit4"
  /\ \/ /\ auditedFixes' = auditedFixes \cup {finding}
        /\ pc' = "layer4" /\ cur' = cur + 1 /\ p' = NoWork /\ out' = Append(out, p.fix[1])
        /\ UNCHANGED <<status, gateState, job, faults, attempt>>
     \/ Fault /\ Throw /\ UNCHANGED auditedFixes
  /\ UNCHANGED <<fixApproved, stalls, autoApply, loaded, rows, prRows, auditedPrs, vcs,
                 config, killed, resumes>>

Output4 ==
  /\ pc = "layer4" /\ cur > Len(Confirmed)
  /\ pc' = "persist4" /\ cur' = 1
  /\ UNCHANGED <<row, tables, queue, vcs, env, loaded, attempt, p, out>>

\* persistLayerOutput: the rows are created one by one; a row that exists (of a
\* delivery that died here) is a unique violation.
PersistFix ==
  /\ pc = "persist4" /\ cur <= Len(out)
  /\ IF rows[out[cur].finding] = <<>>
     THEN /\ rows' = [rows EXCEPT ![out[cur].finding] = << out[cur] >>]
          /\ cur' = cur + 1
          /\ UNCHANGED <<status, gateState, job, pc, attempt, p, out>>
     ELSE failScan /\ UNCHANGED rows
  /\ UNCHANGED <<fixApproved, stalls, autoApply, loaded, prRows, auditedFixes, auditedPrs, vcs, env>>

-----------------------------------------------------------------------------
(* The fix gate *)

stored == {rows[f][1] : f \in {g \in Range(Confirmed) : rows[g] # <<>>}}
wouldOpenPrs == config.autoFix /\ \E fix \in stored : fix.riskClass = "auto-eligible"

\* scheduleLayer: the job of Layer 5, whose id the queue has not seen.
schedule(apply) == job' = "ready" /\ stalls' = 0 /\ autoApply' = apply

\* Variant of FixGate: the creation of the rows is not awaited.
FixGate_NoAwait ==
  /\ pc = "persist4" /\ status = "running"
  /\ gateState' = "auto_approved" /\ schedule(wouldOpenPrs /\ ~config.approverRequired)
  /\ begin("start5", 1)
  /\ UNCHANGED <<status, fixApproved, loaded, tables, vcs, env>>

\* advanceAfterLayer: wait for the approver, or go on by policy.
FixGate ==
  /\ pc = "persist4" /\ cur > Len(out)
  /\ \/ /\ status # "running"
        /\ return("start5") /\ UNCHANGED <<gateState, stalls, autoApply>>
     \/ /\ status = "running" /\ wouldOpenPrs /\ config.approverRequired
        /\ gateState' = "fix_gate_pending"
        /\ return("gate") /\ UNCHANGED <<stalls, autoApply>>
     \/ /\ status = "running" /\ ~(wouldOpenPrs /\ config.approverRequired)
        /\ gateState' = "auto_approved"
        /\ schedule(wouldOpenPrs) /\ begin("start5", 1)
  /\ UNCHANGED <<status, fixApproved, loaded, tables, vcs, env>>

ApproveFix ==
  /\ pc = "gate" /\ status = "running"
  /\ gateState' = "approved" /\ fixApproved' = TRUE
  /\ schedule(TRUE) /\ begin("start5", 1)
  /\ UNCHANGED <<status, loaded, tables, vcs, env>>

-----------------------------------------------------------------------------
(* Layer 5: openAutoFixPullRequests *)

GATE_PASSED_STATES == {"auto_approved", "approved"}

\* Variant of prGateDecision: the approval covers every fix.
prGateDecision_AnyFix(fix, gate) == autoApply /\ gate \in GATE_PASSED_STATES

prGateDecision(fix, gate) ==
  /\ autoApply
  /\ fix.riskClass = "auto-eligible"
  /\ gate \in GATE_PASSED_STATES

\* One pull request per eligible fix, opened in the order of the findings.
planAutoFixPullRequests(gate) ==
  {f \in Range(Confirmed) : rows[f] # <<>> /\ prGateDecision(rows[f][1], gate)}
plan == Confirmed[Min({i \in DOMAIN Confirmed : Confirmed[i] \in p.plans})]

\* The plan is made from the scan as it was loaded.
BeginLayer5 ==
  /\ pc = "start5" /\ AtStart /\ running
  /\ load
  /\ pc' = "open" /\ p' = [NoWork EXCEPT !.plans = planAutoFixPullRequests(loaded')]
  /\ UNCHANGED <<row, tables, queue, vcs, env, attempt, cur, out>>

\* Variant of branch: a fresh name for every attempt.
branch_PerAttempt(f) == <<f, attempt>>

\* The branch of a fix depends on the scan and the finding only.
branch(f) == <<f, 0>>

Opening == pc = "open" /\ config.opener # "none" /\ p.plans # {}

\* stagePatchOnBranch: check out the base, branch, apply, commit, push.  A local
\* branch of that name or, on a fresh checkout, a remote one stops it; it may
\* fail before the branch exists, after it, or with the answer to the push lost.
Stage ==
  /\ Opening /\ config.opener = "git"
  /\ \/ /\ branch(plan) \notin local \cup remote
        /\ local' = local \cup {branch(plan)} /\ remote' = remote \cup {branch(plan)}
        /\ pc' = "create"
        /\ UNCHANGED <<status, gateState, job, faults, attempt, cur, p, out>>
     \/ /\ branch(plan) \in local \cup remote
        /\ local' = local \cup {branch(plan)}
        /\ Throw
        /\ UNCHANGED <<remote, faults>>
     \/ /\ Fault /\ Throw
        /\ \/ UNCHANGED <<local, remote>>
           \/ /\ branch(plan) \notin local
              /\ local' = local \cup {branch(plan)}
              /\ remote' \in {remote, remote \cup {branch(plan)}}
  /\ UNCHANGED <<fixApproved, stalls, autoApply, loaded, tables, prs, config, killed, resumes>>

\* Without a checkout the branch has been pushed before.
Prepushed ==
  /\ Opening /\ config.opener = "api"
  /\ pc' = "create"
  /\ UNCHANGED <<row, tables, queue, vcs, env, loaded, attempt, cur, p, out>>

\* pulls.create: refused for a branch that has one; the call or its answer may
\* be lost.
Create ==
  /\ pc = "create"
  /\ LET open == [fix |-> plan, branch |-> branch(plan)] IN
     \/ /\ open \notin Range(prs)
        /\ prs' = Append(prs, open)
        /\ pc' = "audit5" /\ UNCHANGED <<status, gateState, job, faults, attempt, cur, p, out>>
     \/ open \in Range(prs) /\ Throw /\ UNCHANGED <<prs, faults>>
     \/ /\ Fault /\ Throw
        /\ prs' = prs \/ (open \notin Range(prs) /\ prs' = Append(prs, open))
  /\ UNCHANGED <<fixApproved, stalls, autoApply, loaded, tables, local, remote,
                 config, killed, resumes>>

\* The opened pull request is recorded, then the next plan.
AuditPr ==
  /\ pc = "audit5"
  /\ \/ /\ auditedPrs' = auditedPrs \cup {plan}
        /\ pc' = "open" /\ p' = [p EXCEPT !.plans = @ \ {plan}] /\ out' = Append(out, plan)
        /\ UNCHANGED <<status, gateState, job, faults, attempt, cur>>
     \/ Fault /\ Throw /\ UNCHANGED auditedPrs
  /\ UNCHANGED <<fixApproved, stalls, autoApply, loaded, rows, prRows, auditedFixes, vcs,
                 config, killed, resumes>>

Output5 ==
  /\ pc = "open" /\ (config.opener = "none" \/ p.plans = {})
  /\ pc' = "persist5"
  /\ UNCHANGED <<row, tables, queue, vcs, env, loaded, attempt, cur, p, out>>

\* persistLayerOutput: the fix row is linked to the pull request, a foreign key
\* into a table no code writes.
LinkPr ==
  /\ pc = "persist5" /\ cur <= Len(out)
  /\ IF out[cur] \in prRows
     THEN /\ rows' = [rows EXCEPT ![out[cur]][1].pr = 1]
          /\ cur' = cur + 1
          /\ UNCHANGED <<status, gateState, job, pc, attempt, p, out>>
     ELSE failScan /\ UNCHANGED rows
  /\ UNCHANGED <<fixApproved, stalls, autoApply, loaded, prRows, auditedFixes, auditedPrs, vcs, env>>

FinalizeComplete ==
  /\ pc = "persist5" /\ cur > Len(out)
  /\ status' = IF status = "running" THEN "completed" ELSE status
  /\ pc' = "end" /\ job' = "completed"
  /\ UNCHANGED <<gateState, fixApproved, stalls, autoApply, loaded, tables, vcs, env,
                 attempt, cur, p, out>>

-----------------------------------------------------------------------------
(* Kill switch, crash, resume *)

Kill ==
  /\ status = "running" /\ ~killed
  /\ killed' = TRUE /\ status' = "cancelled" /\ gateState' = "blocked"
  /\ UNCHANGED <<fixApproved, tables, queue, vcs, config, faults, resumes, locals>>

\* The worker dies, in an attempt or between two.  The job is delivered again,
\* here or to a worker with a checkout of its own, until its stalls are used up.
Crash ==
  /\ job = "ready"
  /\ pc \notin {"gate", "end"} /\ (pc \in {"start4", "start5"} => attempt > 1)
  /\ Fault
  /\ begin(startOf, 1)
  /\ IF stalls < MaxStalls THEN stalls' = stalls + 1 /\ UNCHANGED job
     ELSE job' = "failed" /\ UNCHANGED stalls
  /\ local' \in {local, {}}
  /\ UNCHANGED <<row, tables, autoApply, loaded, remote, prs, config, killed, resumes>>

\* removeOnComplete: completed jobs beyond a number are dropped, which matters
\* for a scan that may be resumed; without a removeOnFail a failed one is kept.
Evict ==
  /\ pc \in {"start4", "start5"} /\ job = "completed" /\ ~killed
  /\ job' = "gone"
  /\ UNCHANGED <<row, tables, stalls, autoApply, vcs, env, locals>>

\* A resume of a failed scan, or of one left running without a job, starts at
\* the layer that did not complete.  The queue adds no job under an id it keeps;
\* the Layer 5 job built here has no autoApply.
Resume ==
  /\ status \in {"failed", "running"} /\ ~killed
  /\ pc \in {"start4", "start5"} /\ job # "ready"
  /\ resumes < MaxResumes /\ resumes' = resumes + 1
  /\ status' = "running"
  /\ IF job = "gone" THEN schedule(FALSE) ELSE UNCHANGED queue
  /\ UNCHANGED <<gateState, fixApproved, tables, vcs, config, killed, faults, locals>>

Step ==
  \/ BeginLayer4 \/ Skip \/ TakeFinding \/ ProposeFix \/ Validate \/ AuditFix \/ Output4 \/ PersistFix
  \/ FixGate \/ BeginLayer5 \/ Stage \/ Prepushed \/ Create \/ AuditPr \/ Output5 \/ LinkPr
  \/ FinalizeComplete

Next == Step \/ ApproveFix \/ Kill \/ Crash \/ Evict \/ Resume

Spec == Init /\ [][Next]_vars

\* The steps of a layer are taken; approvals, kills, crashes, evictions and
\* resumes may never come.
FairSpec == Spec /\ WF_vars(Step)

-----------------------------------------------------------------------------
(* Properties *)

Labels == {"start4", "layer4", "propose", "validate", "audit4", "persist4", "gate",
           "start5", "open", "create", "audit5", "persist5", "end"}
Patches ==
  {NoPatch} \cup (UNION {Proposals[f] \cup {Deterministic[f]} : f \in DOMAIN Finding})
FixRecords == [finding : Range(Confirmed), patch : Patches,
               riskClass : {"auto-eligible", "human-required"}, pr : 0 .. 1]

\* The model calls one fix may cost: proposal attempts and tool rounds.
MaxLlmCalls == IF config.agentLoop THEN maxIters + config.maxToolCalls ELSE 1

\* Type correctness; a layer makes at most Attempts attempts, and the proposal of
\* a fix no more model calls than its limits, also with replies that cannot be
\* used (runWithRetry, proposeFixWithAgent).
TypeOK ==
  /\ config \in Configs /\ status \in {"running", "completed", "failed", "cancelled"}
  /\ gateState \in {"estimate_approved", "fix_gate_pending", "auto_approved", "approved", "blocked"}
  /\ loaded \in {"estimate_approved", "auto_approved", "approved"}
  /\ job \in {"ready", "completed", "failed", "gone"} /\ stalls \in 0 .. MaxStalls
  /\ autoApply \in BOOLEAN /\ fixApproved \in BOOLEAN /\ killed \in BOOLEAN
  /\ pc \in Labels /\ attempt \in 1 .. Attempts /\ cur \in 1 .. Len(Confirmed) + 1
  /\ \A f \in Range(Confirmed) : rows[f] = <<>> \/ rows[f][1] \in FixRecords
  /\ auditedFixes \subseteq Range(Confirmed) /\ auditedPrs \subseteq Range(Confirmed)
  /\ prRows \subseteq Range(Confirmed)
  /\ faults \in 0 .. MaxFaults /\ resumes \in 0 .. MaxResumes
  /\ p.calls \in 0 .. MaxLlmCalls

\* Whatever the model proposes, an auto-eligible fix is a patch that applies, is
\* small and touches neither auth nor shared code, in a category no deployment
\* reserves for humans; where no container replays the attack, its proof test
\* failed on the original source and passed on the patched one (generateOne,
\* risk.ts, renderProofTest): the patch that was validated is the one that was
\* classified and stored.
AutoEligibleSound ==
  \A fix \in stored : fix.riskClass = "auto-eligible" =>
    LET f == Finding[fix.finding] IN
    /\ fix.patch # NoPatch /\ fix.patch.applies
    /\ ~fix.patch.auth /\ fix.patch.lines <= MAX_AUTO_CHANGED_LINES
    /\ f.file = "plain" /\ f.category \notin config.humanRequiredCategoriesAlways
    /\ ~config.containerProof =>
         (f.vulnerable \/ ~f.safe) /\ fix.patch.removes /\ fix.patch.safe

\* Every pull request on the client's repository is for a stored auto-eligible
\* fix, with auto-fix on and, where the deployment asks for one, an approval by
\* an approver (prGateDecision, evaluateFixGate, approveGate).
PrsGated ==
  \A i \in DOMAIN prs :
    /\ config.autoFix
    /\ rows[prs[i].fix] # <<>> /\ rows[prs[i].fix][1].riskClass = "auto-eligible"
    /\ config.approverRequired => fixApproved

\* No fix gets two pull requests, whatever is retried, redelivered or lost: the
\* branch of a fix does not depend on the attempt (planAutoFixPullRequests).
OnePrPerFix == \A i, j \in DOMAIN prs : prs[i].fix = prs[j].fix => i = j

\* The gate is decided on a stored and audited fix for every confirmed finding,
\* although records and rows are created one by one and any of them may fail
\* (auditFixGenerated, then persistLayerOutput, then advanceAfterLayer).
GateOnAllFixes ==
  gateState \in {"fix_gate_pending", "auto_approved", "approved"} =>
    \A f \in Range(Confirmed) : rows[f] # <<>> /\ f \in auditedFixes

\* A queued layer ends its scan, one way or another, or leaves it to its
\* approver, unless crashes use up its deliveries (runWithRetry, runLayerJob,
\* maxStalledCount).  A resume whose job is not added queues nothing.
LayersEnd == job = "ready" ~> (status \in Ended \/ pc = "gate" \/ job = "failed")
=============================================================================
