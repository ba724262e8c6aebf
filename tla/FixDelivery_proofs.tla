------------------------- MODULE FixDelivery_proofs -------------------------
(***************************************************************************)
(* Fixes and pull requests: what holds for any findings, patches, model    *)
(* answers, deployments and bounds.                                        *)
(*                                                                         *)
(* The invariant follows a fix from the candidate that was validated to    *)
(* its row: what Layer 4 holds, and what is stored, is classified from the *)
(* patch that was accepted, the row of a finding is a fix of that finding, *)
(* and a plan of Layer 5 repeats the decision of the gate.  A delivery     *)
(* that fails writes its copy of the gate back, so that what holds of the  *)
(* gate has to hold of every copy as well.                                 *)
(***************************************************************************)
EXTENDS FixDelivery, WellFoundedInduction, TLAPS

Ids == Range(Confirmed)
RealPatches == Patches \ {NoPatch}
Works == [source : BOOLEAN, iters : Nat, rounds : Nat, calls : Nat, last : Patches,
          candidates : Seq(RealPatches), fix : Seq(FixRecords), plans : SUBSET Ids]

Generating == {"layer4", "propose", "validate", "audit4"}
Phase4 == Generating \cup {"start4", "persist4"}
Phase5 == {"start5", "open", "create", "audit5", "persist5", "end"}

Typed ==
  /\ config \in Configs /\ status \in {"running", "completed", "failed", "cancelled"}
  /\ gateState \in {"estimate_approved", "fix_gate_pending", "auto_approved", "approved", "blocked"}
  /\ loaded \in {"estimate_approved", "auto_approved", "approved"}
  /\ job \in {"ready", "completed", "failed", "gone"} /\ stalls \in 0 .. MaxStalls
  /\ autoApply \in BOOLEAN /\ fixApproved \in BOOLEAN /\ killed \in BOOLEAN
  /\ pc \in Labels /\ attempt \in 1 .. Attempts /\ cur \in 1 .. Len(Confirmed) + 1
  /\ rows \in [Ids -> Seq(FixRecords)] /\ prRows = {}
  /\ auditedFixes \subseteq Ids /\ auditedPrs \subseteq Ids
  /\ faults \in 0 .. MaxFaults /\ resumes \in 0 .. MaxResumes
  /\ p \in Works

\* While a proposal is made its calls are its attempts and its tool rounds, and
\* another attempt is left.
CallsCounted ==
  /\ p.calls <= MaxLlmCalls
  /\ pc = "propose" /\ config.agentLoop =>
       p.calls = p.iters + p.rounds /\ p.iters < maxIters /\ p.rounds <= config.maxToolCalls
  /\ pc = "propose" /\ ~config.agentLoop => p.calls = 0

\* Without a container, the proof test has told the two sources apart.
Proven(f, patch) == (Finding[f].vulnerable \/ ~Finding[f].safe) /\ patch.removes /\ patch.safe

\* A fix carries the class of its patch, and a patch that was accepted.
SoundFix(c, fix) ==
  /\ fix \in FixRecords
  /\ fix.riskClass = classifyConfirmedFindingRisk(fix.finding, fix.patch,
                                                  c.humanRequiredCategoriesAlways)
  /\ fix.patch # NoPatch => fix.patch.applies
  /\ fix.patch # NoPatch /\ ~c.containerProof => Proven(fix.finding, fix.patch)

RowsSound == \A f \in Ids : rows[f] # <<>> => SoundFix(config, rows[f][1]) /\ rows[f][1].finding = f

\* What Layer 4 has produced are audited fixes of the first findings, and what
\* is being stored are fixes of all of them.
Produced ==
  /\ pc \in Generating \cup {"persist4"} =>
       /\ out \in Seq(FixRecords)
       /\ \A i \in 1 .. Len(out) :
            i <= Len(Confirmed) /\ SoundFix(config, out[i]) /\ out[i].finding = Confirmed[i]
                                /\ Confirmed[i] \in auditedFixes
  /\ pc \in Generating => Len(out) = cur - 1
  /\ pc \in {"propose", "validate", "audit4"} => cur <= Len(Confirmed)
  /\ pc = "audit4" => Len(p.fix) = 1 /\ SoundFix(config, p.fix[1]) /\ p.fix[1].finding = Confirmed[cur]
  /\ pc = "persist4" =>
       /\ Len(out) = Len(Confirmed)
       /\ \A i \in 1 .. cur - 1 : rows[Confirmed[i]] # <<>>
  /\ pc \notin Generating \cup {"persist4"} => cur = 1
  /\ pc \in {"start4", "start5", "gate"} => out = <<>>
  /\ pc \in Phase5 => out \in Seq(Ids)

AllStored == \A f \in Ids : rows[f] # <<>> /\ f \in auditedFixes

\* The gate is passed with every fix stored, and what it lets through stays
\* permitted: auto-fix is on and whoever must approve has.
MayOpen == config.autoFix /\ (config.approverRequired => fixApproved)
GatePassed ==
  /\ gateState \in {"fix_gate_pending", "auto_approved", "approved"} => AllStored
  /\ loaded \in {"auto_approved", "approved"} => AllStored
  /\ gateState = "fix_gate_pending" => pc = "gate"
  /\ gateState = "blocked" => killed
  /\ pc = "gate" => AllStored /\ config.autoFix
  /\ autoApply => MayOpen

Openable(f) == MayOpen /\ rows[f] # <<>> /\ rows[f][1].riskClass = "auto-eligible"
Planned ==
  /\ \A f \in p.plans : Openable(f)
  /\ pc \notin Phase5 => prs = <<>> /\ p.plans = {}
  /\ pc \in {"create", "audit5"} => p.plans # {}

Prs == [fix : Ids, branch : Ids \X {0}]
\* A pull request is on the branch of its fix, and no other is.
Opened ==
  /\ prs \in Seq(Prs)
  /\ \A i \in 1 .. Len(prs) : prs[i].branch = branch(prs[i].fix) /\ Openable(prs[i].fix)
  /\ \A i, j \in 1 .. Len(prs) : prs[i].fix = prs[j].fix => i = j

Inv == Typed /\ CallsCounted /\ RowsSound /\ Produced /\ GatePassed /\ Planned /\ Opened

-----------------------------------------------------------------------------
(* Constants and helpers *)

LEMMA Limits ==
  /\ Attempts \in Nat /\ Attempts >= 1 /\ MaxFaults \in Nat
  /\ MaxStalls \in Nat /\ MaxResumes \in Nat
  BY FixAssumption

LEMMA ConfigTypes ==
  ASSUME NEW c \in Configs
  PROVE  /\ c.agentLoop \in BOOLEAN /\ c.containerProof \in BOOLEAN
         /\ c.autoFix \in BOOLEAN /\ c.approverRequired \in BOOLEAN
         /\ c.maxIterations \in Nat /\ c.maxToolCalls \in Nat
  BY FixAssumption

LEMMA ConfirmedTypes ==
  /\ Confirmed \in Seq(Ids) /\ Len(Confirmed) \in Nat /\ DOMAIN Confirmed = 1 .. Len(Confirmed)
  /\ \A i \in 1 .. Len(Confirmed) : Confirmed[i] \in Ids
  /\ \A f \in Ids : \E i \in 1 .. Len(Confirmed) : Confirmed[i] = f
  /\ \A f \in Ids : f \in DOMAIN Finding
<1>1. Confirmed \in Seq(DOMAIN Finding)
  BY FixAssumption
<1> QED BY <1>1 DEF Ids, Range

LEMMA FindingTypes ==
  ASSUME NEW f \in Ids
  PROVE  /\ Finding[f].file \in {"plain", "auth", "shared"}
         /\ Finding[f].vulnerable \in BOOLEAN /\ Finding[f].safe \in BOOLEAN
         /\ Finding[f].readable \in BOOLEAN
         /\ Deterministic[f] \in Patches
<1>1. f \in DOMAIN Finding
  BY ConfirmedTypes
<1>2. Deterministic[f] \in Proposals[f] \cup {Deterministic[f]}
  OBVIOUS
<1>3. Deterministic[f] \in Patches
  BY <1>1, <1>2 DEF Patches
<1> QED BY <1>1, <1>3, FixAssumption

LEMMA PatchTypes ==
  /\ NoPatch \in Patches /\ \A f \in Ids : Proposals[f] \subseteq RealPatches
  /\ \A c \in RealPatches : /\ c.auth \in BOOLEAN /\ c.lines \in Nat
                            /\ c.applies \in BOOLEAN /\ c.removes \in BOOLEAN /\ c.safe \in BOOLEAN
<1>1. NoPatch \in Patches
  BY DEF Patches
<1>2. ASSUME NEW f \in Ids
      PROVE  Proposals[f] \subseteq RealPatches
  <2>1. f \in DOMAIN Finding
    BY ConfirmedTypes
  <2>2. ASSUME NEW c \in Proposals[f]
        PROVE  c \in RealPatches
    <3>1. c \in Proposals[f] \cup {Deterministic[f]} /\ c # NoPatch
      BY <2>1, FixAssumption
    <3> QED BY <2>1, <3>1 DEF Patches, RealPatches
  <2> QED BY <2>2
<1>3. ASSUME NEW c \in RealPatches
      PROVE  /\ c.auth \in BOOLEAN /\ c.lines \in Nat
             /\ c.applies \in BOOLEAN /\ c.removes \in BOOLEAN /\ c.safe \in BOOLEAN
  <2>1. PICK f \in DOMAIN Finding : c \in Proposals[f] \cup {Deterministic[f]}
    BY DEF Patches, RealPatches
  <2>2. c \in (Proposals[f] \cup {Deterministic[f]}) \ {NoPatch}
    BY <2>1 DEF RealPatches
  <2> QED BY <2>2, FixAssumption
<1> QED BY <1>1, <1>2, <1>3

\* The next plan is one of those left.
LEMMA PlanIsLeft ==
  ASSUME p \in Works, p.plans # {}
  PROVE  plan \in p.plans /\ plan \in Ids
<1> DEFINE T == {i \in DOMAIN Confirmed : Confirmed[i] \in p.plans}
<1>1. p.plans \subseteq Ids
  BY DEF Works
<1>2. T \subseteq Nat /\ T # {}
  BY <1>1, ConfirmedTypes
<1>3. \E x \in T : \A y \in T : <<y, x>> \notin OpToRel(<, Nat)
  <2> HIDE DEF T
  <2> QED BY <1>2, WFMin, NatLessThanWellFounded, Zenon
<1>4. \A x, y \in Nat : <<y, x>> \notin OpToRel(<, Nat) => x <= y
  BY DEF OpToRel
<1>5. Min(T) \in T
  <2> HIDE DEF T
  <2> QED BY <1>2, <1>3, <1>4 DEF Min
<1> QED BY <1>1, <1>5 DEF plan

LEMMA NewFixTyped ==
  ASSUME NEW f \in Ids, NEW c \in Patches
  PROVE  /\ newFix(f, c) \in FixRecords
         /\ newFix(f, c).finding = f /\ newFix(f, c).patch = c
         /\ newFix(f, c).riskClass =
              classifyConfirmedFindingRisk(f, c, config.humanRequiredCategoriesAlways)
  BY DEF newFix, FixRecords, Ids, classifyConfirmedFindingRisk

LEMMA NoWorkTyped ==
  NoWork \in Works /\ NoWork.calls = 0 /\ NoWork.plans = {} /\ NoWork.iters = 0 /\ NoWork.rounds = 0
  BY PatchTypes DEF NoWork, Works

LEMMA CallsLimit == ASSUME config \in Configs PROVE maxIters \in Nat /\ maxIters >= 1 /\ MaxLlmCalls \in Nat
  BY ConfigTypes DEF maxIters, MaxLlmCalls

-----------------------------------------------------------------------------
(* What the steps have in common *)

\* A step that leaves the rows and the permissions alone; the gate and the copy of
\* it may be written from each other.
Kept ==
  /\ UNCHANGED <<config, rows, autoApply, fixApproved>>
  /\ gateState' \in {gateState, loaded} /\ loaded' \in {loaded, gateState}
  /\ loaded' \in {"estimate_approved", "auto_approved", "approved"}
  /\ auditedFixes \subseteq auditedFixes' /\ (killed => killed')
  /\ pc # "gate" /\ pc' # "gate"

\* An attempt or a delivery that ends early.
Reset ==
  /\ pc' = startOf /\ attempt' \in 1 .. Attempts
  /\ cur' = 1 /\ p' = NoWork /\ out' = <<>>
  /\ status' \in {"running", "completed", "failed", "cancelled"}
  /\ gateState' \in {gateState, loaded}
  /\ job' \in {"ready", "completed", "failed", "gone"}

\* The variables whose type is all that matters here.
Bystanders ==
  /\ auditedFixes' \subseteq Ids /\ auditedPrs' \subseteq Ids /\ prRows' = prRows
  /\ job' \in {"ready", "completed", "failed", "gone"} /\ stalls' \in 0 .. MaxStalls
  /\ killed' \in BOOLEAN /\ faults' \in 0 .. MaxFaults /\ resumes' \in 0 .. MaxResumes

LEMMA KeptSound ==
  ASSUME Inv, Kept
  PROVE  RowsSound' /\ GatePassed' /\ \A f \in Ids : Openable(f) => Openable(f)'
<1>1. RowsSound'
  BY DEF Inv, Kept, RowsSound
<1>2. MayOpen' <=> MayOpen
  BY DEF Kept, MayOpen
<1>3. AllStored => AllStored'
  BY DEF Kept, AllStored
<1>4. gateState # "fix_gate_pending" /\ loaded \in {"estimate_approved", "auto_approved", "approved"}
  BY DEF Inv, Typed, Kept, GatePassed
<1>5. GatePassed'
  BY <1>2, <1>3, <1>4 DEF Inv, Kept, GatePassed
<1>6. \A f \in Ids : Openable(f) => Openable(f)'
  BY <1>2 DEF Kept, Openable
<1> QED BY <1>1, <1>5, <1>6

LEMMA KeptOpened ==
  ASSUME Inv, Kept, prs' = prs
  PROVE  Opened'
<1>1. \A f \in Ids : Openable(f) => Openable(f)'
  BY KeptSound
<1>2. \A i \in 1 .. Len(prs) : prs[i].fix \in Ids
  <2>1. prs \in Seq(Prs)
    BY DEF Inv, Opened
  <2>2. \A i \in 1 .. Len(prs) : prs[i] \in Prs
    BY <2>1
  <2> QED BY <2>2 DEF Prs
<1> QED BY <1>1, <1>2 DEF Inv, Opened, branch

LEMMA StartOf ==
  /\ startOf \in {"start4", "start5"}
  /\ pc \in Phase4 => startOf = "start4"
  /\ pc \notin Phase4 => startOf = "start5"
  BY DEF startOf, Phase4, Generating

LEMMA ThrowResets ==
  ASSUME Inv, Throw
  PROVE  Reset
  BY Limits DEF Inv, Typed, Throw, failScan, return, begin, Reset

LEMMA FailResets ==
  ASSUME Inv, failScan
  PROVE  Reset
  BY Limits DEF Inv, Typed, failScan, return, begin, Reset

LEMMA ResetKeeps ==
  ASSUME Inv, Reset, Kept, Bystanders, Opened', pc \in Phase4 => prs' = prs
  PROVE  Inv'
<1>1. pc' \in {"start4", "start5"} /\ (pc' = "start4" => pc \in Phase4)
  BY StartOf DEF Reset
<1>2. Typed'
  BY <1>1, NoWorkTyped, ConfirmedTypes DEF Inv, Typed, Reset, Kept, Bystanders, Labels
<1>3. CallsCounted'
  <2>1. MaxLlmCalls' \in Nat
    BY CallsLimit DEF Inv, Typed, Kept, MaxLlmCalls, maxIters
  <2> QED BY <1>1, <2>1, NoWorkTyped DEF CallsCounted, Reset
<1>4. RowsSound' /\ GatePassed'
  BY <1>1, KeptSound
<1>5. Produced'
  BY <1>1 DEF Produced, Reset, Generating, Phase5
<1>6. Planned'
  BY <1>1, NoWorkTyped DEF Inv, Planned, Reset, Phase4, Phase5, Generating
<1> QED BY <1>2, <1>3, <1>4, <1>5, <1>6 DEF Inv

-----------------------------------------------------------------------------
(* Layer 4 *)

\* A step of Layer 4 within a delivery.
Within4 ==
  /\ pc \in Phase4 /\ pc' \in Phase4 \ {"start4"}
  /\ p' \in Works /\ p'.plans = {}
  /\ cur' \in 1 .. Len(Confirmed) + 1
  /\ UNCHANGED <<status, attempt, prs>>

LEMMA Within4Keeps ==
  ASSUME Inv, Within4, Kept, Bystanders, CallsCounted', Produced'
  PROVE  Inv'
<1>1. pc' # "gate" /\ pc' \notin Phase5 /\ pc' \in Labels /\ pc \notin Phase5
  BY DEF Within4, Phase4, Phase5, Generating, Labels
<1>2. Typed'
  BY <1>1 DEF Inv, Typed, Within4, Kept, Bystanders
<1>3. RowsSound' /\ GatePassed' /\ Opened'
  BY <1>1, KeptSound, KeptOpened DEF Within4
<1>4. Planned'
  BY <1>1 DEF Inv, Planned, Within4, Phase5
<1> QED BY <1>2, <1>3, <1>4 DEF Inv

LEMMA SameLimits ==
  ASSUME config' = config
  PROVE  maxIters' = maxIters /\ MaxLlmCalls' = MaxLlmCalls
  BY DEF maxIters, MaxLlmCalls

\* A delivery takes a copy of a gate that is neither pending nor blocked.
LEMMA CopyTaken ==
  ASSUME Inv, load, running, pc # "gate"
  PROVE  loaded' \in {loaded, gateState} /\ loaded' \in {"estimate_approved", "auto_approved", "approved"}
<1>1. gateState \in {"estimate_approved", "auto_approved", "approved"}
  BY DEF Inv, Typed, GatePassed, running
<1> QED BY <1>1 DEF Inv, Typed, load

LEMMA BeginLayer4Keeps ==
  ASSUME Inv, BeginLayer4
  PROVE  Inv'
<1>1. Kept /\ Bystanders
  BY CopyTaken DEF Inv, Typed, BeginLayer4, Kept, Bystanders, row, tables, queue, env
<1>2. pc = "start4" /\ pc' = "layer4" /\ UNCHANGED <<status, prs, attempt, cur, p, out, config, auditedFixes>>
  BY DEF BeginLayer4, row, tables, queue, vcs, env
<1>3. cur = 1 /\ out = <<>> /\ p.plans = {}
  BY <1>2 DEF Inv, Produced, Planned, Generating, Phase5
<1>4. Within4
  BY <1>2, <1>3, ConfirmedTypes DEF Within4, Inv, Typed, Phase4, Generating
<1>5. CallsCounted'
  BY <1>2, SameLimits DEF Inv, CallsCounted
<1>6. Produced'
  BY <1>2, <1>3 DEF Produced, Generating, Phase5
<1> QED BY <1>1, <1>4, <1>5, <1>6, Within4Keeps

\* A step on one finding that changes only where it is and the work on it.
WorkStep ==
  /\ pc \in {"layer4", "propose", "validate"} /\ cur <= Len(Confirmed)
  /\ p' \in Works /\ p'.plans = {} /\ p'.calls <= MaxLlmCalls
  /\ UNCHANGED <<row, tables, queue, vcs, env, loaded, attempt, cur, out>>

LEMMA WorkStepKeeps ==
  ASSUME Inv, WorkStep, pc' \in {"propose", "validate", "audit4"},
         pc' = "propose" => CallsCounted',
         pc' = "audit4" =>
           Len(p'.fix) = 1 /\ SoundFix(config, p'.fix[1]) /\ p'.fix[1].finding = Confirmed[cur]
  PROVE  Inv'
<1>1. Kept /\ Bystanders
  BY DEF Inv, Typed, WorkStep, Kept, Bystanders, row, tables, queue, env
<1>2. UNCHANGED <<status, prs, attempt, cur, out, config, auditedFixes, rows>>
  BY DEF WorkStep, row, tables, queue, vcs, env
<1>3. Within4
  BY <1>2 DEF Within4, WorkStep, Inv, Typed, Phase4, Generating
<1>4. CallsCounted'
  <2>1. CASE pc' = "propose"
    BY <2>1
  <2>2. CASE pc' # "propose"
    BY <1>2, <2>2, SameLimits DEF CallsCounted, WorkStep
  <2> QED BY <2>1, <2>2
<1>5. Produced'
  BY <1>2 DEF Inv, Produced, WorkStep, Generating, Phase5
<1> QED BY <1>1, <1>3, <1>4, <1>5, Within4Keeps

LEMMA TakeFindingKeeps ==
  ASSUME Inv, TakeFinding
  PROVE  Inv'
<1>1. cur \in 1 .. Len(Confirmed) /\ finding \in Ids /\ config \in Configs
  BY ConfirmedTypes DEF Inv, Typed, TakeFinding, finding
<1>2. PICK source \in BOOLEAN : p' = [NoWork EXCEPT !.source = source]
  BY <1>1, FindingTypes DEF TakeFinding
<1>3. /\ p' \in Works /\ p'.plans = {}
      /\ p'.calls = 0 /\ p'.iters = 0 /\ p'.rounds = 0
  BY <1>2, NoWorkTyped DEF Works
<1>4. WorkStep
  BY <1>1, <1>3, CallsLimit DEF TakeFinding, WorkStep
<1>5. CallsCounted'
  <2>1. config' = config
    BY DEF TakeFinding, env
  <2> QED BY <1>1, <1>3, <2>1, SameLimits, CallsLimit, ConfigTypes DEF CallsCounted
<1> QED BY <1>4, <1>5, WorkStepKeeps DEF TakeFinding

LEMMA OneCandidate ==
  ASSUME NEW c \in Patches
  PROVE  (IF c # NoPatch THEN <<c>> ELSE <<>>) \in Seq(RealPatches)
<1>1. CASE c # NoPatch
  <2>1. c \in RealPatches
    BY <1>1 DEF RealPatches
  <2>2. <<c>> \in Seq(RealPatches)
    BY <2>1
  <2> QED BY <1>1, <2>2
<1>2. CASE c = NoPatch
  <2>1. <<>> \in Seq(RealPatches)
    OBVIOUS
  <2> QED BY <1>2, <2>1
<1> QED BY <1>1, <1>2

LEMMA CandidatesTyped ==
  ASSUME Inv, cur <= Len(Confirmed), NEW patch \in Patches
  PROVE  candidates(patch) \in Seq(RealPatches)
<1>1. finding \in Ids
  BY ConfirmedTypes DEF Inv, Typed, finding
<1> DEFINE a == IF patch # NoPatch THEN <<patch>> ELSE <<>>
           d == IF Deterministic[finding] # NoPatch THEN <<Deterministic[finding]>> ELSE <<>>
<1>2. a \in Seq(RealPatches) /\ d \in Seq(RealPatches)
  BY <1>1, FindingTypes, OneCandidate
<1>3. candidates(patch) = IF p.source /\ pickStrategy(finding) THEN a \o d ELSE <<>>
  BY DEF candidates
<1> HIDE DEF a, d
<1>4. a \o d \in Seq(RealPatches) /\ <<>> \in Seq(RealPatches)
  BY <1>2
<1> QED BY <1>3, <1>4, Zenon

LEMMA SetCandidates ==
  ASSUME NEW w \in Works, NEW c \in Seq(RealPatches)
  PROVE  LET v == [w EXCEPT !.candidates = c]
         IN v \in Works /\ v.plans = w.plans /\ v.calls = w.calls
  BY DEF Works

LEMMA ProposalMade ==
  ASSUME NEW w \in Works, NEW c \in Seq(RealPatches)
  PROVE  LET v == [NoWork EXCEPT !.source = w.source, !.calls = w.calls, !.candidates = c]
         IN v \in Works /\ v.plans = {} /\ v.calls = w.calls
<1> DEFINE u == [NoWork EXCEPT !.source = w.source, !.calls = w.calls]
<1>1. u \in Works /\ u.plans = {} /\ u.calls = w.calls
  BY NoWorkTyped DEF Works
<1>2. [NoWork EXCEPT !.source = w.source, !.calls = w.calls, !.candidates = c]
        = [u EXCEPT !.candidates = c]
  BY NoWorkTyped DEF Works
<1> HIDE DEF u
<1> QED BY <1>1, <1>2, SetCandidates

LEMMA SetLast ==
  ASSUME NEW w \in Works, NEW c \in Patches
  PROVE  LET v == [w EXCEPT !.last = c]
         IN /\ v \in Works /\ v.plans = w.plans
            /\ v.calls = w.calls /\ v.iters = w.iters /\ v.rounds = w.rounds
  BY DEF Works

LEMMA CountCall ==
  ASSUME NEW w \in Works
  PROVE  LET v == [w EXCEPT !.calls = @ + 1]
         IN /\ v \in Works /\ v.plans = w.plans
            /\ v.calls = w.calls + 1
  BY DEF Works

LEMMA CountIteration ==
  ASSUME NEW w \in Works
  PROVE  LET v == [w EXCEPT !.calls = @ + 1, !.iters = @ + 1]
         IN /\ v \in Works /\ v.plans = w.plans
            /\ v.calls = w.calls + 1 /\ v.iters = w.iters + 1 /\ v.rounds = w.rounds
<1> DEFINE u == [w EXCEPT !.calls = w.calls + 1]
           v == [u EXCEPT !.iters = w.iters + 1]
<1>1. w.calls + 1 \in Nat /\ w.iters + 1 \in Nat
  BY DEF Works
<1>2. u \in Works /\ u.plans = w.plans /\ u.calls = w.calls + 1 /\ u.iters = w.iters /\ u.rounds = w.rounds
  BY <1>1 DEF Works
<1>3. [w EXCEPT !.calls = @ + 1, !.iters = @ + 1] = v
  BY DEF Works
<1> HIDE DEF u
<1>4. /\ v \in Works /\ v.plans = u.plans
      /\ v.calls = u.calls /\ v.iters = w.iters + 1 /\ v.rounds = w.rounds
  BY <1>1, <1>2 DEF Works
<1> QED BY <1>2, <1>3, <1>4

LEMMA CountRound ==
  ASSUME NEW w \in Works
  PROVE  LET v == [w EXCEPT !.calls = @ + 1, !.rounds = @ + 1]
         IN /\ v \in Works /\ v.plans = w.plans
            /\ v.calls = w.calls + 1 /\ v.iters = w.iters /\ v.rounds = w.rounds + 1
<1> DEFINE u == [w EXCEPT !.calls = w.calls + 1]
           v == [u EXCEPT !.rounds = w.rounds + 1]
<1>1. w.calls + 1 \in Nat /\ w.rounds + 1 \in Nat
  BY DEF Works
<1>2. u \in Works /\ u.plans = w.plans /\ u.calls = w.calls + 1 /\ u.iters = w.iters /\ u.rounds = w.rounds
  BY <1>1 DEF Works
<1>3. [w EXCEPT !.calls = @ + 1, !.rounds = @ + 1] = v
  BY DEF Works
<1> HIDE DEF u
<1>4. /\ v \in Works /\ v.plans = u.plans
      /\ v.calls = u.calls /\ v.iters = w.iters /\ v.rounds = w.rounds + 1
  BY <1>1, <1>2 DEF Works
<1> QED BY <1>2, <1>3, <1>4

\* The counters of a proposal, whatever the model answers.
LEMMA ProposeKeeps ==
  ASSUME Inv, ProposeFix
  PROVE  Inv'
<1>1. /\ pc = "propose" /\ config' = config
      /\ UNCHANGED <<row, tables, queue, vcs, env, loaded, attempt, cur, out>>
  BY DEF ProposeFix, env
<1>0. finding \in Ids
  BY <1>1, ConfirmedTypes DEF Inv, Typed, Produced, finding
<1>2. /\ cur <= Len(Confirmed) /\ p \in Works /\ p.plans = {} /\ config \in Configs
      /\ p.calls <= MaxLlmCalls /\ MaxLlmCalls \in Nat /\ maxIters \in Nat
  <2>1. p \in Works /\ config \in Configs
    BY DEF Inv, Typed
  <2>2. cur <= Len(Confirmed)
    BY <1>1 DEF Inv, Produced
  <2>3. p.calls <= MaxLlmCalls /\ p.plans = {}
    BY <1>1 DEF Inv, CallsCounted, Planned, Phase5
  <2> QED BY <2>1, <2>2, <2>3, CallsLimit
<1>3. p.calls \in Nat /\ p.iters \in Nat /\ p.rounds \in Nat /\ p.last \in Patches
  BY <1>2 DEF Works
\* The proposal ends.
<1>4. ASSUME NEW STATE q, q \in Works, q.plans = {}, q.calls <= MaxLlmCalls,
             NEW patch \in Patches, Propose(q, patch)
      PROVE  Inv'
  <2>1. candidates(patch) \in Seq(RealPatches)
    BY <1>2, CandidatesTyped
  <2>2. /\ p' = [NoWork EXCEPT !.source = q.source, !.calls = q.calls, !.candidates = candidates(patch)]
        /\ pc' = "validate"
    BY <1>4 DEF Propose
  <2>3. p' \in Works /\ p'.plans = {} /\ p'.calls <= MaxLlmCalls
    BY <1>4, <2>1, <2>2, ProposalMade
  <2>4. WorkStep
    BY <1>1, <1>2, <2>3 DEF WorkStep
  <2> QED BY <2>2, <2>4, WorkStepKeeps
\* It goes on.
<1>5. ASSUME p' \in Works, p'.plans = {}, pc' = pc, config.agentLoop,
             p'.calls = p'.iters + p'.rounds, p'.iters < maxIters,
             p'.rounds <= config.maxToolCalls
      PROVE  Inv'
  <2>1. p'.calls <= MaxLlmCalls
    <3>1. p'.iters \in Nat /\ p'.rounds \in Nat
      BY <1>5 DEF Works
    <3> QED BY <1>2, <1>5, <3>1, ConfigTypes DEF MaxLlmCalls
  <2>2. WorkStep
    BY <1>1, <1>2, <1>5, <2>1 DEF WorkStep
  <2>3. CallsCounted'
    BY <1>1, <1>5, <2>1, SameLimits DEF CallsCounted
  <2> QED BY <1>1, <1>5, <2>2, <2>3, WorkStepKeeps
<1>6. CASE ~config.agentLoop
  <2>1. PICK patch \in Patches : Propose([p EXCEPT !.calls = @ + 1], patch)
    BY <1>0, <1>6, PatchTypes DEF ProposeFix, SingleShot, RealPatches
  <2>2. p.calls + 1 <= MaxLlmCalls
    BY <1>1, <1>6 DEF Inv, CallsCounted, MaxLlmCalls
  <2> QED BY <1>2, <1>4, <2>1, <2>2, CountCall
<1>7. CASE config.agentLoop
  <2> DEFINE q == [p EXCEPT !.calls = @ + 1, !.iters = @ + 1]
  <2>1. /\ p.calls = p.iters + p.rounds /\ p.iters < maxIters /\ p.rounds <= config.maxToolCalls
        /\ p.calls + 1 <= MaxLlmCalls
    BY <1>1, <1>2, <1>3, <1>7, ConfigTypes DEF Inv, CallsCounted, MaxLlmCalls
  <2>2. /\ q \in Works /\ q.plans = {} /\ q.calls = p.calls + 1
        /\ q.iters = p.iters + 1 /\ q.rounds = p.rounds
    BY <1>2, CountIteration
  <2> HIDE DEF q
  <2>3. ASSUME NEW patch \in Patches, Propose(q, patch)
        PROVE  Inv'
    BY <1>4, <2>1, <2>2, <2>3
  <2>4. ASSUME NEW patch \in Patches, q.iters < maxIters,
               p' = [q EXCEPT !.last = patch], UNCHANGED pc
        PROVE  Inv'
    <3>1. /\ p' \in Works /\ p'.plans = {} /\ p'.calls = q.calls
          /\ p'.iters = q.iters /\ p'.rounds = q.rounds
      BY <2>2, <2>4, SetLast
    <3>2. p'.calls = p'.iters + p'.rounds
      BY <1>3, <2>1, <2>2, <3>1
    <3> QED BY <1>5, <1>7, <2>1, <2>2, <2>4, <3>1, <3>2
  <2>5. ASSUME Propose([p EXCEPT !.calls = @ + 1], p.last)
        PROVE  Inv'
    BY <1>2, <1>3, <1>4, <2>1, <2>5, CountCall
  <2>6. ASSUME p.rounds < config.maxToolCalls, UNCHANGED pc,
               p' = [p EXCEPT !.calls = @ + 1, !.rounds = @ + 1]
        PROVE  Inv'
    <3>1. /\ p' \in Works /\ p'.plans = {} /\ p'.calls = p.calls + 1
          /\ p'.iters = p.iters /\ p'.rounds = p.rounds + 1
      BY <1>2, <2>6, CountRound
    <3>2. p'.calls = p'.iters + p'.rounds /\ p'.rounds <= config.maxToolCalls
      BY <1>2, <1>3, <2>1, <2>6, <3>1, ConfigTypes
    <3> QED BY <1>5, <1>7, <2>1, <2>6, <3>1, <3>2
  <2>7. NoPatch \in Patches /\ \A patch \in Proposals[finding] : patch \in Patches
    BY <1>0, PatchTypes DEF RealPatches
  <2>8. AgentTurn
    BY <1>7 DEF ProposeFix
  <2> QED BY <2>3, <2>4, <2>5, <2>6, <2>7, <2>8 DEF AgentTurn, q
<1> QED BY <1>2, <1>6, <1>7, ConfigTypes

\* The patch that is shipped is the one that was accepted.
LEMMA ValidateKeeps ==
  ASSUME Inv, Validate
  PROVE  Inv'
<1>1. /\ pc = "validate" /\ config' = config
      /\ UNCHANGED <<row, tables, queue, vcs, env, loaded, attempt, cur, out>>
  BY DEF Validate, env
<1>2. /\ cur \in 1 .. Len(Confirmed) /\ p \in Works /\ p.plans = {} /\ config \in Configs
      /\ p.calls <= MaxLlmCalls /\ p.candidates \in Seq(RealPatches)
  <2>1. p \in Works /\ config \in Configs /\ cur \in 1 .. Len(Confirmed) + 1
    BY DEF Inv, Typed
  <2>2. p.candidates \in Seq(RealPatches)
    BY <2>1 DEF Works
  <2>3. cur <= Len(Confirmed)
    BY <1>1 DEF Inv, Produced
  <2>4. p.calls <= MaxLlmCalls /\ p.plans = {}
    BY <1>1 DEF Inv, CallsCounted, Planned, Phase5
  <2> QED BY <2>1, <2>2, <2>3, <2>4, ConfirmedTypes
<1>3. finding = Confirmed[cur] /\ finding \in Ids
  BY <1>2, ConfirmedTypes DEF finding
<1>4. ASSUME NEW c \in Patches, p' = [p EXCEPT !.fix = << newFix(finding, c) >>], pc' = "audit4",
             c # NoPatch => c.applies,
             c # NoPatch /\ ~config.containerProof => Proven(finding, c)
      PROVE  Inv'
  <2>1. /\ newFix(finding, c) \in FixRecords /\ newFix(finding, c).finding = finding
        /\ SoundFix(config, newFix(finding, c))
    BY <1>3, <1>4, NewFixTyped DEF SoundFix
  <2> DEFINE fix == newFix(finding, c)
  <2> HIDE DEF fix
  <2>2. <<fix>> \in Seq(FixRecords) /\ Len(<<fix>>) = 1 /\ <<fix>>[1] = fix
    BY <2>1 DEF fix
  <2>3. /\ p' \in Works /\ p'.plans = p.plans /\ p'.calls = p.calls /\ p'.fix = <<fix>>
    <3> DEFINE fx == <<fix>>
    <3>1. fx \in Seq(FixRecords) /\ p' = [p EXCEPT !.fix = fx]
      BY <1>4, <2>2 DEF fix
    <3> HIDE DEF fx
    <3>2. /\ p' \in Works /\ p'.plans = p.plans /\ p'.calls = p.calls /\ p'.fix = fx
      BY <1>2, <3>1 DEF Works
    <3> QED BY <3>2 DEF fx
  <2>4. WorkStep
    BY <1>1, <1>2, <2>3 DEF WorkStep
  <2>5. Len(p'.fix) = 1 /\ SoundFix(config, p'.fix[1]) /\ p'.fix[1].finding = Confirmed[cur]
    BY <1>3, <2>1, <2>2, <2>3 DEF fix
  <2> QED BY <1>4, <2>4, <2>5, WorkStepKeeps
<1>5. CASE p.candidates = <<>>
  <2>1. p' = [p EXCEPT !.fix = << newFix(finding, NoPatch) >>] /\ pc' = "audit4"
    BY <1>5 DEF Validate
  <2> QED BY <1>4, <2>1, PatchTypes
<1>6. CASE p.candidates # <<>>
  <2> DEFINE c == Head(p.candidates)
  <2>1. c \in RealPatches /\ Tail(p.candidates) \in Seq(RealPatches)
    BY <1>2, <1>6
  <2>2. PICK v \in validations(finding, c) :
          IF accepted(v)
          THEN p' = [p EXCEPT !.fix = << newFix(finding, c) >>] /\ pc' = "audit4"
          ELSE p' = [p EXCEPT !.candidates = Tail(@)] /\ UNCHANGED pc
    BY <1>6 DEF Validate
  <2> HIDE DEF c
  <2>3. CASE accepted(v)
    <3>1. v.failsPrePatch /\ v.passesPostPatch
      BY <2>3 DEF accepted
    <3>2. \A a, b : verdict(a, b).failsPrePatch = a /\ verdict(a, b).passesPostPatch = b
      BY DEF verdict
    <3> DEFINE fails == ~proofTest(Finding[finding].vulnerable, Finding[finding].safe)
               passes == c.applies /\ proofTest(~c.removes, c.safe)
    <3>3. \/ v = verdict(fails, passes) \/ v = verdict(FALSE, FALSE)
          \/ config.containerProof /\ \E pre, gone \in BOOLEAN : v = verdict(pre, c.applies /\ gone)
      <4>1. v \in validatePatch(finding, c) => v = verdict(fails, passes) \/ v = verdict(FALSE, FALSE)
        BY DEF validatePatch
      <4>2. v \in validatePatch(finding, c)
            \/ (config.containerProof /\ \E pre, gone \in BOOLEAN : v = verdict(pre, c.applies /\ gone))
        <5> HIDE DEF fails, passes
        <5>1. CASE config.containerProof
          <6>1. v \in validatePatch(finding, c) \/ v \in {verdict(pre, c.applies /\ gone) : pre, gone \in BOOLEAN}
            <7> DEFINE Replays == {verdict(pre, c.applies /\ gone) : pre, gone \in BOOLEAN}
            <7>1. v \in validatePatchWithContainerReplay(finding, c)
              BY <2>2, <5>1 DEF validations
            <7>2. v \in validatePatch(finding, c) \cup (IF Finding[finding].live THEN Replays ELSE {})
              BY <7>1 DEF validatePatchWithContainerReplay
            <7> HIDE DEF Replays
            <7>3. v \in validatePatch(finding, c) \/ v \in Replays
              BY <7>2
            <7> QED BY <7>3 DEF Replays
          <6> QED BY <5>1, <6>1
        <5>2. CASE ~config.containerProof
          BY <2>2, <5>2 DEF validations
        <5> QED BY <5>1, <5>2
      <4> QED BY <4>1, <4>2
    <3>4. CASE v = verdict(fails, passes)
      <4> HIDE DEF fails, passes
      <4>1. fails /\ passes
        BY <3>1, <3>2, <3>4
      <4>2. c.applies /\ Proven(finding, c)
        BY <1>3, <2>1, <4>1, FindingTypes, PatchTypes DEF fails, passes, proofTest, Proven
      <4> QED BY <1>4, <2>1, <2>2, <2>3, <4>2 DEF RealPatches
    <3>5. CASE v = verdict(FALSE, FALSE)
      BY <3>1, <3>2, <3>5
    <3>6. CASE config.containerProof /\ \E pre, gone \in BOOLEAN : v = verdict(pre, c.applies /\ gone)
      <4>1. PICK pre \in BOOLEAN, gone \in BOOLEAN : v = verdict(pre, c.applies /\ gone)
        BY <3>6
      <4> DEFINE b == c.applies /\ gone
      <4>2. v = verdict(pre, b)
        BY <4>1
      <4> HIDE DEF b
      <4>3. b
        BY <3>1, <3>2, <4>2
      <4> QED BY <1>4, <2>1, <2>2, <2>3, <3>6, <4>3 DEF RealPatches, b
    <3> QED BY <3>3, <3>4, <3>5, <3>6
  <2>4. CASE ~accepted(v)
    <3>1. p' = [p EXCEPT !.candidates = Tail(p.candidates)] /\ pc' = "validate"
      BY <1>1, <2>2, <2>4
    <3>2. p' \in Works /\ p'.plans = p.plans /\ p'.calls = p.calls
      BY <1>2, <2>1, <3>1, SetCandidates
    <3>3. WorkStep
      BY <1>1, <1>2, <3>2 DEF WorkStep
    <3> QED BY <3>1, <3>3, WorkStepKeeps
  <2> QED BY <2>3, <2>4
<1> QED BY <1>5, <1>6

LEMMA FaultTyped ==
  ASSUME Inv, Fault
  PROVE  faults' \in 0 .. MaxFaults
  BY Limits DEF Inv, Typed, Fault

LEMMA AuditFixKeeps ==
  ASSUME Inv, AuditFix
  PROVE  Inv'
<1>1. /\ pc = "audit4" /\ pc \in Phase4
      /\ UNCHANGED <<config, fixApproved, stalls, autoApply, loaded, rows, prRows, auditedPrs, prs,
                     killed, resumes>>
  BY DEF AuditFix, vcs, Phase4, Generating
<1>2. /\ cur \in 1 .. Len(Confirmed) /\ out \in Seq(FixRecords) /\ Len(out) = cur - 1
      /\ finding = Confirmed[cur] /\ finding \in Ids
      /\ Len(p.fix) = 1 /\ SoundFix(config, p.fix[1]) /\ p.fix[1].finding = Confirmed[cur]
  BY <1>1, ConfirmedTypes DEF Inv, Typed, Produced, Generating, finding
<1>3. CASE /\ auditedFixes' = auditedFixes \cup {finding}
           /\ pc' = "layer4" /\ cur' = cur + 1 /\ p' = NoWork /\ out' = Append(out, p.fix[1])
           /\ UNCHANGED <<status, gateState, job, faults, attempt>>
  <2>1. Kept /\ Bystanders
    BY <1>1, <1>2, <1>3 DEF Inv, Typed, Kept, Bystanders
  <2>2. Within4
    BY <1>1, <1>2, <1>3, NoWorkTyped, ConfirmedTypes DEF Within4, Phase4, Generating
  <2>3. CallsCounted'
    <3>1. MaxLlmCalls' \in Nat
      BY <1>1, SameLimits, CallsLimit DEF Inv, Typed
    <3> QED BY <1>3, <3>1, NoWorkTyped DEF CallsCounted
  <2>4. Produced'
    <3> DEFINE fix == p.fix[1]
    <3>1. fix \in FixRecords
      BY <1>2 DEF SoundFix
    <3>2. out' \in Seq(FixRecords) /\ Len(out') = cur /\ out'[cur] = fix
          /\ \A i \in 1 .. cur - 1 : out'[i] = out[i]
      <4> HIDE DEF fix
      <4>1. out' = Append(out, fix)
        BY <1>3 DEF fix
      <4> QED BY <1>2, <3>1, <4>1
    <3>3. \A i \in 1 .. Len(out') :
            i <= Len(Confirmed) /\ SoundFix(config', out'[i]) /\ out'[i].finding = Confirmed[i]
                                /\ Confirmed[i] \in auditedFixes'
      <4> TAKE i \in 1 .. Len(out')
      <4>1. CASE i = cur
        BY <1>1, <1>2, <1>3, <3>2, <4>1, ConfirmedTypes
      <4>2. CASE i \in 1 .. Len(out)
        <5>1. /\ i <= Len(Confirmed) /\ SoundFix(config, out[i]) /\ out[i].finding = Confirmed[i]
              /\ Confirmed[i] \in auditedFixes
          BY <1>1, <4>2 DEF Inv, Produced, Generating
        <5>2. out'[i] = out[i]
          BY <1>2, <3>2, <4>2
        <5> QED BY <1>1, <1>3, <5>1, <5>2
      <4> QED BY <1>2, <3>2, <4>1, <4>2, ConfirmedTypes
    <3>4. Len(out') = cur' - 1
      BY <1>2, <1>3, <3>2, ConfirmedTypes
    <3> QED BY <1>3, <3>2, <3>3, <3>4 DEF Produced, Generating, Phase5
  <2> QED BY <2>1, <2>2, <2>3, <2>4, Within4Keeps
<1>4. CASE Fault /\ Throw /\ UNCHANGED auditedFixes
  <2>1. Reset /\ pc' # "gate"
    BY <1>4, ThrowResets, StartOf DEF Reset
  <2>2. Kept /\ Bystanders
    BY <1>1, <1>4, <2>1, FaultTyped DEF Inv, Typed, Kept, Bystanders, Reset
  <2> QED BY <1>1, <2>1, <2>2, KeptOpened, ResetKeeps
<1> QED BY <1>3, <1>4 DEF AuditFix

LEMMA Output4Keeps ==
  ASSUME Inv, Output4
  PROVE  Inv'
<1>1. Kept /\ Bystanders
  BY DEF Inv, Typed, Output4, Kept, Bystanders, row, tables, queue, env
<1>2. /\ pc = "layer4" /\ pc' = "persist4" /\ cur' = 1 /\ cur > Len(Confirmed)
      /\ UNCHANGED <<status, prs, attempt, p, out, config, auditedFixes, rows>>
  BY DEF Output4, row, tables, queue, vcs, env
<1>3. Within4
  BY <1>2, ConfirmedTypes DEF Within4, Inv, Typed, Planned, Phase4, Phase5, Generating
<1>4. CallsCounted'
  BY <1>2, SameLimits DEF Inv, CallsCounted
<1>5. Produced'
  <2>1. Len(out) = Len(Confirmed)
    BY <1>2, ConfirmedTypes DEF Inv, Typed, Produced, Generating
  <2>2. \A i \in 1 .. cur' - 1 : FALSE
    BY <1>2
  <2> QED BY <1>2, <2>1, <2>2 DEF Inv, Produced, Generating, Phase5
<1> QED BY <1>1, <1>3, <1>4, <1>5, Within4Keeps

\* A row is only created where there is none.
LEMMA PersistFixKeeps ==
  ASSUME Inv, PersistFix
  PROVE  Inv'
<1>1. /\ pc = "persist4" /\ cur <= Len(out) /\ pc \in Phase4 /\ pc \notin Phase5
      /\ UNCHANGED <<fixApproved, stalls, autoApply, loaded, prRows, auditedFixes, auditedPrs, prs,
                     config, killed, faults, resumes>>
  BY DEF PersistFix, vcs, env, Phase4, Phase5, Generating
<1>2. cur \in 1 .. Len(Confirmed) /\ Len(out) = Len(Confirmed) /\ out \in Seq(FixRecords)
  BY <1>1, ConfirmedTypes DEF Inv, Typed, Produced
<1> DEFINE fix == out[cur]
           id == Confirmed[cur]
<1>3. SoundFix(config, fix) /\ fix.finding = id /\ id \in Ids /\ fix \in FixRecords
  BY <1>1, <1>2, ConfirmedTypes DEF Inv, Produced, SoundFix
<1> HIDE DEF fix, id
<1>4. CASE rows[id] # <<>>
  <2>1. failScan /\ UNCHANGED rows
    BY <1>3, <1>4 DEF PersistFix, fix
  <2>2. Reset /\ pc' # "gate"
    BY <2>1, FailResets, StartOf DEF Reset
  <2>3. Kept /\ Bystanders
    BY <1>1, <2>1, <2>2 DEF Inv, Typed, Kept, Bystanders, Reset
  <2> QED BY <1>1, <2>2, <2>3, KeptOpened, ResetKeeps
<1>5. CASE rows[id] = <<>>
  <2>1. /\ rows' = [rows EXCEPT ![id] = <<fix>>] /\ cur' = cur + 1
        /\ UNCHANGED <<status, gateState, job, pc, attempt, p, out>>
    BY <1>3, <1>5 DEF PersistFix, fix
  <2>2. <<fix>> \in Seq(FixRecords) /\ <<fix>> # <<>> /\ <<fix>>[1] = fix
    <3>1. <<fix>> \in Seq(FixRecords) /\ Len(<<fix>>) = 1 /\ <<fix>>[1] = fix
      BY <1>3
    <3> QED BY <3>1
  <2>3. rows \in [Ids -> Seq(FixRecords)]
    BY DEF Inv, Typed
  <2>4. /\ rows' \in [Ids -> Seq(FixRecords)] /\ rows'[id] # <<>> /\ rows'[id][1] = fix
        /\ \A f \in Ids : rows[f] # <<>> => rows'[f] = rows[f]
        /\ \A f \in Ids : f = id \/ rows'[f] = rows[f]
    <3> DEFINE fx == <<fix>>
    <3>1. fx \in Seq(FixRecords) /\ fx # <<>> /\ fx[1] = fix /\ rows' = [rows EXCEPT ![id] = fx]
      BY <2>1, <2>2
    <3> HIDE DEF fx
    <3> QED BY <1>3, <1>5, <2>3, <3>1
  <2>5. Typed'
    <3>1. cur' \in 1 .. Len(Confirmed) + 1
      BY <1>2, <2>1, ConfirmedTypes
    <3> QED BY <1>1, <2>1, <2>4, <3>1 DEF Inv, Typed
  <2>6. CallsCounted'
    BY <1>1, <2>1, SameLimits DEF Inv, CallsCounted
  <2>7. RowsSound'
    <3> SUFFICES ASSUME NEW f \in Ids, rows'[f] # <<>>
                 PROVE  SoundFix(config', rows'[f][1]) /\ rows'[f][1].finding = f
      BY DEF RowsSound
    <3>1. CASE f = id
      BY <1>1, <1>3, <2>4, <3>1
    <3>2. CASE f # id
      <4>1. rows'[f] = rows[f]
        BY <2>4, <3>2
      <4> QED BY <1>1, <4>1 DEF Inv, RowsSound
    <3> QED BY <3>1, <3>2
  <2>8. Produced'
    <3>1. \A i \in 1 .. cur' - 1 : rows'[Confirmed[i]] # <<>>
      <4> TAKE i \in 1 .. cur' - 1
      <4>1. CASE i = cur
        BY <2>4, <4>1 DEF id
      <4>2. CASE i \in 1 .. cur - 1
        <5>1. rows[Confirmed[i]] # <<>> /\ Confirmed[i] \in Ids
          BY <1>1, <1>2, <4>2, ConfirmedTypes DEF Inv, Produced
        <5> QED BY <2>4, <5>1
      <4> QED BY <1>2, <2>1, <4>1, <4>2, ConfirmedTypes
    <3> QED BY <1>1, <2>1, <3>1 DEF Inv, Produced, Generating, Phase5
  <2>9. GatePassed'
    <3>1. AllStored => AllStored'
      BY <1>1, <2>4 DEF AllStored
    <3>2. MayOpen' <=> MayOpen
      BY <1>1 DEF MayOpen
    <3> QED BY <1>1, <2>1, <3>1, <3>2 DEF Inv, GatePassed
  <2>10. Planned'
    BY <1>1, <2>1 DEF Inv, Planned, Phase5
  <2>11. Opened'
    <3>1. prs = <<>>
      BY <1>1 DEF Inv, Planned
    <3> QED BY <1>1, <3>1 DEF Opened
  <2> QED BY <2>5, <2>6, <2>7, <2>8, <2>9, <2>10, <2>11 DEF Inv
<1> QED BY <1>4, <1>5

-----------------------------------------------------------------------------
(* The fix gate *)

\* A delivery of Layer 5 or the wait for the approver starts.
Handover ==
  /\ pc \notin Phase5 /\ pc' \in {"start5", "gate"}
  /\ attempt' = 1 /\ cur' = 1 /\ p' = NoWork /\ out' = <<>>
  /\ job' \in {"ready", "completed"} /\ stalls' \in {0, stalls}
  /\ UNCHANGED <<config, status, loaded, rows, prRows, auditedFixes, auditedPrs, prs,
                 killed, faults, resumes>>

LEMMA HandoverKeeps ==
  ASSUME Inv, Handover, GatePassed', autoApply' \in BOOLEAN, fixApproved' \in BOOLEAN,
         gateState' \in {"estimate_approved", "fix_gate_pending", "auto_approved", "approved", "blocked"}
  PROVE  Inv'
<1>1. Typed'
  BY Limits, ConfirmedTypes, NoWorkTyped DEF Inv, Typed, Handover, Labels
<1>2. CallsCounted'
  <2>1. MaxLlmCalls' \in Nat
    BY SameLimits, CallsLimit DEF Inv, Typed, Handover
  <2> QED BY <2>1, NoWorkTyped DEF CallsCounted, Handover
<1>3. RowsSound'
  BY DEF Inv, RowsSound, Handover
<1>4. Produced'
  BY DEF Produced, Handover, Generating, Phase5
<1>5. prs = <<>>
  BY DEF Inv, Planned, Handover
<1>6. Planned' /\ Opened'
  BY <1>5, NoWorkTyped DEF Planned, Opened, Handover, Phase5
<1> QED BY <1>1, <1>2, <1>3, <1>4, <1>6 DEF Inv

LEMMA FixGateKeeps ==
  ASSUME Inv, FixGate
  PROVE  Inv'
<1>1. /\ pc = "persist4" /\ cur > Len(out) /\ config \in Configs
      /\ UNCHANGED <<config, rows, auditedFixes, fixApproved, loaded, killed>>
  BY DEF Inv, Typed, FixGate, tables, env
<1>2. Handover
  BY DEF FixGate, return, schedule, begin, Handover, Phase5, tables, vcs, env
<1>3. AllStored
  <2>1. Len(out) = Len(Confirmed)
    BY <1>1 DEF Inv, Produced
  <2> SUFFICES ASSUME NEW f \in Ids
               PROVE  rows[f] # <<>> /\ f \in auditedFixes
    BY DEF AllStored
  <2>2. PICK i \in 1 .. Len(Confirmed) : Confirmed[i] = f
    BY ConfirmedTypes
  <2>3. i \in 1 .. cur - 1 /\ i \in 1 .. Len(out)
    BY <1>1, <2>1, ConfirmedTypes DEF Inv, Typed
  <2> QED BY <1>1, <2>2, <2>3 DEF Inv, Produced, Generating
<1>4. AllStored'
  BY <1>1, <1>3 DEF AllStored
<1>5. gateState # "fix_gate_pending" /\ fixApproved' \in BOOLEAN
  BY <1>1 DEF Inv, Typed, GatePassed
<1>6. CASE UNCHANGED <<gateState, autoApply>> /\ pc' = "start5"
  <2>1. MayOpen' <=> MayOpen
    BY <1>1, <1>6 DEF MayOpen
  <2>2. GatePassed'
    BY <1>1, <1>4, <1>5, <1>6, <2>1 DEF Inv, GatePassed
  <2> QED BY <1>2, <1>5, <1>6, <2>2, HandoverKeeps DEF Inv, Typed
<1>7. CASE /\ wouldOpenPrs /\ gateState' = "fix_gate_pending" /\ pc' = "gate"
           /\ UNCHANGED autoApply
  <2>1. config.autoFix
    BY <1>7 DEF wouldOpenPrs
  <2>2. autoApply' => MayOpen'
    BY <1>1, <1>7 DEF Inv, GatePassed, MayOpen
  <2>3. GatePassed'
    BY <1>1, <1>4, <1>7, <2>1, <2>2 DEF GatePassed
  <2> QED BY <1>2, <1>5, <1>7, <2>3, HandoverKeeps DEF Inv, Typed
<1>8. CASE /\ ~(wouldOpenPrs /\ config.approverRequired) /\ gateState' = "auto_approved"
           /\ autoApply' = wouldOpenPrs /\ pc' = "start5"
  <2>1. autoApply' \in BOOLEAN
    BY <1>1, <1>8, ConfigTypes DEF wouldOpenPrs
  <2>2. autoApply' => MayOpen'
    BY <1>1, <1>8 DEF wouldOpenPrs, MayOpen
  <2>3. GatePassed'
    BY <1>4, <1>8, <2>2 DEF GatePassed
  <2> QED BY <1>2, <1>5, <1>8, <2>1, <2>3, HandoverKeeps
<1> QED BY <1>6, <1>7, <1>8 DEF FixGate, return, schedule, begin

LEMMA ApproveFixKeeps ==
  ASSUME Inv, ApproveFix
  PROVE  Inv'
<1>1. /\ Handover /\ gateState' = "approved" /\ autoApply' = TRUE /\ fixApproved' = TRUE
      /\ pc = "gate" /\ pc' = "start5"
  BY DEF ApproveFix, schedule, begin, Handover, Phase5, tables, vcs, env
<1>2. AllStored' /\ config'.autoFix
  BY <1>1 DEF Inv, GatePassed, AllStored, Handover
<1>3. GatePassed'
  BY <1>1, <1>2 DEF GatePassed, MayOpen
<1> QED BY <1>1, <1>3, HandoverKeeps

-----------------------------------------------------------------------------
(* Layer 5 *)

\* A step of Layer 5 within a delivery.
Within5 ==
  /\ pc \in Phase5 /\ pc' \in Phase5 \ {"start5"}
  /\ p' \in Works /\ p'.calls <= MaxLlmCalls /\ \A f \in p'.plans : Openable(f)
  /\ pc' \in {"create", "audit5"} => p'.plans # {}
  /\ status' \in {"running", "completed", "failed", "cancelled"}
  /\ out' \in Seq(Ids)
  /\ UNCHANGED <<attempt, cur>>

LEMMA Within5Keeps ==
  ASSUME Inv, Within5, Kept, Bystanders, Opened'
  PROVE  Inv'
<1>1. pc' # "gate" /\ pc' \in Labels /\ pc' \notin Phase4 /\ pc' \notin Generating
      /\ pc \notin Generating \cup {"persist4"}
  BY DEF Within5, Phase4, Phase5, Generating, Labels
<1>2. Typed'
  BY <1>1 DEF Inv, Typed, Within5, Kept, Bystanders
<1>3. CallsCounted'
  BY <1>1, SameLimits DEF CallsCounted, Within5, Kept, Phase4, Generating
<1>4. RowsSound' /\ GatePassed' /\ \A f \in Ids : Openable(f) => Openable(f)'
  BY <1>1, KeptSound
<1>5. Produced'
  BY <1>1 DEF Inv, Produced, Within5, Phase4, Phase5, Generating
<1>6. Planned'
  <2>1. p'.plans \subseteq Ids
    BY DEF Within5, Works
  <2> QED BY <1>4, <2>1 DEF Planned, Within5
<1> QED BY <1>2, <1>3, <1>4, <1>5, <1>6 DEF Inv

LEMMA BeginLayer5Keeps ==
  ASSUME Inv, BeginLayer5
  PROVE  Inv'
<1>1. Kept /\ Bystanders
  BY CopyTaken DEF Inv, Typed, BeginLayer5, Kept, Bystanders, row, tables, queue, env
<1>2. /\ pc = "start5" /\ pc' = "open" /\ p' = [NoWork EXCEPT !.plans = planAutoFixPullRequests(loaded')]
      /\ UNCHANGED <<status, prs, attempt, cur, out, config>>
  BY DEF BeginLayer5, row, tables, queue, vcs, env
<1>3. planAutoFixPullRequests(loaded') \subseteq Ids
  BY DEF planAutoFixPullRequests, Ids
<1>4. p' \in Works /\ p'.plans = planAutoFixPullRequests(loaded') /\ p'.calls = 0
  BY <1>2, <1>3, NoWorkTyped DEF Works
<1>5. \A f \in planAutoFixPullRequests(loaded') : Openable(f)
  BY DEF Inv, GatePassed, planAutoFixPullRequests, prGateDecision, Openable
<1>6. Within5
  BY <1>2, <1>4, <1>5, CallsLimit DEF Within5, Inv, Typed, Produced, Phase5
<1> QED BY <1>1, <1>2, <1>6, KeptOpened, Within5Keeps

\* What the steps on a plan start from.
LEMMA OnPlan ==
  ASSUME Inv, pc \in {"open", "create", "audit5", "persist5"}
  PROVE  /\ pc \in Phase5 /\ pc \notin Phase4 /\ out \in Seq(Ids) /\ p \in Works
         /\ p.calls <= MaxLlmCalls /\ \A f \in p.plans : Openable(f)
         /\ p.plans # {} => plan \in p.plans /\ plan \in Ids
         /\ pc \in {"create", "audit5"} => p.plans # {}
<1>1. pc \in Phase5 /\ pc \notin Phase4
  BY DEF Phase4, Phase5, Generating
<1> QED BY <1>1, PlanIsLeft DEF Inv, Typed, Produced, Planned, CallsCounted

\* Staging and what follows it leaves the pull requests alone.
LEMMA StageKeeps ==
  ASSUME Inv, Stage
  PROVE  Inv'
<1>1. /\ pc = "open" /\ p.plans # {}
      /\ UNCHANGED <<fixApproved, stalls, autoApply, loaded, rows, prRows, auditedFixes, auditedPrs,
                     prs, config, killed, resumes>>
  BY DEF Stage, Opening, tables
<1>2. CASE pc' = "create" /\ UNCHANGED <<status, gateState, job, faults, attempt, cur, p, out>>
  <2>1. Kept /\ Bystanders
    BY <1>1, <1>2 DEF Inv, Typed, Kept, Bystanders
  <2>2. Within5
    BY <1>1, <1>2, OnPlan DEF Within5, Inv, Typed, Phase5
  <2> QED BY <1>1, <1>2, <2>1, <2>2, KeptOpened, Within5Keeps
<1>3. CASE Throw /\ (UNCHANGED faults \/ Fault)
  <2>1. Reset /\ pc' # "gate"
    BY <1>3, ThrowResets, StartOf DEF Reset
  <2>2. Kept /\ Bystanders
    BY <1>1, <1>3, <2>1, FaultTyped DEF Inv, Typed, Kept, Bystanders, Reset
  <2> QED BY <1>1, <2>1, <2>2, KeptOpened, ResetKeeps
<1> QED BY <1>2, <1>3 DEF Stage

LEMMA PrepushedKeeps ==
  ASSUME Inv, Prepushed
  PROVE  Inv'
<1>1. /\ pc = "open" /\ pc' = "create" /\ p.plans # {}
      /\ UNCHANGED <<status, attempt, cur, p, out, prs>>
  BY DEF Prepushed, Opening, row, tables, queue, vcs
<1>2. Kept /\ Bystanders
  BY <1>1 DEF Inv, Typed, Prepushed, Kept, Bystanders, row, tables, queue, env
<1>3. Within5
  BY <1>1, OnPlan DEF Within5, Inv, Typed, Phase5
<1> QED BY <1>1, <1>2, <1>3, KeptOpened, Within5Keeps

\* A pull request is opened on a branch that has none, so for a fix that has none.
LEMMA OpenedOnce ==
  ASSUME Inv, Kept, p.plans # {}, pc \in {"create", "audit5"},
         [fix |-> plan, branch |-> branch(plan)] \notin Range(prs),
         prs' = Append(prs, [fix |-> plan, branch |-> branch(plan)])
  PROVE  Opened'
<1> DEFINE open == [fix |-> plan, branch |-> branch(plan)]
           n == Len(prs) + 1
<1>1. plan \in Ids /\ Openable(plan)
  BY OnPlan
<1>2. \A f \in Ids : Openable(f) => Openable(f)'
  BY KeptSound
<1>3. open \in Prs /\ open.fix = plan /\ open.branch = branch(plan)
  BY <1>1 DEF Prs, branch
<1>4. prs \in Seq(Prs) /\ Len(prs) \in Nat /\ \A i \in 1 .. Len(prs) : prs[i] \in Prs
  BY DEF Inv, Opened
<1>5. \A i \in 1 .. Len(prs) : prs[i].fix \in Ids /\ prs[i].fix # plan
  <2> TAKE i \in 1 .. Len(prs)
  <2>1. prs[i] \in Prs /\ prs[i].branch = branch(prs[i].fix) /\ prs[i] # open
    BY <1>4 DEF Inv, Opened, Range
  <2>2. prs[i] = [fix |-> prs[i].fix, branch |-> prs[i].branch] /\ prs[i].fix \in Ids
    BY <2>1 DEF Prs
  <2> QED BY <2>1, <2>2
<1> HIDE DEF open
<1>6. /\ prs' \in Seq(Prs) /\ Len(prs') = n /\ prs'[n] = open
      /\ \A i \in 1 .. Len(prs) : prs'[i] = prs[i]
  BY <1>3, <1>4 DEF open
<1>7. \A i \in 1 .. n : i = n \/ i \in 1 .. Len(prs)
  BY <1>4
<1>8. \A i \in 1 .. n : (prs[i].branch = branch(prs[i].fix) /\ Openable(prs[i].fix))'
  <2>1. \A f \in Ids : Openable(f) => MayOpen' /\ rows'[f] # <<>> /\ rows'[f][1].riskClass = "auto-eligible"
    BY <1>2 DEF Openable
  <2> TAKE i \in 1 .. n
  <2>2. CASE i = n
    <3>1. prs'[i].fix = plan /\ prs'[i].branch = branch(plan)
      BY <1>3, <1>6, <2>2
    <3> QED BY <1>1, <2>1, <3>1 DEF Openable, branch
  <2>3. CASE i \in 1 .. Len(prs)
    <3>1. prs'[i] = prs[i] /\ prs[i].branch = branch(prs[i].fix) /\ Openable(prs[i].fix)
      BY <1>6, <2>3 DEF Inv, Opened
    <3>2. prs[i].fix \in Ids
      BY <1>5, <2>3
    <3> QED BY <2>1, <3>1, <3>2 DEF Openable, branch
  <2> QED BY <1>7, <2>2, <2>3
<1>9. \A i, j \in 1 .. n : prs'[i].fix = prs'[j].fix => i = j
  <2>1. \A i, j \in 1 .. Len(prs) : prs[i].fix = prs[j].fix => i = j
    BY DEF Inv, Opened
  <2> HIDE DEF n
  <2>2. \A i \in 1 .. Len(prs) : prs'[i].fix # prs'[n].fix
    BY <1>3, <1>5, <1>6
  <2>3. \A i, j \in 1 .. Len(prs) : prs'[i].fix = prs'[j].fix => i = j
    BY <1>6, <2>1
  <2> QED BY <1>7, <2>2, <2>3
<1> QED BY <1>6, <1>8, <1>9 DEF Opened, branch

LEMMA CreateKeeps ==
  ASSUME Inv, Create
  PROVE  Inv'
<1> DEFINE open == [fix |-> plan, branch |-> branch(plan)]
<1>1. /\ pc = "create"
      /\ UNCHANGED <<fixApproved, stalls, autoApply, loaded, rows, prRows, auditedFixes, auditedPrs,
                     config, killed, resumes>>
  BY DEF Create, tables
<1>2. p.plans # {}
  BY <1>1, OnPlan
<1>3. ASSUME Kept, prs' = prs \/ (open \notin Range(prs) /\ prs' = Append(prs, open))
      PROVE  Opened'
  BY <1>1, <1>2, <1>3, KeptOpened, OpenedOnce
<1>4. CASE /\ open \notin Range(prs) /\ prs' = Append(prs, open)
           /\ pc' = "audit5" /\ UNCHANGED <<status, gateState, job, faults, attempt, cur, p, out>>
  <2>1. Kept /\ Bystanders
    BY <1>1, <1>4 DEF Inv, Typed, Kept, Bystanders
  <2>2. Within5
    BY <1>1, <1>4, OnPlan DEF Within5, Inv, Typed, Phase5
  <2> QED BY <1>3, <1>4, <2>1, <2>2, Within5Keeps
<1>5. CASE /\ Throw /\ (UNCHANGED faults \/ Fault)
           /\ prs' = prs \/ (open \notin Range(prs) /\ prs' = Append(prs, open))
  <2>1. Reset /\ pc' # "gate"
    BY <1>5, ThrowResets, StartOf DEF Reset
  <2>2. Kept /\ Bystanders
    BY <1>1, <1>5, <2>1, FaultTyped DEF Inv, Typed, Kept, Bystanders, Reset
  <2> QED BY <1>1, <1>3, <1>5, <2>1, <2>2, OnPlan, ResetKeeps
<1> QED BY <1>4, <1>5 DEF Create

LEMMA AuditPrKeeps ==
  ASSUME Inv, AuditPr
  PROVE  Inv'
<1>1. /\ pc = "audit5"
      /\ UNCHANGED <<fixApproved, stalls, autoApply, loaded, rows, prRows, auditedFixes, prs,
                     config, killed, resumes>>
  BY DEF AuditPr, vcs
<1>2. plan \in Ids
  BY <1>1, OnPlan
<1>3. CASE /\ auditedPrs' = auditedPrs \cup {plan}
           /\ pc' = "open" /\ p' = [p EXCEPT !.plans = @ \ {plan}] /\ out' = Append(out, plan)
           /\ UNCHANGED <<status, gateState, job, faults, attempt, cur>>
  <2>1. Kept /\ Bystanders
    BY <1>1, <1>2, <1>3 DEF Inv, Typed, Kept, Bystanders
  <2>2. p' \in Works /\ p'.plans = p.plans \ {plan} /\ p'.calls = p.calls
    BY <1>1, <1>3, OnPlan DEF Works
  <2>3. out' \in Seq(Ids)
    <3> DEFINE x == plan
    <3>1. x \in Ids /\ out \in Seq(Ids) /\ out' = Append(out, x)
      BY <1>1, <1>2, <1>3, OnPlan
    <3> HIDE DEF x
    <3> QED BY <3>1
  <2>4. Within5
    BY <1>1, <1>3, <2>2, <2>3, OnPlan DEF Within5, Inv, Typed, Phase5
  <2> QED BY <1>1, <1>2, <1>3, <2>1, <2>4, KeptOpened, Within5Keeps
<1>4. CASE Fault /\ Throw /\ UNCHANGED auditedPrs
  <2>1. Reset /\ pc' # "gate"
    BY <1>4, ThrowResets, StartOf DEF Reset
  <2>2. Kept /\ Bystanders
    BY <1>1, <1>4, <2>1, FaultTyped DEF Inv, Typed, Kept, Bystanders, Reset
  <2> QED BY <1>1, <2>1, <2>2, KeptOpened, ResetKeeps
<1> QED BY <1>3, <1>4 DEF AuditPr

LEMMA Output5Keeps ==
  ASSUME Inv, Output5
  PROVE  Inv'
<1>1. pc = "open" /\ pc' = "persist5" /\ UNCHANGED <<status, attempt, cur, p, out, prs>>
  BY DEF Output5, row, tables, queue, vcs
<1>2. Kept /\ Bystanders
  BY DEF Inv, Typed, Output5, Kept, Bystanders, row, tables, queue, env
<1>3. Within5
  BY <1>1, OnPlan DEF Within5, Inv, Typed, Phase5
<1> QED BY <1>1, <1>2, <1>3, KeptOpened, Within5Keeps

\* No PullRequest row exists, so that linking one always fails the scan.
LEMMA LinkPrKeeps ==
  ASSUME Inv, LinkPr
  PROVE  Inv'
<1>1. /\ pc = "persist5" /\ prRows = {}
      /\ UNCHANGED <<fixApproved, stalls, autoApply, loaded, prRows, auditedFixes, auditedPrs, prs,
                     config, killed, faults, resumes>>
  BY DEF Inv, Typed, LinkPr, vcs, env
<1>2. failScan /\ UNCHANGED rows
  BY <1>1 DEF LinkPr
<1>3. Reset /\ pc' # "gate"
  BY <1>2, FailResets, StartOf DEF Reset
<1>4. Kept /\ Bystanders
  BY <1>1, <1>2, <1>3 DEF Inv, Typed, Kept, Bystanders, Reset
<1> QED BY <1>1, <1>3, <1>4, KeptOpened, ResetKeeps

LEMMA FinalizeCompleteKeeps ==
  ASSUME Inv, FinalizeComplete
  PROVE  Inv'
<1>1. /\ pc = "persist5" /\ pc' = "end" /\ UNCHANGED <<attempt, cur, p, out, prs>>
      /\ status' \in {"completed", status}
  BY DEF FinalizeComplete, vcs
<1>2. Kept /\ Bystanders
  BY DEF Inv, Typed, FinalizeComplete, Kept, Bystanders, tables, env
<1>3. Within5
  BY <1>1, OnPlan DEF Within5, Inv, Typed, Phase5
<1> QED BY <1>1, <1>2, <1>3, KeptOpened, Within5Keeps

-----------------------------------------------------------------------------
(* Kill switch, crash, resume *)

\* A step of the environment that leaves layers, rows and permissions alone.
Aside ==
  /\ UNCHANGED <<config, fixApproved, loaded, pc, attempt, cur, p, out,
                 rows, prRows, auditedFixes, auditedPrs, prs>>
  /\ status' \in {"running", "completed", "failed", "cancelled"}
  /\ gateState' = gateState \/ (gateState' = "blocked" /\ killed')
  /\ autoApply' \in BOOLEAN /\ (autoApply' => autoApply) /\ (killed => killed')
  /\ Bystanders

LEMMA AsideKeeps ==
  ASSUME Inv, Aside
  PROVE  Inv'
<1>1. Typed'
  BY DEF Inv, Typed, Aside, Bystanders
<1>2. CallsCounted' /\ RowsSound' /\ Produced'
  BY SameLimits DEF Inv, Aside, CallsCounted, RowsSound, Produced
<1>3. MayOpen' <=> MayOpen
  BY DEF Aside, MayOpen
<1>4. GatePassed'
  BY <1>3 DEF Inv, Aside, GatePassed, AllStored
<1>5. Planned' /\ Opened'
  BY <1>3 DEF Inv, Aside, Planned, Opened, Openable, branch
<1> QED BY <1>1, <1>2, <1>4, <1>5 DEF Inv

LEMMA KillKeeps ==
  ASSUME Inv, Kill
  PROVE  Inv'
<1>1. Aside
  BY DEF Inv, Typed, Kill, Aside, Bystanders, tables, queue, vcs, locals
<1> QED BY <1>1, AsideKeeps

LEMMA EvictKeeps ==
  ASSUME Inv, Evict
  PROVE  Inv'
<1>1. Aside
  BY DEF Inv, Typed, Evict, Aside, Bystanders, row, tables, vcs, env, locals
<1> QED BY <1>1, AsideKeeps

\* A resumed Layer 5 opens nothing, and what has been opened stays permitted.
LEMMA ResumeKeeps ==
  ASSUME Inv, Resume
  PROVE  Inv'
<1>1. /\ job' \in {job, "ready"} /\ stalls' \in {stalls, 0}
      /\ autoApply' \in BOOLEAN /\ (autoApply' => autoApply)
      /\ resumes' \in 0 .. MaxResumes
  <2>1. resumes' \in 0 .. MaxResumes
    BY Limits DEF Inv, Typed, Resume
  <2>2. CASE job = "gone"
    BY <2>1, <2>2 DEF Resume, schedule
  <2>3. CASE job # "gone"
    BY <2>1, <2>3 DEF Inv, Typed, Resume, queue
  <2> QED BY <2>2, <2>3
<1>2. Aside
  BY <1>1, Limits DEF Inv, Typed, Resume, Aside, Bystanders, tables, vcs, locals
<1> QED BY <1>2, AsideKeeps

LEMMA SkipKeeps ==
  ASSUME Inv, Skip
  PROVE  Inv'
<1>1. /\ pc \in {"start4", "start5"} /\ startOf = pc
      /\ UNCHANGED <<status, gateState, fixApproved, rows, prRows, auditedFixes, auditedPrs, stalls,
                     autoApply, loaded, prs, config, killed, faults, resumes>>
  BY DEF Skip, AtStart, startOf, row, tables, vcs, env
<1>2. Reset /\ pc' # "gate"
  BY <1>1, Limits DEF Inv, Typed, Skip, return, begin, Reset
<1>3. Kept /\ Bystanders
  BY <1>1, <1>2 DEF Inv, Typed, Kept, Bystanders, Reset
<1> QED BY <1>1, <1>2, <1>3, KeptOpened, ResetKeeps

LEMMA CrashKeeps ==
  ASSUME Inv, Crash
  PROVE  Inv'
<1>1. /\ pc # "gate"
      /\ UNCHANGED <<status, gateState, fixApproved, rows, prRows, auditedFixes, auditedPrs,
                     autoApply, loaded, prs, config, killed, resumes>>
  BY DEF Crash, row, tables
<1>2. job' \in {job, "failed"} /\ stalls' \in 0 .. MaxStalls
  BY Limits DEF Inv, Typed, Crash
<1>3. Reset /\ pc' # "gate"
  BY <1>1, <1>2, Limits, StartOf DEF Inv, Typed, Crash, begin, Reset
<1>4. Kept /\ Bystanders
  BY <1>1, <1>2, <1>3, FaultTyped DEF Inv, Typed, Crash, Kept, Bystanders
<1> QED BY <1>1, <1>3, <1>4, KeptOpened, ResetKeeps

-----------------------------------------------------------------------------
(* The theorems *)

LEMMA InitInv == Init => Inv
<1> SUFFICES ASSUME Init
             PROVE  Inv
  OBVIOUS
<1>1. Typed
  <2>1. <<>> \in Seq(FixRecords)
    OBVIOUS
  <2>2. rows \in [Ids -> Seq(FixRecords)]
    BY <2>1 DEF Init, Ids
  <2>3. 1 \in 1 .. Attempts /\ 1 \in 1 .. Len(Confirmed) + 1 /\ 0 \in 0 .. MaxFaults
        /\ 0 \in 0 .. MaxStalls /\ 0 \in 0 .. MaxResumes
    BY Limits, ConfirmedTypes
  <2>4. p \in Works
    BY NoWorkTyped DEF Init
  <2> QED BY <2>2, <2>3, <2>4 DEF Init, Typed, Labels
<1>2. CallsCounted
  BY <1>1, CallsLimit, NoWorkTyped DEF Init, Typed, CallsCounted
<1>3. RowsSound
  BY DEF Init, RowsSound, Ids
<1>4. Produced
  BY DEF Init, Produced, Generating, Phase5
<1>5. GatePassed
  BY DEF Init, GatePassed
<1>6. Planned /\ Opened
  BY NoWorkTyped DEF Init, Planned, Opened, Phase5
<1> QED BY <1>1, <1>2, <1>3, <1>4, <1>5, <1>6 DEF Inv

LEMMA NextInv == Inv /\ [Next]_vars => Inv'
<1> SUFFICES ASSUME Inv, [Next]_vars
             PROVE  Inv'
  OBVIOUS
<1>1. CASE UNCHANGED vars
  <2>1. UNCHANGED <<config, status, gateState, fixApproved, job, stalls, autoApply, loaded, pc, attempt, cur, p, out, rows, prRows,
                    auditedFixes, auditedPrs, prs, killed, faults, resumes>>
    BY <1>1 DEF vars, row, tables, queue, vcs, env, locals
  <2> QED BY <2>1 DEF Inv, Typed, CallsCounted, MaxLlmCalls, maxIters, RowsSound, Produced,
                      GatePassed, AllStored, MayOpen, Planned, Opened, Openable, branch
<1>2. CASE Step
  BY <1>2, BeginLayer4Keeps, SkipKeeps, TakeFindingKeeps, ProposeKeeps, ValidateKeeps, AuditFixKeeps,
     Output4Keeps, PersistFixKeeps, FixGateKeeps, BeginLayer5Keeps, StageKeeps, PrepushedKeeps,
     CreateKeeps, AuditPrKeeps, Output5Keeps, LinkPrKeeps, FinalizeCompleteKeeps DEF Step
<1>3. CASE ApproveFix \/ Kill \/ Crash \/ Evict \/ Resume
  BY <1>3, ApproveFixKeeps, KillKeeps, CrashKeeps, EvictKeeps, ResumeKeeps
<1> QED BY <1>1, <1>2, <1>3 DEF Next

LEMMA Invariance == Spec => []Inv
  BY InitInv, NextInv, PTL DEF Spec

\* Every variable keeps its shape, for any findings and deployments; a layer
\* makes at most Attempts attempts, and the proposal of a fix costs no more model
\* calls than the limits of the agent loop (runWithRetry, proposeFixWithAgent).
THEOREM TypeCorrect == Spec => []TypeOK
<1>1. Inv => TypeOK
  <2> SUFFICES ASSUME Inv
               PROVE  TypeOK
    OBVIOUS
  <2>1. \A f \in Ids : rows[f] = <<>> \/ rows[f][1] \in FixRecords
    BY DEF Inv, RowsSound, SoundFix
  <2>2. p.calls \in 0 .. MaxLlmCalls
    BY CallsLimit DEF Inv, Typed, CallsCounted, Works
  <2> QED BY <2>1, <2>2 DEF Inv, Typed, TypeOK, Ids
<1> QED BY <1>1, Invariance, PTL

\* Whatever the model proposes and whatever fails in between, a stored fix that
\* is auto-eligible is the patch that was accepted: it applies, is small, outside
\* auth and shared code and in a category the deployment does not reserve for
\* humans, and its proof test failed before and passes after it unless a container
\* replay decided (generateOne, classifyConfirmedFindingRisk, renderProofTest).
THEOREM AutoEligibleFixesAreSound == Spec => []AutoEligibleSound
<1>1. Inv => AutoEligibleSound
  <2> SUFFICES ASSUME Inv, NEW f \in Ids, rows[f] # <<>>, rows[f][1].riskClass = "auto-eligible"
               PROVE  LET fix == rows[f][1] IN
                      /\ fix.patch # NoPatch /\ fix.patch.applies
                      /\ ~fix.patch.auth /\ fix.patch.lines <= MAX_AUTO_CHANGED_LINES
                      /\ Finding[fix.finding].file = "plain"
                      /\ Finding[fix.finding].category \notin config.humanRequiredCategoriesAlways
                      /\ ~config.containerProof => Proven(fix.finding, fix.patch)
    BY DEF AutoEligibleSound, stored, Ids, Proven
  <2> DEFINE fix == rows[f][1]
  <2>1. SoundFix(config, fix) /\ fix.finding = f
    BY DEF Inv, RowsSound
  <2>2. fix.patch \in Patches
    BY <2>1 DEF SoundFix, FixRecords
  <2> HIDE DEF fix
  <2>3. classifyConfirmedFindingRisk(f, fix.patch, config.humanRequiredCategoriesAlways)
          = "auto-eligible"
    BY <2>1 DEF SoundFix, fix
  <2>4. /\ Finding[f].category \notin config.humanRequiredCategoriesAlways /\ fix.patch # NoPatch
        /\ ~touchesAuthOrCrypto(f, fix.patch) /\ ~wideBlastRadius(f, fix.patch)
    BY <2>3 DEF classifyConfirmedFindingRisk
  <2>5. fix.patch.lines \in Nat
    BY <2>2, <2>4, PatchTypes DEF RealPatches
  <2>6. ~fix.patch.auth /\ fix.patch.lines <= MAX_AUTO_CHANGED_LINES /\ Finding[f].file = "plain"
    BY <2>4, <2>5, FindingTypes DEF touchesAuthOrCrypto, wideBlastRadius, MAX_AUTO_CHANGED_LINES
  <2> QED BY <2>1, <2>4, <2>6 DEF SoundFix, fix
<1> QED BY <1>1, Invariance, PTL

\* No pull request without a stored auto-eligible fix, auto-fix and the approval
\* the deployment asks for, through retries, redelivery, kills and resumes
\* (prGateDecision, evaluateFixGate, approveGate).
THEOREM PullRequestsAreGated == Spec => []PrsGated
<1>1. Inv => PrsGated
  <2>1. ASSUME Inv PROVE DOMAIN prs = 1 .. Len(prs)
    BY <2>1 DEF Inv, Opened
  <2> QED BY <2>1 DEF Inv, Opened, Openable, MayOpen, PrsGated
<1> QED BY <1>1, Invariance, PTL

\* No fix gets a second pull request (planAutoFixPullRequests, the VCS host).
THEOREM OnePullRequestPerFix == Spec => []OnePrPerFix
<1>1. Inv => OnePrPerFix
  <2>1. ASSUME Inv PROVE DOMAIN prs = 1 .. Len(prs)
    BY <2>1 DEF Inv, Opened
  <2> QED BY <2>1 DEF Inv, Opened, OnePrPerFix
<1> QED BY <1>1, Invariance, PTL

\* The fix gate is decided on stored and audited fixes of all confirmed findings
\* (auditFixGenerated, persistLayerOutput, advanceAfterLayer).
THEOREM GateSeesAllFixes == Spec => []GateOnAllFixes
<1>1. Inv => GateOnAllFixes
  BY DEF Inv, GatePassed, AllStored, GateOnAllFixes, Ids
<1> QED BY <1>1, Invariance, PTL
=============================================================================
