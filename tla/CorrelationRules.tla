-------------------------- MODULE CorrelationRules --------------------------
(***************************************************************************)
(* Layer 2, packages/correlation/src: grounding a candidate in the App Map *)
(* (grounding.ts), deduplication into root causes (dedup.ts), the scores   *)
(* (taxonomy.ts, scoring.ts), the bounded nudge of the model (llm.ts) and  *)
(* the ranked output (correlate.ts).                                       *)
(*                                                                         *)
(* An optional value is a sequence of at most one element.  Scores are     *)
(* exact integers: reachability in thousandths, exposure in twentieths,    *)
(* impact in twenty-thousandths.  The hypotheses, the semantic search and  *)
(* the hashes of identifiers are text and left out.                        *)
(***************************************************************************)
EXTENDS ConfirmRules, SequencesExt

INJECTION_CATEGORIES ==
  INJECTIONS \cup {"command_injection", "xss", "ssrf", "path_traversal", "xxe",
                   "insecure_deserialization", "open_redirect", "prompt_injection"}
SECRET_CATEGORIES == {"hardcoded_secret", "sensitive_data_exposure"}
DEPENDENCY_CATEGORIES == {"vulnerable_dependency"}
ACCESS_CATEGORIES ==
  {"broken_access_control", "broken_authentication", "idor", "mass_assignment"}

classifyCategory(c) ==
  CASE c \in INJECTION_CATEGORIES  -> "injection"
    [] c \in SECRET_CATEGORIES     -> "secret"
    [] c \in DEPENDENCY_CATEGORIES -> "dependency"
    [] c \in ACCESS_CATEGORIES     -> "access"
    [] c = "other"                 -> "other"
    [] OTHER                       -> "config"

-----------------------------------------------------------------------------
(* Grounding *)

\* The indexes of AppMapIndex, by file.
inFile(s, file) == SelectSeq(s, LAMBDA x : x.file = file)
first(s) == IF s = <<>> THEN <<>> ELSE <<Head(s)>>

\* pickNearestRoute, nearestByLine
nearestInFile(s, c) ==
  LET here == inFile(s, c.file)
  IN IF here = <<>> THEN <<>> ELSE << nearest(here, LAMBDA x : x.line, c.line) >>

\* The route of the file nearest to the candidate, else the one a source of the
\* file names.
routeOf(m, c) ==
  LET tagged == SelectSeq(inFile(m.sources, c.file), LAMBDA s : s.route # 0)
      named == SelectSeq(m.routes, LAMBDA r : tagged # <<>> /\ r.id = tagged[1].route)
  IN first(nearestInFile(m.routes, c) \o named)

\* groundCandidate.  c.sanitized: a known sanitizer is called in the snippet;
\* on a source or sink: its description has such a call or a safe marker.
groundCandidate(m, c) ==
  LET klass == classifyCategory(c.category)
      route == routeOf(m, c)
      sources == inFile(m.sources, c.file)
      onRoute == SelectSeq(sources, LAMBDA s : route # <<>> /\ s.route = route[1].id)
      sink == IF klass \in {"injection", "other"} THEN nearestInFile(m.sinks, c) ELSE <<>>
      source == IF sink = <<>> THEN <<>> ELSE first(onRoute \o sources)
      flow == \E i \in DOMAIN m.flows : m.flows[i].sinkFile = c.file
      sanitized == c.sanitized \/ \E x \in Range([sink |-> sink, source |-> source]) :
                                     x # <<>> /\ x[1].sanitized
      secret == inFile(m.secrets, c.file) # <<>>
      corroborated ==
        CASE klass = "injection"            -> sink # <<>> \/ flow \/ route # <<>>
          [] klass \in {"config", "access"} -> route # <<>> \/ inFile(m.entrypoints, c.file) # <<>>
          [] klass = "secret"               -> secret \/ route # <<>>
          [] klass = "dependency"           -> c.pkg \in m.thirdParty
          [] OTHER                          -> route # <<>> \/ sink # <<>>
  IN [klass   |-> klass, route |-> route, sink |-> sink, source |-> source,
      secret  |-> klass = "secret" /\ secret,
      reaches |-> klass = "injection" /\ (flow \/ (source # <<>> /\ ~sanitized)),
      demote  |-> ~corroborated \/ (klass = "injection" /\ ~flow /\ sanitized)]

-----------------------------------------------------------------------------
(* Deduplication *)

dedupKey(c, g) ==
  CASE g.klass = "injection" /\ g.sink # <<>> ->
         <<c.category, "sink", g.sink[1].file, g.sink[1].line>>
    [] g.klass \in {"config", "secret"} -> <<c.category, "file", c.file, 0>>
    [] g.klass = "dependency" ->
         <<c.category, "pkg", IF c.pkg = "" THEN c.file ELSE c.pkg, 0>>
    [] OTHER -> <<c.category, "loc", c.file, c.line>>

SEVERITY_WEIGHT ==
  [info |-> 10, low |-> 30, medium |-> 50, high |-> 75, critical |-> 100]

\* pickRepresentative: the most severe, then the lowest line, then the first.
pickRepresentative(cands, members) ==
  LET weight(i) == SEVERITY_WEIGHT[cands[i].rawSeverity]
  IN CHOOSE i \in members : \A j \in members :
       \/ weight(i) > weight(j)
       \/ /\ weight(i) = weight(j)
          /\ cands[i].line < cands[j].line \/ (cands[i].line = cands[j].line /\ i <= j)

\* groupCandidates: the root causes, as sets of candidates with what the
\* representative of each is grounded on.
groupCandidates(m, cands) ==
  LET key(i) == dedupKey(cands[i], groundCandidate(m, cands[i]))
      group(k) == {i \in DOMAIN cands : key(i) = k}
  IN {LET rep == pickRepresentative(cands, group(k))
      IN [key |-> k, members |-> group(k), rep |-> cands[rep],
          grounding |-> groundCandidate(m, cands[rep])] :
        k \in {key(i) : i \in DOMAIN cands}}

-----------------------------------------------------------------------------
(* Scores *)

CATEGORY_IMPACT_BASE ==
  [c \in Categories |->
     CASE c = "command_injection" -> 95
       [] c \in {"sql_injection", "insecure_deserialization", "broken_authentication"} -> 90
       [] c \in {"nosql_injection", "hardcoded_secret", "broken_access_control"} -> 85
       [] c = "ssrf" -> 80
       [] c \in {"path_traversal", "prompt_injection"} -> 75
       [] c \in {"xss", "vulnerable_dependency", "xxe", "sensitive_data_exposure", "idor"} -> 70
       [] c \in {"weak_crypto", "mass_assignment"} -> 60
       [] c = "csrf" -> 50
       [] c \in {"open_redirect", "other"} -> 40
       [] c \in {"permissive_cors", "insecure_cookie", "insecure_configuration"} -> 35
       [] c = "rate_limit_missing" -> 30
       [] c = "missing_security_headers" -> 25
       [] OTHER -> 20]

authState(g) == IF g.route = <<>> THEN "unknown" ELSE g.route[1].authState

exposureScoreFor(g) ==
  CASE g.route = <<>> -> 8
    [] g.route # <<>> /\ authState(g) = "public" -> 20
    [] g.route # <<>> /\ authState(g) = "role_gated" -> 7
    [] OTHER -> 10

reachabilityScoreFor(g) ==
  CASE g.klass = "injection" /\ g.reaches ->
         IF /\ g.source # <<>> /\ g.route # <<>>
            /\ g.source[1].route = g.route[1].id
         THEN 950 ELSE 900
    [] g.klass = "injection" /\ ~g.reaches -> IF g.sink # <<>> THEN 350 ELSE 400
    [] g.klass = "config" -> IF g.route # <<>> THEN 500 ELSE 250
    [] g.klass = "secret" -> IF g.secret THEN 600 ELSE 450
    [] g.klass = "dependency" -> 600
    [] g.klass = "access" -> IF g.route # <<>> THEN 600 ELSE 400
    [] OTHER -> IF g.route # <<>> \/ g.sink # <<>> THEN 500 ELSE 300

\* 0.6 * category + 0.4 * severity, then the context.
impactScoreFor(c, g) ==
  LET prior == 120 * CATEGORY_IMPACT_BASE[c.category] + 80 * SEVERITY_WEIGHT[c.rawSeverity]
  IN CASE c.category = "permissive_cors" /\ authState(g) = "public" -> prior \div 2
       [] c.category = "hardcoded_secret" /\ g.secret /\ prior < 16000 -> 16000
       [] g.klass = "injection" /\ ~g.reaches -> (prior * 85) \div 100
       [] OTHER -> prior

\* blendScore: half of the difference to the model's answer (in hundredths),
\* bounded by 0.2 on either side, and within [0, 1].
blendScore(score, answer, one) ==
  LET delta == (answer[1] * one) \div 100 - score
      bounded == IF delta > one \div 5 THEN one \div 5
                 ELSE IF delta < -(one \div 5) THEN -(one \div 5) ELSE delta
      blended == score + bounded \div 2
  IN IF answer = <<>> THEN score
     ELSE IF blended < 0 THEN 0 ELSE IF blended > one THEN one ELSE blended

-----------------------------------------------------------------------------
(* The ranked output *)

\* isKnownFalsePositive of loadFpTuning: Layer 2 names the rule of the
\* candidate, Layer 3 none, so a mark with a rule only counts in Layer 2.
isKnownFalsePositive(marks, f, ruleId) ==
  \E k \in marks : /\ k.category = f.category /\ k.file = f.file /\ k.line = f.line
                   /\ k.ruleId \in {"", ruleId}

demotedGroup(marks, group) ==
  group.grounding.demote \/ isKnownFalsePositive(marks, group.rep, group.rep.ruleId)

\* The candidates of the appendix.
demotedCandidates(m, cands, marks) ==
  UNION {g.members : g \in {x \in groupCandidates(m, cands) : demotedGroup(marks, x)}}

\* The effort class of the persisted scores: round3, combinedScoreOf and the
\* two thresholds of the investigation.
effort(reach, exposure, impact) ==
  LET score == reach * exposure * ((impact + 10) \div 20)
  IN IF score >= 10000000 THEN "high" ELSE IF score < 3000000 THEN "marginal" ELSE "mid"

\* A pending finding, given the model's answer (empty when the call failed or
\* the answer was unusable).
pendingProbable(shapes, group, answer) ==
  LET g == group.grounding
      c == group.rep
      reach == blendScore(reachabilityScoreFor(g), answer.reach, 1000)
      impact == blendScore(impactScoreFor(c, g), answer.impact, 20000)
      prior == <<c.category, c.file>> \in shapes
  IN [sortKey |-> << reach * exposureScoreFor(g) * impact, impact, reach,
                     SEVERITY_WEIGHT[c.rawSeverity], IF prior THEN 1 ELSE 0 >>,
      finding |-> [id |-> group.key, merged |-> group.members, category |-> c.category,
                   file |-> c.file, line |-> c.line,
                   route |-> IF g.route = <<>> THEN 0 ELSE g.route[1].id,
                   priorShape |-> prior, score |-> effort(reach, exposureScoreFor(g), impact)]]

\* comparePending up to its last two keys.
before(a, b) ==
  \E i \in DOMAIN a : a[i] > b[i] /\ \A j \in 1 .. i - 1 : a[j] = b[j]

\* What correlate may return as probable: findings that tie on every score and
\* on the prior are ordered by category and by a hash, so in any order here.
correlate(m, cands, marks, shapes, answers) ==
  LET promoted == {g \in groupCandidates(m, cands) : ~demotedGroup(marks, g)}
      ranked == UNION {SetToSeqs({pendingProbable(shapes, g, a[g.key]) : g \in promoted}) :
                         a \in [{g.key : g \in promoted} -> answers]}
  IN {[i \in DOMAIN s |-> s[i].finding] :
        s \in {r \in ranked : \A i, j \in DOMAIN r :
                                i < j => ~before(r[j].sortKey, r[i].sortKey)}}
=============================================================================
