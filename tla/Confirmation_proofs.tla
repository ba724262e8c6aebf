------------------------ MODULE Confirmation_proofs ------------------------
(***************************************************************************)
(* Layers 2 and 3: what holds for any candidates, App Maps, marks, model   *)
(* answers, responses, payloads, jobs and limits.                          *)
(*                                                                         *)
(* Layer 2 is a fact about an operator: every output of correlate keeps    *)
(* each candidate once and ranks by scores the model can only nudge.       *)
(* Layer 3 is an invariant: where the layer is, what it has classified,    *)
(* what the guard has let through and what the work on the finding at hand *)
(* has shown belong together at every await.                               *)
(***************************************************************************)
EXTENDS Confirmation, FiniteSetTheorems, SequenceTheorems, WellFoundedInduction, TLAPS

-----------------------------------------------------------------------------
(* Layer 2: the root causes *)

keyOf(i) == dedupKey(Candidates[i], groundCandidate(CorrelatedMap, Candidates[i]))
membersOf(k) == {i \in DOMAIN Candidates : keyOf(i) = k}
repOf(k) == Candidates[pickRepresentative(Candidates, membersOf(k))]
groupOf(k) == [key |-> k, members |-> membersOf(k), rep |-> repOf(k),
               grounding |-> groundCandidate(CorrelatedMap, repOf(k))]
Keys == {keyOf(i) : i \in DOMAIN Candidates}
Groups == groupCandidates(CorrelatedMap, Candidates)
Promoted == {g \in Groups : ~demotedGroup(Marks, g)}
pendingOf(a, g) == pendingProbable(Shapes, g, a[g.key])

LEMMA CandidateTypes ==
  /\ Len(Candidates) \in Nat /\ DOMAIN Candidates = 1 .. Len(Candidates)
  /\ \A i \in DOMAIN Candidates :
       /\ Candidates[i].category \in Categories /\ Candidates[i].line \in Nat
       /\ Candidates[i].rawSeverity \in DOMAIN SEVERITY_WEIGHT
<1> DEFINE D == DOMAIN SEVERITY_WEIGHT
           R == [category : Categories, file : STRING, line : Nat, rawSeverity : D,
                 sanitized : BOOLEAN, pkg : STRING, ruleId : STRING]
<1>1. Candidates \in Seq(R)
  BY ConfirmationAssumption
<1> HIDE DEF D
<1>2. \A c \in R : c.category \in Categories /\ c.line \in Nat /\ c.rawSeverity \in D
  OBVIOUS
<1> HIDE DEF R
<1>3. /\ Len(Candidates) \in Nat /\ DOMAIN Candidates = 1 .. Len(Candidates)
      /\ \A i \in DOMAIN Candidates : Candidates[i] \in R
  BY <1>1
<1> QED BY <1>2, <1>3 DEF D

LEMMA WeightTypes == \A s \in DOMAIN SEVERITY_WEIGHT : SEVERITY_WEIGHT[s] \in 10 .. 100
  BY DEF SEVERITY_WEIGHT

LEMMA GroupsByKey == Groups = {groupOf(k) : k \in Keys}
  BY DEF Groups, groupCandidates, groupOf, Keys, membersOf, keyOf, repOf

LEMMA GroupFields ==
  ASSUME NEW g \in Groups
  PROVE  /\ g.key \in Keys /\ g = groupOf(g.key)
         /\ g.members = membersOf(g.key) /\ g.rep = repOf(g.key)
         /\ g.grounding = groundCandidate(CorrelatedMap, repOf(g.key))
<1>1. PICK k \in Keys : g = groupOf(k)
  BY GroupsByKey
<1>2. g.key = k
  BY <1>1 DEF groupOf
<1>3. g.members = membersOf(k) /\ g.rep = repOf(k)
      /\ g.grounding = groundCandidate(CorrelatedMap, repOf(k))
  BY <1>1 DEF groupOf
<1> QED BY <1>1, <1>2, <1>3

LEMMA GroupOfKey ==
  ASSUME NEW k \in Keys
  PROVE  groupOf(k) \in Groups /\ groupOf(k).key = k /\ groupOf(k).members = membersOf(k)
<1>1. groupOf(k).key = k /\ groupOf(k).members = membersOf(k)
  BY DEF groupOf
<1> QED BY <1>1, GroupsByKey

LEMMA GroupsFinite == IsFiniteSet(Groups)
<1> DEFINE f == [i \in DOMAIN Candidates |-> groupOf(keyOf(i))]
<1>1. IsFiniteSet(DOMAIN Candidates)
  BY CandidateTypes, FS_Interval
<1>2. f \in [DOMAIN Candidates -> Groups]
  BY GroupsByKey DEF Keys
<1>3. \A g \in Groups : \E i \in DOMAIN Candidates : f[i] = g
  BY GroupsByKey DEF Keys
<1> HIDE DEF f
<1>4. f \in Surjection(DOMAIN Candidates, Groups)
  BY <1>2, <1>3 DEF Surjection, Range
<1> QED BY <1>1, <1>4, FS_Surjection

\* The key names the category.
LEMMA KeyNamesCategory ==
  ASSUME NEW k \in Keys
  PROVE  k[1] \in Categories
<1>1. PICK i \in DOMAIN Candidates : k = keyOf(i)
  BY DEF Keys
<1>2. keyOf(i)[1] = Candidates[i].category
  BY DEF keyOf, dedupKey
<1> QED BY <1>1, <1>2, CandidateTypes

\* Every set of natural numbers has a least one.
LEMMA Least ==
  ASSUME NEW T \in SUBSET Nat, T # {}
  PROVE  \E x \in T : \A y \in T : x <= y
<1>1. \E x \in T : \A y \in T : <<y, x>> \notin OpToRel(<, Nat)
  BY WFMin, NatLessThanWellFounded, Zenon
<1>2. \A x, y \in Nat : <<y, x>> \notin OpToRel(<, Nat) => x <= y
  BY DEF OpToRel
<1> QED BY <1>1, <1>2

\* The representative is one of the members: there is a most severe one, among
\* those a lowest line, among those a first.
LEMMA RepIsMember ==
  ASSUME NEW k \in Keys
  PROVE  pickRepresentative(Candidates, membersOf(k)) \in membersOf(k)
<1> DEFINE M == membersOf(k)
           weight(i) == SEVERITY_WEIGHT[Candidates[i].rawSeverity]
           line(i) == Candidates[i].line
           A == {100 - weight(i) : i \in M}
<1>1. M # {} /\ M \subseteq DOMAIN Candidates
  BY DEF membersOf, Keys
<1>2. \A i \in M : i \in Nat /\ weight(i) \in 10 .. 100 /\ line(i) \in Nat
  BY <1>1, CandidateTypes, WeightTypes
<1> HIDE DEF M
<1>3. \E x \in A : \A y \in A : x <= y
  <2>1. A \in SUBSET Nat /\ A # {}
    BY <1>1, <1>2
  <2> HIDE DEF A
  <2> QED BY <2>1, Least
<1>4. PICK a \in M : \A j \in M : weight(a) >= weight(j)
  <2>1. PICK a \in M : \A y \in A : 100 - weight(a) <= y
    BY <1>3
  <2>2. \A j \in M : 100 - weight(a) <= 100 - weight(j)
    BY <2>1
  <2>3. \A j \in M : weight(j) \in Int
    BY <1>2
  <2> HIDE DEF weight
  <2>4. \A x, y \in Int : 100 - x <= 100 - y => x >= y
    OBVIOUS
  <2> QED BY <2>2, <2>3, <2>4
<1> DEFINE M2 == {i \in M : weight(i) = weight(a)}
           B == {line(i) : i \in M2}
<1>5. \E x \in B : \A y \in B : x <= y
  <2>1. B \in SUBSET Nat /\ B # {}
    BY <1>2, <1>4
  <2> HIDE DEF B
  <2> QED BY <2>1, Least
<1>6. PICK b \in M2 : \A j \in M2 : line(b) <= line(j)
  BY <1>5
<1> DEFINE M3 == {i \in M2 : line(i) = line(b)}
<1>7. PICK c \in M3 : \A j \in M3 : c <= j
  <2>1. M3 \in SUBSET Nat /\ M3 # {}
    BY <1>2, <1>6
  <2> HIDE DEF M3
  <2> QED BY <2>1, Least
<1>8. c \in M /\ weight(c) = weight(a) /\ line(c) = line(b)
  BY <1>6, <1>7
<1>9. ASSUME NEW j \in M
      PROVE  \/ weight(c) > weight(j)
             \/ /\ weight(c) = weight(j)
                /\ line(c) < line(j) \/ (line(c) = line(j) /\ c <= j)
  <2>1. CASE weight(j) # weight(a)
    <3>1. weight(a) \in Int /\ weight(j) \in Int /\ weight(a) >= weight(j)
      BY <1>2, <1>4, <1>9
    <3>2. weight(a) > weight(j)
      <4> HIDE DEF weight
      <4> QED BY <3>1, <2>1
    <3> QED BY <3>2, <1>8
  <2>2. CASE weight(j) = weight(a) /\ line(j) # line(b)
    <3>1. line(b) < line(j)
      BY <2>2, <1>6, <1>2, <1>9
    <3> QED BY <3>1, <2>2, <1>8
  <2>3. CASE weight(j) = weight(a) /\ line(j) = line(b)
    <3>1. c <= j
      BY <2>3, <1>7, <1>9
    <3> QED BY <3>1, <2>3, <1>8
  <2> QED BY <2>1, <2>2, <2>3
<1>10. \E i \in M : \A j \in M :
         \/ weight(i) > weight(j)
         \/ /\ weight(i) = weight(j)
            /\ line(i) < line(j) \/ (line(i) = line(j) /\ i <= j)
  BY <1>8, <1>9
<1> QED BY <1>10, Zenon DEF pickRepresentative, M

LEMMA RepTypes ==
  ASSUME NEW k \in Keys
  PROVE  repOf(k).category \in Categories /\ repOf(k).rawSeverity \in DOMAIN SEVERITY_WEIGHT
<1>1. pickRepresentative(Candidates, membersOf(k)) \in DOMAIN Candidates
  BY RepIsMember DEF membersOf
<1> QED BY <1>1, CandidateTypes DEF repOf

-----------------------------------------------------------------------------
(* Layer 2: the ranked output *)

LEMMA Ranking ==
  ASSUME NEW out \in correlate(CorrelatedMap, Candidates, Marks, Shapes, Answers)
  PROVE  \E a \in [{g.key : g \in Promoted} -> Answers] :
           \E r \in SetToSeqs({pendingOf(a, g) : g \in Promoted}) :
             /\ out = [i \in DOMAIN r |-> r[i].finding]
             /\ \A i, j \in DOMAIN r : i < j => ~before(r[j].sortKey, r[i].sortKey)
  BY Zenon DEF correlate, Promoted, pendingOf, Groups

LEMMA PendingFields ==
  ASSUME NEW a, NEW g
  PROVE  /\ pendingOf(a, g).finding.id = g.key
         /\ pendingOf(a, g).finding.merged = g.members
         /\ pendingOf(a, g).finding.category = g.rep.category
  BY DEF pendingOf, pendingProbable

\* out ranks the root causes G[1], ..., G[n], given the model's answers.
Ranks(out, a, n, G) ==
  /\ DOMAIN out = 1 .. n /\ Len(out) = n
  /\ \A i \in 1 .. n : out[i] = pendingOf(a, G[i]).finding
  /\ \A i, j \in 1 .. n : G[i] = G[j] => i = j
  /\ \A g \in Promoted : \E i \in 1 .. n : G[i] = g
  /\ \A i, j \in 1 .. n :
       i < j => ~before(pendingOf(a, G[j]).sortKey, pendingOf(a, G[i]).sortKey)

\* The findings are the promoted root causes, each at one place of the ranking.
LEMMA RankedGroups ==
  ASSUME NEW out \in correlate(CorrelatedMap, Candidates, Marks, Shapes, Answers)
  PROVE  \E a \in [{g.key : g \in Promoted} -> Answers], n \in Nat :
           \E G \in [1 .. n -> Promoted] : Ranks(out, a, n, G)
<1>0. PICK a \in [{g.key : g \in Promoted} -> Answers] :
           \E r \in SetToSeqs({pendingOf(a, g) : g \in Promoted}) :
             /\ out = [i \in DOMAIN r |-> r[i].finding]
             /\ \A i, j \in DOMAIN r : i < j => ~before(r[j].sortKey, r[i].sortKey)
  BY Ranking
<1>1. PICK r \in SetToSeqs({pendingOf(a, g) : g \in Promoted}) :
             /\ out = [i \in DOMAIN r |-> r[i].finding]
             /\ \A i, j \in DOMAIN r : i < j => ~before(r[j].sortKey, r[i].sortKey)
  BY <1>0
<1> DEFINE P == {pendingOf(a, g) : g \in Promoted}
           n == Cardinality(P)
           f == [g \in Promoted |-> pendingOf(a, g)]
           G == [i \in 1 .. n |-> CHOOSE g \in Promoted : r[i] = pendingOf(a, g)]
<1>2. IsFiniteSet(Promoted)
  BY GroupsFinite, FS_Subset DEF Promoted
<1>3. IsFiniteSet(P) /\ n \in Nat
  <2>1. f \in [Promoted -> P] /\ \A p \in P : \E g \in Promoted : f[g] = p
    OBVIOUS
  <2> HIDE DEF f, P
  <2>2. f \in Surjection(Promoted, P)
    BY <2>1 DEF Surjection, Range
  <2> QED BY <2>2, <1>2, FS_Surjection, FS_CardinalityType
<1>4. r \in [1 .. n -> P] /\ \A i, j \in 1 .. n : r[i] = r[j] => i = j
  BY <1>1, Zenon DEF SetToSeqs
<1>5. \A p \in P : \E i \in 1 .. n : r[i] = p
  <2> HIDE DEF P
  <2>1. r \in Injection(1 .. n, P)
    BY <1>4 DEF Injection, IsInjective
  <2>2. Cardinality(1 .. n) = n
    BY <1>3, FS_Interval
  <2>3. r \in Surjection(1 .. n, P)
    BY <2>1, <2>2, <1>3, FS_Injection
  <2> QED BY <2>3 DEF Surjection, Range
<1>6. \A i \in 1 .. n : G[i] \in Promoted /\ r[i] = pendingOf(a, G[i])
  BY <1>4
<1>7. G \in [1 .. n -> Promoted]
  BY <1>6
<1>8. \A g, h \in Promoted : pendingOf(a, g) = pendingOf(a, h) => g = h
  <2> SUFFICES ASSUME NEW g \in Promoted, NEW h \in Promoted,
                      pendingOf(a, g) = pendingOf(a, h)
               PROVE  g = h
    OBVIOUS
  <2>1. g.key = h.key
    BY PendingFields
  <2> QED BY <2>1, GroupFields DEF Promoted
<1>9. \A g \in Promoted : \E i \in 1 .. n : G[i] = g
  BY <1>5, <1>6, <1>8
<1>10. \A i, j \in 1 .. n : G[i] = G[j] => i = j
  BY <1>4, <1>6
<1>11. DOMAIN out = 1 .. n /\ \A i \in 1 .. n : out[i] = r[i].finding
  BY <1>1, <1>4
<1>12. Len(out) = n
  <2> HIDE DEF n
  <2> QED BY <1>1, <1>3, <1>4, <1>11
<1>13. \A i, j \in 1 .. n :
         i < j => ~before(pendingOf(a, G[j]).sortKey, pendingOf(a, G[i]).sortKey)
  <2> HIDE DEF G, n
  <2> QED BY <1>1, <1>4, <1>6
<1> HIDE DEF G, n
<1>14. Ranks(out, a, n, G)
  BY <1>6, <1>9, <1>10, <1>11, <1>12, <1>13 DEF Ranks
<1> QED BY <1>3, <1>7, <1>14

\* What the output of Layer 2 is good for.
Correlated(out) ==
  /\ Len(out) \in Nat /\ DOMAIN out = 1 .. Len(out)
  /\ \A i, j \in 1 .. Len(out) : out[i].id = out[j].id => i = j
  /\ \A i \in 1 .. Len(out) : out[i].id[1] \in Categories

LEMMA OutputCorrelated ==
  ASSUME NEW out \in correlate(CorrelatedMap, Candidates, Marks, Shapes, Answers)
  PROVE  Correlated(out)
<1>1. PICK a \in [{g.key : g \in Promoted} -> Answers], n \in Nat :
           \E G \in [1 .. n -> Promoted] : Ranks(out, a, n, G)
  BY RankedGroups
<1>2. PICK G \in [1 .. n -> Promoted] : Ranks(out, a, n, G)
  BY <1>1
<1>3. \A i \in 1 .. n : G[i] \in Groups /\ out[i].id = G[i].key
  BY <1>2, PendingFields DEF Promoted, Ranks
<1>4. \A i, j \in 1 .. n : out[i].id = out[j].id => G[i] = G[j]
  BY <1>3, GroupFields
<1>5. \A i \in 1 .. n : out[i].id[1] \in Categories
  BY <1>3, GroupFields, KeyNamesCategory
<1> QED BY <1>2, <1>4, <1>5 DEF Correlated, Ranks

\* A candidate is merged into the finding of its root cause and no other.
LEMMA OutputKeepsCandidates ==
  ASSUME NEW out \in correlate(CorrelatedMap, Candidates, Marks, Shapes, Answers),
         NEW c \in DOMAIN Candidates
  PROVE  Cardinality({i \in DOMAIN out : c \in out[i].merged})
           = IF c \in demotedCandidates(CorrelatedMap, Candidates, Marks) THEN 0 ELSE 1
<1>1. PICK a \in [{g.key : g \in Promoted} -> Answers], n \in Nat :
           \E G \in [1 .. n -> Promoted] : Ranks(out, a, n, G)
  BY RankedGroups
<1>2. PICK G \in [1 .. n -> Promoted] : Ranks(out, a, n, G)
  BY <1>1
<1> DEFINE own == groupOf(keyOf(c))
           S == {i \in DOMAIN out : c \in out[i].merged}
<1>3. own \in Groups /\ \A g \in Groups : c \in g.members <=> g = own
  <2>1. keyOf(c) \in Keys
    BY DEF Keys
  <2>2. own \in Groups /\ own.key = keyOf(c)
    BY <2>1, GroupOfKey
  <2>3. \A g \in Groups : c \in g.members <=> g.key = keyOf(c)
    BY GroupFields DEF membersOf
  <2> HIDE DEF own
  <2>4. \A g \in Groups : g.key = own.key => g = own
    BY <2>2, GroupFields
  <2> QED BY <2>2, <2>3, <2>4
<1> HIDE DEF own
<1>4. c \in demotedCandidates(CorrelatedMap, Candidates, Marks) <=> demotedGroup(Marks, own)
  <2>1. c \in demotedCandidates(CorrelatedMap, Candidates, Marks)
          <=> \E g \in Groups : demotedGroup(Marks, g) /\ c \in g.members
    BY DEF demotedCandidates, Groups
  <2> QED BY <2>1, <1>3
<1>5. \A i \in 1 .. n : c \in out[i].merged <=> G[i] = own
  BY <1>2, <1>3, PendingFields DEF Ranks, Promoted
<1>6. CASE demotedGroup(Marks, own)
  <2>1. S = {}
    BY <1>2, <1>5, <1>6 DEF Ranks, Promoted
  <2> QED BY <2>1, <1>4, <1>6, FS_EmptySet
<1>7. CASE ~demotedGroup(Marks, own)
  <2>1. own \in Promoted
    BY <1>3, <1>7 DEF Promoted
  <2>2. PICK i \in 1 .. n : G[i] = own
    BY <2>1, <1>2 DEF Ranks
  <2>3. S = {i}
    BY <2>2, <1>2, <1>5 DEF Ranks
  <2> QED BY <2>3, <1>4, <1>7, FS_Singleton
<1> QED BY <1>6, <1>7

\* The scores' units and what the model may move them by, as names: the provers
\* are slow on large numerals.
Scores(one) == 0 .. one
ReachOne == 1000
ReachTenth == 100
ImpactOne == 20000
ImpactTenth == 2000
capped(n, one) == IF n > one THEN one ELSE IF n < 0 THEN 0 ELSE n
movedScore(g, tenths) ==
  capped(reachabilityScoreFor(g.grounding) + 100 * tenths, 1000)
    * exposureScoreFor(g.grounding)
    * capped(impactScoreFor(g.rep, g.grounding) + 2000 * tenths, 20000)

LEMMA ScoreTypes ==
  ASSUME NEW g
  PROVE  reachabilityScoreFor(g) \in Scores(ReachOne) /\ exposureScoreFor(g) \in 7 .. 20
  BY DEF reachabilityScoreFor, exposureScoreFor, Scores, ReachOne

LEMMA ImpactTypes ==
  ASSUME NEW c, NEW g, c.category \in Categories, c.rawSeverity \in DOMAIN SEVERITY_WEIGHT
  PROVE  impactScoreFor(c, g) \in Scores(ImpactOne)
<1>1. CATEGORY_IMPACT_BASE[c.category] \in 20 .. 95
  BY DEF CATEGORY_IMPACT_BASE
<1>2. SEVERITY_WEIGHT[c.rawSeverity] \in 10 .. 100
  BY WeightTypes
<1> DEFINE prior == 120 * CATEGORY_IMPACT_BASE[c.category] + 80 * SEVERITY_WEIGHT[c.rawSeverity]
<1>3. prior \in Scores(ImpactOne)
  <2>1. \A x \in 20 .. 95, y \in 10 .. 100 : 120 * x + 80 * y \in Scores(ImpactOne)
    <3> SUFFICES ASSUME NEW x \in 20 .. 95, NEW y \in 10 .. 100
                 PROVE  120 * x + 80 * y \in Scores(ImpactOne)
      OBVIOUS
    <3>1. 120 * x \in Int /\ 80 * y \in Int
      OBVIOUS
    <3>2. 0 <= 120 * x + 80 * y
      BY <3>1
    <3>3. 120 * x <= 11400 /\ 80 * y <= 8000
      OBVIOUS
    <3>4. 120 * x + 80 * y <= 20000
      BY <3>1, <3>3
    <3> DEFINE n == 120 * x + 80 * y
    <3>5. n \in Int /\ 0 <= n /\ n <= ImpactOne /\ ImpactOne \in Int
      BY <3>1, <3>2, <3>4 DEF ImpactOne
    <3> HIDE DEF n
    <3>6. n \in Scores(ImpactOne)
      BY <3>5 DEF Scores
    <3> QED BY <3>6 DEF n
  <2> QED BY <1>1, <1>2, <2>1
<1>4. impactScoreFor(c, g) \in {prior \div 2, 16000, (prior * 85) \div 100, prior}
  BY DEF impactScoreFor
<1> HIDE DEF prior
<1>5. \A n \in Scores(ImpactOne) :
        n \div 2 \in Scores(ImpactOne) /\ (n * 85) \div 100 \in Scores(ImpactOne)
  <2> SUFFICES ASSUME NEW n \in Scores(ImpactOne)
               PROVE  n \div 2 \in Scores(ImpactOne) /\ (n * 85) \div 100 \in Scores(ImpactOne)
    OBVIOUS
  <2>1. ImpactOne \in Int /\ n \in Nat /\ n <= ImpactOne
    BY DEF Scores, ImpactOne
  <2>2. n \div 2 \in Nat /\ n \div 2 <= n
    BY <2>1
  <2>3. (n * 85) \div 100 \in Nat /\ (n * 85) \div 100 <= n
    BY <2>1
  <2> QED BY <2>1, <2>2, <2>3 DEF Scores
<1>6. prior \div 2 \in Scores(ImpactOne) /\ (prior * 85) \div 100 \in Scores(ImpactOne)
  BY <1>3, <1>5
<1>7. 16000 \in Scores(ImpactOne)
  BY DEF Scores, ImpactOne
<1> QED BY <1>3, <1>4, <1>6, <1>7

\* The model moves a score by a tenth of its range at most, and not out of it.
LEMMA BlendBounds ==
  ASSUME NEW answer, answer = <<>> \/ answer[1] \in Int,
         NEW one \in Nat, NEW tenth \in Nat, one = 10 * tenth,
         NEW score \in Scores(one)
  PROVE  /\ blendScore(score, answer, one) \in Scores(one)
         /\ capped(score - tenth, one) <= blendScore(score, answer, one)
         /\ blendScore(score, answer, one) <= capped(score + tenth, one)
<1>0. one \div 5 = 2 * tenth
  OBVIOUS
<1>1. CASE answer = <<>>
  <2>1. blendScore(score, answer, one) = score
    BY <1>1 DEF blendScore
  <2> QED BY <2>1, <1>0 DEF capped, Scores
<1>2. CASE answer # <<>> /\ answer[1] \in Int
  <2> DEFINE delta == (answer[1] * one) \div 100 - score
             fifth == one \div 5
             bounded == IF delta > fifth THEN fifth ELSE IF delta < -fifth THEN -fifth ELSE delta
             half == bounded \div 2
             blended == score + half
  <2>1. delta \in Int
    BY <1>0, <1>2 DEF Scores
  <2> HIDE DEF delta
  <2>2. bounded \in Int /\ -fifth <= bounded /\ bounded <= fifth
    BY <2>1, <1>0
  <2> HIDE DEF bounded
  <2>3. half \in Int /\ -tenth <= half /\ half <= tenth
    BY <1>0, <2>2
  <2>4. blendScore(score, answer, one)
          = IF blended < 0 THEN 0 ELSE IF blended > one THEN one ELSE blended
    BY <1>2 DEF blendScore, bounded, delta
  <2> HIDE DEF half
  <2> QED BY <2>3, <2>4, <1>0 DEF capped, Scores
<1> QED BY <1>1, <1>2

LEMMA ProductsOrdered ==
  ASSUME NEW a \in Nat, NEW b \in Nat, NEW c \in Nat, NEW x \in Nat, NEW y \in Nat,
         a <= x, b <= y
  PROVE  a * c * b \in Nat /\ a * c * b <= x * c * y
<1>1. a * c \in Nat /\ x * c \in Nat /\ a * c <= x * c
  OBVIOUS
<1>2. \A u, v \in Nat : u <= v => u * b <= v * b
  OBVIOUS
<1>3. \A u \in Nat : u * b \in Nat /\ u * y \in Nat /\ u * b <= u * y
  OBVIOUS
<1>4. a * c * b <= x * c * b
  BY <1>1, <1>2
<1>5. x * c * b <= x * c * y
  BY <1>1, <1>3
<1>6. a * c * b \in Int /\ x * c * b \in Int /\ x * c * y \in Int
  BY <1>1, <1>3
<1>7. \A u, v, z \in Int : u <= v /\ v <= z => u <= z
  OBVIOUS
<1>8. a * c * b \in Nat
  BY <1>1, <1>3
<1> QED BY <1>4, <1>5, <1>6, <1>7, <1>8

\* The first sort key lies between the scores moved down and up by a tenth.
LEMMA KeyNudged ==
  ASSUME NEW a \in [{g.key : g \in Promoted} -> Answers], NEW g \in Promoted
  PROVE  LET key == pendingOf(a, g).sortKey[1] IN
         /\ key \in Nat /\ movedScore(g, -1) \in Nat /\ movedScore(g, 1) \in Nat
         /\ movedScore(g, -1) <= key /\ key <= movedScore(g, 1)
<1> DEFINE reach0 == reachabilityScoreFor(g.grounding)
           impact0 == impactScoreFor(g.rep, g.grounding)
           exp == exposureScoreFor(g.grounding)
           ans == a[g.key]
           reach == blendScore(reach0, ans.reach, ReachOne)
           impact == blendScore(impact0, ans.impact, ImpactOne)
           low1 == capped(reach0 - ReachTenth, ReachOne)
           up1 == capped(reach0 + ReachTenth, ReachOne)
           low2 == capped(impact0 - ImpactTenth, ImpactOne)
           up2 == capped(impact0 + ImpactTenth, ImpactOne)
<1>1. ans \in Answers
  OBVIOUS
<1>2. (ans.reach = <<>> \/ ans.reach[1] \in Int) /\ (ans.impact = <<>> \/ ans.impact[1] \in Int)
  BY <1>1, ConfirmationAssumption
<1>3. reach0 \in Scores(ReachOne) /\ exp \in Nat
  BY ScoreTypes
<1>4. impact0 \in Scores(ImpactOne)
  <2>1. g \in Groups
    BY DEF Promoted
  <2>2. g.rep.category \in Categories /\ g.rep.rawSeverity \in DOMAIN SEVERITY_WEIGHT
    BY <2>1, GroupFields, RepTypes
  <2> QED BY <2>2, ImpactTypes, Zenon
<1>5. pendingOf(a, g).sortKey[1] = reach * exp * impact
  BY DEF pendingOf, pendingProbable, ReachOne, ImpactOne
<1> HIDE DEF reach0, impact0, exp, ans
<1>6. reach \in Scores(ReachOne) /\ low1 <= reach /\ reach <= up1
  <2>1. ReachOne \in Nat /\ ReachTenth \in Nat /\ ReachOne = 10 * ReachTenth
    BY DEF ReachOne, ReachTenth
  <2> QED BY <2>1, <1>2, <1>3, BlendBounds
<1>7. impact \in Scores(ImpactOne) /\ low2 <= impact /\ impact <= up2
  <2>1. ImpactOne \in Nat /\ ImpactTenth \in Nat /\ ImpactOne = 10 * ImpactTenth
    BY DEF ImpactOne, ImpactTenth
  <2> QED BY <2>1, <1>2, <1>4, BlendBounds
<1>8. low1 \in Nat /\ up1 \in Nat /\ low2 \in Nat /\ up2 \in Nat
  BY <1>3, <1>4 DEF capped, Scores, ReachOne, ImpactOne, ReachTenth, ImpactTenth
<1>9. movedScore(g, -1) = low1 * exp * low2
  <2>1. 100 * (-1) = -ReachTenth /\ 2000 * (-1) = -ImpactTenth
    BY DEF ReachTenth, ImpactTenth
  <2>2. reach0 + 100 * (-1) = reach0 - ReachTenth /\ impact0 + 2000 * (-1) = impact0 - ImpactTenth
    BY <2>1, <1>3, <1>4 DEF Scores, ReachTenth, ImpactTenth
  <2> QED BY <2>2 DEF movedScore, reach0, impact0, exp, ReachOne, ImpactOne
<1>10. movedScore(g, 1) = up1 * exp * up2
  BY DEF movedScore, reach0, impact0, exp, ReachOne, ImpactOne, ReachTenth, ImpactTenth
<1> HIDE DEF reach, impact, low1, up1, low2, up2
<1>11. reach \in Nat /\ impact \in Nat
  BY <1>6, <1>7 DEF Scores
<1>12. reach * exp * impact \in Nat /\ reach * exp * impact <= up1 * exp * up2
  BY <1>3, <1>6, <1>7, <1>8, <1>11, ProductsOrdered, Zenon
<1>13. low1 * exp * low2 <= reach * exp * impact
  BY <1>3, <1>6, <1>7, <1>8, <1>11, ProductsOrdered
<1>14. low1 * exp * low2 \in Nat /\ up1 * exp * up2 \in Nat
  BY <1>3, <1>6, <1>7, <1>8, <1>11, ProductsOrdered
<1> QED BY <1>5, <1>9, <1>10, <1>12, <1>13, <1>14

LEMMA FirstKeyOrders ==
  ASSUME NEW x1 \in Nat, NEW y1 \in Nat, NEW x, NEW y, DOMAIN x = 1 .. 5,
         x[1] = x1, y[1] = y1, ~before(y, x), DOMAIN y = 1 .. 5
  PROVE  y1 <= x1
  BY DEF before

LEMMA OutputRankGrounded ==
  ASSUME NEW out \in correlate(CorrelatedMap, Candidates, Marks, Shapes, Answers),
         NEW i \in DOMAIN out, NEW j \in DOMAIN out, i < j
  PROVE  movedScore(CHOOSE g \in Groups : g.key = out[i].id, 1)
           >= movedScore(CHOOSE g \in Groups : g.key = out[j].id, -1)
<1>1. PICK a \in [{g.key : g \in Promoted} -> Answers], n \in Nat :
           \E G \in [1 .. n -> Promoted] : Ranks(out, a, n, G)
  BY RankedGroups
<1>2. PICK G \in [1 .. n -> Promoted] : Ranks(out, a, n, G)
  BY <1>1
<1>3. i \in 1 .. n /\ j \in 1 .. n /\ G[i] \in Promoted /\ G[j] \in Promoted
  BY <1>2 DEF Ranks
<1>4. out[i].id = G[i].key /\ out[j].id = G[j].key
  BY <1>2, <1>3, PendingFields DEF Ranks
<1>5. \A g \in Promoted : (CHOOSE h \in Groups : h.key = g.key) = g
  <2> SUFFICES ASSUME NEW g \in Promoted
               PROVE  (CHOOSE h \in Groups : h.key = g.key) = g
    OBVIOUS
  <2>1. g \in Groups
    BY DEF Promoted
  <2>2. \A h \in Groups : h.key = g.key => h = g
    BY <2>1, GroupFields
  <2> QED BY <2>1, <2>2
<1> DEFINE x == pendingOf(a, G[i]).sortKey
           y == pendingOf(a, G[j]).sortKey
<1>6. ~before(y, x)
  BY <1>2, <1>3 DEF Ranks
<1>7. DOMAIN x = 1 .. 5 /\ DOMAIN y = 1 .. 5
  BY DEF pendingOf, pendingProbable
<1> HIDE DEF x, y
<1>8. x[1] \in Nat /\ y[1] \in Nat
  BY <1>3, KeyNudged DEF x, y
<1>9. y[1] <= x[1]
  BY <1>6, <1>7, <1>8, FirstKeyOrders
<1>10. x[1] <= movedScore(G[i], 1) /\ movedScore(G[j], -1) <= y[1]
  BY <1>3, KeyNudged DEF x, y
<1>11. movedScore(G[i], 1) \in Int /\ movedScore(G[j], -1) \in Int
  BY <1>3, KeyNudged
<1>12. \A u, v, p, q \in Int : u <= v /\ p <= u /\ v <= q => q >= p
  OBVIOUS
<1>13. movedScore(G[i], 1) >= movedScore(G[j], -1)
  BY <1>8, <1>9, <1>10, <1>11, <1>12
<1>14. (CHOOSE g \in Groups : g.key = out[i].id) = G[i]
       /\ (CHOOSE g \in Groups : g.key = out[j].id) = G[j]
  BY <1>3, <1>4, <1>5
<1> QED BY <1>13, <1>14, Zenon

-----------------------------------------------------------------------------
(* Layer 3: the invariant *)

Vias == {"live", "static", "investigation"}
Methods == {"GET", "POST"} \cup STRING
Roles == {"baseline", "payload", "adaptive_payload", "step"}
Probes == [method : Methods, role : Roles]
Works == [static : {"none", "unproven", "vetoed", "confirmed"}, live : BOOLEAN,
          mode : {"fixed", "adaptive", "scenario"}, probes : Seq(Probes),
          base : Seq(Responses), last : Seq(Responses), round : Nat, tried : Nat, turn : Nat,
          file : BOOLEAN, test : {"none", "fails", "passes", "not run"},
          votes : Nat, voters : Nat, calls : Nat]
Guards == [on : BOOLEAN, total : Nat, mutating : Nat,
           sendTimes : SUBSET (Nat \X (0 .. Window - 1))]

Probing == {"gate", "sleep", "inflight"}
Attempting == {"live", "login", "browser", "page", "verdict", "round", "choose", "settle"} \cup Probing
Investigating == {"turn", "evidence", "verify"}
OnFinding == pc \in {"static"} \cup Attempting \cup Investigating /\ w.mode # "scenario"

\* Layer 3 works on one output of Layer 2.
Ranked == probable \in correlate(CorrelatedMap, Candidates, Marks, Shapes, Answers)

Typed ==
  /\ job \in Jobs /\ killed \in BOOLEAN /\ crashes \in 0 .. MaxCrashes
  /\ pc \in Labels /\ cur \in 1 .. Len(probable) + 1
  /\ confirmed \in Seq(findingIds \X Vias) /\ unconfirmed \in Seq(findingIds)
  /\ guard \in Guards /\ w \in Works
  /\ atKill \in 0 .. Len(probable)

\* Rounds, turns, verifiers and model calls, from the review to the last vote.
Counted ==
  /\ guard.mutating <= guard.total /\ w.votes <= w.voters /\ w.voters <= Verifiers
  /\ w.round <= MAX_ADAPTIVE_ROUNDS /\ w.turn <= ABSOLUTE_MAX_INVESTIGATION_TURNS
  /\ w.calls <= MaxLlmCalls
  /\ pc \in {"start", "finding", "static", "purple", "done"} => w = NoWork
  /\ pc \in Attempting => w.calls <= 1 + w.round /\ w.turn = 0 /\ w.votes = 0 /\ w.voters = 0
  /\ pc \in Investigating =>
       w.calls <= 1 + MAX_ADAPTIVE_ROUNDS + 2 * w.turn + w.voters
  /\ pc \in {"turn", "evidence"} => w.votes = 0 /\ w.voters = 0
  /\ pc = "turn" => w.turn <= turnsCap(MaxTurns, finding.score)
  /\ pc = "verify" => w.voters < Verifiers

\* The scope guard between the check of a probe and its record.
Guarded ==
  /\ guard.on \/ pc \in Probing \cup {"login", "browser", "page", "verdict", "round", "choose"} =>
       assertLiveAuthorized
  /\ pc \in Probing => w.probes # <<>>
  /\ pc \in {"sleep", "inflight"} => assertProbeAllowed(Head(w.probes))
  /\ guard.total <= RequestCap /\ guard.mutating <= MutatingCap
  /\ IsFiniteSet(guard.sendTimes) /\ Cardinality(guard.sendTimes) <= RPS
  /\ pc = "inflight" => ~throttled

\* A finding that is worked on after the kill is the first one.
Prompt ==
  killed => classified <= atKill + 1 /\ (OnFinding => classified <= atKill)

\* How far the layer is, and the verdicts so far.
reached ==
  IF pc \in {"purple", "done"} \/ w.mode = "scenario" THEN Len(probable)
  ELSE IF pc = "classified" THEN cur ELSE cur - 1
doneIds == {confirmed[i][1] : i \in DOMAIN confirmed} \cup Range(unconfirmed)
Placed ==
  /\ pc # "halted" => doneIds = {probable[i].id : i \in 1 .. reached} /\ classified = reached
  /\ classified <= Len(probable)
  /\ OnFinding \/ pc = "classified" => cur <= Len(probable)
  /\ w.mode = "scenario" => pc \in Probing /\ cur <= Len(confirmed)
  /\ pc = "purple" => cur <= Len(confirmed) + 1
  /\ pc = "start" => cur = 1

\* What the work on a finding has shown.
Shown ==
  /\ OnFinding => ~knownFalsePositive /\ ~ruledOut(AppMap, finding)
  /\ OnFinding /\ w.static = "confirmed" => reachable(AppMap, finding)
  /\ pc \in Investigating => w.static # "confirmed"
  /\ w.last # <<>> => guard.total > 0
  /\ OnFinding /\ w.live => pc = "settle" /\ oracle(category, w.base, w.last)
  /\ pc = "verify" => job.repoRoot /\ w.test = "fails"

Inv == Ranked /\ Typed /\ Counted /\ Guarded /\ Prompt /\ Placed /\ Shown /\ VerdictBacked

-----------------------------------------------------------------------------
(* Layer 3: constants, helpers and the work on a finding *)

LEMMA Limits ==
  /\ RequestCap \in Nat /\ MutatingCap \in Nat /\ RPS \in Nat /\ RPS > 0
  /\ Window \in Nat /\ Window > 0 /\ MaxTurns \in Nat /\ MaxTurns > 0
  /\ Verifiers \in Nat /\ Verifiers > 0
  /\ MAX_ADAPTIVE_ROUNDS \in Nat /\ MaxCrashes \in Nat
  BY ConfirmationAssumption

LEMMA JobTypes ==
  ASSUME NEW j \in Jobs
  PROVE  j.allowLive \in BOOLEAN /\ j.repoRoot \in BOOLEAN
  BY ConfirmationAssumption

LEMMA TurnsCapTypes ==
  ASSUME NEW score
  PROVE  turnsCap(MaxTurns, score) \in 1 .. ABSOLUTE_MAX_INVESTIGATION_TURNS
<1>1. effortScaledMaxTurns(MaxTurns, score) \in Int
  BY Limits DEF effortScaledMaxTurns, MIN_INVESTIGATION_TURNS
<1> QED BY <1>1 DEF turnsCap, ABSOLUTE_MAX_INVESTIGATION_TURNS

\* The budget of model calls covers the rounds, the turns and the votes.
LEMMA BudgetCovers ==
  ASSUME NEW calls \in Nat, NEW turns \in Nat, NEW voters \in Nat,
         turns <= ABSOLUTE_MAX_INVESTIGATION_TURNS, voters <= Verifiers,
         calls <= 1 + MAX_ADAPTIVE_ROUNDS + 2 * turns + voters
  PROVE  calls <= MaxLlmCalls
  BY Limits DEF MaxLlmCalls, ABSOLUTE_MAX_INVESTIGATION_TURNS

Counts(v, round, turn, votes, voters, calls) ==
  v.round = round /\ v.turn = turn /\ v.votes = votes /\ v.voters = voters /\ v.calls = calls
SameCounts(u, v) == Counts(u, v.round, v.turn, v.votes, v.voters, v.calls)
Shows(v, static, live, base, last, test) ==
  v.static = static /\ v.live = live /\ v.base = base /\ v.last = last /\ v.test = test
SameShown(u, v) == Shows(u, v.static, v.live, v.base, v.last, v.test)

LEMMA NoWorkTypes ==
  /\ NoWork \in Works /\ NoWork.mode = "fixed" /\ NoWork.probes = <<>>
  /\ Counts(NoWork, 0, 0, 0, 0, 0) /\ Shows(NoWork, "none", FALSE, <<>>, <<>>, "none")
  BY DEF NoWork, Works, Counts, Shows

LEMMA GuardTypes ==
  /\ NoGuard \in Guards /\ NoGuard.on = FALSE /\ NoGuard.total = 0 /\ NoGuard.mutating = 0
  /\ NoGuard.sendTimes = {}
  /\ NewGuard \in Guards /\ NewGuard.on = TRUE /\ NewGuard.total = 0 /\ NewGuard.mutating = 0
  /\ NewGuard.sendTimes = {}
  BY DEF NoGuard, NewGuard, Guards

LEMMA WorkTypes ==
  ASSUME NEW v \in Works
  PROVE  /\ v.round \in Nat /\ v.turn \in Nat /\ v.votes \in Nat /\ v.voters \in Nat
         /\ v.calls \in Nat /\ v.tried \in Nat /\ v.live \in BOOLEAN /\ v.file \in BOOLEAN
         /\ v.probes \in Seq(Probes) /\ v.base \in Seq(Responses) /\ v.last \in Seq(Responses)
         /\ v.static \in {"none", "unproven", "vetoed", "confirmed"}
         /\ v.mode \in {"fixed", "adaptive", "scenario"}
  BY DEF Works

LEMMA ReviewedWork ==
  ASSUME NEW v \in Works, NEW s \in {"none", "unproven", "vetoed", "confirmed"}, NEW n \in Nat
  PROVE  LET u == [v EXCEPT !.static = s, !.calls = n]
         IN /\ u \in Works /\ u.mode = v.mode
            /\ Counts(u, v.round, v.turn, v.votes, v.voters, n)
            /\ Shows(u, s, v.live, v.base, v.last, v.test)
  BY DEF Works, Counts, Shows

LEMMA UnprovenWork ==
  ASSUME NEW v \in Works
  PROVE  LET u == [v EXCEPT !.static = "unproven"]
         IN /\ u \in Works /\ u.mode = v.mode
            /\ SameCounts(u, v) /\ Shows(u, "unproven", v.live, v.base, v.last, v.test)
  BY DEF Works, Counts, SameCounts, Shows

LEMMA ProbesWork ==
  ASSUME NEW v \in Works, NEW ps \in Seq(Probes)
  PROVE  LET u == [v EXCEPT !.probes = ps]
         IN /\ u \in Works /\ u.mode = v.mode /\ u.probes = ps
            /\ SameCounts(u, v) /\ SameShown(u, v)
  BY DEF Works, Counts, SameCounts, Shows, SameShown

LEMMA ModeWork ==
  ASSUME NEW v \in Works, NEW ps \in Seq(Probes), NEW m \in {"fixed", "adaptive", "scenario"}
  PROVE  LET u == [v EXCEPT !.mode = m, !.probes = ps]
         IN /\ u \in Works /\ u.mode = m /\ u.probes = ps
            /\ SameCounts(u, v) /\ SameShown(u, v)
  BY DEF Works, Counts, SameCounts, Shows, SameShown

LEMMA RoundWork ==
  ASSUME NEW v \in Works, NEW n \in Nat, NEW c \in Nat
  PROVE  LET u == [v EXCEPT !.round = n, !.calls = c]
         IN /\ u \in Works /\ u.mode = v.mode /\ u.probes = v.probes
            /\ Counts(u, n, v.turn, v.votes, v.voters, c) /\ SameShown(u, v)
  BY DEF Works, Counts, Shows, SameShown

LEMMA LiveWork ==
  ASSUME NEW v \in Works
  PROVE  LET u == [v EXCEPT !.live = TRUE]
         IN /\ u \in Works /\ u.mode = v.mode /\ u.probes = v.probes
            /\ SameCounts(u, v) /\ Shows(u, v.static, TRUE, v.base, v.last, v.test)
  BY DEF Works, Counts, SameCounts, Shows

LEMMA TestWork ==
  ASSUME NEW v \in Works, NEW t \in {"fails", "passes", "not run"}
  PROVE  LET u == [v EXCEPT !.test = t]
         IN /\ u \in Works /\ u.mode = v.mode
            /\ SameCounts(u, v) /\ Shows(u, v.static, v.live, v.base, v.last, t)
  BY DEF Works, Counts, SameCounts, Shows

\* Labels outside of the work on a finding.
LEMMA FindingLabels ==
  /\ OnFinding => /\ pc \in Labels
                  /\ pc \notin {"start", "finding", "classified", "purple", "done", "halted"}
  /\ OnFinding' => /\ pc' \in Labels
                   /\ pc' \notin {"start", "finding", "classified", "purple", "done", "halted"}
  BY DEF OnFinding, Attempting, Probing, Investigating, Labels, Ended

LEMMA ResultTypes ==
  ASSUME Typed
  PROVE  /\ confirmed \in Seq(findingIds \X Vias) /\ unconfirmed \in Seq(findingIds)
         /\ Len(confirmed) \in Nat /\ DOMAIN confirmed = 1 .. Len(confirmed)
         /\ Len(unconfirmed) \in Nat /\ DOMAIN unconfirmed = 1 .. Len(unconfirmed)
         /\ classified \in Nat
<1>1. confirmed \in Seq(findingIds \X Vias) /\ unconfirmed \in Seq(findingIds)
  BY DEF Typed
<1> QED BY <1>1 DEF classified

\* A finding is at hand, or about to be.
Takes == OnFinding \/ (pc = "finding" /\ cur <= Len(probable) /\ ~killed)

LEMMA TakenFinding ==
  ASSUME Inv, Takes
  PROVE  /\ Len(probable) \in Nat /\ cur \in 1 .. Len(probable) /\ finding.id \in findingIds
         /\ doneIds = {probable[i].id : i \in 1 .. cur - 1} /\ classified = cur - 1
         /\ finding.id \notin doneIds /\ w.mode # "scenario"
<1>1. Correlated(probable)
  BY OutputCorrelated DEF Inv, Ranked
<1>2. Len(probable) \in Nat /\ cur \in 1 .. Len(probable)
  BY <1>1 DEF Inv, Typed, Placed, Takes, Correlated
<1>3. w.mode # "scenario" /\ pc # "halted" /\ pc \notin {"purple", "done", "classified"}
  BY FindingLabels, NoWorkTypes DEF Inv, Counted, Takes, OnFinding
<1>4. reached = cur - 1
  BY <1>3 DEF reached
<1>5. doneIds = {probable[i].id : i \in 1 .. cur - 1} /\ classified = cur - 1
  BY <1>3, <1>4 DEF Inv, Placed
<1>6. finding.id \in findingIds /\ finding.id \notin {probable[i].id : i \in 1 .. cur - 1}
  BY <1>1, <1>2 DEF Correlated, finding, findingIds
<1> QED BY <1>2, <1>3, <1>5, <1>6

\* A step within the work on a finding.
LEMMA Working ==
  ASSUME Inv, Takes, OnFinding', UNCHANGED <<layer, cur, results>>,
         w' \in Works, guard' \in Guards
  PROVE  /\ Ranked' /\ Typed' /\ Placed' /\ Prompt' /\ VerdictBacked'
         /\ UNCHANGED <<finding, category, knownFalsePositive>> /\ cur <= Len(probable)
<1>1. /\ probable' = probable /\ job' = job /\ killed' = killed /\ crashes' = crashes
      /\ atKill' = atKill /\ cur' = cur /\ confirmed' = confirmed /\ unconfirmed' = unconfirmed
  BY DEF layer, results
<1>2. Ranked'
  BY <1>1 DEF Inv, Ranked
<1>3. Typed'
  BY <1>1, FindingLabels DEF Inv, Typed, findingIds
<1>4. reached' = reached /\ doneIds' = doneIds /\ classified' = classified
  <2>1. reached = cur - 1
    BY FindingLabels, TakenFinding DEF reached, Takes
  <2>2. reached' = cur' - 1
    BY FindingLabels DEF reached, OnFinding
  <2> QED BY <1>1, <2>1, <2>2 DEF doneIds, classified, Range
<1>5. Placed'
  <2>1. doneIds = {probable[i].id : i \in 1 .. reached} /\ classified = reached
        /\ classified <= Len(probable) /\ cur <= Len(probable)
    BY FindingLabels, TakenFinding DEF Inv, Placed, Takes
  <2>2. {probable[i].id : i \in 1 .. reached}' = {probable[i].id : i \in 1 .. reached}
    BY <1>1, <1>4
  <2>3. w'.mode # "scenario"
    BY DEF OnFinding
  <2> QED BY <1>1, <1>4, <2>1, <2>2, <2>3, FindingLabels DEF Placed
<1>6. Prompt'
  BY <1>1, <1>4 DEF Inv, Prompt, Takes
<1>7. VerdictBacked'
  BY FindingLabels DEF VerdictBacked, StaticFloor, ConfirmedBacked
<1>8. UNCHANGED <<finding, category, knownFalsePositive>>
  BY <1>1 DEF finding, category, knownFalsePositive
<1>9. cur <= Len(probable)
  BY TakenFinding
<1> QED BY <1>2, <1>3, <1>5, <1>6, <1>7, <1>8, <1>9

\* The verdict on a finding.
LEMMA Classifying ==
  ASSUME Inv, Takes, UNCHANGED <<layer, cur, guard>>, w' \in Works, w'.mode # "scenario",
         toUnconfirmed \/ \E via \in Vias : confirm(via),
         w'.last # <<>> => w.last # <<>>
  PROVE  /\ Ranked' /\ Typed' /\ Placed' /\ Prompt' /\ Guarded' /\ Shown'
         /\ UNCHANGED <<finding, category, knownFalsePositive>> /\ pc' = "classified"
<1>1. /\ probable' = probable /\ job' = job /\ killed' = killed /\ crashes' = crashes
      /\ atKill' = atKill /\ cur' = cur /\ guard' = guard /\ pc' = "classified"
  BY DEF layer, toUnconfirmed, confirm
<1>2. Ranked'
  BY <1>1 DEF Inv, Ranked
<1> DEFINE Grown == /\ confirmed' \in Seq(findingIds \X Vias) /\ unconfirmed' \in Seq(findingIds)
                    /\ classified' = classified + 1
                    /\ doneIds' = doneIds \cup {finding.id}
<1>3. Grown
  <2>0. Typed
    BY DEF Inv
  <2>1. CASE toUnconfirmed
    <3>1. confirmed' = confirmed /\ unconfirmed' = Append(unconfirmed, finding.id)
      BY <2>1 DEF toUnconfirmed
    <3>2. Range(unconfirmed') = Range(unconfirmed) \cup {finding.id}
      BY <3>1, <2>0, ResultTypes, TakenFinding DEF Range
    <3>3. Len(unconfirmed') = Len(unconfirmed) + 1 /\ unconfirmed' \in Seq(findingIds)
      BY <3>1, <2>0, ResultTypes, TakenFinding
    <3> QED BY <3>1, <3>2, <3>3, <2>0, ResultTypes DEF doneIds, classified
  <2>2. ASSUME NEW via \in Vias, confirm(via)
        PROVE  Grown
    <3> DEFINE x == <<finding.id, via>>
    <3>1. unconfirmed' = unconfirmed /\ confirmed' = Append(confirmed, x)
      BY <2>2 DEF confirm
    <3>2. x \in findingIds \X Vias /\ x[1] = finding.id
      BY TakenFinding
    <3> HIDE DEF x
    <3>3. Len(confirmed') = Len(confirmed) + 1 /\ confirmed' \in Seq(findingIds \X Vias)
      BY <3>1, <3>2, <2>0, ResultTypes
    <3>4. {confirmed'[i][1] : i \in DOMAIN confirmed'}
            = {confirmed[i][1] : i \in DOMAIN confirmed} \cup {finding.id}
      BY <3>1, <3>2, <3>3, <2>0, ResultTypes
    <3>5. classified' = classified + 1
      BY <3>1, <3>3, <2>0, ResultTypes DEF classified
    <3>6. doneIds' = doneIds \cup {finding.id}
      BY <3>1, <3>4 DEF doneIds
    <3> QED BY <3>1, <3>3, <3>5, <3>6, <2>0, ResultTypes
  <2> QED BY <2>1, <2>2
<1>4. Typed'
  <2>1. findingIds' = findingIds
    BY <1>1 DEF findingIds
  <2>2. pc' \in Labels
    BY <1>1 DEF Labels
  <2> QED BY <1>1, <1>3, <2>1, <2>2 DEF Inv, Typed
<1>5. Placed'
  <2>1. reached' = cur
    BY <1>1 DEF reached
  <2>2. doneIds' = {probable[i].id : i \in 1 .. cur}
    <3> DEFINE A == 1 .. cur
               B == 1 .. cur - 1
    <3>1. A = B \cup {cur}
      BY TakenFinding
    <3> HIDE DEF A, B
    <3>2. {probable[i].id : i \in A} = {probable[i].id : i \in B} \cup {probable[cur].id}
      BY <3>1
    <3> USE DEF A, B
    <3> QED BY <1>3, <3>2, TakenFinding DEF finding
  <2>3. classified' = cur /\ cur <= Len(probable)
    BY <1>3, TakenFinding
  <2>4. OnFinding' = FALSE
    BY <1>1, FindingLabels DEF OnFinding, Attempting, Probing, Investigating
  <2> QED BY <1>1, <2>1, <2>2, <2>3, <2>4 DEF Placed
<1>6. ~OnFinding' /\ pc' \notin Probing /\ pc' \notin Investigating
  BY <1>1 DEF OnFinding, Attempting, Probing, Investigating
<1>7. Prompt'
  <2>1. killed => classified <= atKill
    BY DEF Inv, Prompt, Takes
  <2>2. atKill \in Int /\ classified \in Int
    BY ResultTypes DEF Inv, Typed
  <2> QED BY <1>1, <1>3, <1>6, <2>1, <2>2 DEF Prompt
<1>8. Guarded'
  <2>1. assertLiveAuthorized' = assertLiveAuthorized
    BY <1>1 DEF assertLiveAuthorized
  <2> QED BY <1>1, <1>6, <2>1 DEF Inv, Guarded
<1>9. Shown'
  BY <1>1, <1>6 DEF Inv, Shown
<1>10. UNCHANGED <<finding, category, knownFalsePositive>>
  BY <1>1 DEF finding, category, knownFalsePositive
<1> QED BY <1>1, <1>2, <1>4, <1>5, <1>7, <1>8, <1>9, <1>10

\* A finding in the appendix has no unvetoed static proof, and none is confirmed.
LEMMA AppendixBacked ==
  ASSUME Inv, Takes, UNCHANGED <<layer, cur, guard>>, toUnconfirmed, w'.static # "confirmed"
  PROVE  VerdictBacked'
<1>1. finding' = finding /\ confirmed' = confirmed
  BY DEF layer, finding, toUnconfirmed
<1>2. confirmed # <<>> => Last(confirmed)[1] \in doneIds
  <2> HAVE confirmed # <<>>
  <2>1. confirmed \in Seq(findingIds \X Vias)
    BY DEF Inv, Typed
  <2>2. Len(confirmed) \in DOMAIN confirmed
    BY <2>1
  <2>3. confirmed[Len(confirmed)][1] \in {confirmed[i][1] : i \in DOMAIN confirmed}
    BY <2>2
  <2> QED BY <2>3 DEF doneIds, Last
<1>3. confirmed' # <<>> => Last(confirmed')[1] # finding'.id
  BY <1>1, <1>2, TakenFinding
<1> QED BY <1>3 DEF VerdictBacked, StaticFloor, ConfirmedBacked

\* What a confirmation rests on.
Backs(via) ==
  /\ via = "live" => guard.total > 0 /\ oracle(category, w'.base, w'.last)
  /\ via = "static" => w'.static = "confirmed" /\ reachable(AppMap, finding)
  /\ via = "investigation" => /\ job.repoRoot /\ w'.test = "fails" /\ w'.voters = Verifiers
                              /\ 2 * w'.votes > Verifiers

LEMMA ConfirmationBacked ==
  ASSUME Inv, OnFinding, UNCHANGED <<layer, cur, guard>>, NEW via \in Vias, confirm(via),
         Backs(via)
  PROVE  VerdictBacked'
<1>1. /\ finding' = finding /\ category' = category /\ knownFalsePositive' = knownFalsePositive
      /\ job' = job /\ guard' = guard /\ confirmed' = Append(confirmed, <<finding.id, via>>)
  BY DEF layer, finding, category, knownFalsePositive, confirm
<1>2. confirmed' # <<>> /\ Last(confirmed') = <<finding.id, via>>
  <2>1. confirmed \in Seq(findingIds \X Vias)
    BY DEF Inv, Typed
  <2>2. <<finding.id, via>> \in findingIds \X Vias
    BY TakenFinding DEF Takes
  <2> DEFINE x == <<finding.id, via>>
  <2>3. confirmed' = Append(confirmed, x) /\ x \in findingIds \X Vias
    BY <1>1, <2>2
  <2> HIDE DEF x
  <2>4. confirmed' # <<>> /\ confirmed'[Len(confirmed')] = x
    BY <2>1, <2>3
  <2> QED BY <2>4 DEF Last, x
<1>3. Last(confirmed')[1] = finding.id /\ Last(confirmed')[2] = via
  BY <1>2
<1>4. ~knownFalsePositive /\ ~ruledOut(AppMap, finding)
  BY DEF Inv, Shown
<1>5. StaticFloor'
  BY <1>1, <1>2, <1>3 DEF StaticFloor
<1>6. ConfirmedBacked'
  BY <1>1, <1>3, <1>4 DEF ConfirmedBacked, Backs
<1> QED BY <1>5, <1>6 DEF VerdictBacked

\* A step of a scenario, its end, and the end of the layer by the kill switch.
LEMMA ScenarioFacts ==
  ASSUME Inv, w.mode = "scenario"
  PROVE  /\ pc \in Probing /\ cur <= Len(confirmed) /\ ~OnFinding /\ classified = Len(probable)
         /\ doneIds = {probable[i].id : i \in 1 .. Len(probable)}
         /\ Len(probable) \in Nat /\ cur \in Nat /\ Len(confirmed) <= Len(probable)
<1>1. pc \in Probing /\ cur <= Len(confirmed) /\ ~OnFinding
  BY DEF Inv, Placed, OnFinding
<1>2. reached = Len(probable) /\ pc # "halted"
  BY <1>1 DEF reached, Probing
<1>3. classified = Len(probable) /\ doneIds = {probable[i].id : i \in 1 .. Len(probable)}
  BY <1>2 DEF Inv, Placed
<1>4. Len(probable) \in Nat
  BY OutputCorrelated DEF Inv, Ranked, Correlated
<1>5. cur \in Nat /\ Len(confirmed) <= Len(probable)
  BY <1>3, <1>4, ResultTypes DEF Inv, Typed, classified
<1> QED BY <1>1, <1>3, <1>4, <1>5

LEMMA Scanning ==
  ASSUME Inv, w.mode = "scenario", w'.mode = "scenario", pc' \in Probing,
         UNCHANGED <<layer, cur, results>>, w' \in Works, guard' \in Guards
  PROVE  Ranked' /\ Typed' /\ Placed' /\ Prompt' /\ VerdictBacked' /\ ~OnFinding'
<1>1. /\ probable' = probable /\ job' = job /\ killed' = killed /\ crashes' = crashes
      /\ atKill' = atKill /\ cur' = cur /\ confirmed' = confirmed /\ unconfirmed' = unconfirmed
  BY DEF layer, results
<1>2. Ranked'
  BY <1>1 DEF Inv, Ranked
<1>3. Typed'
  BY <1>1 DEF Inv, Typed, findingIds, Probing, Labels
<1>4. doneIds' = doneIds /\ classified' = classified /\ reached' = Len(probable)
  BY <1>1 DEF doneIds, classified, reached
<1>5. ~OnFinding' /\ pc' \notin {"start", "classified", "purple"}
  BY DEF OnFinding, Probing
<1>6. {probable[i].id : i \in 1 .. reached}' = {probable[i].id : i \in 1 .. Len(probable)}
  BY <1>1, <1>4
<1>7. Placed'
  BY <1>1, <1>4, <1>5, <1>6, ScenarioFacts DEF Placed
<1>8. Prompt'
  BY <1>1, <1>4, <1>5 DEF Inv, Prompt
<1>9. VerdictBacked'
  BY <1>5 DEF VerdictBacked, StaticFloor, ConfirmedBacked
<1> QED BY <1>2, <1>3, <1>5, <1>7, <1>8, <1>9

LEMMA Abandoning ==
  ASSUME Inv, w.mode = "scenario", pc' = "purple", cur' = cur + 1, w' = NoWork,
         UNCHANGED <<layer, results>>, guard' \in Guards, guard'.mutating <= guard'.total
  PROVE  Ranked' /\ Typed' /\ Placed' /\ Prompt' /\ VerdictBacked' /\ Shown' /\ Counted'
<1>1. /\ probable' = probable /\ job' = job /\ killed' = killed /\ crashes' = crashes
      /\ atKill' = atKill /\ confirmed' = confirmed /\ unconfirmed' = unconfirmed
  BY DEF layer, results
<1>2. Ranked'
  BY <1>1 DEF Inv, Ranked
<1>3. Typed'
  <2>1. cur' \in 1 .. Len(probable') + 1
    BY <1>1, ScenarioFacts, ResultTypes DEF Inv
  <2> QED BY <1>1, <2>1, NoWorkTypes DEF Inv, Typed, findingIds, Labels
<1>4. doneIds' = doneIds /\ classified' = classified /\ reached' = Len(probable)
  BY <1>1 DEF doneIds, classified, reached
<1>5. ~OnFinding' /\ w'.mode # "scenario"
  BY NoWorkTypes DEF OnFinding, Attempting, Probing, Investigating
<1>6. {probable[i].id : i \in 1 .. reached}' = {probable[i].id : i \in 1 .. Len(probable)}
  BY <1>1, <1>4
<1>7. Placed'
  BY <1>1, <1>4, <1>5, <1>6, ScenarioFacts, ResultTypes DEF Placed, Inv
<1>8. Prompt'
  BY <1>1, <1>4, <1>5 DEF Inv, Prompt
<1>9. VerdictBacked'
  BY DEF VerdictBacked, StaticFloor, ConfirmedBacked
<1>10. Shown'
  BY <1>5, NoWorkTypes DEF Shown, Investigating, Shows
<1>11. Counted'
  BY NoWorkTypes, Limits DEF Counted, Counts, Attempting, Probing, Investigating, MaxLlmCalls,
     ABSOLUTE_MAX_INVESTIGATION_TURNS
<1> QED BY <1>2, <1>3, <1>7, <1>8, <1>9, <1>10, <1>11

LEMMA Halting ==
  ASSUME Inv, pc' = "halted", UNCHANGED <<layer, cur, results, guard, w>>, w.mode # "scenario"
  PROVE  Inv'
<1>1. /\ probable' = probable /\ job' = job /\ killed' = killed /\ crashes' = crashes
      /\ atKill' = atKill /\ cur' = cur /\ confirmed' = confirmed /\ unconfirmed' = unconfirmed
      /\ guard' = guard /\ w' = w
  BY DEF layer, results
<1>2. ~OnFinding' /\ pc' \notin Attempting /\ pc' \notin Investigating /\ pc' \notin Probing
  BY DEF OnFinding, Attempting, Probing, Investigating
<1>3. classified' = classified
  BY <1>1 DEF classified
<1>4. Ranked' /\ Typed'
  BY <1>1 DEF Inv, Ranked, Typed, findingIds, Labels, Ended
<1>5. Counted'
  BY <1>1, <1>2 DEF Inv, Counted
<1>6. Guarded'
  BY <1>1, <1>2 DEF Inv, Guarded, assertLiveAuthorized
<1>7. Prompt' /\ Placed'
  BY <1>1, <1>2, <1>3 DEF Inv, Prompt, Placed
<1>8. Shown' /\ VerdictBacked'
  BY <1>1, <1>2 DEF Inv, Shown, VerdictBacked, StaticFloor, ConfirmedBacked
<1> QED BY <1>4, <1>5, <1>6, <1>7, <1>8 DEF Inv

\* The counts and the evidence of an attempt that does not change them.
LEMMA AttemptCounted ==
  ASSUME Inv, pc \in Attempting, pc' \in Attempting, SameCounts(w', w),
         guard'.mutating <= guard'.total
  PROVE  Counted'
  BY DEF Inv, Counted, Attempting, Probing, Investigating, SameCounts, Counts

LEMMA AttemptShown ==
  ASSUME Inv, OnFinding, OnFinding', pc \in Attempting \ {"settle"}, pc' \in Attempting,
         SameShown(w', w), guard' = guard, UNCHANGED <<finding, category, knownFalsePositive>>
  PROVE  Shown'
<1>1. pc' \notin Investigating
  BY DEF Attempting, Probing, Investigating
<1>2. ~w.live
  BY DEF Inv, Shown
<1> QED BY <1>1, <1>2 DEF Inv, Shown, SameShown, Shows, Investigating

\* A step of a live attempt that counts and shows nothing new.
LEMMA Attempts ==
  ASSUME Inv, OnFinding, pc \in Attempting \ {"settle"}, pc' \in Attempting,
         UNCHANGED <<layer, cur, results, guard>>, w' \in Works, w'.mode # "scenario",
         SameCounts(w', w), SameShown(w', w), Guarded'
  PROVE  Inv'
<1>1. guard' = guard /\ guard' \in Guards /\ guard'.mutating <= guard'.total
  BY DEF Inv, Typed, Counted
<1>2. OnFinding'
  BY DEF OnFinding
<1>3. /\ Ranked' /\ Typed' /\ Placed' /\ Prompt' /\ VerdictBacked'
      /\ UNCHANGED <<finding, category, knownFalsePositive>>
  BY <1>1, <1>2, Working DEF Takes
<1>4. Counted'
  BY <1>1, AttemptCounted
<1>5. Shown'
  BY <1>1, <1>2, <1>3, AttemptShown
<1> QED BY <1>3, <1>4, <1>5 DEF Inv

LEMMA SameWork == ASSUME w' = w PROVE SameCounts(w', w) /\ SameShown(w', w)
  BY DEF SameCounts, Counts, SameShown, Shows

\* The guard away from the probes, and before one.
LEMMA GuardIdle ==
  ASSUME Inv, guard' = guard, job' = job, pc' \notin Probing,
         pc' \in {"login", "browser", "page", "verdict", "round", "choose"} => assertLiveAuthorized
  PROVE  Guarded'
  BY DEF Inv, Guarded, assertLiveAuthorized, Probing

LEMMA GuardAtGate ==
  ASSUME Inv, guard' = guard, job' = job, pc' = "gate", w'.probes # <<>>, assertLiveAuthorized
  PROVE  Guarded'
  BY DEF Inv, Guarded, assertLiveAuthorized

LEMMA ToSettle ==
  ASSUME Inv, OnFinding, pc \in Attempting \ {"settle"}, pc' = "settle",
         UNCHANGED <<layer, cur, results, guard, w>>
  PROVE  Inv'
<1>1. Guarded'
  BY GuardIdle DEF layer, Probing
<1>2. w' \in Works /\ w'.mode # "scenario" /\ pc' \in Attempting
  BY DEF Inv, Typed, OnFinding, Attempting
<1> QED BY <1>1, <1>2, SameWork, Attempts

LEMMA CraftTypes == ASSUME NEW c, NEW session PROVE craftProbes(c, session) \in Seq(Probes)
<1>0. \A m \in Methods, r \in Roles : probe(m, r) \in Probes
  BY DEF probe, Probes
<1>1. /\ probe("GET", "payload") \in Probes /\ probe("GET", "baseline") \in Probes
      /\ probe("POST", "payload") \in Probes /\ probe("POST", "baseline") \in Probes
  <2>1. "GET" \in Methods /\ "POST" \in Methods /\ "payload" \in Roles /\ "baseline" \in Roles
    BY DEF Methods, Roles
  <2> QED BY <1>0, <2>1, Zenon
<1>2. /\ <<probe("GET", "payload")>> \in Seq(Probes)
      /\ <<probe("POST", "baseline"), probe("POST", "payload")>> \in Seq(Probes)
      /\ <<probe("GET", "baseline"), probe("GET", "payload")>> \in Seq(Probes)
      /\ << >> \in Seq(Probes)
  <2>1. \A x, y \in Probes : <<x>> \in Seq(Probes) /\ <<x, y>> \in Seq(Probes)
    OBVIOUS
  <2>2. << >> \in Seq(Probes)
    OBVIOUS
  <2> QED BY <1>1, <2>1, <2>2, Zenon
<1>3. craftProbes(c, session) \in
        {<<probe("GET", "payload")>>, <<probe("POST", "baseline"), probe("POST", "payload")>>,
         <<probe("GET", "baseline"), probe("GET", "payload")>>, << >>}
  BY DEF craftProbes
<1> QED BY <1>2, <1>3

LEMMA Probed ==
  ASSUME Inv, OnFinding, pc \in {"live", "page"}, assertLiveAuthorized,
         NEW session, probeWith(session), UNCHANGED <<layer, cur, guard>>
  PROVE  Inv'
<1> DEFINE ps == craftProbes(category, session)
<1>1. /\ w' = [w EXCEPT !.probes = ps] /\ UNCHANGED results
      /\ pc' = (IF ps = <<>> THEN "settle" ELSE "gate")
  BY DEF probeWith, goto
<1>2. ps \in Seq(Probes) /\ w \in Works
  BY CraftTypes DEF Inv, Typed
<1> HIDE DEF ps
<1>3. /\ w' \in Works /\ w'.mode = w.mode /\ w'.probes = ps
      /\ SameCounts(w', w) /\ SameShown(w', w)
  BY <1>1, <1>2, ProbesWork
<1>4. job' = job /\ guard' = guard
  BY DEF layer
<1>5. Guarded'
  BY <1>1, <1>3, <1>4, GuardIdle, GuardAtGate DEF Probing
<1>6. pc' \in Attempting /\ pc \in Attempting \ {"settle"} /\ w'.mode # "scenario"
  BY <1>1, <1>3 DEF Attempting, Probing, OnFinding
<1> QED BY <1>1, <1>3, <1>5, <1>6, Attempts

-----------------------------------------------------------------------------
(* Layer 3: every step preserves the invariant *)

LEMMA StartInv == ASSUME Inv, Start PROVE Inv'
<1>1. /\ probable' = probable /\ job' = job /\ killed' = killed /\ crashes' = crashes
      /\ atKill' = atKill /\ cur' = cur /\ confirmed' = confirmed /\ unconfirmed' = unconfirmed
      /\ w' = w /\ pc' = "finding" /\ pc = "start" /\ killed = FALSE
  BY DEF Start, layer, results, Inv, Typed
<1>2. w = NoWork /\ cur = 1 /\ w.mode = "fixed"
  BY <1>1, NoWorkTypes DEF Inv, Counted, Placed
<1>3. /\ guard' \in Guards /\ guard'.total = 0 /\ guard'.mutating = 0 /\ guard'.sendTimes = {}
      /\ guard'.on => assertLiveAuthorized
  BY GuardTypes DEF Start
<1>4. Ranked' /\ Typed'
  BY <1>1, <1>3 DEF Inv, Ranked, Typed, findingIds, Labels
<1>5. Counted'
  BY <1>1, <1>2, <1>3 DEF Inv, Counted, Attempting, Probing, Investigating
<1>6. Guarded'
  <2>1. assertLiveAuthorized' = assertLiveAuthorized
    BY <1>1 DEF assertLiveAuthorized
  <2> QED BY <1>1, <1>3, <2>1, FS_EmptySet, Limits DEF Guarded, Probing
<1>7. reached' = reached /\ doneIds' = doneIds /\ classified' = classified /\ ~OnFinding'
  BY <1>1, <1>2 DEF reached, doneIds, classified, OnFinding, Attempting, Probing, Investigating
<1>8. {probable[i].id : i \in 1 .. reached}' = {probable[i].id : i \in 1 .. reached}
  BY <1>1, <1>7
<1>9. Placed' /\ Prompt'
  BY <1>1, <1>2, <1>7, <1>8 DEF Inv, Placed, Prompt
<1>10. Shown' /\ VerdictBacked'
  BY <1>1, <1>2, <1>7, NoWorkTypes DEF Shown, Shows, VerdictBacked, StaticFloor, ConfirmedBacked,
     Investigating
<1> QED BY <1>4, <1>5, <1>6, <1>9, <1>10 DEF Inv

LEMMA TakeFindingInv == ASSUME Inv, TakeFinding PROVE Inv'
<1>1. /\ pc = "finding" /\ cur <= Len(probable) /\ ~killed
      /\ UNCHANGED <<layer, cur, guard, w>> /\ job' = job /\ guard' = guard /\ w' = w
  BY DEF TakeFinding, layer
<1>2. Takes /\ w = NoWork /\ w' \in Works /\ w'.mode = "fixed" /\ guard' \in Guards
  BY <1>1, NoWorkTypes DEF Takes, Inv, Counted, Typed
<1>3. CASE (knownFalsePositive \/ ruledOut(AppMap, finding)) /\ toUnconfirmed
  <2>1. Ranked' /\ Typed' /\ Placed' /\ Prompt' /\ Guarded' /\ Shown' /\ pc' = "classified"
    BY <1>1, <1>2, <1>3, Classifying
  <2>2. VerdictBacked'
    BY <1>1, <1>2, <1>3, AppendixBacked, NoWorkTypes DEF Shows
  <2>3. Counted'
    BY <1>1, <2>1 DEF Inv, Counted, Attempting, Probing, Investigating
  <2> QED BY <2>1, <2>2, <2>3 DEF Inv
<1>4. CASE ~(knownFalsePositive \/ ruledOut(AppMap, finding)) /\ goto("static")
  <2>1. pc' = "static" /\ UNCHANGED results
    BY <1>4 DEF goto
  <2>2. OnFinding'
    BY <2>1, <1>2 DEF OnFinding
  <2>3. /\ Ranked' /\ Typed' /\ Placed' /\ Prompt' /\ VerdictBacked'
        /\ UNCHANGED <<finding, category, knownFalsePositive>>
    BY <1>1, <1>2, <2>1, <2>2, Working
  <2>4. Counted'
    BY <1>1, <1>2, <2>1 DEF Inv, Counted, Attempting, Probing, Investigating
  <2>5. Guarded'
    BY <1>1, <2>1, GuardIdle DEF Probing
  <2>6. Shown'
    BY <1>1, <1>2, <1>4, <2>1, <2>3, NoWorkTypes DEF Shown, Shows, Investigating
  <2> QED BY <2>3, <2>4, <2>5, <2>6 DEF Inv
<1> QED BY <1>3, <1>4 DEF TakeFinding

LEMMA NextFindingInv == ASSUME Inv, NextFinding PROVE Inv'
<1>1. /\ probable' = probable /\ job' = job /\ killed' = killed /\ crashes' = crashes
      /\ atKill' = atKill /\ confirmed' = confirmed /\ unconfirmed' = unconfirmed
      /\ guard' = guard /\ cur' = cur + 1 /\ w' = NoWork /\ pc' = "finding" /\ pc = "classified"
  BY DEF NextFinding, layer, results
<1>2. Len(probable) \in Nat /\ cur \in 1 .. Len(probable) /\ w.mode # "scenario"
  BY <1>1, OutputCorrelated DEF Inv, Ranked, Correlated, Typed, Placed, Probing
<1>3. Ranked' /\ Typed'
  <2>1. cur' \in 1 .. Len(probable') + 1
    BY <1>1, <1>2
  <2> QED BY <1>1, <2>1, NoWorkTypes DEF Inv, Ranked, Typed, findingIds, Labels
<1>4. Counted'
  BY <1>1, NoWorkTypes, Limits DEF Inv, Counted, Counts, Attempting, Probing, Investigating,
     MaxLlmCalls, ABSOLUTE_MAX_INVESTIGATION_TURNS
<1>5. Guarded'
  BY <1>1, GuardIdle DEF Probing
<1>6. reached' = reached /\ doneIds' = doneIds /\ classified' = classified /\ ~OnFinding'
  BY <1>1, <1>2, NoWorkTypes
     DEF reached, doneIds, classified, OnFinding, Attempting, Probing, Investigating
<1>7. {probable[i].id : i \in 1 .. reached}' = {probable[i].id : i \in 1 .. reached}
  BY <1>1, <1>6
<1>8. Placed' /\ Prompt'
  BY <1>1, <1>6, <1>7, NoWorkTypes DEF Inv, Placed, Prompt
<1>9. Shown' /\ VerdictBacked'
  BY <1>1, <1>6, NoWorkTypes DEF Shown, Shows, VerdictBacked, StaticFloor, ConfirmedBacked,
     Investigating
<1> QED BY <1>3, <1>4, <1>5, <1>8, <1>9 DEF Inv

LEMMA AtFinding ==
  ASSUME Inv, pc \in {"static", "live", "login", "browser", "page", "verdict", "round", "choose", "settle",
                      "turn", "evidence", "verify"}
  PROVE  OnFinding
  BY DEF Inv, Placed, Probing, OnFinding, Attempting, Investigating

LEMMA StaticInv == ASSUME Inv, Static PROVE Inv'
<1>1. /\ pc = "static" /\ pc' = "live" /\ UNCHANGED <<layer, cur, results, guard>>
      /\ job' = job /\ guard' = guard
  BY DEF Static, goto, layer
<1>2. OnFinding /\ w = NoWork /\ w \in Works /\ w.calls = 0 /\ guard' \in Guards
  BY <1>1, AtFinding, NoWorkTypes DEF Inv, Counted, Typed, Counts
<1> DEFINE Reviewed == /\ w' \in Works /\ w'.mode = w.mode /\ w'.calls <= 1
                       /\ Counts(w', 0, 0, 0, 0, w'.calls)
                       /\ Shows(w', w'.static, FALSE, <<>>, <<>>, "none")
                       /\ w'.static = "confirmed" => reachable(AppMap, finding)
<1>3. Reviewed
  <2>0. Counts(w, 0, 0, 0, 0, 0) /\ Shows(w, "none", FALSE, <<>>, <<>>, "none")
    BY <1>2, NoWorkTypes
  <2>1. ASSUME NEW s \in {"confirmed", "vetoed"}, reachable(AppMap, finding),
               w' = [w EXCEPT !.static = s, !.calls = @ + 1]
        PROVE  Reviewed
    <3>1. w' = [w EXCEPT !.static = s, !.calls = 1]
      BY <1>2, <2>1
    <3>2. /\ w' \in Works /\ w'.mode = w.mode
          /\ Counts(w', w.round, w.turn, w.votes, w.voters, 1)
          /\ Shows(w', s, w.live, w.base, w.last, w.test)
      <4>1. s \in {"none", "unproven", "vetoed", "confirmed"} /\ 1 \in Nat /\ w \in Works
        BY <2>1, <1>2
      <4> QED BY <3>1, <4>1, ReviewedWork, ZenonT(60)
    <3> QED BY <3>2, <2>0, <2>1 DEF Counts, Shows
  <2>2. ASSUME w' = [w EXCEPT !.static = "unproven"]
        PROVE  Reviewed
    <3>1. /\ w' \in Works /\ w'.mode = w.mode
          /\ SameCounts(w', w) /\ Shows(w', "unproven", w.live, w.base, w.last, w.test)
      BY <2>2, <1>2, UnprovenWork
    <3> QED BY <3>1, <2>0 DEF Counts, SameCounts, Shows
  <2> QED BY <2>1, <2>2 DEF Static
<1>4. OnFinding' /\ pc' \in Attempting
  BY <1>1, <1>2, <1>3 DEF OnFinding, Attempting
<1>5. /\ Ranked' /\ Typed' /\ Placed' /\ Prompt' /\ VerdictBacked'
      /\ UNCHANGED <<finding, category, knownFalsePositive>>
  BY <1>1, <1>2, <1>3, <1>4, Working DEF Takes
<1>6. Counted'
  <2>1. w'.calls \in Nat /\ w'.calls <= MaxLlmCalls
    BY <1>3, WorkTypes, Limits DEF MaxLlmCalls, ABSOLUTE_MAX_INVESTIGATION_TURNS
  <2> QED BY <1>1, <1>3, <2>1, Limits DEF Inv, Counted, Counts, Attempting, Probing, Investigating,
          ABSOLUTE_MAX_INVESTIGATION_TURNS
<1>7. Guarded'
  BY <1>1, GuardIdle DEF Probing
<1>8. Shown'
  BY <1>1, <1>2, <1>3, <1>5 DEF Inv, Shown, Shows, Investigating
<1> QED BY <1>5, <1>6, <1>7, <1>8 DEF Inv

LEMMA OracleNeedsResponse ==
  ASSUME NEW c, NEW base, NEW payload, oracle(c, base, payload)
  PROVE  payload # <<>>
  BY DEF oracle

LEMMA SettleInv == ASSUME Inv, Settle PROVE Inv'
<1>1. /\ pc = "settle" /\ UNCHANGED <<layer, cur, guard>> /\ guard' = guard /\ job' = job
      /\ w' = IF w.live THEN w ELSE [NoWork EXCEPT !.static = w.static, !.calls = w.calls]
  BY DEF Settle, layer
<1>2. /\ OnFinding /\ Takes /\ w \in Works /\ w.live \in BOOLEAN /\ w.calls \in Nat
      /\ w.static \in {"none", "unproven", "vetoed", "confirmed"} /\ guard' \in Guards
  BY <1>1, AtFinding DEF Inv, Typed, Takes, Works
<1>3. w.live => w' = w
  BY <1>1
<1>4. ~w.live => /\ w' \in Works /\ w'.mode = "fixed" /\ Counts(w', 0, 0, 0, 0, w.calls)
                 /\ Shows(w', w.static, FALSE, <<>>, <<>>, "none")
  <2> SUFFICES ASSUME ~w.live
               PROVE  /\ w' \in Works /\ w'.mode = "fixed" /\ Counts(w', 0, 0, 0, 0, w.calls)
                      /\ Shows(w', w.static, FALSE, <<>>, <<>>, "none")
    OBVIOUS
  <2>1. w' = [NoWork EXCEPT !.static = w.static, !.calls = w.calls]
    BY <1>1
  <2>2. /\ w' \in Works /\ w'.mode = NoWork.mode
        /\ Counts(w', NoWork.round, NoWork.turn, NoWork.votes, NoWork.voters, w.calls)
        /\ Shows(w', w.static, NoWork.live, NoWork.base, NoWork.last, NoWork.test)
    BY <2>1, <1>2, NoWorkTypes, ReviewedWork
  <2> QED BY <2>2, NoWorkTypes DEF Counts, Shows
<1>5. w' \in Works /\ w'.mode # "scenario" /\ (w'.last # <<>> => w.last # <<>>)
  BY <1>2, <1>3, <1>4 DEF OnFinding, Shows
<1>6. /\ w.calls <= 1 + MAX_ADAPTIVE_ROUNDS /\ w.calls <= MaxLlmCalls
      /\ guard.mutating <= guard.total
  <2>1. w.calls \in Nat /\ w.round \in Nat
    BY <1>2, WorkTypes
  <2>2. w.calls <= 1 + w.round /\ w.round <= MAX_ADAPTIVE_ROUNDS /\ w.calls <= MaxLlmCalls
        /\ guard.mutating <= guard.total
    BY <1>1 DEF Inv, Counted, Attempting
  <2> QED BY <2>1, <2>2, Limits
<1>7. ASSUME pc' = "classified" PROVE Counted'
  <2>1. CASE w.live
    BY <1>1, <1>3, <1>7, <2>1 DEF Inv, Counted, Attempting, Probing, Investigating
  <2>2. CASE ~w.live
    <3>1. Counts(w', 0, 0, 0, 0, w.calls) /\ guard' = guard
      BY <1>1, <1>4, <2>2
    <3> QED BY <3>1, <1>6, <1>7, Limits DEF Counted, Counts, Attempting, Probing,
            Investigating, ABSOLUTE_MAX_INVESTIGATION_TURNS
  <2> QED BY <2>1, <2>2
<1>8. CASE w.live /\ confirm("live")
  <2>1. Ranked' /\ Typed' /\ Placed' /\ Prompt' /\ Guarded' /\ Shown' /\ pc' = "classified"
    BY <1>1, <1>2, <1>5, <1>8, Classifying DEF Vias
  <2>2. Backs("live")
    BY <1>2, <1>3, <1>8, OracleNeedsResponse DEF Backs, Inv, Shown
  <2>3. VerdictBacked'
    BY <1>1, <1>2, <1>8, <2>2, ConfirmationBacked DEF Vias
  <2> QED BY <1>7, <2>1, <2>3 DEF Inv
<1>9. CASE ~w.live /\ w.static = "confirmed" /\ confirm("static")
  <2>1. Ranked' /\ Typed' /\ Placed' /\ Prompt' /\ Guarded' /\ Shown' /\ pc' = "classified"
    BY <1>1, <1>2, <1>5, <1>9, Classifying DEF Vias
  <2>2. Backs("static")
    BY <1>2, <1>4, <1>9 DEF Backs, Inv, Shown, Shows
  <2>3. VerdictBacked'
    BY <1>1, <1>2, <1>9, <2>2, ConfirmationBacked DEF Vias
  <2> QED BY <1>7, <2>1, <2>3 DEF Inv
<1>10. CASE ~w.live /\ w.static # "confirmed" /\ goto("turn")
  <2>1. pc' = "turn" /\ UNCHANGED results
    BY <1>10 DEF goto
  <2>2. OnFinding'
    BY <1>5, <2>1 DEF OnFinding, Investigating
  <2>3. /\ Ranked' /\ Typed' /\ Placed' /\ Prompt' /\ VerdictBacked'
        /\ UNCHANGED <<finding, category, knownFalsePositive>>
    BY <1>1, <1>2, <1>5, <2>1, <2>2, Working
  <2>4. Counted'
    <3>1. turnsCap(MaxTurns, finding'.score) >= 0
      BY TurnsCapTypes DEF ABSOLUTE_MAX_INVESTIGATION_TURNS
    <3>2. Counts(w', 0, 0, 0, 0, w.calls) /\ guard' = guard
      BY <1>1, <1>4, <1>10
    <3> QED BY <3>1, <3>2, <1>6, <2>1, Limits DEF Counted, Counts, Attempting, Probing,
            Investigating, ABSOLUTE_MAX_INVESTIGATION_TURNS
  <2>5. Guarded'
    BY <1>1, <2>1, GuardIdle DEF Probing
  <2>6. Shown'
    BY <1>2, <1>4, <1>10, <2>1, <2>3 DEF Inv, Shown, Shows
  <2> QED BY <2>3, <2>4, <2>5, <2>6 DEF Inv
<1>11. CASE ~w.live /\ w.static # "confirmed" /\ toUnconfirmed
  <2>1. Ranked' /\ Typed' /\ Placed' /\ Prompt' /\ Guarded' /\ Shown' /\ pc' = "classified"
    BY <1>1, <1>2, <1>5, <1>11, Classifying
  <2>2. VerdictBacked'
    BY <1>1, <1>2, <1>4, <1>11, AppendixBacked DEF Shows
  <2> QED BY <1>7, <2>1, <2>2 DEF Inv
<1> QED BY <1>8, <1>9, <1>10, <1>11 DEF Settle

LEMMA LiveInv == ASSUME Inv, Live PROVE Inv'
<1>1. pc = "live" /\ UNCHANGED <<layer, cur, guard>> /\ job' = job /\ guard' = guard
  BY DEF Live, layer
<1>2. OnFinding /\ pc \in Attempting \ {"settle"}
  BY <1>1, AtFinding DEF Attempting
<1>3. CASE goto("settle") /\ UNCHANGED w
  BY <1>1, <1>2, <1>3, ToSettle DEF goto
<1>4. CASE guard.on /\ goto("login") /\ UNCHANGED w
  <2>1. assertLiveAuthorized /\ pc' = "login" /\ UNCHANGED results
    BY <1>4 DEF Inv, Guarded, goto
  <2>2. Guarded'
    BY <1>1, <2>1, GuardIdle DEF Probing
  <2>3. w' \in Works /\ w'.mode # "scenario" /\ pc' \in Attempting
    BY <1>2, <1>4, <2>1 DEF Inv, Typed, OnFinding, Attempting
  <2> QED BY <1>1, <1>2, <1>4, <2>1, <2>2, <2>3, SameWork, Attempts
<1>5. CASE guard.on /\ probeWith("none")
  <2>1. assertLiveAuthorized
    BY <1>5 DEF Inv, Guarded
  <2> QED BY <1>1, <1>2, <1>5, <2>1, Probed
<1>6. guard.on \in BOOLEAN
  BY DEF Inv, Typed, Guards
<1> QED BY <1>3, <1>4, <1>5, <1>6 DEF Live

\* The login goes on, with nothing but the label changed.
LEMMA LoginStep ==
  ASSUME Inv, pc \in {"login", "browser"}, pc' \in {"browser", "page"},
         UNCHANGED <<layer, cur, results, guard, w>>
  PROVE  Inv'
<1>1. OnFinding /\ pc \in Attempting \ {"settle"} /\ assertLiveAuthorized
  BY AtFinding DEF Attempting, Inv, Guarded
<1>2. Guarded'
  BY <1>1, GuardIdle DEF layer, Probing
<1>3. w' \in Works /\ w'.mode # "scenario" /\ pc' \in Attempting
  BY <1>1 DEF Inv, Typed, OnFinding, Attempting
<1> QED BY <1>1, <1>2, <1>3, SameWork, Attempts

LEMMA LoginInv == ASSUME Inv, Login PROVE Inv'
  BY LoginStep DEF Login, goto

LEMMA BrowseInv == ASSUME Inv, Browse PROVE Inv'
<1>1. pc = "browser" /\ UNCHANGED <<layer, cur, results, guard, w>> /\ pc' \in {"page", "settle"}
  BY DEF Browse, goto
<1>2. CASE pc' = "page"
  BY <1>1, <1>2, LoginStep
<1>3. CASE pc' = "settle"
  BY <1>1, <1>3, AtFinding, ToSettle DEF Attempting
<1> QED BY <1>1, <1>2, <1>3

LEMMA LoggedInInv == ASSUME Inv, LoggedIn PROVE Inv'
<1>1. pc = "page" /\ UNCHANGED <<layer, cur, guard>>
  BY DEF LoggedIn
<1>2. OnFinding /\ pc \in Attempting \ {"settle"} /\ assertLiveAuthorized
  BY <1>1, AtFinding DEF Attempting, Inv, Guarded
<1>3. CASE goto("settle") /\ UNCHANGED w
  BY <1>1, <1>2, <1>3, ToSettle DEF goto
<1>4. ASSUME NEW session \in {"bare", "headers"}, probeWith(session) PROVE Inv'
  BY <1>1, <1>2, <1>4, Probed
<1> QED BY <1>3, <1>4 DEF LoggedIn

LEMMA TailTypes ==
  ASSUME NEW S, NEW s \in Seq(S), s # <<>>
  PROVE  Tail(s) \in Seq(S) /\ Len(s) \in Nat /\ Len(s) # 0 /\ (Len(s) > 1 => Tail(s) # <<>>)
<1>1. Len(s) \in Nat /\ Len(s) # 0
  OBVIOUS
<1>2. Tail(s) \in Seq(S) /\ Len(Tail(s)) = Len(s) - 1
  BY HeadTailProperties
<1>3. Len(s) > 1 => Len(Tail(s)) # 0
  BY <1>1, <1>2
<1>4. Tail(s) = <<>> => Len(Tail(s)) = 0
  <2>1. Len(<<>>) = 0
    OBVIOUS
  <2> QED BY <2>1
<1> QED BY <1>1, <1>2, <1>3, <1>4

\* A step between the gate and the request, of a finding or of a scenario.
LEMMA ProbeMoves ==
  ASSUME Inv, pc \in Probing, pc' \in Probing, UNCHANGED <<layer, cur, results, guard, w>>,
         Guarded'
  PROVE  Inv'
<1>1. /\ w' = w /\ guard' = guard /\ w' \in Works /\ guard' \in Guards
      /\ guard'.mutating <= guard'.total
      /\ pc \in Attempting \ {"settle"} /\ pc' \in Attempting
  BY DEF Inv, Typed, Counted, Attempting, Probing
<1>2. CASE w.mode = "scenario"
  <2>1. Ranked' /\ Typed' /\ Placed' /\ Prompt' /\ VerdictBacked' /\ ~OnFinding'
    BY <1>1, <1>2, Scanning
  <2>2. Counted'
    BY <1>1, AttemptCounted, SameWork
  <2>3. Shown'
    BY <1>1, <2>1 DEF Inv, Shown, Probing, Investigating
  <2> QED BY <2>1, <2>2, <2>3 DEF Inv
<1>3. CASE w.mode # "scenario"
  <2>1. OnFinding
    BY <1>1, <1>3 DEF OnFinding
  <2> QED BY <1>1, <1>3, <2>1, SameWork, Attempts
<1> QED BY <1>2, <1>3

\* A probe is given up.
LEMMA AbandonInv == ASSUME Inv, pc \in Probing, Abandon(guard), UNCHANGED layer PROVE Inv'
<1>1. guard' = guard /\ guard' \in Guards /\ guard'.mutating <= guard'.total /\ job' = job
  BY DEF Abandon, Inv, Typed, Counted, layer
<1>2. CASE w.mode = "scenario"
  <2>1. pc' = "purple" /\ cur' = cur + 1 /\ w' = NoWork /\ UNCHANGED results
    BY <1>2 DEF Abandon, goto
  <2>2. Ranked' /\ Typed' /\ Placed' /\ Prompt' /\ VerdictBacked' /\ Shown' /\ Counted'
    BY <1>1, <1>2, <2>1, Abandoning
  <2>3. Guarded'
    BY <1>1, <2>1, GuardIdle DEF Probing
  <2> QED BY <2>2, <2>3 DEF Inv
<1>3. CASE w.mode # "scenario"
  <2>1. pc' = "settle" /\ UNCHANGED <<cur, results, w>>
    BY <1>3 DEF Abandon, goto
  <2>2. OnFinding /\ pc \in Attempting \ {"settle"}
    BY <1>3 DEF OnFinding, Attempting, Probing
  <2> QED BY <1>1, <2>1, <2>2, ToSettle
<1> QED BY <1>2, <1>3

LEMMA GateInv == ASSUME Inv, Gate PROVE Inv'
<1>1. pc = "gate" /\ pc \in Probing
  BY DEF Gate, Probing
<1>2. CASE Abandon(guard) /\ UNCHANGED layer
  BY <1>1, <1>2, AbandonInv
<1>3. CASE /\ assertProbeAllowed(Head(w.probes)) /\ goto("sleep")
           /\ UNCHANGED <<layer, cur, guard, w>>
  <2>1. pc' = "sleep" /\ UNCHANGED results /\ guard' = guard /\ w' = w /\ job' = job
    BY <1>3 DEF goto, layer
  <2>2. Guarded'
    BY <1>1, <1>3, <2>1 DEF Inv, Guarded, Probing, assertProbeAllowed, assertLiveAuthorized
  <2> QED BY <1>1, <1>3, <2>1, <2>2, ProbeMoves DEF Probing
<1>4. CASE assertProbeAllowed(Head(w.probes)) /\ ~throttled /\ Send
  <2>1. /\ pc' = "inflight" /\ UNCHANGED <<layer, cur, results, guard, w>>
        /\ guard' = guard /\ w' = w /\ job' = job
    BY <1>4 DEF Send, goto, layer
  <2>2. Guarded'
    BY <1>1, <1>4, <2>1 DEF Inv, Guarded, Probing, assertProbeAllowed, assertLiveAuthorized,
       throttled
  <2> QED BY <1>1, <2>1, <2>2, ProbeMoves DEF Probing
<1> QED BY <1>2, <1>3, <1>4 DEF Gate

LEMMA WakeInv == ASSUME Inv, Wake PROVE Inv'
<1>1. /\ pc = "sleep" /\ pc' = "inflight" /\ UNCHANGED <<layer, cur, results, guard, w>>
      /\ guard' = guard /\ w' = w /\ job' = job /\ ~throttled
  BY DEF Wake, Send, goto, layer
<1>2. Guarded'
  BY <1>1 DEF Inv, Guarded, Probing, assertProbeAllowed, assertLiveAuthorized, throttled
<1> QED BY <1>1, <1>2, ProbeMoves DEF Probing

LEMMA KilledAtGateInv == ASSUME Inv, KilledAtGate PROVE Inv'
<1>1. pc \in Probing
  BY DEF KilledAtGate, Probing
<1>2. CASE Abandon(guard) /\ UNCHANGED layer
  BY <1>1, <1>2, AbandonInv
<1>3. CASE w.mode # "scenario" /\ Halt
  BY <1>3, Halting DEF Halt
<1> QED BY <1>2, <1>3 DEF KilledAtGate

LEMMA KilledAtCheckInv == ASSUME Inv, KilledAtCheck PROVE Inv'
<1>1. pc' = "halted" /\ UNCHANGED <<layer, cur, results, guard, w>>
  BY DEF KilledAtCheck, Halt
<1>2. w.mode # "scenario"
  BY DEF KilledAtCheck, Inv, Placed, Probing
<1> QED BY <1>1, <1>2, Halting

\* The guard after the request in flight.
recorded ==
  [guard EXCEPT !.total = @ + 1,
                !.mutating = IF mutating(Head(w.probes)) THEN @ + 1 ELSE @,
                !.sendTimes = @ \cup {<<guard.total, 0>>}]

\* The caps and the rate hold of what is recorded.
LEMMA Recorded ==
  ASSUME Inv, pc = "inflight"
  PROVE  /\ recorded \in Guards /\ recorded.on = guard.on /\ recorded.total > 0
         /\ recorded.mutating <= recorded.total /\ recorded.total <= RequestCap
         /\ recorded.mutating <= MutatingCap /\ IsFiniteSet(recorded.sendTimes)
         /\ Cardinality(recorded.sendTimes) <= RPS
<1> DEFINE t == guard.total + 1
           m == IF mutating(Head(w.probes)) THEN guard.mutating + 1 ELSE guard.mutating
           S == guard.sendTimes \cup {<<guard.total, 0>>}
<1>1. /\ guard \in Guards /\ guard.total \in Nat /\ guard.mutating \in Nat
      /\ guard.sendTimes \subseteq Nat \X (0 .. Window - 1)
  BY DEF Inv, Typed, Guards
<1>2. t \in Nat /\ m \in Nat /\ S \in SUBSET (Nat \X (0 .. Window - 1))
  BY <1>1, Limits
<1>3. recorded = [guard EXCEPT !.total = t, !.mutating = m, !.sendTimes = S]
  BY <1>1 DEF recorded, Guards
<1>4. /\ guard.total < RequestCap /\ guard.mutating <= guard.total
      /\ mutating(Head(w.probes)) => guard.mutating < MutatingCap
      /\ guard.mutating <= MutatingCap
      /\ IsFiniteSet(guard.sendTimes) /\ ~(Cardinality(guard.sendTimes) >= RPS)
  BY DEF Inv, Guarded, Counted, assertProbeAllowed, throttled
<1>5. t > 0 /\ m <= t /\ t <= RequestCap /\ m <= MutatingCap
  BY <1>1, <1>4, Limits
<1>6. IsFiniteSet(S) /\ Cardinality(S) <= RPS
  <2>1. Cardinality(guard.sendTimes) \in Nat
    BY <1>4, FS_CardinalityType
  <2>2. /\ IsFiniteSet(S)
        /\ Cardinality(S) = Cardinality(guard.sendTimes)
           \/ Cardinality(S) = Cardinality(guard.sendTimes) + 1
    BY <1>4, FS_AddElement
  <2> HIDE DEF S
  <2> QED BY <1>4, <2>1, <2>2, Limits
<1> HIDE DEF t, m, S
<1>7. /\ recorded \in Guards /\ recorded.on = guard.on /\ recorded.total = t
      /\ recorded.mutating = m /\ recorded.sendTimes = S
  <2>1. guard \in Guards
    BY <1>1
  <2> QED BY <2>1, <1>2, <1>3 DEF Guards
<1> QED BY <1>5, <1>6, <1>7

LEMMA ResponseInv == ASSUME Inv, Response PROVE Inv'
<1>1. pc = "inflight" /\ UNCHANGED layer /\ job' = job
  BY DEF Response, layer
<1>2. /\ w \in Works /\ w.probes \in Seq(Probes) /\ w.probes # <<>> /\ assertLiveAuthorized
      /\ w.base \in Seq(Responses) /\ w.last \in Seq(Responses)
      /\ w.mode \in {"fixed", "adaptive", "scenario"}
  BY <1>1, WorkTypes DEF Inv, Typed, Guarded, Probing
<1>3. assertLiveAuthorized' = assertLiveAuthorized
  BY <1>1 DEF assertLiveAuthorized
<1>4. CASE w.mode = "scenario" /\ Len(w.probes) = 1 /\ Abandon(recorded)
  <2>1. /\ guard' = recorded /\ pc' = "purple" /\ cur' = cur + 1 /\ w' = NoWork
        /\ UNCHANGED results
    BY <1>4 DEF Abandon, goto
  <2>2. Ranked' /\ Typed' /\ Placed' /\ Prompt' /\ VerdictBacked' /\ Shown' /\ Counted'
    BY <1>1, <1>4, <2>1, Recorded, Abandoning
  <2>3. Guarded'
    BY <1>1, <1>2, <1>3, <2>1, Recorded DEF Guarded, Probing
  <2> QED BY <2>2, <2>3 DEF Inv
<1>5. ASSUME NEW r \in Responses, ~(w.mode = "scenario" /\ Len(w.probes) = 1),
             guard' = recorded, UNCHANGED cur, goto(afterProbe),
             w' = [w EXCEPT !.probes = Tail(@),
                            !.base = IF Head(w.probes).role = "baseline" THEN <<r>> ELSE @,
                            !.last = IF Head(w.probes).role \in {"payload", "adaptive_payload"}
                                     THEN <<r>> ELSE @]
      PROVE  Inv'
  <2> DEFINE ps == Tail(w.probes)
             b == IF Head(w.probes).role = "baseline" THEN <<r>> ELSE w.base
             l == IF Head(w.probes).role \in {"payload", "adaptive_payload"}
                  THEN <<r>> ELSE w.last
  <2>1. w' = [w EXCEPT !.probes = ps, !.base = b, !.last = l]
    BY <1>5
  <2>2. ps \in Seq(Probes) /\ b \in Seq(Responses) /\ l \in Seq(Responses)
    BY <1>2
  <2> HIDE DEF ps, b, l
  <2>3. /\ w' \in Works /\ w'.mode = w.mode /\ w'.probes = ps
        /\ SameCounts(w', w) /\ Shows(w', w.static, w.live, b, l, w.test)
    <3>1. w \in Works
      BY <1>2
    <3> QED BY <3>1, <2>1, <2>2 DEF Works, Counts, SameCounts, Shows
  <2>4. /\ pc' = afterProbe /\ UNCHANGED results
        /\ pc' = "gate" \/ (pc' = "verdict" /\ w.mode # "scenario")
        /\ pc' = "gate" => ps # <<>>
    <3>1. pc' = afterProbe /\ UNCHANGED results
      BY <1>5 DEF goto
    <3>2. Len(w.probes) > 1 => ps # <<>>
      BY <1>2, TailTypes DEF ps
    <3>3. Len(w.probes) \in Nat /\ Len(w.probes) # 0
      BY <1>2
    <3>4. w.mode = "scenario" => Len(w.probes) > 1
      <4>1. ~(w.mode = "scenario" /\ Len(w.probes) = 1)
        BY <1>5
      <4>2. \A n \in Nat : n # 0 /\ n # 1 => n > 1
        OBVIOUS
      <4> QED BY <3>3, <4>1, <4>2, Zenon
    <3>5. CASE w.mode # "adaptive" /\ Len(w.probes) > 1
      BY <3>1, <3>2, <3>5 DEF afterProbe
    <3>6. CASE ~(w.mode # "adaptive" /\ Len(w.probes) > 1)
      BY <3>1, <3>4, <3>6 DEF afterProbe
    <3> QED BY <3>5, <3>6
  <2>5. pc \in Attempting /\ pc' \in Attempting
    BY <1>1, <2>4 DEF Attempting, Probing
  <2>6. Counted'
    BY <1>1, <1>5, <2>3, <2>5, Recorded, AttemptCounted
  <2>7. Guarded'
    BY <1>1, <1>2, <1>3, <1>5, <2>3, <2>4, Recorded DEF Guarded, Probing
  <2>8. CASE w.mode = "scenario"
    <3>1. Ranked' /\ Typed' /\ Placed' /\ Prompt' /\ VerdictBacked' /\ ~OnFinding'
      BY <1>1, <1>5, <2>3, <2>4, <2>8, Recorded, Scanning DEF Probing
    <3>2. Shown'
      BY <1>1, <1>5, <2>4, <2>8, <3>1, Recorded DEF Shown, Investigating
    <3> QED BY <2>6, <2>7, <3>1, <3>2 DEF Inv
  <2>9. CASE w.mode # "scenario"
    <3>1. OnFinding /\ OnFinding'
      BY <2>3, <2>5, <2>9 DEF OnFinding
    <3>2. /\ Ranked' /\ Typed' /\ Placed' /\ Prompt' /\ VerdictBacked'
          /\ UNCHANGED <<finding, category, knownFalsePositive>>
      BY <1>1, <1>5, <2>3, <2>4, <3>1, Recorded, Working DEF Takes
    <3>3. ~w.live
      BY <1>1, <3>1 DEF Inv, Shown
    <3>4. Shown'
      BY <1>1, <1>5, <2>3, <2>4, <3>1, <3>2, <3>3, Recorded DEF Inv, Shown, Shows, Investigating
    <3> QED BY <2>6, <2>7, <3>2, <3>4 DEF Inv
  <2> QED BY <2>8, <2>9
<1> QED BY <1>4, <1>5 DEF Response, recorded

LEMMA TransportErrorInv == ASSUME Inv, TransportError PROVE Inv'
<1>1. pc = "inflight" /\ pc \in Probing /\ UNCHANGED layer /\ job' = job
  BY DEF TransportError, layer, Probing
<1>2. CASE w.mode = "scenario"
  BY <1>1, <1>2, AbandonInv DEF TransportError
<1>3. CASE w.mode # "scenario"
  <2> DEFINE ps == Tail(w.probes)
  <2>1. /\ w \in Works /\ w.probes \in Seq(Probes) /\ w.probes # <<>> /\ assertLiveAuthorized
        /\ w.mode \in {"fixed", "adaptive", "scenario"}
    BY <1>1, WorkTypes DEF Inv, Typed, Guarded
  <2>2. ps \in Seq(Probes) /\ (Len(w.probes) > 1 => ps # <<>>)
    BY <2>1, TailTypes
  <2>3. /\ w' = [w EXCEPT !.probes = ps] /\ UNCHANGED <<cur, guard, results>> /\ guard' = guard
        /\ pc' = (IF w.mode = "adaptive" THEN "round" ELSE afterProbe)
    BY <1>3 DEF TransportError, goto
  <2> HIDE DEF ps
  <2>4. /\ w' \in Works /\ w'.mode = w.mode /\ w'.probes = ps
        /\ SameCounts(w', w) /\ SameShown(w', w)
    BY <2>1, <2>2, <2>3, ProbesWork
  <2>5. pc' \in {"round", "verdict"} \/ (pc' = "gate" /\ ps # <<>>)
    BY <2>2, <2>3 DEF afterProbe
  <2>6. Guarded'
    <3>1. CASE pc' \in {"round", "verdict"}
      BY <1>1, <2>1, <2>3, <3>1, GuardIdle DEF Probing
    <3>2. CASE pc' = "gate" /\ ps # <<>>
      BY <1>1, <2>1, <2>3, <2>4, <3>2, GuardAtGate
    <3> QED BY <2>5, <3>1, <3>2
  <2>7. OnFinding /\ pc \in Attempting \ {"settle"} /\ pc' \in Attempting
    BY <1>1, <1>3, <2>5 DEF OnFinding, Attempting, Probing
  <2> QED BY <1>1, <1>3, <2>3, <2>4, <2>6, <2>7, Attempts
<1> QED BY <1>2, <1>3

LEMMA AbortInv == ASSUME Inv, Abort PROVE Inv'
<1>1. pc \in Probing /\ UNCHANGED layer
  BY DEF Abort, Probing
<1>2. CASE w.mode = "scenario"
  BY <1>1, <1>2, AbandonInv DEF Abort
<1>3. CASE w.mode # "scenario"
  BY <1>1, <1>3, Halting DEF Abort, goto
<1> QED BY <1>2, <1>3

LEMMA VerdictInv == ASSUME Inv, Verdict PROVE Inv'
<1>1. pc = "verdict" /\ UNCHANGED <<layer, cur, guard, results>> /\ job' = job /\ guard' = guard
  BY DEF Verdict, layer, goto
<1>2. /\ OnFinding /\ pc \in Attempting \ {"settle"} /\ assertLiveAuthorized /\ w \in Works
      /\ w.mode # "scenario"
  BY <1>1, AtFinding DEF Attempting, Inv, Guarded, Typed, OnFinding
<1>3. CASE oracle(category, w.base, w.last)
  <2>1. w' = [w EXCEPT !.live = TRUE] /\ pc' = "settle"
    BY <1>3 DEF Verdict, goto
  <2>2. /\ w' \in Works /\ w'.mode = w.mode
        /\ SameCounts(w', w) /\ Shows(w', w.static, TRUE, w.base, w.last, w.test)
    BY <1>2, <2>1, LiveWork
  <2>3. OnFinding' /\ pc' \in Attempting /\ guard' \in Guards /\ guard'.mutating <= guard'.total
    BY <1>1, <1>2, <2>1, <2>2 DEF OnFinding, Attempting, Inv, Typed, Counted
  <2>4. /\ Ranked' /\ Typed' /\ Placed' /\ Prompt' /\ VerdictBacked'
        /\ UNCHANGED <<finding, category, knownFalsePositive>>
    BY <1>1, <1>2, <2>2, <2>3, Working DEF Takes
  <2>5. Counted'
    BY <1>2, <2>2, <2>3, AttemptCounted
  <2>6. Guarded'
    BY <1>1, <2>1, GuardIdle DEF Probing
  <2>7. Shown'
    <3>1. /\ w'.static = w.static /\ w'.base = w.base /\ w'.last = w.last /\ pc' = "settle"
          /\ finding' = finding /\ category' = category /\ guard' = guard
          /\ knownFalsePositive' = knownFalsePositive
      BY <1>1, <2>1, <2>2, <2>4 DEF Shows
    <3> QED BY <1>2, <1>3, <3>1 DEF Inv, Shown, Investigating
  <2> QED BY <2>4, <2>5, <2>6, <2>7 DEF Inv
<1>4. CASE ~oracle(category, w.base, w.last)
  <2>1. w' = w /\ pc' \in {"round", "settle"}
    BY <1>4 DEF Verdict, goto
  <2>2. w' \in Works /\ w'.mode # "scenario" /\ pc' \in Attempting
    BY <1>2, <2>1 DEF Attempting
  <2>3. Guarded'
    BY <1>1, <1>2, <2>1, GuardIdle DEF Probing
  <2> QED BY <1>1, <1>2, <2>1, <2>2, <2>3, SameWork, Attempts
<1> QED BY <1>3, <1>4

LEMMA RoundInv == ASSUME Inv, Round PROVE Inv'
<1>1. pc = "round" /\ UNCHANGED <<layer, cur, guard, results>> /\ job' = job /\ guard' = guard
  BY DEF Round, layer, goto
<1>2. /\ OnFinding /\ pc \in Attempting \ {"settle"} /\ assertLiveAuthorized /\ w \in Works
      /\ w.mode # "scenario"
  BY <1>1, AtFinding DEF Attempting, Inv, Guarded, Typed, OnFinding
<1>3. CASE goto("settle") /\ UNCHANGED w
  BY <1>1, <1>2, <1>3, ToSettle DEF goto
<1>4. CASE /\ w.round # MAX_ADAPTIVE_ROUNDS
           /\ w' = [w EXCEPT !.round = @ + 1, !.calls = @ + 1] /\ goto("choose")
  <2> DEFINE n == w.round + 1
             c == w.calls + 1
  <2>1. w' = [w EXCEPT !.round = n, !.calls = c] /\ pc' = "choose"
    BY <1>2, <1>4 DEF goto, Works
  <2>2. w.round \in Nat /\ w.calls \in Nat /\ n \in Nat /\ c \in Nat
    BY <1>2, WorkTypes
  <2>3. n <= MAX_ADAPTIVE_ROUNDS /\ c <= 1 + n
    <3>1. /\ w.round <= MAX_ADAPTIVE_ROUNDS /\ w.calls <= 1 + w.round
          /\ w.round # MAX_ADAPTIVE_ROUNDS
      BY <1>2, <1>4 DEF Inv, Counted
    <3> QED BY <2>2, <3>1, Limits
  <2> HIDE DEF n, c
  <2>4. /\ w' \in Works /\ w'.mode = w.mode
        /\ Counts(w', n, w.turn, w.votes, w.voters, c) /\ SameShown(w', w)
    BY <1>2, <2>1, <2>2, RoundWork
  <2>5. OnFinding' /\ pc' \in Attempting /\ guard' \in Guards
    BY <1>1, <1>2, <2>1, <2>4 DEF OnFinding, Attempting, Inv, Typed
  <2>6. /\ Ranked' /\ Typed' /\ Placed' /\ Prompt' /\ VerdictBacked'
        /\ UNCHANGED <<finding, category, knownFalsePositive>>
    BY <1>1, <1>2, <2>4, <2>5, Working DEF Takes
  <2>7. Counted'
    <3>1. /\ w'.round = n /\ w'.calls = c /\ w'.turn = 0 /\ w'.votes = 0 /\ w'.voters = 0
          /\ guard' = guard /\ guard.mutating <= guard.total
      BY <1>1, <1>2, <2>4 DEF Inv, Counted, Counts
    <3>2. c <= MaxLlmCalls
      BY <2>2, <2>3, Limits DEF MaxLlmCalls, ABSOLUTE_MAX_INVESTIGATION_TURNS
    <3> QED BY <2>1, <2>3, <3>1, <3>2, Limits
            DEF Counted, Attempting, Probing, Investigating, ABSOLUTE_MAX_INVESTIGATION_TURNS
  <2>8. Guarded'
    BY <1>1, <1>2, <2>1, GuardIdle DEF Probing
  <2>9. Shown'
    BY <1>1, <1>2, <2>4, <2>5, <2>6, AttemptShown
  <2> QED BY <2>6, <2>7, <2>8, <2>9 DEF Inv
<1> QED BY <1>3, <1>4 DEF Round

LEMMA AdaptiveTypes == ASSUME NEW c PROVE << adaptiveProbe(c) >> \in Seq(Probes)
<1>1. "GET" \in Methods /\ "POST" \in Methods /\ "adaptive_payload" \in Roles
  BY DEF Methods, Roles
<1>2. adaptiveProbe(c) \in Probes
  BY <1>1 DEF adaptiveProbe, probe, Probes
<1> QED BY <1>2

LEMMA ChooseInv == ASSUME Inv, Choose PROVE Inv'
<1>1. pc = "choose" /\ UNCHANGED <<layer, cur, guard, results>> /\ job' = job /\ guard' = guard
  BY DEF Choose, layer, goto
<1>2. /\ OnFinding /\ pc \in Attempting \ {"settle"} /\ assertLiveAuthorized /\ w \in Works
      /\ w.mode # "scenario" /\ w.tried \in Nat
  BY <1>1, AtFinding, WorkTypes DEF Attempting, Inv, Guarded, Typed, OnFinding
<1>3. CASE goto("settle") /\ UNCHANGED w
  BY <1>1, <1>2, <1>3, ToSettle DEF goto
<1> DEFINE ps == << adaptiveProbe(category) >>
           n == w.tried + 1
<1>4. ps \in Seq(Probes) /\ ps # <<>> /\ n \in Nat
  BY <1>2, AdaptiveTypes
<1>5. ASSUME goto("gate"), w' \in Works, w'.mode = "adaptive", w'.probes = ps,
             SameCounts(w', w), SameShown(w', w)
      PROVE  Inv'
  <2>1. pc' = "gate" /\ pc' \in Attempting
    BY <1>5 DEF goto, Attempting, Probing
  <2>2. w'.probes # <<>>
    BY <1>4, <1>5
  <2>3. Guarded'
    BY <1>1, <1>2, <2>1, <2>2, GuardAtGate
  <2> QED BY <1>1, <1>2, <1>5, <2>1, <2>3, Attempts
<1>6. CASE w' = [w EXCEPT !.tried = @ + 1, !.mode = "adaptive", !.probes = ps] /\ goto("gate")
  <2>1. w' = [w EXCEPT !.tried = n, !.mode = "adaptive", !.probes = ps]
    BY <1>2, <1>6 DEF Works
  <2> HIDE DEF ps, n
  <2>2. /\ w' \in Works /\ w'.mode = "adaptive" /\ w'.probes = ps
        /\ SameCounts(w', w) /\ SameShown(w', w)
    <3>1. w \in Works /\ ps \in Seq(Probes) /\ n \in Nat
      BY <1>2, <1>4
    <3> QED BY <2>1, <3>1, ZenonT(60) DEF Works, Counts, SameCounts, Shows, SameShown
  <2> QED BY <1>5, <1>6, <2>2
<1>7. CASE w' = [w EXCEPT !.mode = "adaptive", !.probes = ps] /\ goto("gate")
  <2> HIDE DEF ps, n
  <2>2. /\ w' \in Works /\ w'.mode = "adaptive" /\ w'.probes = ps
        /\ SameCounts(w', w) /\ SameShown(w', w)
    BY <1>2, <1>4, <1>7, ModeWork
  <2> QED BY <1>5, <1>7, <2>2
<1> QED BY <1>3, <1>6, <1>7 DEF Choose

\* A step of the investigation, and one that ends it in the appendix.
LEMMA Investigates ==
  ASSUME Inv, OnFinding, pc \in Investigating, pc' \in Investigating,
         UNCHANGED <<layer, cur, results, guard>>, w' \in Works, w'.mode # "scenario",
         w'.static = w.static, w'.live = w.live, w'.last = w.last,
         Counted', pc' = "verify" => job.repoRoot /\ w'.test = "fails"
  PROVE  Inv'
<1>1. /\ guard' = guard /\ guard' \in Guards /\ job' = job /\ pc' \notin Probing
      /\ pc' \notin {"login", "browser", "page", "verdict", "round", "choose"}
  BY DEF Inv, Typed, layer, Investigating, Probing
<1>2. OnFinding'
  BY DEF OnFinding
<1>3. /\ Ranked' /\ Typed' /\ Placed' /\ Prompt' /\ VerdictBacked'
      /\ UNCHANGED <<finding, category, knownFalsePositive>>
  BY <1>1, <1>2, Working DEF Takes
<1>4. Guarded'
  BY <1>1, GuardIdle
<1>5. pc # "settle"
  BY DEF Investigating
<1>6. Shown'
  BY <1>1, <1>3, <1>5 DEF Inv, Shown
<1> QED BY <1>3, <1>4, <1>6 DEF Inv

LEMMA InvestigationFails ==
  ASSUME Inv, OnFinding, pc \in Investigating, toUnconfirmed, UNCHANGED <<layer, cur, guard>>,
         w' \in Works, w'.mode # "scenario", w'.static = w.static, w'.last = w.last, Counted'
  PROVE  Inv'
<1>1. Takes /\ w'.static # "confirmed"
  BY DEF Takes, Inv, Shown
<1>2. Ranked' /\ Typed' /\ Placed' /\ Prompt' /\ Guarded' /\ Shown'
  BY <1>1, Classifying
<1>3. VerdictBacked'
  BY <1>1, AppendixBacked
<1> QED BY <1>2, <1>3 DEF Inv

LEMMA TurnInv == ASSUME Inv, Turn PROVE Inv'
<1>1. pc = "turn" /\ UNCHANGED <<layer, cur, guard>> /\ guard' = guard /\ probable' = probable
  BY DEF Turn, layer
<1>2. /\ OnFinding /\ pc \in Investigating /\ w \in Works /\ w.mode # "scenario"
      /\ w.turn \in Nat /\ w.calls \in Nat /\ w.round \in Nat
  BY <1>1, AtFinding, WorkTypes DEF Investigating, Inv, Typed, OnFinding
<1>3. /\ w.votes = 0 /\ w.voters = 0 /\ w.round <= MAX_ADAPTIVE_ROUNDS
      /\ w.calls <= 1 + MAX_ADAPTIVE_ROUNDS + 2 * w.turn + w.voters
      /\ w.turn <= turnsCap(MaxTurns, finding.score) /\ guard.mutating <= guard.total
  BY <1>1, <1>2 DEF Inv, Counted
<1>4. /\ turnsCap(MaxTurns, finding.score) \in Nat
      /\ turnsCap(MaxTurns, finding.score) <= ABSOLUTE_MAX_INVESTIGATION_TURNS
  BY TurnsCapTypes DEF ABSOLUTE_MAX_INVESTIGATION_TURNS
<1>5. finding' = finding
  BY <1>1 DEF finding
<1>6. CASE toUnconfirmed /\ UNCHANGED w
  <2>1. Counted'
    BY <1>1, <1>6 DEF Inv, Counted, toUnconfirmed, Attempting, Probing, Investigating
  <2> QED BY <1>1, <1>2, <1>6, <2>1, InvestigationFails
<1>7. ASSUME w.turn # turnsCap(MaxTurns, finding.score), NEW k \in 1 .. 2, NEW file \in BOOLEAN,
             \/ w' = [w EXCEPT !.turn = @ + 1, !.calls = @ + k]
             \/ w' = [w EXCEPT !.turn = @ + 1, !.calls = @ + k, !.file = file],
             goto("turn") \/ goto("evidence") \/ toUnconfirmed
      PROVE  Inv'
  <2> DEFINE n == w.turn + 1
             c == w.calls + k
  <2>1. n \in Nat /\ c \in Nat /\ k \in Nat /\ k <= 2
    BY <1>2
  <2>2. n <= turnsCap(MaxTurns, finding.score) /\ n <= ABSOLUTE_MAX_INVESTIGATION_TURNS
    BY <1>2, <1>3, <1>4, <1>7 DEF ABSOLUTE_MAX_INVESTIGATION_TURNS
  <2>3. c <= 1 + MAX_ADAPTIVE_ROUNDS + 2 * n + 0
    BY <1>2, <1>3, <2>1, Limits
  <2>4. \/ w' = [w EXCEPT !.turn = n, !.calls = c]
        \/ w' = [w EXCEPT !.turn = n, !.calls = c, !.file = file]
    BY <1>2, <1>7 DEF Works
  <2> HIDE DEF n, c
  <2>5. /\ w' \in Works /\ w'.mode = w.mode
        /\ Counts(w', w.round, n, w.votes, w.voters, c) /\ SameShown(w', w)
    <3>1. w \in Works /\ file \in BOOLEAN
      BY <1>2, <1>7
    <3> QED BY <2>1, <2>4, <3>1, ZenonT(60) DEF Works, Counts, Shows, SameShown
  <2>6. c <= MaxLlmCalls
    BY <2>1, <2>2, <2>3, BudgetCovers, Limits
  <2>7. pc' \in {"turn", "evidence", "classified"}
    BY <1>7 DEF goto, toUnconfirmed
  <2>8. Counted'
    <3>1. /\ w'.votes = 0 /\ w'.voters = 0 /\ w'.round = w.round /\ w'.turn = n /\ w'.calls = c
          /\ w'.round <= MAX_ADAPTIVE_ROUNDS
          /\ guard' = guard /\ guard.mutating <= guard.total /\ finding' = finding
      BY <1>1, <1>3, <1>5, <2>5 DEF Counts
    <3> QED BY <2>2, <2>3, <2>6, <2>7, <3>1, Limits
            DEF Counted, Attempting, Probing, Investigating
  <2>9. /\ w'.static = w.static /\ w'.live = w.live /\ w'.last = w.last
        /\ w'.mode # "scenario" /\ w' \in Works
    BY <1>2, <2>5 DEF SameShown, Shows
  <2>10. CASE toUnconfirmed
    BY <1>1, <1>2, <2>8, <2>9, <2>10, InvestigationFails
  <2>11. CASE goto("turn") \/ goto("evidence")
    <3>1. pc' \in Investigating /\ pc' # "verify" /\ UNCHANGED results
      BY <2>11 DEF goto, Investigating
    <3> QED BY <1>1, <1>2, <2>8, <2>9, <3>1, Investigates
  <2> QED BY <1>7, <2>10, <2>11
<1>8. CASE w.turn # turnsCap(MaxTurns, finding.score)
  <2>1. \E k \in 1 .. 2 :
            \/ w' = [w EXCEPT !.turn = @ + 1, !.calls = @ + k] /\ goto("turn")
            \/ \E file \in BOOLEAN :
                 /\ w' = [w EXCEPT !.turn = @ + 1, !.calls = @ + k, !.file = file]
                 /\ goto("evidence")
            \/ w' = [w EXCEPT !.turn = @ + 1, !.calls = @ + k] /\ toUnconfirmed
    BY <1>8 DEF Turn
  <2> QED BY <1>7, <1>8, <2>1
<1> QED BY <1>6, <1>8 DEF Turn

LEMMA EvidenceInv == ASSUME Inv, Evidence PROVE Inv'
<1>1. pc = "evidence" /\ UNCHANGED <<layer, cur, guard>> /\ guard' = guard
  BY DEF Evidence
<1>2. /\ OnFinding /\ pc \in Investigating /\ w \in Works /\ w.mode # "scenario"
  BY <1>1, AtFinding DEF Investigating, Inv, Typed, OnFinding
<1>3. PICK t \in {"fails", "passes", "not run"} :
        /\ w' = [w EXCEPT !.test = t]
        /\ IF job.repoRoot /\ w.file /\ t = "fails" THEN goto("verify") ELSE toUnconfirmed
  BY DEF Evidence
<1>4. /\ w' \in Works /\ w'.mode = w.mode
      /\ SameCounts(w', w) /\ Shows(w', w.static, w.live, w.base, w.last, t)
  BY <1>2, <1>3, TestWork
<1>5. /\ w'.static = w.static /\ w'.live = w.live /\ w'.last = w.last /\ w'.test = t
      /\ w'.mode # "scenario"
  BY <1>2, <1>4 DEF Shows
<1>6. pc' \in {"verify", "classified"}
  BY <1>3 DEF goto, toUnconfirmed
<1>7. Counted'
  <2>1. /\ w'.votes = w.votes /\ w'.voters = w.voters /\ w'.round = w.round
        /\ w'.turn = w.turn /\ w'.calls = w.calls
    BY <1>4 DEF SameCounts, Counts
  <2> QED BY <1>1, <1>6, <2>1, Limits DEF Inv, Counted, Attempting, Probing, Investigating
<1>8. CASE toUnconfirmed
  BY <1>1, <1>2, <1>4, <1>5, <1>7, <1>8, InvestigationFails
<1>9. CASE job.repoRoot /\ t = "fails" /\ goto("verify")
  <2>1. pc' \in Investigating /\ UNCHANGED results
    BY <1>9 DEF goto, Investigating
  <2> QED BY <1>1, <1>2, <1>4, <1>5, <1>7, <1>9, <2>1, Investigates
<1> QED BY <1>3, <1>8, <1>9

\* The votes required are a strict majority.
LEMMA MajorityRequired ==
  ASSUME NEW n \in Nat, NEW votes \in Nat, votes >= requiredVotes(n)
  PROVE  2 * votes > n
  BY DEF requiredVotes

LEMMA VerifyInv == ASSUME Inv, Verify PROVE Inv'
<1>1. pc = "verify" /\ UNCHANGED <<layer, cur, guard>> /\ guard' = guard
  BY DEF Verify
<1>2. /\ OnFinding /\ pc \in Investigating /\ w \in Works /\ w.mode # "scenario"
      /\ w.votes \in Nat /\ w.voters \in Nat /\ w.calls \in Nat /\ w.turn \in Nat
  BY <1>1, AtFinding, WorkTypes DEF Investigating, Inv, Typed, OnFinding
<1>3. /\ w.votes <= w.voters /\ w.voters < Verifiers /\ w.round <= MAX_ADAPTIVE_ROUNDS
      /\ w.turn <= ABSOLUTE_MAX_INVESTIGATION_TURNS /\ guard.mutating <= guard.total
      /\ w.calls <= 1 + MAX_ADAPTIVE_ROUNDS + 2 * w.turn + w.voters
  BY <1>1, <1>2 DEF Inv, Counted
<1>4. job.repoRoot /\ w.test = "fails"
  BY <1>1 DEF Inv, Shown
<1>5. PICK vote \in 0 .. 1 :
        /\ w' = [w EXCEPT !.voters = @ + 1, !.votes = @ + vote, !.calls = @ + 1]
        /\ IF w.voters + 1 < Verifiers THEN goto("verify")
           ELSE IF w.votes + vote >= requiredVotes(Verifiers) THEN confirm("investigation")
           ELSE toUnconfirmed
  BY DEF Verify
<1> DEFINE n == w.voters + 1
           v == w.votes + vote
           c == w.calls + 1
<1>6. n \in Nat /\ v \in Nat /\ c \in Nat /\ v <= n /\ n <= Verifiers
  BY <1>2, <1>3, <1>5, Limits
<1>7. c <= 1 + MAX_ADAPTIVE_ROUNDS + 2 * w.turn + n
  BY <1>2, <1>3, Limits
<1>8. w' = [w EXCEPT !.voters = n, !.votes = v, !.calls = c]
  BY <1>2, <1>5 DEF Works
<1>9. \/ n < Verifiers /\ goto("verify")
      \/ n = Verifiers /\ v >= requiredVotes(Verifiers) /\ confirm("investigation")
      \/ toUnconfirmed
  <2>1. n < Verifiers \/ n = Verifiers
    BY <1>6, Limits
  <2>2. n = Verifiers => ~(n < Verifiers)
    BY <1>6, Limits
  <2>3. IF n < Verifiers THEN goto("verify")
        ELSE IF v >= requiredVotes(Verifiers) THEN confirm("investigation")
        ELSE toUnconfirmed
    BY <1>5
  <2> HIDE DEF n, v
  <2> QED BY <2>1, <2>2, <2>3
<1> HIDE DEF n, v, c
<1>10. /\ w' \in Works /\ w'.mode = w.mode
       /\ Counts(w', w.round, w.turn, v, n, c) /\ SameShown(w', w)
  <2>1. w \in Works
    BY <1>2
  <2> QED BY <1>6, <1>8, <2>1 DEF Works, Counts, Shows, SameShown
<1>11. /\ w'.static = w.static /\ w'.live = w.live /\ w'.last = w.last /\ w'.test = w.test
       /\ w'.mode # "scenario" /\ w'.voters = n /\ w'.votes = v
  BY <1>2, <1>10 DEF SameShown, Shows, Counts
<1>12. c <= MaxLlmCalls
  BY <1>2, <1>3, <1>6, <1>7, BudgetCovers
<1>13. pc' = "classified" \/ (pc' = "verify" /\ n < Verifiers)
  BY <1>9 DEF goto, confirm, toUnconfirmed
<1>14. Counted'
  <2>1. /\ w'.votes = v /\ w'.voters = n /\ w'.round = w.round /\ w'.turn = w.turn
        /\ w'.calls = c /\ guard' = guard
    BY <1>1, <1>10 DEF Counts
  <2> QED BY <1>3, <1>6, <1>7, <1>12, <1>13, <2>1
          DEF Counted, Attempting, Probing, Investigating
<1>15. CASE n < Verifiers /\ goto("verify")
  <2>1. pc' \in Investigating /\ UNCHANGED results
    BY <1>15 DEF goto, Investigating
  <2> QED BY <1>1, <1>2, <1>4, <1>10, <1>11, <1>14, <2>1, Investigates
<1>16. CASE n = Verifiers /\ v >= requiredVotes(Verifiers) /\ confirm("investigation")
  <2>1. 2 * v > Verifiers
    BY <1>6, <1>16, MajorityRequired, Limits
  <2>2. Backs("investigation")
    BY <1>4, <1>11, <1>16, <2>1 DEF Backs
  <2>3. VerdictBacked'
    BY <1>1, <1>2, <1>16, <2>2, ConfirmationBacked DEF Vias
  <2>4. Ranked' /\ Typed' /\ Placed' /\ Prompt' /\ Guarded' /\ Shown'
    BY <1>1, <1>2, <1>10, <1>11, <1>16, Classifying DEF Vias, Takes
  <2> QED BY <1>14, <2>3, <2>4 DEF Inv
<1>17. CASE toUnconfirmed
  BY <1>1, <1>2, <1>10, <1>11, <1>14, <1>17, InvestigationFails
<1> QED BY <1>9, <1>15, <1>16, <1>17

\* A step outside of the work on a finding and of a scenario, that leaves the
\* results as they are.
LEMMA Between ==
  ASSUME Inv, UNCHANGED <<layer, results>>, pc' \in {"purple", "done"}, w' = NoWork,
         cur' \in 1 .. Len(confirmed) + 1, guard' = guard, reached = Len(probable),
         pc # "halted"
  PROVE  Inv'
<1>1. /\ probable' = probable /\ job' = job /\ killed' = killed /\ crashes' = crashes
      /\ atKill' = atKill /\ confirmed' = confirmed /\ unconfirmed' = unconfirmed
  BY DEF layer, results
<1>2. /\ doneIds = {probable[i].id : i \in 1 .. Len(probable)} /\ classified = Len(probable)
      /\ Len(probable) \in Nat
  BY OutputCorrelated DEF Inv, Placed, Ranked, Correlated
<1>3. cur' \in 1 .. Len(probable') + 1 /\ cur' <= Len(confirmed) + 1
  BY <1>1, <1>2, ResultTypes DEF Inv, classified
<1>4. Ranked' /\ Typed'
  BY <1>1, <1>3, NoWorkTypes DEF Inv, Ranked, Typed, findingIds, Labels, Ended
<1>5. /\ doneIds' = doneIds /\ classified' = classified /\ reached' = Len(probable)
      /\ ~OnFinding' /\ w'.mode # "scenario"
  BY <1>1, NoWorkTypes
     DEF doneIds, classified, reached, OnFinding, Attempting, Probing, Investigating
<1>6. {probable[i].id : i \in 1 .. reached}' = {probable[i].id : i \in 1 .. Len(probable)}
  BY <1>1, <1>5
<1>7. Placed' /\ Prompt'
  BY <1>1, <1>2, <1>3, <1>5, <1>6 DEF Inv, Placed, Prompt
<1>8. Counted'
  BY NoWorkTypes, Limits DEF Inv, Counted, Counts, Attempting, Probing, Investigating,
     MaxLlmCalls, ABSOLUTE_MAX_INVESTIGATION_TURNS
<1>9. Guarded'
  BY <1>1, GuardIdle DEF Probing
<1>10. Shown' /\ VerdictBacked'
  BY <1>5, NoWorkTypes DEF Shown, Shows, VerdictBacked, StaticFloor, ConfirmedBacked,
     Investigating
<1> QED BY <1>4, <1>7, <1>8, <1>9, <1>10 DEF Inv

LEMMA OutputInv == ASSUME Inv, Output PROVE Inv'
<1>1. /\ pc = "finding" /\ cur > Len(probable) /\ pc' \in {"purple", "done"} /\ cur' = 1
      /\ UNCHANGED <<layer, results, guard, w>> /\ guard' = guard
  BY DEF Output, goto
<1>2. w = NoWork /\ w' = NoWork /\ w.mode = "fixed"
  BY <1>1, NoWorkTypes DEF Inv, Counted
<1>3. Len(probable) \in Nat /\ cur \in 1 .. Len(probable) + 1
  BY OutputCorrelated DEF Inv, Ranked, Correlated, Typed
<1>4. reached = cur - 1
  BY <1>1, <1>2 DEF reached
<1>5. reached = Len(probable) /\ cur' \in 1 .. Len(confirmed) + 1
  BY <1>1, <1>3, <1>4, ResultTypes DEF Inv
<1> QED BY <1>1, <1>2, <1>5, Between

LEMMA DoneInv == ASSUME Inv, Done PROVE Inv'
<1>1. pc = "purple" /\ pc' = "done" /\ UNCHANGED <<layer, cur, results, guard, w>>
  BY DEF Done, goto
<1>2. w' = NoWork /\ reached = Len(probable) /\ guard' = guard /\ cur' = cur
  BY <1>1 DEF Inv, Counted, reached
<1>3. cur' \in 1 .. Len(confirmed) + 1
  BY <1>1, <1>2, ResultTypes DEF Inv, Placed, Typed
<1> QED BY <1>1, <1>2, <1>3, Between

LEMMA ScenarioTypes ==
  ASSUME Inv, NEW i \in 1 .. Len(confirmed)
  PROVE  confirmed[i][1][1] \in Categories
<1>1. confirmed \in Seq(findingIds \X Vias)
  BY DEF Inv, Typed
<1>2. confirmed[i] \in findingIds \X Vias
  BY <1>1, ElementOfSeq
<1>3. confirmed[i][1] \in findingIds
  BY <1>2
<1>4. Correlated(probable)
  BY OutputCorrelated DEF Inv, Ranked
<1> QED BY <1>3, <1>4 DEF findingIds, Correlated

\* The requests a scenario's steps are sent as.
Requests(steps) == [i \in DOMAIN steps |-> probe(steps[i], "step")]

LEMMA StepsTypes ==
  ASSUME NEW steps \in Seq(STRING), steps # <<>>
  PROVE  Requests(steps) \in Seq(Probes) /\ Requests(steps) # <<>>
<1> DEFINE ps == [i \in DOMAIN steps |-> probe(steps[i], "step")]
<1>1. Len(steps) \in Nat /\ DOMAIN steps = 1 .. Len(steps) /\ Len(steps) # 0
  OBVIOUS
<1>2. \A i \in 1 .. Len(steps) : probe(steps[i], "step") \in Probes
  <2>1. "step" \in Roles /\ \A s \in STRING : s \in Methods
    BY DEF Roles, Methods
  <2>2. \A i \in 1 .. Len(steps) : steps[i] \in STRING
    BY ElementOfSeq
  <2> QED BY <2>1, <2>2 DEF probe, Probes
<1>3. ps \in [1 .. Len(steps) -> Probes]
  BY <1>1, <1>2
<1>4. ps \in Seq(Probes)
  BY <1>1, <1>3
<1>5. DOMAIN ps = 1 .. Len(steps)
  BY <1>1
<1>6. 1 \in DOMAIN ps
  BY <1>1, <1>5
<1>7. ps # <<>>
  BY <1>6
<1> QED BY <1>4, <1>7 DEF Requests

LEMMA NextScenarioInv == ASSUME Inv, NextScenario PROVE Inv'
<1>1. pc = "purple" /\ cur <= Len(confirmed) /\ UNCHANGED <<layer, results>> /\ cur \in Nat
  BY DEF NextScenario, goto, Inv, Typed
<1>2. /\ w = NoWork /\ reached = Len(probable) /\ cur \in 1 .. Len(confirmed)
      /\ Len(confirmed) \in Nat
  BY <1>1, ResultTypes DEF Inv, Counted, reached, Typed
<1>3. confirmed[cur][1][1] \in Categories
  BY <1>2, ScenarioTypes
<1> DEFINE s == Scenario[confirmed[cur][1][1]]
           ps == [i \in DOMAIN s.steps |-> probe(s.steps[i], "step")]
<1>4. s # NoScenario => s.steps \in Seq(STRING)
  BY <1>3, ConfirmationAssumption
<1>5. (s # NoScenario /\ s.steps # <<>>) => ps \in Seq(Probes) /\ ps # <<>>
  <2> HIDE DEF s
  <2>1. ps = Requests(s.steps)
    BY Zenon DEF Requests
  <2> HIDE DEF ps
  <2> QED BY <1>4, <2>1, StepsTypes
<1>6. CASE /\ s # NoScenario /\ assertLiveAuthorized /\ s.steps # <<>> /\ guard' = NewGuard
           /\ w' = [NoWork EXCEPT !.mode = "scenario", !.probes = ps] /\ goto("gate")
           /\ UNCHANGED cur
  <2> HIDE DEF ps, s
  <2>1. ps \in Seq(Probes) /\ ps # <<>>
    BY <1>5, <1>6, Zenon
  <2>2. /\ w' \in Works /\ w'.mode = "scenario" /\ w'.probes = ps
        /\ SameCounts(w', NoWork) /\ SameShown(w', NoWork)
    BY <1>6, <2>1, ModeWork, NoWorkTypes
  <2>3. /\ Counts(w', 0, 0, 0, 0, 0) /\ Shows(w', "none", FALSE, <<>>, <<>>, "none")
    BY <2>2, NoWorkTypes DEF SameCounts, SameShown, Counts, Shows
  <2>4. /\ probable' = probable /\ job' = job /\ killed' = killed /\ crashes' = crashes
        /\ atKill' = atKill /\ cur' = cur /\ confirmed' = confirmed
        /\ unconfirmed' = unconfirmed /\ pc' = "gate"
    BY <1>1, <1>6 DEF layer, results, goto
  <2>5. /\ guard' \in Guards /\ guard'.total = 0 /\ guard'.mutating = 0 /\ guard'.sendTimes = {}
    BY <1>6, GuardTypes
  <2>6. Ranked' /\ Typed'
    BY <2>2, <2>4, <2>5 DEF Inv, Ranked, Typed, findingIds, Labels
  <2>7. Counted'
    BY <2>3, <2>4, <2>5, Limits DEF Counted, Counts, Attempting, Probing, Investigating,
       MaxLlmCalls, ABSOLUTE_MAX_INVESTIGATION_TURNS
  <2>8. Guarded'
    <3>1. assertLiveAuthorized'
      BY <1>6, <2>4 DEF assertLiveAuthorized
    <3>2. w'.probes # <<>> /\ IsFiniteSet(guard'.sendTimes) /\ Cardinality(guard'.sendTimes) = 0
      BY <2>1, <2>2, <2>5, FS_EmptySet
    <3> QED BY <2>4, <2>5, <3>1, <3>2, Limits DEF Guarded, Probing
  <2>9. /\ doneIds' = doneIds /\ classified' = classified /\ reached' = Len(probable)
        /\ ~OnFinding'
    BY <2>2, <2>4 DEF doneIds, classified, reached, OnFinding
  <2>10. {probable[i].id : i \in 1 .. reached}' = {probable[i].id : i \in 1 .. Len(probable)}
    BY <2>4, <2>9
  <2>11. /\ doneIds = {probable[i].id : i \in 1 .. Len(probable)} /\ classified = Len(probable)
         /\ classified <= Len(probable)
    BY <1>1, <1>2 DEF Inv, Placed
  <2>12. Placed' /\ Prompt'
    BY <1>1, <2>4, <2>9, <2>10, <2>11 DEF Inv, Placed, Prompt, Probing
  <2>13. Shown' /\ VerdictBacked'
    BY <2>3, <2>4, <2>9 DEF Shown, Shows, VerdictBacked, StaticFloor, ConfirmedBacked,
       Investigating
  <2> QED BY <2>6, <2>7, <2>8, <2>12, <2>13 DEF Inv
<1>7. CASE cur' = cur + 1 /\ goto("purple") /\ UNCHANGED <<w, guard>>
  <2>1. /\ pc' = "purple" /\ w' = NoWork /\ guard' = guard
        /\ cur' \in 1 .. Len(confirmed) + 1
    BY <1>2, <1>7 DEF goto
  <2> QED BY <1>1, <1>2, <2>1, Between
<1> QED BY <1>6, <1>7 DEF NextScenario

LEMMA KillInv == ASSUME Inv, Kill PROVE Inv'
<1>1. /\ probable' = probable /\ job' = job /\ crashes' = crashes /\ pc' = pc /\ cur' = cur
      /\ confirmed' = confirmed /\ unconfirmed' = unconfirmed /\ guard' = guard /\ w' = w
      /\ killed' = TRUE /\ atKill' = classified
  BY DEF Kill, results
<1>2. /\ classified \in Nat /\ classified <= Len(probable) /\ Len(probable) \in Nat
  BY ResultTypes, OutputCorrelated DEF Inv, Placed, Ranked, Correlated
<1>3. Ranked' /\ Typed'
  <2>1. atKill' \in 0 .. Len(probable')
    BY <1>1, <1>2
  <2> QED BY <1>1, <2>1 DEF Inv, Ranked, Typed, findingIds
<1>4. finding' = finding /\ category' = category /\ knownFalsePositive' = knownFalsePositive
      /\ OnFinding' = OnFinding
  BY <1>1 DEF finding, category, knownFalsePositive, OnFinding
<1>5. Counted'
  BY <1>1, <1>4 DEF Inv, Counted
<1>6. Guarded'
  BY <1>1 DEF Inv, Guarded, assertLiveAuthorized, assertProbeAllowed, throttled
<1>7. doneIds' = doneIds /\ classified' = classified /\ reached' = reached
  BY <1>1 DEF doneIds, classified, reached
<1>8. {probable[i].id : i \in 1 .. reached}' = {probable[i].id : i \in 1 .. reached}
  BY <1>1, <1>7
<1>9. Placed'
  BY <1>1, <1>4, <1>7, <1>8 DEF Inv, Placed
<1>10. Prompt'
  BY <1>1, <1>2, <1>7 DEF Prompt
<1>11. Shown'
  BY <1>1, <1>4 DEF Inv, Shown
<1>12. VerdictBacked'
  BY <1>1, <1>4 DEF Inv, VerdictBacked, StaticFloor, ConfirmedBacked
<1> QED BY <1>3, <1>5, <1>6, <1>9, <1>10, <1>11, <1>12 DEF Inv

\* A layer that holds nothing: before its first step, and after a crash.
Fresh ==
  /\ Ranked /\ job \in Jobs /\ killed \in BOOLEAN /\ crashes \in 0 .. MaxCrashes
  /\ pc \in {"start", "halted"} /\ cur = 1 /\ confirmed = <<>> /\ unconfirmed = <<>>
  /\ guard = NoGuard /\ w = NoWork /\ atKill \in 0 .. Len(probable)

LEMMA FreshInv == ASSUME Fresh PROVE Inv
<1>1. Ranked /\ Len(probable) \in Nat
  BY OutputCorrelated DEF Fresh, Ranked, Correlated
<1>2. confirmed \in Seq(findingIds \X Vias) /\ unconfirmed \in Seq(findingIds)
  BY DEF Fresh
<1>3. Typed
  BY <1>1, <1>2, NoWorkTypes, GuardTypes DEF Fresh, Typed, Labels, Ended
<1>4. /\ Counts(w, 0, 0, 0, 0, 0) /\ Shows(w, "none", FALSE, <<>>, <<>>, "none")
      /\ w.mode = "fixed" /\ w = NoWork
      /\ guard.on = FALSE /\ guard.total = 0 /\ guard.mutating = 0 /\ guard.sendTimes = {}
      /\ pc \in {"start", "halted"} /\ cur = 1
  BY NoWorkTypes, GuardTypes DEF Fresh
<1>5. ~OnFinding /\ pc \notin Attempting /\ pc \notin Investigating /\ pc \notin Probing
  BY <1>4 DEF OnFinding, Attempting, Probing, Investigating
<1>6. Counted
  BY <1>4, <1>5, Limits DEF Counted, Counts, MaxLlmCalls, ABSOLUTE_MAX_INVESTIGATION_TURNS
<1>7. Guarded
  BY <1>4, <1>5, FS_EmptySet, Limits DEF Guarded
<1>8. classified = 0 /\ doneIds = {} /\ reached = 0
  <2>1. classified = 0
    BY DEF Fresh, classified
  <2>2. doneIds = {}
    BY DEF Fresh, doneIds, Range
  <2> QED BY <1>4, <2>1, <2>2 DEF reached
<1>9. {probable[i].id : i \in 1 .. reached} = {}
  BY <1>8
<1>10. Placed
  BY <1>1, <1>4, <1>5, <1>8, <1>9 DEF Placed
<1>11. Prompt
  <2>1. atKill \in Nat
    BY <1>1 DEF Fresh
  <2> QED BY <1>5, <1>8, <2>1 DEF Prompt
<1>12. Shown /\ VerdictBacked
  BY <1>4, <1>5 DEF Shown, Shows, VerdictBacked, StaticFloor, ConfirmedBacked
<1> QED BY <1>1, <1>3, <1>6, <1>7, <1>10, <1>11, <1>12 DEF Inv

LEMMA InitInv == ASSUME Init PROVE Inv
<1>1. Len(probable) \in Nat
  BY OutputCorrelated DEF Init, Correlated
<1>2. crashes \in 0 .. MaxCrashes /\ atKill \in 0 .. Len(probable)
  BY <1>1, Limits DEF Init
<1>3. Ranked /\ job \in Jobs /\ killed \in BOOLEAN /\ pc \in {"start", "halted"}
  BY DEF Init, Ranked
<1>4. /\ cur = 1 /\ confirmed = <<>> /\ unconfirmed = <<>> /\ guard = NoGuard /\ w = NoWork
  BY DEF Init
<1>5. Fresh
  BY <1>2, <1>3, <1>4 DEF Fresh
<1> QED BY <1>5, FreshInv

LEMMA CrashInv == ASSUME Inv, Crash PROVE Inv'
<1>1. /\ probable' = probable /\ job' = job /\ killed' = killed /\ atKill' = atKill
      /\ crashes' = crashes + 1 /\ crashes < MaxCrashes /\ pc' \in {"start", "halted"}
      /\ cur' = 1 /\ confirmed' = <<>> /\ unconfirmed' = <<>> /\ guard' = NoGuard /\ w' = NoWork
  BY DEF Crash
<1>2. crashes' \in 0 .. MaxCrashes
  BY <1>1, Limits DEF Inv, Typed
<1>3. Fresh'
  BY <1>1, <1>2 DEF Inv, Typed, Ranked, Fresh
<1>4. Fresh' => Inv'
  BY FreshInv, PTL
<1> QED BY <1>3, <1>4

\* Time only takes sends out of the window.
LEMMA AgedTimes ==
  ASSUME NEW S \in SUBSET (Nat \X (0 .. Window - 1)), IsFiniteSet(S)
  PROVE  LET T == {<<s[1], s[2] + 1>> : s \in {x \in S : x[2] + 1 < Window}}
         IN /\ T \in SUBSET (Nat \X (0 .. Window - 1)) /\ IsFiniteSet(T)
            /\ Cardinality(T) <= Cardinality(S)
<1> DEFINE R == {x \in S : x[2] + 1 < Window}
           T == {<<s[1], s[2] + 1>> : s \in R}
           f == [s \in R |-> <<s[1], s[2] + 1>>]
<1>1. \A s \in R : <<s[1], s[2] + 1>> \in Nat \X (0 .. Window - 1)
  BY Limits
<1>2. IsFiniteSet(R) /\ Cardinality(R) <= Cardinality(S)
  BY FS_Subset
<1>3. f \in Surjection(R, T)
  BY DEF Surjection
<1>4. IsFiniteSet(T) /\ Cardinality(T) <= Cardinality(R)
  <2> HIDE DEF f, R, T
  <2> QED BY <1>2, <1>3, FS_Surjection
<1>5. Cardinality(R) \in Nat /\ Cardinality(S) \in Nat /\ Cardinality(T) \in Nat
  BY <1>2, <1>4, FS_CardinalityType
<1>6. Cardinality(T) <= Cardinality(S)
  <2> HIDE DEF R, T
  <2> QED BY <1>2, <1>4, <1>5
<1> QED BY <1>1, <1>4, <1>6

LEMMA TickInv == ASSUME Inv, Tick PROVE Inv'
<1> DEFINE T == {<<s[1], s[2] + 1>> : s \in {x \in guard.sendTimes : x[2] + 1 < Window}}
<1>1. /\ guard \in Guards /\ guard.sendTimes \in SUBSET (Nat \X (0 .. Window - 1))
      /\ IsFiniteSet(guard.sendTimes)
  BY DEF Inv, Typed, Guards, Guarded
<1>2. /\ T \in SUBSET (Nat \X (0 .. Window - 1)) /\ IsFiniteSet(T)
      /\ Cardinality(T) <= Cardinality(guard.sendTimes)
  BY <1>1, AgedTimes
<1>3. guard' = [guard EXCEPT !.sendTimes = T]
  BY <1>1 DEF Tick, Guards
<1> HIDE DEF T
<1>4. /\ guard' \in Guards /\ guard'.on = guard.on /\ guard'.total = guard.total
      /\ guard'.mutating = guard.mutating /\ guard'.sendTimes = T
  BY <1>1, <1>2, <1>3 DEF Guards
<1>5. /\ probable' = probable /\ job' = job /\ killed' = killed /\ crashes' = crashes
      /\ atKill' = atKill /\ cur' = cur /\ confirmed' = confirmed /\ unconfirmed' = unconfirmed
      /\ pc' = pc /\ w' = w
  BY DEF Tick, layer, results
<1>6. Ranked' /\ Typed'
  BY <1>4, <1>5 DEF Inv, Ranked, Typed, findingIds
<1>7. finding' = finding /\ category' = category /\ knownFalsePositive' = knownFalsePositive
      /\ OnFinding' = OnFinding
  BY <1>5 DEF finding, category, knownFalsePositive, OnFinding
<1>8. Counted'
  BY <1>4, <1>5, <1>7 DEF Inv, Counted
<1>9. Guarded'
  <2>1. /\ Cardinality(T) \in Nat /\ Cardinality(guard.sendTimes) \in Nat
    BY <1>1, <1>2, FS_CardinalityType
  <2>2. Cardinality(guard.sendTimes) <= RPS => Cardinality(T) <= RPS
    BY <1>2, <2>1, Limits
  <2>3. ~throttled => ~throttled'
    BY <1>2, <1>4, <2>1, Limits DEF throttled
  <2>4. assertLiveAuthorized' = assertLiveAuthorized
    BY <1>5 DEF assertLiveAuthorized
  <2>5. assertProbeAllowed(Head(w.probes))' = assertProbeAllowed(Head(w.probes))
    BY <1>4, <1>5 DEF assertProbeAllowed
  <2> QED BY <1>2, <1>4, <1>5, <2>2, <2>3, <2>4, <2>5 DEF Inv, Guarded
<1>10. doneIds' = doneIds /\ classified' = classified /\ reached' = reached
  BY <1>5 DEF doneIds, classified, reached
<1>11. {probable[i].id : i \in 1 .. reached}' = {probable[i].id : i \in 1 .. reached}
  BY <1>5, <1>10
<1>12. Placed' /\ Prompt'
  BY <1>5, <1>7, <1>10, <1>11 DEF Inv, Placed, Prompt
<1>13. Shown'
  BY <1>4, <1>5, <1>7 DEF Inv, Shown
<1>14. VerdictBacked'
  BY <1>4, <1>5, <1>7 DEF Inv, VerdictBacked, StaticFloor, ConfirmedBacked
<1> QED BY <1>6, <1>8, <1>9, <1>12, <1>13, <1>14 DEF Inv

LEMMA StutterInv == ASSUME Inv, UNCHANGED vars PROVE Inv'
<1>1. /\ probable' = probable /\ job' = job /\ killed' = killed /\ crashes' = crashes
      /\ atKill' = atKill /\ cur' = cur /\ confirmed' = confirmed /\ unconfirmed' = unconfirmed
      /\ pc' = pc /\ w' = w /\ guard' = guard
  BY DEF vars
<1>2. finding' = finding /\ category' = category /\ knownFalsePositive' = knownFalsePositive
      /\ OnFinding' = OnFinding /\ findingIds' = findingIds
  BY <1>1 DEF finding, category, knownFalsePositive, OnFinding, findingIds
<1>3. doneIds' = doneIds /\ classified' = classified /\ reached' = reached
  BY <1>1 DEF doneIds, classified, reached
<1>4. Ranked' /\ Typed' /\ Counted'
  BY <1>1, <1>2 DEF Inv, Ranked, Typed, Counted
<1>5. Guarded'
  BY <1>1 DEF Inv, Guarded, assertLiveAuthorized, assertProbeAllowed, throttled
<1>6. {probable[i].id : i \in 1 .. reached}' = {probable[i].id : i \in 1 .. reached}
  BY <1>1, <1>3
<1>7. Placed' /\ Prompt'
  BY <1>1, <1>2, <1>3, <1>6 DEF Inv, Placed, Prompt
<1>8. Shown' /\ VerdictBacked'
  BY <1>1, <1>2 DEF Inv, Shown, VerdictBacked, StaticFloor, ConfirmedBacked
<1> QED BY <1>4, <1>5, <1>7, <1>8 DEF Inv

-----------------------------------------------------------------------------
(* Theorems *)

\* The invariant holds at every await of the layer, whatever the environment
\* answers, and across kills and crashes (runners.ts, confirm.ts, guard.ts).
THEOREM InvHolds == Spec => []Inv
<1>1. Init => Inv
  BY InitInv
<1>2. Inv /\ [Next]_vars => Inv'
  <2> SUFFICES ASSUME Inv, [Next]_vars PROVE Inv'
    OBVIOUS
  <2>1. CASE Step
    BY <2>1, StartInv, TakeFindingInv, NextFindingInv, StaticInv, SettleInv, LiveInv, LoginInv, BrowseInv, LoggedInInv,
       GateInv, WakeInv, KilledAtGateInv, KilledAtCheckInv, ResponseInv, TransportErrorInv,
       AbortInv, VerdictInv, RoundInv, ChooseInv, TurnInv, EvidenceInv, VerifyInv, OutputInv,
       NextScenarioInv, DoneInv DEF Step
  <2>2. CASE Kill
    BY <2>2, KillInv
  <2>3. CASE Crash
    BY <2>3, CrashInv
  <2>4. CASE Tick
    BY <2>4, TickInv
  <2>5. CASE UNCHANGED vars
    BY <2>5, StutterInv
  <2> QED BY <2>1, <2>2, <2>3, <2>4, <2>5 DEF Next
<1> QED BY <1>1, <1>2, PTL DEF Spec

\* For any number of findings, rounds, turns, verifiers and crashes the state of
\* the layer keeps its types: above all, the model calls one finding costs stay
\* within MaxLlmCalls, with the budget left for the turns when the rounds are
\* used up and for the votes when the turns are (runAdaptiveLoop,
\* runInvestigation, runAdversarialVerification).
THEOREM TypeCorrect == Spec => []TypeOK
<1>1. Inv => TypeOK
  <2> SUFFICES ASSUME Inv PROVE TypeOK
    OBVIOUS
  <2>1. /\ guard.on \in BOOLEAN /\ guard.total \in Nat /\ guard.mutating \in Nat
        /\ guard.sendTimes \subseteq Nat \X (0 .. Window - 1)
    BY DEF Inv, Typed, Guards
  <2>2. guard.mutating \in 0 .. guard.total
    BY <2>1 DEF Inv, Counted
  <2>3. /\ w.static \in {"none", "unproven", "vetoed", "confirmed"}
        /\ w.mode \in {"fixed", "adaptive", "scenario"}
        /\ w.round \in Nat /\ w.turn \in Nat /\ w.votes \in Nat /\ w.voters \in Nat
        /\ w.calls \in Nat
    BY WorkTypes DEF Inv, Typed
  <2>4. /\ w.votes <= w.voters /\ w.voters <= Verifiers /\ w.round <= MAX_ADAPTIVE_ROUNDS
        /\ w.turn <= ABSOLUTE_MAX_INVESTIGATION_TURNS /\ w.calls <= MaxLlmCalls
    BY DEF Inv, Counted
  <2>5. MaxLlmCalls \in Nat
    BY Limits DEF MaxLlmCalls, ABSOLUTE_MAX_INVESTIGATION_TURNS
  <2>6. /\ w.votes \in 0 .. w.voters /\ w.voters \in 0 .. Verifiers
        /\ w.round \in 0 .. MAX_ADAPTIVE_ROUNDS
        /\ w.turn \in 0 .. ABSOLUTE_MAX_INVESTIGATION_TURNS /\ w.calls \in 0 .. MaxLlmCalls
    BY <2>3, <2>4, <2>5, Limits DEF ABSOLUTE_MAX_INVESTIGATION_TURNS
  <2>7. /\ job \in Jobs /\ killed \in BOOLEAN /\ crashes \in 0 .. MaxCrashes
        /\ pc \in Labels /\ cur \in 1 .. Len(probable) + 1
        /\ confirmed \in Seq(findingIds \X {"live", "static", "investigation"})
        /\ unconfirmed \in Seq(findingIds) /\ atKill \in 0 .. Len(probable)
    BY DEF Inv, Typed, Vias
  <2> QED BY <2>1, <2>2, <2>3, <2>6, <2>7 DEF TypeOK
<1> QED BY <1>1, InvHolds, PTL

\* Whatever the caps, the rate, the allowlist and the target's answers, every
\* request that has left, a browser's included, was authorized, and every probe
\* is within the caps and the rate, between the check before it and the record
\* after it too (ScopeGuard, confirmLive, runScenario).
THEOREM ProbesAreGuarded == Spec => []ProbesGuarded
<1>1. Inv => ProbesGuarded
  <2> SUFFICES ASSUME Inv PROVE ProbesGuarded
    OBVIOUS
  <2>1. guard.total \in Nat /\ guard.mutating \in Nat
    BY DEF Inv, Typed, Guards
  <2>2. /\ guard.total <= RequestCap /\ guard.mutating <= MutatingCap
        /\ pc = "inflight" => /\ guard.total < RequestCap
                              /\ mutating(Head(w.probes)) => guard.mutating < MutatingCap
    BY DEF Inv, Guarded, assertProbeAllowed
  <2>3. CapsHeld
    BY <2>1, <2>2, Limits DEF CapsHeld
  <2>4. RateHeld
    BY DEF Inv, Guarded, RateHeld
  <2>5. ProbesAuthorized
    BY DEF Inv, Guarded, ProbesAuthorized, assertLiveAuthorized, Probing
  <2> QED BY <2>3, <2>4, <2>5 DEF ProbesGuarded
<1> QED BY <1>1, InvHolds, PTL

\* A probe leaves in two steps only, at the gate and after the throttle's sleep,
\* and both look at the signal first (ScopeGuard.assertProbeAllowed, throttle), as
\* a browser login does before it launches its browser (assertNotKilled): no step
\* of a killed layer sends a probe or begins a login.
THEOREM NoProbeOnceKilled == Spec => NoProbeAfterKill
<1> DEFINE Browsing == {"browser", "page"}
<1>1. ASSUME [Next]_vars, killed
      PROVE  (pc # "inflight" => pc' # "inflight") /\ (pc \notin Browsing => pc' \notin Browsing)
  <2> USE DEF goto, toUnconfirmed, confirm
  <2>1. CASE Start \/ TakeFinding \/ NextFinding \/ Static \/ Settle
    BY <2>1 DEF Start, TakeFinding, NextFinding, Static, Settle
  <2>2. CASE Live \/ Login \/ Browse \/ LoggedIn \/ Gate \/ Wake
    BY <1>1, <2>2 DEF Live, Login, Browse, LoggedIn, probeWith, Gate, Abandon, Send, Wake
  <2>3. CASE KilledAtGate \/ KilledAtCheck \/ Response \/ TransportError \/ Abort \/ Verdict
    BY <1>1, <2>3 DEF KilledAtGate, KilledAtCheck, Halt, Abandon, Response, TransportError,
       Abort, Verdict, afterProbe
  <2>4. CASE Round \/ Choose \/ Turn \/ Evidence \/ Verify
    BY <2>4 DEF Round, Choose, Turn, Evidence, Verify
  <2>5. CASE Output \/ NextScenario \/ Done
    BY <2>5 DEF Output, NextScenario, Done
  <2>6. CASE Kill \/ Crash \/ Tick \/ UNCHANGED vars
    BY <1>1, <2>6 DEF Kill, Crash, Tick, vars
  <2> QED BY <1>1, <2>1, <2>2, <2>3, <2>4, <2>5, <2>6 DEF Next, Step
<1> QED BY <1>1, PTL DEF Spec, NoProbeAfterKill

\* Of any number of findings at most one is classified after the kill switch has
\* fired: the one whose work had begun (confirmFindings' loop looks at the
\* signal before each finding).
THEOREM KillIsPrompt == Spec => []KillPrompt
<1>1. Inv => KillPrompt
  BY DEF Inv, Prompt, KillPrompt
<1> QED BY <1>1, InvHolds, PTL

\* For any candidates, App Map, marks and model answers no candidate is lost or
\* reported twice by Layer 2, the model only nudges its ranking, and Layer 3
\* classifies every finding exactly once (groupCandidates, correlate,
\* confirmFindings).
THEOREM FindingsClassifiedOnce == Spec => []ClassifiedOnce
<1>1. Inv => ClassifiedOnce
  <2> SUFFICES ASSUME Inv PROVE ClassifiedOnce
    OBVIOUS
  <2>1. probable \in correlate(CorrelatedMap, Candidates, Marks, Shapes, Answers)
    BY DEF Inv, Ranked
  <2>2. CandidatesKept
    BY <2>1, OutputKeepsCandidates DEF CandidatesKept
  <2>3. RankGrounded
    <3>1. \A i, j \in DOMAIN probable :
            i < j => movedScore(CHOOSE g \in Groups : g.key = probable[i].id, 1)
                       >= movedScore(CHOOSE g \in Groups : g.key = probable[j].id, -1)
      BY <2>1, OutputRankGrounded
    <3> QED BY <3>1 DEF RankGrounded, movedScore, Groups, capped
  <2>4. pc # "halted" => doneIds = {probable[i].id : i \in 1 .. reached} /\ classified = reached
    BY DEF Inv, Placed
  <2> QED BY <2>2, <2>3, <2>4 DEF ClassifiedOnce, doneIds, reached
<1> QED BY <1>1, InvHolds, PTL

\* In every order in which review, probes and investigation may fail, a finding
\* with an unvetoed static proof is confirmed, and one that is confirmed has
\* evidence of its own: for any number of verifiers, a strict majority of all of
\* them (confirmFindings, attemptInvestigationConfirmation).
THEOREM VerdictsAreBacked == Spec => []VerdictBacked
<1>1. Inv => VerdictBacked
  BY DEF Inv
<1> QED BY <1>1, InvHolds, PTL

=============================================================================
