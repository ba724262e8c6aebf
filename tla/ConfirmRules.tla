---------------------------- MODULE ConfirmRules ----------------------------
(***************************************************************************)
(* The pure rules of Layer 3 (packages/confirm/src): the classification    *)
(* tables and the sink assessment (taxonomy.ts), the source-to-sink proof  *)
(* (static.ts), the probes, the oracle and the payload catalogue of live   *)
(* DAST (live.ts), the safety predicate for composed payloads              *)
(* (payload-safety.ts) and the effort of an investigation                  *)
(* (investigation-pipeline.ts).                                            *)
(*                                                                         *)
(* An App Map is a record of sequences, as in the code: which element a    *)
(* find() or a stable sort returns depends on their order.                 *)
(***************************************************************************)
EXTENDS Integers, Sequences, FiniteSets

-----------------------------------------------------------------------------
(* Categories *)

INJECTIONS == {"sql_injection", "nosql_injection"}
LIVE_CONFIRMABLE_CATEGORIES ==
  INJECTIONS \cup {"xss", "open_redirect", "ssrf", "idor", "broken_access_control",
                   "path_traversal", "command_injection", "xxe", "insecure_deserialization"}
COMPOSABLE_LIVE_CATEGORIES ==
  {"sql_injection", "xss", "ssrf", "path_traversal", "command_injection"}
Categories ==
  LIVE_CONFIRMABLE_CATEGORIES \cup
    {"hardcoded_secret", "sensitive_data_exposure", "vulnerable_dependency",
     "broken_authentication", "mass_assignment", "prompt_injection", "permissive_cors",
     "missing_security_headers", "insecure_cookie", "weak_crypto", "csrf",
     "rate_limit_missing", "insufficient_logging", "insecure_configuration", "other"}

DATAFLOW_SINK_KINDS ==
  [c \in Categories |->
     CASE c \in INJECTIONS                          -> {"sql_query", "orm_raw_query"}
       [] c = "command_injection"                   -> {"command_exec", "eval"}
       [] c = "xss"                                 -> {"html_render", "template_render", "http_response"}
       [] c = "ssrf"                                -> {"http_client"}
       [] c = "path_traversal"                      -> {"fs_read", "fs_write"}
       [] c = "open_redirect"                       -> {"redirect"}
       [] c \in {"xxe", "insecure_deserialization"} -> {"deserialize"}
       [] OTHER                                     -> {}]

RAW_SINK_KINDS ==
  {"orm_raw_query", "command_exec", "eval", "deserialize", "html_render", "template_render"}

\* baseSeverityForCategory
BASE_SEVERITY ==
  [c \in Categories |->
     CASE c \in {"sql_injection", "command_injection", "insecure_deserialization"} -> "critical"
       [] c \in {"rate_limit_missing", "insufficient_logging", "other"} -> "low"
       [] c \in {"open_redirect", "csrf", "permissive_cors", "missing_security_headers",
                 "insecure_cookie", "weak_crypto", "vulnerable_dependency",
                 "mass_assignment", "insecure_configuration"} -> "medium"
       [] OTHER -> "high"]

-----------------------------------------------------------------------------
(* Static proof *)

\* assessSink: dangerous when only unsafe markers, or no marker on a raw sink.
assessSink(s) == ~s.safe /\ (s.unsafe \/ s.kind \in RAW_SINK_KINDS)

distance(a, b) == IF a < b THEN b - a ELSE a - b

\* The first element of s nearest to the line: an exact match, or the head of
\* the code's stable sort by distance.
nearest(s, line(_), l) ==
  s[CHOOSE i \in DOMAIN s :
      \A j \in DOMAIN s :
         LET di == distance(line(s[i]), l)
             dj == distance(line(s[j]), l)
         IN di < dj \/ (di = dj /\ i <= j)]

findRoute(m, f) ==
  LET byId == SelectSeq(m.routes, LAMBDA r : f.route # 0 /\ r.id = f.route)
      byFile == SelectSeq(m.routes, LAMBDA r : r.file = f.file)
  IN IF byId # <<>> THEN <<Head(byId)>> ELSE IF byFile # <<>> THEN <<Head(byFile)>> ELSE <<>>

\* findSinkFromFlow: the sink of the resolved flow whose source is in the
\* finding's file; without a record of that sink, one without markers.
findSinkFromFlow(m, f, kinds) ==
  LET edges == SelectSeq(m.flows, LAMBDA e : /\ e.sinkKind \in kinds
                                             /\ f.file \in {e.srcFile, e.throughFile})
      edge == nearest(edges, LAMBDA e : e.srcLine, f.line)
      real == SelectSeq(m.sinks, LAMBDA s : s.file = edge.sinkFile /\ s.line = edge.sinkLine)
  IN IF edges = <<>> THEN <<>>
     ELSE IF real # <<>> THEN <<Head(real)>>
     ELSE << [kind |-> edge.sinkKind, file |-> edge.sinkFile, line |-> edge.sinkLine,
              unsafe |-> FALSE, safe |-> FALSE] >>

findSink(m, f) ==
  LET kinds == DATAFLOW_SINK_KINDS[f.category]
      inFile == SelectSeq(m.sinks, LAMBDA s : s.kind \in kinds /\ s.file = f.file)
  IN IF inFile # <<>> THEN << nearest(inFile, LAMBDA s : s.line, f.line) >>
     ELSE findSinkFromFlow(m, f, kinds)

\* findSource: by route, by file, by the flow that ends in the sink.
findSource(m, f, sink) ==
  LET route == findRoute(m, f)
      routeId == IF route # <<>> THEN route[1].id ELSE f.route
      byRoute == SelectSeq(m.sources, LAMBDA s : routeId # 0 /\ s.route = routeId)
      byFile(file) == SelectSeq(m.sources, LAMBDA s : s.file = file)
      edges == SelectSeq(m.flows, LAMBDA e : e.sinkFile = sink.file /\ e.sinkLine = sink.line)
      real == SelectSeq(m.sources, LAMBDA s : s.file = edges[1].srcFile /\ s.line = edges[1].srcLine)
      fromFlow == IF edges = <<>> THEN <<>>
                  ELSE IF real # <<>> THEN real
                  ELSE IF ~edges[1].typed THEN <<>>
                  ELSE << [route |-> 0, file |-> edges[1].srcFile, line |-> edges[1].srcLine] >>
  IN byRoute \o byFile(sink.file) \o byFile(f.file) \o fromFlow

\* buildDataFlow(...).reachable
reachable(m, f) ==
  /\ DATAFLOW_SINK_KINDS[f.category] # {}
  /\ LET sink == findSink(m, f)
     IN /\ sink # <<>>
        /\ assessSink(sink[1])
        /\ findSource(m, f, sink[1]) # <<>>

\* structuralConfirmationGate
ruledOut(m, f) == f.route # 0 /\ \A i \in DOMAIN m.routes : m.routes[i].id # f.route

-----------------------------------------------------------------------------
(* Live probes *)

MUTATING_METHODS == {"POST", "PUT", "PATCH", "DELETE"}
probe(method, role) == [method |-> method, role |-> role]

\* craftProbes.  session is "none", "bare" (no headers) or "headers".
craftProbes(c, session) ==
  CASE c \in {"xss", "open_redirect"} -> << probe("GET", "payload") >>
    [] c \in {"xxe", "insecure_deserialization"} ->
         << probe("POST", "baseline"), probe("POST", "payload") >>
    [] c = "broken_access_control" /\ session # "headers" -> << >>
    [] OTHER -> << probe("GET", "baseline"), probe("GET", "payload") >>

\* How many PAYLOAD_VARIANTS a category has; those of xxe and
\* insecure_deserialization are POST requests, all others GET.
PAYLOAD_VARIANTS ==
  [c \in LIVE_CONFIRMABLE_CATEGORIES |->
     CASE c = "sql_injection" -> 4
       [] c \in {"idor", "broken_access_control", "xxe", "insecure_deserialization"} -> 2
       [] OTHER -> 3]
adaptiveProbe(c) ==
  probe(IF c \in {"xxe", "insecure_deserialization"} THEN "POST" ELSE "GET", "adaptive_payload")

\* evaluateComposedPayloadSafety over what its rules look at: the generic
\* bounds, the category's shape, its denylist and the harness marker.
evaluateComposedPayloadSafety(c, p) ==
  /\ c \in COMPOSABLE_LIVE_CATEGORIES
  /\ p.bounded /\ p.shaped /\ ~p.destructive
  /\ c \in {"xss", "command_injection"} => p.marker

(* A response is its status and what its body shows, relative to the baseline: *)
(* "same", "longer" (by 20 characters), "other", "hit" (the category's own     *)
(* success marker or, for a redirect, an off-site Location), "altered" (the    *)
(* marker survives, neither verbatim nor escaped), "error" (a generic error    *)
(* marker), "blocked" (a filter marker) or "denied".                           *)

ok2(r) == r.status \div 100 = 2

\* oracle(...).success, given the baseline response and the latest payload response.
oracle(c, base, payload) ==
  /\ payload # <<>>
  /\ LET r == payload[1] IN
     CASE c \in INJECTIONS -> r.body = "hit" \/ (ok2(r) /\ base # <<>> /\ r.body = "longer")
       [] c = "open_redirect" -> r.status \div 100 = 3 /\ r.body = "hit"
       [] c = "idor" -> base # <<>> /\ ok2(r) /\ r.body \notin {"same", "denied"}
       [] c = "broken_access_control" -> base # <<>> /\ ok2(base[1]) /\ ok2(r)
       [] OTHER -> r.body = "hit"

\* isAmbiguous, for a payload response that did not confirm.
isAmbiguous(c, base, payload) ==
  /\ payload # <<>>
  /\ LET r == payload[1] IN
     \/ r.status \div 100 = 5 /\ ~(base # <<>> /\ base[1].status \div 100 = 5)
     \/ CASE c = "ssrf" -> r.body = "blocked" \/ r.status \in {400, 403}
          [] c = "xss" -> r.body = "altered"
          [] c = "open_redirect" -> r.status \div 100 = 3
          [] OTHER -> r.body = "error"

-----------------------------------------------------------------------------
(* Effort of an investigation *)

ABSOLUTE_MAX_INVESTIGATION_TURNS == 8
MIN_INVESTIGATION_TURNS == 2

\* effortScaledMaxTurns, by the class of the finding's combined score.
effortScaledMaxTurns(configured, score) ==
  LET atLeast(n) == IF n < MIN_INVESTIGATION_TURNS THEN MIN_INVESTIGATION_TURNS ELSE n
  IN CASE score = "high" -> configured
       [] score = "marginal" -> atLeast((configured + 1) \div 2)
       [] OTHER -> atLeast((3 * configured + 2) \div 4)

\* The turns runInvestigation takes at most.
turnsCap(configured, score) ==
  LET n == effortScaledMaxTurns(configured, score)
  IN IF n < 1 THEN 1
     ELSE IF n > ABSOLUTE_MAX_INVESTIGATION_TURNS THEN ABSOLUTE_MAX_INVESTIGATION_TURNS
     ELSE n

\* The votes runAdversarialVerification needs: a strict majority.
requiredVotes(n) == (n \div 2) + 1
=============================================================================
