--------------------------- MODULE MCConfirmation ---------------------------
(* Layers 2 and 3 on six candidates: two tools report one SQL injection with a  *)
(* data flow, a scenario and composable payloads; an XXE whose probes mutate; an *)
(* IDOR behind a login that only an investigation or a live probe can confirm;   *)
(* an SSRF on a route that the App Map of Layer 3 no longer has; an XSS off the  *)
(* map.  The model's answers decide which of the first two and which of the last *)
(* two findings comes first.                                                     *)
EXTENDS Confirmation

cand(cat, file, line, severity) ==
  [category |-> cat, file |-> file, line |-> line, rawSeverity |-> severity,
   sanitized |-> FALSE, pkg |-> "", ruleId |-> "r"]
MCCandidates ==
  << cand("sql_injection", "f", 5, "high"), cand("xxe", "f", 9, "high"),
     cand("idor", "g", 7, "high"), cand("sql_injection", "f", 3, "critical"),
     cand("ssrf", "k", 2, "high"), cand("xss", "h", 1, "high") >>
MCAnswers ==
  {[reach |-> <<>>, impact |-> <<>>], [reach |-> <<0>>, impact |-> <<0>>],
   [reach |-> <<>>, impact |-> <<100>>]}
mark(rule) == [category |-> "xxe", file |-> "f", line |-> 9, ruleId |-> rule]
MCLaterMarks == {mark("r")}
MCAppMap ==
  [routes |-> << [id |-> 1, file |-> "f", line |-> 1, authState |-> "public"],
                 [id |-> 2, file |-> "g", line |-> 6, authState |-> "authenticated"] >>,
   sinks |-> << [kind |-> "sql_query", file |-> "f", line |-> 4, unsafe |-> TRUE,
                 safe |-> FALSE, sanitized |-> FALSE],
                [kind |-> "deserialize", file |-> "f", line |-> 9, unsafe |-> FALSE,
                 safe |-> TRUE, sanitized |-> FALSE] >>,
   sources |-> << [route |-> 1, file |-> "f", line |-> 2, sanitized |-> FALSE] >>,
   flows |-> <<>>, secrets |-> <<>>, entrypoints |-> <<>>, thirdParty |-> {}]
MCCorrelatedMap ==
  [MCAppMap EXCEPT !.routes =
     Append(@, [id |-> 9, file |-> "k", line |-> 2, authState |-> "public"])]
mcJob(live, url, repo) == [allowLive |-> live, stagingUrl |-> url, repoRoot |-> repo]
MCJobs == {mcJob(TRUE, "staging", FALSE), mcJob(FALSE, "staging", TRUE), mcJob(TRUE, "prod", TRUE)}
MCResponses == {[status |-> 200, body |-> "hit"], [status |-> 200, body |-> "same"],
                [status |-> 500, body |-> "error"]}
MCPayloads == {[bounded |-> TRUE, shaped |-> TRUE, destructive |-> FALSE, marker |-> FALSE],
               [bounded |-> TRUE, shaped |-> TRUE, destructive |-> TRUE, marker |-> TRUE]}
MCScenario ==
  [c \in Categories |-> IF c = "sql_injection" THEN [steps |-> <<"GET", "POST">>]
                        ELSE NoScenario]
=============================================================================
