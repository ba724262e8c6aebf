---------------------------- MODULE MCFixDelivery ----------------------------
(* Layers 4 and 5 on four findings: an SQL injection, for which the model may    *)
(* propose a good patch or one that fails in exactly one way (it touches auth    *)
(* code, is a line too long, does not apply, leaves the vulnerable pattern, or   *)
(* lacks the safe one), and three with the fix of their strategy: a cookie flag  *)
(* whose source may be missing, a redirect in auth code and a CORS header in a   *)
(* shared file.                                                                  *)
EXTENDS FixDelivery

mcGood == [id |-> "good", auth |-> FALSE, lines |-> MAX_AUTO_CHANGED_LINES,
           applies |-> TRUE, removes |-> TRUE, safe |-> TRUE]
MCConfirmed == <<"cookie", "redirect", "cors", "sqli">>
mcFinding(category, file, live, readable) ==
  [category |-> category, language |-> "js_ts", file |-> file, vulnerable |-> TRUE,
   safe |-> FALSE, live |-> live, readable |-> readable]
MCFinding ==
  [f \in {"sqli", "cookie", "redirect", "cors"} |->
     CASE f = "sqli" -> mcFinding("sql_injection", "plain", TRUE, TRUE)
       [] f = "cookie" -> mcFinding("insecure_cookie", "plain", FALSE, FALSE)
       [] f = "redirect" -> mcFinding("open_redirect", "auth", FALSE, TRUE)
       [] OTHER -> mcFinding("permissive_cors", "shared", FALSE, TRUE)]
MCProposals ==
  [f \in {"sqli", "cookie", "redirect", "cors"} |->
     CASE f = "sqli" -> {mcGood,
                         [mcGood EXCEPT !.id = "auth", !.auth = TRUE],
                         [mcGood EXCEPT !.id = "long", !.lines = @ + 1],
                         [mcGood EXCEPT !.id = "stray", !.applies = FALSE],
                         [mcGood EXCEPT !.id = "useless", !.removes = FALSE],
                         [mcGood EXCEPT !.id = "unsafe", !.safe = FALSE]}
       [] OTHER -> {}]
MCDeterministic ==
  [f \in {"sqli", "cookie", "redirect", "cors"} |->
     IF f = "sqli" THEN NoPatch ELSE [mcGood EXCEPT !.id = "own"]]
mcConfig(opener, agent, container, auto, approver, reserved) ==
  [opener |-> opener, agentLoop |-> agent, maxIterations |-> 2, maxToolCalls |-> 1,
   containerProof |-> container, autoFix |-> auto, approverRequired |-> approver,
   humanRequiredCategoriesAlways |-> reserved]
MCConfigs == {mcConfig("git", FALSE, FALSE, TRUE, TRUE, {}),
              mcConfig("api", FALSE, TRUE, TRUE, FALSE, {}),
              mcConfig("none", TRUE, FALSE, TRUE, TRUE, {"sql_injection"}),
              mcConfig("git", FALSE, FALSE, FALSE, FALSE, {})}
=============================================================================
