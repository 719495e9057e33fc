----------------------------- MODULE MCExecutorBooks -----------------------------
(* The instances of ExecutorBooks that TLC checks: each book by itself, for they share nothing. *)
EXTENDS ExecutorBooks

Only(book, n) == [b \in Books |-> IF b = book THEN n ELSE 0]
MCCases == {Only("phase", 5), Only("runs", 4), Only("governance", 4), Only("quality", 4),
            Only("ledger", 8), Only("parser", 1), Only("flows", 2)}

Metric(m, t, w, l) == [name |-> m, target |-> t, weight |-> w, lower |-> l]
(* The profile of "custom" and the first two metrics of "software-dev", in halves and      *)
(* twentieths: targets of 90, 7, 80 and 0.5.                                      *)
MCDefaults == [custom |-> <<Metric("delivery_completeness", 180, 12, FALSE),
                            Metric("quality_score", 14, 8, FALSE)>>,
               software |-> <<Metric("code_coverage", 160, 5, FALSE), Metric("bug_density", 1, 4, TRUE)>>]
MCStepLists == {<<"call", "call">>, <<"call", "skill">>, <<"condition", "unknown">>}
MCOrder == <<"software", "custom">>
===============================================================================
