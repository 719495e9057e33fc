--------------------------- MODULE MCKemsProduction ---------------------------
(* The instances of KemsProduction that TLC checks.                            *)
EXTENDS KemsProduction

Sample(n, version) ==
    [id |-> n, ref |-> n, sha |-> <<n, version>>, raw |-> FALSE, status |-> "adjudicated",
     labels |-> "l1", version |-> "v1"]

Manifest(samples) ==
    [form |-> "whole", redaction |-> "verified", dataset |-> "d1", samples |-> samples]

Good == Manifest(<<Sample(1, 1), Sample(2, 1)>>)
MCEvaluations == {Good, Manifest(<<Sample(1, 2)>>), Manifest(<<Sample(1, 1), Sample(1, 1)>>),
                  Missing}

Row(n, version) ==
    [ref |-> n, sha |-> <<n, version>>, status |-> "adjudicated", labels |-> "l1",
     version |-> "v1", adjudicator |-> "a1", annotations |-> 2]
Rows(row1) == [form |-> "whole", rows |-> [n \in {1, 2} |-> IF n = 1 THEN row1 ELSE Row(2, 1)]]
MCDatabases == {Rows(Row(1, 1)), Rows([Row(1, 1) EXCEPT !.annotations = 1])}

Report(manifest, model) ==
    [form |-> "whole", raw |-> FALSE, status |-> "shadow_pass",
     promotion |-> "blocked_until_omo_approval", dataset |-> "d1", manifest |-> manifest,
     samples |-> Len(manifest.samples), minimum |-> 1, cases |-> 2, model |-> model,
     baseline |-> 100, improvement |-> 10]
MCReports == {Report(Good, 90), Report(Good, 91)}

Approval(status) ==
    [task |-> [form |-> "whole", status |-> "approved", id |-> "t1"],
     approval |-> [form |-> "whole", task |-> "t1", status |-> status,
                   scope |-> "task.promote_apply"]]
MCApprovals == {Approval("granted"), Approval("revoked")}

Ready == [evaluation |-> Good, adjudication |-> Rows(Row(1, 1)),
          acceptance |-> Report(Good, 90), approval |-> Approval("granted")]
Do(tool, run) == [tool |-> tool, run |-> run, production |-> TRUE, task |-> "t1"]
Try(tool, run) == [Do(tool, run) EXCEPT !.production = FALSE]

Quiet == [endpoint |-> TRUE, token |-> TRUE, local |-> FALSE, hermes |-> FALSE,
          owned |-> {Ready}, kinds |-> {}, revised |-> {}, stamped |-> {FALSE},
          replies |-> {"accepted"}, todo |-> [t \in {"t1", "t2"} |-> <<>>]]

Release(run) == <<Do("preflight", run), Do("compose", run), Do("gateway", run),
                  Do("receipt", run), Do("closeout", run)>>

Pair(one, two) == [t \in {"t1", "t2"} |-> IF t = "t1" THEN one ELSE two]

(* A release while another is prepared; one whose inputs are revised; a release     *)
(* tried again after a failure; dispatches through Hermes; two materializations.    *)
MCCases == {
  [Quiet EXCEPT !.todo = Pair(Release("r1"), <<Do("preflight", "r2"), Do("compose", "r2")>>),
                !.revised = {1}],
  [Quiet EXCEPT !.todo = Pair(Release("r1"), <<Do("gateway", "r1"), Do("receipt", "r1"),
                                               Do("closeout", "r1")>>),
                !.replies = {"accepted", "queued", "refused"}, !.stamped = BOOLEAN],
  [Quiet EXCEPT !.todo = Pair(Release("r1"), <<Try("preflight", "r1")>>),
                !.revised = {1, 2}, !.kinds = {"owned"}],
  [Quiet EXCEPT !.todo = Pair(<<Do("compose", "r1"), Try("gateway", "r1"), Try("gateway", "r1"),
                                Try("receipt", "r1"), Do("closeout", "r1")>>,
                              <<Try("gateway", "r1"), Do("receipt", "r1")>>),
                !.endpoint = FALSE, !.local = TRUE, !.hermes = TRUE],
  [Quiet EXCEPT !.todo = Pair(<<Do("materialize", "r1"), Do("materialize", "r2")>>,
                              <<Do("materialize", "r3")>>),
                !.revised = {1, 2}]}
===============================================================================
