---------------------------- MODULE MCDocumentsJobs ----------------------------
(* Two processes, two KEMS scopes, one card, and for each inspected part of       *)
(* Documents the contents that take its owner through every answer it has.       *)
EXTENDS DocumentsJobs

CONSTANTS r1, r2

All(word) == [j \in {Shadow} \cup Optional |-> word]

Exact == All("exact")
Case(b, jobs1, jobs2, touched) ==
    [binding |-> b, asked |-> (r1 :> jobs1 @@ r2 :> jobs2), touched |-> touched]

MCCases ==
    {Case(Exact, Jobs \ {"learning-validate"}, {}, {}),
     Case(Exact, {"learning-validate"}, {}, Cards),
     Case(Exact, {"learning-validate"}, {"learning-validate"}, {}),
     Case(Unset, {"kems-check"}, {}, Scopes),
     Case(Unset, {"kems-check"}, {"kems-check"}, {"inbox"})}
      \cup {Case(b, Jobs, {}, {}) :
             b \in {Unset, [All("absent") EXCEPT ![Shadow] = "exact"], All("absent"),
                    [Exact EXCEPT !["sanyi-status"] = "altered"],
                    [Exact EXCEPT !["learning-decay"] = "twice"]}}

Fact(fid, type, verified, expiry) ==
    [at |-> "mapping", fid |-> fid, type |-> type, valid |-> TRUE, verified |-> verified,
     expiry |-> expiry, hashable |-> TRUE]
Junk == [Fact("bad", "unknown", NoDate, NoDate) EXCEPT !.at = "junk"]
Good(fid, type) == Fact(fid, type, 10, 20)
ListFile(facts) == [at |-> "list", facts |-> facts]
BadFile(at) == [at |-> at, facts |-> <<>>]
FactsDir(files, at, total, types) ==
    [dir |-> "listed", files |-> files, index |-> [at |-> at, total |-> total, types |-> types]]

FactsContents ==
    {[FactsDir(<<>>, "absent", 0, "agree") EXCEPT !.dir = "missing"],
     FactsDir(<<BadFile("irregular")>>, "absent", 0, "agree"),
     FactsDir(<<ListFile(<<Good("f1", "event"), Good("f2", "metric")>>)>>, "mapping", 2, "agree"),
     FactsDir(<<ListFile(<<Good("f1", "event")>>)>>, "mapping", 2, "agree"),
     FactsDir(<<ListFile(<<Good("f1", "event"), Junk>>), BadFile("unloadable")>>,
              "absent", 0, "agree"),
     FactsDir(<<ListFile(<<Good("f1", "event"), Good("f1", "unknown")>>), BadFile("irregular")>>,
              "unloadable", 0, "agree"),
     FactsDir(<<ListFile(<<Fact("f1", "event", 20, 10)>>)>>, "mapping", 1, "differ"),
     FactsDir(<<ListFile(<<Good("f1", "event"), [Good("f2", "metric") EXCEPT !.hashable = FALSE]>>)>>,
              "absent", 0, "agree")}

Colours(red, warning, ok) == [red |-> red, warning |-> warning, ok |-> ok]
ControlContents ==
    {[domain |-> dom, signals |-> s, facts |-> f] :
        dom \in BOOLEAN,
        s \in {[at |-> "missing", counts |-> Colours(0, 0, 0)],
               [at |-> "there", counts |-> Colours(1, 0, 0)],
               [at |-> "there", counts |-> Colours(0, 3, 1)],
               [at |-> "there", counts |-> Colours(0, 2, 1)]},
        f \in {[at |-> "missing", day |-> NoDate], [at |-> "invalid", day |-> NoDate],
               [at |-> "dated", day |-> Today - 61], [at |-> "dated", day |-> Today - 60],
               [at |-> "dated", day |-> Today - 30], [at |-> "dated", day |-> Today + 1]}}

Paper(at, day) == [at |-> at, day |-> day]
ShadowContents ==
    {[planes |-> p, signals |-> Colours(1, 0, 2), files |-> f] :
        p \in BOOLEAN,
        f \in {<<>>, <<Paper("dated", Today - 45), Paper("dated", Today - 90),
                       Paper("bad date", NoDate), Paper("unreadable", NoDate)>>}}

FreshnessGood == [domain |-> "ok", entities |-> "ok", facts |-> Paper("ok", 50),
                  modelsDir |-> "ok", models |-> <<Paper("ok", 49), Paper("ok", 50)>>]
FreshnessContents ==
    {FreshnessGood, [FreshnessGood EXCEPT !.models = <<Paper("ok", 60)>>],
     [FreshnessGood EXCEPT !.models = <<>>],
     [FreshnessGood EXCEPT !.models = <<Paper("ok", 49), Paper("file_unreadable", NoDate)>>],
     [FreshnessGood EXCEPT !.models = <<Paper("last_reviewed_missing", NoDate)>>],
     [FreshnessGood EXCEPT !.models = <<Paper("file_not_regular", NoDate), Paper("ok", 49)>>],
     [FreshnessGood EXCEPT !.modelsDir = "not_direct"],
     [FreshnessGood EXCEPT !.facts = Paper("last_reviewed_invalid", NoDate)],
     [FreshnessGood EXCEPT !.entities = "missing"],
     [FreshnessGood EXCEPT !.domain = "root_unreadable"],
     [FreshnessGood EXCEPT !.domain = "path_invalid"]}

Outside == Paper("out of scope", NoDate)
SanyiGood == [call |-> "ok", dashboard |-> Paper("ok", 50),
              facts |-> [at |-> "ok", seq |-> <<Paper("dated", 51), Outside, Paper("dated", 40)>>]]
SanyiContents ==
    {SanyiGood, [SanyiGood EXCEPT !.facts.seq = <<Paper("dated", 50)>>],
     [SanyiGood EXCEPT !.facts.seq = <<Outside>>],
     [SanyiGood EXCEPT !.facts.seq = <<Paper("dated", 51), Paper("broken", NoDate)>>],
     [SanyiGood EXCEPT !.facts.at = "unavailable"],
     [SanyiGood EXCEPT !.dashboard = Paper("invalid", NoDate)],
     [SanyiGood EXCEPT !.call = "domain"]}

Concept(readable, names, day) == [readable |-> readable, names |-> names, day |-> day]
DecayContents ==
    {[root |-> root, files |-> f] :
        root \in {"ok", "documents_root_invalid", "concept_root_invalid"},
        f \in {<<>>, <<Concept(TRUE, {2}, Today), Concept(TRUE, {1}, Today - 20)>>,
               <<Concept(TRUE, {1, 2}, Today - 29), Concept(FALSE, {1}, NoDate)>>,
               <<Concept(TRUE, {2}, Today - 59), Concept(TRUE, {1}, Today - 60)>>}}

MCContents == [job \in {"facts-audit", "control-health", "controller-shadow", "model-freshness",
                        "sanyi-status", "learning-decay"} |->
    CASE job = "facts-audit"       -> FactsContents
      [] job = "control-health"    -> ControlContents
      [] job = "controller-shadow" -> ShadowContents
      [] job = "model-freshness"   -> FreshnessContents
      [] job = "sanyi-status"      -> SanyiContents
      [] job = "learning-decay"    -> DecayContents]

Whole == [readable |-> TRUE, broken |-> FALSE, linked |-> TRUE,
          fields |-> [knowledge_type |-> "set", created |-> "set", source |-> "set",
                      status |-> "set"]]
MCCardStates ==
    {Whole, [Whole EXCEPT !.fields.created = "absent", !.fields.source = "null"],
     [Whole EXCEPT !.fields.created = "absent", !.fields.source = "unquoted"]}
================================================================================
