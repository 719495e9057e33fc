---------------------------- MODULE DocumentsOwners ----------------------------
(***************************************************************************)
(* What the owners of the Documents jobs report, and what Runtime accepts of  *)
(* it (documents_plane/).  An owner is a process of its own: it reads a part  *)
(* of Documents, prints one JSON object and exits.  jobs.py keeps of the      *)
(* output only what the job's evidence projection lets through.  The two     *)
(* sides share no code, only the shape of the object.                       *)
(*                                                                          *)
(* Content is a record of what the owner can tell apart in the files it reads *)
(* (missing, not regular, unreadable, its dates and flags); dates are days.   *)
(* The kems owner keeps a baseline, and is a part of DocumentsJobs.          *)
(***************************************************************************)
EXTENDS Integers, Sequences, SequencesExt, FiniteSets, FiniteSetsExt, Functions

CONSTANTS NoDate, Today
ASSUME TodayAssumption == Today \in Nat /\ NoDate \notin Nat

(* What a process leaves: its exit code, and the object it printed.  NoOutput *)
(* stands for anything json.loads refuses, Failed for what every owner but    *)
(* three prints when the path it was given is refused.                       *)
Report(code, object) == [exit |-> code, payload |-> object]
NoOutput == [status |-> "no output"]
Failed == [status |-> "failed"]
Crash == Report(1, NoOutput)
PathRefused == Report(2, Failed)

IsDate(d) == d \in Nat
IsList(s) == s \in Seq(Range(s))
OptionalDate(d) == d = NoDate \/ IsDate(d)
(* How many elements have each of the values a function takes.                  *)
Parts(kind) == [k \in Range(kind) |-> Cardinality({x \in DOMAIN kind : kind[x] = k})]

Age(day) == IF Today >= day THEN Today - day ELSE 0

-------------------------------------------------------------------------------
(* facts.py: the files of the facts directory and its index.  A fact is a      *)
(* mapping or junk; valid covers trust, importance, statement and summary.  One *)
(* whose id, type, trust or importance is a list or a mapping itself is not    *)
(* hashable, and looking it up or counting it raises.                        *)
FactsContent(d) ==
    IsList(d.files) /\ \A i \in DOMAIN d.files : IsList(d.files[i].facts)

FactIsValid(f) ==
    /\ f.fid # "bad" /\ f.type # "unknown" /\ f.valid
    /\ IsDate(f.verified) /\ IsDate(f.expiry)
    /\ f.verified <= f.expiry

IndexAgrees(index, total) ==
    \/ index.at = "absent"
    \/ /\ index.at = "mapping"
       /\ index.total = total
       /\ index.types # "differ"

AuditFacts(d) ==
    LET loaded  == {i \in DOMAIN d.files : d.files[i].at = "list"}
        entries == UNION {{i} \X DOMAIN d.files[i].facts : i \in loaded}
        fact    == [e \in entries |-> d.files[e[1]].facts[e[2]]]
        facts   == {e \in entries : fact[e].at = "mapping"}
        total   == Cardinality(facts)
        kind    == [e \in facts |-> fact[e].type]
        sound   == /\ loaded = DOMAIN d.files /\ facts = entries
                   /\ \A e \in facts : FactIsValid(fact[e])
                   /\ Cardinality({fact[e].fid : e \in facts}) = total
                   /\ IndexAgrees(d.index, total)
    IN  IF d.dir # "listed" \/ \A i \in DOMAIN d.files : d.files[i].at = "irregular"
          THEN Report(1, [status |-> "invalid", facts_total |-> 0, by_type |-> <<>>])
        ELSE IF \E e \in facts : ~fact[e].hashable THEN Crash
        ELSE Report(IF sound THEN 0 ELSE 1,
                   [status      |-> IF sound THEN "ok" ELSE "invalid",
                    facts_total |-> total,
                    by_type     |-> Parts(kind)])

AcceptsFacts(p) ==
    /\ p.status \in {"ok", "invalid"}
    /\ p.facts_total \in Nat
    /\ SumFunction(p.by_type) = p.facts_total

-------------------------------------------------------------------------------
(* control_health.py: the signals by colour and the date the facts view was    *)
(* last reviewed.                                                           *)
Colour == {"red", "warning", "ok"}

ControlContent(d) ==
    /\ d.signals.counts \in [Colour -> Nat]
    /\ d.facts.at \in {"missing", "invalid"} \/ (d.facts.at = "dated" /\ IsDate(d.facts.day))

FactsView(facts) ==
    IF facts.at # "dated" THEN facts.at
    ELSE CASE Age(facts.day) > 60        -> "stale_60d"
           [] Age(facts.day) \in 31 .. 60 -> "stale_30d"
           [] Age(facts.day) <= 30        -> "current"

InspectControlHealth(d) ==
    LET counts == IF d.signals.at = "missing" THEN [red |-> 0, warning |-> 0, ok |-> 0]
                  ELSE d.signals.counts
        view   == FactsView(d.facts)
        status == IF d.signals.at = "missing" \/ view \in {"missing", "invalid"} THEN "invalid"
                  ELSE IF counts.red > 0 THEN "critical"
                  ELSE IF counts.warning >= 3 \/ view \in {"stale_30d", "stale_60d"}
                    THEN "attention"
                  ELSE "ok"
    IN  IF ~d.domain THEN PathRefused
        ELSE Report(IF status = "ok" THEN 0 ELSE 1,
              [status |-> status, facts_view_status |-> view, signal_counts |-> counts])

AcceptsControlHealth(p) ==
    /\ p.status \in {"ok", "attention", "critical", "invalid"}
    /\ p.facts_view_status \in {"current", "stale_30d", "stale_60d", "missing", "invalid"}
    /\ p.signal_counts \in [Colour -> Nat]

-------------------------------------------------------------------------------
(* controller_shadow.py: the markdown of six planes, never a verdict.  A domain *)
(* or a plane that is there and is not a directory fails the inspection.      *)
ShadowContent(d) == IsList(d.files) /\ d.signals \in [Colour -> Nat]

InspectShadow(d) ==
    LET files == d.files
        dated(low, high) == Cardinality({i \in DOMAIN files :
            files[i].at = "dated" /\ Age(files[i].day) >= low /\ Age(files[i].day) <= high})
        in(at) == Cardinality({i \in DOMAIN files : files[i].at = at})
    IN  IF ~d.planes THEN PathRefused
        ELSE Report(1, [status |-> "shadow_observed", replaced |-> FALSE, cutover |-> FALSE,
                       signal_counts |-> d.signals,
                       freshness |-> [scanned |-> in("dated"), stale_30_60 |-> dated(31, 60),
                                      stale_60 |-> dated(61, Today), invalid |-> in("bad date"),
                                      unreadable |-> in("unreadable")]])

AcceptsShadow(p) ==
    /\ p.status = "shadow_observed"
    /\ ~p.replaced /\ ~p.cutover
    /\ p.signal_counts \in [Colour -> Nat]
    /\ p.freshness \in
         [{"scanned", "stale_30_60", "stale_60", "invalid", "unreadable"} -> Nat]

-------------------------------------------------------------------------------
(* model_freshness.py: the models' review dates against the facts view's.  A   *)
(* directory or file is "ok" or bears the error its stat, read or date gives. *)
(* An error is reported with the place where it was met.                      *)
ReviewErrors == {"last_reviewed_missing", "last_reviewed_invalid"}
NoError == <<>>

FreshnessContent(d) ==
    /\ d.domain \in {"ok", "root_missing", "root_unreadable", "root_not_direct", "path_invalid"}
    /\ {d.entities, d.modelsDir} \subseteq {"ok", "missing", "unreadable", "not_direct"}
    /\ \/ d.facts.at = "ok" /\ IsDate(d.facts.day)
       \/ d.facts.at \in
            {"file_missing", "file_not_regular", "file_unreadable"} \cup ReviewErrors
    /\ IsList(d.models)
    /\ \A i \in DOMAIN d.models :
         d.models[i].at \in {"ok", "file_not_regular", "file_unreadable"} \cup ReviewErrors

NotObserved(error, facts, models, invalid, unreadable) ==
    Report(2, [status |-> "unavailable", error |-> error, checked |-> Today, facts |-> facts,
              models |-> models, fresh |-> 0, stale |-> 0, invalid |-> invalid,
              unreadable |-> unreadable])

InspectModels(facts, models) ==
    LET bad    == SelectInSeq(models, LAMBDA m : m.at # "ok")
        stale  == Cardinality({i \in DOMAIN models : models[i].day < facts})
        count  == Len(models)
    IN  IF bad > 0
          THEN NotObserved(<<"model", models[bad].at>>, facts, count,
                           IF models[bad].at \in ReviewErrors THEN 1 ELSE 0,
                           IF models[bad].at = "file_unreadable" THEN 1 ELSE 0)
          ELSE Report(IF stale > 0 THEN 1 ELSE 0,
                     [status |-> IF stale > 0 THEN "attention" ELSE "ok", error |-> NoError,
                      checked |-> Today, facts |-> facts, models |-> count,
                      fresh |-> count - stale, stale |-> stale, invalid |-> 0, unreadable |-> 0])

InspectFreshness(d) ==
    LET Early(error) == NotObserved(error, NoDate, 0, 0, 0)
    IN  IF d.domain # "ok" THEN Early(<<"domain", d.domain>>)
        ELSE IF d.entities # "ok" THEN Early(<<"entities_directory", d.entities>>)
        ELSE IF d.facts.at # "ok" THEN Early(<<"facts", d.facts.at>>)
        ELSE IF d.modelsDir # "ok"
          THEN NotObserved(<<"models_directory", d.modelsDir>>, d.facts.day, 0, 0, 0)
        ELSE IF d.models = <<>>
          THEN NotObserved(<<"models_directory", "empty">>, d.facts.day, 0, 0, 0)
        ELSE InspectModels(d.facts.day, d.models)

PreFactsErrors ==
    ({"domain"} \X {"root_missing", "root_unreadable", "root_not_direct", "path_invalid"})
        \cup ({"entities_directory"} \X {"missing", "unreadable", "not_direct"})
        \cup ({"facts"} \X
                ({"file_missing", "file_not_regular", "file_unreadable"} \cup ReviewErrors))
DirectoryErrors == {"models_directory"} \X {"missing", "unreadable", "not_direct", "empty"}
ModelErrors == {"model"} \X ({"file_not_regular", "file_unreadable"} \cup ReviewErrors)

(* Defect: no error is expected to come after the models were counted.           *)
UnavailableCountsNothing(p) ==
    /\ p.error \in PreFactsErrors \cup DirectoryErrors \cup ModelErrors
    /\ {p.models, p.fresh, p.stale, p.invalid, p.unreadable} = {0}

UnavailableIsConsistent(p) ==
    /\ p.fresh = 0 /\ p.stale = 0
    /\ \/ /\ p.error \in PreFactsErrors
          /\ p.facts = NoDate /\ p.models = 0 /\ p.invalid = 0 /\ p.unreadable = 0
       \/ /\ p.error \in DirectoryErrors
          /\ p.facts # NoDate /\ p.models = 0 /\ p.invalid = 0 /\ p.unreadable = 0
       \/ /\ p.error \in ModelErrors
          /\ p.facts # NoDate /\ p.models > 0
          /\ p.unreadable = (IF p.error = <<"model", "file_unreadable">> THEN 1 ELSE 0)
          /\ p.invalid = (IF p.error \in {"model"} \X ReviewErrors THEN 1 ELSE 0)

AcceptsFreshness(p) ==
    /\ p.status \in {"ok", "attention", "unavailable"}
    /\ IsDate(p.checked) /\ OptionalDate(p.facts)
    /\ {p.models, p.fresh, p.stale, p.invalid, p.unreadable} \subseteq Nat
    /\ IF p.status = "unavailable" THEN UnavailableIsConsistent(p)
       ELSE /\ p.error = NoError /\ p.facts # NoDate
            /\ p.models > 0 /\ p.fresh + p.stale = p.models
            /\ p.invalid = 0 /\ p.unreadable = 0
            /\ (p.status = "ok") <=> (p.stale = 0)

-------------------------------------------------------------------------------
(* sanyi_status.py: the dashboard's date against the newest verified fact of   *)
(* three projects.  A fact is out of scope, in scope with a date, or broken.  *)
(* What is not "ok" bears the first thing that is wrong with it.              *)
SanyiContent(d) ==
    /\ d.call \in {"ok", "arguments", "domain"}
    /\ \/ d.dashboard.at \in {"unavailable", "invalid"}
       \/ d.dashboard.at = "ok" /\ IsDate(d.dashboard.day)
    /\ d.facts.at \in {"ok", "unavailable", "invalid"}
    /\ IsList(d.facts.seq)
    /\ \A i \in DOMAIN d.facts.seq :
         \/ d.facts.seq[i].at \in {"out of scope", "broken"}
         \/ d.facts.seq[i].at = "dated" /\ IsDate(d.facts.seq[i].day)

SanyiUnavailable(error) ==
    Report(2, [status |-> "unavailable", error |-> error, checked |-> Today,
              dashboard |-> NoDate, latest |-> NoDate, relevant |-> 0])

InspectSanyi(d) ==
    LET scoped == {i \in DOMAIN d.facts.seq : d.facts.seq[i].at # "out of scope"}
        latest == Max({d.facts.seq[i].day : i \in scoped})
    IN  IF d.call # "ok" THEN SanyiUnavailable(<<d.call, "invalid">>)
        ELSE IF d.dashboard.at # "ok" THEN SanyiUnavailable(<<"dashboard", d.dashboard.at>>)
        ELSE IF d.facts.at # "ok" THEN SanyiUnavailable(<<"facts", d.facts.at>>)
        ELSE IF \E i \in scoped : d.facts.seq[i].at = "broken"
          THEN SanyiUnavailable(<<"facts", "invalid">>)
        ELSE IF scoped = {} THEN SanyiUnavailable(<<"facts", "scope_empty">>)
        ELSE LET late == latest > d.dashboard.day
             IN  Report(IF late THEN 1 ELSE 0,
                       [status |-> IF late THEN "attention" ELSE "ok", error |-> NoError,
                        checked |-> Today, dashboard |-> d.dashboard.day, latest |-> latest,
                        relevant |-> Cardinality(scoped)])

AcceptsSanyi(p) ==
    /\ p.status \in {"ok", "attention", "unavailable"}
    /\ IsDate(p.checked)
    /\ IF p.status = "unavailable"
         THEN /\ p.dashboard = NoDate /\ p.latest = NoDate /\ p.relevant = 0
              /\ p.error \in ({"arguments", "domain"} \X {"invalid"})
                   \cup ({"dashboard"} \X {"unavailable", "invalid"})
                   \cup ({"facts"} \X {"unavailable", "invalid", "scope_empty"})
         ELSE /\ IsDate(p.dashboard) /\ IsDate(p.latest)
              /\ p.relevant >= 1 /\ p.error = NoError
              /\ (p.status = "attention") <=> (p.latest > p.dashboard)

-------------------------------------------------------------------------------
(* learning_decay.py: which concept files another one names, and how old each   *)
(* is.  A file whose date neither git nor stat gives has no date; one that     *)
(* cannot be read names nothing.                                            *)
DecayContent(d) ==
    /\ d.root \in {"ok", "documents_root_invalid", "concept_root_invalid"}
    /\ IsList(d.files)
    /\ \A i \in DOMAIN d.files : OptionalDate(d.files[i].day)

Buckets == {"fresh", "normal", "aging", "stale", "decayed", "uncommitted"}

Bucket(day) ==
    IF day = NoDate THEN "uncommitted"
    ELSE CASE Age(day) < 7         -> "fresh"
           [] Age(day) \in 7 .. 20  -> "normal"
           [] Age(day) \in 21 .. 29 -> "aging"
           [] Age(day) \in 30 .. 59 -> "stale"
           [] Age(day) >= 60       -> "decayed"

InspectDecay(d) ==
    LET files      == d.files
        referenced == {i \in DOMAIN files : \E k \in DOMAIN files \ {i} :
                          files[k].readable /\ i \in files[k].names}
        orphans    == DOMAIN files \ referenced
        counts     == [b \in Buckets |->
                         Cardinality({i \in DOMAIN files : Bucket(files[i].day) = b})]
        decayed    == counts["stale"] + counts["decayed"]
        calm       == orphans = {} /\ decayed = 0
    IN  IF d.root # "ok"
          THEN Report(2, [status |-> "unavailable", error |-> d.root, checked |-> Today,
                         concepts |-> 0, referenced |-> 0, orphans |-> 0, decayed |-> 0,
                         staleness |-> [b \in Buckets |-> 0]])
          ELSE Report(IF calm THEN 0 ELSE 1,
                     [status |-> IF calm THEN "ok" ELSE "attention", error |-> "none",
                      checked |-> Today, concepts |-> Len(files),
                      referenced |-> Cardinality(referenced), orphans |-> Cardinality(orphans),
                      decayed |-> decayed, staleness |-> counts])

AcceptsDecay(p) ==
    LET total == SumFunction(p.staleness) IN
    /\ p.status \in {"ok", "attention", "unavailable"}
    /\ IsDate(p.checked)
    /\ p.staleness \in [Buckets -> Nat]
    /\ {p.concepts, p.referenced, p.orphans, p.decayed} \subseteq Nat
    /\ IF p.status = "unavailable"
         THEN /\ p.error \in {"documents_root_invalid", "concept_root_invalid", "today_invalid"}
              /\ {p.concepts, p.referenced, p.orphans, p.decayed, total} = {0}
         ELSE /\ p.error = "none"
              /\ p.referenced + p.orphans = p.concepts /\ total = p.concepts
              /\ p.decayed = p.staleness["stale"] + p.staleness["decayed"]
              /\ (p.status = "ok") <=> (p.orphans = 0 /\ p.decayed = 0)

-------------------------------------------------------------------------------
(* learning_executors.py: the front matter of a card maps its fields to "set",  *)
(* "unquoted" (set, to a text that must be quoted in YAML), "null" (no value)   *)
(* or "absent"; a card is broken when it has none that parses.  linked says    *)
(* that the text names a link; unreadable cards are skipped.                 *)
Required == {"knowledge_type", "status", "source"}

MissingFields(card) ==
    {f \in Required \cap DOMAIN card.fields : card.fields[f] \in {"null", "absent"}}

ValidateCards(root, cards) ==
    LET invalid(card) == card.broken \/ MissingFields(card) # {} \/ ~card.linked
        attention == \E c \in DOMAIN cards : cards[c].readable /\ invalid(cards[c])
    IN  IF root # "ok" THEN Report(2, [status |-> "unavailable"])
        ELSE Report(IF attention THEN 1 ELSE 0,
                    [status |-> IF attention THEN "attention" ELSE "ok"])

(* The arguments search and rename-check cannot do without are not in the       *)
(* commands the two jobs register (_LEARNING_V2_JOBS): argparse refuses them.  *)
UsageError == Report(2, NoOutput)

-------------------------------------------------------------------------------
(* What run_job asks of the output of a job that has a projection.             *)
KemsScopes == {"inbox", "knowledge", "entities", "control", "buffer_inbox"}

AcceptsKems(p) ==
    /\ p.status \in {"ok", "changed"}
    /\ p.baseline \in {"initialized", "existing"}
    /\ p.changed \subseteq KemsScopes
    /\ (p.status = "ok") <=> (p.changed = {})

Accepts(projection, p) ==
    CASE projection = "metadata"                    -> TRUE
      [] projection = "facts-audit-v1"              -> AcceptsFacts(p)
      [] projection = "kems-check-v1"               -> AcceptsKems(p)
      [] projection = "control-health-v1"           -> AcceptsControlHealth(p)
      [] projection = "controller-shadow-v2"        -> AcceptsShadow(p)
      [] projection = "model-freshness-v1"          -> AcceptsFreshness(p)
      [] projection = "sanyi-status-consistency-v1" -> AcceptsSanyi(p)
      [] projection = "learning-decay-v1"           -> AcceptsDecay(p)
================================================================================
