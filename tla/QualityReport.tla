----------------------------- MODULE QualityReport -----------------------------
(***************************************************************************)
(* Domain quality metrics (executor/domain_manager.py): profiles of metrics by        *)
(* archetype, measurements of a project, the report that weighs the latest of each.    *)
(* One project; a list of measurements is its last, with the verdict recorded then.    *)
(* The code's numbers are floats.  Here they are whole, by a choice of units: targets     *)
(* and values in units of 1 / Unit, weights in a unit of their own, and a score of 100   *)
(* is Full, which every target divides.  Rounding is left out.                     *)
(***************************************************************************)
EXTENDS Integers, Sequences, SequencesExt, FiniteSetsExt

CONSTANTS
    Defaults,      \* the default profiles: archetype -> sequence of metric definitions
    Order,         \* the archetypes in the order of the dictionary
    Metrics,       \* metric names
    Values,        \* of measurements
    Full,          \* the score of a metric that reaches its target, 100 in the code
    Unit           \* how many units of targets and values make 1

ASSUME ValuesAssumption == Values \subseteq Int
ASSUME UnitsAssumption == Full \in Nat \ {0} /\ Unit \in Nat \ {0} /\ Full % Unit = 0

MinimumPassScore == 70     \* of 100
Targets == {t \in 0 .. Full : t # 0 => Full % t = 0}
Definitions == [name : Metrics, target : Targets, weight : Nat \ {0}, lower : BOOLEAN]
DefaultsWellFormed == Defaults \in [DOMAIN Defaults -> Seq(Definitions) \ {<<>>}]
ASSUME DefaultsAssumption == DefaultsWellFormed

VARIABLES
    profiles,
    latest         \* of every metric: what was measured last and the verdict recorded

qualityVars == <<profiles, latest>>

NotMeasured == [measured |-> FALSE, value |-> 0, passed |-> FALSE]
QualityInit == profiles = Defaults /\ latest = [m \in Metrics |-> NotMeasured]

-------------------------------------------------------------------------------
Passes(value, def) == IF def.lower THEN value <= def.target ELSE value >= def.target

Score(value, def) ==
    CASE ~def.lower /\ def.target = 0 -> IF value >= 0 THEN Full ELSE 0
      [] ~def.lower /\ def.target # 0 -> Min({Full, value * (Full \div def.target)})
      [] def.lower /\ def.target = 0  -> IF value = 0 THEN Full
                                        ELSE Max({0, Full - value * (Full \div Unit)})
      [] OTHER -> IF value <= def.target THEN Full
                  ELSE Max({0, 2 * Full - value * (Full \div def.target)})

(* The profile that has the metric last in the dictionary gives the verdict kept.       *)
RecordedVerdict(m, value) ==
    LET firsts == SelectSeq([i \in 1 .. Len(Order) |-> SelectSeq(profiles[Order[i]], LAMBDA d : d.name = m)],
                            LAMBDA ds : ds # <<>>)
    IN  firsts # <<>> /\ Passes(value, Last(firsts)[1])

RecordMeasurement(m, value) ==
    /\ latest' = [latest EXCEPT ![m] =
                    [measured |-> TRUE, value |-> value, passed |-> RecordedVerdict(m, value)]]
    /\ UNCHANGED profiles
SetProfile(a, defs) == profiles' = [profiles EXCEPT ![a] = defs] /\ UNCHANGED latest
AddMetric(a, def) == profiles' = [profiles EXCEPT ![a] = Append(@, def)] /\ UNCHANGED latest
ClearMeasurements == latest' = [m \in Metrics |-> NotMeasured] /\ UNCHANGED profiles
Reset == profiles' = Defaults /\ latest' = [m \in Metrics |-> NotMeasured]

(* The report: what is measured, weighed; the score is a sum over a total weight.       *)
Total(numbers) ==
    LET sum[k \in 0 .. Len(numbers)] == IF k = 0 THEN 0 ELSE sum[k - 1] + numbers[k]
    IN  sum[Len(numbers)]

Counts(def) == IF latest[def.name].measured THEN def.weight ELSE 0
Weights(a) == [i \in 1 .. Len(profiles[a]) |-> Counts(profiles[a][i])]
Scores(a) ==
    [i \in 1 .. Len(profiles[a]) |->
        LET def == profiles[a][i] IN Counts(def) * Score(latest[def.name].value, def)]

(* Defect: what is not measured weighs as if it had scored nothing.                  *)
ReportPassedOfAll(a) ==
    LET all == Total([i \in 1 .. Len(profiles[a]) |-> profiles[a][i].weight])
    IN  all > 0 /\ 100 * Total(Scores(a)) >= MinimumPassScore * (Full * all)

ReportPassed(a) ==
    /\ Total(Weights(a)) > 0
    /\ 100 * Total(Scores(a)) >= MinimumPassScore * (Full * Total(Weights(a)))
Status(def) ==
    IF ~latest[def.name].measured THEN "not-measured"
    ELSE IF Passes(latest[def.name].value, def) THEN "passed" ELSE "failed"

QualityCall ==
    \/ \E m \in Metrics, v \in Values : RecordMeasurement(m, v)
    \/ \E a \in DOMAIN Defaults : \E def \in {Defaults[b][1] : b \in DOMAIN Defaults} :
         AddMetric(a, def) \/ SetProfile(a, <<def>>)
    \/ ClearMeasurements \/ Reset

-------------------------------------------------------------------------------
(* The report as a whole agrees with its lines, whatever profiles were edited between      *)
(* the measurements: it passes when every measured metric passes, whatever is not yet       *)
(* measured, and fails when none is measured or each has missed by half its target          *)
(* (generate_report, _normalize_score, _evaluate_pass_fail).  The verdict kept with a       *)
(* measurement is not asked: the report judges the value again.                        *)
ReportAgreesWithItsLines ==
    \A a \in DOMAIN profiles :
        LET lines == ToSet(profiles[a])  some == \E d \in lines : Status(d) # "not-measured" IN
        /\ some /\ (\A d \in lines : Status(d) # "failed") => ReportPassed(a)
        /\ (\A d \in lines : Status(d) = "not-measured" \/ 2 * Score(latest[d.name].value, d) <= Full) =>
             ~ReportPassed(a)
===============================================================================
