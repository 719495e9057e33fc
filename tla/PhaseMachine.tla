------------------------------ MODULE PhaseMachine ------------------------------
(***************************************************************************)
(* The executor's phase state machine (executor/state_machine.py): transitions   *)
(* by a table, an on_exit hook that runs before the change and may itself make a   *)
(* transition, pause and resume, decision paths, saving and restoring.           *)
(***************************************************************************)
EXTENDS Integers, Sequences, SequencesExt

TransitionTable ==
    [INIT     |-> {"PLAN", "EXECUTE", "PAUSED", "FAILED"},
     PLAN     |-> {"EXECUTE", "PLAN", "PAUSED", "FAILED"},
     EXECUTE  |-> {"VALIDATE", "PAUSED", "FAILED"},
     VALIDATE |-> {"COMPLETE", "EXECUTE", "PAUSED", "FAILED"},
     COMPLETE |-> {},
     FAILED   |-> {"INIT"},
     PAUSED   |-> {"INIT", "PLAN", "EXECUTE", "VALIDATE"}]
Phases == DOMAIN TransitionTable
LinearOrder == <<"INIT", "PLAN", "EXECUTE", "VALIDATE", "COMPLETE">>
RiskLevels == <<"very_low", "low", "medium", "high", "critical">>
RiskToPath ==
    [very_low |-> "express", low |-> "quick", medium |-> "standard",
     high |-> "deep", critical |-> "full"]

VARIABLES
    machine,       \* phase, before: _phase_before_pause, path, risk, history
    leaving,       \* the transitions whose on_exit hook runs, the innermost last
    saved          \* what to_dict returned

phaseVars == <<machine, leaving, saved>>

(* A machine may be made in any phase, PAUSED too; a path and a risk given to it are as   *)
(* if they had been selected and assessed first.                                   *)
PhaseInit ==
    /\ \E phase \in Phases :
         machine = [phase |-> phase, before |-> "none", path |-> "standard", risk |-> "medium",
                    history |-> <<>>]
    /\ leaving = <<>> /\ saved = machine

-------------------------------------------------------------------------------
CanTransitionTo(target) ==
    target # machine.phase /\ target \in TransitionTable[machine.phase]

(* Defect: the pause is forgotten by where the transition came from.                *)
ChangedByOrigin(from, target) ==
    [machine EXCEPT
        !.phase = target,
        !.before = IF target = "PAUSED" THEN from ELSE IF from = "PAUSED" THEN "none" ELSE @,
        !.history = Append(@, [from |-> from, to |-> target])]

(* Once the hook has returned, wherever it has left the machine.                   *)
Changed(from, target) ==
    [machine EXCEPT
        !.phase = target,
        !.before = IF target = "PAUSED" THEN from
                   ELSE IF machine.phase = "PAUSED" THEN "none" ELSE @,
        !.history = Append(@, [from |-> from, to |-> target])]

(* A legal transition, with or without a hook that has something to do.  A hook on    *)
(* entering runs last and calls as any other caller would.                        *)
TransitionTo(target) ==
    /\ CanTransitionTo(target)
    /\ \/ machine' = Changed(machine.phase, target) /\ UNCHANGED leaving
       \/ leaving' = Append(leaving, <<machine.phase, target>>) /\ UNCHANGED machine
    /\ UNCHANGED saved

HookReturns ==
    /\ leaving # <<>>
    /\ machine' = Changed(Last(leaving)[1], Last(leaving)[2])
    /\ leaving' = Front(leaving) /\ UNCHANGED saved

Pause == TransitionTo("PAUSED")
Fail == TransitionTo("FAILED")
Resume ==
    /\ machine.phase = "PAUSED"
    /\ \E target \in (Phases \cup {machine.before}) \ {"none"} : TransitionTo(target)

EffectiveSequence ==
    SelectSeq(LinearOrder, LAMBDA p : ~(machine.path = "express" /\ p = "PLAN"))
Advance ==
    \E i \in 1 .. Len(EffectiveSequence) - 1 :
        EffectiveSequence[i] = machine.phase /\ TransitionTo(EffectiveSequence[i + 1])

(* Security words, infrastructure words and files add up to two points each to a       *)
(* baseline of medium: the two lowest levels are never assessed, only given.          *)
AssessRisk ==
    /\ \E points \in 0 .. 6 :
         machine' = [machine EXCEPT !.risk = RiskLevels[IF points > 2 THEN 5 ELSE points + 3]]
    /\ UNCHANGED <<leaving, saved>>
SelectDecisionPath ==
    /\ \E risk \in {RiskLevels[i] : i \in 1 .. 5} :
         machine' = [machine EXCEPT !.risk = risk, !.path = RiskToPath[risk]]
    /\ UNCHANGED <<leaving, saved>>

ToDict == saved' = machine /\ UNCHANGED <<machine, leaving>>
FromDict == leaving = <<>> /\ machine' = saved /\ UNCHANGED <<leaving, saved>>

PhaseCall ==
    \/ \E target \in Phases : TransitionTo(target)
    \/ Pause \/ Fail \/ Resume \/ Advance
    \/ AssessRisk \/ SelectDecisionPath \/ ToDict \/ FromDict

-------------------------------------------------------------------------------
(* A machine knows where a pause must resume exactly while it is paused, and that      *)
(* phase is one it may resume to and the one its audit trail last left: through hooks   *)
(* that pause, resume or fail in the middle of another transition, and through saving   *)
(* and restoring (transition_to, resume, to_dict, from_dict).  Only a machine that was   *)
(* made PAUSED, and has not left that phase yet, does not know.                     *)
PausedKnowsWhere ==
    /\ machine.before # "none" => machine.phase = "PAUSED"
    /\ machine.phase = "PAUSED" /\ machine.history # <<>> =>
         machine.before \in TransitionTable["PAUSED"] /\ machine.before = Last(machine.history).from
===============================================================================
