------------------------------ MODULE ExecutorBooks ------------------------------
(***************************************************************************)
(* The books the executor keeps in memory, as its callers see them: the phases of a        *)
(* project, the runs of its agents, the votes of its governance, the measurements of its     *)
(* quality, the ledger of its actions, the source its pipeline parser reads and the flows of  *)
(* its steps.  Each is a module of its own and none reads another; their callers share one     *)
(* process, and a case says how many calls each book gets.                              *)
(***************************************************************************)
EXTENDS PhaseMachine, AgentRuns, Governance, QualityReport, MerkleLedger, PipelineParser,
        StepFlows

Books == {"phase", "runs", "governance", "quality", "ledger", "parser", "flows"}

CONSTANT Cases     \* bound: how many calls each book gets, one function per case

VARIABLE calls     \* the calls left

vars ==
    <<phaseVars, runVars, governanceVars, qualityVars, ledgerVars, parserVars, flowVars, calls>>

Init ==
    /\ calls \in Cases
    /\ PhaseInit /\ RunInit /\ GovernanceInit /\ QualityInit /\ LedgerInit /\ ParserInit
    /\ FlowInit
    /\ calls["governance"] = 0 => strategy = "simple"
    /\ calls["phase"] = 0 => machine.phase = "INIT"

Call(book) == calls[book] > 0 /\ calls' = [calls EXCEPT ![book] = @ - 1]

PhaseBook ==
    /\ \/ Call("phase") /\ PhaseCall
       \/ UNCHANGED calls /\ HookReturns
    /\ UNCHANGED <<runVars, governanceVars, qualityVars, ledgerVars, parserVars, flowVars>>

RunBook ==
    /\ \/ Call("runs") /\ RunCall
       \/ UNCHANGED calls /\ RunStep
    /\ UNCHANGED <<phaseVars, governanceVars, qualityVars, ledgerVars, parserVars, flowVars>>

GovernanceBook ==
    /\ Call("governance") /\ GovernanceCall
    /\ UNCHANGED <<phaseVars, runVars, qualityVars, ledgerVars, parserVars, flowVars>>

QualityBook ==
    /\ Call("quality") /\ QualityCall
    /\ UNCHANGED <<phaseVars, runVars, governanceVars, ledgerVars, parserVars, flowVars>>

LedgerBook ==
    /\ Call("ledger") /\ LedgerCall
    /\ UNCHANGED <<phaseVars, runVars, governanceVars, qualityVars, parserVars, flowVars>>

ParserBook ==
    /\ UNCHANGED calls /\ calls["parser"] > 0 /\ ParserStep
    /\ UNCHANGED <<phaseVars, runVars, governanceVars, qualityVars, ledgerVars, flowVars>>

FlowBook ==
    /\ \/ Call("flows") /\ FlowCall
       \/ UNCHANGED calls /\ FlowStep
    /\ UNCHANGED <<phaseVars, runVars, governanceVars, qualityVars, ledgerVars, parserVars>>

Next ==
    \/ PhaseBook \/ RunBook \/ GovernanceBook \/ QualityBook \/ LedgerBook \/ ParserBook
    \/ FlowBook

(* The parser waits for nobody: what it has begun it goes on with.                    *)
Spec == Init /\ [][Next]_vars /\ WF_vars(ParserBook)
===============================================================================
