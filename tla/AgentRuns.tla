------------------------------- MODULE AgentRuns -------------------------------
(***************************************************************************)
(* The runs of agents (executor/core/agent_runner.py, agent_executor.py): a call    *)
(* with retries and a backoff between them, beside other calls that run the same      *)
(* agent or cancel it.  The runner keeps one state per agent name, the one written     *)
(* last; the executor gives its state to its caller.                              *)
(*                                                                          *)
(* The runner simulates at once when it has no client; with one, every attempt fails,  *)
(* the call of the model being unimplemented.  Its client may be set between attempts. *)
(***************************************************************************)
EXTENDS Integers, Sequences

CONSTANTS
    Agents,        \* agent names
    MaxRetries     \* max_retries of the governance configuration

ASSUME RetriesAssumption == MaxRetries \in Nat

VARIABLES
    runs,          \* of every call: kind, agent, status, attempt, and where it is
    states,        \* _states: the run whose state is kept for an agent, 0 for none
    client         \* an LLM client is set

runVars == <<runs, states, client>>

RunInit == runs = <<>> /\ states = [a \in Agents |-> 0] /\ client = FALSE

-------------------------------------------------------------------------------
(* One attempt, up to the return or to the sleep before the next attempt.            *)
Attempted(run, fails) ==
    IF ~fails THEN [run EXCEPT !.status = "COMPLETED", !.at = "returned"]
    ELSE IF run.attempt >= MaxRetries THEN [run EXCEPT !.status = "FAILED", !.at = "returned"]
    ELSE [run EXCEPT !.status = "RETRYING", !.attempt = @ + 1, !.at = "sleeping"]

Fails(kind) == IF kind = "runner" THEN {client} ELSE BOOLEAN

RunAgent(a, kind) ==
    LET run == [kind |-> kind, agent |-> a, status |-> "RUNNING", attempt |-> 0, at |-> "new"] IN
    /\ \/ \E fails \in Fails(kind) : runs' = Append(runs, Attempted(run, fails))
       \/ kind = "executor" /\ runs' = Append(runs, [run EXCEPT !.at = "attempting"])
    /\ states' = IF kind = "runner" THEN [states EXCEPT ![a] = Len(runs')] ELSE states
    /\ UNCHANGED client

(* Defect: the state is put on file at every attempt.                               *)
RetryOnFile(r) ==
    /\ runs[r].at \in {"sleeping", "attempting"}
    /\ \E fails \in Fails(runs[r].kind) : runs' = [runs EXCEPT ![r] = Attempted(runs[r], fails)]
    /\ states' = IF runs[r].kind = "runner" THEN [states EXCEPT ![runs[r].agent] = r] ELSE states
    /\ UNCHANGED client

(* The backoff, or an attempt that is awaited, is over.  A run of the runner that returns  *)
(* puts its state on file again.                                                *)
Retry(r) ==
    /\ runs[r].at \in {"sleeping", "attempting"}
    /\ \E fails \in Fails(runs[r].kind) : runs' = [runs EXCEPT ![r] = Attempted(runs[r], fails)]
    /\ states' = IF runs[r].kind = "runner" /\ runs'[r].at = "returned"
                 THEN [states EXCEPT ![runs[r].agent] = r] ELSE states
    /\ UNCHANGED client

(* The coroutine itself is cancelled where it waits: nothing is written.             *)
Abandon(r) ==
    /\ runs[r].at \in {"sleeping", "attempting"} /\ runs' = [runs EXCEPT ![r].at = "abandoned"]
    /\ UNCHANGED <<states, client>>

(* cancel_agent by name, cancel by the state: the run itself is not told.            *)
Cancelled(r) ==
    /\ runs[r].status \in {"RUNNING", "RETRYING"}
    /\ runs' = [runs EXCEPT ![r].status = "CANCELLED"]
    /\ UNCHANGED <<states, client>>
CancelAgent(a) == states[a] # 0 /\ Cancelled(states[a])
CancelExecution(r) == runs[r].kind = "executor" /\ Cancelled(r)

SetLlmClient == client' = ~client /\ UNCHANGED <<runs, states>>

RunCall ==
    \/ \E a \in Agents : CancelAgent(a) \/ \E kind \in {"runner", "executor"} : RunAgent(a, kind)
    \/ \E r \in 1 .. Len(runs) : CancelExecution(r) \/ Abandon(r)
    \/ SetLlmClient
RunStep == \E r \in 1 .. Len(runs) : Retry(r)

-------------------------------------------------------------------------------
(* Runs of one agent share its name, and so the state that cancel_agent finds, of which an  *)
(* older run that returns takes hold again.  A cancellation by name still strikes the run    *)
(* begun last, or none: no older one is cancelled in its place (run_agent, cancel_agent).    *)
IsNewest(r) ==
    \A q \in r + 1 .. Len(runs) : runs[q].kind = "runner" => runs[q].agent # runs[r].agent
CancelHitsTheNewest ==
    [][\A r \in 1 .. Len(runs) :
           /\ runs[r].kind = "runner"
           /\ runs[r].status # "CANCELLED" /\ runs'[r].status = "CANCELLED"
           => IsNewest(r)]_runVars
===============================================================================
