----------------------------- MODULE WorkflowRun -----------------------------
(***************************************************************************)
(* AgentRuntime.run_task and compensate_effect (executor/engine.py) for one  *)
(* Workflow Mesh run: the turn loop over the LLM and the tools, the          *)
(* checkpoint log that lets a later call resume it (workflow_checkpoint.py), *)
(* the admission gate (workflow_admission.py) and the lifecycle events       *)
(* handed to the event sink (workflow_mesh.py).                              *)
(*                                                                          *)
(* The run is called with a checkpoint store, an effect store and a sink,    *)
(* again and again, by one process at a time; the process may be killed at   *)
(* any point, which loses everything but the checkpoint log, the effect      *)
(* journal and the events.  The effect store appears as EffectOnce, which    *)
(* EffectJournal implements.  Messages, usage and tool output are left out:  *)
(* of a checkpoint's state only the effects it reports matter here, and of   *)
(* the events only those under the key {run}:terminal, which tell its outcome. *)
(***************************************************************************)
EXTENDS Naturals, Sequences, FiniteSets

CONSTANTS
    Effects,         \* the effect keys the run's tool calls can have
    ToolCallLists,   \* the lists of tool calls an LLM answer can carry
    MaxTurns,        \* max_turns
    RetryPolicies,   \* values of retry_policy["max_attempts"]
    MaxCalls         \* bound on the calls of run_task

ASSUME ToolCallListsAssumption ==
    /\ ToolCallLists \subseteq Seq(Effects)
    /\ <<>> \notin ToolCallLists
ASSUME MaxTurnsAssumption == MaxTurns \in Nat \ {0}
ASSUME RetryPoliciesAssumption == RetryPolicies \subseteq Nat \ {0}
ASSUME MaxCallsAssumption == MaxCalls \in Nat

VARIABLES
    (* durable *)
    checkpoints,   \* the checkpoint log of the step, in append order
    ledger,        \* ledger[e]: what the effect journal says of effect e
    performed,     \* performed[<<kind, e>>]: ghost of EffectOnce
    announced,     \* types of the events the sink has under {run}:terminal
    (* local variables of the call that is running *)
    pc,
    attempt,
    turn,
    retryCount,
    policy,        \* retry_max_attempts
    toolCalls,     \* tool calls of the turn still to execute
    reported,      \* effect_receipts: effects reported as done
    pending,       \* the checkpoint about to be saved
    llm,           \* how the last LLM call went
    (* the caller's side *)
    calls,         \* calls of run_task so far
    answer,        \* how the last call ended
    (* history *)
    restarted,     \* some call passed resume=False
    orphans,       \* effects done in a turn that left no checkpoint
    windowLosses   \* a call ended between WorkflowSucceeded and its checkpoint

vars == <<checkpoints, ledger, performed, announced, pc, attempt, turn, retryCount,
          policy, toolCalls, reported, pending, llm, calls, answer,
          restarted, orphans, windowLosses>>

store == <<checkpoints>>
effects == <<ledger, performed>>
loop == <<attempt, turn, retryCount, policy>>
history == <<restarted, orphans, windowLosses>>

EffectStore == INSTANCE EffectOnce WITH Keys <- Effects

Statuses == {"running", "failed", "succeeded"}
NoCheckpoint == [next_turn |-> 0, status |-> "running", attempt |-> 0, reported |-> {}]

Locations == {"idle", "turn", "tools", "record", "save"}
Answers == {"none", "not_admitted", "cached", "result", "error", "truncated",
            "conflict", "raised"}

Init ==
    /\ checkpoints = <<>>
    /\ EffectStore!Init
    /\ announced = {}
    /\ pc = "idle"
    /\ attempt = 0 /\ turn = 0 /\ retryCount = 0 /\ policy = 1
    /\ toolCalls = <<>> /\ reported = {} /\ pending = NoCheckpoint /\ llm = "none"
    /\ calls = 0 /\ answer = "none"
    /\ restarted = FALSE /\ orphans = {} /\ windowLosses = FALSE

-------------------------------------------------------------------------------
(* WorkflowCheckpointStore.latest: the last record of the step, if any.     *)
Latest == IF checkpoints = <<>> THEN NoCheckpoint ELSE checkpoints[Len(checkpoints)]

(* The local emit of run_task: a sink that raises only adds to mesh_errors.  *)
Announce(type) == announced' = announced \cup {type} \/ UNCHANGED announced

(* The call is over; its locals are gone.                                   *)
Return(a) ==
    /\ pc' = "idle"
    /\ answer' = a
    /\ attempt' = 0 /\ turn' = 0 /\ retryCount' = 0 /\ policy' = 1
    /\ toolCalls' = <<>> /\ reported' = {} /\ pending' = NoCheckpoint /\ llm' = "none"

-------------------------------------------------------------------------------
(* run_task up to the turn loop.                                            *)

(* validate_admission_grant refuses: nothing is read or run.                *)
RefuseAdmission ==
    /\ pc = "idle" /\ calls < MaxCalls
    /\ calls' = calls + 1
    /\ Return("not_admitted")
    /\ UNCHANGED <<store, effects, announced, history>>

(* A succeeded run is answered from its checkpoint.                         *)
AnswerFromCheckpoint ==
    /\ pc = "idle" /\ calls < MaxCalls
    /\ Latest.status = "succeeded"
    /\ calls' = calls + 1
    /\ Return("cached")
    /\ UNCHANGED <<store, effects, announced, history>>

Resumable(resume) == IF resume THEN Latest ELSE NoCheckpoint

Begin(resume, p, receipts) ==
    /\ pc = "idle" /\ calls < MaxCalls
    /\ pc' = "turn"
    /\ calls' = calls + 1
    /\ answer' = "none"
    /\ restarted' = (restarted \/ (~resume /\ checkpoints # <<>>))
    /\ attempt' = Resumable(resume).attempt + 1
    /\ turn' = Resumable(resume).next_turn
    /\ reported' = receipts
    /\ retryCount' = 0 /\ policy' = p
    /\ UNCHANGED <<store, effects, announced, toolCalls, pending, llm, orphans,
                   windowLosses>>

(* Defect: the saved receipts are not restored.                             *)
StartAttemptForgetsReceipts(resume, p) ==
    /\ Resumable(resume).status # "succeeded"
    /\ Begin(resume, p, {})

(* Defect: a succeeded run is resumed like any other.                       *)
StartAttemptIgnoresSuccess(resume, p) == Begin(resume, p, Resumable(resume).reported)

(* An attempt begins, from the latest checkpoint or, with resume=False, from *)
(* scratch.                                                                 *)
StartAttempt(resume, p) ==
    /\ Resumable(resume).status # "succeeded"
    /\ Begin(resume, p, Resumable(resume).reported)

RunTask ==
    \/ RefuseAdmission
    \/ AnswerFromCheckpoint
    \/ \E resume \in BOOLEAN, p \in RetryPolicies : StartAttempt(resume, p)

-------------------------------------------------------------------------------
(* One turn of the loop: the LLM answers.                                   *)

InTurn == pc = "turn" /\ turn < MaxTurns

PrepareSave(status, next_turn) ==
    /\ pc' = "save"
    /\ pending' = [next_turn |-> next_turn, status |-> status,
                   attempt |-> attempt, reported |-> reported]

(* An error, and the retry policy allows another try: it costs a turn.       *)
LlmErrorRetried ==
    /\ InTurn
    /\ retryCount + 1 < policy
    /\ retryCount' = retryCount + 1
    /\ turn' = turn + 1
    /\ UNCHANGED <<pc, store, effects, announced, attempt, policy, toolCalls, reported,
                   pending, llm, calls, answer, history>>

(* An error, and no retry is left.                                          *)
LlmErrorFails ==
    /\ InTurn
    /\ retryCount + 1 >= policy
    /\ llm' = "error"
    /\ Announce("WorkflowFailed")
    /\ PrepareSave("failed", turn)
    /\ UNCHANGED <<store, effects, loop, toolCalls, reported, calls, answer, history>>

Stop(status) ==
    /\ InTurn
    /\ llm' = "stop"
    /\ Announce("WorkflowSucceeded")
    /\ PrepareSave(status, turn + 1)
    /\ UNCHANGED <<store, effects, loop, toolCalls, reported, calls, answer, history>>

(* Defect: the final checkpoint keeps the status of a turn's checkpoint.     *)
LlmStopsAsRunning == Stop("running")

(* The answer is a stop, or carries no tool call: the run has succeeded.      *)
(* That is also how the loop takes an exception of the gateway without a      *)
(* message (TimeoutError()): _call_llm returns "error": str(e), an empty     *)
(* string.                                                                  *)
LlmStops == Stop("succeeded")

(* The answer asks for tools; _call_llm then sets finish_reason to           *)
(* "tool_calls", so the loop never breaks off after them.                    *)
LlmCallsTools ==
    /\ InTurn
    /\ \E list \in ToolCallLists : toolCalls' = list
    /\ llm' = "tools"
    /\ pc' = "tools"
    /\ UNCHANGED <<store, effects, announced, loop, reported, pending, calls, answer, history>>

(* The loop is over without an answer.                                      *)
Exhaust(status) ==
    /\ llm' = "exhausted"
    /\ Announce("WorkflowFailed")
    /\ PrepareSave(status, MaxTurns)
    /\ UNCHANGED <<store, effects, loop, toolCalls, reported, calls, answer, history>>

(* Defect: the last turn is neither taken nor given up.                     *)
TurnsExhaustedTooLate == pc = "turn" /\ turn > MaxTurns /\ Exhaust("failed")

(* Every turn is used up, or the run was resumed with none left.            *)
TurnsExhausted == pc = "turn" /\ turn >= MaxTurns /\ Exhaust("failed")

-------------------------------------------------------------------------------
(* The tool calls of a turn, through execute_once_with_outcome.             *)

NextTool(e) == pc = "tools" /\ toolCalls # <<>> /\ e = Head(toolCalls)

(* remember_effect and remember_receipt after a success.                    *)
ToolDone(e) ==
    /\ pc' = "tools"
    /\ toolCalls' = Tail(toolCalls)
    /\ reported' = reported \cup {e}
    /\ UNCHANGED <<store, announced, loop, pending, llm, calls, answer, history>>

(* The journal holds the effect's success: it is replayed, also when the     *)
(* effect has been compensated since.                                       *)
ToolReplayed(e) ==
    /\ NextTool(e)
    /\ ledger[e] # "open"
    /\ ToolDone(e)
    /\ UNCHANGED effects

(* It is performed ...                                                      *)
ToolPerformed(e) ==
    /\ NextTool(e)
    /\ EffectStore!Perform(e)
    /\ pc' = "record"
    /\ UNCHANGED <<store, announced, loop, toolCalls, reported, pending, llm, calls,
                   answer, history>>

(* ... and its success recorded, in the same call of the store.             *)
ToolRecorded(e) ==
    /\ pc = "record" /\ e = Head(toolCalls)
    /\ EffectStore!Commit(e)
    /\ ToolDone(e)

(* Or the tool raised, having had its effect or not: the loop goes on with   *)
(* an error as the tool's result.                                           *)
ToolFailed(e) ==
    /\ \/ NextTool(e)
          /\ ledger[e] = "open"
       \/ pc = "record" /\ e = Head(toolCalls)
    /\ pc' = "tools"
    /\ toolCalls' = Tail(toolCalls)
    /\ UNCHANGED <<store, effects, announced, loop, reported, pending, llm, calls,
                   answer, history>>

(* After the last tool the turn is checkpointed.                            *)
ToolsDone ==
    /\ pc = "tools" /\ toolCalls = <<>>
    /\ PrepareSave("running", turn + 1)
    /\ UNCHANGED <<store, effects, announced, loop, toolCalls, reported, llm, calls, answer, history>>

-------------------------------------------------------------------------------
(* Defect: an id on file is not looked for.                                 *)
ConflictUnchecked(record) == record.next_turn < 0

(* WorkflowCheckpointStore.save.  checkpoint_id is run:step:next_turn, and    *)
(* recorded_at makes no two records equal, so an id that is on file is        *)
(* always a conflict.                                                        *)
Conflict(record) ==
    \E i \in 1 .. Len(checkpoints) : checkpoints[i].next_turn = record.next_turn

(* What the turn did is not on file when its checkpoint is not.              *)
LoseTurn ==
    /\ orphans' = orphans \cup {e \in Effects : e \in reported /\ e \notin Latest.reported}
    /\ windowLosses' = (windowLosses \/ (pc = "save" /\ pending.status = "succeeded"))
    /\ UNCHANGED restarted

(* ValueError("Conflicting checkpoint") goes up through run_task.           *)
SaveRaises ==
    /\ pc = "save"
    /\ Conflict(pending)
    /\ LoseTurn
    /\ Return("conflict")
    /\ UNCHANGED <<store, effects, announced, calls>>

SaveRunning ==
    /\ pc = "save"
    /\ pending.status = "running"
    /\ ~Conflict(pending)
    /\ checkpoints' = Append(checkpoints, pending)
    /\ turn' = turn + 1
    /\ pc' = "turn"
    /\ pending' = NoCheckpoint
    /\ UNCHANGED <<effects, announced, attempt, retryCount, policy, toolCalls,
                   reported, llm, calls, answer, history>>

SaveFinal ==
    /\ pc = "save"
    /\ pending.status # "running"
    /\ ~Conflict(pending)
    /\ checkpoints' = Append(checkpoints, pending)
    /\ Return(CASE pending.status = "succeeded" -> "result"
                [] llm = "exhausted" -> "truncated"
                [] OTHER -> "error")
    /\ UNCHANGED <<effects, announced, calls, history>>

-------------------------------------------------------------------------------
(* compensate_effect, called by someone who decides that an effect must be   *)
(* taken back.  Its own emit is not guarded: with the sink down it raises     *)
(* before anything is compensated, or after.                                *)

CompensationSucceeds(e) ==
    /\ \/ ledger[e] = "undone" /\ UNCHANGED effects
       \/ /\ ledger[e] = "done"
          /\ ledger' = [ledger EXCEPT ![e] = "undone"]
          /\ performed' = [performed EXCEPT ![<<"compensation", e>>] = @ + 1]

CompensationFails(e) ==
    /\ ledger[e] = "done"
    /\ \/ UNCHANGED effects
       \/ EffectStore!Revert(e)

Compensate(e) ==
    /\ pc = "idle" /\ calls < MaxCalls
    /\ calls' = calls + 1
    /\ CompensationSucceeds(e) \/ CompensationFails(e)
    /\ UNCHANGED <<store, announced, pc, loop, toolCalls, reported, pending, llm, answer,
                   history>>

(* The process is killed, or an exception nobody catches goes up through     *)
(* run_task (an OSError of the journal or of the checkpoint log, say).       *)
Killed == pc # "idle" /\ Return("none")
Raises == pc # "idle" /\ Return("raised")

Abort ==
    /\ LoseTurn
    /\ Killed \/ Raises
    /\ UNCHANGED <<store, effects, announced, calls>>

Step ==
    \/ LlmErrorRetried
    \/ LlmErrorFails
    \/ LlmStops
    \/ LlmCallsTools
    \/ TurnsExhausted
    \/ \E e \in Effects : \/ ToolReplayed(e)
                          \/ ToolPerformed(e)
                          \/ ToolRecorded(e)
                          \/ ToolFailed(e)
    \/ ToolsDone
    \/ SaveRaises
    \/ SaveRunning
    \/ SaveFinal

Next == RunTask \/ Step \/ (\E e \in Effects : Compensate(e)) \/ Abort

Spec == Init /\ [][Next]_vars

(* A call that runs goes on: the LLM and the tools answer or fail.           *)
FairSpec == Spec /\ WF_vars(Step)

-------------------------------------------------------------------------------
(* Properties.                                                              *)

(* The log can be resumed from its end: as long as no call started the run   *)
(* over, each checkpoint lies at a later turn than the one before, belongs to *)
(* the same or a later attempt and reports at least the same effects; and a   *)
(* running call is never behind the log.  Kills, failed attempts, retries    *)
(* and resumes in any order keep it so.                                      *)
CheckpointsAdvance ==
    restarted \/
        /\ \A i, j \in 1 .. Len(checkpoints) : i < j =>
              /\ checkpoints[i].next_turn < checkpoints[j].next_turn
              /\ checkpoints[i].attempt <= checkpoints[j].attempt
              /\ checkpoints[i].reported \subseteq checkpoints[j].reported
        /\ pc # "idle" => /\ turn >= Latest.next_turn
                          /\ attempt >= Latest.attempt
                          /\ Latest.reported \subseteq reported

(* No receipt is lost on the way to the caller: an effect whose success is on *)
(* file is reported by the latest checkpoint or by the running call, unless  *)
(* the turn that performed it was cut short before its checkpoint; and       *)
(* nothing is reported that is not on file.                                  *)
ReceiptsMatchJournal ==
    /\ \A e \in Effects :
          ledger[e] # "open" => \/ restarted
                                \/ e \in Latest.reported \cup reported \cup orphans
    /\ \A e \in Latest.reported \cup reported : ledger[e] # "open"

(* A run that has succeeded stays so: unless a caller starts it over, no      *)
(* later call appends a checkpoint, performs an effect again or announces a  *)
(* failure of it.                                                            *)
SucceededRunIsFinal ==
    [][Latest.status = "succeeded" /\ ~restarted' =>
          /\ UNCHANGED checkpoints
          /\ \A e \in Effects : performed'[<<"effect", e>>] = performed[<<"effect", e>>]
          /\ "WorkflowFailed" \in announced' => "WorkflowFailed" \in announced]_vars

(* WorkflowSucceeded goes to the sink before the checkpoint is saved.  If the *)
(* sink has it, the checkpoint is on file or about to be, unless a call       *)
(* ended in between; the run then starts its last turn again although it has  *)
(* been announced as succeeded.                                              *)
SuccessEventIsBacked ==
    "WorkflowSucceeded" \in announced =>
        \/ \E i \in 1 .. Len(checkpoints) : checkpoints[i].status = "succeeded"
        \/ pc = "save" /\ pending.status = "succeeded"
        \/ windowLosses

(* A call of run_task ends, whatever the LLM and the tools answer: retries   *)
(* and tool turns use up the turns, also when it resumes with none left.     *)
CallTerminates == (pc # "idle") ~> (pc = "idle")

===============================================================================
