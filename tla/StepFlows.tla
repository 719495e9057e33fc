------------------------------- MODULE StepFlows -------------------------------
(***************************************************************************)
(* The executors of pipeline steps (executor/dsl_executors.py): a loop over sub-steps, a     *)
(* parallel set of them, a try with its finally, on one event loop and one context.  An        *)
(* agent, skill or tool answers, fails or is cancelled where it waits; an unknown type of       *)
(* step fails at once.  A failure is an answer, not an exception: the catch of a try is          *)
(* entered only for a step that is no mapping, or whose target no dictionary takes for a key      *)
(* (_execute_substep, agent_call).  Steps here are mappings whose targets are names, and the      *)
(* catch is left out.                                                           *)
(***************************************************************************)
EXTENDS Integers, Sequences, SequencesExt, FiniteSetsExt

CONSTANTS
    StepLists,     \* the sub-steps of a flow, by type
    Rounds         \* max_iterations of a loop

ASSUME StepsAssumption ==
    /\ Rounds \in Nat
    /\ StepLists \subseteq Seq({"call", "skill", "condition", "unknown"})

VARIABLES
    flows,         \* of every flow: kind, sub-steps, place, rounds made, calls made, answer
    results        \* the context's results: the outcome on record of a step and a round

flowVars == <<flows, results>>

FlowInit == flows = <<>> /\ results = {}

-------------------------------------------------------------------------------
Flow(kind, steps, place, guarded) ==
    [kind |-> kind, steps |-> steps, place |-> place, guarded |-> guarded, round |-> 0,
     calls |-> <<>>, answer |-> "none"]

(* A guarded loop has a condition, a guarded try a finally.                            *)
StartFlow(kind, steps, guarded) ==
    /\ flows' = Append(flows, Flow(kind, steps, IF kind = "loop" THEN "round" ELSE "steps", guarded))
    /\ UNCHANGED results

(* How a sub-step can end.  A condition that cannot be evaluated fails; a loop has no         *)
(* conditions and no skills, a parallel set no conditions.                              *)
Outcomes(kind, type) ==
    CASE type = "call" \/ (type = "skill" /\ kind # "loop") -> {"ok", "failed", "cancelled"}
      [] type = "condition" /\ kind = "try" -> {"ok", "failed"}
      [] OTHER -> {"failed"}
Skipped(flow, k) == flow.kind = "loop" /\ flow.steps[k] # "call"

Called(flow, k, outcome) ==
    [flow EXCEPT !.calls = Append(@, [step |-> k, round |-> flow.round, outcome |-> outcome])]
Ended(flow, place, answer) == [flow EXCEPT !.place = place, !.answer = answer]
Becomes(f, flow) == flows' = [flows EXCEPT ![f] = flow]

(* The steps of the present round of a loop that are still to be made.                  *)
Left(flow) ==
    {k \in 1 .. Len(flow.steps) : ~Skipped(flow, k)
        /\ \A c \in ToSet(flow.calls) : c.round = flow.round => c.step < k}

(* The next round, unless the condition is false or cannot be evaluated.                *)
LoopRound(f) ==
    LET flow == flows[f] IN
    /\ flow.kind = "loop" /\ flow.place = "round"
    /\ \/ flow.round < Rounds /\ Becomes(f, [flow EXCEPT !.round = @ + 1, !.place = "steps"])
       \/ (flow.round = Rounds \/ flow.guarded) /\ Becomes(f, Ended(flow, "returned", "ok"))
    /\ UNCHANGED results

(* Defect: the loop goes on after a step that failed.                                *)
LoopStepForgiving(f) ==
    LET flow == flows[f] IN
    /\ flow.kind = "loop" /\ flow.place = "steps"
    /\ \/ /\ Left(flow) = {} /\ UNCHANGED results /\ Becomes(f, [flow EXCEPT !.place = "round"])
       \/ /\ Left(flow) # {}
          /\ \E outcome \in Outcomes("loop", "call") :
               LET k == Min(Left(flow)) IN
               /\ Becomes(f, Called(flow, k, outcome))
               /\ results' = {r \in results : r[1] # k \/ r[2] # flow.round} \cup {<<k, flow.round, outcome>>}

(* The next step of the round.  A step that is cancelled ends the loop and leaves no result. *)
LoopStep(f) ==
    LET flow == flows[f] IN
    /\ flow.kind = "loop" /\ flow.place = "steps"
    /\ \/ /\ Left(flow) = {} /\ UNCHANGED results /\ Becomes(f, [flow EXCEPT !.place = "round"])
       \/ /\ Left(flow) # {}
          /\ \E outcome \in Outcomes("loop", "call") :
               LET k == Min(Left(flow))  called == Called(flow, k, outcome) IN
               /\ Becomes(f, CASE outcome = "ok" -> called
                               [] outcome = "failed" -> Ended(called, "returned", "failed")
                               [] OTHER -> Ended(called, "raised", "none"))
               /\ results' = IF outcome = "cancelled" THEN results
                             ELSE {r \in results : r[1] # k \/ r[2] # flow.round}
                                    \cup {<<k, flow.round, outcome>>}

(* Any sub-step that has not ended ends; the set answers once all have, whatever they were. *)
ParallelStep(f) ==
    LET flow == flows[f]  made == {c.step : c \in ToSet(flow.calls)} IN
    /\ flow.kind = "parallel" /\ flow.place = "steps" /\ UNCHANGED results
    /\ \/ \E k \in (1 .. Len(flow.steps)) \ made :
            \E outcome \in Outcomes("parallel", flow.steps[k]) : Becomes(f, Called(flow, k, outcome))
       \/ /\ Cardinality(made) = Len(flow.steps) /\ Becomes(f, Ended(flow, "returned", "ok"))

(* The waiting set itself is cancelled, and with it what it waits for.                  *)
ParallelCancelled(f) ==
    /\ flows[f].kind = "parallel" /\ flows[f].place = "steps" /\ UNCHANGED results
    /\ Becomes(f, Ended(flows[f], "raised", "none"))

(* The one step of a try, then its finally, whose own answer is dropped; a cancellation of      *)
(* either is raised after it.                                                   *)
TryStep(f) ==
    LET flow == flows[f] IN
    /\ flow.kind = "try" /\ flow.place = "steps" /\ UNCHANGED results
    /\ \E outcome \in Outcomes("try", flow.steps[1]) :
         Becomes(f, Ended(Called(flow, 1, outcome),
                          CASE flow.guarded -> "finally"
                            [] ~flow.guarded /\ outcome = "cancelled" -> "raised"
                            [] OTHER -> "returned",
                          IF outcome = "cancelled" THEN "none" ELSE outcome))
FinallyStep(f) ==
    LET flow == flows[f] IN
    /\ flow.place = "finally" /\ UNCHANGED results
    /\ \E outcome \in {"ok", "failed", "cancelled"} :
         Becomes(f, [Called(flow, 2, outcome) EXCEPT
                        !.place = IF outcome = "cancelled" \/ flow.answer = "none" THEN "raised"
                                  ELSE "returned"])

FlowCall ==
    \E kind \in {"loop", "parallel", "try"}, steps \in StepLists, guarded \in BOOLEAN :
        (kind = "parallel" => ~guarded) /\ StartFlow(kind, steps, guarded)
FlowStep ==
    \E f \in 1 .. Len(flows) :
        LoopRound(f) \/ LoopStep(f) \/ ParallelStep(f) \/ ParallelCancelled(f) \/ TryStep(f) \/ FinallyStep(f)

-------------------------------------------------------------------------------
Outcome(flow, i) == flow.calls[i].outcome
Calls(flow, k, n) == Cardinality({i \in 1 .. Len(flow.calls) : flow.calls[i].step = k /\ flow.calls[i].round = n})

(* A loop stops at its first step that does not succeed and answers ok only for whole rounds; *)
(* a parallel set that answers has made every sub-step once, in whatever order they end;        *)
(* a try that is over has made its finally once, also when its step was cancelled, and keeps    *)
(* the answer of the step (loop, parallel, try_catch).                                *)
FlowsAnswerForTheirSteps ==
    \A f \in 1 .. Len(flows) : LET flow == flows[f]  n == Len(flow.calls) IN
        /\ flow.kind = "loop" =>
             /\ \A i \in 1 .. n - 1 : Outcome(flow, i) = "ok"
             /\ flow.answer = "failed" <=> n > 0 /\ Outcome(flow, n) = "failed"
             /\ flow.answer = "ok" =>
                  \A k \in 1 .. Len(flow.steps), r \in 1 .. flow.round :
                      Calls(flow, k, r) = IF flow.steps[k] = "call" THEN 1 ELSE 0
        /\ flow.kind = "parallel" /\ flow.place = "returned" =>
             \A k \in 1 .. Len(flow.steps) : Calls(flow, k, 0) = 1
        /\ flow.kind = "try" /\ flow.place \in {"returned", "raised"} =>
             /\ Calls(flow, 1, 0) = 1 /\ Calls(flow, 2, 0) = IF flow.guarded THEN 1 ELSE 0
             /\ flow.place = "returned" => flow.answer = Outcome(flow, 1)
===============================================================================
