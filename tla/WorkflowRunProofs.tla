--------------------------- MODULE WorkflowRunProofs ---------------------------
(***************************************************************************)
(* Proofs about WorkflowRun, for any effects, tool-call lists, retry policies,  *)
(* and numbers of turns and calls: the checkpoint log advances, receipts match   *)
(* the effect journal, an announced success is backed, and a success is final.   *)
(***************************************************************************)
EXTENDS WorkflowRun, SequenceTheorems, TLAPS

Checkpoint ==
    [next_turn : Nat, status : Statuses, attempt : Nat, reported : SUBSET Effects]

(* The type invariant of the log, of the call that runs and of the ghosts.       *)
TypeOK ==
    /\ checkpoints \in Seq(Checkpoint)
    /\ ledger \in [Effects -> EffectStore!States]
    /\ performed \in [EffectStore!Kinds \X Effects -> Nat]
    /\ pc \in Locations
    /\ attempt \in Nat /\ turn \in Nat /\ retryCount \in Nat /\ policy \in Nat
    /\ toolCalls \in Seq(Effects) /\ reported \in SUBSET Effects
    /\ pending \in Checkpoint
    /\ calls \in Nat /\ restarted \in BOOLEAN

(* No boundary lies beyond the last turn, and a call stands within the turns.     *)
TurnsAreBounded ==
    /\ \A i \in 1 .. Len(checkpoints) : checkpoints[i].next_turn <= MaxTurns
    /\ turn <= MaxTurns
    /\ pc \in {"tools", "record"} => turn < MaxTurns

(* The checkpoint about to be saved is the call's own, at this turn or a later one; *)
(* only the end of a turn of tools goes on.                                     *)
PendingIsTheCalls ==
    pc = "save" =>
        /\ pending.attempt = attempt /\ pending.reported = reported
        /\ turn <= pending.next_turn /\ pending.next_turn <= MaxTurns
        /\ pending.status = "running" => pending.next_turn = turn + 1

IdleHoldsNothing == pc = "idle" => reported = {}

(* A success is recorded for the tool call it belongs to.                        *)
RecordHasItsCall == pc = "record" => toolCalls # <<>>

(* No call goes on with a run whose latest checkpoint says it succeeded.         *)
SucceededIsLeft == restarted \/ Latest.status # "succeeded" \/ pc = "idle"

(* The inductive invariant.  None of the three properties is inductive: what a save  *)
(* appends is judged by what the call knew when it prepared it.                 *)
IInv ==
    /\ TypeOK /\ TurnsAreBounded /\ PendingIsTheCalls /\ IdleHoldsNothing
    /\ RecordHasItsCall /\ SucceededIsLeft
    /\ CheckpointsAdvance /\ ReceiptsMatchJournal /\ SuccessEventIsBacked

-------------------------------------------------------------------------------
(* Lemmas about the log.                                                         *)

(* The types of a checkpoint's fields.                                        *)
LEMMA CheckpointFields ==
    ASSUME NEW c \in Checkpoint
    PROVE  /\ c.next_turn \in Nat /\ c.status \in Statuses
           /\ c.attempt \in Nat /\ c.reported \in SUBSET Effects
  BY DEF Checkpoint

(* A step that never ran counts as a run at its first turn.                   *)
LEMMA NoCheckpointTyped == NoCheckpoint \in Checkpoint
  BY DEF NoCheckpoint, Checkpoint, Statuses

(* The latest checkpoint of a log that holds checkpoints, and its place.           *)
LEMMA LatestTyped ==
    ASSUME checkpoints \in Seq(Checkpoint)
    PROVE  /\ Latest \in Checkpoint
           /\ checkpoints # <<>> => /\ Len(checkpoints) \in 1 .. Len(checkpoints)
                                    /\ Latest = checkpoints[Len(checkpoints)]
           /\ checkpoints = <<>> => Len(checkpoints) = 0 /\ Latest = NoCheckpoint
<1>1. CASE checkpoints = <<>>
  BY <1>1, NoCheckpointTyped, EmptySeq DEF Latest
<1>2. CASE checkpoints # <<>>
  <2>1. Len(checkpoints) \in Nat \ {0}
    BY <1>2, EmptySeq
  <2>2. Len(checkpoints) \in 1 .. Len(checkpoints)
    BY <2>1
  <2>3. checkpoints[Len(checkpoints)] \in Checkpoint
    BY <2>2, ElementOfSeq
  <2>4. QED
    BY <1>2, <2>2, <2>3 DEF Latest
<1>3. QED
  BY <1>1, <1>2

(* What a save leaves: one checkpoint more, which is the latest.                  *)
LEMMA SaveAppends ==
    ASSUME checkpoints \in Seq(Checkpoint), pending \in Checkpoint,
           checkpoints' = Append(checkpoints, pending)
    PROVE  /\ checkpoints' \in Seq(Checkpoint)
           /\ Len(checkpoints) \in Nat
           /\ Len(checkpoints') = Len(checkpoints) + 1
           /\ \A i \in 1 .. Len(checkpoints) : checkpoints'[i] = checkpoints[i]
           /\ checkpoints'[Len(checkpoints) + 1] = pending
           /\ Latest' = pending
<1>1. /\ Append(checkpoints, pending) \in Seq(Checkpoint)
      /\ Len(Append(checkpoints, pending)) = Len(checkpoints) + 1
      /\ \A i \in 1 .. Len(checkpoints) : Append(checkpoints, pending)[i] = checkpoints[i]
      /\ Append(checkpoints, pending)[Len(checkpoints) + 1] = pending
      /\ Append(checkpoints, pending) # <<>>
  BY AppendProperties
<1>2. Len(checkpoints) \in Nat
  BY LenProperties
<1>3. checkpoints'[Len(checkpoints')] = pending /\ checkpoints' # <<>>
  BY <1>1
<1>4. Latest' = pending
  BY <1>3 DEF Latest
<1>5. QED
  BY <1>1, <1>2, <1>4

(* Only a save writes the log.                                                   *)
LEMMA LogSteps ==
    [Next]_vars => UNCHANGED checkpoints \/ SaveRunning \/ SaveFinal
<1> SUFFICES ASSUME [Next]_vars PROVE UNCHANGED checkpoints \/ SaveRunning \/ SaveFinal
  OBVIOUS
<1>1. CASE RunTask
  BY <1>1 DEF RunTask, RefuseAdmission, AnswerFromCheckpoint, StartAttempt, Begin, store
<1>2. CASE Step
  BY <1>2 DEF Step, LlmErrorRetried, LlmErrorFails, LlmStops, Stop, LlmCallsTools, TurnsExhausted, Exhaust, ToolReplayed, ToolPerformed, ToolRecorded, ToolFailed, ToolDone, ToolsDone, SaveRaises, store
<1>3. CASE \E e \in Effects : Compensate(e)
  BY <1>3 DEF Compensate, store
<1>4. CASE Abort
  BY <1>4 DEF Abort, store
<1>5. CASE UNCHANGED vars
  BY <1>5 DEF vars
<1>6. QED
  BY <1>1, <1>2, <1>3, <1>4, <1>5 DEF Next

(* An effect's entry goes from open to done or from done to undone.               *)
LEMMA LedgerSteps ==
    ASSUME TypeOK, [Next]_vars
    PROVE  \/ UNCHANGED ledger
           \/ \E e \in Effects :
                 /\ ToolRecorded(e) \/ Compensate(e)
                 /\ ledger' \in {[ledger EXCEPT ![e] = s] : s \in {"done", "undone"}}
<1>1. CASE RunTask
  BY <1>1 DEF RunTask, RefuseAdmission, AnswerFromCheckpoint, StartAttempt, Begin, effects
<1>2. ASSUME NEW e \in Effects, ToolRecorded(e)
      PROVE  ledger' = [ledger EXCEPT ![e] = "done"]
  BY <1>2 DEF ToolRecorded, EffectStore!Commit
<1>3. CASE Step
  BY <1>3, <1>2 DEF Step, LlmErrorRetried, LlmErrorFails, LlmStops, Stop, LlmCallsTools, TurnsExhausted, Exhaust, ToolReplayed, ToolPerformed, ToolFailed, ToolsDone, SaveRaises, SaveRunning, SaveFinal, effects, EffectStore!Perform
<1>4. CASE \E e \in Effects : Compensate(e)
  BY <1>4 DEF Compensate, CompensationSucceeds, CompensationFails, effects, EffectStore!Revert
<1>5. CASE Abort
  BY <1>5 DEF Abort, effects
<1>6. CASE UNCHANGED vars
  BY <1>6 DEF vars
<1>7. QED
  BY <1>1, <1>3, <1>4, <1>5, <1>6 DEF Next

(* No entry returns to open.                                                     *)
LEMMA RecordsStay ==
    ASSUME TypeOK, [Next]_vars, NEW e \in Effects, ledger[e] # "open"
    PROVE  ledger'[e] # "open"
  BY LedgerSteps DEF TypeOK

-------------------------------------------------------------------------------
(* The inductive invariant holds initially and is kept by every step.              *)

(* Nothing on file, nobody running.                                           *)
LEMMA InitIInv == Init => IInv
<1> SUFFICES ASSUME Init PROVE IInv
  OBVIOUS
<1>1. checkpoints = <<>> /\ checkpoints \in Seq(Checkpoint) /\ Len(checkpoints) = 0
  BY EmptySeq DEF Init
<1>2. Latest = NoCheckpoint
  BY <1>1 DEF Latest
<1>3. TypeOK
  <2>1. toolCalls \in Seq(Effects)
    BY EmptySeq DEF Init
  <2>2. pending \in Checkpoint
    BY NoCheckpointTyped DEF Init
  <2>3. /\ ledger \in [Effects -> EffectStore!States]
        /\ performed \in [EffectStore!Kinds \X Effects -> Nat]
    BY DEF Init, EffectStore!Init, EffectStore!States
  <2>4. QED
    BY <1>1, <2>1, <2>2, <2>3 DEF Init, TypeOK, Locations
<1>4. TurnsAreBounded
  BY <1>1, MaxTurnsAssumption DEF Init, TurnsAreBounded
<1>5. PendingIsTheCalls /\ IdleHoldsNothing /\ RecordHasItsCall /\ SucceededIsLeft
  BY DEF Init, PendingIsTheCalls, IdleHoldsNothing, RecordHasItsCall, SucceededIsLeft
<1>6. CheckpointsAdvance
  BY <1>1 DEF Init, CheckpointsAdvance
<1>7. ReceiptsMatchJournal
  BY <1>2 DEF Init, EffectStore!Init, ReceiptsMatchJournal, NoCheckpoint
<1>8. SuccessEventIsBacked
  BY DEF Init, SuccessEventIsBacked
<1>9. QED
  BY <1>3, <1>4, <1>5, <1>6, <1>7, <1>8 DEF IInv

(* The locals of a call that is over.                                            *)
LEMMA ReturnTyped ==
    ASSUME NEW a, Return(a)
    PROVE  /\ pc' = "idle" /\ reported' = {} /\ turn' = 0 /\ attempt' = 0
           /\ pc' \in Locations
           /\ attempt' \in Nat /\ turn' \in Nat /\ retryCount' \in Nat /\ policy' \in Nat
           /\ toolCalls' \in Seq(Effects) /\ reported' \in SUBSET Effects
           /\ pending' \in Checkpoint
  BY NoCheckpointTyped, EmptySeq DEF Return, Locations

(* Every step keeps the types.                                                *)
LEMMA TypeStep == IInv /\ [Next]_vars => TypeOK'
<1> SUFFICES ASSUME IInv, [Next]_vars PROVE TypeOK'
  OBVIOUS
<1>0. TypeOK /\ TurnsAreBounded /\ RecordHasItsCall
  BY DEF IInv
<1>1. CASE RefuseAdmission \/ AnswerFromCheckpoint
  BY <1>0, <1>1, ReturnTyped DEF RefuseAdmission, AnswerFromCheckpoint, store, effects, history, TypeOK
<1>2. ASSUME NEW resume \in BOOLEAN, NEW p \in RetryPolicies, StartAttempt(resume, p)
      PROVE  TypeOK'
  <2>1. Resumable(resume) \in Checkpoint
    BY <1>0, LatestTyped, NoCheckpointTyped DEF TypeOK, Resumable
  <2>2. /\ attempt' \in Nat /\ turn' \in Nat /\ reported' \in SUBSET Effects
        /\ retryCount' \in Nat /\ policy' \in Nat /\ calls' \in Nat
    BY <1>0, <1>2, <2>1, CheckpointFields, RetryPoliciesAssumption DEF StartAttempt, Begin, TypeOK
  <2>3. restarted' \in BOOLEAN /\ pc' \in Locations
    BY <1>0, <1>2 DEF StartAttempt, Begin, TypeOK, Locations
  <2>4. QED
    BY <1>0, <1>2, <2>2, <2>3 DEF StartAttempt, Begin, TypeOK, store, effects
<1>3. ASSUME NEW status \in Statuses, NEW next_turn \in Nat, PrepareSave(status, next_turn)
      PROVE  pending' \in Checkpoint /\ pc' \in Locations
  BY <1>0, <1>3 DEF PrepareSave, Checkpoint, TypeOK, Locations
<1>4. CASE LlmErrorRetried
  BY <1>0, <1>4 DEF LlmErrorRetried, TypeOK, store, effects, history
<1>5. CASE LlmErrorFails
  BY <1>0, <1>5, <1>3 DEF LlmErrorFails, TypeOK, store, effects, loop, history, Statuses
<1>6. CASE LlmStops
  BY <1>0, <1>6, <1>3 DEF LlmStops, Stop, TypeOK, store, effects, loop, history, Statuses
<1>7. CASE LlmCallsTools
  BY <1>0, <1>7, ToolCallListsAssumption DEF LlmCallsTools, TypeOK, store, effects, loop, history, Locations
<1>8. CASE TurnsExhausted
  BY <1>0, <1>8, <1>3, MaxTurnsAssumption DEF TurnsExhausted, Exhaust, TypeOK, store, effects, loop, history, Statuses
<1>9. ASSUME NEW e \in Effects, ToolReplayed(e) \/ ToolRecorded(e) \/ ToolFailed(e)
      PROVE  TypeOK'
  <2>1. toolCalls # <<>>
    BY <1>0, <1>9 DEF ToolReplayed, ToolRecorded, ToolFailed, NextTool, RecordHasItsCall
  <2>2. Tail(toolCalls) \in Seq(Effects)
    BY <1>0, <2>1, HeadTailProperties DEF TypeOK
  <2>3. toolCalls' \in Seq(Effects) /\ reported' \in SUBSET Effects /\ pc' \in Locations
    BY <1>0, <1>9, <2>2 DEF ToolReplayed, ToolRecorded, ToolFailed, ToolDone, TypeOK, Locations
  <2>4. ledger' \in [Effects -> EffectStore!States]
    BY <1>0, LedgerSteps DEF TypeOK, EffectStore!States
  <2>5. QED
    BY <1>0, <1>9, <2>3, <2>4 DEF ToolReplayed, ToolRecorded, ToolFailed, ToolDone, EffectStore!Commit, TypeOK, store, effects, loop, history
<1>10. ASSUME NEW e \in Effects, ToolPerformed(e)
       PROVE  TypeOK'
  <2>1. performed' \in [EffectStore!Kinds \X Effects -> Nat]
    BY <1>0, <1>10 DEF ToolPerformed, EffectStore!Perform, EffectStore!Kinds, TypeOK
  <2>2. QED
    BY <1>0, <1>10, <2>1 DEF ToolPerformed, EffectStore!Perform, TypeOK, store, loop, history, Locations
<1>11. CASE ToolsDone
  BY <1>0, <1>11, <1>3 DEF ToolsDone, TypeOK, store, effects, loop, history, Statuses
<1>12. CASE SaveRaises
  BY <1>0, <1>12, ReturnTyped DEF SaveRaises, LoseTurn, TypeOK, store, effects
<1>13. CASE SaveRunning
  BY <1>0, <1>13, SaveAppends, NoCheckpointTyped DEF SaveRunning, TypeOK, effects, history, Locations
<1>14. CASE SaveFinal
  <2>1. /\ pc' = "idle" /\ reported' = {} /\ toolCalls' = <<>> /\ pending' = NoCheckpoint
        /\ attempt' = 0 /\ turn' = 0 /\ retryCount' = 0 /\ policy' = 1
    BY <1>14, Zenon DEF SaveFinal, Return
  <2>2. checkpoints' = Append(checkpoints, pending) /\ UNCHANGED <<effects, calls, history>>
    BY <1>14, Zenon DEF SaveFinal
  <2>3. checkpoints' \in Seq(Checkpoint)
    BY <1>0, <2>2, SaveAppends DEF TypeOK
  <2>4. QED
    BY <1>0, <2>1, <2>2, <2>3, NoCheckpointTyped, EmptySeq DEF TypeOK, effects, history, Locations
<1>15. ASSUME NEW e \in Effects, Compensate(e)
       PROVE  TypeOK'
  <2>1. performed' \in [EffectStore!Kinds \X Effects -> Nat]
    <3>1. <<"compensation", e>> \in EffectStore!Kinds \X Effects
      BY DEF EffectStore!Kinds
    <3>2. \/ performed' = performed
          \/ performed' = [performed EXCEPT ![<<"compensation", e>>] = @ + 1]
      BY <1>15 DEF Compensate, CompensationSucceeds, CompensationFails, EffectStore!Revert, effects
    <3>3. performed[<<"compensation", e>>] + 1 \in Nat
      BY <1>0, <3>1 DEF TypeOK
    <3>4. QED
      BY <1>0, <3>1, <3>2, <3>3 DEF TypeOK
  <2>2. ledger' \in [Effects -> EffectStore!States]
    BY <1>0, LedgerSteps DEF TypeOK, EffectStore!States
  <2>3. QED
    BY <1>0, <1>15, <2>1, <2>2 DEF Compensate, TypeOK, store, loop, history
<1>16. CASE Abort
  BY <1>0, <1>16, ReturnTyped DEF Abort, LoseTurn, Killed, Raises, TypeOK, store, effects
<1>17. CASE UNCHANGED vars
  BY <1>0, <1>17 DEF vars, TypeOK
<1>18. QED
  BY <1>1, <1>2, <1>4, <1>5, <1>6, <1>7, <1>8, <1>9, <1>10, <1>11, <1>12, <1>13, <1>14, <1>15, <1>16, <1>17 DEF Next, RunTask, Step

(* No step takes a call or the log beyond the last turn.                      *)
LEMMA TurnsStep == IInv /\ [Next]_vars => TurnsAreBounded'
<1> SUFFICES ASSUME IInv, [Next]_vars PROVE TurnsAreBounded'
  OBVIOUS
<1>0. TypeOK /\ TurnsAreBounded /\ PendingIsTheCalls
  BY DEF IInv
<1> DEFINE LogBounded == \A i \in 1 .. Len(checkpoints) : checkpoints[i].next_turn <= MaxTurns
<1>1. LogBounded'
  <2>1. CASE UNCHANGED checkpoints
    BY <1>0, <2>1 DEF TurnsAreBounded
  <2>2. CASE SaveRunning \/ SaveFinal
    <3>1. pending.next_turn <= MaxTurns /\ checkpoints' = Append(checkpoints, pending)
      BY <1>0, <2>2 DEF SaveRunning, SaveFinal, PendingIsTheCalls
    <3>2. QED
      BY <1>0, <3>1, SaveAppends DEF TypeOK, TurnsAreBounded
  <2>3. QED
    BY <2>1, <2>2, LogSteps
<1>2. /\ turn' <= MaxTurns
      /\ pc' \in {"tools", "record"} => turn' < MaxTurns
  <2>1. CASE RefuseAdmission \/ AnswerFromCheckpoint \/ SaveRaises \/ SaveFinal \/ Abort
    BY <2>1, MaxTurnsAssumption DEF RefuseAdmission, AnswerFromCheckpoint, SaveRaises, SaveFinal, Abort, Killed, Raises, Return
  <2>2. ASSUME NEW resume \in BOOLEAN, NEW p \in RetryPolicies, StartAttempt(resume, p)
        PROVE  turn' <= MaxTurns /\ pc' = "turn"
    <3>1. Latest.next_turn <= MaxTurns
      BY <1>0, LatestTyped, MaxTurnsAssumption DEF TypeOK, TurnsAreBounded, NoCheckpoint
    <3>2. QED
      BY <2>2, <3>1, MaxTurnsAssumption DEF StartAttempt, Begin, Resumable, NoCheckpoint
  <2>3. CASE LlmErrorRetried
    BY <1>0, <2>3, MaxTurnsAssumption DEF LlmErrorRetried, InTurn, TypeOK, TurnsAreBounded
  <2>4. CASE LlmErrorFails \/ LlmStops \/ LlmCallsTools \/ TurnsExhausted \/ ToolsDone
    BY <1>0, <2>4 DEF LlmErrorFails, LlmStops, Stop, LlmCallsTools, InTurn, TurnsExhausted, Exhaust, ToolsDone, PrepareSave, TurnsAreBounded, loop
  <2>5. ASSUME NEW e \in Effects, ToolReplayed(e) \/ ToolPerformed(e) \/ ToolRecorded(e) \/ ToolFailed(e)
        PROVE  turn' <= MaxTurns /\ turn' < MaxTurns
    BY <1>0, <2>5 DEF ToolReplayed, ToolPerformed, ToolRecorded, ToolFailed, ToolDone, NextTool, TurnsAreBounded, loop
  <2>6. CASE SaveRunning
    BY <1>0, <2>6, CheckpointFields, MaxTurnsAssumption DEF SaveRunning, PendingIsTheCalls, TypeOK
  <2>7. CASE (\E e \in Effects : Compensate(e)) \/ UNCHANGED vars
    BY <1>0, <2>7 DEF Compensate, vars, loop, TurnsAreBounded
  <2>8. QED
    BY <2>1, <2>2, <2>3, <2>4, <2>5, <2>6, <2>7 DEF Next, RunTask, Step
<1>3. QED
  BY <1>1, <1>2 DEF TurnsAreBounded

(* What a call prepares to save carries the call's own attempt and effects.         *)
LEMMA PendingStep == IInv /\ [Next]_vars => PendingIsTheCalls'
<1> SUFFICES ASSUME IInv, [Next]_vars PROVE PendingIsTheCalls'
  OBVIOUS
<1>0. TypeOK /\ TurnsAreBounded /\ PendingIsTheCalls
  BY DEF IInv
<1>1. ASSUME NEW status \in Statuses, NEW next_turn \in Nat, PrepareSave(status, next_turn),
             turn <= next_turn, next_turn <= MaxTurns,
             status = "running" => next_turn = turn + 1,
             UNCHANGED <<loop, reported>>
      PROVE  PendingIsTheCalls'
  BY <1>1 DEF PrepareSave, PendingIsTheCalls, loop
<1>2. CASE LlmErrorFails
  BY <1>0, <1>2, <1>1 DEF LlmErrorFails, TypeOK, TurnsAreBounded, Statuses
<1>3. CASE LlmStops
  BY <1>0, <1>3, <1>1, MaxTurnsAssumption DEF LlmStops, Stop, InTurn, TypeOK, Statuses
<1>4. CASE TurnsExhausted
  BY <1>0, <1>4, <1>1, MaxTurnsAssumption DEF TurnsExhausted, Exhaust, TypeOK, TurnsAreBounded, Statuses
<1>5. CASE ToolsDone
  BY <1>0, <1>5, <1>1, MaxTurnsAssumption DEF ToolsDone, TypeOK, TurnsAreBounded, Statuses
<1>6. CASE RefuseAdmission \/ AnswerFromCheckpoint \/ SaveRaises \/ Abort
  BY <1>6 DEF RefuseAdmission, AnswerFromCheckpoint, SaveRaises, Abort, Killed, Raises, Return, PendingIsTheCalls
<1>7. CASE SaveFinal
  <2>1. pc' = "idle"
    BY <1>7, Zenon DEF SaveFinal, Return
  <2>2. QED
    BY <2>1 DEF PendingIsTheCalls
<1>8. ASSUME NEW resume \in BOOLEAN, NEW p \in RetryPolicies, StartAttempt(resume, p)
      PROVE  PendingIsTheCalls'
  BY <1>8 DEF StartAttempt, Begin, PendingIsTheCalls
<1>9. ASSUME NEW e \in Effects, ToolReplayed(e) \/ ToolPerformed(e) \/ ToolRecorded(e) \/ ToolFailed(e)
      PROVE  PendingIsTheCalls'
  BY <1>9 DEF ToolReplayed, ToolPerformed, ToolRecorded, ToolFailed, ToolDone, PendingIsTheCalls
<1>10. CASE LlmErrorRetried \/ LlmCallsTools \/ SaveRunning
  BY <1>10 DEF LlmErrorRetried, InTurn, LlmCallsTools, SaveRunning, PendingIsTheCalls
<1>11. CASE (\E e \in Effects : Compensate(e)) \/ UNCHANGED vars
  BY <1>0, <1>11 DEF Compensate, vars, loop, PendingIsTheCalls
<1>12. QED
  BY <1>2, <1>3, <1>4, <1>5, <1>6, <1>7, <1>8, <1>9, <1>10, <1>11 DEF Next, RunTask, Step

(* A call that is over reports nothing, and a success is recorded for its call.       *)
LEMMA CallStep == IInv /\ [Next]_vars => IdleHoldsNothing' /\ RecordHasItsCall'
<1> SUFFICES ASSUME IInv, [Next]_vars PROVE IdleHoldsNothing' /\ RecordHasItsCall'
  OBVIOUS
<1>0. IdleHoldsNothing /\ RecordHasItsCall
  BY DEF IInv
<1>1. CASE RefuseAdmission \/ AnswerFromCheckpoint \/ SaveRaises \/ Abort
  BY <1>1 DEF RefuseAdmission, AnswerFromCheckpoint, SaveRaises, Abort, Killed, Raises, Return, IdleHoldsNothing, RecordHasItsCall
<1>2. CASE SaveFinal
  <2>1. pc' = "idle" /\ reported' = {}
    BY <1>2, Zenon DEF SaveFinal, Return
  <2>2. QED
    BY <2>1 DEF IdleHoldsNothing, RecordHasItsCall
<1>3. ASSUME NEW resume \in BOOLEAN, NEW p \in RetryPolicies, StartAttempt(resume, p)
      PROVE  pc' \notin {"idle", "record"}
  BY <1>3 DEF StartAttempt, Begin
<1>4. ASSUME NEW e \in Effects, ToolReplayed(e) \/ ToolRecorded(e) \/ ToolFailed(e)
      PROVE  pc' \notin {"idle", "record"}
  BY <1>4 DEF ToolReplayed, ToolRecorded, ToolFailed, ToolDone
<1>5. ASSUME NEW e \in Effects, ToolPerformed(e)
      PROVE  pc' = "record" /\ toolCalls' # <<>>
  BY <1>5 DEF ToolPerformed, NextTool
<1>6. CASE LlmErrorRetried \/ LlmErrorFails \/ LlmStops \/ LlmCallsTools \/ TurnsExhausted \/ ToolsDone \/ SaveRunning
  BY <1>6 DEF LlmErrorRetried, LlmErrorFails, LlmStops, Stop, InTurn, LlmCallsTools, TurnsExhausted, Exhaust, ToolsDone, PrepareSave, SaveRunning, IdleHoldsNothing, RecordHasItsCall
<1>7. CASE (\E e \in Effects : Compensate(e)) \/ UNCHANGED vars
  BY <1>0, <1>7 DEF Compensate, vars, IdleHoldsNothing, RecordHasItsCall
<1>8. QED
  BY <1>1, <1>2, <1>3, <1>4, <1>5, <1>6, <1>7 DEF Next, RunTask, Step, IdleHoldsNothing, RecordHasItsCall

(* The log and the latest checkpoint between two saves.                           *)
LEMMA LatestStays == UNCHANGED checkpoints => UNCHANGED Latest
  BY DEF Latest

(* A call goes on with a succeeded run only after a caller has started it over.       *)
LEMMA LeftStep == IInv /\ [Next]_vars => SucceededIsLeft'
<1> SUFFICES ASSUME IInv, [Next]_vars PROVE SucceededIsLeft'
  OBVIOUS
<1>0. TypeOK /\ SucceededIsLeft
  BY DEF IInv
<1>1. CASE SaveRunning
  <2>1. Latest' = pending
    BY <1>0, <1>1, SaveAppends DEF SaveRunning, TypeOK
  <2>2. QED
    BY <1>1, <2>1 DEF SaveRunning, SucceededIsLeft
<1>2. CASE SaveFinal
  <2>1. pc' = "idle"
    BY <1>2, Zenon DEF SaveFinal, Return
  <2>2. QED
    BY <2>1 DEF SucceededIsLeft
<1>3. ASSUME NEW resume \in BOOLEAN, NEW p \in RetryPolicies, StartAttempt(resume, p)
      PROVE  SucceededIsLeft'
  <2>1. UNCHANGED Latest /\ restarted' = (restarted \/ (~resume /\ checkpoints # <<>>))
    BY <1>3, LatestStays DEF StartAttempt, Begin, store
  <2>2. CASE resume \/ checkpoints = <<>>
    <3>1. Latest.status # "succeeded"
      BY <1>0, <1>3, <2>2, LatestTyped DEF StartAttempt, Resumable, TypeOK
    <3>2. QED
      BY <2>1, <3>1 DEF SucceededIsLeft
  <2>3. CASE ~resume /\ checkpoints # <<>>
    BY <2>1, <2>3 DEF SucceededIsLeft
  <2>4. QED
    BY <2>2, <2>3
<1>4. CASE RefuseAdmission \/ AnswerFromCheckpoint \/ SaveRaises \/ Abort
  BY <1>4 DEF RefuseAdmission, AnswerFromCheckpoint, SaveRaises, Abort, Killed, Raises, Return, SucceededIsLeft
<1>5. CASE LlmErrorRetried \/ LlmErrorFails \/ LlmStops \/ LlmCallsTools \/ TurnsExhausted \/ ToolsDone
  <2>1. UNCHANGED checkpoints /\ UNCHANGED restarted /\ pc # "idle"
    BY <1>5 DEF LlmErrorRetried, LlmErrorFails, LlmStops, Stop, InTurn, LlmCallsTools, TurnsExhausted, Exhaust, ToolsDone, store, history
  <2>2. QED
    BY <1>0, <2>1, LatestStays DEF SucceededIsLeft
<1>6. ASSUME NEW e \in Effects, ToolReplayed(e) \/ ToolPerformed(e) \/ ToolRecorded(e) \/ ToolFailed(e)
      PROVE  SucceededIsLeft'
  <2>1. UNCHANGED checkpoints /\ UNCHANGED restarted /\ pc # "idle"
    BY <1>6 DEF ToolReplayed, ToolPerformed, ToolRecorded, ToolFailed, ToolDone, NextTool, store, history
  <2>2. QED
    BY <1>0, <2>1, LatestStays DEF SucceededIsLeft
<1>7. CASE (\E e \in Effects : Compensate(e)) \/ UNCHANGED vars
  BY <1>0, <1>7, LatestStays DEF Compensate, vars, store, history, SucceededIsLeft
<1>8. QED
  BY <1>1, <1>2, <1>3, <1>4, <1>5, <1>6, <1>7 DEF Next, RunTask, Step

-------------------------------------------------------------------------------
(* The three invariants.                                                         *)

(* A call that goes on stays at or beyond the log's end.                           *)
LEMMA AheadStays ==
    ASSUME TypeOK, CheckpointsAdvance, UNCHANGED <<checkpoints, restarted>>, pc # "idle",
           turn' \in Nat, attempt' \in Nat,
           turn' >= turn, attempt' >= attempt, reported \subseteq reported'
    PROVE  CheckpointsAdvance'
<1>1. UNCHANGED Latest /\ Latest \in Checkpoint
  BY LatestStays, LatestTyped DEF TypeOK
<1>2. Latest.next_turn \in Nat /\ Latest.attempt \in Nat
  BY <1>1, CheckpointFields
<1>3. ~restarted => /\ turn' >= Latest.next_turn
                    /\ attempt' >= Latest.attempt
                    /\ Latest.reported \subseteq reported'
  BY <1>2 DEF CheckpointsAdvance, TypeOK
<1>4. QED
  BY <1>1, <1>3 DEF CheckpointsAdvance

(* A save puts the call's own work behind everything on file.                       *)
LEMMA SaveAdvances ==
    ASSUME IInv, ~restarted, SaveRunning \/ SaveFinal
    PROVE  \A i, j \in 1 .. Len(checkpoints') : i < j =>
              /\ checkpoints'[i].next_turn < checkpoints'[j].next_turn
              /\ checkpoints'[i].attempt <= checkpoints'[j].attempt
              /\ checkpoints'[i].reported \subseteq checkpoints'[j].reported
<1>1. /\ TypeOK /\ CheckpointsAdvance /\ PendingIsTheCalls
      /\ pc = "save" /\ ~Conflict(pending) /\ checkpoints' = Append(checkpoints, pending)
  BY Zenon DEF IInv, SaveRunning, SaveFinal
<1>2. /\ Len(checkpoints) \in Nat
      /\ Len(checkpoints') = Len(checkpoints) + 1
      /\ \A i \in 1 .. Len(checkpoints) : checkpoints'[i] = checkpoints[i]
      /\ checkpoints'[Len(checkpoints) + 1] = pending
  BY <1>1, SaveAppends DEF TypeOK
<1>3. /\ pending.attempt = attempt /\ pending.reported = reported /\ turn <= pending.next_turn
      /\ pending.next_turn \in Nat /\ pending.attempt \in Nat /\ turn \in Nat
  BY <1>1, CheckpointFields DEF PendingIsTheCalls, TypeOK
<1>4. ASSUME NEW i \in 1 .. Len(checkpoints)
      PROVE  /\ checkpoints[i].next_turn < pending.next_turn
             /\ checkpoints[i].attempt <= pending.attempt
             /\ checkpoints[i].reported \subseteq pending.reported
  <2>1. /\ checkpoints[i] \in Checkpoint /\ Latest \in Checkpoint
        /\ checkpoints # <<>> /\ Latest = checkpoints[Len(checkpoints)]
        /\ Len(checkpoints) \in 1 .. Len(checkpoints)
    BY <1>1, <1>2, <1>4, ElementOfSeq, LatestTyped DEF TypeOK
  <2>2. /\ checkpoints[i].next_turn \in Nat /\ checkpoints[i].attempt \in Nat
        /\ Latest.next_turn \in Nat /\ Latest.attempt \in Nat
    BY <2>1, CheckpointFields
  <2>3. /\ checkpoints[i].next_turn <= Latest.next_turn
        /\ checkpoints[i].attempt <= Latest.attempt
        /\ checkpoints[i].reported \subseteq Latest.reported
    <3>1. CASE i = Len(checkpoints)
      BY <3>1, <2>1, <2>2
    <3>2. CASE i # Len(checkpoints)
      <4>1. i < Len(checkpoints)
        BY <1>2, <3>2
      <4>2. QED
        BY <1>1, <2>1, <2>2, <4>1 DEF CheckpointsAdvance
    <3>3. QED
      BY <3>1, <3>2
  <2>4. /\ Latest.next_turn <= turn /\ Latest.attempt <= attempt
        /\ Latest.reported \subseteq reported
    BY <1>1 DEF CheckpointsAdvance
  <2>5. checkpoints[i].next_turn # pending.next_turn
    BY <1>1 DEF Conflict
  <2>6. checkpoints[i].next_turn < pending.next_turn
    BY <1>3, <2>2, <2>3, <2>4, <2>5
  <2>7. checkpoints[i].attempt <= pending.attempt
    BY <1>3, <2>2, <2>3, <2>4
  <2>8. QED
    BY <1>3, <2>3, <2>4, <2>6, <2>7
<1>5. SUFFICES ASSUME NEW i \in 1 .. Len(checkpoints'), NEW j \in 1 .. Len(checkpoints'), i < j
               PROVE  /\ checkpoints'[i].next_turn < checkpoints'[j].next_turn
                      /\ checkpoints'[i].attempt <= checkpoints'[j].attempt
                      /\ checkpoints'[i].reported \subseteq checkpoints'[j].reported
  OBVIOUS
<1>6. i \in 1 .. Len(checkpoints) /\ checkpoints'[i] = checkpoints[i]
  BY <1>2, <1>5
<1>7. CASE j = Len(checkpoints) + 1
  BY <1>2, <1>4, <1>6, <1>7
<1>8. CASE j # Len(checkpoints) + 1
  <2>1. j \in 1 .. Len(checkpoints) /\ checkpoints'[j] = checkpoints[j]
    BY <1>2, <1>5, <1>8
  <2>2. QED
    BY <1>1, <1>5, <1>6, <2>1 DEF CheckpointsAdvance
<1>9. QED
  BY <1>7, <1>8

(* Every step leaves a log that can be resumed from its end.                  *)
LEMMA AdvanceStep == IInv /\ [Next]_vars => CheckpointsAdvance'
<1> SUFFICES ASSUME IInv, [Next]_vars PROVE CheckpointsAdvance'
  OBVIOUS
<1>0. TypeOK /\ CheckpointsAdvance /\ PendingIsTheCalls /\ TypeOK'
  BY TypeStep DEF IInv
<1>1. CASE RefuseAdmission \/ AnswerFromCheckpoint \/ SaveRaises \/ Abort
  <2>1. UNCHANGED <<checkpoints, restarted>> /\ pc' = "idle"
    BY <1>1 DEF RefuseAdmission, AnswerFromCheckpoint, SaveRaises, Abort, Killed, Raises, LoseTurn, Return, store, history
  <2>2. QED
    BY <1>0, <2>1 DEF CheckpointsAdvance
<1>2. ASSUME NEW resume \in BOOLEAN, NEW p \in RetryPolicies, StartAttempt(resume, p)
      PROVE  CheckpointsAdvance'
  <2>1. /\ UNCHANGED checkpoints /\ UNCHANGED Latest
        /\ restarted' = (restarted \/ (~resume /\ checkpoints # <<>>))
    BY <1>2, LatestStays DEF StartAttempt, Begin, store
  <2>2. Latest \in Checkpoint /\ (checkpoints = <<>> => Latest = NoCheckpoint)
    BY <1>0, LatestTyped DEF TypeOK
  <2>3. CASE resume \/ checkpoints = <<>>
    <3>1. Resumable(resume) = Latest
      BY <2>2, <2>3 DEF Resumable
    <3>2. turn' = Latest.next_turn /\ attempt' = Latest.attempt + 1 /\ reported' = Latest.reported
      BY <1>2, <3>1 DEF StartAttempt, Begin
    <3>3. turn' >= Latest.next_turn /\ attempt' >= Latest.attempt /\ Latest.reported \subseteq reported'
      BY <2>2, <3>2, CheckpointFields
    <3>4. QED
      BY <1>0, <2>1, <3>3 DEF CheckpointsAdvance
  <2>4. CASE ~resume /\ checkpoints # <<>>
    BY <2>1, <2>4 DEF CheckpointsAdvance
  <2>5. QED
    BY <2>3, <2>4
<1>3. CASE LlmErrorRetried \/ LlmErrorFails \/ LlmStops \/ LlmCallsTools \/ TurnsExhausted \/ ToolsDone
  <2>1. /\ UNCHANGED <<checkpoints, restarted, attempt, reported>> /\ pc # "idle"
        /\ turn' = turn \/ turn' = turn + 1
    BY <1>3 DEF LlmErrorRetried, LlmErrorFails, LlmStops, Stop, InTurn, LlmCallsTools, TurnsExhausted, Exhaust, ToolsDone, store, loop, history
  <2>2. QED
    BY <1>0, <2>1, AheadStays DEF TypeOK
<1>4. ASSUME NEW e \in Effects, ToolReplayed(e) \/ ToolPerformed(e) \/ ToolRecorded(e) \/ ToolFailed(e)
      PROVE  CheckpointsAdvance'
  <2>1. /\ UNCHANGED <<checkpoints, restarted, attempt, turn>> /\ pc # "idle"
        /\ reported \subseteq reported'
    BY <1>4 DEF ToolReplayed, ToolPerformed, ToolRecorded, ToolFailed, ToolDone, NextTool, store, loop, history
  <2>2. QED
    BY <1>0, <2>1, AheadStays DEF TypeOK
<1>5. CASE SaveRunning
  <2>1. /\ pc = "save" /\ checkpoints' = Append(checkpoints, pending) /\ turn' = turn + 1
        /\ pending.status = "running" /\ UNCHANGED <<attempt, reported, restarted>>
    BY <1>5 DEF SaveRunning, history
  <2>2. Latest' = pending
    BY <1>0, <2>1, SaveAppends DEF TypeOK
  <2>3. /\ pending.next_turn = turn' /\ pending.attempt = attempt' /\ pending.reported = reported'
    BY <1>0, <2>1 DEF PendingIsTheCalls
  <2>4. turn' >= Latest'.next_turn /\ attempt' >= Latest'.attempt /\ Latest'.reported \subseteq reported'
    BY <1>0, <2>2, <2>3 DEF TypeOK
  <2>5. QED
    BY <1>5, <2>1, <2>4, SaveAdvances DEF CheckpointsAdvance
<1>6. CASE SaveFinal
  <2>1. pc' = "idle" /\ UNCHANGED restarted
    BY <1>6, Zenon DEF SaveFinal, Return, history
  <2>2. QED
    BY <1>6, <2>1, SaveAdvances DEF CheckpointsAdvance
<1>7. CASE (\E e \in Effects : Compensate(e)) \/ UNCHANGED vars
  <2>1. UNCHANGED <<checkpoints, restarted, pc, turn, attempt, reported>>
    BY <1>7 DEF Compensate, vars, store, loop, history
  <2>2. UNCHANGED Latest
    BY <2>1, LatestStays
  <2>3. QED
    BY <1>0, <2>1, <2>2 DEF CheckpointsAdvance
<1>8. QED
  BY <1>1, <1>2, <1>3, <1>4, <1>5, <1>6, <1>7 DEF Next, RunTask, Step

(* What has a receipt stays on file; what is on file has one, or is an orphan.      *)
LEMMA ReceiptsStep == IInv /\ [Next]_vars => ReceiptsMatchJournal'
<1> SUFFICES ASSUME IInv, [Next]_vars PROVE ReceiptsMatchJournal'
  OBVIOUS
<1>0. /\ TypeOK /\ CheckpointsAdvance /\ ReceiptsMatchJournal /\ PendingIsTheCalls
      /\ IdleHoldsNothing
  BY DEF IInv
<1> DEFINE Known == Latest.reported \cup reported \cup orphans
           Receipts == Latest.reported \cup reported
<1>1. ASSUME UNCHANGED <<ledger, restarted>>, Known \subseteq Known', Receipts' \subseteq Receipts
      PROVE  ReceiptsMatchJournal'
  BY <1>0, <1>1 DEF ReceiptsMatchJournal
<1>2. CASE RefuseAdmission \/ AnswerFromCheckpoint
  <2>1. /\ UNCHANGED <<ledger, restarted, orphans, checkpoints>>
        /\ reported = {} /\ reported' = {}
    BY <1>0, <1>2 DEF RefuseAdmission, AnswerFromCheckpoint, Return, store, effects, history, IdleHoldsNothing
  <2>2. UNCHANGED Latest
    BY <2>1, LatestStays
  <2>3. QED
    BY <2>1, <2>2, <1>1
<1>3. ASSUME NEW resume \in BOOLEAN, NEW p \in RetryPolicies, StartAttempt(resume, p)
      PROVE  ReceiptsMatchJournal'
  <2>1. /\ UNCHANGED <<ledger, orphans, checkpoints>> /\ (restarted => restarted')
        /\ reported = {} /\ reported' = Resumable(resume).reported
    BY <1>0, <1>3 DEF StartAttempt, Begin, store, effects, IdleHoldsNothing
  <2>2. UNCHANGED Latest
    BY <2>1, LatestStays
  <2>3. reported' \subseteq Latest.reported
    BY <2>1 DEF Resumable, NoCheckpoint
  <2>4. QED
    BY <1>0, <2>1, <2>2, <2>3 DEF ReceiptsMatchJournal
<1>4. CASE LlmErrorRetried \/ LlmErrorFails \/ LlmStops \/ LlmCallsTools \/ TurnsExhausted \/ ToolsDone
  <2>1. UNCHANGED <<ledger, restarted, orphans, checkpoints, reported>>
    BY <1>4 DEF LlmErrorRetried, LlmErrorFails, LlmStops, Stop, InTurn, LlmCallsTools, TurnsExhausted, Exhaust, ToolsDone, store, effects, history
  <2>2. UNCHANGED Latest
    BY <2>1, LatestStays
  <2>3. QED
    BY <2>1, <2>2, <1>1
<1>5. ASSUME NEW e \in Effects, ToolPerformed(e) \/ ToolFailed(e)
      PROVE  ReceiptsMatchJournal'
  <2>1. UNCHANGED <<ledger, restarted, orphans, checkpoints, reported>>
    BY <1>5 DEF ToolPerformed, ToolFailed, EffectStore!Perform, store, effects, history
  <2>2. UNCHANGED Latest
    BY <2>1, LatestStays
  <2>3. QED
    BY <2>1, <2>2, <1>1
<1>6. ASSUME NEW e \in Effects, ToolReplayed(e) \/ ToolRecorded(e)
      PROVE  ReceiptsMatchJournal'
  <2>1. /\ UNCHANGED <<restarted, orphans, checkpoints>> /\ reported' = reported \cup {e}
    BY <1>6 DEF ToolReplayed, ToolRecorded, ToolDone, store, history
  <2>2. UNCHANGED Latest
    BY <2>1, LatestStays
  <2>3. ledger'[e] # "open" /\ \A f \in Effects : f # e => ledger'[f] = ledger[f]
    BY <1>0, <1>6 DEF ToolReplayed, ToolRecorded, EffectStore!Commit, effects, TypeOK
  <2>4. Latest.reported \cup reported \subseteq Effects
    BY <1>0, LatestTyped, CheckpointFields DEF TypeOK
  <2>5. QED
    BY <1>0, <2>1, <2>2, <2>3, <2>4 DEF ReceiptsMatchJournal
<1>7. CASE SaveRaises \/ Abort
  <2>1. /\ UNCHANGED <<ledger, restarted, checkpoints>> /\ reported' = {}
        /\ orphans' = orphans \cup {e \in Effects : e \in reported /\ e \notin Latest.reported}
    BY <1>7 DEF SaveRaises, Abort, Killed, Raises, Return, LoseTurn, store, effects
  <2>2. UNCHANGED Latest
    BY <2>1, LatestStays
  <2>3. Known \subseteq Known' /\ Receipts' \subseteq Receipts
    BY <1>0, <2>1, <2>2 DEF TypeOK
  <2>4. QED
    BY <2>1, <2>3, <1>1
<1>8. CASE SaveRunning \/ SaveFinal
  <2>1. /\ pc = "save" /\ checkpoints' = Append(checkpoints, pending)
        /\ UNCHANGED <<ledger, restarted, orphans>> /\ reported' \in {reported, {}}
    <3>1. CASE SaveRunning
      BY <3>1 DEF SaveRunning, effects, history
    <3>2. CASE SaveFinal
      BY <3>2, Zenon DEF SaveFinal, Return, effects, history
    <3>3. QED
      BY <1>8, <3>1, <3>2
  <2>2. Latest' = pending /\ pending.reported = reported
    BY <1>0, <2>1, SaveAppends DEF TypeOK, PendingIsTheCalls
  <2>3. restarted \/ Latest.reported \subseteq reported
    BY <1>0, <2>1 DEF CheckpointsAdvance
  <2>4. Latest'.reported \cup reported' = reported
    BY <2>1, <2>2
  <2>5. QED
    BY <1>0, <2>1, <2>3, <2>4 DEF ReceiptsMatchJournal
<1>9. CASE (\E e \in Effects : Compensate(e)) \/ UNCHANGED vars
  <2>1. UNCHANGED <<restarted, orphans, checkpoints, reported>>
    BY <1>9 DEF Compensate, vars, store, history
  <2>2. UNCHANGED Latest
    BY <2>1, LatestStays
  <2>3. \A e \in Effects : (ledger'[e] # "open") <=> (ledger[e] # "open")
    <3>1. ASSUME NEW e \in Effects, Compensate(e)
          PROVE  \/ ledger' = ledger
                 \/ ledger[e] = "done" /\ ledger' = [ledger EXCEPT ![e] = "undone"]
      BY <3>1 DEF Compensate, CompensationSucceeds, CompensationFails, EffectStore!Revert, effects
    <3>2. QED
      BY <1>0, <1>9, <3>1 DEF TypeOK, vars
  <2>4. Latest.reported \cup reported \subseteq Effects
    BY <1>0, LatestTyped, CheckpointFields DEF TypeOK
  <2>5. QED
    BY <1>0, <2>1, <2>2, <2>3, <2>4 DEF ReceiptsMatchJournal
<1>10. QED
  BY <1>2, <1>3, <1>4, <1>5, <1>6, <1>7, <1>8, <1>9 DEF Next, RunTask, Step

(* An announced success is on file, about to be, or was lost with its call.          *)
LEMMA SuccessStep == IInv /\ [Next]_vars => SuccessEventIsBacked'
<1> SUFFICES ASSUME IInv, [Next]_vars PROVE SuccessEventIsBacked'
  OBVIOUS
<1>0. TypeOK /\ SuccessEventIsBacked
  BY DEF IInv
<1> DEFINE OnFile == \E i \in 1 .. Len(checkpoints) : checkpoints[i].status = "succeeded"
           Saving == pc = "save" /\ pending.status = "succeeded"
<1>1. CASE RefuseAdmission \/ AnswerFromCheckpoint
  <2>1. UNCHANGED <<checkpoints, announced, windowLosses>> /\ ~Saving
    BY <1>1 DEF RefuseAdmission, AnswerFromCheckpoint, store, history
  <2>2. QED
    BY <1>0, <2>1 DEF SuccessEventIsBacked
<1>2. ASSUME NEW resume \in BOOLEAN, NEW p \in RetryPolicies, StartAttempt(resume, p)
      PROVE  SuccessEventIsBacked'
  <2>1. UNCHANGED <<checkpoints, announced, windowLosses>> /\ ~Saving
    BY <1>2 DEF StartAttempt, Begin, store
  <2>2. QED
    BY <1>0, <2>1 DEF SuccessEventIsBacked
<1>3. CASE LlmErrorRetried \/ LlmErrorFails \/ LlmCallsTools \/ TurnsExhausted \/ ToolsDone
  <2>1. /\ UNCHANGED <<checkpoints, windowLosses>> /\ ~Saving
        /\ announced' \subseteq announced \cup {"WorkflowFailed"}
    BY <1>3 DEF LlmErrorRetried, LlmErrorFails, InTurn, LlmCallsTools, TurnsExhausted, Exhaust, ToolsDone, Announce, store, history
  <2>2. QED
    BY <1>0, <2>1 DEF SuccessEventIsBacked
<1>4. CASE LlmStops
  BY <1>4 DEF LlmStops, Stop, PrepareSave, SuccessEventIsBacked
<1>5. ASSUME NEW e \in Effects, ToolReplayed(e) \/ ToolPerformed(e) \/ ToolRecorded(e) \/ ToolFailed(e)
      PROVE  SuccessEventIsBacked'
  <2>1. UNCHANGED <<checkpoints, announced, windowLosses>> /\ ~Saving
    BY <1>5 DEF ToolReplayed, ToolPerformed, ToolRecorded, ToolFailed, ToolDone, NextTool, store, history
  <2>2. QED
    BY <1>0, <2>1 DEF SuccessEventIsBacked
<1>6. CASE SaveRaises \/ Abort
  <2>1. UNCHANGED <<checkpoints, announced>> /\ windowLosses' = (windowLosses \/ Saving)
    BY <1>6 DEF SaveRaises, Abort, LoseTurn, store
  <2>2. QED
    BY <1>0, <2>1 DEF SuccessEventIsBacked
<1>7. CASE SaveRunning \/ SaveFinal
  <2>1. /\ checkpoints' = Append(checkpoints, pending)
        /\ UNCHANGED announced /\ UNCHANGED windowLosses
    <3>1. CASE SaveRunning
      BY <3>1 DEF SaveRunning, history
    <3>2. CASE SaveFinal
      BY <3>2, Zenon DEF SaveFinal, history
    <3>3. QED
      BY <1>7, <3>1, <3>2
  <2>2. /\ Len(checkpoints) \in Nat /\ Len(checkpoints') = Len(checkpoints) + 1
        /\ \A i \in 1 .. Len(checkpoints) : checkpoints'[i] = checkpoints[i]
        /\ checkpoints'[Len(checkpoints) + 1] = pending
    BY <1>0, <2>1, SaveAppends DEF TypeOK
  <2>3. OnFile \/ Saving => OnFile'
    BY <2>2
  <2>4. QED
    BY <1>0, <2>1, <2>3 DEF SuccessEventIsBacked
<1>8. CASE (\E e \in Effects : Compensate(e)) \/ UNCHANGED vars
  <2>1. UNCHANGED <<checkpoints, announced, windowLosses, pc, pending>>
    BY <1>8 DEF Compensate, vars, store, history
  <2>2. QED
    BY <1>0, <2>1 DEF SuccessEventIsBacked
<1>9. QED
  BY <1>1, <1>2, <1>3, <1>4, <1>5, <1>6, <1>7, <1>8 DEF Next, RunTask, Step

(* The invariant holds of every run, kill and resumption.                     *)
LEMMA Invariance == Spec => []IInv
<1>1. IInv /\ [Next]_vars => IInv'
  BY TypeStep, TurnsStep, PendingStep, CallStep, LeftStep, AdvanceStep, ReceiptsStep, SuccessStep DEF IInv
<1>2. QED
  BY InitIInv, <1>1, PTL DEF Spec

-------------------------------------------------------------------------------
(* The theorems.                                                                 *)

(* Type correctness: the log, the journal, the locals of the call and the ghosts    *)
(* are what the code makes of them.                                              *)
THEOREM WorkflowTypeCorrect == Spec => []TypeOK
<1>1. IInv => TypeOK
  BY DEF IInv
<1>2. QED
  BY Invariance, <1>1, PTL

(* Unless a call started the run over, every checkpoint lies at a later turn than    *)
(* the ones before it, at the same or a later attempt, and reports at least their    *)
(* effects: the run can be resumed from the log's end, whatever was killed before.    *)
THEOREM LogAdvances == Spec => []CheckpointsAdvance
<1>1. IInv => CheckpointsAdvance
  BY DEF IInv
<1>2. QED
  BY Invariance, <1>1, PTL

(* Every receipt has its success on file; and every success on file has its receipt   *)
(* in the log or in the running call, or lost it with a turn that was cut short.      *)
THEOREM ReceiptsAreBacked == Spec => []ReceiptsMatchJournal
<1>1. IInv => ReceiptsMatchJournal
  BY DEF IInv
<1>2. QED
  BY Invariance, <1>1, PTL

(* A WorkflowSucceeded the sink has is on file, about to be, or was announced by a    *)
(* call that ended before its last checkpoint was saved.                          *)
THEOREM SuccessIsBacked == Spec => []SuccessEventIsBacked
<1>1. IInv => SuccessEventIsBacked
  BY DEF IInv
<1>2. QED
  BY Invariance, <1>1, PTL

(* The only step of a succeeded run that nobody starts over: refused, answered from   *)
(* the log, or compensated.                                                     *)
LEMMA SucceededStep ==
    ASSUME IInv, Next, Latest.status = "succeeded", ~restarted'
    PROVE  RefuseAdmission \/ AnswerFromCheckpoint \/ \E e \in Effects : Compensate(e)
<1>0. TypeOK /\ SucceededIsLeft
  BY DEF IInv
<1>1. CASE restarted
  <2>1. restarted'
    <3>1. CASE Step
      BY <1>1, <3>1, Zenon DEF Step, LlmErrorRetried, LlmErrorFails, LlmStops, Stop, LlmCallsTools, TurnsExhausted, Exhaust, ToolReplayed, ToolPerformed, ToolRecorded, ToolFailed, ToolDone, ToolsDone, SaveRaises, SaveRunning, SaveFinal, LoseTurn, history
    <3>2. CASE RunTask \/ (\E e \in Effects : Compensate(e)) \/ Abort
      BY <1>1, <3>2 DEF RunTask, RefuseAdmission, AnswerFromCheckpoint, StartAttempt, Begin, Compensate, Abort, LoseTurn, history
    <3>3. QED
      BY <3>1, <3>2 DEF Next
  <2>2. QED
    BY <2>1
<1>2. CASE pc = "idle"
  <2>1. ~Step /\ ~Abort
    BY <1>2, Zenon DEF Step, LlmErrorRetried, LlmErrorFails, LlmStops, Stop, InTurn, LlmCallsTools, TurnsExhausted, Exhaust, ToolReplayed, ToolPerformed, ToolRecorded, ToolFailed, ToolDone, NextTool, ToolsDone, SaveRaises, SaveRunning, SaveFinal, Abort, Killed, Raises
  <2>2. ASSUME NEW resume \in BOOLEAN, NEW p \in RetryPolicies, StartAttempt(resume, p)
        PROVE  FALSE
    <3>1. checkpoints # <<>>
      BY <1>0, LatestTyped DEF NoCheckpoint, TypeOK
    <3>2. ~resume
      BY <2>2 DEF StartAttempt, Resumable
    <3>3. QED
      BY <2>2, <3>1, <3>2 DEF StartAttempt, Begin
  <2>3. QED
    BY <2>1, <2>2 DEF Next, RunTask
<1>3. QED
  BY <1>0, <1>1, <1>2 DEF SucceededIsLeft

(* A success is final: unless a caller starts the run over, nothing appends to its    *)
(* log, performs one of its effects again or announces that it failed.               *)
THEOREM SuccessIsFinal == Spec => SucceededRunIsFinal
<1>1. ASSUME IInv, Next, Latest.status = "succeeded", ~restarted'
      PROVE  /\ UNCHANGED checkpoints
             /\ \A e \in Effects : performed'[<<"effect", e>>] = performed[<<"effect", e>>]
             /\ "WorkflowFailed" \in announced' => "WorkflowFailed" \in announced
  <2>1. CASE RefuseAdmission \/ AnswerFromCheckpoint
    BY <2>1 DEF RefuseAdmission, AnswerFromCheckpoint, store, effects
  <2>2. ASSUME NEW e \in Effects, Compensate(e)
        PROVE  /\ UNCHANGED <<checkpoints, announced>>
               /\ \A f \in Effects : performed'[<<"effect", f>>] = performed[<<"effect", f>>]
    <3>1. UNCHANGED <<checkpoints, announced>>
      BY <2>2 DEF Compensate, store
    <3>2. \/ performed' = performed
          \/ performed' = [performed EXCEPT ![<<"compensation", e>>] = @ + 1]
      BY <2>2 DEF Compensate, CompensationSucceeds, CompensationFails, EffectStore!Revert, effects
    <3>3. \A f \in Effects : /\ <<"effect", f>> \in EffectStore!Kinds \X Effects
                             /\ <<"effect", f>> # <<"compensation", e>>
      BY DEF EffectStore!Kinds
    <3>4. performed \in [EffectStore!Kinds \X Effects -> Nat]
      BY <1>1 DEF IInv, TypeOK
    <3>5. QED
      BY <3>1, <3>2, <3>3, <3>4
  <2>3. QED
    BY <1>1, <2>1, <2>2, SucceededStep
<1>2. IInv /\ [Next]_vars =>
         [Latest.status = "succeeded" /\ ~restarted' =>
             /\ UNCHANGED checkpoints
             /\ \A e \in Effects : performed'[<<"effect", e>>] = performed[<<"effect", e>>]
             /\ "WorkflowFailed" \in announced' => "WorkflowFailed" \in announced]_vars
  BY <1>1
<1>3. QED
  BY Invariance, <1>2, PTL DEF Spec, SucceededRunIsFinal
===============================================================================
