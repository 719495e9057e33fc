---------------------------- MODULE EffectJournal ----------------------------
(***************************************************************************)
(* WorkflowEffectStore (workflow_effects.py) over AppendOnlyLog             *)
(* (executor/io.py): the journal that lets a tool call with a side effect   *)
(* be replayed instead of repeated.                                         *)
(*                                                                          *)
(* Callers are threads of Runtime processes.  Every call goes through       *)
(* _exclusive: the store's RLock, then an flock on the lock file, held over  *)
(* read, check, the external call itself and the append.  A process may be  *)
(* killed at any point; the kernel then drops its flock.                     *)
(*                                                                          *)
(* The file is a log of records tagged with a record_type and an            *)
(* effect_key, and every read selects one (record_type, effect_key) pair:   *)
(* the model keeps one sequence per pair, a "slot".  What is lost is only    *)
(* the order between slots, which no reader uses.                           *)
(***************************************************************************)
EXTENDS Naturals, Sequences, FiniteSets

CONSTANTS
    Keys,         \* effect keys
    Callers,      \* threads that call the store
    Processes,    \* Runtime processes
    Home,         \* Home[c]: the process of caller c
    MaxCalls,     \* bound: MaxCalls[c] calls of caller c
    None          \* no holder, no call yet

ASSUME HomeAssumption == Home \in [Callers -> Processes]
ASSUME MaxCallsAssumption == MaxCalls \in [Callers -> Nat]
ASSUME NoneAssumption == None \notin Callers \cup ({"effect", "compensation"} \X Keys)

VARIABLES
    journal,      \* journal[s]: the records of slot s, in file order
    torn,         \* the file ends in a partial line
    threadLock,   \* threadLock[p]: holder of the store's RLock in process p
    fileLock,     \* holder of the flock
    pc,           \* pc[c]: where caller c is in its call
    call,         \* call[c]: the slot c works on, or last worked on, or None
    attempt,      \* attempt[c]: local variable of the same name
    outcome,      \* outcome[c]: status of the record c is about to append
    answer,       \* answer[c]: how the last call of c ended
    calls,        \* calls[c]: calls c has made
    performed,    \* ghost: how often the outside world saw slot s happen
    unrecorded    \* ghost: how many of those left no success record

vars == <<journal, torn, threadLock, fileLock, pc, call, attempt, outcome,
          answer, calls, performed, unrecorded>>

log == <<journal, torn>>
locks == <<threadLock, fileLock>>
ghosts == <<performed, unrecorded>>

Slots == {"effect", "compensation"} \X Keys

(* The statuses after which a slot is replayed: _RECEIPT_STATES for an       *)
(* effect ("degraded" is accepted but never written), "compensated" for a   *)
(* compensation.                                                            *)
SettledStatuses == {"succeeded", "degraded", "compensated"}

SuccessStatus(s) == IF s[1] = "effect" THEN "succeeded" ELSE "compensated"

(* _failure_status: TimeoutError and ConnectionError against the rest.      *)
FailureStatuses == {"unavailable", "failed"}

Record == [status : SettledStatuses \cup FailureStatuses, attempt : Nat]

Locations == {"idle", "thread_lock", "file_lock", "read", "run", "append",
              "unlock_file", "unlock_thread"}
Answers == {"none", "settled", "replayed", "failed", "rejected", "raised"}

Init ==
    /\ journal = [s \in Slots |-> <<>>]
    /\ torn = FALSE
    /\ threadLock = [p \in Processes |-> None]
    /\ fileLock = None
    /\ pc = [c \in Callers |-> "idle"]
    /\ call = [c \in Callers |-> None]
    /\ attempt = [c \in Callers |-> 0]
    /\ outcome = [c \in Callers |-> "failed"]
    /\ answer = [c \in Callers |-> "none"]
    /\ calls = [c \in Callers |-> 0]
    /\ performed = [s \in Slots |-> 0]
    /\ unrecorded = [s \in Slots |-> 0]

-------------------------------------------------------------------------------
(* _forward_unlocked and _compensation_unlocked: the latest record of a     *)
(* slot decides.                                                            *)
Settled(s) ==
    /\ journal[s] # <<>>
    /\ journal[s][Len(journal[s])].status \in SettledStatuses

(* Defect: every attempt is numbered 1.                                     *)
NextAttemptReset(s) == 1

(* int(existing.get("attempt", 0)) + 1 if existing else 1                   *)
NextAttempt(s) ==
    IF journal[s] = <<>> THEN 1 ELSE journal[s][Len(journal[s])].attempt + 1

Go(c, from, to) ==
    /\ pc[c] = from
    /\ pc' = [pc EXCEPT ![c] = to]

(* execute_once_with_outcome or compensate is called.                       *)
Call(c, s) ==
    /\ calls[c] < MaxCalls[c]
    /\ Go(c, "idle", "thread_lock")
    /\ calls' = [calls EXCEPT ![c] = @ + 1]
    /\ call' = [call EXCEPT ![c] = s]
    /\ answer' = [answer EXCEPT ![c] = "none"]
    /\ UNCHANGED <<log, locks, attempt, outcome, ghosts>>

(* _exclusive, outer lock: threads of one process share the RLock.          *)
AcquireThreadLock(c) ==
    /\ threadLock[Home[c]] = None
    /\ Go(c, "thread_lock", "file_lock")
    /\ threadLock' = [threadLock EXCEPT ![Home[c]] = c]
    /\ UNCHANGED <<log, fileLock, call, attempt, outcome, answer, calls, ghosts>>

(* Defect: the flock is only taken by threads of one process.               *)
AcquireFileLockShared(c) ==
    /\ Go(c, "file_lock", "read")
    /\ fileLock' = c
    /\ UNCHANGED <<log, threadLock, call, attempt, outcome, answer, calls, ghosts>>

(* _exclusive, inner lock: flock(LOCK_EX) on the lock file.                 *)
AcquireFileLock(c) ==
    /\ fileLock = None
    /\ Go(c, "file_lock", "read")
    /\ fileLock' = c
    /\ UNCHANGED <<log, threadLock, call, attempt, outcome, answer, calls, ghosts>>

Leave(c, a) ==
    /\ answer' = [answer EXCEPT ![c] = a]
    /\ UNCHANGED <<attempt, outcome>>

(* A partial line makes json.loads raise for every reader.                  *)
ReadRaises(c) ==
    /\ Go(c, "read", "unlock_file")
    /\ torn
    /\ Leave(c, "raised")

(* compensate: "compensation requires a successful forward effect".         *)
ReadRejects(c) ==
    /\ Go(c, "read", "unlock_file")
    /\ ~torn
    /\ call[c][1] = "compensation"
    /\ ~Settled(<<"effect", call[c][2]>>)
    /\ Leave(c, "rejected")

ReadReplays(c) ==
    /\ Go(c, "read", "unlock_file")
    /\ ~torn
    /\ call[c][1] = "compensation" => Settled(<<"effect", call[c][2]>>)
    /\ Settled(call[c])
    /\ Leave(c, "replayed")

(* Defect: what is settled is run again.                                    *)
ReadProceedsAlways(c) ==
    /\ Go(c, "read", "run")
    /\ ~torn
    /\ attempt' = [attempt EXCEPT ![c] = NextAttempt(call[c])]
    /\ UNCHANGED <<outcome, answer>>

ReadProceeds(c) ==
    /\ Go(c, "read", "run")
    /\ ~torn
    /\ call[c][1] = "compensation" => Settled(<<"effect", call[c][2]>>)
    /\ ~Settled(call[c])
    /\ attempt' = [attempt EXCEPT ![c] = NextAttempt(call[c])]
    /\ UNCHANGED <<outcome, answer>>

Read(c) ==
    /\ ReadRaises(c) \/ ReadRejects(c) \/ ReadReplays(c) \/ ReadProceeds(c)
    /\ UNCHANGED <<log, locks, call, calls, ghosts>>

Happened(c) ==
    /\ performed' = [performed EXCEPT ![call[c]] = @ + 1]

HappenedUnrecorded(c) ==
    /\ Happened(c)
    /\ unrecorded' = [unrecorded EXCEPT ![call[c]] = @ + 1]

(* effect() or compensation() returns.                                      *)
RunSucceeds(c) ==
    /\ Go(c, "run", "append")
    /\ outcome' = [outcome EXCEPT ![c] = SuccessStatus(call[c])]
    /\ Happened(c)
    /\ UNCHANGED <<unrecorded, answer>>

(* It raises an Exception, having had its effect (a timeout after the remote *)
(* system committed) or not.                                                *)
RunFails(c) ==
    /\ Go(c, "run", "append")
    /\ \E status \in FailureStatuses : outcome' = [outcome EXCEPT ![c] = status]
    /\ HappenedUnrecorded(c) \/ UNCHANGED ghosts
    /\ UNCHANGED answer

(* It raises what "except Exception" lets through (KeyboardInterrupt,        *)
(* SystemExit): no record is written, only the locks are released.          *)
RunInterrupted(c) ==
    /\ Go(c, "run", "unlock_file")
    /\ HappenedUnrecorded(c) \/ UNCHANGED ghosts
    /\ Leave(c, "raised")
    /\ UNCHANGED outcome

Run(c) ==
    /\ RunSucceeds(c) \/ RunFails(c) \/ RunInterrupted(c)
    /\ UNCHANGED <<log, locks, call, attempt, calls>>

(* Defect: a failed run is answered like a successful one.                  *)
AppendRecordAnswersSettled(c) ==
    /\ Go(c, "append", "unlock_file")
    /\ journal' = [journal EXCEPT ![call[c]] =
                      Append(@, [status |-> outcome[c], attempt |-> attempt[c]])]
    /\ answer' = [answer EXCEPT ![c] = "settled"]
    /\ UNCHANGED <<torn, locks, call, attempt, outcome, calls, ghosts>>

(* AppendOnlyLog.append of the success or failure record, and the outcome   *)
(* built from it.                                                           *)
AppendRecord(c) ==
    /\ Go(c, "append", "unlock_file")
    /\ journal' = [journal EXCEPT ![call[c]] =
                      Append(@, [status |-> outcome[c], attempt |-> attempt[c]])]
    /\ answer' = [answer EXCEPT ![c] =
                     IF outcome[c] \in SettledStatuses THEN "settled" ELSE "failed"]
    /\ UNCHANGED <<torn, locks, call, attempt, outcome, calls, ghosts>>

(* A success that never reaches the file counts as unrecorded.              *)
LoseRecordOf(lost) ==
    unrecorded' = [s \in Slots |->
        unrecorded[s] + IF \E c \in lost : /\ pc[c] = "append"
                                           /\ call[c] = s
                                           /\ outcome[c] \in SettledStatuses
                        THEN 1 ELSE 0]

(* append raises (a result json.dumps refuses, a full disk), possibly after  *)
(* part of the line was written.                                            *)
AppendFails(c) ==
    /\ Go(c, "append", "unlock_file")
    /\ torn' \in {torn, TRUE}
    /\ LoseRecordOf({c})
    /\ Leave(c, "raised")
    /\ UNCHANGED <<journal, locks, call, calls, performed>>

(* finally: flock(LOCK_UN), and the lock file is closed.                    *)
ReleaseFileLock(c) ==
    /\ Go(c, "unlock_file", "unlock_thread")
    /\ fileLock' = None
    /\ UNCHANGED <<log, threadLock, call, attempt, outcome, answer, calls, ghosts>>

(* Defect: the RLock is kept when the call raised.                          *)
ReleaseThreadLockUnlessRaised(c) ==
    /\ Go(c, "unlock_thread", "idle")
    /\ threadLock' = [threadLock EXCEPT ![Home[c]] = IF answer[c] = "raised" THEN @ ELSE None]
    /\ attempt' = [attempt EXCEPT ![c] = 0]
    /\ outcome' = [outcome EXCEPT ![c] = "failed"]
    /\ UNCHANGED <<log, fileLock, call, answer, calls, ghosts>>

(* The RLock is released and the call returns; its locals are gone.         *)
ReleaseThreadLock(c) ==
    /\ Go(c, "unlock_thread", "idle")
    /\ threadLock' = [threadLock EXCEPT ![Home[c]] = None]
    /\ attempt' = [attempt EXCEPT ![c] = 0]
    /\ outcome' = [outcome EXCEPT ![c] = "failed"]
    /\ UNCHANGED <<log, fileLock, call, answer, calls, ghosts>>

(* Process p is killed and restarted: its threads, its RLock and its flock  *)
(* are gone; a line it was writing may be left incomplete.                  *)
Crash(p) ==
    LET killed == {c \in Callers : Home[c] = p}
    IN  /\ pc' = [c \in Callers |-> IF c \in killed THEN "idle" ELSE pc[c]]
        /\ answer' = [c \in Callers |-> IF c \in killed THEN "none" ELSE answer[c]]
        /\ attempt' = [c \in Callers |-> IF c \in killed THEN 0 ELSE attempt[c]]
        /\ outcome' = [c \in Callers |-> IF c \in killed THEN "failed" ELSE outcome[c]]
        /\ threadLock' = [threadLock EXCEPT ![p] = None]
        /\ fileLock' = IF fileLock \in killed THEN None ELSE fileLock
        /\ \/ torn' = torn
           \/ /\ \E c \in killed : pc[c] = "append"
              /\ torn' = TRUE
        /\ LoseRecordOf(killed)
        /\ UNCHANGED <<journal, call, calls, performed>>

Step(c) ==
    \/ AcquireThreadLock(c)
    \/ AcquireFileLock(c)
    \/ Read(c)
    \/ Run(c)
    \/ AppendRecord(c)
    \/ AppendFails(c)
    \/ ReleaseFileLock(c)
    \/ ReleaseThreadLock(c)

Next ==
    \/ \E c \in Callers, s \in Slots : Call(c, s)
    \/ \E c \in Callers : Step(c)
    \/ \E p \in Processes : Crash(p)

Spec == Init /\ [][Next]_vars

(* Every thread that is inside a call keeps running, and the external call  *)
(* returns or raises; calls need not be made and processes need not crash.  *)
FairSpec == Spec /\ \A c \in Callers : WF_vars(Step(c))

-------------------------------------------------------------------------------
(* Properties.                                                              *)

InsideLock(c) == pc[c] \in {"read", "run", "append", "unlock_file"}

TypeOK ==
    /\ journal \in [Slots -> Seq(Record)]
    /\ torn \in BOOLEAN
    /\ threadLock \in [Processes -> Callers \cup {None}]
    /\ fileLock \in Callers \cup {None}
    /\ pc \in [Callers -> Locations]
    /\ call \in [Callers -> Slots \cup {None}]
    /\ attempt \in [Callers -> Nat]
    /\ outcome \in [Callers -> SettledStatuses \cup FailureStatuses]
    /\ answer \in [Callers -> Answers]
    /\ calls \in [Callers -> Nat]
    /\ performed \in [Slots -> Nat]
    /\ unrecorded \in [Slots -> Nat]

(* Two callers, of one process or of two, are never both between the read   *)
(* of the journal and the append: _exclusive covers the external call too,  *)
(* and a killed process does not leave the lock behind.                     *)
ExclusiveSection ==
    \A c, d \in Callers : InsideLock(c) /\ InsideLock(d) => c = d

(* A slot is settled by its last record alone, attempts are numbered without *)
(* gap or repeat, and a compensation is on file only beside a settled        *)
(* effect: a concurrent, killed or retried call never writes a second        *)
(* success nor an attempt number twice.                                     *)
JournalWellFormed ==
    \A s \in Slots :
        /\ \A i \in 1 .. Len(journal[s]) :
              /\ journal[s][i].attempt = i
              /\ journal[s][i].status \in SettledStatuses => i = Len(journal[s])
        /\ s[1] = "compensation" /\ journal[s] # <<>> => Settled(<<"effect", s[2]>>)

(* Every time the outside world saw an effect is accounted for: by the one   *)
(* success record, by the call about to append it, or by a success that left *)
(* none (killed before the append, a failing append, an exception after the *)
(* remote commit).  Without such a loss an effect is performed at most once. *)
Pending(s) ==
    \E c \in Callers : /\ pc[c] = "append"
                       /\ call[c] = s
                       /\ outcome[c] \in SettledStatuses

EveryRepeatExplained ==
    \A s \in Slots :
        performed[s] = (IF Settled(s) THEN 1 ELSE 0)
                       + (IF Pending(s) THEN 1 ELSE 0) + unrecorded[s]

(* A caller that was told an effect succeeded, now or by replay, can rely on *)
(* the journal: the success stays on file and the effect did happen, also    *)
(* after other callers' failures and crashes.                               *)
SuccessAnswersAreOnFile ==
    \A c \in Callers :
        answer[c] \in {"settled", "replayed"} =>
            Settled(call[c]) /\ performed[call[c]] >= 1

(* Once a crash has left a partial line in the file, every later call fails  *)
(* before it touches the outside world: the store fails closed instead of   *)
(* repeating effects whose records it can no longer read.                   *)
TornJournalStopsEffects == [][torn => UNCHANGED <<journal, performed>>]_vars

(* What each key's journal says, in the terms of EffectOnce.                *)
ledger ==
    [k \in Keys |->
        IF Settled(<<"compensation", k>>) THEN "undone"
        ELSE IF Settled(<<"effect", k>>) THEN "done" ELSE "open"]

Abstract == INSTANCE EffectOnce

(* The journal keeps the promise of EffectOnce: a recorded effect is never   *)
(* performed again, a compensation follows a recorded effect and is not      *)
(* repeated once recorded.                                                  *)
ImplementsEffectOnce == Abstract!Spec

(* Every call returns: no order of the two locks, no crash and no failing    *)
(* append leaves a caller waiting for a lock nobody will release.           *)
EveryCallReturns ==
    \A c \in Callers : (pc[c] # "idle") ~> (pc[c] = "idle")

===============================================================================
