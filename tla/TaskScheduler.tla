----------------------------- MODULE TaskScheduler -----------------------------
(***************************************************************************)
(* The executor's in-process task queue (executor/task_scheduler.py): one       *)
(* asyncio worker takes tasks by priority and awaits the executor for each;      *)
(* other coroutines schedule, cancel, start and stop between its steps.          *)
(*                                                                          *)
(* A cancellation that finds the worker inside the executor marks the task and    *)
(* is over: the worker goes back to its queue, and the stop that asked for it      *)
(* still awaits it.  Two stops may await the same worker, and what the first       *)
(* caller does after it, a start for instance, comes before the second resumes.    *)
(* The semaphore (5 by default) is left out: it is never contended by less than     *)
(* six workers.                                                              *)
(*                                                                          *)
(* Sequence numbers only order the entries of one queue, so the queue is its entries  *)
(* in the order they were put, and a worker that has ended and that nobody awaits may   *)
(* stand for a new one: tasks are scheduled and the scheduler is started for ever.     *)
(***************************************************************************)
EXTENDS Integers, SequencesExt

CONSTANTS
    Tasks,         \* task definitions; one may be scheduled again
    Priority,      \* their priorities
    Callers,       \* the coroutines that call stop
    MaxQueued,     \* bound: the entries in the queue at one time
    MaxWorkers     \* bound: the workers alive or awaited at one time

ASSUME TasksAssumption == Tasks # {}
ASSUME PriorityAssumption == Priority \in [Tasks -> Int]
ASSUME BoundsAssumption == MaxQueued \in Nat /\ MaxWorkers \in Nat

Workers == 1 .. MaxWorkers
Statuses == {"unknown", "PENDING", "RUNNING", "COMPLETED", "FAILED", "CANCELLED"}
Places == {"new", "waiting", "running", "done"}

VARIABLES
    status,        \* of every task
    queue,         \* the tasks of the entries, the oldest first
    place,         \* where each worker is; "done" also for one not yet started
    job,           \* the task a worker has taken
    cancelled,     \* a cancellation waits to be thrown into the worker
    handle,        \* _worker_task: the worker the scheduler knows, 0 for None
    awaits         \* the worker each caller's stop awaits, 0 for none

tasks == <<status, queue>>
workers == <<place, job, cancelled>>
vars == <<tasks, workers, handle, awaits>>

Init ==
    /\ status = [t \in Tasks |-> "unknown"] /\ queue = <<>>
    /\ place = [w \in Workers |-> "done"] /\ job = [w \in Workers |-> CHOOSE t \in Tasks : TRUE]
    /\ cancelled = [w \in Workers |-> FALSE]
    /\ handle = 0 /\ awaits = [c \in Callers |-> 0]

-------------------------------------------------------------------------------
(* What other coroutines call.                                                *)
Free(w) == place[w] = "done" /\ \A c \in Callers : awaits[c] # w

Start(w) ==
    /\ handle = 0 /\ Free(w)
    /\ \A v \in Workers : v < w => ~Free(v)
    /\ handle' = w /\ place' = [place EXCEPT ![w] = "new"]
    /\ UNCHANGED <<tasks, job, cancelled, awaits>>

Schedule(t) ==
    /\ handle # 0 /\ Len(queue) < MaxQueued
    /\ status' = [status EXCEPT ![t] = "PENDING"]
    /\ queue' = Append(queue, t)
    /\ UNCHANGED <<workers, handle, awaits>>

Cancel(t) ==
    /\ status[t] \in {"PENDING", "RUNNING"}
    /\ status' = [status EXCEPT ![t] = "CANCELLED"]
    /\ UNCHANGED <<queue, workers, handle, awaits>>

Stop(c) ==
    /\ handle # 0 /\ awaits[c] = 0
    /\ awaits' = [awaits EXCEPT ![c] = handle]
    /\ cancelled' = [cancelled EXCEPT ![handle] = place[handle] # "done"]
    /\ UNCHANGED <<tasks, place, job, handle>>

(* Defect: the tasks that never ran are left pending.                            *)
StoppedLeavingPending(c) ==
    /\ awaits[c] # 0 /\ place[awaits[c]] = "done"
    /\ awaits' = [awaits EXCEPT ![c] = 0] /\ handle' = 0
    /\ UNCHANGED <<tasks, workers>>

(* The worker a stop awaits has ended: the stop resumes.                         *)
Stopped(c) ==
    /\ awaits[c] # 0 /\ place[awaits[c]] = "done"
    /\ awaits' = [awaits EXCEPT ![c] = 0] /\ handle' = 0
    /\ status' = [t \in Tasks |-> IF status[t] = "PENDING" THEN "CANCELLED" ELSE status[t]]
    /\ UNCHANGED <<queue, workers>>

-------------------------------------------------------------------------------
(* Defect: the priority is put into the queue without its sign.                    *)
BeforeUnsigned(i, j) ==
    \/ Priority[queue[i]] < Priority[queue[j]]
    \/ Priority[queue[i]] = Priority[queue[j]] /\ i <= j

(* The worker.  The least entry is the one of the highest priority, then of the    *)
(* lowest number.                                                             *)
Before(i, j) ==
    \/ Priority[queue[i]] > Priority[queue[j]]
    \/ Priority[queue[i]] = Priority[queue[j]] /\ i <= j

(* The worker's first step.                                                   *)
Begin(w) ==
    /\ place[w] = "new" /\ ~cancelled[w]
    /\ place' = [place EXCEPT ![w] = "waiting"]
    /\ UNCHANGED <<tasks, job, cancelled, handle, awaits>>

(* The least entry is taken and, unless its task is cancelled, run.                *)
Take(w) ==
    /\ place[w] = "waiting" /\ ~cancelled[w]
    /\ \E i \in DOMAIN queue :
         /\ \A j \in DOMAIN queue : Before(i, j)
         /\ queue' = RemoveAt(queue, i)
         /\ IF status[queue[i]] = "CANCELLED" THEN UNCHANGED <<status, place, job>>
            ELSE /\ status' = [status EXCEPT ![queue[i]] = "RUNNING"]
                 /\ place' = [place EXCEPT ![w] = "running"] /\ job' = [job EXCEPT ![w] = queue[i]]
    /\ UNCHANGED <<cancelled, handle, awaits>>

(* Defect: the outcome is written whatever happened to the task meanwhile.         *)
ReturnedRegardless(w) ==
    /\ place[w] = "running" /\ ~cancelled[w]
    /\ place' = [place EXCEPT ![w] = "waiting"]
    /\ \E outcome \in {"COMPLETED", "FAILED"} : status' = [status EXCEPT ![job[w]] = outcome]
    /\ UNCHANGED <<queue, job, cancelled, handle, awaits>>

(* The executor returns or raises; a cancelled task keeps its status.              *)
Returned(w) ==
    /\ place[w] = "running" /\ ~cancelled[w]
    /\ place' = [place EXCEPT ![w] = "waiting"]
    /\ \E outcome \in {"COMPLETED", "FAILED"} :
         status' = [status EXCEPT ![job[w]] = IF @ = "CANCELLED" THEN @ ELSE outcome]
    /\ UNCHANGED <<queue, job, cancelled, handle, awaits>>

(* Defect: a cancellation met in the queue empties it and is forgotten.            *)
ThrownKeepingOn(w) ==
    /\ cancelled[w] /\ cancelled' = [cancelled EXCEPT ![w] = FALSE]
    /\ IF place[w] = "waiting" THEN queue' = <<>> /\ UNCHANGED <<status, place>>
       ELSE place' = [place EXCEPT ![w] = "done"] /\ UNCHANGED <<status, queue>>
    /\ UNCHANGED <<job, handle, awaits>>

(* The worker is resumed with the cancellation: inside the executor it ends the task,  *)
(* in the queue it empties the queue and ends, before its first step it just ends.    *)
Thrown(w) ==
    /\ cancelled[w] /\ cancelled' = [cancelled EXCEPT ![w] = FALSE]
    /\ CASE place[w] = "running" ->
              /\ status' = [status EXCEPT ![job[w]] = "CANCELLED"]
              /\ place' = [place EXCEPT ![w] = "waiting"] /\ UNCHANGED queue
         [] place[w] = "waiting" ->
              queue' = <<>> /\ place' = [place EXCEPT ![w] = "done"] /\ UNCHANGED status
         [] OTHER -> place' = [place EXCEPT ![w] = "done"] /\ UNCHANGED <<status, queue>>
    /\ UNCHANGED <<job, handle, awaits>>

Step(w) == Begin(w) \/ Take(w) \/ Returned(w) \/ Thrown(w)

Next ==
    \/ \E w \in Workers : Start(w) \/ Step(w)
    \/ \E t \in Tasks : Schedule(t) \/ Cancel(t)
    \/ \E c \in Callers : Stop(c) \/ Stopped(c)

(* The event loop resumes what is ready, and the executors return.               *)
Fairness ==
    /\ \A w \in Workers : WF_vars(Step(w))
    /\ \A c \in Callers : WF_vars(Stopped(c))

Spec == Init /\ [][Next]_vars /\ Fairness

-------------------------------------------------------------------------------
(* The type invariant of tasks, queue and workers.                             *)
TypeOK ==
    /\ status \in [Tasks -> Statuses] /\ queue \in Seq(Tasks) /\ Len(queue) <= MaxQueued
    /\ place \in [Workers -> Places] /\ job \in [Workers -> Tasks]
    /\ cancelled \in [Workers -> BOOLEAN]
    /\ handle \in Workers \cup {0} /\ awaits \in [Callers -> Workers \cup {0}]

(* A cancelled task stays cancelled until it is scheduled again, whether the         *)
(* cancellation found it in the queue, in the executor, or queued twice, and          *)
(* whatever the executor returns afterwards (cancel, _worker_loop).                *)
CancelledIsFinal ==
    [][\A t \in Tasks : status[t] = "CANCELLED" /\ status'[t] # "CANCELLED" =>
          status'[t] = "PENDING" /\ queue' = Append(queue, t)]_vars

(* No task is forgotten: a pending one has an entry in the queue, or a stop is about  *)
(* to cancel it (stop drains the queue in the worker and marks the tasks after).      *)
PendingIsQueued ==
    \A t \in Tasks : status[t] = "PENDING" =>
        \/ \E i \in DOMAIN queue : queue[i] = t
        \/ \E c \in Callers : awaits[c] # 0 /\ place[awaits[c]] = "done"

(* The queue knows no aging: tasks of higher priority that never stop coming starve    *)
(* the others.  Once no task of higher priority is scheduled any more, though, a        *)
(* pending task is run or cancelled in the end, however many of its own or of lower      *)
(* priority keep coming, through stops, restarts and workers that go on after a stop      *)
(* (start, stop, schedule, _worker_loop).                                         *)
PendingIsServed ==
    \A t \in Tasks :
        <>[][\A s \in Tasks : Priority[s] > Priority[t] => ~Schedule(s)]_vars
            => (status[t] = "PENDING" ~> status[t] # "PENDING")

(* "Stops the scheduler and marks all PENDING tasks as CANCELLED" (the docstring of     *)
(* stop): a call of stop returns.                                              *)
StopReturns == \A c \in Callers : awaits[c] # 0 ~> awaits[c] = 0
===============================================================================
