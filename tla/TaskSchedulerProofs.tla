-------------------------- MODULE TaskSchedulerProofs --------------------------
(***************************************************************************)
(* Proofs about TaskScheduler, for any tasks, priorities, callers and number of   *)
(* workers: no task is forgotten, and a cancellation is final.                   *)
(***************************************************************************)
EXTENDS TaskScheduler, TLAPS

(* A cancellation waits in a worker that has not ended only while the stop that asked  *)
(* for it awaits that worker: so some stop sees every queue a worker empties.         *)
CancellationIsAwaited ==
    \A w \in Workers : cancelled[w] => place[w] # "done" /\ \E c \in Callers : awaits[c] = w

(* The inductive invariant: PendingIsQueued alone does not survive a worker that        *)
(* empties the queue, unless a stop is known to await it.                          *)
IInv == TypeOK /\ CancellationIsAwaited /\ PendingIsQueued

(* An entry taken out of a queue leaves every other one in it (RemoveAt in Take).       *)
LEMMA TakenOut ==
    ASSUME NEW S, NEW q \in Seq(S), NEW i \in DOMAIN q
    PROVE  /\ RemoveAt(q, i) \in Seq(S) /\ Len(RemoveAt(q, i)) = Len(q) - 1
           /\ \A j \in DOMAIN q : j # i => \E k \in DOMAIN RemoveAt(q, i) : RemoveAt(q, i)[k] = q[j]
<1> DEFINE r == RemoveAt(q, i)
           a == SubSeq(q, 1, i - 1)
           b == SubSeq(q, i + 1, Len(q))
<1>1. i \in 1 .. Len(q) /\ Len(q) \in Nat
  OBVIOUS
<1>2. a \in Seq(S) /\ Len(a) = i - 1 /\ \A k \in 1 .. i - 1 : a[k] = q[k]
  BY <1>1
<1>3. b \in Seq(S) /\ Len(b) = Len(q) - i /\ \A k \in 1 .. Len(q) - i : b[k] = q[i + k]
  BY <1>1
<1>4. r = a \o b
  BY DEF RemoveAt
<1> HIDE DEF a, b
<1>5. r \in Seq(S) /\ Len(r) = Len(q) - 1
  BY <1>1, <1>2, <1>3, <1>4
<1>6. ASSUME NEW j \in DOMAIN q, j # i PROVE \E k \in DOMAIN r : r[k] = q[j]
  <2>1. CASE j < i
    <3>1. j \in 1 .. Len(a) /\ j \in DOMAIN r /\ r[j] = a[j]
      BY <1>1, <1>2, <1>3, <1>4, <1>5, <2>1
    <3>2. QED
      BY <1>2, <3>1
  <2>2. CASE i < j
    <3>1. (j - 1) - Len(a) = j - i /\ j - i \in 1 .. Len(b) /\ j - 1 \in DOMAIN r
      BY <1>1, <1>2, <1>3, <1>5, <2>2
    <3>2. j - 1 \in 1 .. Len(a) + Len(b) /\ j - 1 > Len(a)
      BY <1>1, <1>2, <1>3, <2>2
    <3>3. r[j - 1] = b[(j - 1) - Len(a)]
      BY <1>2, <1>3, <1>4, <3>2
    <3>4. b[j - i] = q[j]
      BY <1>1, <1>3, <3>1
    <3>5. QED
      BY <3>1, <3>3, <3>4
  <2>3. QED
    BY <1>1, <1>6, <2>1, <2>2
<1>7. QED
  BY <1>5, <1>6

(* The initial states satisfy the inductive invariant: no task, no worker, no call.    *)
LEMMA InitIInv == Init => IInv
<1> SUFFICES ASSUME Init PROVE IInv
  OBVIOUS
<1>1. (CHOOSE t \in Tasks : TRUE) \in Tasks
  BY TasksAssumption
<1>2. TypeOK
  BY <1>1, BoundsAssumption DEF Init, TypeOK, Statuses, Places, Workers
<1>3. CancellationIsAwaited
  BY DEF Init, CancellationIsAwaited
<1>4. PendingIsQueued
  BY DEF Init, PendingIsQueued
<1> QED
  BY <1>2, <1>3, <1>4 DEF IInv

(* Every step of a caller or of a worker keeps the types (all of TaskScheduler).       *)
LEMMA TypeStep == TypeOK /\ [Next]_vars => TypeOK'
<1> SUFFICES ASSUME TypeOK, [Next]_vars PROVE TypeOK'
  OBVIOUS
<1> USE BoundsAssumption DEF Statuses, Places
<1>1. ASSUME NEW w \in Workers, Start(w) PROVE TypeOK'
  BY <1>1 DEF Start, TypeOK, tasks
<1>2. ASSUME NEW t \in Tasks, Schedule(t) PROVE TypeOK'
  <2>1. queue' \in Seq(Tasks) /\ Len(queue') <= MaxQueued
    BY <1>2 DEF Schedule, TypeOK
  <2>2. status' \in [Tasks -> Statuses]
    BY <1>2 DEF Schedule, TypeOK
  <2>3. QED
    BY <1>2, <2>1, <2>2 DEF Schedule, TypeOK, workers
<1>3. ASSUME NEW t \in Tasks, Cancel(t) PROVE TypeOK'
  BY <1>3 DEF Cancel, TypeOK, workers
<1>4. ASSUME NEW c \in Callers, Stop(c) PROVE TypeOK'
  BY <1>4 DEF Stop, TypeOK, tasks
<1>5. ASSUME NEW c \in Callers, Stopped(c) PROVE TypeOK'
  BY <1>5 DEF Stopped, TypeOK, workers
<1>6. ASSUME NEW w \in Workers, Begin(w) PROVE TypeOK'
  BY <1>6 DEF Begin, TypeOK, tasks
<1>7. ASSUME NEW w \in Workers, Take(w) PROVE TypeOK'
  <2>1. PICK i \in DOMAIN queue :
          /\ queue' = RemoveAt(queue, i)
          /\ IF status[queue[i]] = "CANCELLED" THEN UNCHANGED <<status, place, job>>
             ELSE /\ status' = [status EXCEPT ![queue[i]] = "RUNNING"]
                  /\ place' = [place EXCEPT ![w] = "running"] /\ job' = [job EXCEPT ![w] = queue[i]]
    BY <1>7 DEF Take
  <2>2. queue[i] \in Tasks /\ queue' \in Seq(Tasks) /\ Len(queue') <= MaxQueued
    BY <2>1, TakenOut DEF TypeOK
  <2>3. status' \in [Tasks -> Statuses] /\ place' \in [Workers -> Places] /\ job' \in [Workers -> Tasks]
    BY <2>1, <2>2 DEF TypeOK
  <2>4. QED
    BY <1>7, <2>2, <2>3 DEF Take, TypeOK
<1>8. ASSUME NEW w \in Workers, Returned(w) PROVE TypeOK'
  BY <1>8 DEF Returned, TypeOK
<1>9. ASSUME NEW w \in Workers, Thrown(w) PROVE TypeOK'
  <2>1. queue' \in Seq(Tasks) /\ Len(queue') <= MaxQueued
    <3>1. queue' = queue \/ queue' = <<>>
      BY <1>9 DEF Thrown
    <3>2. <<>> \in Seq(Tasks) /\ Len(<<>>) <= MaxQueued
      OBVIOUS
    <3>3. QED
      BY <3>1, <3>2 DEF TypeOK
  <2>2. status' \in [Tasks -> Statuses] /\ place' \in [Workers -> Places]
    BY <1>9 DEF Thrown, TypeOK
  <2>3. QED
    BY <1>9, <2>1, <2>2 DEF Thrown, TypeOK
<1>10. CASE UNCHANGED vars
  BY <1>10 DEF vars, tasks, workers, TypeOK
<1> QED
  BY <1>1, <1>2, <1>3, <1>4, <1>5, <1>6, <1>7, <1>8, <1>9, <1>10 DEF Next, Step

(* A stop asks for the cancellation and awaits the same worker in one step, and does    *)
(* not resume before the worker has ended (Stop, Stopped, Thrown).                  *)
LEMMA AwaitedStep == TypeOK /\ CancellationIsAwaited /\ [Next]_vars => CancellationIsAwaited'
<1> SUFFICES ASSUME TypeOK, CancellationIsAwaited, [Next]_vars,
                    NEW w \in Workers, cancelled'[w]
             PROVE place'[w] # "done" /\ \E c \in Callers : awaits'[c] = w
  BY DEF CancellationIsAwaited
<1>1. ASSUME NEW v \in Workers, Start(v) PROVE place'[w] # "done" /\ \E c \in Callers : awaits'[c] = w
  BY <1>1 DEF Start, TypeOK, CancellationIsAwaited
<1>2. ASSUME NEW v \in Workers, Begin(v) \/ Take(v) \/ Returned(v)
      PROVE place'[w] # "done" /\ \E c \in Callers : awaits'[c] = w
  BY <1>2 DEF Begin, Take, Returned, TypeOK, CancellationIsAwaited
<1>3. ASSUME NEW v \in Workers, Thrown(v) PROVE place'[w] # "done" /\ \E c \in Callers : awaits'[c] = w
  <2>1. w # v /\ cancelled[w]
    BY <1>3 DEF Thrown, TypeOK
  <2>2. place'[w] = place[w]
    BY <1>3, <2>1 DEF Thrown, TypeOK
  <2>3. QED
    BY <1>3, <2>1, <2>2 DEF Thrown, CancellationIsAwaited
<1>4. ASSUME NEW t \in Tasks, Schedule(t) \/ Cancel(t)
      PROVE place'[w] # "done" /\ \E c \in Callers : awaits'[c] = w
  BY <1>4 DEF Schedule, Cancel, workers, CancellationIsAwaited
<1>5. ASSUME NEW c \in Callers, Stop(c) PROVE place'[w] # "done" /\ \E d \in Callers : awaits'[d] = w
  <2>1. CASE handle = w
    BY <1>5, <2>1 DEF Stop, TypeOK
  <2>2. CASE handle # w
    <3>1. cancelled[w]
      BY <1>5, <2>2 DEF Stop, TypeOK
    <3>2. PICK d \in Callers : awaits[d] = w
      BY <3>1 DEF CancellationIsAwaited
    <3>3. d # c
      BY <1>5, <3>2 DEF Stop, Workers
    <3>4. awaits'[d] = w
      BY <1>5, <3>2, <3>3 DEF Stop, TypeOK
    <3>5. QED
      BY <1>5, <3>1, <3>4 DEF Stop, CancellationIsAwaited
  <2>3. QED
    BY <2>1, <2>2
<1>6. ASSUME NEW c \in Callers, Stopped(c) PROVE place'[w] # "done" /\ \E d \in Callers : awaits'[d] = w
  <2>1. cancelled[w] /\ place' = place
    BY <1>6 DEF Stopped, workers
  <2>2. PICK d \in Callers : awaits[d] = w
    BY <2>1 DEF CancellationIsAwaited
  <2>3. d # c
    BY <1>6, <2>1, <2>2 DEF Stopped, CancellationIsAwaited
  <2>4. awaits'[d] = w
    BY <1>6, <2>2, <2>3 DEF Stopped, TypeOK
  <2>5. QED
    BY <2>1, <2>4 DEF CancellationIsAwaited
<1>7. CASE UNCHANGED vars
  BY <1>7 DEF vars, workers, CancellationIsAwaited
<1> QED
  BY <1>1, <1>2, <1>3, <1>4, <1>5, <1>6, <1>7 DEF Next, Step

(* A pending task keeps its entry until it is run or cancelled, or a stop is about to   *)
(* cancel it, whoever empties the queue (Take, Thrown, Stopped).                    *)
LEMMA QueuedStep ==
    TypeOK /\ CancellationIsAwaited /\ PendingIsQueued /\ [Next]_vars => PendingIsQueued'
<1> DEFINE Kept(t) == \/ \E j \in DOMAIN queue : queue[j] = t
                      \/ \E c \in Callers : awaits[c] # 0 /\ place[awaits[c]] = "done"
<1> SUFFICES ASSUME TypeOK, CancellationIsAwaited, PendingIsQueued, [Next]_vars,
                    NEW t \in Tasks, status'[t] = "PENDING"
             PROVE Kept(t)'
  BY DEF PendingIsQueued
<1>0. status[t] = "PENDING" => Kept(t)
  BY DEF PendingIsQueued
<1>1. ASSUME NEW w \in Workers, Start(w) PROVE Kept(t)'
  <2>1. ASSUME NEW c \in Callers, awaits[c] # 0, place[awaits[c]] = "done" PROVE place'[awaits'[c]] = "done"
    <3>1. awaits[c] \in Workers /\ awaits[c] # w /\ awaits' = awaits
      BY <1>1, <2>1 DEF Start, Free, TypeOK
    <3>2. QED
      BY <1>1, <2>1, <3>1 DEF Start, TypeOK
  <2>2. QED
    BY <1>0, <1>1, <2>1 DEF Start, tasks
<1>2. ASSUME NEW w \in Workers, Begin(w) PROVE Kept(t)'
  <2>1. ASSUME NEW c \in Callers, awaits[c] # 0, place[awaits[c]] = "done" PROVE place'[awaits'[c]] = "done"
    BY <1>2, <2>1 DEF Begin, TypeOK
  <2>2. QED
    BY <1>0, <1>2, <2>1 DEF Begin, tasks
<1>3. ASSUME NEW w \in Workers, Take(w) PROVE Kept(t)'
  <2>1. PICK i \in DOMAIN queue :
          /\ queue' = RemoveAt(queue, i)
          /\ IF status[queue[i]] = "CANCELLED" THEN UNCHANGED <<status, place, job>>
             ELSE /\ status' = [status EXCEPT ![queue[i]] = "RUNNING"]
                  /\ place' = [place EXCEPT ![w] = "running"] /\ job' = [job EXCEPT ![w] = queue[i]]
    BY <1>3 DEF Take
  <2>2. queue[i] # t /\ status[t] = "PENDING"
    BY <2>1 DEF TypeOK
  <2>3. ASSUME NEW c \in Callers, awaits[c] # 0, place[awaits[c]] = "done" PROVE place'[awaits'[c]] = "done"
    BY <1>3, <2>1, <2>3 DEF Take, TypeOK
  <2>4. ASSUME NEW j \in DOMAIN queue, queue[j] = t PROVE \E k \in DOMAIN queue' : queue'[k] = t
    <3>1. queue \in Seq(Tasks) /\ j # i
      BY <2>2, <2>4 DEF TypeOK
    <3>2. \E k \in DOMAIN RemoveAt(queue, i) : RemoveAt(queue, i)[k] = queue[j]
      BY <3>1, TakenOut
    <3>3. QED
      BY <2>1, <2>4, <3>2
  <2>5. QED
    BY <1>0, <1>3, <2>2, <2>3, <2>4 DEF Take
<1>4. ASSUME NEW w \in Workers, Returned(w) PROVE Kept(t)'
  <2>1. status[t] = "PENDING"
    BY <1>4 DEF Returned, TypeOK
  <2>2. ASSUME NEW c \in Callers, awaits[c] # 0, place[awaits[c]] = "done" PROVE place'[awaits'[c]] = "done"
    BY <1>4, <2>2 DEF Returned, TypeOK
  <2>3. QED
    BY <1>0, <1>4, <2>1, <2>2 DEF Returned
<1>5. ASSUME NEW w \in Workers, Thrown(w) PROVE Kept(t)'
  <2>1. CASE place[w] = "running"
    <3>1. status[t] = "PENDING" /\ queue' = queue
      BY <1>5, <2>1 DEF Thrown, TypeOK
    <3>2. ASSUME NEW c \in Callers, awaits[c] # 0, place[awaits[c]] = "done" PROVE place'[awaits'[c]] = "done"
      BY <1>5, <2>1, <3>2 DEF Thrown, TypeOK
    <3>3. QED
      BY <1>0, <1>5, <3>1, <3>2 DEF Thrown
  <2>2. CASE place[w] # "running"
    <3>1. place'[w] = "done"
      BY <1>5, <2>2 DEF Thrown, TypeOK
    <3>2. PICK c \in Callers : awaits[c] = w
      BY <1>5 DEF Thrown, CancellationIsAwaited
    <3>3. awaits'[c] # 0 /\ place'[awaits'[c]] = "done"
      BY <1>5, <3>1, <3>2 DEF Thrown, Workers
    <3>4. QED
      BY <3>3
  <2>3. QED
    BY <2>1, <2>2
<1>6. ASSUME NEW s \in Tasks, Schedule(s) PROVE Kept(t)'
  <2>1. CASE s = t
    <3>1. Len(queue) + 1 \in DOMAIN queue' /\ queue'[Len(queue) + 1] = t
      BY <1>6, <2>1 DEF Schedule, TypeOK
    <3>2. QED
      BY <3>1
  <2>2. CASE s # t
    <3>1. status[t] = "PENDING"
      BY <1>6, <2>2 DEF Schedule, TypeOK
    <3>2. ASSUME NEW j \in DOMAIN queue, queue[j] = t PROVE j \in DOMAIN queue' /\ queue'[j] = t
      BY <1>6, <3>2 DEF Schedule, TypeOK
    <3>3. QED
      BY <1>0, <1>6, <3>1, <3>2 DEF Schedule, workers
  <2>3. QED
    BY <2>1, <2>2
<1>7. ASSUME NEW s \in Tasks, Cancel(s) PROVE Kept(t)'
  BY <1>0, <1>7 DEF Cancel, TypeOK, workers
<1>8. ASSUME NEW c \in Callers, Stop(c) PROVE Kept(t)'
  <2>1. ASSUME NEW d \in Callers, awaits[d] # 0, place[awaits[d]] = "done", d # c
        PROVE awaits'[d] # 0 /\ place'[awaits'[d]] = "done"
    BY <1>8, <2>1 DEF Stop, TypeOK
  <2>2. QED
    BY <1>0, <1>8, <2>1 DEF Stop, tasks
<1>9. ASSUME NEW c \in Callers, Stopped(c) PROVE Kept(t)'
  BY <1>9 DEF Stopped, TypeOK
<1>10. CASE UNCHANGED vars
  BY <1>0, <1>10 DEF vars, tasks, workers
<1> QED
  BY <1>1, <1>2, <1>3, <1>4, <1>5, <1>6, <1>7, <1>8, <1>9, <1>10 DEF Next, Step

(* The inductive invariant holds in every reachable state of the scheduler.          *)
THEOREM SchedulerInvariant == Spec => []IInv
<1>1. IInv /\ [Next]_vars => IInv'
  BY TypeStep, AwaitedStep, QueuedStep DEF IInv
<1>2. QED
  BY InitIInv, <1>1, PTL DEF Spec

(* Tasks, queue and workers keep their types, however often the scheduler starts.     *)
THEOREM SchedulerTypeCorrect == Spec => []TypeOK
<1>1. IInv => TypeOK
  BY DEF IInv
<1>2. QED
  BY <1>1, SchedulerInvariant, PTL

(* A pending task has an entry in the queue or a stop about to cancel it: no stop and    *)
(* no restart forgets one (task_scheduler.py, stop and _worker_loop).               *)
THEOREM SchedulerForgetsNothing == Spec => []PendingIsQueued
<1>1. IInv => PendingIsQueued
  BY DEF IInv
<1>2. QED
  BY <1>1, SchedulerInvariant, PTL

(* Only scheduling a task again undoes its cancellation, whatever the executor returns   *)
(* for it and however many entries it has (cancel, _worker_loop).                   *)
THEOREM SchedulerCancelsForGood == Spec => CancelledIsFinal
<1> DEFINE Final == \A t \in Tasks : status[t] = "CANCELLED" /\ status'[t] # "CANCELLED" =>
                        status'[t] = "PENDING" /\ queue' = Append(queue, t)
<1>1. TypeOK /\ [Next]_vars => [Final]_vars
  <2> SUFFICES ASSUME TypeOK, Next PROVE Final
    OBVIOUS
  <2> SUFFICES ASSUME NEW t \in Tasks, status[t] = "CANCELLED", status'[t] # "CANCELLED"
               PROVE status'[t] = "PENDING" /\ queue' = Append(queue, t)
    OBVIOUS
  <2>1. ASSUME NEW w \in Workers, Start(w) \/ Begin(w) PROVE FALSE
    BY <2>1 DEF Start, Begin, tasks
  <2>2. ASSUME NEW w \in Workers, Take(w) PROVE FALSE
    BY <2>2 DEF Take, TypeOK
  <2>3. ASSUME NEW w \in Workers, Returned(w) PROVE FALSE
    BY <2>3 DEF Returned, TypeOK
  <2>4. ASSUME NEW w \in Workers, Thrown(w) PROVE FALSE
    BY <2>4 DEF Thrown, TypeOK
  <2>5. ASSUME NEW s \in Tasks, Cancel(s) PROVE FALSE
    BY <2>5 DEF Cancel, TypeOK
  <2>6. ASSUME NEW c \in Callers, Stop(c) \/ Stopped(c) PROVE FALSE
    BY <2>6 DEF Stop, Stopped, TypeOK, tasks
  <2>7. ASSUME NEW s \in Tasks, Schedule(s) PROVE status'[t] = "PENDING" /\ queue' = Append(queue, t)
    BY <2>7 DEF Schedule, TypeOK
  <2> QED
    BY <2>1, <2>2, <2>3, <2>4, <2>5, <2>6, <2>7 DEF Next, Step
<1>2. Spec => []TypeOK /\ [][Next]_vars
  BY SchedulerTypeCorrect, PTL DEF Spec
<1>3. QED
  BY <1>1, <1>2, PTL DEF CancelledIsFinal
===============================================================================
