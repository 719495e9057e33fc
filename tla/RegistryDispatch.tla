--------------------------- MODULE RegistryDispatch ---------------------------
(***************************************************************************)
(* The agent registry server (registry/server.py): the Dispatcher, the       *)
(* TaskFallbackManager and the RegistryStore behind its HTTP endpoints.       *)
(*                                                                          *)
(* POST /tasks is a coroutine: every attempt of submit_with_fallback runs on  *)
(* the event loop, and between attempts it sleeps.  The other endpoints are   *)
(* plain functions, which FastAPI runs in a thread pool, and the heartbeat    *)
(* manager has a thread of its own.  Dispatcher and TaskFallbackManager hold  *)
(* no lock.  A route is four steps: the filter over the agents, the choice of  *)
(* the best of those it kept, the read of its load and the write under the    *)
(* store's lock; the first three look at the live AgentInfo objects.  What is *)
(* one step is a stretch in which CPython has no point to switch threads (a   *)
(* call of a function, the end of a loop's round), or the filter's two calls  *)
(* of find_agents and its loop, taken together.                              *)
(*                                                                          *)
(* A handler that runs is a frame: the request, where it is in it and its     *)
(* local variables.  Time is left out: an agent may miss its heartbeats, and  *)
(* a sleeping submission may wake up, at any moment.                         *)
(***************************************************************************)
EXTENDS Integers, FiniteSets

CONSTANTS
    Agents,        \* agent ids; an id is registered at most once
    Nodes,
    NodeOf,        \* NodeOf[a]: node_id of agent a
    Concurrency,   \* Concurrency[a]: max_concurrency of agent a
    Tasks,         \* task ids
    CanHandle,     \* CanHandle[t]: the agents with the capabilities t needs
    MaxRetries,    \* max_retries of the TaskFallbackManager
    Workers,       \* threads of the pool
    Loop,          \* the event loop's thread
    Registered,    \* agents the store has loaded from its file
    MaxRequests,   \* bound on the requests the pool gets
    MaxOutages,    \* bound on what takes agents out of service
    None           \* no agent, no task

ASSUME AgentsAssumption ==
    /\ NodeOf \in [Agents -> Nodes]
    /\ Concurrency \in [Agents -> Nat]
    /\ Registered \subseteq Agents
    /\ CanHandle \in [Tasks -> SUBSET Agents]
    /\ None \notin Agents \cup Tasks
ASSUME BoundsAssumption == {MaxRetries, MaxRequests, MaxOutages} \subseteq Nat
ASSUME ThreadsAssumption == Loop \notin Workers /\ IsFiniteSet(Workers)

VARIABLES
    status,       \* status[a]: AgentStatus, "absent" or "removed"
    active,       \* active[a]: active_tasks
    assigned,     \* assigned[t]: agent of the TaskAssignment of t, or None
    taskStatus,   \* taskStatus[t]: its status, or "none"
    pending,      \* Dispatcher._pending
    escalated,    \* TaskFallbackManager._pending_retries
    submission,   \* submission[t]: how POST /tasks stands for t
    attempts,     \* attempts[t]: calls of submit so far
    frame,        \* frame[h]: what thread h is doing
    requests,     \* requests the pool got
    outages,      \* agents or nodes taken out of service so far
    reports,      \* reports[t]: complete and fail requests for t
    overlapped,   \* history: two requests that rewrite the queue overlapped
    raced         \* history: active_tasks was written from an outdated read

vars == <<status, active, assigned, taskStatus, pending, escalated, submission,
          attempts, frame, requests, outages, reports, overlapped, raced>>

store == <<status, active>>
tasks == <<assigned, taskStatus>>
queues == <<pending, escalated>>
intake == <<submission, attempts>>
history == <<requests, outages, reports, overlapped, raced>>

Threads == Workers \cup {Loop}
Known == {"idle", "busy", "offline", "remote_offline"}
Statuses == Known \cup {"absent", "removed"}

(* op: the request; pc: the next step; among: the agents the filter kept;     *)
(* seen: the active_tasks it has read; node: the argument of /failover; todo, *)
(* kept: items left, and the queue it will leave; old: TaskAssignments of its  *)
(* snapshot that have been replaced since; size: length of the dict it         *)
(* iterates, or -1 once that dict is no longer the queue.                     *)
Frame == [op : {"none", "submit", "dispatch", "retry", "complete", "fail", "failover"},
          pc : {"none", "next", "select", "read", "write", "release", "set_idle",
                "visit", "set_offline"},
          task : Tasks \cup {None}, among : SUBSET Agents, agent : Agents \cup {None},
          seen : Nat, node : Nodes \cup {None},
          todo : SUBSET Tasks, kept : SUBSET Tasks, old : SUBSET (Tasks \X Agents),
          size : Int]
Idle == [op |-> "none", pc |-> "none", task |-> None, among |-> {}, agent |-> None,
         seen |-> 0, node |-> None, todo |-> {}, kept |-> {}, old |-> {}, size |-> -1]

Init ==
    /\ status = [a \in Agents |-> IF a \in Registered THEN "idle" ELSE "absent"]
    /\ active = [a \in Agents |-> 0]
    /\ assigned = [t \in Tasks |-> None]
    /\ taskStatus = [t \in Tasks |-> "none"]
    /\ pending = {} /\ escalated = {}
    /\ submission = [t \in Tasks |-> "new"]
    /\ attempts = [t \in Tasks |-> 0]
    /\ frame = [h \in Threads |-> Idle]
    /\ requests = 0 /\ outages = 0
    /\ reports = [t \in Tasks |-> 0]
    /\ overlapped = FALSE /\ raced = FALSE

-------------------------------------------------------------------------------
(* Agents come and go.                                                      *)

(* POST /agents.                                                            *)
Register(a) ==
    /\ status[a] = "absent"
    /\ status' = [status EXCEPT ![a] = "idle"]
    /\ UNCHANGED <<active, tasks, queues, intake, frame, history>>

Outage == outages < MaxOutages /\ outages' = outages + 1

(* HeartbeatManager.sweep, for an agent whose heartbeat is too old; marking   *)
(* it refreshes the heartbeat, and only much later is it removed.            *)
Sweep(a) ==
    /\ Outage
    /\ \/ status[a] \in Known \ {"offline"} /\ status' = [status EXCEPT ![a] = "offline"]
       \/ status[a] = "offline" /\ status' = [status EXCEPT ![a] = "removed"]
    /\ UNCHANGED <<active, tasks, queues, intake, frame, requests, reports,
                   overlapped, raced>>

(* GossipSync found the node of some agents unreachable.                     *)
MarkNodeOffline(n) ==
    /\ Outage
    /\ status' = [a \in Agents |-> IF NodeOf[a] = n /\ status[a] \in Known
                                   THEN "remote_offline" ELSE status[a]]
    /\ UNCHANGED <<active, tasks, queues, intake, frame, requests, reports,
                   overlapped, raced>>

(* DELETE /agents/{agent_id}.                                               *)
Deregister(a) ==
    /\ Outage
    /\ status[a] \in Known
    /\ status' = [status EXCEPT ![a] = "removed"]
    /\ UNCHANGED <<active, tasks, queues, intake, frame, requests, reports,
                   overlapped, raced>>

-------------------------------------------------------------------------------
(* Dispatcher.                                                              *)

(* Defect: the load of the agents is left to _select_best.                   *)
Capable(t) == {a \in CanHandle[t] : status[a] \in {"idle", "busy"}}

(* _find_capable_agents: can_handle, and a load_ratio under 1.0.             *)
Candidates(t) ==
    {a \in CanHandle[t] : status[a] \in {"idle", "busy"} /\ active[a] < Concurrency[a]}

(* _select_best: least (load_ratio, active_tasks); the ratio is at most 1.   *)
Used(a) == IF active[a] < Concurrency[a] THEN active[a] ELSE Concurrency[a]
NoBetter(b, a) ==
    \/ Used(a) * Concurrency[b] < Used(b) * Concurrency[a]
    \/ /\ Used(a) * Concurrency[b] = Used(b) * Concurrency[a]
       /\ active[a] <= active[b]
Best(among) == {a \in among : \A b \in among : NoBetter(b, a)}

At(h, place) == frame[h].pc = place
Done(h) == frame' = [frame EXCEPT ![h] = Idle]

(* A route for t, if the filter keeps some agent: one of the best of them is  *)
(* chosen, by the loads they have by then ...                                *)
Routed(f, t) == [f EXCEPT !.pc = "select", !.task = t, !.among = Candidates(t)]

Select(h) ==
    /\ At(h, "select")
    /\ \E a \in Best(frame[h].among) :
          frame' = [frame EXCEPT ![h].pc = "read", ![h].agent = a, ![h].among = {}]
    /\ UNCHANGED <<store, tasks, queues, intake, history>>

(* ... then _assign reads its active_tasks, which may have grown ...          *)
ReadLoad(h) ==
    /\ At(h, "read")
    /\ frame' = [frame EXCEPT ![h].pc = "write", ![h].seen = active[frame[h].agent]]
    /\ UNCHANGED <<store, tasks, queues, intake, history>>

(* ... and writes one more: update_agent overwrites whatever the agent's      *)
(* status has become, and does nothing when the agent is gone.  Then the      *)
(* TaskAssignment replaces any the task had, of which only the failovers that *)
(* have it in their snapshot still know (if it was dispatched).              *)
Assign(h) ==
    LET a == frame[h].agent IN
    /\ At(h, "write")
    /\ IF status[a] \in Known
       THEN /\ active' = [active EXCEPT ![a] = frame[h].seen + 1]
            /\ status' = [status EXCEPT ![a] = "busy"]
       ELSE UNCHANGED store
    /\ raced' = (raced \/ active[a] # frame[h].seen)
    /\ assigned' = [assigned EXCEPT ![frame[h].task] = a]
    /\ taskStatus' = [taskStatus EXCEPT ![frame[h].task] = "dispatched"]
    /\ UNCHANGED <<queues, requests, outages, reports, overlapped>>

Replaced(f, t) ==
    IF f.pc \in {"visit", "set_offline"} /\ t \in f.todo
    THEN [f EXCEPT !.todo = @ \ {t},
                   !.old = IF taskStatus[t] = "dispatched" THEN @ \cup {<<t, assigned[t]>>}
                                                           ELSE @]
    ELSE f

(* Thread h goes on as f, after its assignment.                              *)
Assigned(h, f) ==
    frame' = [g \in Threads |-> IF g = h THEN f ELSE Replaced(frame[g], frame[h].task)]

-------------------------------------------------------------------------------
(* TaskFallbackManager.submit_with_fallback, on the event loop.              *)

(* An attempt, at once or after a sleep.                                    *)
Attempt(t) ==
    /\ frame[Loop] = Idle
    /\ submission[t] \in {"new", "waiting"}
    /\ attempts' = [attempts EXCEPT ![t] = @ + 1]
    /\ UNCHANGED <<store, tasks, history>>

AttemptRouted(t) ==
    /\ Attempt(t)
    /\ Candidates(t) # {}
    /\ frame' = [frame EXCEPT ![Loop] = Routed([Idle EXCEPT !.op = "submit"], t)]
    /\ submission' = [submission EXCEPT ![t] = "waiting"]
    /\ UNCHANGED queues

SubmitDispatched ==
    /\ Assign(Loop)
    /\ submission' = [submission EXCEPT ![frame[Loop].task] = "dispatched"]
    /\ Assigned(Loop, Idle)
    /\ UNCHANGED attempts

(* No agent: submit queues the task, and the coroutine sleeps, or gives up    *)
(* after the last retry.                                                    *)
AttemptQueued(t) ==
    /\ Attempt(t)
    /\ Candidates(t) = {}
    /\ pending' = pending \cup {t}
    /\ IF attempts[t] < MaxRetries
       THEN /\ submission' = [submission EXCEPT ![t] = "waiting"]
            /\ UNCHANGED escalated
       ELSE /\ submission' = [submission EXCEPT ![t] = "escalated"]
            /\ escalated' = escalated \cup {t}
    /\ UNCHANGED frame

-------------------------------------------------------------------------------
(* Requests to the thread pool.                                             *)

Rewriting == {"dispatch", "failover"}

Begin(h, new) ==
    /\ h \in Workers
    /\ frame[h] = Idle
    /\ requests < MaxRequests
    /\ requests' = requests + 1
    /\ frame' = [frame EXCEPT ![h] = new]
    /\ overlapped' = (overlapped \/ /\ new.op \in Rewriting
                                    /\ \E g \in Workers : frame[g].op \in Rewriting)

(* POST /tasks/dispatch-pending iterates _pending ...                        *)
BeginDispatch(h) ==
    /\ Begin(h, [Idle EXCEPT !.op = "dispatch", !.pc = "next", !.todo = pending,
                             !.size = Cardinality(pending)])
    /\ UNCHANGED <<store, tasks, queues, intake, outages, reports, raced>>

(* ... and POST /tasks/fallback/retry iterates _pending_retries.             *)
BeginRetry(h) ==
    /\ Begin(h, [Idle EXCEPT !.op = "retry", !.pc = "next", !.todo = escalated,
                             !.size = Cardinality(escalated)])
    /\ UNCHANGED <<store, tasks, queues, intake, outages, reports, raced>>

Iterated(h) == IF frame[h].op = "retry" THEN escalated ELSE pending

(* A dict that grew under its iterator makes it raise RuntimeError.          *)
Grown(h) == frame[h].size >= 0 /\ Cardinality(Iterated(h)) # frame[h].size

NextItem(h, t) ==
    /\ At(h, "next")
    /\ ~Grown(h)
    /\ t \in frame[h].todo
    /\ UNCHANGED <<store, tasks, escalated, intake, history>>

ItemRouted(h, t) ==
    /\ NextItem(h, t)
    /\ Candidates(t) # {}
    /\ frame' = [frame EXCEPT ![h] = Routed([frame[h] EXCEPT !.todo = @ \ {t}], t)]
    /\ UNCHANGED pending

ItemDispatched(h) ==
    /\ frame[h].op \in {"dispatch", "retry", "failover"}
    /\ Assign(h)
    /\ Assigned(h, [frame[h] EXCEPT !.pc = "next", !.task = None, !.agent = None, !.seen = 0])
    /\ UNCHANGED intake

(* retry_pending goes through submit, which queues the task as well.         *)
ItemKept(h, t) ==
    /\ NextItem(h, t)
    /\ Candidates(t) = {}
    /\ frame' = [frame EXCEPT ![h].todo = @ \ {t}, ![h].kept = @ \cup {t}]
    /\ pending' = IF frame[h].op = "retry" THEN pending \cup {t} ELSE pending

IterationRaises(h) ==
    /\ At(h, "next")
    /\ Grown(h)
    /\ Done(h)
    /\ UNCHANGED <<store, tasks, queues, intake, history>>

(* The handler ends, and others that iterate the old dict go on with it.     *)
Detach(h, ops) ==
    frame' = [g \in Threads |->
                 IF g = h THEN Idle
                 ELSE IF frame[g].op \in ops THEN [frame[g] EXCEPT !.size = -1]
                 ELSE frame[g]]

(* Defect: the queue is emptied, not replaced by what could not be routed.   *)
ReplaceByNothing(h) ==
    /\ At(h, "next") /\ frame[h].todo = {} /\ ~Grown(h)
    /\ pending' = {}
    /\ Done(h)
    /\ UNCHANGED <<store, tasks, escalated, intake, history>>

(* self._pending = still_pending, self._pending_retries = still_pending.     *)
Replace(h) ==
    /\ At(h, "next")
    /\ frame[h].todo = {}
    /\ ~Grown(h)
    /\ IF frame[h].op = "retry"
       THEN /\ escalated' = frame[h].kept
            /\ Detach(h, {"retry"})
            /\ UNCHANGED pending
       ELSE /\ pending' = frame[h].kept
            /\ Detach(h, {"dispatch", "failover"})
            /\ UNCHANGED escalated
    /\ UNCHANGED <<store, tasks, intake, history>>

Report(h, t, op) ==
    LET a == assigned[t]
        counted == status[a] \in Known /\ active[a] > 0
    IN  /\ a # None
        /\ Begin(h, IF counted THEN [Idle EXCEPT !.op = op, !.pc = "release",
                                                 !.agent = a, !.seen = active[a]]
                               ELSE Idle)
        /\ reports' = [reports EXCEPT ![t] = @ + 1]
        /\ UNCHANGED <<store, assigned, queues, intake, outages, raced>>

(* Defect: a failure gives the agent's slot back, but leaves the assignment.  *)
BeginReportUnmarked(h, t, op) ==
    /\ Report(h, t, op)
    /\ taskStatus' = IF op = "complete" THEN [taskStatus EXCEPT ![t] = "completed"]
                                        ELSE taskStatus

(* POST /tasks/{task_id}/complete and /fail: the assignment is marked, and    *)
(* the agent's active_tasks read.                                           *)
BeginReport(h, t, op) ==
    /\ Report(h, t, op)
    /\ taskStatus' = [taskStatus EXCEPT ![t] =
                         IF op = "complete" THEN "completed" ELSE "failed"]

(* Then it is written back; complete makes an agent without work IDLE, in a   *)
(* second update, even if it was marked offline in the meantime.             *)
Release(h) ==
    LET a == frame[h].agent IN
    /\ At(h, "release")
    /\ active' = IF status[a] \in Known THEN [active EXCEPT ![a] = frame[h].seen - 1]
                                        ELSE active
    /\ raced' = (raced \/ active[a] # frame[h].seen)
    /\ IF frame[h].op = "complete" /\ frame[h].seen = 1 THEN frame' = [frame EXCEPT ![h].pc = "set_idle"] ELSE Done(h)
    /\ UNCHANGED <<status, tasks, queues, intake, requests, outages, reports, overlapped>>

SetIdle(h) ==
    LET a == frame[h].agent IN
    /\ At(h, "set_idle")
    /\ status' = IF status[a] \in Known THEN [status EXCEPT ![a] = "idle"] ELSE status
    /\ Done(h)
    /\ UNCHANGED <<active, tasks, queues, intake, history>>

(* POST /failover/{node_id}: a snapshot of the assignments ...               *)
BeginFailover(h, n) ==
    /\ Begin(h, [Idle EXCEPT !.op = "failover", !.pc = "visit", !.node = n,
                             !.todo = {t \in Tasks : taskStatus[t] # "none"}])
    /\ UNCHANGED <<store, tasks, queues, intake, outages, reports, raced>>

OnFailedNode(h, a) == status[a] \in Known /\ NodeOf[a] = frame[h].node
Failing(h, t) == taskStatus[t] = "dispatched" /\ OnFailedNode(h, assigned[t])

(* ... of which those dispatched to the node are requeued ...                *)
Requeue(h, t) ==
    /\ At(h, "visit")
    /\ t \in frame[h].todo
    /\ Failing(h, t)
    /\ taskStatus' = [taskStatus EXCEPT ![t] = "failed"]
    /\ pending' = pending \cup {t}
    /\ frame' = [frame EXCEPT ![h].pc = "set_offline", ![h].agent = assigned[t],
                              ![h].todo = @ \ {t}]
    /\ UNCHANGED <<store, assigned, escalated, intake, history>>

(* ... by what the snapshot holds of them: an assignment that has been         *)
(* replaced requeues its task too, and only the old one is marked failed (that *)
(* two failovers share an old one, and the second skips it, is left out).     *)
RequeueOld(h, t, a) ==
    /\ At(h, "visit")
    /\ <<t, a>> \in frame[h].old
    /\ OnFailedNode(h, a)
    /\ pending' = pending \cup {t}
    /\ frame' = [frame EXCEPT ![h].pc = "set_offline", ![h].agent = a,
                              ![h].old = @ \ {<<t, a>>}]
    /\ UNCHANGED <<store, tasks, escalated, intake, history>>

(* ... and their agents taken out of service.                                *)
SetOffline(h) ==
    LET a == frame[h].agent IN
    /\ At(h, "set_offline")
    /\ status' = IF status[a] \in Known THEN [status EXCEPT ![a] = "remote_offline"]
                                        ELSE status
    /\ frame' = [frame EXCEPT ![h].pc = "visit", ![h].agent = None]
    /\ UNCHANGED <<active, tasks, queues, intake, history>>

(* When none is left, dispatch_pending follows.                             *)
DispatchRequeued(h) ==
    /\ At(h, "visit")
    /\ \A t \in frame[h].todo : ~Failing(h, t)
    /\ \A ta \in frame[h].old : ~OnFailedNode(h, ta[2])
    /\ frame' = [frame EXCEPT ![h].pc = "next", ![h].todo = pending, ![h].old = {},
                              ![h].size = Cardinality(pending)]
    /\ UNCHANGED <<store, tasks, queues, intake, history>>

-------------------------------------------------------------------------------
Step(h) ==
    \/ \E t \in Tasks : ItemRouted(h, t) \/ ItemKept(h, t)
    \/ Select(h)
    \/ ReadLoad(h)
    \/ ItemDispatched(h)
    \/ IterationRaises(h)
    \/ Replace(h)
    \/ Release(h)
    \/ SetIdle(h)
    \/ \E t \in Tasks : Requeue(h, t) \/ \E a \in Agents : RequeueOld(h, t, a)
    \/ SetOffline(h)
    \/ DispatchRequeued(h)

EventLoop ==
    \/ \E t \in Tasks : AttemptRouted(t) \/ AttemptQueued(t)
    \/ Select(Loop)
    \/ ReadLoad(Loop)
    \/ SubmitDispatched

Request(h) ==
    \/ BeginDispatch(h)
    \/ BeginRetry(h)
    \/ \E t \in Tasks, op \in {"complete", "fail"} : BeginReport(h, t, op)
    \/ \E n \in Nodes : BeginFailover(h, n)

Next ==
    \/ EventLoop
    \/ \E h \in Workers : Request(h) \/ Step(h)
    \/ \E a \in Agents : Register(a) \/ Sweep(a) \/ Deregister(a)
    \/ \E n \in Nodes : MarkNodeOffline(n)

Spec == Init /\ [][Next]_vars

-------------------------------------------------------------------------------
(* Properties.                                                              *)

TypeOK ==
    /\ status \in [Agents -> Statuses]
    /\ active \in [Agents -> Nat]
    /\ assigned \in [Tasks -> Agents \cup {None}]
    /\ taskStatus \in [Tasks -> {"none", "dispatched", "completed", "failed"}]
    /\ pending \subseteq Tasks /\ escalated \subseteq Tasks
    /\ submission \in [Tasks -> {"new", "waiting", "dispatched", "escalated"}]
    /\ attempts \in [Tasks -> 0 .. MaxRetries + 1]
    /\ frame \in [Threads -> Frame]
    /\ requests \in 0 .. MaxRequests /\ outages \in 0 .. MaxOutages
    /\ reports \in [Tasks -> Nat]
    /\ overlapped \in BOOLEAN /\ raced \in BOOLEAN

(* registry/README.md:142 "Filters out saturated agents": at the filter, but  *)
(* others may fill the agent before its load is read and written, so it can   *)
(* get more than max_concurrency tasks.  Unless an update was lost, it gets at *)
(* most one more for each other thread, however dispatches, retries, reports  *)
(* and failovers interleave.                                                 *)
OverrunIsBounded ==
    \/ raced
    \/ \A a \in Agents : active[a] <= Concurrency[a] + Cardinality(Threads) - 1

(* Unless an update was lost or a task reported twice, active_tasks counts at *)
(* least the tasks dispatched to an agent: double dispatches, failovers and   *)
(* late reports only make it count more, and never let the filter take an     *)
(* agent at its limit for one with room.                                      *)
Load(a) == {t \in Tasks : assigned[t] = a /\ taskStatus[t] = "dispatched"}

LoadIsCounted ==
    \/ raced
    \/ \E t \in Tasks : reports[t] > 1
    \/ \A a \in Agents : status[a] \in Known => Cardinality(Load(a)) <= active[a]

(* A task that nobody has reported on yet is not forgotten: it is dispatched, *)
(* queued, or still being tried, through failovers, escalations and handlers  *)
(* that raise half-way, unless two requests that rewrite the queue overlapped. *)
TasksKept ==
    overlapped \/
        \A t \in Tasks : submission[t] # "new" /\ reports[t] = 0 =>
            \/ taskStatus[t] = "dispatched"
            \/ t \in pending \cup escalated
            \/ submission[t] = "waiting"

===============================================================================
