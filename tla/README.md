# TLA+ models of omostation-runtime

This directory holds TLA+ models of the concurrent and crash-prone parts of the
Runtime (`src/src/runtime`, with the release scripts of `src/scripts` and the gateway of
`src/packages/reach`), the TLC runs that check them on small instances, and TLAPS proofs
of what matters most. Paths below are relative to `src/src/runtime` unless they start with
`src/`.

To repeat a check: `tlc -workers 2 -config EffectJournal.cfg MCEffectJournal.tla`;
to repeat a proof: `tlapm EffectJournalProofs.tla`.

## 1. The system

The Runtime is a Python process (or several) that executes agent tasks for a
station: it calls an LLM in a loop, runs tools, records what it did so that a run
can be resumed, keeps a registry of agents over several nodes and dispatches tasks
to them, runs cron jobs, watches services, consumes an event bus, and inspects a tree of
documents on behalf of its owner.

| component | source | state it keeps | operations | what is hard |
|---|---|---|---|---|
| effect journal | `workflow_effects.py`, `executor/io.py` | an append-only JSONL file, an RLock per process, an flock on a lock file | `execute_once_with_outcome`, `compensate`, `get` | processes and threads racing, kill between the effect and its record, torn lines, failing appends |
| workflow run | `executor/engine.py`, `workflow_checkpoint.py`, `workflow_admission.py`, `workflow_mesh.py` | a checkpoint log per run and step, locals of the turn loop, events handed to a sink | `run_task` (start, resume, restart), `compensate_effect` | kill and resume at any point, retries, order of event and checkpoint, deduplicated tool calls |
| registry: dispatcher, fallback, store | `registry/{dispatch,task_fallback,store,models,heartbeat,server}.py` | agents (status, `active_tasks`) persisted to a file, assignments, two queues | submit with retries, dispatch-pending, retry escalated, complete, fail, failover, sweep, (de)register | event loop, thread pool and heartbeat thread share dictionaries without a lock |
| registry gossip | `registry/{sync,push,failover}.py` | peers with their failures, a background task, a logical clock | pull, push, delta merge, forced cycle, add and remove a peer, start, stop | unreachable peers, overlapping cycles, pushes that arrive late, nodes that restart |
| cron service | `cron_service/` | one SQLite table of jobs, a tick thread, a pool of four | create, update, delete, tick, run, record | a job that is still running when it is due again, timeouts, restart |
| matrix scheduler | `scheduler.py`, `matrix.py` | restart history, failure counters, state files | scan, repair, back off, freeze, auto-heal | several counters with different windows, a state file two processes write |
| bus consumer | `bus_consumer.py` | `last_seen_id`, a retry table in SQLite | connect, process event | replayed streams, a crash between effect and acknowledgement, refused statements |
| task scheduler | `executor/task_scheduler.py` | priority queue, task table, worker coroutine | start, stop, schedule, cancel | cancellation while an executor runs, stop and start that overlap |
| documents control plane | `documents_plane/` | receipts, a baseline file, the private layout, concept cards | `run_job` over its registered jobs, `repair` | one step of several failing, two processes on one baseline, owners and projections that must agree |
| KEMS release scripts | `src/scripts/kems*`, `src/packages/reach` | files the scripts hand to one another, a relay file, a graph store | preflight, compose, gateway, receipt, closeout, materialize | sources revised in between, shared temporary names, kills |
| phase state machine | `executor/state_machine.py` | phase, history, phase before a pause | transition, pause, resume, fail, advance, (de)serialise | hooks that transition themselves |
| agent runner, executor | `executor/core/` | a state table keyed by agent name | run, cancel | two runs of one name, cancel against a late answer |
| governance | `executor/governance.py` | votes, a cached decision, histories | vote, decide, detect and resolve conflicts | a cached decision under changing votes |
| quality of a domain | `executor/domain_manager.py` | profiles, measurements | record, report | verdicts recorded under other profiles |
| decomposition | `executor/decomposer.py`, `executor/decomposer_strategies.py` | none beyond a call | validate, sort into batches | not modelled: the two modules import each other (`decomposer.py:19`, `decomposer_strategies.py:18`), and importing either raises `ImportError` |
| pipeline language | `executor/dsl_lexer.py`, `executor/dsl_parser.py`, `executor/dsl_executors.py` | the parser's position and stack, a context of results | parse, loop, parallel, try | sources cut off anywhere, steps that fail or are cancelled one by one |
| Merkle ledger | `merkle_ledger.py` | a list of leaves | record, prove, verify | odd layers |
| gateway and tools, KEI, front ends, interceptor, other scripts | see `PROJECT.json` | static configuration | text processing, reports, argument parsing | sequential |

How they interact. `run_task` calls the effect journal for every tool call when it is
given an effect store, the checkpoint store after every turn, and the event sink
(OMO) throughout; a caller may later call `compensate_effect`. The registry server
composes store, dispatcher, fallback manager, heartbeat thread and gossip: `POST
/tasks` is a coroutine on the event loop, every other endpoint is a plain function
that FastAPI runs in a thread pool, the sweep has a thread of its own, and all of them
call `Dispatcher` and `RegistryStore`; only the store locks, and only around a single
update. Gossip marks the agents of an unreachable node in the same store. The cron
service, the matrix scheduler and the bus consumer are processes of their own. Every
`runtime documents` command is a process too; what they share is the file of receipts and
the baseline of the KEMS check. The release scripts call nothing of the rest: they hand files
to one another. The books of the executor (phases, agent runs, votes, measurements,
parser, step executors) and the ledger live in one process and do not call each other.

What makes each of them correct:

- effect journal: an effect recorded as done is never performed again; a compensation
  follows a recorded effect; every repeat has an explanation; nobody blocks;
- workflow run: the log can always be resumed from its end; receipts, checkpoints and
  journal agree; success is final; a call ends;
- registry: the counter of an agent covers its load, and an agent is overrun by no more tasks than there
  are other threads; no task is lost;
- gossip: no living node is given up; a dead one is given up in the end, everywhere;
- cron: a due job is run and its run recorded, a paused one is not, recording a run
  undoes no edit, stop stops;
- matrix scheduler: restarts are bounded in any five minutes, a service is frozen or
  given up only for a reason, uptime is that of the present process;
- bus consumer: an acknowledged event is in the knowledge base, a parked one has failed often
  enough, an ingestion is repeated only for a reason;
- task scheduler: a cancelled task stays cancelled, a pending one is run or cancelled in the
  end once no task of higher priority keeps coming, stop returns (it does not, see section 5);
- documents: a receipt never says more than what happened, honest owners are believed,
  a change of an inbox is told before it is forgotten, unless the check that stores it found no baseline;
- release scripts: "ready" stands on one preflight and one confirmed dispatch of the same
  documents; the graph store is closed under its references;
- books: stated with each module below.

## 2. Modules

| module | models | kind |
|---|---|---|
| `EffectOnce` | what the journal promises per effect key: ledger `open -> done -> undone`, how often the world saw effect and compensation | abstract specification |
| `EffectJournal` | `WorkflowEffectStore` over `AppendOnlyLog`, step by step | detailed, refines `EffectOnce` |
| `WorkflowRun` | `run_task` and `compensate_effect` over the checkpoint log, with `EffectOnce` as its effect store | composition |
| `RegistryDispatch` | registry server, dispatcher, fallback manager, store | detailed |
| `GossipSync` | the registry nodes and the messages between them | detailed |
| `CronService` | the job table, the ticker, the worker pool, requests to both processes | composition |
| `MatrixScheduler` | `scan_once` with its state file, by overlapping scanners | detailed |
| `BusConsumer` | the daemon, its table, the stream and the knowledge base | detailed |
| `TaskScheduler` | the queue, its workers, the callers of start, stop and cancel | detailed |
| `DocumentsOwners` | what each inspecting owner answers and what its projection in `jobs.py` accepts | operators |
| `DocumentsJobs` | `run_job` by several processes, over `DocumentsOwners`; the KEMS baseline; the repair of cards | composition |
| `KemsProduction` | the five release scripts and the gateway over their shared files | composition |
| `PhaseMachine`, `AgentRuns`, `Governance`, `QualityReport`, `MerkleLedger`, `PipelineParser`, `StepFlows` | one in-memory book of the executor each | detailed |
| `ExecutorBooks` | the seven books beside each other | composition |
| `*Proofs` | theorems about `EffectJournal`, `WorkflowRun`, `RegistryDispatch`, `MatrixScheduler` and `CronService` (`SchedulersProofs`), `BusConsumer` and `GossipSync` (`MessagingProofs`), `TaskScheduler`, `KemsProduction` and `DocumentsJobs` (`DocumentsProofs`), `ExecutorBooks` | proofs |
| `MC*` | constants of the TLC instances | |

`WorkflowRun` takes the effect store as an instance of `EffectOnce`; `EffectJournal`
is shown, by TLC and by proof, to implement `EffectOnce`. That is how the two parts
compose: the run relies on the promise, the journal keeps it.

### EffectJournal

Callers are threads, `Home` says of which process. A call goes through the places
`thread_lock`, `file_lock` (the two locks of `_exclusive`), `read`, `run` (the
external call), `append`, `unlock_file`, `unlock_thread`. The journal file is a
sequence of records per slot (`record_type`, `effect_key`), because every read
selects one slot; `torn` says that the file ends in half a line, which makes
`read_all` raise for everyone. `RunFails` covers both a failure and an exception after
the remote system committed; `RunInterrupted` what `except Exception` lets through;
`AppendFails` a record that cannot be written; `Crash` a killed process, whose flock
the kernel drops. `performed` and `unrecorded` are ghosts: what the
outside world saw, and which of it left no success record.

### WorkflowRun

One run, called again and again. `RunTask` is `run_task` up to the loop (admission,
answer from a succeeded checkpoint, attempt number, restored state), the actions `Llm*`
are the branches on the LLM's answer, `Tool*` the loop over tool calls,
`SaveRunning`, `SaveFinal` and `SaveRaises` are `WorkflowCheckpointStore.save`,
`Compensate` is `compensate_effect`, `Abort` a kill or an exception nobody catches.
Kept of a checkpoint: `next_turn`, `status`, `attempt` and the effects whose receipts it
holds. Kept of the events: the types the sink has under `{run}:terminal`; a sink
that raises swallows the event. One process at a time works on a run. A torn journal
is left to `EffectJournal`.

### RegistryDispatch

`frame[h]` is the handler that thread `h` runs: the request, the next step and its
locals (the agent chosen, the `active_tasks` it read, the items left of the dict it
iterates). `submit_with_fallback` runs on the event
loop and sleeps between attempts; time is left out, so a sleep may end, and a
heartbeat be missed, at any moment. A dict that grew under its iterator makes the
handler end with `RuntimeError` (`IterationRaises`).

No lock protects a route, so it is four steps, between which any other thread may run: the filter
over the agents (`Routed` keeps `Candidates`), the choice among those it kept (`Select`, by the loads
they have by then), the read of the chosen one's `active_tasks` (`ReadLoad`) and the write of one more,
with the assignment (`Assign`). What is one step is a stretch in which CPython has no point to switch
threads, which are calls of functions and the ends of a loop's rounds: that alone makes the test
`active_tasks > 0` and the read beside it one step in `BeginReport`, and the end of the iteration and the
assignment of the new queue one in `Replace`. The filter's two calls of `find_agents` and its loop are
taken as one look at all agents. A failover goes through a snapshot of `TaskAssignment` objects: a task
assigned anew since keeps its replaced object in the frame's `old` (`Replaced`), and that one is what the
failover requeues by (`RequeueOld`). That two failovers share a replaced object, and the second would find it
failed already, is left out: the model requeues it in either, so it has those behaviours and more.

 Histories: `raced` (an update of
`active_tasks` was lost), `reports` (how often a task was reported), `overlapped` (two
requests that replace `_pending` overlapped).

### GossipSync

Every node has a store of agents, a table of peers and up to two cycles under way, the
loop's and one that `/sync/force` began. A cycle holds what the coroutine holds across its
awaits: the peers still to visit, the size of the table it iterates (a change makes it end with
`RuntimeError`), a peer object that may have been removed, the agents it is about to push. A pull
answers without `registered_at`, so nothing of it is merged and all it tells is that the
peer lives; a push registers what is new and raises at the first agent that should override
one that is there, so that any part of the rest may be dropped (`Merges`). Three failures mark the
peer's agents `remote_offline`. Nodes die and restart with their store and without their peers' failures; a push whose
answer is lost may arrive later (`late`). `misses`, `accused` and `replaced` are ghosts: the answers a node really
missed in a row, and the nodes whose peer object was taken out of a table while a pull went through it.

### CronService

The table is `row` (one record per job: enabled, schedule, script, `last_run_at` as
`null`, `recent` or `elapsed`); every SQL statement is a step of its own, which may fail.
The ticker (`Tick`, `Submit`, `EndSubmit`, `EndScan`) is `CronScheduler._loop`: it lists
the due jobs once, hands them to the pool one by one, and ends with the health scan if
that is due. A worker (`Take`, `ScriptEnds`, `WorkerRecords`, `WorkerCannotRecord`) is
`_run_job_sync` with its two attempts to record. Requests (`CreateJob`, `UpdateJob`,
`DeleteJob`, `RunNow`) come to the HTTP process, where a run in progress blocks the event
loop, or to the MCP process. `ManualOverruns` is a timeout on a client's run: the script
shares the service's process group, which `_kill_process` kills. `Start` is launchd's
`KeepAlive`, `Stop` and `Exit` the server's shutdown. Whether a schedule's interval has
passed is not computed: `IntervalElapses` may happen whenever the job has run.

### MatrixScheduler

`file` is `scheduler_state.json`, `scan[m]` one execution of `scan_once`: it loads the
file, judges the services in topological order (`CheckService`, whose `Verdict` follows
the branches of the code: waiting, frozen, unrecoverable, back-off, restart, degraded),
truncates the file and writes it back. Scans overlap because the daemon and the cron
service both run them. Clock times are ages that `Tick` advances. `ProcessStarts`,
`ProcessEnds` and `ServingChanges` are the world, which the code cannot constrain; a
restart needs no effect of its own because a process may start at any moment.
Histories: `heals` (the restarts really made in the window), `seen` (the last healthy
verdict), `calm` (the time since scans overlapped, one was killed or its save failed).

### BusConsumer

The consumer connects from `last_seen_id` or, without one, from wherever the stream begins, and
handles one event at a time: insert the row, look for a pending one, put, acknowledge or count a
failure, and remember the event as seen. Each database statement is a step that may be refused,
after which the code goes on as its `except` branches say: a refused count is tried once more in
`_handle_failure`, a refused mark leaves `last_seen_id`. `Kill` may come anywhere. `puts` and
`mishaps` are ghosts.

### TaskScheduler

The queue is the sequence of its tasks in the order they were put, since sequence numbers only order
the entries of one queue; a task may be scheduled twice and is then in it twice. A worker that has ended and that no stop
awaits may stand for a new one. Tasks are therefore scheduled, and the scheduler is stopped and started, without end. A worker
is `waiting` in `queue.get` or `running` inside an executor; `cancelled` says that a cancellation
is to be thrown into it at its next resumption. `Thrown` is the whole `except CancelledError`:
inside the executor it marks the task and goes on, in the queue it drains the queue and ends. `Stop`
cancels and awaits, `Stopped` is what follows the await (marking the pending tasks, forgetting the
worker); two callers may await the same worker, and a `Start` may come in between.

### DocumentsOwners, DocumentsJobs

Runtime and the owners it starts are two programs that share only the shape of a JSON object.
`DocumentsOwners` has both sides of each job as operators: what the owner answers for a given
content (`AuditFacts`, `InspectFreshness`, `InspectSanyi`, `InspectDecay`, ...), and what the job's
projection in `jobs.py` lets through (`Accepts...`). A content is what the owner can tell apart in
the files: missing, not regular, unreadable, a date, a flag; `FactsContent`, `ControlContent`, ... say for each owner which
contents there are, and `ContentsAssumption` that `Contents` has no others. An error is a pair of the place where it was met and its
word, as the code composes it (`model_` and `file_unreadable`); the facts of all files are the set of pairs of file and position.
`MCDocumentsJobs` lists for each job the contents that lead through each of its answers.

`DocumentsJobs` is `run_job` by several processes: `Invoke`, `PrepareLayout`, `Launch`, the owner
on its own (`Answer`, or for the KEMS check `KemsScan`, `KemsLoad`, `KemsTruncate`, `KemsStore`),
`Collect` or `Timeout`, `Project`, `WriteTemporary`, `Publish`, `Return`. A killed Runtime leaves its
owner running, since that has a session of its own. Ten of the jobs `documents_plane/cli.py` registers are there,
with the rules by which a
binding of the environment admits them (`BindingIsRefused`, `Registered`). Not among them are `l4-registry-list`, an owner of another repository whose
receipt is that of `l4-content-audit` over again, and the five release jobs from `kems-production-preflight` on, which start
the scripts `KemsProduction` models. The repair of a
concept card (`RepairRead`, `RepairWrite`) renders the front matter as the code does, without quotes and
without null. `told`, `lost` and `adopted` are ghosts: the fingerprints a caller was told of, those stored by a
check nobody heard of, and those stored by a check that had read no baseline and answered "initialized" without
naming anything (`ReadNone`); only a check that succeeded in writing the baseline has anything `Stored`.

### KemsProduction

Terminals run scripts from a list, over shared files: `preflight` (inventory, four checks, evidence),
`compose` (the operator's manifest, external), `gateway` (HTTP endpoint or Hermes relay), `receipt`, `closeout`,
`materialize` (per source: hash, text, four writes to the graph store). The checks read their files
one after the other, so an owner may revise them in between. `OpenTemporary`, `Fill`, `Replace`
and `WriteFails` are `_write_json_atomically`: all writers of a file use one temporary name, so that what one
opened another may publish before it is filled; `holds` says which name a writer's descriptor has come
to. The `unlink` of the temporary name in the `finally` after a successful replace
(`src/scripts/kems_production_preflight.py:61-63`) is left out: it could only take away another writer's temporary file, and that
writer then finds none and gives up, as it does in `Replace` when another has published it. `cleared` and `acknowledged` are ghosts: the inventories that passed every check in
production, and the dispatches the endpoint confirmed.

### The books of the executor

Seven modules, each one object in memory with the calls its users may make in any order;
`ExecutorBooks` puts them beside each other and gives each a number of calls (`Cases`).

- `PhaseMachine`: `transition_to` with its table, its `on_exit` hooks on a stack (a hook may call
  the machine again), `Pause`, `Resume`, `Fail`, `Advance`, the assessment of risk, saving and restoring; the
  machine may be made in any phase.
  `PausedKnowsWhere`: exactly a paused machine knows its phase before the pause, and it is the one the audit
  trail last left. A machine made PAUSED does not know any until it has left that phase (its `resume()` without a
  target raises).
- `AgentRuns`: `run_agent` with its retries and `execute` of the agent executor, cancelled by name or
  by state while they wait. `CancelHitsTheNewest`: runs of one agent share its entry in the table of states, of which
  an older run takes hold again when it returns; a cancellation by name still strikes the run begun last, or none. That
  a cancelled run goes on and may become COMPLETED is what the code does; no property asks for it (section 5).
- `Governance`: votes, five ways of aggregation, conflicts, the kept decision. Confidences are sums over
  counts, as no property depends on their rounding. `DecisionIsCurrent`: what is kept is what
  the present votes would give.
- `QualityReport`: measurements that keep the verdict of their day (which the report does not use: it judges by the
  profile of the moment), profiles that are edited later, the
  report by weights. The code's floats are whole numbers by a choice of units: targets and values in units of
  `1 / Unit`, and a score of 100 is `Full`, which every target divides; rounding is left out. The instance has the
  code's "custom" profile and the first two metrics of its "software-dev". `ReportAgreesWithItsLines`: the report passes when all measured lines do and fails when none is
  measured or all miss by far.
- `MerkleLedger`: leaves are numbers, a hash of two nodes their concatenation; the layers over the leaves,
  the places of a leaf in them and the nodes a proof climbs through are recursive functions. `ProofsBindTheirEntry`: a proof verifies for its own leaf and no other, and entries recorded later change nothing.
- `PipelineParser`: the recursive descent as a stack of what is still to be parsed (`Productions`,
  `Expected`, `Loops`), fed with any token at every place; the tree is left out. `ParsesEnd`: once the source has
  ended the parser returns, unless the arguments of a call were open.
- `StepFlows`: loop, parallel and try over sub-steps that answer, fail or are cancelled at every await. Steps are
  mappings whose targets are names; only others raise outside the step's own `try`
  (`executor/dsl_executors.py:138,297`) and enter the catch, which is therefore left out.
  `FlowsAnswerForTheirSteps`: what each answers agrees with the calls it made.

## 3. Runs

| run | kind | instance | distinct states |
|---|---|---|---|
| `EffectJournal` | pass | one key, three threads of two processes, one call each | 95 000 |
| `WorkflowRun` | pass | three calls of one run, two turns, two effects | 492 000 |
| `RegistryDispatch` | pass | two tasks, two agents, two pool threads and the event loop | 605 000 (up to symmetry) |
| `GossipSync` | pass | five cases of two or three nodes, two agents | 256 000 |
| `CronService` | pass | two jobs, one worker, both processes | 110 000 |
| `MatrixScheduler` | pass | two scanners, a launchd service behind two others | 1.2 million |
| `BusConsumer` | pass | two events, five faults, three failures park an event | 151 000 |
| `TaskScheduler` | pass | two tasks of two priorities, two callers | 229 000 |
| `TaskSchedulerStop` | violation | one caller, one worker, one entry in the queue | 564 |
| `DocumentsJobs` | pass | ten cases of two processes, two scopes, one card | 1.26 million |
| `KemsProduction` | pass | five cases of two terminals, two sources | 512 000 |
| `ExecutorBooks` | pass | seven cases, one per book | 1.14 million |

Properties:

- `EffectJournal`: `ExclusiveSection`, `JournalWellFormed`, `EveryRepeatExplained`,
  `SuccessAnswersAreOnFile`, `ImplementsEffectOnce` (refinement of `EffectOnce`) and `EveryCallReturns` (liveness);
- `WorkflowRun`: `CheckpointsAdvance`, `ReceiptsMatchJournal`, `SuccessEventIsBacked`,
  `SucceededRunIsFinal` (a step property) and `CallTerminates` (liveness);
- `RegistryDispatch`: `OverrunIsBounded` (an agent gets at most one task beyond `max_concurrency` for each
  other thread), `LoadIsCounted` (the counter covers the tasks assigned), `TasksKept`;
- `GossipSync`: `VerdictsAreEarned` (an agent is `remote_offline`, where the verdict was made or where it was pushed to,
  only if its node failed to answer three requests in a row or its peer object was replaced during a pull), `DeadPeersAreMarked` (liveness: a peer that stays
  dead has no idle agent, in the end, at a node whose loop watches it);
- `CronService`: `DeletedStaysDeleted` and `EditsSurviveRuns` (step properties), `DueIsServed` and `StopCompletes` (liveness);
- `MatrixScheduler`: `RestartsBounded`, `UptimeIsTrue` and `UnrecoverableIsEarned` (the last two step properties);
- `BusConsumer`: `BooksAreTrue` (an acknowledged event is in the knowledge base, a parked one had as many
  mishaps as the limit), `RepeatsAreExplained` (a second put needs a mishap or a kill);
- `TaskScheduler`: `PendingIsQueued` (no pending task is forgotten by queue, worker and stop together),
  `CancelledIsFinal` (step property), `PendingIsServed` (liveness: a pending task is run or cancelled in the end,
  if from some time on no task of higher priority is scheduled);
- `DocumentsJobs`: `ReceiptsTellTheTruth`, `HonestOwnersAreBelieved`, `ChangesAreTold`;
- `KemsProduction`: `ReadyIsEarned`, `GraphIsClosed`;
- `ExecutorBooks`: the seven named above (`CancelHitsTheNewest` is a step property, `ParsesEnd` liveness).

What some of them leave out, and why:

- `ReceiptsMatchJournal` and `CheckpointsAdvance` excuse a caller who passed `resume=False` (the log then
  starts over by request) and effects of a turn that was cut short. `SuccessEventIsBacked` excuses a
  call that ended between event and checkpoint: that window is real and is the point of the property.
- `VerdictsAreEarned` excuses a peer that was added or removed while it was being asked: the cycle then counts on the old peer
  object, and a node that answers another cycle between two lost requests is given up all the same. The attempt to prove
  the property without the excuse met this case; the run now has it too.
- `OverrunIsBounded` and `LoadIsCounted` excuse lost updates (`raced`), the latter also repeated reports: each of them really breaks
  them. That an agent never exceeds `max_concurrency` is not claimed, because it is false: two threads may both pass the
  filter before either writes (section 5). `TasksKept`
  excuses two overlapping rewriters of the queue, which really lose tasks.
- `PendingIsServed` needs its premise: the queue is by priority alone and nothing ages, so a task starves while
  more urgent ones keep coming. Without the premise TLC finds that behaviour, as submissions never end in the model.
- `RestartsBounded` and `UnrecoverableIsEarned` excuse the window after an overlap, a kill or a failed
  save, any of which really makes the file forget restarts and verdicts; `UptimeIsTrue` needs no excuse.
- `CronService` does not say that a job runs once per due time: the code has no guard
  against a second copy while the first is running.
- `BusConsumer` does not say that every event is ingested: an event that must be retried is skipped as soon
  as a later one is settled (section 5).
- `ChangesAreTold` excuses checks that were killed or timed out after they had stored their baseline, a
  directory that is gone, the extra inbox after an absence, and a check that read no baseline, be it the first one or one that
  met the file another check had just truncated (`adopted`); each of them really swallows a change.
- `ParsesEnd` excuses open arguments of a call, which really are read for ever.

### Bounds

- `EffectJournal`: one key, because slots of different keys share only the locks and
  `torn`; three callers with one call each, two of them in one process, so both locks
  are contended, and a failed or killed call, its repeat and a replay or compensation
  fit into one behaviour.
- `WorkflowRun`: `MaxTurns = 2` (30 in the code) lets a retry, a tool turn and a stop
  compete for turns; `MaxCalls = 3` allows fail, resume, compensate or restart; two
  effects, once alone and once together in a turn.
- `RegistryDispatch`: `MaxRetries = 1`, so that a task can be tried, retried and
  escalated; two requests of the pool, which beside the event loop is what a race takes; one outage; agents of
  concurrency 1 and 2, so that load ratios differ; one agent registers late, so queues
  fill first. Neither the tasks nor the pool's threads differ, and the run states safety only: hence the symmetry.
- `GossipSync`: three to five events per case; three missed answers need one kill and three rounds, and
  a fourth event brings the node back or forces a cycle beside the loop; five make a row of failures go on past an answer
  to a replaced peer. Each case has the kinds of
  event that meet: heartbeats with sweeps, a third node that passes on what it heard, forced cycles,
  peers that come and go.
- `CronService`: one job in the table and one created during the run, so that one can
  hold up the other; one worker (four in the code) because a single one is the hardest case
  for "everybody is served"; `MaxEvents = 2` requests, kills, stops or failing statements, so
  that any two of them meet around a run; `MaxQueue = 1` (the pool's queue has no limit)
  makes the ticker wait where the code would queue, which still lets one copy of a job run
  while another is queued and a third is about to be.
- `MatrixScheduler`: `Window = 3`, `MaxHeals = 2`, `Base = 1` and `Hopeless = 4` keep the
  order of the code's 300 s, 5, 5 s and 1800 s: the back-off after one restart is shorter than
  the window, two restarts freeze, and giving up takes longer than the window. `MaxMishaps = 1`
  overlap, kill or failing save. The branch for Docker is in the module but not in this instance.
- `BusConsumer`: `Limit = 3` as in the code, five faults, so that a limit's worth of failures leaves room for a kill and
  a refused statement; two events, so that one can overtake the other.
- `TaskScheduler`: `MaxQueued = 3` entries in the queue at one time, one more than the tasks, so that one is in it twice, and
  `MaxWorkers = 2` workers alive or awaited at one time, so that a stop and a start overlap. Neither bounds
  how often tasks are scheduled or the scheduler is started. One worker and one entry are enough for `TaskSchedulerStop`.
- `DocumentsJobs`: every job alone with every content; two validations and two KEMS checks at once;
  every kind of binding; `MaxIncidents = 3` failures, kills, timeouts or edits in one behaviour.
- `KemsProduction`: `MaxEvents = 2`; the cases are a release beside another's preparation with a
  revised source, a release tried again by a second terminal under every reply of the endpoint, a release whose inputs are
  revised and approvals withdrawn, dispatches through Hermes, and two materializations.
- `ExecutorBooks`: four or five calls per book (eight for the ledger, so that layers of 1 to 8 leaves and a proof
  occur), each book alone because none reads another: all their interleavings would show no more. The
  parser's stack is bounded by `MaxStack = 10`, beyond which the source ends.

### Fairness and deadlock

`EffectJournal` assumes weak fairness of each caller's steps inside a call: a thread is
scheduled, and the external call returns or raises (the code gives it no timeout, so a
call that hangs while it holds the lock hangs every other caller; that is the assumption).
Calls and crashes are not fair. Only weak fairness is needed because a waiting caller
stays enabled once the bounded number of others is through. `WorkflowRun` assumes weak
fairness of the running call's steps. `CronService` assumes weak fairness of the ticker, of each worker,
of a client's run, of the first scan and of the interpreter's exit (threads go on, and every script
ends, by itself or by a timeout: 120 s in a worker, the job's own in a request), and of
`Start` (launchd restarts the service); requests, kills, stops, failing statements and the passing
of intervals are not fair. `GossipSync` assumes weak fairness of each node's cycles, the loop's and a forced one's: the event loop
resumes what is ready, and every request has a timeout; late pushes, deaths and restarts are not fair. `TaskScheduler` assumes it of each worker's steps and of the end of each
await (executors return; that a *stop* returns is what the violation run refutes even so). `ExecutorBooks` assumes it of the parser,
which waits for nobody. `RegistryDispatch`, `MatrixScheduler`,
`BusConsumer`, `DocumentsJobs` and `KemsProduction` state no liveness and assume none.

Where `CHECK_DEADLOCK FALSE` is set the bounded number of calls, requests or events is used up;
in the others something may always happen (a process may crash, time passes).

## 4. Proofs

`EffectJournalProofs` proves, for every number of keys, processes, threads and calls:
`TypeCorrect`, `MutualExclusion`, `JournalIsWellFormed`, `RepeatsAreExplained`,
`AnswersAreOnFile`, `TornJournalIsInert` (a step property: under a torn journal no external call begins)
and `Refinement`. Assumptions: `HomeAssumption`
(every caller has a process), `MaxCallsAssumption`, `NoneAssumption` (the value "no
holder" is no caller and no slot).

The argument: neither mutual exclusion nor the well-formed journal is inductive. The
invariant `IInv` adds `HolderKnows`: every caller inside the section is the holder of
the flock, and one about to run or to append knows that the journal is not torn, that its
slot is unsettled, which attempt number comes next and, for a compensation, that the
effect is settled. (The RLock is not needed: the flock alone excludes.) `AnswersSettled`
says that a caller told of success looks at a settled slot. Every step of the caller inside the section then changes only its own slot, which
nobody else can be looking at. The refinement maps the journal of a key to
`open`, `done` or `undone`; each external call maps to `Perform` or `Revert`, the append of a
success to `Commit` or `CommitRevert`, every other step to a stutter.

`RegistryDispatchProofs` proves, for any agents, tasks, nodes, pool threads and bounds on
requests, outages and retries: `RegistryTypeCorrect`, `RegistryBoundsOverrun` (`OverrunIsBounded`) and
`RegistryKeepsTasks` (`TasksKept`). Assumptions: `AgentsAssumption`, `BoundsAssumption` and
`ThreadsAssumption` (the event loop is no pool thread, and the pool is finite). The bound on the counter is not
inductive, since a thread that passed the filter writes whatever the load has become. `RoomInv` therefore counts the threads
that are still `Aimed` at an agent, those that kept it in their filter and those that chose it, into its load: while no
update is lost, the load and the threads aimed at it never exceed `max_concurrency` by more than the number of other threads. A thread can
aim at an agent only while that has room, and no more than all threads can; the write turns one that aims into one task. `TasksKept` needs `QueueInv`: as long
as no two rewriters of `_pending` overlapped there is one at most, the items it
iterates were in the queue, and each is still to be looked at, kept, about to be
assigned or settled. When it replaces the queue, the dict has the size it had at the
start, so (finite sets, `FS_Subset`) it is the queue it iterated, and nothing is lost.

`SchedulersProofs` proves of `MatrixScheduler`, for any services, dependencies, scanners and limits:
`MatrixTypeCorrect`, `MatrixRestartsBounded`, `MatrixFrozenIsEarned`, `MatrixUptimeIsTrue` and
`MatrixUnrecoverableIsEarned`. Assumption: `MatrixAssumption` (`Order` lists each service once,
the limits are positive, a restart is forgotten before a service is hopeless). The invariant
`IInv` says of every memory, the file and the copies the scans hold, that it is `Sound`: a
recorded pid and starting time belong to one process, the history of restarts respects the
limit and contains no restart that was not made. That survives overlaps and lost files, because a
memory is only ever replaced by one that is sound. `OneAtATime` adds that
since the last mishap one scan at most runs and that the memory which will be on file next
`Knows` every restart and healthy verdict since then; the limit on what is known is
then a limit on what happened. `UnrecoverableIsEarned` is about the verdicts before the step, because a service
whose process failed while its health URL answers is given up and found healthy by one verdict.

`MessagingProofs` proves of `BusConsumer`, for any number of events, any limit and any number of faults:
`BusTypeCorrect`, `BusBooksAreTrue` and `BusRepeatsAreExplained`. Assumptions: `EventsAssumption`,
`LimitAssumption` (the limit is positive). The two properties speak of rows, but a row is settled from the
daemon's local count and place: `CountsAreBacked` says that while an event is handled its row is pending
and the local count, with the failure about to be counted, is backed by mishaps; `PutsAreOwed` that one put at most is owed
to a row or to the daemon's knowledge, and every other one to a mishap or a kill.

It proves of `GossipSync`, for any nodes, agents, homes and cases: `VerdictsAreAlwaysEarned` (`VerdictsAreEarned`). Assumptions:
`HomeAssumption`, `CasesAssumption` (tables of peers name nodes). The invariant `GossipInvariant` says that a cycle pulls through the
object that is in the table, or through one of a replaced peer (`OnTrack`); that the failures on an object that was never replaced are no more
than the answers really missed since the last one (`FailuresAreMisses`), whichever cycles count on it; and that stores, the agents a
cycle holds after their removal and pushes still on their way bear earned verdicts only (`StatusesAreEarned`).

`SchedulersProofs` also proves of `CronService`, for any jobs, workers and bounds, under `CronAssumption`: `CronTableFits`, and the step
properties `DeletedForGood` (`DeletedStaysDeleted`) and `EditsAlwaysSurvive` (`EditsSurviveRuns`). `WritersOfTheTable` splits the steps
into edits, recorded runs, elapsing intervals and steps that leave the table alone; `OnlyLastChanges` is what the middle two may do.

`TaskSchedulerProofs` proves, for any tasks, priorities, callers and bounds on entries and workers:
`SchedulerTypeCorrect`, `SchedulerForgetsNothing` (`PendingIsQueued`) and `SchedulerCancelsForGood`
(`CancelledIsFinal`), from `SchedulerInvariant`. Assumptions: `TasksAssumption`, `PriorityAssumption`,
`BoundsAssumption`. `PendingIsQueued` alone does not survive a worker that empties the
queue; `CancellationIsAwaited` says that a cancellation is thrown only into a worker that some stop
awaits, so that a stop sees every queue a worker empties and marks what was in it. `TakenOut` says that taking an entry out of a
sequence leaves the others in it. The step property follows because the only
step that takes a task out of the queue to run it does so for a pending one.

`WorkflowRunProofs` proves, for any effects, lists of tool calls, retry policies and numbers of turns and calls:
`WorkflowTypeCorrect`, `LogAdvances` (`CheckpointsAdvance`), `ReceiptsAreBacked` (`ReceiptsMatchJournal`), `SuccessIsBacked`
(`SuccessEventIsBacked`) and the step property `SuccessIsFinal` (`SucceededRunIsFinal`). Assumptions:
`MaxTurnsAssumption`, `ToolCallListsAssumption`, `RetryPoliciesAssumption`. None of the invariants is inductive: what a save appends is
judged by what the call knew when it prepared it. `PendingIsTheCalls` says that the checkpoint about to be saved bears the
call's own attempt and effects and a turn the call has not passed; `RecordHasItsCall` that a success belongs to the
tool call in progress; `SucceededIsLeft` that no call is under way on a run whose last checkpoint succeeded, unless it
was started over. The step property follows from that one.

`DocumentsProofs` proves of `KemsProduction`, for any terminals, sources and cases and without any assumption on the constants:
`ReadyIsAlwaysEarned` (`ReadyIsEarned`) and `GraphStaysClosed` (`GraphIsClosed`). All writers of a file share one
temporary name, so a terminal may publish what another wrote; the invariant therefore speaks of every text rather
than of its writer: what is published, what lies under a temporary name and what a terminal is about to write under a
given name are each `Backed` by the preflights that passed and the dispatches that were confirmed, which only grow. For the graph,
`MaterializationsInOrder` says that what a terminal stores next refers to what is already stored.

It proves of `DocumentsJobs`, for any processes, jobs asked, scopes, cards and contents of Documents, the first two again without an assumption:

- `SuccessesAreShown` (`ReceiptsTellTheTruth`). What a receipt says was decided several steps before it is published, and the exit
  code of the process may still change after. `Progress` therefore says of every stage what an exit code of 0 means there: that
  the owner ended with 0 (before the projection), that its output was accepted and no error noted (until the rename), that a receipt
  which says so is published (after it); and where a process can have left a temporary file. `ReceiptIsSound`
  says of each receipt that the process it names is past its publication and will not touch what the receipt rests on.
- `NoChangeIsSwallowed` (`ChangesAreTold`). That property alone is not inductive: a check stores all it fingerprinted but names only
  what differed from the baseline it read, and another check may have replaced that since. `Accounted` therefore holds for the baseline and
  for every check past its comparison: a fingerprint is `Claimed` by the check itself, which is to name it or has read no baseline, or it is `Covered`, that is,
  told, lost, adopted, or both stored and named by a process still alive. When a check compares, a fingerprint it does not name was in the baseline it reads, and so is
  `Covered` already; what is `Covered` stays so, because a process that has stored ends by returning (told), a kill or a timeout (lost). A check
  that read none adopts what it stores as it stores it.
- `OwnersAreBelieved` (`HonestOwnersAreBelieved`), under `ContentsAssumption`, `ScopesAssumption` (the scopes are those of
  `kems.py`) and `TodayAssumption`. One lemma per owner says that its projection accepts whatever it reports over any content
  (`FactsAreBelieved`, ..., `DecayIsBelieved`; an owner that crashes or is refused its path did no inspection). The invariant
  `BelievedInv` carries that through the stages: a started owner works for a registered job, what it is about to print or has printed
  is what the projection asks (for the KEMS check, which compares in one step and answers in another, that it names scopes it
  fingerprinted only), and the projection notes what it finds. The sums over types and over buckets are folds of the
  community modules: `SumIsUnique` says that a fold over a finite set is the only function that satisfies its
  recursion, and `PartsAddUp` that the counts per value of a function add up to the size of its domain. Both are proved from a
  smallest counterexample (`SmallestIsThere`), without an induction theorem; `GreatestIsThere` and `LeastIsThere` say the same of
  `Max` and of the first entry of a list with a given property.

`ExecutorBooksProofs` proves the safety property of six of the seven books (the parser has none); no step of one book touches another (`OneBookAtATime`),
so each has an invariant of its own:

- `PausesAreRemembered` (`PausedKnowsWhere`): the machine in use and the saved one both know their pause, and every
  transition on the stack of hooks is a legal one, so that what a hook returns to is too, whatever phase the machine was made in;
- `CancellationsAreAimed` (`CancelHitsTheNewest`), for any agents, retries and calls, without an assumption: the state kept for an agent is
  that of its newest run or of one that has returned (`OwnState`), and one that has returned is COMPLETED or FAILED
  (`Settled`), so that a cancellation by name refuses it;
- `DecisionsStayCurrent` (`DecisionIsCurrent`);
- `ReportsAgree` (`ReportAgreesWithItsLines`), under `DefaultsAssumption`, `ValuesAssumption` and `UnitsAssumption`, for any
  profiles with positive weights: any finite set of rational targets has units in which each of them divides a full score. Totals
  are compared line by line (`TotalsCompare`), a line that passes scoring `Full` and one that misses by half `Full \div 2` at most (`ScoreIs`);
- `ProofsBind` (`ProofsBindTheirEntry`), for a ledger of any length: a proof given is one of the entry there was
  (`ProofOf`); from its leaf it climbs through the nodes above the leaf, layer by layer, to the root (`ClimbsToTheRoot`), and from
  another leaf it cannot arrive there, because each step is injective (`ClimbBinds`);
- `FlowsAnswer` (`FlowsAnswerForTheirSteps`), under `StepsAssumption`: of a flow under way the calls so far are each made
  once, none of them failed but the last, and every call of the rounds behind it was made (`LoopGood`, `ParallelGood`, `TryGood`).

Recursion there is proved about without an induction theorem: `LeastNumber` (a nonempty set of numbers has a least
one, by `WFMin` of the library) gives `AllNumbers`, induction over a set of numbers, and that `IterationExists`, which says that a
recursive function over the numbers has the values its definition gives it.

`RegistryDispatchProofs` also proves `RegistryCountsLoad` (`LoadIsCounted`), with `LoadInv`: unless an update was lost or a task was
reported on twice, the tasks assigned to an agent together with the frames about to give a slot back never exceed its
counter (`SlotsCovered`), and an agent that has yet to register is nobody's choice.

Only model-checked: every liveness property (fairness and `ENABLED` are out of the prover's reach; `ParsesEnd` of the parser is
one). Every safety invariant and every step property of a passing run is stated by a theorem. That `WorkflowRun` uses its effect store as `EffectOnce` allows is by construction (it takes its actions), except that
`CompensationSucceeds` performs and records a compensation in one step. No module declares a `RECURSIVE` operator.

## 5. Disagreements and observations

One disagreement is checked. The docstring of `stop` (`executor/task_scheduler.py:83`) says that it stops the
scheduler and marks every pending task as cancelled. In `TaskSchedulerStop` it never returns: the worker swallows the cancellation that meets it
inside an executor (`:166`), goes back to `queue.get`, and `stop` waits for a worker that never ends.

Met while modelling; the models contain each of these, and the properties are worded around them:

- effects: `workflow_effects.py:5-7` promises more than the lock gives, since an effect whose record cannot be appended is
  repeated; `workflow_checkpoint.py:50-56` compares records that differ in `recorded_at`, so a run that
  fails at the turn it was resumed at raises; `executor/engine.py:747-751,802-806` uses one idempotency key
  for failure and success;
- registry: an agent can exceed `max_concurrency`, although `registry/README.md:142` filters out
  saturated agents: the filter (`registry/dispatch.py:135`) and the read of the load (`:141`) are apart, and two threads may both pass
  the one before either comes to the other; a dispatched task stays in `_pending` (`registry/dispatch.py:57`), failover may choose the failed node
  (`:107-108`); after a restart `active_tasks` comes back without the assignments it counts; `_save` overwrites its file in place;
- gossip: a pull never merges anything, since its answers have no `registered_at`; an agent that should
  override one that is there is passed twice to `update_agent` (`registry/sync.py:277`), which raises, so
  the rest of the delta is dropped although `registry/README.md:115-117` promises the newest; `remote_offline` is never taken back; a deregistered
  agent comes back from its peers; a change of the table of peers ends the cycle that iterates it;
- cron: `create_job` means to set `last_run_at`, but the `INSERT` (`cron_service/db.py:92-98`) does not name it,
  so a new job is due at once;
- matrix: "despite self-heal" (`scheduler.py:266-269`) is judged by the age of the last healthy verdict
  alone, also when nothing was tried; a scan overwrites what `matrix_bridge` recorded in `matrix_state.json`;
- bus: an event that failed is skipped once a later one is settled, though the comment of
  `bus_consumer.py:129` means it to be retried; an error the database will not count is counted twice;
- task scheduler: the queue has no aging, so a task starves while more urgent ones keep coming; two overlapping stops with a start between them leave a worker nobody knows;
- documents: the repair of a card renders values without quotes (`learning_writers.py:95-105`), so that a
  text that needs them no longer parses, and null becomes "None"; `vault-search` lacks arguments its
  command requires and always exits with 2; the baseline of the KEMS check is written before
  the answer is known to arrive; a check that reads it while another has truncated it (`documents_plane/kems.py:84,111`)
  answers "initialized" with no changed scopes and stores what it sees, so that those changes are named to nobody; an `fsync` of the
  directory that fails after the replace (`documents_plane/jobs.py:825`) leaves a receipt that says succeeded beside an answer of 74; a
  temporary receipt of a killed run stays;
- release scripts: one temporary name for all writers (`kems_production_preflight.py:52`); sources hashed a second time after the inventory;
  a stamped manifest can never get a receipt; "queued" gets a receipt but no closeout; the relay holds one envelope;
- books: `cancel_agent` cancels "a running or retrying agent" (`executor/core/agent_runner.py:219`) and answers True, but the
  run goes on and its verdict overwrites the cancellation; an older run of the same name that returns takes the entry, and
  `cancel_agent` then answers False while the newer one runs; the verdict recorded with a measurement is that of the profiles of that
  day; the two modules of the decomposition import each other and cannot be imported; with a client set the agent
  runner always fails; an `on_exit` hook that makes a transition breaks the chain of the phase history;
  weighted voting ignores the weights; changing weights or voters keeps the old decision; a proof of a repeated
  action is for its first entry; a loop whose condition cannot be evaluated succeeds; a parallel set succeeds
  whatever its steps do; a step that fails never enters the catch of a try, only one that is no mapping or has an unhashable target; unknown tokens are dropped in silence.

## 6. Not modelled, and the plan

Not modelled because it cannot run: the decomposition of projects (`executor/decomposer.py` and
`executor/decomposer_strategies.py` import each other). Not modelled by choice: the LLM gateway, the executor's memory and tools, KEI, the front ends
(`cli.py`, `mcp_server.py`), the interceptor's static rules, `workflow_skills.py` and the remaining scripts are sequential, hold no state
between calls that an order of steps could break, or only format text. HTTP, SQLite, git, launchd, Docker and Hermes appear
only through their outcomes.

Left out of the modelled parts: the cron service's delivery and classification of outputs, which follow the
recorded run; the matrix scheduler's counters of consecutive failures, staleness and alerts, which live in one process and
end in a notification or in `autoheal.sh`; the registry store's file; the store's reading of a torn
checkpoint log; two processes on one run (`workflow_checkpoint.py:50`); the research ingest, the search and the rename check of the
documents plane; the rounding of quality scores and the catch of a try; schema validation and configuration of domains; the tree the parser builds; the evaluation
of a step's condition.

What would come next, in order of weight:

1. `WorkflowRun` with two processes on one run, and a torn checkpoint log.
2. The registry with its file: restarts that restore the load without the assignments.
