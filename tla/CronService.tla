------------------------------ MODULE CronService ------------------------------
(***************************************************************************)
(* The cron service (cron_service/): jobs in a SQLite table, a ticker thread *)
(* that lists the enabled jobs and submits those that are due to a thread    *)
(* pool, the pool's workers, and runs a client asks for.  Two processes work  *)
(* on the table: Http serves the API and owns ticker and pool, Mcp serves the *)
(* same operations as tools and has no scheduler.  launchd keeps both alive.  *)
(*                                                                          *)
(* A statement on the table is one step; it may fail (locked, disk full).     *)
(* Time is left out: a job's interval since last_run_at, and the interval of  *)
(* the health scan, elapse at any moment.                                    *)
(***************************************************************************)
EXTENDS Integers, Sequences, SequencesExt, FiniteSets

CONSTANTS
    Jobs,            \* job ids (uuid: an id is created once)
    Existing,        \* jobs in the table when the service is first started
    Workers,         \* threads of the pool (max_workers)
    Http, Mcp,       \* the two processes
    NoRow,           \* there is no such row
    MaxEvents,       \* bound on requests, kills, stops and failing statements
    MaxQueue         \* bound on what waits for the pool (no limit in the code)

Processes == {Http, Mcp}

(* A row: schedule is empty, one that cannot be parsed, or a good one; script *)
(* says whether there is one; last stands for last_run_at: NULL, or so long   *)
(* ago that the schedule's interval has or has not elapsed.                  *)
Row == [enabled : BOOLEAN, schedule : {"empty", "bad", "good"}, script : BOOLEAN,
        last : {"null", "recent", "elapsed"}]

ASSUME CronAssumption ==
    /\ Existing \subseteq Jobs /\ IsFiniteSet(Jobs)
    /\ Http # Mcp /\ NoRow \notin Row
    /\ {MaxEvents, MaxQueue} \subseteq Nat

VARIABLES
    row,        \* row[j]: the row of job j, or NoRow
    created,    \* the ids ever created, by created_at
    life,       \* life[p]: whether process p is down, starting, serving, stopping
    ticker,     \* where the ticker is, and the due jobs it has still to submit
    queue,      \* jobs that wait for a worker
    worker,     \* worker[w]: where it is in _run_job_sync, and the job
    manual,     \* manual[p]: the run a client asked process p for
    scanned,    \* whether the last health scan is "recent" (_last_scan_ts)
    events      \* requests, kills, stops and failing statements so far

cronVars == <<row, created, life, ticker, queue, worker, manual, scanned, events>>

NoRun == [at |-> "idle", job |-> NoRow]
Asleep == [at |-> "asleep", rest |-> <<>>]

CronInit ==
    /\ row = [j \in Jobs |-> IF j \in Existing
                THEN [enabled |-> TRUE, schedule |-> "good", script |-> TRUE, last |-> "elapsed"]
                ELSE NoRow]
    /\ created = SetToSeq(Existing)
    /\ life = [p \in Processes |-> IF p = Http THEN "down" ELSE "serving"]
    /\ ticker = [Asleep EXCEPT !.at = "ended"]
    /\ queue = <<>>
    /\ worker = [w \in Workers |-> NoRun]
    /\ manual = [p \in Processes |-> NoRun]
    /\ scanned = FALSE
    /\ events = 0

-------------------------------------------------------------------------------
(* The table *)

(* _is_due: a job that never ran is due, whatever its schedule says, as long  *)
(* as that is not empty; a schedule that cannot be parsed is never due.       *)
IsDue(r) ==
    /\ r.schedule # "empty"
    /\ r.last = "null" \/ (r.schedule = "good" /\ r.last = "elapsed")

(* The due jobs among those list_jobs(enabled_only=True) returns.            *)
DueJobs == SelectSeq(created,
               LAMBDA j : row[j] # NoRow /\ row[j].enabled /\ IsDue(row[j]))

(* Defect: record_run inserts the row when there is none.                    *)
RecordRunUpsert(j) ==
    row' = IF row[j] = NoRow
           THEN [row EXCEPT ![j] = [enabled |-> TRUE, schedule |-> "good",
                                    script |-> TRUE, last |-> "recent"]]
           ELSE [row EXCEPT ![j].last = "recent"]

(* Defect: record_run replaces the row, with the default for what it does    *)
(* not know.                                                                *)
RecordRunReplace(j) ==
    row' = IF row[j] = NoRow THEN row
           ELSE [row EXCEPT ![j].last = "recent", ![j].enabled = TRUE]

(* The columns record_run writes that matter here: UPDATE touches no row when *)
(* the job has been deleted.                                                *)
RecordRun(j) ==
    row' = IF row[j] = NoRow THEN row ELSE [row EXCEPT ![j].last = "recent"]

(* What the environment may do only so often: a request, a kill, a stop, a    *)
(* statement that fails.                                                    *)
Event == events < MaxEvents /\ events' = events + 1

(* The schedule's interval since the last run elapses.                        *)
IntervalElapses(j) ==
    /\ row[j] # NoRow /\ row[j].last = "recent"
    /\ row' = [row EXCEPT ![j].last = "elapsed"]
    /\ UNCHANGED <<created, life, ticker, queue, worker, manual, scanned, events>>

-------------------------------------------------------------------------------
(* Requests, to either process.  In Http a request that runs a script is      *)
(* handled on the event loop, so it keeps the others waiting; Mcp runs its    *)
(* tools in threads, of which the model has one run a script at a time.       *)

Free(p) == life[p] = "serving" /\ (p = Http => manual[p].at = "idle")

Edit(p) ==
    /\ Free(p) /\ Event
    /\ UNCHANGED <<life, ticker, queue, worker, manual, scanned>>

(* create_job: the INSERT does not name last_run_at.                          *)
CreateJob(p, j) ==
    /\ Edit(p) /\ j \notin ToSet(created)
    /\ \E s \in {"empty", "bad", "good"}, script \in BOOLEAN :
          row' = [row EXCEPT ![j] = [enabled |-> TRUE, schedule |-> s,
                                     script |-> script, last |-> "null"]]
    /\ created' = Append(created, j)

(* update_job (cron_pause and cron_resume too) writes the columns it is given *)
(* and no other.  With another schedule the same last_run_at may or may not   *)
(* be an interval ago.                                                      *)
UpdateJob(p, j) ==
    /\ Edit(p) /\ row[j] # NoRow
    /\ \/ row' = [row EXCEPT ![j].enabled = ~ @]
       \/ row' = [row EXCEPT ![j].script = ~ @]
       \/ \E s \in {"empty", "bad", "good"}, l \in {"recent", "elapsed"} :
             row' = [row EXCEPT ![j].schedule = s,
                                ![j].last = IF @ = "null" THEN @ ELSE l]
    /\ UNCHANGED created

DeleteJob(p, j) ==
    /\ Edit(p) /\ row[j] # NoRow
    /\ row' = [row EXCEPT ![j] = NoRow]
    /\ UNCHANGED created

(* run_job, cron_run: a script that cannot be found is recorded as an error   *)
(* without being run.                                                       *)
RunNow(p, j) ==
    /\ Free(p) /\ manual[p].at = "idle" /\ row[j] # NoRow /\ Event
    /\ manual' = [manual EXCEPT ![p] =
                     [at |-> IF row[j].script THEN "running" ELSE "recording", job |-> j]]
    /\ UNCHANGED <<row, created, life, ticker, queue, worker, scanned>>

ManualEnds(p) ==
    /\ manual[p].at = "running"
    /\ manual' = [manual EXCEPT ![p].at = "recording"]
    /\ UNCHANGED <<row, created, life, ticker, queue, worker, scanned, events>>

(* A failing record_run is answered as a server error.                        *)
ManualRecords(p) ==
    /\ manual[p].at = "recording"
    /\ \/ RecordRun(manual[p].job) /\ UNCHANGED events
       \/ Event /\ UNCHANGED row
    /\ manual' = [manual EXCEPT ![p] = NoRun]
    /\ UNCHANGED <<created, life, ticker, queue, worker, scanned>>

-------------------------------------------------------------------------------
(* Processes *)

(* What a process that ends leaves behind; _last_scan_ts starts at 0 again.   *)
Ends(p) ==
    /\ life' = [life EXCEPT ![p] = "down"]
    /\ manual' = [manual EXCEPT ![p] = NoRun]
    /\ IF p = Http
       THEN /\ queue' = <<>>
            /\ worker' = [w \in Workers |-> NoRun]
            /\ ticker' = [Asleep EXCEPT !.at = "ended"]
            /\ scanned' = FALSE
       ELSE UNCHANGED <<queue, worker, ticker, scanned>>
    /\ UNCHANGED <<row, created>>

(* A process is killed.                                                      *)
Killed(p) == life[p] # "down" /\ Event /\ Ends(p)

(* executor.execute: the script runs in the service's own process group, and  *)
(* _kill_process kills the group when the time is up.                         *)
ManualOverruns(p) ==
    /\ manual[p].at = "running"
    /\ Ends(p)
    /\ UNCHANGED events

(* launchd starts a process again; lifespan starts the ticker before its own  *)
(* forced scan.                                                             *)
Start(p) ==
    /\ life[p] = "down"
    /\ life' = [life EXCEPT ![p] = IF p = Http THEN "starting" ELSE "serving"]
    /\ ticker' = IF p = Http THEN Asleep ELSE ticker
    /\ UNCHANGED <<row, created, queue, worker, manual, scanned, events>>

(* The forced scan ends, well or not; requests are served from now on.        *)
InitialScan ==
    /\ life[Http] = "starting"
    /\ life' = [life EXCEPT ![Http] = "serving"]
    /\ scanned' = TRUE
    /\ UNCHANGED <<row, created, ticker, queue, worker, manual, events>>

(* CronScheduler.stop, when the server shuts down: no more ticks, and the     *)
(* pool takes nothing more; it is not waited for.                            *)
Stop ==
    /\ Free(Http) /\ Event
    /\ life' = [life EXCEPT ![Http] = "stopping"]
    /\ UNCHANGED <<row, created, ticker, queue, worker, manual, scanned>>

(* The interpreter ends once the pool has worked off its queue.               *)
Exit ==
    /\ life[Http] = "stopping"
    /\ queue = <<>> /\ \A w \in Workers : worker[w].at = "idle"
    /\ Ends(Http)
    /\ UNCHANGED events

-------------------------------------------------------------------------------
(* The ticker thread *)

(* Defect: stop only shuts the service's sockets.                            *)
RunningUntilDown == life[Http] # "down"

Running == life[Http] \in {"starting", "serving"}

(* Defect: a failing tick ends the thread.                                   *)
TickFatal ==
    /\ ticker.at = "asleep"
    /\ \/ /\ Running
          /\ ticker' = [at |-> "submitting", rest |-> DueJobs]
          /\ UNCHANGED events
       \/ Running /\ Event /\ ticker' = [ticker EXCEPT !.at = "ended"]
       \/ ~ Running /\ ticker' = [ticker EXCEPT !.at = "ended"] /\ UNCHANGED events
    /\ UNCHANGED <<row, created, life, queue, worker, manual, scanned>>

(* A tick begins, unless the scheduler was stopped.  list_jobs may fail.      *)
BeginTick ==
    /\ ticker.at = "asleep"
    /\ \/ /\ Running
          /\ ticker' = [at |-> "submitting", rest |-> DueJobs]
          /\ UNCHANGED events
       \/ Running /\ Event /\ UNCHANGED ticker
       \/ ~ Running /\ ticker' = [ticker EXCEPT !.at = "ended"] /\ UNCHANGED events
    /\ UNCHANGED <<row, created, life, queue, worker, manual, scanned>>

(* One more due job is handed to the pool; a pool that was shut down raises,  *)
(* which ends the tick.                                                     *)
Submit ==
    /\ ticker.at = "submitting" /\ ticker.rest # <<>>
    /\ \/ /\ Running /\ Len(queue) < MaxQueue
          /\ queue' = Append(queue, Head(ticker.rest))
          /\ ticker' = [ticker EXCEPT !.rest = Tail(@)]
       \/ ~ Running /\ ticker' = Asleep /\ UNCHANGED queue
    /\ UNCHANGED <<row, created, life, worker, manual, scanned, events>>

(* After the last job, run_scan_if_due.                                      *)
EndSubmit ==
    /\ ticker.at = "submitting" /\ ticker.rest = <<>>
    /\ ticker' = IF scanned THEN Asleep ELSE [Asleep EXCEPT !.at = "scanning"]
    /\ UNCHANGED <<row, created, life, queue, worker, manual, scanned, events>>

EndScan ==
    /\ ticker.at = "scanning"
    /\ scanned' = TRUE
    /\ ticker' = Asleep
    /\ UNCHANGED <<row, created, life, queue, worker, manual, events>>

(* HEALTH_SCAN_INTERVAL elapses.                                             *)
ScanIntervalElapses ==
    /\ scanned
    /\ scanned' = FALSE
    /\ UNCHANGED <<row, created, life, ticker, queue, worker, manual, events>>

-------------------------------------------------------------------------------
(* A worker of the pool *)

(* It takes the first job and reads it: a job that is gone or has no script   *)
(* is dropped, and so is one that cannot be read.                            *)
Take(w) ==
    /\ worker[w].at = "idle" /\ queue # <<>>
    /\ LET j == Head(queue) IN
          \/ /\ worker' = IF row[j] # NoRow /\ row[j].script
                          THEN [worker EXCEPT ![w] = [at |-> "running", job |-> j]]
                          ELSE worker
             /\ UNCHANGED events
          \/ Event /\ UNCHANGED worker
    /\ queue' = Tail(queue)
    /\ UNCHANGED <<row, created, life, ticker, manual, scanned>>

(* The script ends by itself, or else by an exception or the 120 s that every *)
(* job gets; what an except branch does is not caught again.                  *)
ScriptEnds(w) ==
    /\ worker[w].at = "running"
    /\ \E next \in {"recording", "lastRecord"} :
          worker' = [worker EXCEPT ![w].at = next]
    /\ UNCHANGED <<row, created, life, ticker, queue, manual, scanned, events>>

WorkerRecords(w) ==
    /\ worker[w].at \in {"recording", "lastRecord"}
    /\ RecordRun(worker[w].job)
    /\ worker' = [worker EXCEPT ![w] = NoRun]
    /\ UNCHANGED <<created, life, ticker, queue, manual, scanned, events>>

WorkerCannotRecord(w) ==
    /\ worker[w].at \in {"recording", "lastRecord"}
    /\ Event
    /\ worker' = [worker EXCEPT ![w] = IF @.at = "recording"
                                       THEN [@ EXCEPT !.at = "lastRecord"] ELSE NoRun]
    /\ UNCHANGED <<row, created, life, ticker, queue, manual, scanned>>

-------------------------------------------------------------------------------
Ticker == BeginTick \/ Submit \/ EndSubmit \/ EndScan
Worker(w) == Take(w) \/ ScriptEnds(w) \/ WorkerRecords(w) \/ WorkerCannotRecord(w)
Manual(p) == ManualEnds(p) \/ ManualRecords(p) \/ ManualOverruns(p)

CronNext ==
    \/ Ticker
    \/ \E w \in Workers : Worker(w)
    \/ InitialScan \/ Stop \/ Exit \/ ScanIntervalElapses
    \/ \E p \in Processes :
          \/ Manual(p) \/ Start(p) \/ Killed(p)
          \/ \E j \in Jobs : CreateJob(p, j) \/ UpdateJob(p, j) \/ DeleteJob(p, j) \/ RunNow(p, j)
    \/ \E j \in Jobs : IntervalElapses(j)

(* Threads go on, a script in a worker ends within 120 s and one in a request *)
(* within the job's timeout, and launchd restarts what ended (KeepAlive).     *)
CronSpec ==
    /\ CronInit /\ [][CronNext]_cronVars
    /\ WF_cronVars(Ticker) /\ WF_cronVars(InitialScan) /\ WF_cronVars(Exit)
    /\ \A w \in Workers : WF_cronVars(Worker(w))
    /\ \A p \in Processes : WF_cronVars(Manual(p)) /\ WF_cronVars(Start(p))

-------------------------------------------------------------------------------
(* Properties *)

Scheduled(j) == row[j] # NoRow /\ row[j].enabled /\ row[j].script /\ IsDue(row[j])

(* A due job is run and its run recorded, whatever the other jobs do and      *)
(* although workers, ticker and table fail now and then: a job whose run was  *)
(* lost with its process, or could not be recorded, is still due.             *)
DueIsServed == \A j \in Jobs : Scheduled(j) ~> ~ Scheduled(j)

(* A run that ends after its job was deleted does not bring the row back.     *)
DeletedStaysDeleted == [][\A j \in ToSet(created) : row[j] = NoRow => row'[j] = NoRow]_cronVars

(* Recording a run does not undo what a client changed while it ran.          *)
ClientEdits == \E p \in Processes, j \in Jobs :
    CreateJob(p, j) \/ UpdateJob(p, j) \/ DeleteJob(p, j)
EditsSurviveRuns == [][~ ClientEdits =>
    \A j \in Jobs : row[j] # NoRow =>
        /\ row'[j] # NoRow
        /\ [row'[j] EXCEPT !.last = row[j].last] = row[j]]_cronVars

(* A stopped service ends, whatever was queued.                               *)
StopCompletes == life[Http] = "stopping" ~> life[Http] = "down"

===============================================================================
