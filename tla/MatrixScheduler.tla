---------------------------- MODULE MatrixScheduler ----------------------------
(***************************************************************************)
(* MatrixScheduler.scan_once (scheduler.py): one scan after another judges    *)
(* the services of the matrix, dependencies first, and restarts those that    *)
(* failed, with an exponential back-off and a limit on the restarts of the    *)
(* last minutes.  What it remembers is in scheduler_state.json, which every   *)
(* scan reads at its start and rewrites at its end.  Scans overlap: the       *)
(* daemon scans every 15 s, and the cron service once when it starts and      *)
(* again from its ticker thread.                                            *)
(*                                                                          *)
(* Services start, exit and answer or not at any moment, so what a restart, a *)
(* launchd repair or autoheal.sh does to a service needs no step of its own.  *)
(* Clock times are kept as ages, and a scan, which uses the time of its start *)
(* throughout, takes no time.                                               *)
(***************************************************************************)
EXTENDS Integers, Sequences, SequencesExt, FiniteSets

CONSTANTS
    Order,       \* the services in static_order: dependencies come first
    DependsOn,   \* DependsOn[s]: the services s depends on
    Launchd,     \* services with a launchd_label
    Docker,      \* services with a docker_container
    Probed,      \* services with a health_url
    Watched,     \* services with a port or log that shows whether they work
    Scanners,
    Window,      \* 300 s: how long a restart counts
    MaxHeals,    \* 5: restarts in the window that freeze a service
    Base,        \* 5 s: the first back-off
    Hopeless,    \* 1800 s: unhealthy for longer is unrecoverable
    Never,       \* no time
    MaxMishaps   \* bound on overlapping scans and on scans that are killed

Services == ToSet(Order)
Managed == Launchd \cup Docker

ASSUME MatrixAssumption ==
    /\ Order \in Seq(Services) /\ IsInjective(Order)
    /\ DependsOn \in [Services -> SUBSET Services]
    /\ Launchd \cap Docker = {} /\ Managed \cup Probed \cup Watched \subseteq Services
    /\ {Window, MaxHeals, Base, Hopeless, MaxMishaps} \subseteq Nat \ {0}
    /\ Window <= Hopeless
    /\ Never \notin Nat

Ages == 0 .. Hopeless + 1   \* the last one stands for all that is older
Older(age) == IF age = Never \/ age = Hopeless + 1 THEN age ELSE age + 1

(* scheduler_state.json: the ages of the restarts in the window (a service is *)
(* not restarted twice at one time); the age of the last healthy verdict (of launchd services: for the   *)
(* others it is only shown); and whether running_since and running_pid are    *)
(* of the service's present process or of an older one.                      *)
Memory == [history : [Services -> SUBSET (0 .. Window - 1)],
           lastHealthy : [Services -> Ages \cup {Never}],
           since : [Services -> {"none", "present", "older"}],
           pid : [Services -> {"none", "present", "older"}]]
NoMemory == [history |-> [s \in Services |-> {}],
             lastHealthy |-> [s \in Services |-> Never],
             since |-> [s \in Services |-> "none"],
             pid |-> [s \in Services |-> "none"]]

Statuses == {"running", "idle", "failed", "stopped", "unmanaged", "degraded",
             "unrecoverable", "BACKOFF", "FROZEN", "WAITING"}
NoResult == [status |-> "none", health |-> "none", healed |-> FALSE]

VARIABLES
    process,    \* process[s]: "up", "exited" (with status 0) or "down"
    serving,    \* serving[s]: whether s answers its probes
    file,       \* scheduler_state.json
    scan,       \* scan[m]: the scan of m: where it is, its memory, its results
    heals,      \* history: ages of the restarts really made in the window
    seen,       \* history: age of the last scan that found s healthy
    calm,       \* history: age of the last mishap
    mishaps     \* overlaps and kills so far

world == <<process, serving>>
truth == <<heals, seen>>
vars == <<world, file, scan, truth, calm, mishaps>>

Idle == [at |-> "idle", next |-> 1, memory |-> NoMemory,
         result |-> [s \in Services |-> NoResult]]
Active(m) == scan[m].at # "idle"

TypeOK ==
    /\ process \in [Managed -> {"up", "exited", "down"}]
    /\ serving \in [Services -> BOOLEAN]
    /\ file \in Memory
    /\ scan \in [Scanners -> [at : {"idle", "services", "write"},
                              next : 1 .. Len(Order) + 1,
                              memory : Memory,
                              result : [Services ->
                                 [status : Statuses \cup {"none"},
                                  health : {"none", "healthy", "unreachable"},
                                  healed : BOOLEAN]]]]
    /\ heals \in [Services -> SUBSET (0 .. Window - 1)]
    /\ seen \in [Services -> Ages \cup {Never}]
    /\ calm \in Ages
    /\ mishaps \in 0 .. MaxMishaps

Init ==
    /\ process \in [Managed -> {"up", "exited", "down"}]
    /\ serving \in [Services -> BOOLEAN]
    /\ file = NoMemory
    /\ scan = [m \in Scanners |-> Idle]
    /\ heals = [s \in Services |-> {}]
    /\ seen = [s \in Services |-> Never]
    /\ calm = Hopeless + 1
    /\ mishaps = 0

-------------------------------------------------------------------------------
(* The services, and time *)

(* A new process of s: the pid and the starting time on record are now those  *)
(* of an older one.                                                         *)
Outdated(memory, s) ==
    LET outdate(x) == IF x = "present" THEN "older" ELSE x
    IN  [memory EXCEPT !.since[s] = outdate(@), !.pid[s] = outdate(@)]

ProcessStarts(s) ==
    /\ process[s] # "up"
    /\ process' = [process EXCEPT ![s] = "up"]
    /\ file' = Outdated(file, s)
    /\ scan' = [m \in Scanners |->
                  [scan[m] EXCEPT !.memory = Outdated(@, s)]]
    /\ UNCHANGED <<serving, truth, calm, mishaps>>

ProcessEnds(s) ==
    /\ process[s] = "up"
    /\ \E p \in {"exited", "down"} : process' = [process EXCEPT ![s] = p]
    /\ UNCHANGED <<serving, file, scan, truth, calm, mishaps>>

ServingChanges(s) ==
    /\ s \in Probed \cup Watched
    /\ serving' = [serving EXCEPT ![s] = ~ @]
    /\ UNCHANGED <<process, file, scan, truth, calm, mishaps>>

Aged(history) == {age + 1 : age \in {a \in history : a + 1 < Window}}

(* Restarts that leave the window are forgotten at once: every use of the     *)
(* history drops them first.                                                *)
Cleaned(history) == Aged(history)

Tick ==
    /\ \A m \in Scanners : ~ Active(m)
    /\ file' = [file EXCEPT
                  !.history = [s \in Services |-> Cleaned(@[s])],
                  !.lastHealthy = [s \in Services |-> Older(@[s])]]
    /\ heals' = [s \in Services |-> Aged(heals[s])]
    /\ seen' = [s \in Services |-> Older(seen[s])]
    /\ calm' = Older(calm)
    /\ UNCHANGED <<world, scan, mishaps>>

-------------------------------------------------------------------------------
(* The verdict on one service: memory is the scan's, result what it found so  *)
(* far.                                                                     *)

DownStatuses == {"failed", "error", "stopped", "FROZEN", "WAITING", "BACKOFF", "unreachable"}

DependencyDown(result, s) == \E d \in DependsOn[s] :
    \/ result[d].status \in DownStatuses
    \/ result[d].health \notin {"none", "healthy"}

Frozen(memory, s) == Cardinality(memory.history[s]) >= MaxHeals

(* health_check_url *)
Health(s) == IF s \notin Probed THEN "none"
             ELSE IF serving[s] THEN "healthy" ELSE "unreachable"

(* Whether launchd or docker says that s has failed.                          *)
Failing(s) == \/ s \in Launchd /\ process[s] = "down"
              \/ s \in Docker /\ process[s] # "up"

GivenUp(memory, s) ==
    /\ s \in Launchd
    /\ memory.lastHealthy[s] # Never /\ memory.lastHealthy[s] > Hopeless

(* 5 * 2 ** len(svc_history) since the last restart                           *)
BackedOff(memory, s) ==
    \A age \in memory.history[s] : age >= Base * 2 ^ Cardinality(memory.history[s])

Degraded(s) == s \in Probed \cup Watched /\ ~ serving[s]

(* The status of a service that is neither waiting nor frozen.                *)
Status(memory, s) ==
    IF s \notin Managed THEN "unmanaged"
    ELSE IF Failing(s)
         THEN IF GivenUp(memory, s) THEN "unrecoverable"
              ELSE IF ~ BackedOff(memory, s) THEN "BACKOFF"
              ELSE IF s \in Docker THEN "stopped" ELSE "failed"
         ELSE IF Degraded(s) THEN "degraded"
              ELSE IF process[s] = "up" THEN "running" ELSE "idle"

Heals(memory, s) == Failing(s) /\ ~ GivenUp(memory, s) /\ BackedOff(memory, s)

Verdict(m, s) ==
    LET memory == scan[m].memory
        result == scan[m].result
        waits == DependencyDown(result, s)
        frozen == ~ waits /\ Frozen(memory, s)
    IN  [status |-> IF waits THEN "WAITING"
                    ELSE IF frozen THEN "FROZEN" ELSE Status(memory, s),
         health |-> IF waits THEN "none" ELSE Health(s),
         healed |-> ~ waits /\ ~ frozen /\ Heals(memory, s)]

FoundHealthy(verdict) == verdict.status \in {"running", "idle"} \/ verdict.health = "healthy"

(* Defect: running_since is kept although the pid has changed.                *)
SightedByName(memory, s) ==
    IF memory.since[s] = "none" THEN [memory EXCEPT !.since[s] = "present"] ELSE memory

(* running_since and running_pid of a service that runs: they are set anew    *)
(* when there are none and when the pid has changed; docker shows no pid.     *)
Sighted(memory, s) ==
    LET changed == s \in Launchd /\ memory.pid[s] # "present" IN
    IF memory.since[s] = "none" \/ changed
    THEN [memory EXCEPT !.since[s] = "present",
                        !.pid[s] = IF s \in Launchd THEN "present" ELSE @]
    ELSE memory

(* Defect: the new history is not put back.                                  *)
RestartedUnrecorded(memory, s, healed) == memory

Restarted(memory, s, healed) ==
    IF healed THEN [memory EXCEPT !.history[s] = @ \cup {0}] ELSE memory

(* Defect: only the first healthy verdict is remembered.                      *)
RememberedFirst(memory, s, verdict) ==
    LET restarted == Restarted(memory, s, verdict.healed)
        sighted == IF verdict.status = "running" THEN Sighted(restarted, s) ELSE restarted
    IN  IF FoundHealthy(verdict)
        THEN IF s \in Launchd /\ memory.lastHealthy[s] = Never
             THEN [sighted EXCEPT !.lastHealthy[s] = 0] ELSE sighted
        ELSE [sighted EXCEPT !.since[s] = "none", !.pid[s] = "none"]

(* What the scan remembers of a service that neither waits nor is frozen.     *)
Remembered(memory, s, verdict) ==
    LET restarted == Restarted(memory, s, verdict.healed)
        sighted == IF verdict.status = "running" THEN Sighted(restarted, s) ELSE restarted
    IN  IF FoundHealthy(verdict)
        THEN IF s \in Launchd THEN [sighted EXCEPT !.lastHealthy[s] = 0] ELSE sighted
        ELSE [sighted EXCEPT !.since[s] = "none", !.pid[s] = "none"]

-------------------------------------------------------------------------------
(* A scan *)

Mishap == mishaps < MaxMishaps /\ mishaps' = mishaps + 1 /\ calm' = 0

(* The scan reads the state file.                                            *)
Load(m) ==
    /\ ~ Active(m)
    /\ IF \E n \in Scanners : Active(n) THEN Mishap ELSE UNCHANGED <<calm, mishaps>>
    /\ scan' = [scan EXCEPT ![m].at = "services", ![m].memory = file]
    /\ UNCHANGED <<world, file, truth>>

CheckService(m) ==
    /\ scan[m].at = "services" /\ scan[m].next <= Len(Order)
    /\ LET s == Order[scan[m].next]
           memory == scan[m].memory
           verdict == Verdict(m, s)
           judged == verdict.status \notin {"WAITING", "FROZEN"}
       IN  /\ scan' = [scan EXCEPT
                 ![m].next = @ + 1,
                 ![m].result[s] = verdict,
                 ![m].memory = IF judged THEN Remembered(memory, s, verdict)
                               ELSE memory]
           /\ heals' = [heals EXCEPT ![s] = IF verdict.healed THEN @ \cup {0} ELSE @]
           /\ seen' = [seen EXCEPT ![s] =
                 IF judged /\ FoundHealthy(verdict) /\ s \in Launchd THEN 0 ELSE @]
    /\ UNCHANGED <<world, file, calm, mishaps>>

(* open(state_file, "w"): until it is written again, the file is empty.       *)
BeginSave(m) ==
    /\ scan[m].at = "services" /\ scan[m].next > Len(Order)
    /\ file' = NoMemory
    /\ scan' = [scan EXCEPT ![m].at = "write"]
    /\ UNCHANGED <<world, truth, calm, mishaps>>

(* json.dump, whose failure is ignored; the reports that are written from the *)
(* results (matrix_state.json, the OMO pulse) are not read by later scans.    *)
EndSave(m) ==
    /\ scan[m].at = "write"
    /\ \/ file' = scan[m].memory /\ UNCHANGED <<calm, mishaps>>
       \/ Mishap /\ UNCHANGED file
    /\ scan' = [scan EXCEPT ![m] = Idle]
    /\ UNCHANGED <<world, truth>>

(* The scanner's process is killed in the middle of a scan.                   *)
Kill(m) ==
    /\ Active(m) /\ Mishap
    /\ scan' = [scan EXCEPT ![m] = Idle]
    /\ UNCHANGED <<world, file, truth>>

-------------------------------------------------------------------------------
Scan(m) == Load(m) \/ CheckService(m) \/ BeginSave(m) \/ EndSave(m)

Next ==
    \/ Tick
    \/ \E m \in Scanners : Scan(m) \/ Kill(m)
    \/ \E s \in Managed : ProcessStarts(s) \/ ProcessEnds(s)
    \/ \E s \in Services : ServingChanges(s)

Spec == Init /\ [][Next]_vars

-------------------------------------------------------------------------------
(* Properties *)

(* A crash loop is contained: within the window a service is restarted        *)
(* MaxHeals times at most, unless in that window scans overlapped or one was  *)
(* killed, which makes the file forget restarts.                             *)
RestartsBounded == calm >= Window => \A s \in Services : Cardinality(heals[s]) <= MaxHeals

(* A launchd service's uptime is never counted from an older process, however *)
(* long it was waiting, frozen or unseen and whatever scans overlapped.       *)
UptimeIsTrue == [][\A m \in Scanners, s \in Launchd :
    scan[m].result[s] = NoResult /\ scan'[m].result[s].status = "running"
        => scan'[m].memory.since[s] = "present"]_vars

(* Only a service that no scan of the half hour before found healthy is given *)
(* up, unless scans overlapped or one was killed in that time.               *)
UnrecoverableIsEarned == [][\A m \in Scanners, s \in Services :
    /\ calm > Hopeless
    /\ scan[m].result[s] = NoResult /\ scan'[m].result[s].status = "unrecoverable"
    => seen[s] \notin 0 .. Hopeless]_vars

(* A service is frozen only while MaxHeals restarts of it are no older than   *)
(* the window, so that one whose restarts have aged is looked after again.    *)
FrozenIsEarned == \A m \in Scanners, s \in Services :
    scan[m].result[s].status = "FROZEN" => Cardinality(heals[s]) >= MaxHeals

===============================================================================
