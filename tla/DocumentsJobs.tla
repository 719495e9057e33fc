----------------------------- MODULE DocumentsJobs -----------------------------
(***************************************************************************)
(* run_job of the Documents control plane (documents_plane/cli.py, jobs.py,   *)
(* commands.py): a process of Runtime validates a job against the registry,    *)
(* prepares the private layout, starts the owner in a session of its own,      *)
(* projects its output and publishes a receipt.  Several `runtime documents`  *)
(* processes share the receipts and the baseline of kems.py, which the owner   *)
(* of the kems check replaces before it answers.                              *)
(*                                                                          *)
(* A process may be killed at any step; its owner then goes on alone.  The     *)
(* content of Documents is any of Contents at the moment the owner reads it,    *)
(* except for the KEMS scopes and the concept cards, which are variables.      *)
(***************************************************************************)
EXTENDS DocumentsOwners

CONSTANTS
    Processes,     \* the `runtime documents run` processes
    JobCases,      \* bound: the cases considered, each with its binding, the jobs users ask
                   \* of each process, and the scopes and cards they touch meanwhile
    Unset,         \* the binding of an environment that names none
    Contents,      \* what each inspected part of Documents may hold
    Scopes,        \* the KEMS scopes considered
    MaxIncidents,  \* bound: how often something fails or dies, or a user changes Documents
    Cards,         \* the concept cards
    CardStates     \* what a user may make of a card

(* What each owner may find, and the scopes it may be asked to check.              *)
ASSUME ContentsAssumption ==
    /\ \A d \in Contents["facts-audit"] : FactsContent(d)
    /\ \A d \in Contents["control-health"] : ControlContent(d)
    /\ \A d \in Contents["controller-shadow"] : ShadowContent(d)
    /\ \A d \in Contents["model-freshness"] : FreshnessContent(d)
    /\ \A d \in Contents["sanyi-status"] : SanyiContent(d)
    /\ \A d \in Contents["learning-decay"] : DecayContent(d)

ASSUME ScopesAssumption == Scopes \subseteq KemsScopes

VARIABLES
    setting,       \* the case at hand (never changes)
    run,           \* what each process of Runtime does, and its result
    owner,         \* the owner process it started
    receipts,      \* per job, the receipts published so far; the last one is the file
    leftovers,     \* the runs whose temporary receipt stayed behind
    scope,         \* the content of each KEMS scope
    baseline,      \* kems.py's baseline file
    told,          \* (ghost) the fingerprints a caller was told of
    lost,          \* (ghost) the fingerprints stored by a check nobody heard of
    adopted,       \* (ghost) the fingerprints stored by a check that read no baseline
    incidents,     \* how often that happened so far
    card,          \* the concept cards of the learning vault
    repair         \* a repair of one card, run by hand

jobVars == <<run, owner, receipts, leftovers>>
kemsVars == <<scope, baseline, told, lost, adopted>>
vaultVars == <<card, repair>>
documentsVars == <<setting, incidents, jobVars, kemsVars, vaultVars>>

-------------------------------------------------------------------------------
(* The registry.  Built-in jobs are always registered.  When the environment    *)
(* names a Workspace binding, the shadow job must be declared exactly once and  *)
(* as expected, every other Workspace-owned job at most once and as expected:   *)
(* otherwise the whole command is refused.                                    *)
BuiltIn == {"l4-content-audit", "facts-audit", "kems-check", "control-health"}
Shadow == "controller-shadow"
Optional == {"model-freshness", "sanyi-status", "learning-decay", "learning-validate",
             "vault-search"}
Jobs == BuiltIn \cup {Shadow} \cup Optional

BindingIsRefused(b) ==
    /\ b # Unset
    /\ \/ b[Shadow] # "exact"
       \/ \E j \in Optional : b[j] \in {"altered", "twice"}

Registered(b) ==
    BuiltIn \cup (IF b = Unset THEN {} ELSE {j \in {Shadow} \cup Optional : b[j] = "exact"})

Projection(job) ==
    CASE job = "facts-audit"     -> "facts-audit-v1"
      [] job = "kems-check"      -> "kems-check-v1"
      [] job = "control-health"  -> "control-health-v1"
      [] job = Shadow            -> "controller-shadow-v2"
      [] job = "model-freshness" -> "model-freshness-v1"
      [] job = "sanyi-status"    -> "sanyi-status-consistency-v1"
      [] job = "learning-decay"  -> "learning-decay-v1"
      [] OTHER                   -> "metadata"

-------------------------------------------------------------------------------
(* Fingerprints of kems.py: the version of a directory, whose entries' dates     *)
(* never repeat, or one of the two words below.  The extra inbox is left out     *)
(* when it is not there.                                                     *)
Absent == -1          \* "not_found"
Unreadable == -2      \* "error"
Standing == Scopes \ {"buffer_inbox"}
NoBaseline == [at |-> "absent", hashes |-> <<>>]

Looked == {s \in Scopes : s \in Standing \/ scope[s].there}

Incident == incidents < MaxIncidents /\ incidents' = incidents + 1
Undisturbed == UNCHANGED incidents

NoRun == [at |-> "idle", job |-> "none", exit |-> 0, dry |-> FALSE, timedOut |-> FALSE,
          error |-> FALSE, evidence |-> FALSE]
NoOwner == [at |-> "none", hashes |-> <<>>, out |-> Report(0, NoOutput)]
NoRepair == [at |-> "idle", card |-> "none", text |-> "none"]

DocumentsInit ==
    /\ setting \in JobCases
    /\ run = [r \in Processes |-> NoRun]
    /\ owner = [r \in Processes |-> NoOwner]
    /\ receipts = [j \in Jobs |-> <<>>]
    /\ leftovers = {}
    /\ scope = [s \in Scopes |-> [there |-> TRUE, version |-> 0]]
    /\ baseline = NoBaseline
    /\ told = {} /\ lost = {} /\ adopted = {}
    /\ card \in [Cards -> CardStates]
    /\ incidents = 0
    /\ repair = NoRepair

Alive(r) == run[r].at \notin {"idle", "done", "killed"}

Moved(r, stage, exit) == [run EXCEPT ![r].at = stage, ![r].exit = exit]

Prints(r, stage, out) == [owner EXCEPT ![r].at = stage, ![r].out = out]

(* Defect: the error is noted, the exit code of the owner always kept.           *)
FailureKeepsExit(r, stage) == [run EXCEPT ![r].at = stage, ![r].error = TRUE]

(* _failure_result: an exit code of the owner other than 0 is kept.             *)
Failure(r, stage) ==
    [run EXCEPT ![r].at = stage, ![r].exit = IF @ = 0 THEN 74 ELSE @, ![r].error = TRUE]

-------------------------------------------------------------------------------
(* main, _documents_main and the first part of run_job: the refusals before      *)
(* anything is created are exit code 2, a dry run is over here.                *)
Asked(r, job, dry, stage, exit) ==
    [run EXCEPT ![r] = [NoRun EXCEPT !.at = stage, !.job = job, !.exit = exit, !.dry = dry]]

Invoke(r) ==
    /\ run[r].at = "idle"
    /\ \E job \in setting.asked[r] :
         \/ \E dry \in BOOLEAN : run' = Asked(r, job, dry, "done", 2)
         \/ /\ ~BindingIsRefused(setting.binding) /\ job \in Registered(setting.binding)
            /\ run' \in {Asked(r, job, TRUE, "done", 0), Asked(r, job, FALSE, "layout", 0)}
    /\ Undisturbed
    /\ UNCHANGED <<setting, owner, receipts, leftovers, kemsVars, vaultVars>>

(* ensure_runtime_state_root, the second validation and _prepare_private_layout. *)
PrepareLayout(r) ==
    /\ run[r].at = "layout"
    /\ \/ run' = [run EXCEPT ![r].at = "launch"] /\ Undisturbed
       \/ run' = Moved(r, "done", 2) /\ Incident
       \/ run' = Failure(r, "done") /\ Incident
    /\ UNCHANGED <<setting, owner, receipts, leftovers, kemsVars, vaultVars>>

(* run_owner_command: 125 without isolation, 127 without the command, 74 when    *)
(* the work directories or the process cannot be made; roots that have come to    *)
(* overlap raise.  The command of vault-search lacks its arguments.            *)
Launch(r) ==
    /\ run[r].at = "launch"
    /\ \/ /\ \/ run' = Moved(r, "done", 2)
             \/ \E code \in {125, 127} :
                  run' = Moved(r, "project", code)
             \/ run' = [run EXCEPT ![r].at = "persist", ![r].exit = 74, ![r].error = TRUE]
          /\ Incident /\ UNCHANGED owner
       \/ /\ run' = [run EXCEPT ![r].at = "wait"]
          /\ owner' = [owner EXCEPT ![r].at = "started"]
          /\ Undisturbed
    /\ UNCHANGED <<setting, receipts, leftovers, kemsVars, vaultVars>>

(* The owner of every job but the kems check reads Documents, answers and ends.  *)
Answers(job) ==
    CASE job = "l4-content-audit"  -> {Report(code, NoOutput) : code \in {0, 1}}
      [] job = "facts-audit"       -> {AuditFacts(d) : d \in Contents[job]} \cup {PathRefused}
      [] job = "control-health"    -> {InspectControlHealth(d) : d \in Contents[job]}
      [] job = Shadow              -> {InspectShadow(d) : d \in Contents[job]}
      [] job = "model-freshness"   -> {InspectFreshness(d) : d \in Contents[job]}
      [] job = "sanyi-status"      -> {InspectSanyi(d) : d \in Contents[job]}
      [] job = "learning-decay"    -> {InspectDecay(d) : d \in Contents[job]}
      [] job = "learning-validate" -> {ValidateCards(root, card) : root \in {"ok", "missing"}}
      [] job = "vault-search"      -> {UsageError}

Answer(r) ==
    /\ owner[r].at = "started" /\ run[r].job # "kems-check"
    /\ \E out \in Answers(run[r].job) :
         owner' = Prints(r, "ended", out)
    /\ Undisturbed
    /\ UNCHANGED <<setting, run, receipts, leftovers, kemsVars, vaultVars>>

-------------------------------------------------------------------------------
(* check_kems.  The scopes are fingerprinted first, the baseline is read after,   *)
(* and written in place: the file is empty until the text is in it.            *)
KemsScan(r) ==
    /\ owner[r].at = "started" /\ run[r].job = "kems-check"
    /\ \/ \E unread \in SUBSET {s \in Looked : scope[s].there} :
            /\ owner' = [owner EXCEPT ![r].at = "scanned",
                        ![r].hashes = [s \in Looked |-> IF ~scope[s].there THEN Absent
                                                        ELSE IF s \in unread THEN Unreadable
                                                        ELSE scope[s].version]]
            /\ IF unread = {} THEN Undisturbed ELSE Incident
       \/ owner' = Prints(r, "ended", PathRefused) /\ Incident
    /\ UNCHANGED <<setting, run, receipts, leftovers, kemsVars, vaultVars>>

(* Defect: a directory that cannot be read counts as one that is gone.           *)
CompareReadable(hashes) ==
    LET changed == {s \in DOMAIN hashes \cap DOMAIN baseline.hashes :
                       baseline.hashes[s] # hashes[s] /\ hashes[s] \notin {Absent, Unreadable}}
    IN  Report(IF changed = {} THEN 0 ELSE 1,
               [status |-> IF changed = {} THEN "ok" ELSE "changed",
                baseline |-> IF baseline.at = "kept" THEN "existing" ELSE "initialized",
                changed |-> changed])

Compare(hashes) ==
    LET changed == {s \in DOMAIN hashes \cap DOMAIN baseline.hashes :
                       baseline.hashes[s] # hashes[s] /\ hashes[s] # Absent}
    IN  IF baseline.at # "kept"
          THEN Report(0, [status |-> "ok", baseline |-> "initialized", changed |-> {}])
          ELSE Report(IF changed = {} THEN 0 ELSE 1,
                      [status |-> IF changed = {} THEN "ok" ELSE "changed",
                       baseline |-> "existing", changed |-> changed])

KemsLoad(r) ==
    /\ owner[r].at = "scanned"
    /\ owner' = Prints(r, "compared", Compare(owner[r].hashes))
    /\ Undisturbed
    /\ UNCHANGED <<setting, run, receipts, leftovers, kemsVars, vaultVars>>

KemsTruncate(r) ==
    /\ owner[r].at = "compared"
    /\ \/ /\ baseline' = [at |-> "torn", hashes |-> <<>>]
          /\ owner' = [owner EXCEPT ![r].at = "truncated"]
          /\ Undisturbed
       \/ /\ owner' = Prints(r, "ended", PathRefused)
          /\ Incident /\ UNCHANGED baseline
    /\ UNCHANGED <<setting, run, receipts, leftovers, scope, told, lost, adopted, vaultVars>>

Fingerprints(r) == {<<s, owner[r].hashes[s]>> : s \in DOMAIN owner[r].hashes}

(* The check found no baseline it could read: none yet, or one that another check    *)
(* is about to write or failed to write.                                       *)
ReadNone(o) == o.out.payload.status = "ok" /\ o.out.payload.baseline = "initialized"

(* A check whose process of Runtime is gone stores what nobody will hear of.     *)
KemsStore(r) ==
    /\ owner[r].at = "truncated"
    /\ \/ /\ baseline' = [at |-> "kept", hashes |-> owner[r].hashes]
          /\ owner' = [owner EXCEPT ![r].at = "ended"]
          /\ lost' = IF Alive(r) THEN lost ELSE lost \cup Fingerprints(r)
          /\ adopted' = IF ReadNone(owner[r]) THEN adopted \cup Fingerprints(r) ELSE adopted
          /\ Undisturbed
       \/ /\ owner' = Prints(r, "ended", PathRefused)
          /\ Incident /\ UNCHANGED <<baseline, lost, adopted>>
    /\ UNCHANGED <<setting, run, receipts, leftovers, scope, told, vaultVars>>

(* What the answer of a check names: the scopes that changed; one that read no      *)
(* baseline has an empty list of them.                                         *)
Named(o) ==
    IF o.out.payload.status \notin {"ok", "changed"} THEN {}
    ELSE {<<s, o.hashes[s]>> : s \in o.out.payload.changed}

Heard(r) ==
    /\ told' = IF run[r].job = "kems-check" /\ owner[r].at = "ended"
                 THEN told \cup Named(owner[r]) ELSE told
    /\ UNCHANGED <<scope, baseline, lost, adopted>>

-------------------------------------------------------------------------------
(* communicate() returns, or the timeout kills the owner's process group: before   *)
(* it has printed (a check may have stored its baseline by then), or when it was   *)
(* about to end.                                                              *)
Collect(r) ==
    /\ run[r].at = "wait" /\ owner[r].at = "ended"
    /\ run' = Moved(r, "project", owner[r].out.exit)
    /\ Undisturbed
    /\ UNCHANGED <<setting, owner, receipts, leftovers, kemsVars, vaultVars>>

(* The fingerprints of a check that has stored them and ended; one that failed to  *)
(* store has none.                                                            *)
Stored(r) ==
    IF /\ run[r].job = "kems-check" /\ owner[r].at = "ended"
       /\ owner[r].out.payload.status \in {"ok", "changed"}
      THEN Fingerprints(r) ELSE {}

Timeout(r) ==
    /\ run[r].at = "wait" /\ Incident
    /\ run' = [run EXCEPT ![r].at = "project", ![r].exit = 124, ![r].timedOut = TRUE]
    /\ \/ /\ owner' = Prints(r, "killed", Report(124, NoOutput))
          /\ lost' = lost \cup Stored(r)
       \/ /\ owner[r].at = "ended"
          /\ UNCHANGED <<owner, lost>>
    /\ UNCHANGED <<setting, receipts, leftovers, scope, baseline, told, adopted, vaultVars>>

Project(r) ==
    /\ run[r].at = "project"
    /\ LET output == IF owner[r].at \in {"ended", "killed"} THEN owner[r].out.payload ELSE NoOutput
       IN  run' = IF Accepts(Projection(run[r].job), output)
                    THEN [run EXCEPT ![r].at = "persist", ![r].evidence = TRUE]
                    ELSE Failure(r, "persist")
    /\ Undisturbed
    /\ UNCHANGED <<setting, owner, receipts, leftovers, kemsVars, vaultVars>>

-------------------------------------------------------------------------------
(* _persist_evidence: a temporary file of the run's own, then a rename.  Any     *)
(* step may fail; after the rename only the directory's fsync is left to fail.  *)
Receipt(r) == [run |-> r, exit |-> run[r].exit, timedOut |-> run[r].timedOut,
               error |-> run[r].error, evidence |-> run[r].evidence]

PersistFails(r) ==
    /\ run[r].at \in {"persist", "rename"} /\ Incident
    /\ run' = Failure(r, "close")
    /\ leftovers' \in {leftovers \ {r}} \cup
                      (IF run[r].at = "rename" THEN {leftovers} ELSE {})
    /\ UNCHANGED <<setting, owner, receipts, kemsVars, vaultVars>>

WriteTemporary(r) ==
    /\ run[r].at = "persist"
    /\ run' = [run EXCEPT ![r].at = "rename"]
    /\ Undisturbed
    /\ leftovers' = leftovers \cup {r}
    /\ UNCHANGED <<setting, owner, receipts, kemsVars, vaultVars>>

Publish(r) ==
    /\ run[r].at = "rename"
    /\ receipts' = [receipts EXCEPT ![run[r].job] = Append(@, Receipt(r))]
    /\ leftovers' = leftovers \ {r}
    /\ \/ run' = [run EXCEPT ![r].at = "close"] /\ Undisturbed
       \/ run' = Failure(r, "close") /\ Incident
    /\ UNCHANGED <<setting, owner, kemsVars, vaultVars>>

Return(r) ==
    /\ run[r].at = "close"
    /\ \/ run' = [run EXCEPT ![r].at = "done"] /\ Undisturbed
       \/ run' = Failure(r, "done") /\ Incident
    /\ Heard(r)
    /\ UNCHANGED <<setting, owner, receipts, leftovers, vaultVars>>

(* The process of Runtime is killed; the owner it started lives on.             *)
KillRun(r) ==
    /\ Alive(r) /\ Incident
    /\ run' = [run EXCEPT ![r].at = "killed"]
    /\ lost' = lost \cup Stored(r)
    /\ UNCHANGED <<setting, owner, receipts, leftovers, scope, baseline, told, adopted, vaultVars>>

-------------------------------------------------------------------------------
(* Users change the scopes and the cards at any time.                         *)
ChangeScope(s) ==
    /\ Incident
    /\ \/ scope' = [scope EXCEPT ![s].there = ~@]
       \/ scope[s].there /\ scope' = [scope EXCEPT ![s].version = @ + 1]
    /\ UNCHANGED <<setting, jobVars, baseline, told, lost, adopted, card, repair>>

EditCard(c) ==
    /\ Incident
    /\ \E text \in CardStates \ {card[c]} : card' = [card EXCEPT ![c] = text]
    /\ UNCHANGED <<setting, jobVars, kemsVars, repair>>

(* repair_concept_cards --apply, one card: read, fill in what is missing, write   *)
(* the front matter anew.  The rendering knows no quotes and no null.          *)
Backfilled == {"tags", "created", "knowledge_type"}

Needed(text) == {f \in Backfilled \cap DOMAIN text.fields : text.fields[f] \in {"null", "absent"}}

Rendered(text) ==
    LET merged == [f \in DOMAIN text.fields |->
                     IF f \in Needed(text) \/ text.fields[f] = "null" THEN "set"
                     ELSE text.fields[f]]
    IN  [text EXCEPT !.fields = merged,
                     !.broken = \E f \in DOMAIN merged : merged[f] = "unquoted"]

(* write_text empties the file before it writes: an error or a kill in between.   *)
Emptied(text) ==
    [text EXCEPT !.fields = [f \in DOMAIN text.fields |-> "absent"], !.broken = TRUE,
                 !.linked = FALSE]

RepairRead(c) ==
    /\ repair.at = "idle" /\ Undisturbed
    /\ card[c].readable /\ ~card[c].broken /\ Needed(card[c]) # {}
    /\ repair' = [at |-> "read", card |-> c, text |-> card[c]]
    /\ UNCHANGED <<setting, jobVars, kemsVars, card>>

RepairWrite ==
    /\ repair.at = "read"
    /\ \/ card' = [card EXCEPT ![repair.card] = Rendered(repair.text)] /\ Undisturbed
       \/ card' = [card EXCEPT ![repair.card] = Emptied(repair.text)] /\ Incident
       \/ UNCHANGED card /\ Incident
    /\ repair' = NoRepair
    /\ UNCHANGED <<setting, jobVars, kemsVars>>

-------------------------------------------------------------------------------
Step(r) ==
    \/ Invoke(r) \/ PrepareLayout(r) \/ Launch(r) \/ Answer(r)
    \/ KemsScan(r) \/ KemsLoad(r) \/ KemsTruncate(r) \/ KemsStore(r)
    \/ Collect(r) \/ Timeout(r) \/ Project(r)
    \/ PersistFails(r) \/ WriteTemporary(r) \/ Publish(r) \/ Return(r) \/ KillRun(r)

DocumentsNext ==
    \/ \E r \in Processes : Step(r)
    \/ \E s \in Scopes \cap setting.touched : ChangeScope(s)
    \/ \E c \in Cards \cap setting.touched : EditCard(c) \/ RepairRead(c)
    \/ RepairWrite

DocumentsSpec == DocumentsInit /\ [][DocumentsNext]_documentsVars

-------------------------------------------------------------------------------

(* A published receipt that says "succeeded" comes from an owner that ended with   *)
(* 0 and whose output its projection accepted, and every process that exits with   *)
(* 0 has published such a receipt and left no temporary file: whatever failed in   *)
(* between, Runtime never reports a success it cannot show (run_job).            *)
SuccessIsTrue(r) ==
    /\ owner[r].at = "ended" /\ owner[r].out.exit = 0
    /\ Accepts(Projection(run[r].job), owner[r].out.payload)

ReceiptsTellTheTruth ==
    /\ \A j \in Jobs : \A i \in DOMAIN receipts[j] :
         LET e == receipts[j][i] IN
         e.exit = 0 => ~e.error /\ e.evidence /\ run[e.run].job = j /\ SuccessIsTrue(e.run)
    /\ \A r \in Processes :
         run[r].at = "done" /\ run[r].exit = 0 /\ ~run[r].dry =>
           /\ r \notin leftovers
           /\ \E i \in DOMAIN receipts[run[r].job] :
                receipts[run[r].job][i].run = r /\ receipts[run[r].job][i].exit = 0

(* Whatever Documents hold, the output of an owner that could do its inspection     *)
(* passes the projection of its job: the owners and jobs.py, which share no code,   *)
(* agree on every count, date and error word.                                   *)
HonestOwnersAreBelieved ==
    \A r \in Processes :
        /\ owner[r].at = "ended" /\ run[r].at \in {"persist", "rename", "close"}
        /\ owner[r].out.payload.status \notin {"no output", "failed"}
        => run[r].evidence

(* What the baseline of the kems check holds has been named to a caller, unless the    *)
(* check that stored it was killed, timed out or is still to return, or had read no      *)
(* baseline: such a check answers "initialized", names nothing and stores what it has     *)
(* found.  So one that reads the file between another's truncation and its write, or      *)
(* after a write that failed, does swallow the changes made since; every other overlap     *)
(* names a change twice rather than not at all.  A directory that is gone is never        *)
(* named, and the extra inbox is not compared after an absence (check_kems).           *)
ChangesAreTold ==
    baseline.at = "kept" =>
        \A s \in Standing \cap DOMAIN baseline.hashes :
            LET stored == <<s, baseline.hashes[s]>> IN
            stored[2] # Absent =>
              \/ stored \in told \cup lost \cup adopted
              \/ \E r \in Processes : Alive(r) /\ stored \in Stored(r)

================================================================================
