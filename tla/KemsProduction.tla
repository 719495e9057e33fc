---------------------------- MODULE KemsProduction ----------------------------
(***************************************************************************)
(* The production release of KEMS (scripts/kems_production_preflight.py,      *)
(* kems-materialize.py, reachbridge-kems-gateway.py, kems_dispatch_receipt.py *)
(* and kems_production_closeout.py, packages/reach): five scripts that hand    *)
(* files to one another.  The preflight hashes the sources of the inbox and    *)
(* checks the files of four owners; an operator composes the manifest of the   *)
(* documents; the gateway sends it to the enterprise endpoint or to the local  *)
(* Hermes relay; receipt and closeout compare what the files say.             *)
(*                                                                          *)
(* Two terminals run the scripts over the same files, while the owners of the  *)
(* inputs revise them.  Any script may be killed or fail.                     *)
(***************************************************************************)
EXTENDS Integers, Sequences, FiniteSets

CONSTANTS
    Terminals,     \* who runs the scripts
    Names,         \* the controlled sources, numbered in the order of their names
    Cases,         \* bound: what each terminal runs, the transport, what may be revised
    Evaluations,   \* the evaluation manifests considered
    Databases,     \* the adjudication databases considered
    Reports,       \* the model-acceptance reports considered
    Approvals,     \* the OMO tasks with their approvals considered
    MaxEvents      \* bound: how often something fails or dies, or an owner revises a file

VARIABLES
    given,         \* the case at hand (never changes)
    inbox,         \* the version of each source, 0 when it is not there
    owned,         \* the files of the four owners
    files,         \* the files the scripts hand to one another
    temporary,     \* per written file, the one temporary name all its writers use
    terminal,      \* the script each terminal runs, and what it still has to run
    relay,         \* the envelope in the Hermes relay file
    graph,         \* the KEMS graph store
    acknowledged,  \* (ghost) the dispatches the endpoint confirmed as accepted
    cleared,       \* (ghost) the inventories whose production preflight passed every check
    events         \* how many events happened so far

ghosts == <<acknowledged, cleared>>
vars == <<given, inbox, owned, files, temporary, terminal, relay, graph, ghosts, events>>

-------------------------------------------------------------------------------
(* Files: JSON that can be read, cut off in the middle, or not there.            *)
Missing == [form |-> "missing"]
Partial == [form |-> "partial"]
Readable(file) == file.form = "whole"

Written == {"evidence", "receipt", "closeout"}
Output(tool) == IF tool = "preflight" THEN "evidence" ELSE tool

Checks == {"reachbridge_endpoint", "reachbridge_token", "transport_mode", "source_inventory",
           "evaluation_manifest", "adjudication_persistence", "model_acceptance",
           "omo_approval"}

Idle == [at |-> "start", inventory |-> <<>>, passed |-> {}, out |-> Missing,
         holds |-> "nothing", left |-> {}, source |-> <<0, 0, 0>>]

Init ==
    /\ given \in Cases
    /\ inbox = [n \in Names |-> 1]
    /\ owned \in given.owned
    /\ files = [f \in Written \cup {"manifest", "response"} |-> Missing]
    /\ temporary = [f \in Written |-> Missing]
    /\ terminal = [t \in Terminals |-> [work |-> Idle, todo |-> given.todo[t]]]
    /\ relay = Missing
    /\ graph = [versions |-> {}, evidence |-> {}, entities |-> {}, runs |-> {}]
    /\ acknowledged = {} /\ cleared = {}
    /\ events = 0

Event == events < MaxEvents /\ events' = events + 1
Uneventful == UNCHANGED events

Work(t) == terminal[t].work
Task(t) == Head(terminal[t].todo)
Runs(t, tool, at) ==
    terminal[t].todo # <<>> /\ Task(t).tool = tool /\ Work(t).at = at

Goes(t, work) == [terminal EXCEPT ![t].work = work]
Over(t) == [terminal EXCEPT ![t] = [work |-> Idle, todo |-> Tail(@.todo)]]

Present == [n \in {n \in Names : inbox[n] > 0} |-> inbox[n]]
Sha(n, version) == <<n, version>>

-------------------------------------------------------------------------------
(* kems_production_preflight.py.  Each check reads its files when its turn       *)
(* comes; the sources are hashed for the inventory, then again for the binding   *)
(* of the evaluation manifest.                                               *)
AdmissibleSample(sample) ==
    /\ ~sample.raw /\ sample.status = "adjudicated" /\ sample.labels # "none"
    /\ sample.version # "none"

EvaluationHeader(m) ==
    Readable(m) /\ m.redaction = "verified" /\ m.dataset # "none" /\ m.samples # <<>>

EvaluationOk(m, hashes, bind) ==
    /\ EvaluationHeader(m)
    /\ \A i \in DOMAIN m.samples :
         LET sample == m.samples[i] IN
         /\ AdmissibleSample(sample)
         /\ \A k \in 1 .. i - 1 : m.samples[k].id # sample.id
         /\ bind => sample.ref \in DOMAIN hashes /\ sample.sha = hashes[sample.ref]

AdjudicationOk(db, m) ==
    /\ Readable(db) /\ Readable(m) /\ m.samples # <<>>
    /\ \A i \in DOMAIN m.samples :
         LET sample == m.samples[i] IN
         /\ sample.id \in DOMAIN db.rows
         /\ LET row == db.rows[sample.id] IN
            /\ row.status = "adjudicated" /\ row.sha = sample.sha /\ row.ref = sample.ref
            /\ row.version = sample.version /\ row.labels = sample.labels
            /\ row.adjudicator # "none" /\ row.annotations >= 2

(* The report is bound to the hash of the whole manifest; errors are in          *)
(* hundredths, the improvement asked for in percent.                           *)
AcceptanceOk(report, m) ==
    /\ Readable(report) /\ Readable(m)
    /\ ~report.raw /\ report.status = "shadow_pass"
    /\ report.promotion = "blocked_until_omo_approval"
    /\ report.dataset = m.dataset /\ report.manifest = m
    /\ report.samples = Len(m.samples)
    /\ report.minimum > 0 /\ report.cases >= report.minimum
    /\ report.model * 100 <= report.baseline * (100 - report.improvement)

ApprovalOk(omo, task) ==
    /\ Readable(omo.task) /\ omo.task.status \in {"approved", "dispatched", "executing", "verified",
                                                   "closed"}
    /\ omo.task.id = task
    /\ Readable(omo.approval) /\ omo.approval.task = task
    /\ omo.approval.status = "granted" /\ omo.approval.scope = "task.promote_apply"

Passes(t, check, ok, next) ==
    Goes(t, [Work(t) EXCEPT !.at = next, !.passed = IF ok THEN @ \cup {check} ELSE @])

Unaffected == <<given, inbox, owned, files, temporary, relay, graph, ghosts>>

TakeInventory(t) ==
    /\ Runs(t, "preflight", "start") /\ Uneventful
    /\ terminal' = Goes(t, [Idle EXCEPT
         !.at = "evaluate", !.inventory = Present,
         !.passed = (IF given.endpoint THEN {"reachbridge_endpoint"} ELSE {})
              \cup (IF given.token THEN {"reachbridge_token"} ELSE {})
              \cup (IF ~Task(t).production \/ ~given.local THEN {"transport_mode"} ELSE {})
              \cup (IF Present # <<>> THEN {"source_inventory"} ELSE {})])
    /\ UNCHANGED Unaffected

(* A listed source that is gone by now cannot be hashed: the script dies.        *)
Evaluate(t) ==
    /\ Runs(t, "preflight", "evaluate") /\ Uneventful
    /\ LET m      == owned.evaluation
           listed == DOMAIN Work(t).inventory
           hashes == [n \in listed |-> Sha(n, inbox[n])]
       IN  terminal' = IF EvaluationHeader(m) /\ \E n \in listed : inbox[n] = 0 THEN Over(t)
                       ELSE Passes(t, "evaluation_manifest",
                                   EvaluationOk(m, hashes, Task(t).production), "adjudicate")
    /\ UNCHANGED Unaffected

Adjudicate(t) ==
    /\ Runs(t, "preflight", "adjudicate") /\ Uneventful
    /\ terminal' = Passes(t, "adjudication_persistence",
          ~Task(t).production \/ AdjudicationOk(owned.adjudication, owned.evaluation), "accept")
    /\ UNCHANGED Unaffected

Accept(t) ==
    /\ Runs(t, "preflight", "accept") /\ Uneventful
    /\ terminal' = Passes(t, "model_acceptance",
          ~Task(t).production \/ AcceptanceOk(owned.acceptance, owned.evaluation), "approve")
    /\ UNCHANGED Unaffected

Approve(t) ==
    /\ Runs(t, "preflight", "approve") /\ Uneventful
    /\ terminal' = Passes(t, "omo_approval", ApprovalOk(owned.approval, Task(t).task), "describe")
    /\ UNCHANGED Unaffected

(* The metadata of the evidence is read anew.                                  *)
Evidence(t) ==
    [form |-> "whole", run |-> Task(t).run, production |-> Task(t).production,
     status |-> IF Work(t).passed = Checks THEN "ready" ELSE "blocked",
     passed |-> Work(t).passed, sources |-> Work(t).inventory,
     available |-> (IF Readable(owned.evaluation) THEN {"evaluation"} ELSE {})
              \cup (IF Readable(owned.acceptance) THEN {"model_acceptance"} ELSE {})
              \cup (IF Readable(owned.approval.task) /\ Readable(owned.approval.approval)
                      THEN {"omo"} ELSE {})]

Describe(t) ==
    /\ Runs(t, "preflight", "describe") /\ Uneventful
    /\ terminal' = Goes(t, [Work(t) EXCEPT !.at = "open", !.out = Evidence(t)])
    /\ cleared' = IF Task(t).production /\ Work(t).passed = Checks
                    THEN cleared \cup {<<Task(t).run, Work(t).inventory>>} ELSE cleared
    /\ UNCHANGED <<given, inbox, owned, files, temporary, relay, graph, acknowledged>>

-------------------------------------------------------------------------------
(* _write_json_atomically, write_receipt: every writer of a file uses the same    *)
(* temporary name.  What one opened may be published, or unlinked, by another    *)
(* before it writes into it.                                                  *)
Writing(t, at) ==
    \E tool \in {"preflight", "receipt", "closeout"} : Runs(t, tool, at)
Target(t) == Output(Task(t).tool)

(* The name of what the other writers of the file opened, after it moved.        *)
Renamed(t, to) ==
    [u \in Terminals |->
       IF u = t THEN Over(t)[t]
       ELSE IF terminal[u].todo = <<>> \/ Target(u) # Target(t) THEN terminal[u]
       ELSE IF Work(u).holds = "temporary" THEN [terminal[u] EXCEPT !.work.holds = to]
       ELSE IF Work(u).holds = "published" /\ to = "published"
         THEN [terminal[u] EXCEPT !.work.holds = "nothing"]
       ELSE terminal[u]]

OpenTemporary(t) ==
    /\ Writing(t, "open") /\ Uneventful
    /\ temporary' = [temporary EXCEPT ![Target(t)] = Partial]
    /\ terminal' = Goes(t, [Work(t) EXCEPT !.at = "fill", !.holds = "temporary"])
    /\ UNCHANGED <<given, inbox, owned, files, relay, graph, ghosts>>

(* A text written over another one may leave the end of that one.               *)
Overwritten(old, text) == IF old = Partial THEN {text} ELSE {text, Partial}

Fill(t) ==
    /\ Writing(t, "fill") /\ Uneventful
    /\ CASE Work(t).holds = "temporary" ->
              /\ \E text \in Overwritten(temporary[Target(t)], Work(t).out) :
                   temporary' = [temporary EXCEPT ![Target(t)] = text]
              /\ UNCHANGED files
         [] Work(t).holds = "published" ->
              /\ \E text \in Overwritten(files[Target(t)], Work(t).out) :
                   files' = [files EXCEPT ![Target(t)] = text]
              /\ UNCHANGED temporary
         [] OTHER -> UNCHANGED <<files, temporary>>
    /\ terminal' = Goes(t, [Work(t) EXCEPT !.at = "replace"])
    /\ UNCHANGED <<given, inbox, owned, relay, graph, ghosts>>

(* Nothing to rename is an error; the closeout then tries to write "blocked".    *)
Blocked == [form |-> "whole", status |-> "blocked", run |-> "none", documents |-> <<>>]

GivesUp(t) ==
    IF Task(t).tool = "closeout" /\ Work(t).out # Blocked
      THEN Goes(t, [Idle EXCEPT !.at = "open", !.out = Blocked])
    ELSE Over(t)

(* After a rename the code's finally still looks for the name and would unlink what another  *)
(* writer has opened there meanwhile; that writer then gives up at its own rename, as it       *)
(* does after a write that failed beside it.  This unlink is left out.                       *)
Replace(t) ==
    /\ Writing(t, "replace") /\ Uneventful
    /\ IF temporary[Target(t)] = Missing
         THEN terminal' = GivesUp(t) /\ UNCHANGED <<files, temporary>>
       ELSE /\ files' = [files EXCEPT ![Target(t)] = temporary[Target(t)]]
            /\ temporary' = [temporary EXCEPT ![Target(t)] = Missing]
            /\ terminal' = Renamed(t, "published")
    /\ UNCHANGED <<given, inbox, owned, relay, graph, ghosts>>

(* A write that fails removes the temporary file, whoever's it is.              *)
WriteFails(t) ==
    /\ Writing(t, "fill") /\ Event
    /\ temporary' = [temporary EXCEPT ![Target(t)] = Missing]
    /\ terminal' = [Renamed(t, "nothing") EXCEPT ![t] = GivesUp(t)[t]]
    /\ UNCHANGED <<given, inbox, owned, files, relay, graph, ghosts>>

-------------------------------------------------------------------------------
(* The operator composes the manifest of the dispatch from the evidence or from  *)
(* the inbox as it is, or keeps the copy the gateway has stamped (external).     *)
Compose(t) ==
    /\ Runs(t, "compose", "start") /\ Uneventful
    /\ \E documents \in {Present} \cup
                        (IF Readable(files.evidence) THEN {files.evidence.sources} ELSE {}),
          stamped \in given.stamped :
         files' = [files EXCEPT !.manifest =
                     [form |-> "whole", run |-> Task(t).run, documents |-> documents,
                      raw |-> FALSE, stamped |-> stamped]]
    /\ terminal' = Over(t)
    /\ UNCHANGED <<given, inbox, owned, temporary, relay, graph, ghosts>>

(* The digest of a manifest is the manifest.  The gateway takes it as it is, the  *)
(* two scripts after it leave the stamp out.                                   *)
Contract(m) == [run |-> m.run, documents |-> m.documents, raw |-> m.raw, stamped |-> FALSE]
AsGiven(m) == [Contract(m) EXCEPT !.stamped = m.stamped]
Valid(m) == Readable(m) /\ m.documents # <<>> /\ ~m.raw

Response(digest, mode, status) ==
    [form |-> "whole", dispatch |-> digest, mode |-> mode, status |-> status]

(* dispatch_manifest.  The response is what the script prints.                  *)
Prepare(t) ==
    /\ Runs(t, "gateway", "start") /\ Uneventful
    /\ terminal' = IF Valid(files.manifest) /\ (given.endpoint \/ given.local)
                     THEN Goes(t, [Idle EXCEPT !.at = "send", !.out = AsGiven(files.manifest)])
                   ELSE Over(t)
    /\ UNCHANGED Unaffected

(* dispatch_http: the endpoint's answer confirms the dispatch or is an error; it   *)
(* may take a dispatch and its answer get lost.                                *)
Confirmed(t, status) ==
    /\ files' = [files EXCEPT !.response = Response(Work(t).out, "http", status)]
    /\ acknowledged' = IF status = "refused" THEN acknowledged
                       ELSE acknowledged \cup {Work(t).out}

SendHttp(t) ==
    /\ Runs(t, "gateway", "send") /\ given.endpoint
    /\ \/ \E status \in given.replies : Confirmed(t, status) /\ Uneventful
       \/ Event /\ UNCHANGED <<files, acknowledged>>
    /\ terminal' = Over(t)
    /\ UNCHANGED <<given, inbox, owned, temporary, relay, graph, cleared>>

(* HermesRelayProvider.send: an envelope that already holds this dispatch will do. *)
Queued(t) == files' = [files EXCEPT !.response = Response(Work(t).out, "local_hermes", "queued")]
Holds(envelope, dispatch) == envelope.form = "whole" /\ envelope.dispatch = dispatch

SendRelay(t) ==
    /\ Runs(t, "gateway", "send") /\ ~given.endpoint
    /\ IF Holds(relay, Work(t).out)
         THEN Queued(t) /\ terminal' = Over(t) /\ UNCHANGED relay /\ Uneventful
       ELSE \/ /\ relay' = [form |-> "whole", dispatch |-> Work(t).out]
               /\ terminal' = Goes(t, [Work(t) EXCEPT !.at = "signal"])
               /\ UNCHANGED files /\ Uneventful
            \/ terminal' = Over(t) /\ UNCHANGED <<relay, files>> /\ Event
    /\ UNCHANGED <<given, inbox, owned, temporary, graph, ghosts>>

Signal(t) ==
    /\ Runs(t, "gateway", "signal")
    /\ \/ Queued(t) /\ Uneventful
       \/ given.hermes /\ Event /\ UNCHANGED files
    /\ terminal' = Over(t)
    /\ UNCHANGED <<given, inbox, owned, temporary, relay, graph, acknowledged, cleared>>

-------------------------------------------------------------------------------
(* kems_dispatch_receipt.py.                                                  *)
Receivable(m, response, production) ==
    /\ Valid(m) /\ Readable(response)
    /\ response.dispatch = Contract(m)
    /\ production => response.mode = "http"
    /\ response.status \in {"accepted", "queued", "succeeded", "completed"}

BuildReceipt(t) ==
    /\ Runs(t, "receipt", "start") /\ Uneventful
    /\ terminal' =
         IF Receivable(files.manifest, files.response, Task(t).production)
           THEN Goes(t, [Idle EXCEPT !.at = "open", !.out =
                  [form |-> "whole", run |-> files.manifest.run,
                   dispatch |-> Contract(files.manifest), mode |-> files.response.mode,
                   status |-> files.response.status]])
         ELSE Over(t)
    /\ UNCHANGED Unaffected

(* kems_production_closeout.py: _preflight_inventory, _manifest_digest and what    *)
(* validate_closeout compares.                                                *)
CompletePreflight(e) ==
    /\ Readable(e) /\ e.status = "ready" /\ e.production /\ e.passed = Checks
    /\ e.available = {"evaluation", "model_acceptance", "omo"} /\ e.sources # <<>>

(* Defect: the documents are counted, not compared.                            *)
ClosesByCount(e, m, r) ==
    /\ CompletePreflight(e) /\ Valid(m) /\ Readable(r)
    /\ m.run = e.run /\ r.run = e.run /\ r.dispatch = Contract(m)
    /\ r.mode = "http" /\ r.status \in {"accepted", "succeeded", "completed"}
    /\ Cardinality(DOMAIN m.documents) = Cardinality(DOMAIN e.sources)

Closes(e, m, r) ==
    /\ CompletePreflight(e) /\ Valid(m) /\ Readable(r)
    /\ m.run = e.run /\ r.run = e.run /\ r.dispatch = Contract(m)
    /\ r.mode = "http" /\ r.status \in {"accepted", "succeeded", "completed"}
    /\ m.documents = e.sources

CloseOut(t) ==
    /\ Runs(t, "closeout", "start") /\ Uneventful
    /\ terminal' = Goes(t, [Idle EXCEPT !.at = "open", !.out =
         IF Closes(files.evidence, files.manifest, files.receipt)
           THEN [form |-> "whole", status |-> "ready", run |-> files.evidence.run,
                 documents |-> files.manifest.documents]
         ELSE Blocked])
    /\ UNCHANGED Unaffected

-------------------------------------------------------------------------------
(* kems-materialize.py, one source after the other: the hash, the text read       *)
(* anew, and four writes to the graph store.                                  *)
(* Defect: the document is identified by the text, not by the hash stored.       *)
DocumentAsRead(t) == <<Work(t).source[1], Work(t).source[3]>>

Document(t) == <<Work(t).source[1], Work(t).source[2]>>

ListSources(t) ==
    /\ Runs(t, "materialize", "start") /\ Uneventful
    /\ terminal' = IF Present = <<>> THEN Over(t)
                   ELSE Goes(t, [Idle EXCEPT !.at = "hash", !.left = DOMAIN Present])
    /\ UNCHANGED Unaffected

HashSource(t) ==
    /\ Runs(t, "materialize", "hash") /\ Uneventful
    /\ LET n == CHOOSE n \in Work(t).left : \A k \in Work(t).left : n <= k
       IN  terminal' = IF inbox[n] = 0 THEN Over(t)
                       ELSE Goes(t, [Work(t) EXCEPT !.at = "read", !.left = @ \ {n},
                                                    !.source = <<n, inbox[n], 0>>])
    /\ UNCHANGED Unaffected

ReadSource(t) ==
    /\ Runs(t, "materialize", "read") /\ Uneventful
    /\ LET n == Work(t).source[1]
       IN  terminal' = IF inbox[n] = 0 THEN Over(t)
                       ELSE Goes(t, [Work(t) EXCEPT !.at = "version", !.source[3] = inbox[n]])
    /\ UNCHANGED Unaffected

(* Each of the four writes commits by itself or fails.                          *)
Stores(t, at, next, after) ==
    /\ Runs(t, "materialize", at)
    /\ \/ graph' = after /\ Uneventful /\ terminal' = next
       \/ UNCHANGED graph /\ Event /\ terminal' = Over(t)
    /\ UNCHANGED <<given, inbox, owned, files, temporary, relay, ghosts>>

PutVersion(t) ==
    Stores(t, "version", Goes(t, [Work(t) EXCEPT !.at = "evidence"]),
           [graph EXCEPT !.versions = @ \cup {Work(t).source}])

AddEvidence(t) ==
    Stores(t, "evidence", Goes(t, [Work(t) EXCEPT !.at = "entity"]),
           [graph EXCEPT !.evidence = @ \cup {Document(t)}])

AddEntity(t) ==
    Stores(t, "entity", Goes(t, [Work(t) EXCEPT !.at = "record"]),
           [graph EXCEPT !.entities = @ \cup {Document(t)}])

RecordRun(t) ==
    Stores(t, "record",
           IF Work(t).left = {} THEN Over(t) ELSE Goes(t, [Work(t) EXCEPT !.at = "hash"]),
           [graph EXCEPT !.runs = @ \cup {<<Task(t).run>> \o Document(t)}])

-------------------------------------------------------------------------------
(* A script is killed; the owners revise what is theirs.                        *)
Kill(t) ==
    /\ terminal[t].todo # <<>> /\ Work(t).at # "start" /\ Event
    /\ terminal' = Over(t)
    /\ UNCHANGED Unaffected

ReviseSource ==
    /\ Event
    /\ \E n \in Names \cap given.revised : \E version \in {0, inbox[n] + 1} :
         inbox' = [inbox EXCEPT ![n] = version]
    /\ inbox' # inbox
    /\ UNCHANGED <<given, owned, files, temporary, terminal, relay, graph, ghosts>>

ReviseOwned ==
    /\ "owned" \in given.kinds /\ Event
    /\ \/ \E m \in Evaluations : owned' = [owned EXCEPT !.evaluation = m]
       \/ \E db \in Databases : owned' = [owned EXCEPT !.adjudication = db]
       \/ \E r \in Reports : owned' = [owned EXCEPT !.acceptance = r]
       \/ \E a \in Approvals : owned' = [owned EXCEPT !.approval = a]
    /\ owned' # owned
    /\ UNCHANGED <<given, inbox, files, temporary, terminal, relay, graph, ghosts>>

Script(t) ==
    \/ TakeInventory(t) \/ Evaluate(t) \/ Adjudicate(t) \/ Accept(t) \/ Approve(t)
    \/ Describe(t) \/ OpenTemporary(t) \/ Fill(t) \/ Replace(t) \/ WriteFails(t)
    \/ Compose(t) \/ Prepare(t) \/ SendHttp(t) \/ SendRelay(t) \/ Signal(t)
    \/ BuildReceipt(t) \/ CloseOut(t)
    \/ ListSources(t) \/ HashSource(t) \/ ReadSource(t)
    \/ PutVersion(t) \/ AddEvidence(t) \/ AddEntity(t) \/ RecordRun(t)

Next == (\E t \in Terminals : Script(t) \/ Kill(t)) \/ ReviseSource \/ ReviseOwned

Spec == Init /\ [][Next]_vars

-------------------------------------------------------------------------------

(* Whatever scripts overlapped, failed or were run again over the same files, a    *)
(* closeout that says "ready" is earned: one production preflight of that run      *)
(* passed every check over exactly the documents that the endpoint confirmed in     *)
(* that run (validate_closeout).                                               *)
ReadyIsEarned ==
    Readable(files.closeout) /\ files.closeout.status = "ready" =>
      LET c == files.closeout IN
      /\ <<c.run, c.documents>> \in cleared
      /\ \E d \in acknowledged : d.run = c.run /\ d.documents = c.documents

(* The graph store is closed under its references after any failure: an entity has *)
(* its evidence, evidence has its document, a completed extraction its entity       *)
(* (materialize stores one source at a time).                                   *)
GraphIsClosed ==
    /\ \A d \in graph.evidence : \E v \in graph.versions : <<v[1], v[2]>> = d
    /\ graph.entities \subseteq graph.evidence
    /\ \A e \in graph.runs : <<e[2], e[3]>> \in graph.entities

===============================================================================
