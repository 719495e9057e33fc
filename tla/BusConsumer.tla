------------------------------ MODULE BusConsumer ------------------------------
(***************************************************************************)
(* The daemon that brings the bus's log events into the knowledge base        *)
(* (bus_consumer.py).  It reads the event stream from the last event it has     *)
(* seen, keeps a row per event in a database, puts the content with an external  *)
(* command, and counts the failures: the third parks the event.  A kill may      *)
(* come between any two commits, and the database may refuse any statement.     *)
(*                                                                          *)
(* The stream is external: it delivers, in order, what was published after the   *)
(* id given as "since"; to a consumer that gives none, from wherever it likes.   *)
(***************************************************************************)
EXTENDS Integers

CONSTANTS
    Events,        \* the ids 1 .. Events, in the order of the bus
    Limit,         \* failures before an event is parked: 3 in the code
    MaxFaults      \* bound: kills, refusals of the database and failing puts

ASSUME EventsAssumption == Events \in Nat
ASSUME LimitAssumption == Limit \in Nat \ {0}
ASSUME FaultsAssumption == MaxFaults \in Nat

Ids == 1 .. Events
Kinds == {"log", "empty", "other", "garbled"}
Stages == {"down", "idle", "reading", "putting", "put", "failed", "raised", "settled"}

VARIABLES
    kind,          \* what each event is (never changes)
    published,     \* the events on the bus so far
    seen,          \* last_seen_id, 0 when there is none
    status,        \* the rows of the table dlq: "none" when there is no row
    retries,       \* their failures
    stage,         \* where the daemon is
    at,            \* the event it handles, or waits for
    count,         \* its local copy of the row's failures
    brain,         \* the events whose content the knowledge base holds
    puts,          \* (ghost) how often the content of an event was put
    mishaps,       \* (ghost) failed puts and refused statements on account of an event
    kills,
    faults

rows == <<status, retries>>
books == <<brain, puts, mishaps>>
vars == <<kind, published, seen, rows, stage, at, count, books, kills, faults>>

Init ==
    /\ kind \in [Ids -> Kinds] /\ published = 0
    /\ seen = 0
    /\ status = [e \in Ids |-> "none"] /\ retries = [e \in Ids |-> 0]
    /\ stage = "down" /\ at = 0 /\ count = 0
    /\ brain = {} /\ puts = [e \in Ids |-> 0] /\ mishaps = [e \in Ids |-> 0]
    /\ kills = 0 /\ faults = 0

Fault == faults < MaxFaults /\ faults' = faults + 1
Fine == UNCHANGED faults
Mishap == Fault /\ mishaps' = [mishaps EXCEPT ![at] = @ + 1]

Publish ==
    /\ published < Events /\ published' = published + 1
    /\ UNCHANGED <<kind, seen, rows, stage, at, count, books, kills, faults>>

Start ==
    /\ stage = "down" /\ stage' = "idle"
    /\ UNCHANGED <<kind, published, seen, rows, at, count, books, kills, faults>>

Connect ==
    /\ stage = "idle" /\ stage' = "reading"
    /\ IF seen > 0 THEN at' = seen + 1 ELSE at' \in 1 .. published + 1
    /\ UNCHANGED <<kind, published, seen, rows, count, books, kills, faults>>

Disconnect ==
    /\ stage = "reading" /\ stage' = "idle" /\ Fault
    /\ UNCHANGED <<kind, published, seen, rows, at, count, books, kills>>

Kill ==
    /\ stage # "down" /\ stage' = "down" /\ Fault /\ kills' = kills + 1
    /\ UNCHANGED <<kind, published, seen, rows, at, count, books>>

-------------------------------------------------------------------------------
(* The loop over the lines of the stream.  Going on without advancing             *)
(* last_seen_id is what an exception and a failed put have in common.            *)
Advance ==
    /\ stage' = "reading" /\ at' = at + 1 /\ UNCHANGED count

Delivered(kinds) == stage = "reading" /\ at <= published /\ kind[at] \in kinds

PassOver ==
    /\ \/ Delivered({"empty", "other"})
       \/ Delivered({"log"}) /\ status[at] \in {"ACKED", "DLQ"}
    /\ stage' = "settled" /\ Fine
    /\ UNCHANGED <<kind, published, seen, rows, at, count, books, kills>>

NotUnderstood ==
    /\ Delivered({"garbled"}) /\ Advance /\ Fine
    /\ UNCHANGED <<kind, published, seen, rows, books, kills>>

Insert ==
    /\ Delivered({"log"}) /\ status[at] = "none"
    /\ status' = [status EXCEPT ![at] = "PENDING"] /\ UNCHANGED retries
    /\ stage' = "putting" /\ count' = 0 /\ Fine
    /\ UNCHANGED <<kind, published, seen, at, books, kills>>

(* Defect: only the parked rows are recognised as settled.                       *)
FindUnparked ==
    /\ Delivered({"log"}) /\ status[at] \in {"PENDING", "ACKED"}
    /\ stage' = "putting" /\ count' = retries[at] /\ Fine
    /\ UNCHANGED <<kind, published, seen, rows, at, books, kills>>

FindPending ==
    /\ Delivered({"log"}) /\ status[at] = "PENDING"
    /\ stage' = "putting" /\ count' = retries[at] /\ Fine
    /\ UNCHANGED <<kind, published, seen, rows, at, books, kills>>

LookupRefused ==
    /\ Delivered({"log"}) /\ Advance /\ Mishap
    /\ UNCHANGED <<kind, published, seen, rows, brain, puts, kills>>

(* The command may have put the content though it reports a failure or is killed   *)
(* by its timeout.                                                            *)
Stored == brain' = brain \cup {at} /\ puts' = [puts EXCEPT ![at] = @ + 1]

Put ==
    /\ stage = "putting" /\ stage' = "put" /\ Stored /\ Fine
    /\ UNCHANGED <<kind, published, seen, rows, at, count, mishaps, kills>>

PutFails ==
    /\ stage = "putting" /\ stage' \in {"failed", "raised"} /\ Mishap
    /\ Stored \/ UNCHANGED <<brain, puts>>
    /\ UNCHANGED <<kind, published, seen, rows, at, count, kills>>

Ack ==
    /\ stage = "put" /\ stage' = "settled" /\ Fine
    /\ status' = [status EXCEPT ![at] = "ACKED"]
    /\ UNCHANGED <<kind, published, seen, retries, at, count, books, kills>>

(* The database refuses the row of a success: counted as a failure of the put.     *)
AckRefused ==
    /\ stage = "put" /\ stage' = "raised" /\ Mishap
    /\ UNCHANGED <<kind, published, seen, rows, at, count, brain, puts, kills>>

(* Defect: the limit is compared with the count of the failures to come.           *)
CountFailureAhead ==
    /\ stage \in {"failed", "raised"} /\ Fine
    /\ retries' = [retries EXCEPT ![at] = count + 1]
    /\ \/ /\ count + 2 >= Limit
          /\ status' = [status EXCEPT ![at] = "DLQ"]
          /\ stage' = "settled" /\ UNCHANGED <<at, count>>
       \/ count + 2 < Limit /\ UNCHANGED status /\ Advance
    /\ UNCHANGED <<kind, published, seen, books, kills>>

CountFailure ==
    /\ stage \in {"failed", "raised"} /\ Fine
    /\ retries' = [retries EXCEPT ![at] = count + 1]
    /\ \/ /\ count + 1 >= Limit
          /\ status' = [status EXCEPT ![at] = "DLQ"]
          /\ stage' = "settled" /\ UNCHANGED <<at, count>>
       \/ count + 1 < Limit /\ UNCHANGED status /\ Advance
    /\ UNCHANGED <<kind, published, seen, books, kills>>

(* The database refuses the count of an error the command reported: the exception   *)
(* handler counts it once more.  Refused there too, the event is left as it is.     *)
CountRefused ==
    /\ stage = "failed" /\ Mishap
    /\ stage' = "raised" /\ count' = count + 1 /\ UNCHANGED at
    /\ UNCHANGED <<kind, published, seen, rows, brain, puts, kills>>

CountRefusedAgain ==
    /\ stage = "raised" /\ Advance /\ Mishap
    /\ UNCHANGED <<kind, published, seen, rows, brain, puts, kills>>

MarkSeen ==
    /\ stage = "settled" /\ seen' = at /\ Advance /\ Fine
    /\ UNCHANGED <<kind, published, rows, books, kills>>

MarkRefused ==
    /\ stage = "settled" /\ Advance /\ Fault
    /\ UNCHANGED <<kind, published, seen, rows, books, kills>>

Next ==
    \/ Publish \/ Start \/ Connect \/ Disconnect \/ Kill
    \/ PassOver \/ NotUnderstood \/ Insert \/ FindPending \/ LookupRefused
    \/ Put \/ PutFails \/ Ack \/ AckRefused \/ CountFailure \/ CountRefused
    \/ CountRefusedAgain \/ MarkSeen \/ MarkRefused

Spec == Init /\ [][Next]_vars

-------------------------------------------------------------------------------
(* The type invariant of the table, of the daemon and of the ghosts.           *)
TypeOK ==
    /\ kind \in [Ids -> Kinds] /\ published \in 0 .. Events /\ seen \in Nat
    /\ status \in [Ids -> {"none", "PENDING", "ACKED", "DLQ"}] /\ retries \in [Ids -> Nat]
    /\ stage \in Stages /\ at \in Nat /\ count \in Nat
    /\ brain \subseteq Ids /\ puts \in [Ids -> Nat] /\ mishaps \in [Ids -> Nat]
    /\ kills \in Nat /\ faults \in Nat

(* What keeps the books true: the local count and the row's never exceed the mishaps, *)
(* and the content has been put before the row may say so.                       *)
Handling == stage \in {"putting", "put", "failed", "raised"}
CountsAreBacked ==
    /\ \A e \in Ids : retries[e] <= mishaps[e]
    /\ Handling => /\ at \in Ids /\ status[at] = "PENDING"
                   /\ count + (IF stage \in {"failed", "raised"} THEN 1 ELSE 0) <= mishaps[at]
    /\ stage = "put" => at \in brain
    /\ stage = "settled" => at \in Ids
    /\ stage = "reading" => at > 0

(* What keeps the repetitions explained: one put is owed to a row or to the daemon's   *)
(* knowledge of it, every other one to a mishap or to a kill.                     *)
Owed(e) == IF status[e] = "ACKED" \/ (stage = "put" /\ at = e) THEN 1 ELSE 0
PutsAreOwed == \A e \in Ids : puts[e] <= Owed(e) + mishaps[e] + kills

(* The books are true: an acknowledged event is in the knowledge base, and a parked  *)
(* one had as many mishaps as the limit says, whatever kills, replays of the stream   *)
(* and refusals of the database came in between (process_event).                  *)
BooksAreTrue ==
    \A e \in Ids : /\ status[e] = "ACKED" => e \in brain
                   /\ status[e] = "DLQ" => mishaps[e] >= Limit

(* The content of an event is put again only after a failure on its account or a     *)
(* kill between the put and its acknowledgement: replays of the stream repeat          *)
(* nothing (the check of the row in process_event).                             *)
RepeatsAreExplained == \A e \in Ids : puts[e] <= 1 + mishaps[e] + kills
===============================================================================
