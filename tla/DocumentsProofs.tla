---------------------------- MODULE DocumentsProofs ----------------------------
(***************************************************************************)
(* Proofs about KemsProduction, for any terminals, sources, cases and files:   *)
(* a closeout that says "ready" is earned, and the graph store is closed.      *)
(* Proofs about DocumentsJobs, for any processes, jobs asked, scopes, cards    *)
(* and contents of Documents: a success is shown, no change of a KEMS scope is *)
(* swallowed, and the projections accept whatever an owner that did its        *)
(* inspection reports.  Nothing is assumed of the constants but, for the last,  *)
(* the kind of things files hold (ContentsAssumption), which scopes there are   *)
(* (ScopesAssumption) and what a date is (TodayAssumption).                   *)
(***************************************************************************)
EXTENDS KemsProduction, DocumentsJobs, FiniteSetTheorems, SequenceTheorems, TLAPS

(* The records the scripts work on: what their assignments keep of them.         *)
Fields == {"at", "inventory", "passed", "out", "holds", "left", "source"}
Working(w) == w = [f \in Fields |-> w[f]]

Handed == Written \cup {"manifest", "response"}

FilesShape ==
    /\ files = [f \in Handed |-> files[f]]
    /\ temporary = [f \in Written |-> temporary[f]]

TerminalShape ==
    /\ terminal = [t \in Terminals |-> terminal[t]]
    /\ \A t \in Terminals :
          /\ terminal[t] = [work |-> terminal[t].work, todo |-> terminal[t].todo]
          /\ Working(terminal[t].work)

GraphShape ==
    graph = [versions |-> graph.versions, evidence |-> graph.evidence,
             entities |-> graph.entities, runs |-> graph.runs]

(* What the text of a file claims is true of the preflights that passed and of the   *)
(* dispatches the endpoint confirmed.                                           *)
EvidenceBacked(e, passed) ==
    Readable(e) /\ e.status = "ready" /\ e.production => <<e.run, e.sources>> \in passed

ResponseBacked(r, confirmed) ==
    Readable(r) /\ r.mode = "http" /\ r.status # "refused" => r.dispatch \in confirmed

CloseoutBacked(c, passed, confirmed) ==
    Readable(c) /\ c.status = "ready" =>
      /\ <<c.run, c.documents>> \in passed
      /\ \E d \in confirmed : d.run = c.run /\ d.documents = c.documents

Backed(name, file, passed, confirmed) ==
    /\ name = "evidence" => EvidenceBacked(file, passed)
    /\ name \in {"response", "receipt"} => ResponseBacked(file, confirmed)
    /\ name = "closeout" => CloseoutBacked(file, passed, confirmed)

(* What a terminal is about to write is backed, under the name it writes it to.     *)
About(r, tool, at) == r.todo # <<>> /\ Head(r.todo).tool = tool /\ r.work.at = at

WriteBacked(r, passed, confirmed) ==
    \A tool \in {"preflight", "receipt", "closeout"}, at \in {"open", "fill", "replace"} :
       About(r, tool, at) => Backed(Output(tool), r.work.out, passed, confirmed)

PublishedIsBacked == \A f \in Handed : Backed(f, files[f], cleared, acknowledged)
TemporaryIsBacked == \A f \in Written : Backed(f, temporary[f], cleared, acknowledged)
WritesAreBacked == \A t \in Terminals : WriteBacked(terminal[t], cleared, acknowledged)

(* What a materialization stores next refers to what it has stored.                *)
StoresInOrder(r, g) ==
    LET d == <<r.work.source[1], r.work.source[2]>> IN
    /\ About(r, "materialize", "evidence") => \E v \in g.versions : <<v[1], v[2]>> = d
    /\ About(r, "materialize", "entity") => d \in g.evidence
    /\ About(r, "materialize", "record") => d \in g.entities

MaterializationsInOrder == \A t \in Terminals : StoresInOrder(terminal[t], graph)

(* The inductive invariant.  ReadyIsEarned alone is not inductive: a closeout is made  *)
(* of four files and published by whoever renames the one temporary name.           *)
IInv ==
    /\ FilesShape /\ TerminalShape /\ GraphShape
    /\ PublishedIsBacked /\ TemporaryIsBacked /\ WritesAreBacked
    /\ MaterializationsInOrder /\ GraphIsClosed

-------------------------------------------------------------------------------
(* Lemmas about the terminals.                                                   *)

(* The work of a terminal that begins a task is a whole record.               *)
LEMMA IdleWorks == Working(Idle)
  BY DEF Working, Fields, Idle

(* One record of the table is replaced by a whole one.                        *)
LEMMA TerminalOf ==
    ASSUME NEW t \in Terminals, NEW r, r = [work |-> r.work, todo |-> r.todo], Working(r.work),
           TerminalShape,
           terminal' = [u \in Terminals |-> IF u = t THEN r ELSE terminal[u]]
    PROVE  TerminalShape'
<1>1. terminal' = [u \in Terminals |-> terminal'[u]]
  OBVIOUS
<1>2. ASSUME NEW u \in Terminals
      PROVE  /\ terminal'[u] = [work |-> terminal'[u].work, todo |-> terminal'[u].todo]
             /\ Working(terminal'[u].work)
  <2>1. CASE u = t
    <3>1. terminal'[u] = r
      BY <2>1
    <3>2. QED
      BY <3>1, Zenon
  <2>2. CASE u # t
    <3>1. terminal'[u] = terminal[u]
      BY <2>2
    <3>2. QED
      BY <3>1, Zenon DEF TerminalShape
  <2>3. QED
    BY <2>1, <2>2
<1>3. QED
  BY <1>1, <1>2, Zenon DEF TerminalShape

(* A terminal goes on with another piece of work, or with its next task.            *)
LEMMA GoesEffect ==
    ASSUME TerminalShape, NEW t \in Terminals, NEW w, terminal' = Goes(t, w)
    PROVE  /\ terminal' = [u \in Terminals |-> IF u = t THEN [work |-> w, todo |-> terminal[t].todo]
                                               ELSE terminal[u]]
           /\ Working(w) => TerminalShape'
<1> DEFINE r == [work |-> w, todo |-> terminal[t].todo]
<1>1. terminal[t] = [work |-> terminal[t].work, todo |-> terminal[t].todo]
  BY DEF TerminalShape
<1>2. [terminal[t] EXCEPT !.work = w] = r
  BY <1>1
<1>3. terminal' = [u \in Terminals |-> IF u = t THEN [terminal[t] EXCEPT !.work = w] ELSE terminal[u]]
  BY DEF Goes, TerminalShape
<1>4. terminal' = [u \in Terminals |-> IF u = t THEN r ELSE terminal[u]]
  BY <1>2, <1>3, Zenon
<1>5. r = [work |-> r.work, todo |-> r.todo] /\ r.work = w
  OBVIOUS
<1>6. ASSUME Working(w) PROVE TerminalShape'
  <2>1. Working(r.work)
    BY <1>5, <1>6, Zenon
  <2> HIDE DEF r
  <2>2. QED
    BY <1>4, <1>5, <2>1, TerminalOf
<1>7. QED
  BY <1>4, <1>6

(* A terminal is done with its task, whatever became of it.                   *)
LEMMA OverEffect ==
    ASSUME TerminalShape, NEW t \in Terminals, terminal' = Over(t)
    PROVE  /\ terminal' = [u \in Terminals |-> IF u = t THEN [work |-> Idle, todo |-> Tail(terminal[t].todo)]
                                               ELSE terminal[u]]
           /\ TerminalShape'
<1> DEFINE r == [work |-> Idle, todo |-> Tail(terminal[t].todo)]
<1>1. terminal' = [u \in Terminals |-> IF u = t THEN r ELSE terminal[u]]
  BY DEF Over, TerminalShape
<1>2. r = [work |-> r.work, todo |-> r.todo] /\ r.work = Idle
  OBVIOUS
<1>3. Working(r.work)
  BY <1>2, IdleWorks, Zenon
<1>4. TerminalShape'
  <2> HIDE DEF r
  <2>1. QED
    BY <1>1, <1>2, <1>3, TerminalOf
<1>5. QED
  BY <1>1, <1>4

(* What the scripts assign to fields of a terminal's work, and what they leave alone.  *)
LEMMA WorkingExcept ==
    ASSUME NEW w, Working(w)
    PROVE  /\ \A at : Working([w EXCEPT !.at = at])
           /\ \A holds : Working([w EXCEPT !.holds = holds])
           /\ \A at, holds : Working([w EXCEPT !.at = at, !.holds = holds])
           /\ \A at, passed : Working([w EXCEPT !.at = at, !.passed = passed])
           /\ \A at, out : Working([w EXCEPT !.at = at, !.out = out])
           /\ \A at, left : Working([w EXCEPT !.at = at, !.left = left])
           /\ \A at, left, source : Working([w EXCEPT !.at = at, !.left = left, !.source = source])
           /\ \A at, source : Working([w EXCEPT !.at = at, !.source = source])
<1>1. \A at : Working([w EXCEPT !.at = at])
  BY DEF Working, Fields
<1>2. \A holds : Working([w EXCEPT !.holds = holds])
  BY DEF Working, Fields
<1>3. \A at, holds : Working([w EXCEPT !.at = at, !.holds = holds])
  BY DEF Working, Fields
<1>4. \A at, passed : Working([w EXCEPT !.at = at, !.passed = passed])
  BY DEF Working, Fields
<1>5. \A at, out : Working([w EXCEPT !.at = at, !.out = out])
  BY DEF Working, Fields
<1>6. \A at, left : Working([w EXCEPT !.at = at, !.left = left])
  BY DEF Working, Fields
<1>7. \A at, left, source : Working([w EXCEPT !.at = at, !.left = left, !.source = source])
  BY DEF Working, Fields
<1>8. \A at, source : Working([w EXCEPT !.at = at, !.source = source])
  BY DEF Working, Fields
<1>9. QED
  BY <1>1, <1>2, <1>3, <1>4, <1>5, <1>6, <1>7, <1>8, Zenon

(* What such an assignment leaves of the fields it does not name.             *)
LEMMA ExceptLeaves ==
    ASSUME NEW w, Working(w)
    PROVE  /\ \A at : /\ [w EXCEPT !.at = at].out = w.out
                      /\ [w EXCEPT !.at = at].source = w.source
                      /\ [w EXCEPT !.at = at].at = at
           /\ \A at, holds : /\ [w EXCEPT !.at = at, !.holds = holds].out = w.out
                             /\ [w EXCEPT !.at = at, !.holds = holds].at = at
           /\ \A at, out : /\ [w EXCEPT !.at = at, !.out = out].out = out
                           /\ [w EXCEPT !.at = at, !.out = out].at = at
           /\ \A holds : /\ [w EXCEPT !.holds = holds].out = w.out
                         /\ [w EXCEPT !.holds = holds].at = w.at
                         /\ [w EXCEPT !.holds = holds].source = w.source
<1>1. \A at : /\ [w EXCEPT !.at = at].out = w.out
              /\ [w EXCEPT !.at = at].source = w.source
              /\ [w EXCEPT !.at = at].at = at
  BY DEF Working, Fields
<1>2. \A at, holds : /\ [w EXCEPT !.at = at, !.holds = holds].out = w.out
                     /\ [w EXCEPT !.at = at, !.holds = holds].at = at
  BY DEF Working, Fields
<1>3. \A at, out : /\ [w EXCEPT !.at = at, !.out = out].out = out
                   /\ [w EXCEPT !.at = at, !.out = out].at = at
  BY DEF Working, Fields
<1>4. \A holds : /\ [w EXCEPT !.holds = holds].out = w.out
                 /\ [w EXCEPT !.holds = holds].at = w.at
                 /\ [w EXCEPT !.holds = holds].source = w.source
  BY DEF Working, Fields
<1>5. QED
  BY <1>1, <1>2, <1>3, <1>4

(* What a step of one terminal does to another: at most it renames what that holds.   *)
Touched(r, s) ==
    s = r \/ \E holds : s = [work |-> [r.work EXCEPT !.holds = holds], todo |-> r.todo]

Done(r) == [work |-> Idle, todo |-> Tail(r.todo)]

(* A renamed writer keeps its tasks, its place and what it carries.           *)
LEMMA TouchedShape ==
    ASSUME NEW r, r = [work |-> r.work, todo |-> r.todo], Working(r.work), NEW s, Touched(r, s)
    PROVE  /\ s = [work |-> s.work, todo |-> s.todo] /\ Working(s.work)
           /\ s.todo = r.todo /\ s.work.at = r.work.at /\ s.work.out = r.work.out
           /\ s.work.source = r.work.source
<1>1. CASE s = r
  BY <1>1, Zenon
<1>2. ASSUME NEW holds, s = [work |-> [r.work EXCEPT !.holds = holds], todo |-> r.todo]
      PROVE  /\ s = [work |-> s.work, todo |-> s.todo] /\ Working(s.work)
             /\ s.todo = r.todo /\ s.work.at = r.work.at /\ s.work.out = r.work.out
             /\ s.work.source = r.work.source
  <2>1. s.work = [r.work EXCEPT !.holds = holds] /\ s.todo = r.todo
    BY <1>2
  <2>2. Working(s.work)
    <3>1. Working([r.work EXCEPT !.holds = holds])
      BY WorkingExcept
    <3>2. QED
      BY <2>1, <3>1, Zenon
  <2>3. s.work.at = r.work.at /\ s.work.out = r.work.out /\ s.work.source = r.work.source
    BY <2>1, ExceptLeaves
  <2>4. s = [work |-> s.work, todo |-> s.todo]
    BY <1>2, <2>1, Zenon
  <2>5. QED
    BY <2>1, <2>2, <2>3, <2>4, Zenon
<1>3. QED
  BY <1>1, <1>2 DEF Touched

(* The record of a terminal that is done with a task.                         *)
LEMMA DoneShape ==
    ASSUME NEW r
    PROVE  /\ Done(r) = [work |-> Done(r).work, todo |-> Done(r).todo] /\ Working(Done(r).work)
           /\ Done(r).work = Idle
<1>1. Done(r).work = Idle /\ Done(r).todo = Tail(r.todo)
  BY DEF Done
<1>2. QED
  BY <1>1, IdleWorks, Zenon DEF Done

(* A rename ends its writer's task and touches the other writers of the file. *)
LEMMA RenamedEffect ==
    ASSUME TerminalShape, NEW t \in Terminals, NEW to
    PROVE  /\ Renamed(t, to) = [u \in Terminals |-> Renamed(t, to)[u]]
           /\ Renamed(t, to)[t] = Done(terminal[t])
           /\ \A u \in Terminals \ {t} : Touched(terminal[u], Renamed(t, to)[u])
<1>1. Renamed(t, to) = [u \in Terminals |-> Renamed(t, to)[u]]
  BY DEF Renamed
<1>2. Renamed(t, to)[t] = Over(t)[t]
  BY DEF Renamed
<1>3. Over(t)[t] = Done(terminal[t])
  BY DEF Over, Done, TerminalShape
<1>4. ASSUME NEW u \in Terminals \ {t}
      PROVE  Touched(terminal[u], Renamed(t, to)[u])
  <2>1. terminal[u] = [work |-> terminal[u].work, todo |-> terminal[u].todo]
    BY DEF TerminalShape
  <2>2. \A h : [terminal[u] EXCEPT !.work.holds = h]
                  = [work |-> [terminal[u].work EXCEPT !.holds = h], todo |-> terminal[u].todo]
    BY <2>1
  <2>3. \/ Renamed(t, to)[u] = terminal[u]
        \/ Renamed(t, to)[u] = [terminal[u] EXCEPT !.work.holds = to]
        \/ Renamed(t, to)[u] = [terminal[u] EXCEPT !.work.holds = "nothing"]
    BY DEF Renamed
  <2>4. QED
    BY <2>2, <2>3 DEF Touched
<1>5. QED
  BY <1>1, <1>2, <1>3, <1>4, Zenon

(* The step of terminal t on the terminals: its own record becomes r, the others keep   *)
(* their tasks and their work.                                                  *)
Steps(t, r) ==
    /\ TerminalShape'
    /\ terminal'[t] = r
    /\ \A u \in Terminals \ {t} : Touched(terminal[u], terminal'[u])

(* Over is a step of its terminal.                                            *)
LEMMA StepsOver ==
    ASSUME TerminalShape, NEW t \in Terminals, terminal' = Over(t)
    PROVE  Steps(t, Done(terminal[t]))
<1>1. terminal' = [u \in Terminals |-> IF u = t THEN Done(terminal[t]) ELSE terminal[u]]
  BY OverEffect DEF Done
<1>2. TerminalShape'
  BY OverEffect
<1>3. terminal'[t] = Done(terminal[t]) /\ \A u \in Terminals \ {t} : terminal'[u] = terminal[u]
  BY <1>1
<1>4. QED
  BY <1>2, <1>3 DEF Steps, Touched

(* Goes is a step of its terminal.                                            *)
LEMMA StepsGoes ==
    ASSUME TerminalShape, NEW t \in Terminals, NEW w, Working(w), terminal' = Goes(t, w)
    PROVE  Steps(t, [work |-> w, todo |-> terminal[t].todo])
<1>1. /\ terminal' = [u \in Terminals |-> IF u = t THEN [work |-> w, todo |-> terminal[t].todo]
                                          ELSE terminal[u]]
      /\ TerminalShape'
  BY GoesEffect
<1>2. /\ terminal'[t] = [work |-> w, todo |-> terminal[t].todo]
      /\ \A u \in Terminals \ {t} : terminal'[u] = terminal[u]
  BY <1>1
<1>3. QED
  BY <1>1, <1>2 DEF Steps, Touched

(* The records of the terminals make a well-formed table again.                    *)
LEMMA StepsMakeShape ==
    ASSUME TerminalShape, NEW t \in Terminals, NEW r,
           r = [work |-> r.work, todo |-> r.todo], Working(r.work),
           terminal' = [u \in Terminals |-> terminal'[u]], terminal'[t] = r,
           \A u \in Terminals \ {t} : Touched(terminal[u], terminal'[u])
    PROVE  Steps(t, r)
<1>1. ASSUME NEW u \in Terminals
      PROVE  /\ terminal'[u] = [work |-> terminal'[u].work, todo |-> terminal'[u].todo]
             /\ Working(terminal'[u].work)
  <2>1. CASE u = t
    BY <2>1, Zenon
  <2>2. CASE u # t
    <3>1. terminal[u] = [work |-> terminal[u].work, todo |-> terminal[u].todo] /\ Working(terminal[u].work)
      BY DEF TerminalShape
    <3>2. Touched(terminal[u], terminal'[u])
      BY <2>2
    <3>3. QED
      BY <3>1, <3>2, TouchedShape
  <2>3. QED
    BY <2>1, <2>2
<1>2. QED
  BY <1>1, Zenon DEF Steps, TerminalShape

(* A rename is a step of the terminal that renames.                           *)
LEMMA StepsRenamed ==
    ASSUME TerminalShape, NEW t \in Terminals, NEW to, terminal' = Renamed(t, to)
    PROVE  Steps(t, Done(terminal[t]))
<1>1. /\ terminal' = [u \in Terminals |-> terminal'[u]]
      /\ terminal'[t] = Done(terminal[t])
      /\ \A u \in Terminals \ {t} : Touched(terminal[u], terminal'[u])
  BY RenamedEffect, Zenon
<1>2. QED
  BY <1>1, StepsMakeShape, DoneShape

(* A writer that gives up is done, or tries to write "blocked".                     *)
Retries(r) == [work |-> [Idle EXCEPT !.at = "open", !.out = Blocked], todo |-> r.todo]

(* Only a closeout that has not yet given up has another try.                 *)
LEMMA GivesUpEffect ==
    ASSUME TerminalShape, NEW t \in Terminals
    PROVE  \/ GivesUp(t) = Over(t)
           \/ /\ Task(t).tool = "closeout"
              /\ GivesUp(t) = Goes(t, [Idle EXCEPT !.at = "open", !.out = Blocked])
  BY DEF GivesUp

(* The record of a closeout that tries to write "blocked".                    *)
LEMMA RetriesShape ==
    ASSUME NEW r
    PROVE  /\ Retries(r) = [work |-> Retries(r).work, todo |-> Retries(r).todo]
           /\ Working(Retries(r).work)
           /\ Retries(r).work.at = "open" /\ Retries(r).work.out = Blocked /\ Retries(r).todo = r.todo
<1> DEFINE w == [Idle EXCEPT !.at = "open", !.out = Blocked]
<1>1. Working(w) /\ w.at = "open" /\ w.out = Blocked
  <2>1. Working(w)
    BY IdleWorks, WorkingExcept
  <2>2. w.at = "open" /\ w.out = Blocked
    BY DEF Idle
  <2>3. QED
    BY <2>1, <2>2, Zenon
<1>2. Retries(r) = [work |-> w, todo |-> r.todo]
  BY DEF Retries
<1> HIDE DEF w
<1>3. Retries(r).work = w /\ Retries(r).todo = r.todo
  BY <1>2
<1>4. QED
  BY <1>1, <1>2, <1>3, Zenon

(* Giving up, with or without a removed temporary file, is a step of its terminal. *)
LEMMA StepsGivesUp ==
    ASSUME TerminalShape, NEW t \in Terminals, NEW to,
           \/ terminal' = GivesUp(t)
           \/ terminal' = [Renamed(t, to) EXCEPT ![t] = GivesUp(t)[t]]
    PROVE  \/ Steps(t, Done(terminal[t]))
           \/ Task(t).tool = "closeout" /\ Steps(t, Retries(terminal[t]))
<1> DEFINE w == [Idle EXCEPT !.at = "open", !.out = Blocked]
<1>1. Working(w)
  BY IdleWorks, WorkingExcept
<1>2. Retries(terminal[t]) = [work |-> w, todo |-> terminal[t].todo]
  BY DEF Retries
<1> HIDE DEF w
<1>3. Over(t)[t] = Done(terminal[t]) /\ Goes(t, w)[t] = Retries(terminal[t])
  <2>1. terminal[t] = [work |-> terminal[t].work, todo |-> terminal[t].todo]
    BY DEF TerminalShape
  <2>2. [terminal[t] EXCEPT !.work = w] = Retries(terminal[t])
    BY <1>2, <2>1
  <2>3. Goes(t, w)[t] = [terminal[t] EXCEPT !.work = w]
    BY DEF Goes, TerminalShape
  <2>4. Over(t)[t] = Done(terminal[t])
    BY DEF Over, Done, TerminalShape
  <2>5. QED
    BY <2>2, <2>3, <2>4
<1>4. GivesUp(t) = Over(t) \/ (Task(t).tool = "closeout" /\ GivesUp(t) = Goes(t, w))
  BY GivesUpEffect DEF w
<1>5. CASE terminal' = GivesUp(t)
  <2>1. CASE GivesUp(t) = Over(t)
    BY <1>5, <2>1, StepsOver
  <2>2. CASE Task(t).tool = "closeout" /\ GivesUp(t) = Goes(t, w)
    <3>1. terminal' = Goes(t, w)
      BY <1>5, <2>2
    <3>2. Steps(t, [work |-> w, todo |-> terminal[t].todo])
      BY <1>1, <3>1, StepsGoes
    <3>3. QED
      BY <1>2, <2>2, <3>2, Zenon
  <2>3. QED
    BY <1>4, <2>1, <2>2
<1>6. CASE terminal' = [Renamed(t, to) EXCEPT ![t] = GivesUp(t)[t]]
  <2>1. /\ terminal' = [u \in Terminals |-> terminal'[u]]
        /\ terminal'[t] = GivesUp(t)[t]
        /\ \A u \in Terminals \ {t} : terminal'[u] = Renamed(t, to)[u]
    <3>1. Renamed(t, to) = [u \in Terminals |-> Renamed(t, to)[u]]
      BY RenamedEffect
    <3>2. QED
      BY <1>6, <3>1
  <2>2. \A u \in Terminals \ {t} : Touched(terminal[u], terminal'[u])
    BY <2>1, RenamedEffect
  <2>3. terminal'[t] = Done(terminal[t]) \/ (Task(t).tool = "closeout" /\ terminal'[t] = Retries(terminal[t]))
    BY <1>3, <1>4, <2>1
  <2>4. QED
    BY <2>1, <2>2, <2>3, StepsMakeShape, DoneShape, RetriesShape
<1>7. QED
  BY <1>5, <1>6

-------------------------------------------------------------------------------
(* Lemmas about what backs a file.                                               *)

(* More preflights passed and more dispatches confirmed back no file less.    *)
LEMMA BackedGrows ==
    ASSUME NEW name, NEW file, NEW p, NEW c, NEW p2, NEW c2, p \subseteq p2, c \subseteq c2,
           Backed(name, file, p, c)
    PROVE  Backed(name, file, p2, c2)
<1>1. name = "evidence" => EvidenceBacked(file, p2)
  BY DEF Backed, EvidenceBacked
<1>2. name \in {"response", "receipt"} => ResponseBacked(file, c2)
  BY DEF Backed, ResponseBacked
<1>3. name = "closeout" => CloseoutBacked(file, p2, c2)
  BY DEF Backed, CloseoutBacked
<1>4. QED
  BY <1>1, <1>2, <1>3 DEF Backed

(* The same of what a terminal is about to write.                             *)
LEMMA WriteGrows ==
    ASSUME NEW r, NEW p, NEW c, NEW p2, NEW c2, p \subseteq p2, c \subseteq c2,
           WriteBacked(r, p, c)
    PROVE  WriteBacked(r, p2, c2)
  BY BackedGrows DEF WriteBacked

(* A file that cannot be read, and a closeout that says "blocked", claim nothing.    *)
LEMMA NothingClaimed ==
    ASSUME NEW name, NEW p, NEW c
    PROVE  /\ Backed(name, Missing, p, c) /\ Backed(name, Partial, p, c)
           /\ Backed("closeout", Blocked, p, c)
  BY DEF Backed, EvidenceBacked, ResponseBacked, CloseoutBacked, Readable, Missing, Partial, Blocked

(* Only the six places at which something is about to be written or stored matter.     *)
Quiet(r) == r.work.at \notin {"open", "fill", "replace", "evidence", "entity", "record"}

(* A quiet terminal owes nothing to the files or to the graph.                *)
LEMMA QuietRecords ==
    ASSUME NEW r, Quiet(r), NEW p, NEW c, NEW g
    PROVE  WriteBacked(r, p, c) /\ StoresInOrder(r, g)
  BY DEF Quiet, WriteBacked, StoresInOrder, About

(* A terminal between two tasks is quiet.                                     *)
LEMMA DoneIsQuiet == ASSUME NEW r PROVE Quiet(Done(r))
<1>1. Done(r).work.at = "start"
  BY DEF Done, Idle
<1>2. QED
  BY <1>1 DEF Quiet

(* A terminal that was at most renamed is about to write and to store what it was.     *)
LEMMA TouchedKeeps ==
    ASSUME NEW r, r = [work |-> r.work, todo |-> r.todo], Working(r.work), NEW s, Touched(r, s),
           NEW p, NEW c, NEW g
    PROVE  /\ WriteBacked(r, p, c) => WriteBacked(s, p, c)
           /\ StoresInOrder(r, g) => StoresInOrder(s, g)
<1>1. /\ s.todo = r.todo /\ s.work.at = r.work.at /\ s.work.out = r.work.out
      /\ s.work.source = r.work.source
  BY TouchedShape
<1>2. QED
  BY <1>1 DEF WriteBacked, StoresInOrder, About

Grows == /\ cleared \subseteq cleared' /\ acknowledged \subseteq acknowledged'
         /\ graph.versions \subseteq graph'.versions /\ graph.evidence \subseteq graph'.evidence
         /\ graph.entities \subseteq graph'.entities

(* A graph that holds more leaves the materializations in order.              *)
LEMMA StoresGrow ==
    ASSUME NEW r, NEW g, NEW h, g.versions \subseteq h.versions, g.evidence \subseteq h.evidence,
           g.entities \subseteq h.entities, StoresInOrder(r, g)
    PROVE  StoresInOrder(r, h)
  BY DEF StoresInOrder

(* Everybody is in order after a step if the terminal that made it is.              *)
LEMMA StepsKeep ==
    ASSUME IInv, NEW t \in Terminals, NEW r, Steps(t, r), Grows,
           WriteBacked(r, cleared', acknowledged'), StoresInOrder(r, graph')
    PROVE  TerminalShape' /\ WritesAreBacked' /\ MaterializationsInOrder'
<1>1. TerminalShape'
  BY DEF Steps
<1>2. ASSUME NEW u \in Terminals
      PROVE  /\ WriteBacked(terminal'[u], cleared', acknowledged')
             /\ StoresInOrder(terminal'[u], graph')
  <2>1. CASE u = t
    BY <2>1 DEF Steps
  <2>2. CASE u # t
    <3>1. terminal[u] = [work |-> terminal[u].work, todo |-> terminal[u].todo] /\ Working(terminal[u].work)
      BY DEF IInv, TerminalShape
    <3>2. Touched(terminal[u], terminal'[u])
      BY <2>2 DEF Steps
    <3>3. WriteBacked(terminal[u], cleared, acknowledged) /\ StoresInOrder(terminal[u], graph)
      BY DEF IInv, WritesAreBacked, MaterializationsInOrder
    <3>4. WriteBacked(terminal[u], cleared', acknowledged')
      BY <3>3, WriteGrows DEF Grows
    <3>5. StoresInOrder(terminal[u], graph')
      BY <3>3, StoresGrow DEF Grows
    <3>6. QED
      BY <3>1, <3>2, <3>4, <3>5, TouchedKeeps
  <2>3. QED
    BY <2>1, <2>2
<1>3. QED
  BY <1>1, <1>2 DEF WritesAreBacked, MaterializationsInOrder

(* A step to a quiet place keeps everybody in order.                          *)
LEMMA QuietStepsKeep ==
    ASSUME IInv, NEW t \in Terminals, NEW r, Steps(t, r), Grows, Quiet(r)
    PROVE  TerminalShape' /\ WritesAreBacked' /\ MaterializationsInOrder'
  BY QuietRecords, StepsKeep

(* The files stay backed while nobody writes them, and the graph stays closed.       *)
LEMMA FilesStay ==
    ASSUME IInv, UNCHANGED <<files, temporary>>, cleared \subseteq cleared',
           acknowledged \subseteq acknowledged'
    PROVE  FilesShape' /\ PublishedIsBacked' /\ TemporaryIsBacked'
<1>1. FilesShape'
  BY DEF IInv, FilesShape
<1>2. PublishedIsBacked'
  BY BackedGrows DEF IInv, PublishedIsBacked
<1>3. TemporaryIsBacked'
  BY BackedGrows DEF IInv, TemporaryIsBacked
<1>4. QED
  BY <1>1, <1>2, <1>3

(* A graph nobody writes stays whole and closed.                              *)
LEMMA GraphStays ==
    ASSUME IInv, UNCHANGED graph
    PROVE  GraphShape' /\ GraphIsClosed'
  BY DEF IInv, GraphShape, GraphIsClosed

-------------------------------------------------------------------------------
(* The steps.                                                                    *)

(* A step that only takes a terminal on, to a place where nothing is written next.    *)
LEMMA QuietSteps ==
    ASSUME IInv, NEW t \in Terminals, NEW r, Steps(t, r), Quiet(r),
           UNCHANGED <<files, temporary, graph, ghosts>>
    PROVE  IInv'
<1>1. Grows
  BY DEF Grows, ghosts
<1>2. cleared \subseteq cleared' /\ acknowledged \subseteq acknowledged'
  BY <1>1 DEF Grows
<1>3. QED
  BY <1>1, <1>2, QuietStepsKeep, FilesStay, GraphStays DEF IInv

(* The end of a task that writes nothing keeps the invariant.                 *)
LEMMA OverSteps ==
    ASSUME IInv, NEW t \in Terminals, terminal' = Over(t),
           UNCHANGED <<files, temporary, graph, ghosts>>
    PROVE  IInv'
<1>1. Steps(t, Done(terminal[t]))
  BY StepsOver DEF IInv
<1>2. QED
  BY <1>1, DoneIsQuiet, QuietSteps

(* So does a step to a quiet place that writes nothing.                       *)
LEMMA GoesSteps ==
    ASSUME IInv, NEW t \in Terminals, NEW w, Working(w), terminal' = Goes(t, w),
           w.at \notin {"open", "fill", "replace", "evidence", "entity", "record"},
           UNCHANGED <<files, temporary, graph, ghosts>>
    PROVE  IInv'
<1> DEFINE r == [work |-> w, todo |-> terminal[t].todo]
<1>1. Steps(t, r)
  BY StepsGoes DEF IInv
<1>2. r.work = w
  OBVIOUS
<1>3. Quiet(r)
  BY <1>2 DEF Quiet
<1> HIDE DEF r
<1>4. QED
  BY <1>1, <1>3, QuietSteps

(* The work of every terminal is a whole record.                              *)
LEMMA WorkOf == ASSUME IInv, NEW t \in Terminals PROVE Working(Work(t))
  BY DEF IInv, TerminalShape, Work

(* The checks of the preflight.                                                  *)
LEMMA CheckSteps ==
    ASSUME IInv, NEW t \in Terminals,
           TakeInventory(t) \/ Evaluate(t) \/ Adjudicate(t) \/ Accept(t) \/ Approve(t)
    PROVE  IInv'
<1>1. UNCHANGED <<files, temporary, graph, ghosts>>
  BY DEF TakeInventory, Evaluate, Adjudicate, Accept, Approve, Unaffected, ghosts
<1>2. ASSUME NEW inventory, NEW passed,
             terminal' = Goes(t, [Idle EXCEPT !.at = "evaluate", !.inventory = inventory, !.passed = passed])
      PROVE  IInv'
  <2> DEFINE w == [Idle EXCEPT !.at = "evaluate", !.inventory = inventory, !.passed = passed]
  <2>1. Working(w) /\ w.at = "evaluate"
    BY DEF Idle, Working, Fields
  <2>2. terminal' = Goes(t, w)
    BY <1>2
  <2> HIDE DEF w
  <2>3. QED
    BY <1>1, <2>1, <2>2, GoesSteps
<1>3. ASSUME NEW check, NEW ok, NEW next \in {"adjudicate", "accept", "approve", "describe"},
             terminal' = Passes(t, check, ok, next)
      PROVE  IInv'
  <2> DEFINE passed == IF ok THEN Work(t).passed \cup {check} ELSE Work(t).passed
             w == [Work(t) EXCEPT !.at = next, !.passed = passed]
  <2>1. Working(w)
    BY WorkOf, WorkingExcept
  <2>2. w.at = next
    BY WorkOf DEF Working, Fields
  <2>3. terminal' = Goes(t, w)
    BY <1>3, Zenon DEF Passes
  <2> HIDE DEF w
  <2>4. QED
    BY <1>1, <2>1, <2>2, <2>3, GoesSteps
<1>4. CASE TakeInventory(t)
  BY <1>2, <1>4, Zenon DEF TakeInventory
<1>5. CASE Evaluate(t)
  <2>1. \/ terminal' = Over(t)
        \/ \E ok : terminal' = Passes(t, "evaluation_manifest", ok, "adjudicate")
    BY <1>5, Zenon DEF Evaluate
  <2>2. QED
    BY <1>1, <1>3, <2>1, OverSteps
<1>6. CASE Adjudicate(t)
  <2>1. \E ok : terminal' = Passes(t, "adjudication_persistence", ok, "accept")
    BY <1>6, Zenon DEF Adjudicate
  <2>2. QED
    BY <1>3, <2>1
<1>7. CASE Accept(t)
  <2>1. \E ok : terminal' = Passes(t, "model_acceptance", ok, "approve")
    BY <1>7, Zenon DEF Accept
  <2>2. QED
    BY <1>3, <2>1
<1>8. CASE Approve(t)
  <2>1. \E ok : terminal' = Passes(t, "omo_approval", ok, "describe")
    BY <1>8, Zenon DEF Approve
  <2>2. QED
    BY <1>3, <2>1
<1>9. QED
  BY <1>4, <1>5, <1>6, <1>7, <1>8

(* A writer at one of its places, and the one file it may write there.              *)
LEMMA WriterRecords ==
    ASSUME NEW r, r.todo # <<>>, NEW p, NEW c, NEW g,
           r.work.at \in {"open", "fill", "replace"},
           Backed(Output(Head(r.todo).tool), r.work.out, p, c)
    PROVE  WriteBacked(r, p, c) /\ StoresInOrder(r, g)
  BY DEF WriteBacked, StoresInOrder, About

(* A script has made the text of its file.                                        *)
LEMMA MakesText ==
    ASSUME IInv, NEW t \in Terminals, NEW w, Working(w), w.at = "open", terminal' = Goes(t, w),
           terminal[t].todo # <<>>, UNCHANGED <<files, temporary, graph>>,
           cleared \subseteq cleared', acknowledged \subseteq acknowledged',
           Backed(Output(Task(t).tool), w.out, cleared', acknowledged')
    PROVE  IInv'
<1> DEFINE r == [work |-> w, todo |-> terminal[t].todo]
<1>1. Steps(t, r)
  BY StepsGoes DEF IInv
<1>2. r.work = w /\ r.todo = terminal[t].todo
  OBVIOUS
<1> HIDE DEF r
<1>3. WriteBacked(r, cleared', acknowledged') /\ StoresInOrder(r, graph')
  <2>1. Backed(Output(Head(r.todo).tool), r.work.out, cleared', acknowledged')
    BY <1>2, Zenon DEF Task
  <2>2. r.todo # <<>> /\ r.work.at \in {"open", "fill", "replace"}
    BY <1>2
  <2>3. QED
    BY <2>1, <2>2, WriterRecords
<1>4. Grows
  BY DEF Grows
<1>5. QED
  BY <1>1, <1>3, <1>4, StepsKeep, FilesStay, GraphStays DEF IInv

(* The evidence says "ready" of a production run only after every check passed.       *)
LEMMA DescribeStep ==
    ASSUME IInv, NEW t \in Terminals, Describe(t) PROVE IInv'
<1> DEFINE w == [Work(t) EXCEPT !.at = "open", !.out = Evidence(t)]
<1>1. Working(w)
  BY WorkOf, WorkingExcept
<1>2. w.at = "open" /\ w.out = Evidence(t)
  BY WorkOf DEF Working, Fields
<1>3. /\ terminal' = Goes(t, w) /\ terminal[t].todo # <<>> /\ Task(t).tool = "preflight"
      /\ UNCHANGED <<files, temporary, graph, acknowledged>>
      /\ cleared' = IF Task(t).production /\ Work(t).passed = Checks
                      THEN cleared \cup {<<Task(t).run, Work(t).inventory>>} ELSE cleared
  BY Zenon DEF Describe, Runs
<1> HIDE DEF w
<1>4. cleared \subseteq cleared' /\ acknowledged \subseteq acknowledged'
  BY <1>3
<1>5. EvidenceBacked(Evidence(t), cleared')
  <2>1. /\ Evidence(t).run = Task(t).run /\ Evidence(t).production = Task(t).production
        /\ Evidence(t).sources = Work(t).inventory
        /\ Evidence(t).status = IF Work(t).passed = Checks THEN "ready" ELSE "blocked"
    BY DEF Evidence
  <2>2. QED
    BY <1>3, <2>1 DEF EvidenceBacked
<1>6. Backed(Output(Task(t).tool), w.out, cleared', acknowledged')
  BY <1>2, <1>3, <1>5 DEF Backed, Output
<1>7. QED
  BY <1>1, <1>2, <1>3, <1>4, <1>6, MakesText

(* What an Idle terminal sets out to write.                                       *)
LEMMA SetsOut ==
    ASSUME NEW out, NEW at
    PROVE  /\ Working([Idle EXCEPT !.at = at, !.out = out])
           /\ [Idle EXCEPT !.at = at, !.out = out].at = at
           /\ [Idle EXCEPT !.at = at, !.out = out].out = out
<1>1. Working([Idle EXCEPT !.at = at, !.out = out])
  BY IdleWorks, WorkingExcept
<1>2. [Idle EXCEPT !.at = at, !.out = out].at = at /\ [Idle EXCEPT !.at = at, !.out = out].out = out
  BY DEF Idle
<1>3. QED
  BY <1>1, <1>2, Zenon

(* A receipt repeats the response it was made from, for the same dispatch.           *)
LEMMA BuildReceiptStep ==
    ASSUME IInv, NEW t \in Terminals, BuildReceipt(t) PROVE IInv'
<1> DEFINE out == [form |-> "whole", run |-> files.manifest.run,
                   dispatch |-> Contract(files.manifest), mode |-> files.response.mode,
                   status |-> files.response.status]
           w == [Idle EXCEPT !.at = "open", !.out = out]
<1>1. /\ terminal[t].todo # <<>> /\ Task(t).tool = "receipt"
      /\ UNCHANGED <<files, temporary, graph, ghosts>>
  BY DEF BuildReceipt, Runs, Unaffected, ghosts
<1>2. CASE ~Receivable(files.manifest, files.response, Task(t).production)
  <2>1. terminal' = Over(t)
    BY <1>2, Zenon DEF BuildReceipt
  <2>2. QED
    BY <1>1, <2>1, OverSteps
<1>3. CASE Receivable(files.manifest, files.response, Task(t).production)
  <2>1. terminal' = Goes(t, w)
    BY <1>3, Zenon DEF BuildReceipt
  <2>2. ResponseBacked(files.response, acknowledged)
    BY DEF IInv, PublishedIsBacked, Handed, Backed
  <2>3. ResponseBacked(out, acknowledged)
    BY <1>3, <2>2 DEF Receivable, ResponseBacked, Readable
  <2> HIDE DEF out
  <2>4. Backed("receipt", out, cleared, acknowledged)
    BY <2>3 DEF Backed
  <2>5. Working(w) /\ w.at = "open" /\ w.out = out
    BY SetsOut
  <2> HIDE DEF w
  <2>6. Backed(Output(Task(t).tool), w.out, cleared', acknowledged')
    BY <1>1, <2>4, <2>5 DEF Output, ghosts
  <2>7. cleared \subseteq cleared' /\ acknowledged \subseteq acknowledged'
    BY <1>1 DEF ghosts
  <2>8. QED
    BY <1>1, <2>1, <2>5, <2>6, <2>7, MakesText
<1>4. QED
  BY <1>2, <1>3

(* A closeout that says "ready" follows from its evidence, its manifest and its receipt. *)
LEMMA CloseOutStep ==
    ASSUME IInv, NEW t \in Terminals, CloseOut(t) PROVE IInv'
<1> DEFINE ready == [form |-> "whole", status |-> "ready", run |-> files.evidence.run,
                     documents |-> files.manifest.documents]
           out == IF Closes(files.evidence, files.manifest, files.receipt) THEN ready ELSE Blocked
           w == [Idle EXCEPT !.at = "open", !.out = out]
<1>1. /\ terminal[t].todo # <<>> /\ Task(t).tool = "closeout"
      /\ UNCHANGED <<files, temporary, graph, ghosts>>
  BY DEF CloseOut, Runs, Unaffected, ghosts
<1>2. terminal' = Goes(t, w)
  BY Zenon DEF CloseOut
<1>3. Backed("closeout", out, cleared, acknowledged)
  <2>1. CASE Closes(files.evidence, files.manifest, files.receipt)
    <3>1. /\ EvidenceBacked(files.evidence, cleared)
          /\ ResponseBacked(files.receipt, acknowledged)
      BY DEF IInv, PublishedIsBacked, Handed, Written, Backed
    <3>2. <<files.evidence.run, files.manifest.documents>> \in cleared
      BY <2>1, <3>1 DEF Closes, CompletePreflight, EvidenceBacked
    <3>3. Contract(files.manifest) \in acknowledged
      BY <2>1, <3>1 DEF Closes, ResponseBacked
    <3>4. /\ Contract(files.manifest).run = files.evidence.run
          /\ Contract(files.manifest).documents = files.manifest.documents
      BY <2>1 DEF Closes, Contract
    <3>5. CloseoutBacked(ready, cleared, acknowledged)
      BY <3>2, <3>3, <3>4 DEF CloseoutBacked
    <3>6. QED
      BY <2>1, <3>5 DEF Backed
  <2>2. CASE ~Closes(files.evidence, files.manifest, files.receipt)
    BY <2>2, NothingClaimed
  <2>3. QED
    BY <2>1, <2>2
<1> HIDE DEF out
<1>4. Working(w) /\ w.at = "open" /\ w.out = out
  BY SetsOut
<1> HIDE DEF w
<1>5. Backed(Output(Task(t).tool), w.out, cleared', acknowledged')
  BY <1>1, <1>3, <1>4 DEF Output, ghosts
<1>6. cleared \subseteq cleared' /\ acknowledged \subseteq acknowledged'
  BY <1>1 DEF ghosts
<1>7. QED
  BY <1>1, <1>2, <1>4, <1>5, <1>6, MakesText

-------------------------------------------------------------------------------
(* The shared temporary name.                                                    *)

(* What a writer carries is backed for the file it writes, under its own name.       *)
LEMMA WriterCarries ==
    ASSUME IInv, NEW t \in Terminals, NEW at \in {"open", "fill", "replace"}, Writing(t, at)
    PROVE  /\ Backed(Target(t), Work(t).out, cleared, acknowledged)
           /\ Target(t) \in Written /\ Target(t) \in Handed
           /\ terminal[t].todo # <<>> /\ Work(t).at = at
           /\ Task(t).tool \in {"preflight", "receipt", "closeout"}
<1>1. PICK tool \in {"preflight", "receipt", "closeout"} : Runs(t, tool, at)
  BY DEF Writing
<1>2. terminal[t].todo # <<>> /\ Task(t).tool = tool /\ Work(t).at = at
  BY <1>1 DEF Runs
<1>3. About(terminal[t], tool, at)
  BY <1>2 DEF About, Task, Work
<1>4. Backed(Output(tool), Work(t).out, cleared, acknowledged)
  BY <1>3 DEF IInv, WritesAreBacked, WriteBacked, Work
<1>5. Target(t) = Output(tool) /\ Target(t) \in Written
  BY <1>2 DEF Target, Output, Written
<1>6. QED
  BY <1>2, <1>4, <1>5 DEF Handed

(* A writer goes on to its next place with what it carries.                        *)
LEMMA WriterGoes ==
    ASSUME IInv, NEW t \in Terminals, NEW at \in {"open", "fill", "replace"}, Writing(t, at),
           NEW w, Working(w), w.out = Work(t).out, w.at \in {"open", "fill", "replace"},
           terminal' = Goes(t, w), UNCHANGED <<graph, ghosts>>
    PROVE  TerminalShape' /\ WritesAreBacked' /\ MaterializationsInOrder'
<1> DEFINE r == [work |-> w, todo |-> terminal[t].todo]
<1>1. Steps(t, r)
  BY StepsGoes DEF IInv
<1>2. r.work = w /\ r.todo = terminal[t].todo
  OBVIOUS
<1> HIDE DEF r
<1>3. Grows
  BY DEF Grows, ghosts
<1>4. Backed(Output(Head(r.todo).tool), r.work.out, cleared', acknowledged')
  <2>1. Backed(Target(t), w.out, cleared, acknowledged)
    BY WriterCarries
  <2>2. Target(t) = Output(Head(r.todo).tool)
    BY <1>2 DEF Target, Task
  <2>3. QED
    BY <1>2, <2>1, <2>2 DEF ghosts
<1>5. r.todo # <<>> /\ r.work.at \in {"open", "fill", "replace"}
  BY <1>2, WriterCarries
<1>6. WriteBacked(r, cleared', acknowledged') /\ StoresInOrder(r, graph')
  BY <1>4, <1>5, WriterRecords
<1>7. QED
  BY <1>1, <1>3, <1>6, StepsKeep

(* One text is replaced by one that is backed under the same name.                   *)
LEMMA PublishedStep ==
    ASSUME IInv, UNCHANGED ghosts, NEW f \in Handed, NEW text,
           Backed(f, text, cleared, acknowledged), files' = [files EXCEPT ![f] = text]
    PROVE  files' = [g \in Handed |-> files'[g]] /\ PublishedIsBacked'
<1>1. files = [g \in Handed |-> files[g]]
  BY DEF IInv, FilesShape
<1>2. files' = [g \in Handed |-> IF g = f THEN text ELSE files[g]]
  BY <1>1
<1>3. \A g \in Handed : Backed(g, files'[g], cleared, acknowledged)
  <2>1. ASSUME NEW g \in Handed PROVE Backed(g, files'[g], cleared, acknowledged)
    <3>1. CASE g = f
      BY <1>2, <3>1
    <3>2. CASE g # f
      <4>1. files'[g] = files[g]
        BY <1>2, <3>2
      <4>2. QED
        BY <4>1 DEF IInv, PublishedIsBacked
    <3>3. QED
      BY <3>1, <3>2
  <2>2. QED
    BY <2>1
<1>4. QED
  BY <1>2, <1>3 DEF PublishedIsBacked, ghosts

(* The same for the temporary files.                                          *)
LEMMA TemporaryStep ==
    ASSUME IInv, UNCHANGED ghosts, NEW f \in Written, NEW text,
           Backed(f, text, cleared, acknowledged), temporary' = [temporary EXCEPT ![f] = text]
    PROVE  temporary' = [g \in Written |-> temporary'[g]] /\ TemporaryIsBacked'
<1>1. temporary = [g \in Written |-> temporary[g]]
  BY DEF IInv, FilesShape
<1>2. temporary' = [g \in Written |-> IF g = f THEN text ELSE temporary[g]]
  BY <1>1
<1>3. \A g \in Written : Backed(g, temporary'[g], cleared, acknowledged)
  <2>1. ASSUME NEW g \in Written PROVE Backed(g, temporary'[g], cleared, acknowledged)
    <3>1. CASE g = f
      BY <1>2, <3>1
    <3>2. CASE g # f
      <4>1. temporary'[g] = temporary[g]
        BY <1>2, <3>2
      <4>2. QED
        BY <4>1 DEF IInv, TemporaryIsBacked
    <3>3. QED
      BY <3>1, <3>2
  <2>2. QED
    BY <2>1
<1>4. QED
  BY <1>2, <1>3 DEF TemporaryIsBacked, ghosts

(* A table that nobody writes stays backed.                                        *)
LEMMA PublishedStays ==
    ASSUME IInv, UNCHANGED ghosts, UNCHANGED files
    PROVE  files' = [g \in Handed |-> files'[g]] /\ PublishedIsBacked'
  BY DEF IInv, FilesShape, PublishedIsBacked, ghosts

(* The same for the temporary files.                                          *)
LEMMA TemporaryStays ==
    ASSUME IInv, UNCHANGED ghosts, UNCHANGED temporary
    PROVE  temporary' = [g \in Written |-> temporary'[g]] /\ TemporaryIsBacked'
  BY DEF IInv, FilesShape, TemporaryIsBacked, ghosts

(* Opening the temporary name leaves an unreadable file under it.             *)
LEMMA OpenStep ==
    ASSUME IInv, NEW t \in Terminals, OpenTemporary(t) PROVE IInv'
<1> DEFINE w == [Work(t) EXCEPT !.at = "fill", !.holds = "temporary"]
<1>1. /\ Writing(t, "open") /\ terminal' = Goes(t, w)
      /\ temporary' = [temporary EXCEPT ![Target(t)] = Partial]
      /\ UNCHANGED files /\ UNCHANGED graph /\ UNCHANGED ghosts
  BY DEF OpenTemporary
<1>2. Working(w)
  BY WorkOf, WorkingExcept
<1>3. w.at = "fill" /\ w.out = Work(t).out
  BY WorkOf, ExceptLeaves
<1> HIDE DEF w
<1>4. TerminalShape' /\ WritesAreBacked' /\ MaterializationsInOrder'
  BY <1>1, <1>2, <1>3, WriterGoes
<1>5. temporary' = [g \in Written |-> temporary'[g]] /\ TemporaryIsBacked'
  BY <1>1, WriterCarries, NothingClaimed, TemporaryStep
<1>6. files' = [g \in Handed |-> files'[g]] /\ PublishedIsBacked'
  BY <1>1, PublishedStays
<1>7. QED
  BY <1>1, <1>4, <1>5, <1>6, GraphStays DEF IInv, FilesShape

(* Whoever's name it is by now, what is written is the writer's text or is cut off.    *)
LEMMA FillStep ==
    ASSUME IInv, NEW t \in Terminals, Fill(t) PROVE IInv'
<1> DEFINE w == [Work(t) EXCEPT !.at = "replace"]
<1>1. /\ Writing(t, "fill") /\ terminal' = Goes(t, w)
      /\ UNCHANGED graph /\ UNCHANGED ghosts
  BY DEF Fill
<1>2. Working(w)
  BY WorkOf, WorkingExcept
<1>3. w.at = "replace" /\ w.out = Work(t).out
  BY WorkOf, ExceptLeaves
<1> HIDE DEF w
<1>4. TerminalShape' /\ WritesAreBacked' /\ MaterializationsInOrder'
  BY <1>1, <1>2, <1>3, WriterGoes
<1>5. /\ Backed(Target(t), Work(t).out, cleared, acknowledged)
      /\ Backed(Target(t), Partial, cleared, acknowledged)
      /\ Target(t) \in Written /\ Target(t) \in Handed
  BY <1>1, WriterCarries, NothingClaimed
<1>6. \A old : \A text \in Overwritten(old, Work(t).out) : text \in {Work(t).out, Partial}
  BY DEF Overwritten
<1>7. \/ /\ \E text \in {Work(t).out, Partial} : temporary' = [temporary EXCEPT ![Target(t)] = text]
         /\ UNCHANGED files
      \/ /\ \E text \in {Work(t).out, Partial} : files' = [files EXCEPT ![Target(t)] = text]
         /\ UNCHANGED temporary
      \/ UNCHANGED files /\ UNCHANGED temporary
  <2>1. CASE Work(t).holds = "temporary"
    BY <1>6, <2>1 DEF Fill
  <2>2. CASE Work(t).holds = "published"
    BY <1>6, <2>2 DEF Fill
  <2>3. CASE Work(t).holds \notin {"temporary", "published"}
    BY <2>3 DEF Fill
  <2>4. QED
    BY <2>1, <2>2, <2>3
<1>8. /\ files' = [g \in Handed |-> files'[g]] /\ PublishedIsBacked'
      /\ temporary' = [g \in Written |-> temporary'[g]] /\ TemporaryIsBacked'
  <2>1. ASSUME NEW text \in {Work(t).out, Partial}, temporary' = [temporary EXCEPT ![Target(t)] = text]
        PROVE  temporary' = [g \in Written |-> temporary'[g]] /\ TemporaryIsBacked'
    BY <1>1, <1>5, <2>1, TemporaryStep
  <2>2. ASSUME NEW text \in {Work(t).out, Partial}, files' = [files EXCEPT ![Target(t)] = text]
        PROVE  files' = [g \in Handed |-> files'[g]] /\ PublishedIsBacked'
    BY <1>1, <1>5, <2>2, PublishedStep
  <2>3. QED
    BY <1>1, <1>7, <2>1, <2>2, PublishedStays, TemporaryStays
<1>9. QED
  BY <1>1, <1>4, <1>8, GraphStays DEF IInv, FilesShape

(* A writer that is done, or that tries to write "blocked" instead.                  *)
LEMMA WriterEnds ==
    ASSUME IInv, NEW t \in Terminals, terminal[t].todo # <<>>, UNCHANGED <<graph, ghosts>>,
           \/ Steps(t, Done(terminal[t]))
           \/ Task(t).tool = "closeout" /\ Steps(t, Retries(terminal[t]))
    PROVE  TerminalShape' /\ WritesAreBacked' /\ MaterializationsInOrder'
<1>1. Grows
  BY DEF Grows, ghosts
<1>2. CASE Steps(t, Done(terminal[t]))
  BY <1>1, <1>2, DoneIsQuiet, QuietStepsKeep
<1>3. CASE Task(t).tool = "closeout" /\ Steps(t, Retries(terminal[t]))
  <2> DEFINE r == Retries(terminal[t])
  <2>1. r.work.at = "open" /\ r.work.out = Blocked /\ r.todo = terminal[t].todo
    BY RetriesShape
  <2>2. Head(r.todo).tool = "closeout"
    BY <1>3, <2>1 DEF Task
  <2> HIDE DEF r
  <2>3. Backed(Output(Head(r.todo).tool), r.work.out, cleared', acknowledged')
    BY <2>1, <2>2, NothingClaimed DEF Output
  <2>4. WriteBacked(r, cleared', acknowledged') /\ StoresInOrder(r, graph')
    BY <2>1, <2>3, WriterRecords
  <2>5. Steps(t, r)
    BY <1>3 DEF r
  <2>6. QED
    BY <1>1, <2>4, <2>5, StepsKeep
<1>4. QED
  BY <1>2, <1>3

(* What is renamed is backed, whoever wrote it; the writer that finds nothing gives up. *)
LEMMA ReplaceStep ==
    ASSUME IInv, NEW t \in Terminals, Replace(t) PROVE IInv'
<1>1. Writing(t, "replace") /\ UNCHANGED graph /\ UNCHANGED ghosts
  BY DEF Replace
<1>2. Target(t) \in Written /\ Target(t) \in Handed /\ terminal[t].todo # <<>>
  BY <1>1, WriterCarries
<1>3. CASE temporary[Target(t)] = Missing
  <2>1. terminal' = GivesUp(t) /\ UNCHANGED files /\ UNCHANGED temporary
    BY <1>3 DEF Replace
  <2>2. \/ Steps(t, Done(terminal[t]))
        \/ Task(t).tool = "closeout" /\ Steps(t, Retries(terminal[t]))
    BY <2>1, StepsGivesUp DEF IInv
  <2>3. QED
    BY <1>1, <1>2, <2>1, <2>2, WriterEnds, PublishedStays, TemporaryStays, GraphStays DEF IInv, FilesShape
<1>4. CASE temporary[Target(t)] # Missing
  <2>1. /\ files' = [files EXCEPT ![Target(t)] = temporary[Target(t)]]
        /\ temporary' = [temporary EXCEPT ![Target(t)] = Missing]
        /\ terminal' = Renamed(t, "published")
    BY <1>4 DEF Replace
  <2>2. Backed(Target(t), temporary[Target(t)], cleared, acknowledged)
    BY <1>2 DEF IInv, TemporaryIsBacked
  <2>3. files' = [g \in Handed |-> files'[g]] /\ PublishedIsBacked'
    BY <1>1, <1>2, <2>1, <2>2, PublishedStep
  <2>4. temporary' = [g \in Written |-> temporary'[g]] /\ TemporaryIsBacked'
    BY <1>1, <1>2, <2>1, NothingClaimed, TemporaryStep
  <2>5. Steps(t, Done(terminal[t]))
    BY <2>1, StepsRenamed DEF IInv
  <2>6. TerminalShape' /\ WritesAreBacked' /\ MaterializationsInOrder'
    BY <1>1, <1>2, <2>5, WriterEnds
  <2>7. QED
    BY <1>1, <2>3, <2>4, <2>6, GraphStays DEF IInv, FilesShape
<1>5. QED
  BY <1>3, <1>4

(* A failed write removes a temporary file, and claims nothing.               *)
LEMMA WriteFailsStep ==
    ASSUME IInv, NEW t \in Terminals, WriteFails(t) PROVE IInv'
<1>1. /\ Writing(t, "fill") /\ UNCHANGED files /\ UNCHANGED graph /\ UNCHANGED ghosts
      /\ temporary' = [temporary EXCEPT ![Target(t)] = Missing]
      /\ terminal' = [Renamed(t, "nothing") EXCEPT ![t] = GivesUp(t)[t]]
  BY DEF WriteFails
<1>2. Target(t) \in Written /\ terminal[t].todo # <<>>
  BY <1>1, WriterCarries
<1>3. temporary' = [g \in Written |-> temporary'[g]] /\ TemporaryIsBacked'
  BY <1>1, <1>2, NothingClaimed, TemporaryStep
<1>4. \/ Steps(t, Done(terminal[t]))
      \/ Task(t).tool = "closeout" /\ Steps(t, Retries(terminal[t]))
  BY <1>1, StepsGivesUp DEF IInv
<1>5. TerminalShape' /\ WritesAreBacked' /\ MaterializationsInOrder'
  BY <1>1, <1>2, <1>4, WriterEnds
<1>6. QED
  BY <1>1, <1>3, <1>5, PublishedStays, GraphStays DEF IInv, FilesShape

-------------------------------------------------------------------------------
(* The manifest and the gateway.                                                  *)

(* A manifest claims nothing.                                                 *)
LEMMA ComposeStep ==
    ASSUME IInv, NEW t \in Terminals, Compose(t) PROVE IInv'
<1>1. /\ terminal' = Over(t) /\ UNCHANGED temporary /\ UNCHANGED graph /\ UNCHANGED ghosts
      /\ \E text : files' = [files EXCEPT !["manifest"] = text]
  BY Zenon DEF Compose
<1>2. PICK text : files' = [files EXCEPT !["manifest"] = text]
  BY <1>1
<1>3. "manifest" \in Handed /\ Backed("manifest", text, cleared, acknowledged)
  BY DEF Handed, Backed
<1>4. files' = [g \in Handed |-> files'[g]] /\ PublishedIsBacked'
  BY <1>1, <1>2, <1>3, PublishedStep
<1>5. Grows
  BY <1>1 DEF Grows, ghosts
<1>6. TerminalShape' /\ WritesAreBacked' /\ MaterializationsInOrder'
  BY <1>1, <1>5, StepsOver, DoneIsQuiet, QuietStepsKeep DEF IInv
<1>7. QED
  BY <1>1, <1>4, <1>6, TemporaryStays, GraphStays DEF IInv, FilesShape

(* The gateway takes the manifest as its dispatch, or stops.                  *)
LEMMA PrepareStep ==
    ASSUME IInv, NEW t \in Terminals, Prepare(t) PROVE IInv'
<1> DEFINE w == [Idle EXCEPT !.at = "send", !.out = AsGiven(files.manifest)]
<1>1. UNCHANGED <<files, temporary, graph, ghosts>>
  BY DEF Prepare, Unaffected, ghosts
<1>2. terminal' = Over(t) \/ terminal' = Goes(t, w)
  BY Zenon DEF Prepare
<1>3. Working(w) /\ w.at = "send"
  BY SetsOut
<1> HIDE DEF w
<1>4. QED
  BY <1>1, <1>2, <1>3, OverSteps, GoesSteps

(* A response says "http" and not "refused" only of a dispatch the endpoint confirmed.   *)
LEMMA SendHttpStep ==
    ASSUME IInv, NEW t \in Terminals, SendHttp(t) PROVE IInv'
<1>1. /\ terminal' = Over(t) /\ UNCHANGED temporary /\ UNCHANGED graph /\ UNCHANGED cleared
      /\ (\E status : Confirmed(t, status)) \/ UNCHANGED <<files, acknowledged>>
  BY Zenon DEF SendHttp
<1>2. acknowledged \subseteq acknowledged' /\ cleared \subseteq cleared'
  BY <1>1 DEF Confirmed
<1>3. Grows
  BY <1>1, <1>2 DEF Grows
<1>4. TerminalShape' /\ WritesAreBacked' /\ MaterializationsInOrder'
  BY <1>1, <1>3, StepsOver, DoneIsQuiet, QuietStepsKeep DEF IInv
<1>5. CASE UNCHANGED <<files, acknowledged>>
  BY <1>1, <1>2, <1>4, <1>5, FilesStay, GraphStays DEF IInv
<1>6. ASSUME NEW status, Confirmed(t, status)
      PROVE  FilesShape' /\ PublishedIsBacked' /\ TemporaryIsBacked'
  <2> DEFINE text == Response(Work(t).out, "http", status)
  <2>1. files' = [files EXCEPT !["response"] = text]
    BY <1>6 DEF Confirmed
  <2>2. Backed("response", text, cleared', acknowledged')
    BY <1>6 DEF Confirmed, Response, Backed, ResponseBacked
  <2> HIDE DEF text
  <2>3. files = [g \in Handed |-> files[g]]
    BY DEF IInv, FilesShape
  <2>4. files' = [g \in Handed |-> IF g = "response" THEN text ELSE files[g]]
    BY <2>1, <2>3
  <2>5. ASSUME NEW g \in Handed PROVE Backed(g, files'[g], cleared', acknowledged')
    <3>1. CASE g = "response"
      BY <2>2, <2>4, <3>1
    <3>2. CASE g # "response"
      <4>1. files'[g] = files[g]
        BY <2>4, <3>2
      <4>2. Backed(g, files[g], cleared, acknowledged)
        BY DEF IInv, PublishedIsBacked
      <4>3. QED
        BY <1>2, <4>1, <4>2, BackedGrows
    <3>3. QED
      BY <3>1, <3>2
  <2>6. PublishedIsBacked'
    BY <2>5 DEF PublishedIsBacked
  <2>7. TemporaryIsBacked'
    BY <1>1, <1>2, BackedGrows DEF IInv, TemporaryIsBacked
  <2>8. FilesShape'
    BY <1>1, <2>4 DEF IInv, FilesShape
  <2>9. QED
    BY <2>6, <2>7, <2>8
<1>7. QED
  BY <1>1, <1>4, <1>5, <1>6, GraphStays DEF IInv

(* What is queued for Hermes says so.                                             *)
LEMMA QueuedStep ==
    ASSUME IInv, NEW t \in Terminals, Queued(t) \/ UNCHANGED files, UNCHANGED temporary, UNCHANGED ghosts
    PROVE  FilesShape' /\ PublishedIsBacked' /\ TemporaryIsBacked'
<1>1. CASE Queued(t)
  <2> DEFINE text == Response(Work(t).out, "local_hermes", "queued")
  <2>1. files' = [files EXCEPT !["response"] = text]
    BY <1>1 DEF Queued
  <2>2. "response" \in Handed /\ Backed("response", text, cleared, acknowledged)
    BY DEF Handed, Response, Backed, ResponseBacked
  <2> HIDE DEF text
  <2>3. QED
    BY <2>1, <2>2, PublishedStep, TemporaryStays DEF FilesShape
<1>2. CASE UNCHANGED files
  BY <1>2, PublishedStays, TemporaryStays DEF FilesShape
<1>3. QED
  BY <1>1, <1>2

(* A dispatch through Hermes, signalled or not, confirms nothing.             *)
LEMMA RelaySteps ==
    ASSUME IInv, NEW t \in Terminals, SendRelay(t) \/ Signal(t) PROVE IInv'
<1> DEFINE w == [Work(t) EXCEPT !.at = "signal"]
<1>1. /\ UNCHANGED temporary /\ UNCHANGED graph /\ UNCHANGED ghosts
      /\ Queued(t) \/ UNCHANGED files
      /\ terminal' = Over(t) \/ terminal' = Goes(t, w)
  <2>1. CASE SendRelay(t)
    BY <2>1, Zenon DEF SendRelay
  <2>2. CASE Signal(t)
    BY <2>2 DEF Signal, ghosts
  <2>3. QED
    BY <2>1, <2>2
<1>2. FilesShape' /\ PublishedIsBacked' /\ TemporaryIsBacked'
  BY <1>1, QueuedStep
<1>3. Working(w) /\ w.at = "signal"
  <2>1. Working(w)
    BY WorkOf, WorkingExcept
  <2>2. w.at = "signal"
    BY WorkOf, ExceptLeaves
  <2>3. QED
    BY <2>1, <2>2
<1> HIDE DEF w
<1>4. Grows
  BY <1>1 DEF Grows, ghosts
<1>5. TerminalShape' /\ WritesAreBacked' /\ MaterializationsInOrder'
  <2>1. CASE terminal' = Over(t)
    BY <1>4, <2>1, StepsOver, DoneIsQuiet, QuietStepsKeep DEF IInv
  <2>2. CASE terminal' = Goes(t, w)
    <3> DEFINE r == [work |-> w, todo |-> terminal[t].todo]
    <3>1. Steps(t, r)
      BY <1>3, <2>2, StepsGoes DEF IInv
    <3>2. r.work = w
      OBVIOUS
    <3>3. Quiet(r)
      BY <1>3, <3>2 DEF Quiet
    <3> HIDE DEF r
    <3>4. QED
      BY <1>4, <3>1, <3>3, QuietStepsKeep
  <2>3. QED
    BY <1>1, <2>1, <2>2
<1>6. QED
  BY <1>1, <1>2, <1>5, GraphStays DEF IInv

-------------------------------------------------------------------------------
(* Materialization.                                                              *)

(* Listing, hashing and reading a source store nothing.                       *)
LEMMA ListingSteps ==
    ASSUME IInv, NEW t \in Terminals, ListSources(t) \/ HashSource(t) \/ ReadSource(t)
    PROVE  IInv'
<1>1. UNCHANGED <<files, temporary, graph, ghosts>>
  BY Zenon DEF ListSources, HashSource, ReadSource, Unaffected, ghosts
<1>2. CASE ListSources(t)
  <2> DEFINE w == [Idle EXCEPT !.at = "hash", !.left = DOMAIN Present]
  <2>1. terminal' = Over(t) \/ terminal' = Goes(t, w)
    BY <1>2, Zenon DEF ListSources
  <2>2. Working(w)
    BY IdleWorks, WorkingExcept
  <2>3. w.at = "hash"
    BY DEF Idle
  <2> HIDE DEF w
  <2>4. QED
    BY <1>1, <2>1, <2>2, <2>3, OverSteps, GoesSteps
<1>3. CASE HashSource(t)
  <2>1. \/ terminal' = Over(t)
        \/ \E left, source : terminal' = Goes(t, [Work(t) EXCEPT !.at = "read", !.left = left, !.source = source])
    BY <1>3, Zenon DEF HashSource
  <2>2. ASSUME NEW left, NEW source,
               terminal' = Goes(t, [Work(t) EXCEPT !.at = "read", !.left = left, !.source = source])
        PROVE  IInv'
    <3> DEFINE w == [Work(t) EXCEPT !.at = "read", !.left = left, !.source = source]
    <3>1. Working(w)
      BY WorkOf, WorkingExcept
    <3>2. w.at = "read"
      BY WorkOf DEF Working, Fields
    <3>3. terminal' = Goes(t, w)
      BY <2>2
    <3> HIDE DEF w
    <3>4. QED
      BY <1>1, <3>1, <3>2, <3>3, GoesSteps
  <2>3. QED
    BY <1>1, <2>1, <2>2, OverSteps
<1>4. CASE ReadSource(t)
  <2>1. \/ terminal' = Over(t)
        \/ \E version : terminal' = Goes(t, [Work(t) EXCEPT !.at = "version", !.source[3] = version])
    BY <1>4, Zenon DEF ReadSource
  <2>2. ASSUME NEW version, terminal' = Goes(t, [Work(t) EXCEPT !.at = "version", !.source[3] = version])
        PROVE  IInv'
    <3> DEFINE source == [Work(t).source EXCEPT ![3] = version]
               w == [Work(t) EXCEPT !.at = "version", !.source = source]
    <3>1. Working(w)
      BY WorkOf, WorkingExcept
    <3>2. w.at = "version"
      BY WorkOf DEF Working, Fields
    <3>3. terminal' = Goes(t, w)
      <4>1. [Work(t) EXCEPT !.at = "version", !.source[3] = version] = w
        BY WorkOf DEF Working, Fields
      <4>2. QED
        BY <2>2, <4>1
    <3> HIDE DEF w
    <3>4. QED
      BY <1>1, <3>1, <3>2, <3>3, GoesSteps
  <2>3. QED
    BY <1>1, <2>1, <2>2, OverSteps
<1>5. QED
  BY <1>2, <1>3, <1>4

(* A write to the graph store, after which its terminal goes on or is done.           *)
LEMMA StoreSteps ==
    ASSUME IInv, NEW t \in Terminals, NEW r, Steps(t, r), UNCHANGED <<files, temporary, ghosts>>,
           GraphShape', GraphIsClosed',
           graph.versions \subseteq graph'.versions, graph.evidence \subseteq graph'.evidence,
           graph.entities \subseteq graph'.entities,
           r.work.at \notin {"open", "fill", "replace"}, StoresInOrder(r, graph')
    PROVE  IInv'
<1>1. Grows /\ cleared \subseteq cleared' /\ acknowledged \subseteq acknowledged'
  BY DEF Grows, ghosts
<1>2. WriteBacked(r, cleared', acknowledged')
  BY DEF WriteBacked, About
<1>3. TerminalShape' /\ WritesAreBacked' /\ MaterializationsInOrder'
  BY <1>1, <1>2, StepsKeep
<1>4. FilesShape' /\ PublishedIsBacked' /\ TemporaryIsBacked'
  BY <1>1, FilesStay
<1>5. QED
  BY <1>3, <1>4 DEF IInv

(* A write to the store that fails ends the task; otherwise it has happened.  *)
LEMMA StoreFails ==
    ASSUME IInv, NEW t \in Terminals, NEW at, NEW next, NEW after, Stores(t, at, next, after)
    PROVE  \/ IInv'
           \/ /\ graph' = after /\ terminal' = next
              /\ UNCHANGED files /\ UNCHANGED temporary /\ UNCHANGED ghosts
              /\ Runs(t, "materialize", at)
  BY OverSteps DEF Stores

(* The record of a materialization that goes on.                                   *)
LEMMA StoreGoes ==
    ASSUME IInv, NEW t \in Terminals, NEW at, terminal' = Goes(t, [Work(t) EXCEPT !.at = at])
    PROVE  \E r : /\ Steps(t, r)
                  /\ r.work.at = at /\ r.work.source = Work(t).source /\ r.todo = terminal[t].todo
<1> DEFINE w == [Work(t) EXCEPT !.at = at]
           r == [work |-> w, todo |-> terminal[t].todo]
<1>1. Working(w)
  BY WorkOf, WorkingExcept
<1>2. w.at = at /\ w.source = Work(t).source
  BY WorkOf, ExceptLeaves
<1> HIDE DEF w
<1>3. Steps(t, r)
  BY <1>1, StepsGoes DEF IInv, w
<1>4. r.work = w /\ r.todo = terminal[t].todo
  OBVIOUS
<1> HIDE DEF r
<1>5. QED
  BY <1>2, <1>3, <1>4

(* The document is stored first ...                                           *)
LEMMA PutVersionStep ==
    ASSUME IInv, NEW t \in Terminals, PutVersion(t) PROVE IInv'
<1> DEFINE after == [graph EXCEPT !.versions = @ \cup {Work(t).source}]
<1>1. CASE /\ graph' = after /\ terminal' = Goes(t, [Work(t) EXCEPT !.at = "evidence"])
           /\ UNCHANGED files /\ UNCHANGED temporary /\ UNCHANGED ghosts
  <2>1. /\ GraphShape'
        /\ graph'.versions = graph.versions \cup {Work(t).source}
        /\ graph'.evidence = graph.evidence /\ graph'.entities = graph.entities
        /\ graph'.runs = graph.runs
    BY <1>1 DEF IInv, GraphShape
  <2>2. GraphIsClosed'
    BY <2>1 DEF IInv, GraphIsClosed
  <2>3. PICK r : /\ Steps(t, r)
                 /\ r.work.at = "evidence" /\ r.work.source = Work(t).source
                 /\ r.todo = terminal[t].todo
    BY <1>1, StoreGoes
  <2>4. StoresInOrder(r, graph')
    BY <2>1, <2>3 DEF StoresInOrder, About
  <2>5. QED
    BY <1>1, <2>1, <2>2, <2>3, <2>4, StoreSteps
<1>2. QED
  BY <1>1, StoreFails, Zenon DEF PutVersion

(* ... then its evidence ...                                                  *)
LEMMA AddEvidenceStep ==
    ASSUME IInv, NEW t \in Terminals, AddEvidence(t) PROVE IInv'
<1> DEFINE after == [graph EXCEPT !.evidence = @ \cup {Document(t)}]
<1>1. CASE /\ graph' = after /\ terminal' = Goes(t, [Work(t) EXCEPT !.at = "entity"])
           /\ UNCHANGED files /\ UNCHANGED temporary /\ UNCHANGED ghosts
           /\ Runs(t, "materialize", "evidence")
  <2>1. /\ GraphShape'
        /\ graph'.evidence = graph.evidence \cup {Document(t)}
        /\ graph'.versions = graph.versions /\ graph'.entities = graph.entities
        /\ graph'.runs = graph.runs
    BY <1>1 DEF IInv, GraphShape
  <2>2. \E v \in graph.versions : <<v[1], v[2]>> = Document(t)
    BY <1>1 DEF IInv, MaterializationsInOrder, StoresInOrder, About, Runs, Task, Work, Document
  <2>3. GraphIsClosed'
    BY <2>1, <2>2 DEF IInv, GraphIsClosed
  <2>4. PICK r : /\ Steps(t, r)
                 /\ r.work.at = "entity" /\ r.work.source = Work(t).source
                 /\ r.todo = terminal[t].todo
    BY <1>1, StoreGoes
  <2>5. StoresInOrder(r, graph')
    BY <2>1, <2>4 DEF StoresInOrder, About, Document
  <2>6. QED
    BY <1>1, <2>1, <2>3, <2>4, <2>5, StoreSteps
<1>2. QED
  BY <1>1, StoreFails, Zenon DEF AddEvidence

(* ... then its entity ...                                                    *)
LEMMA AddEntityStep ==
    ASSUME IInv, NEW t \in Terminals, AddEntity(t) PROVE IInv'
<1> DEFINE after == [graph EXCEPT !.entities = @ \cup {Document(t)}]
<1>1. CASE /\ graph' = after /\ terminal' = Goes(t, [Work(t) EXCEPT !.at = "record"])
           /\ UNCHANGED files /\ UNCHANGED temporary /\ UNCHANGED ghosts
           /\ Runs(t, "materialize", "entity")
  <2>1. /\ GraphShape'
        /\ graph'.entities = graph.entities \cup {Document(t)}
        /\ graph'.versions = graph.versions /\ graph'.evidence = graph.evidence
        /\ graph'.runs = graph.runs
    BY <1>1 DEF IInv, GraphShape
  <2>2. Document(t) \in graph.evidence
    BY <1>1 DEF IInv, MaterializationsInOrder, StoresInOrder, About, Runs, Task, Work, Document
  <2>3. GraphIsClosed'
    BY <2>1, <2>2 DEF IInv, GraphIsClosed
  <2>4. PICK r : /\ Steps(t, r)
                 /\ r.work.at = "record" /\ r.work.source = Work(t).source
                 /\ r.todo = terminal[t].todo
    BY <1>1, StoreGoes
  <2>5. StoresInOrder(r, graph')
    BY <2>1, <2>4 DEF StoresInOrder, About, Document
  <2>6. QED
    BY <1>1, <2>1, <2>3, <2>4, <2>5, StoreSteps
<1>2. QED
  BY <1>1, StoreFails, Zenon DEF AddEntity

(* ... and then the run that extracted it.                                    *)
LEMMA RecordRunStep ==
    ASSUME IInv, NEW t \in Terminals, RecordRun(t) PROVE IInv'
<1> DEFINE after == [graph EXCEPT !.runs = @ \cup {<<Task(t).run>> \o Document(t)}]
           next == IF Work(t).left = {} THEN Over(t) ELSE Goes(t, [Work(t) EXCEPT !.at = "hash"])
<1>1. CASE /\ graph' = after /\ terminal' = next
           /\ UNCHANGED files /\ UNCHANGED temporary /\ UNCHANGED ghosts
           /\ Runs(t, "materialize", "record")
  <2>1. /\ GraphShape'
        /\ graph'.runs = graph.runs \cup {<<Task(t).run>> \o Document(t)}
        /\ graph'.versions = graph.versions /\ graph'.evidence = graph.evidence
        /\ graph'.entities = graph.entities
    BY <1>1 DEF IInv, GraphShape
  <2>2. Document(t) \in graph.entities
    BY <1>1 DEF IInv, MaterializationsInOrder, StoresInOrder, About, Runs, Task, Work, Document
  <2>3. LET e == <<Task(t).run>> \o Document(t) IN <<e[2], e[3]>> = Document(t)
    BY DEF Document
  <2>4. GraphIsClosed'
    BY <2>1, <2>2, <2>3 DEF IInv, GraphIsClosed
  <2>5. CASE Work(t).left = {}
    <3>1. Steps(t, Done(terminal[t]))
      BY <1>1, <2>5, StepsOver DEF IInv
    <3>2. Quiet(Done(terminal[t]))
      BY DoneIsQuiet
    <3>3. StoresInOrder(Done(terminal[t]), graph')
      BY <3>2, QuietRecords
    <3>4. QED
      BY <1>1, <2>1, <2>4, <3>1, <3>2, <3>3, StoreSteps DEF Quiet
  <2>6. CASE Work(t).left # {}
    <3>1. terminal' = Goes(t, [Work(t) EXCEPT !.at = "hash"])
      BY <1>1, <2>6
    <3>2. PICK r : /\ Steps(t, r)
                   /\ r.work.at = "hash" /\ r.work.source = Work(t).source
                   /\ r.todo = terminal[t].todo
      BY <3>1, StoreGoes
    <3>3. StoresInOrder(r, graph')
      BY <3>2, QuietRecords DEF Quiet
    <3>4. QED
      BY <1>1, <2>1, <2>4, <3>2, <3>3, StoreSteps
  <2>7. QED
    BY <2>5, <2>6
<1>2. QED
  BY <1>1, StoreFails, Zenon DEF RecordRun

-------------------------------------------------------------------------------
(* The theorems.                                                                 *)

(* No file, no claim, nobody at work: the invariant holds initially.          *)
LEMMA InitIInv == Init => IInv
<1> SUFFICES ASSUME Init PROVE IInv
  OBVIOUS
<1>1. FilesShape /\ (\A f \in Handed : files[f] = Missing) /\ (\A f \in Written : temporary[f] = Missing)
  BY DEF Init, FilesShape, Handed
<1>2. terminal = [t \in Terminals |-> [work |-> Idle, todo |-> given.todo[t]]]
  BY DEF Init
<1>3. ASSUME NEW t \in Terminals
      PROVE  /\ terminal[t] = [work |-> terminal[t].work, todo |-> terminal[t].todo]
             /\ Working(terminal[t].work) /\ Quiet(terminal[t])
  <2>1. terminal[t] = [work |-> Idle, todo |-> given.todo[t]]
    BY <1>2
  <2>2. terminal[t].work = Idle /\ terminal[t].todo = given.todo[t]
    BY <2>1
  <2>3. Idle.at = "start"
    BY DEF Idle
  <2>4. Quiet(terminal[t])
    BY <2>2, <2>3 DEF Quiet
  <2>5. Working(terminal[t].work)
    BY <2>2, IdleWorks
  <2>6. QED
    BY <2>1, <2>2, <2>4, <2>5
<1>4. TerminalShape
  BY <1>2, <1>3 DEF TerminalShape
<1>5. WritesAreBacked /\ MaterializationsInOrder
  BY <1>3, QuietRecords DEF WritesAreBacked, MaterializationsInOrder
<1>6. PublishedIsBacked /\ TemporaryIsBacked
  BY <1>1, NothingClaimed DEF PublishedIsBacked, TemporaryIsBacked
<1>7. GraphShape /\ GraphIsClosed
  BY DEF Init, GraphShape, GraphIsClosed
<1>8. QED
  BY <1>1, <1>4, <1>5, <1>6, <1>7 DEF IInv

(* A killed script leaves its files as they are; an owner revises only his own.       *)
LEMMA OutsideSteps ==
    ASSUME IInv, (\E t \in Terminals : Kill(t)) \/ ReviseSource \/ ReviseOwned \/ UNCHANGED vars
    PROVE  IInv'
<1>1. CASE \E t \in Terminals : Kill(t)
  BY <1>1, OverSteps DEF Kill, Unaffected, ghosts
<1>2. CASE ReviseSource \/ ReviseOwned \/ UNCHANGED vars
  <2>1. /\ UNCHANGED files /\ UNCHANGED temporary /\ UNCHANGED terminal /\ UNCHANGED graph
        /\ UNCHANGED ghosts
    BY <1>2 DEF ReviseSource, ReviseOwned, vars
  <2>2. cleared' = cleared /\ acknowledged' = acknowledged
    BY <2>1 DEF ghosts
  <2>3. FilesShape' /\ PublishedIsBacked' /\ TemporaryIsBacked'
    BY <2>1, PublishedStays, TemporaryStays DEF FilesShape
  <2>4. TerminalShape' /\ WritesAreBacked' /\ MaterializationsInOrder'
    BY <2>1, <2>2 DEF IInv, TerminalShape, WritesAreBacked, MaterializationsInOrder
  <2>5. QED
    BY <2>1, <2>3, <2>4, GraphStays DEF IInv
<1>3. QED
  BY <1>1, <1>2

(* Every step of every terminal, and every revision, keeps the invariant.     *)
LEMMA Invariance == Spec => []IInv
<1>1. IInv /\ [Next]_vars => IInv'
  <2> SUFFICES ASSUME IInv, [Next]_vars PROVE IInv'
    OBVIOUS
  <2>1. ASSUME NEW t \in Terminals, Script(t) PROVE IInv'
    BY <2>1, CheckSteps, DescribeStep, OpenStep, FillStep, ReplaceStep, WriteFailsStep, ComposeStep, PrepareStep, SendHttpStep, RelaySteps, BuildReceiptStep, CloseOutStep, ListingSteps, PutVersionStep, AddEvidenceStep, AddEntityStep, RecordRunStep DEF Script
  <2>2. QED
    BY <2>1, OutsideSteps DEF Next
<1>2. QED
  BY InitIInv, <1>1, PTL DEF Spec

(* Whatever terminals, cases and failures there are: a closeout that can be read and   *)
(* says "ready" names a run whose production preflight passed every check over exactly  *)
(* the documents that the endpoint confirmed for that run, although all writers of a    *)
(* file share one temporary name and may publish each other's text.                  *)
THEOREM ReadyIsAlwaysEarned == Spec => []ReadyIsEarned
<1>1. IInv => ReadyIsEarned
  <2> SUFFICES ASSUME IInv PROVE ReadyIsEarned
    OBVIOUS
  <2>1. CloseoutBacked(files.closeout, cleared, acknowledged)
    BY DEF IInv, PublishedIsBacked, Handed, Written, Backed
  <2>2. QED
    BY <2>1 DEF CloseoutBacked, ReadyIsEarned
<1>2. QED
  BY Invariance, <1>1, PTL

(* The graph store refers to nothing it does not hold, after any failure, any kill and  *)
(* any interleaving of materializations.                                         *)
THEOREM GraphStaysClosed == Spec => []GraphIsClosed
<1>1. IInv => GraphIsClosed
  BY DEF IInv
<1>2. QED
  BY Invariance, <1>1, PTL

-------------------------------------------------------------------------------
(* What the assignments keep of the records of a process, its owner and a job.    *)
RunRecord(w) ==
    w = [at |-> w.at, job |-> w.job, exit |-> w.exit, dry |-> w.dry, timedOut |-> w.timedOut,
         error |-> w.error, evidence |-> w.evidence]
OwnerRecord(o) == o = [at |-> o.at, hashes |-> o.hashes, out |-> o.out]

RunShape(f) == f = [r \in Processes |-> f[r]] /\ \A r \in Processes : RunRecord(f[r])
OwnerShape(f) == f = [r \in Processes |-> f[r]] /\ \A r \in Processes : OwnerRecord(f[r])

ReceiptsShape(f) ==
    /\ f = [j \in Jobs |-> f[j]]
    /\ \A j \in Jobs : f[j] \in Seq(Range(f[j]))

Busy == {"layout", "launch", "wait", "project", "persist", "rename", "close"}

JobsAreKnown == \A r \in Processes : run[r].at \in Busy => run[r].job \in Jobs

Shape == RunShape(run) /\ OwnerShape(owner) /\ ReceiptsShape(receipts) /\ JobsAreKnown

(* How far a process and its owner have come together: what an exit code of 0 means  *)
(* at each stage, and where the process can have left a temporary file.           *)
Published(r) ==
    run[r].job \in Jobs /\ \E i \in DOMAIN receipts[run[r].job] :
       receipts[run[r].job][i].run = r /\ receipts[run[r].job][i].exit = 0

Progress(r) ==
    /\ run[r].at \in {"idle", "layout", "launch"} => owner[r].at = "none"
    /\ run[r].at \in {"idle", "layout", "launch", "wait", "project"} => ~run[r].error
    /\ run[r].at \in {"idle", "layout", "launch", "wait", "project", "persist"} =>
         r \notin leftovers
    /\ run[r].exit = 0 =>
         /\ run[r].at = "project" => owner[r].at = "ended" /\ owner[r].out.exit = 0
         /\ run[r].at \in {"persist", "rename"} =>
              ~run[r].error /\ run[r].evidence /\ SuccessIsTrue(r)
         /\ run[r].at = "close" \/ (run[r].at = "done" /\ ~run[r].dry) =>
              r \notin leftovers /\ Published(r)

ReceiptIsSound(e, j) ==
    /\ e.run \in Processes
    /\ e.exit = 0 =>
         /\ ~e.error /\ e.evidence
         /\ run[e.run].job = j /\ run[e.run].at \in {"close", "done", "killed"}
         /\ SuccessIsTrue(e.run)

DocumentsInv ==
    /\ Shape
    /\ \A r \in Processes : Progress(r)
    /\ \A j \in Jobs : \A i \in DOMAIN receipts[j] : ReceiptIsSound(receipts[j][i], j)

(* A fingerprint somebody was told of, nobody will be, a check adopted that read no    *)
(* baseline, or a process that still runs is about to tell.                       *)
Covered(p) ==
    \/ p \in told \cup lost \cup adopted
    \/ \E q \in Processes : Alive(q) /\ p \in Stored(q) /\ p \in Named(owner[q])

Accounted(hashes, named) ==
    /\ Standing \subseteq DOMAIN hashes
    /\ \A s \in Standing :
         hashes[s] # Absent => <<s, hashes[s]>> \in named \/ Covered(<<s, hashes[s]>>)

(* What the answer of a check names or, when it read no baseline, adopts.            *)
Claimed(o) ==
    Named(o) \cup (IF ReadNone(o) THEN {<<s, o.hashes[s]>> : s \in DOMAIN o.hashes} ELSE {})

CheckIsSound(r) ==
    /\ owner[r].at \in {"scanned", "compared", "truncated"} =>
         run[r].job = "kems-check" /\ Standing \subseteq DOMAIN owner[r].hashes
    /\ owner[r].at \in {"compared", "truncated"} =>
         owner[r].out.payload.status \in {"ok", "changed"}
    /\ \/ owner[r].at \in {"compared", "truncated"}
       \/ /\ run[r].job = "kems-check" /\ owner[r].at = "ended"
          /\ owner[r].out.payload.status \in {"ok", "changed"}
       => Accounted(owner[r].hashes, Claimed(owner[r]))

KemsInv ==
    /\ baseline.at = "kept" => Accounted(baseline.hashes, {})
    /\ \A r \in Processes : CheckIsSound(r)

(* A process that a failure takes to another stage.                             *)
Unmade(r) == run' = [run EXCEPT ![r].at = "persist", ![r].exit = 74, ![r].error = TRUE]

LEMMA FailedStep ==
    ASSUME RunShape(run), NEW r \in Processes, NEW stage,
           run' = Failure(r, stage) \/ (Unmade(r) /\ stage = "persist")
    PROVE  /\ RunShape(run')
           /\ \A q \in Processes \ {r} : run'[q] = run[q]
           /\ run'[r].at = stage /\ run'[r].job = run[r].job /\ run'[r].dry = run[r].dry
           /\ run'[r].exit # 0 /\ run'[r].evidence = run[r].evidence
<1>1. PICK f1 : f1 = [run EXCEPT ![r].at = stage]
  OBVIOUS
<1>2. PICK code : \/ run' = Failure(r, stage) /\ code = IF run[r].exit = 0 THEN 74 ELSE run[r].exit
                  \/ Unmade(r) /\ stage = "persist" /\ code = 74
  OBVIOUS
<1>3. PICK f2 : f2 = [f1 EXCEPT ![r].exit = code]
  OBVIOUS
<1>0. PICK yes : yes = TRUE
  OBVIOUS
<1>4. PICK f3 : f3 = [f2 EXCEPT ![r].error = yes]
  OBVIOUS
<1>5. /\ RunShape(f1) /\ \A q \in Processes \ {r} : f1[q] = run[q]
      /\ f1[r].at = stage /\ f1[r].job = run[r].job /\ f1[r].dry = run[r].dry
      /\ f1[r].exit = run[r].exit /\ f1[r].evidence = run[r].evidence
  BY <1>1 DEF RunShape, RunRecord
<1>6. /\ RunShape(f2) /\ \A q \in Processes \ {r} : f2[q] = run[q]
      /\ f2[r].at = stage /\ f2[r].job = run[r].job /\ f2[r].dry = run[r].dry
      /\ f2[r].exit = code /\ f2[r].evidence = run[r].evidence
  BY <1>3, <1>5 DEF RunShape, RunRecord
<1>7. /\ RunShape(f3) /\ \A q \in Processes \ {r} : f3[q] = run[q]
      /\ f3[r].at = stage /\ f3[r].job = run[r].job /\ f3[r].dry = run[r].dry
      /\ f3[r].exit = code /\ f3[r].evidence = run[r].evidence
  BY <1>4, <1>6 DEF RunShape, RunRecord
<1>8. run' = f3
  BY <1>0, <1>1, <1>2, <1>3, <1>4, <1>5 DEF Failure, Unmade, RunShape
<1>9. code # 0
  BY <1>2
<1>. QED
  BY <1>7, <1>8, <1>9

(* A process that goes to another stage with an exit code, timed out or not.       *)
Late(r) == run' = [run EXCEPT ![r].at = "project", ![r].exit = 124, ![r].timedOut = TRUE]

LEMMA MovedStep ==
    ASSUME RunShape(run), NEW r \in Processes, NEW stage, NEW code,
           run' = Moved(r, stage, code) \/ (Late(r) /\ stage = "project" /\ code = 124)
    PROVE  /\ RunShape(run')
           /\ \A q \in Processes \ {r} : run'[q] = run[q]
           /\ run'[r].at = stage /\ run'[r].job = run[r].job /\ run'[r].dry = run[r].dry
           /\ run'[r].exit = code /\ run'[r].error = run[r].error
<1>1. PICK f1 : f1 = [run EXCEPT ![r].at = stage]
  OBVIOUS
<1>2. PICK f2 : f2 = [f1 EXCEPT ![r].exit = code]
  OBVIOUS
<1>0. PICK yes : yes = TRUE
  OBVIOUS
<1>3. PICK f3 : f3 = [f2 EXCEPT ![r].timedOut = yes]
  OBVIOUS
<1>4. /\ RunShape(f1) /\ \A q \in Processes \ {r} : f1[q] = run[q]
      /\ f1[r].at = stage /\ f1[r].job = run[r].job /\ f1[r].dry = run[r].dry
      /\ f1[r].error = run[r].error
  BY <1>1 DEF RunShape, RunRecord
<1>5. /\ RunShape(f2) /\ \A q \in Processes \ {r} : f2[q] = run[q]
      /\ f2[r].at = stage /\ f2[r].job = run[r].job /\ f2[r].dry = run[r].dry
      /\ f2[r].exit = code /\ f2[r].error = run[r].error
  BY <1>2, <1>4 DEF RunShape, RunRecord
<1>6. /\ RunShape(f3) /\ \A q \in Processes \ {r} : f3[q] = run[q]
      /\ f3[r].at = stage /\ f3[r].job = run[r].job /\ f3[r].dry = run[r].dry
      /\ f3[r].exit = code /\ f3[r].error = run[r].error
  BY <1>3, <1>5 DEF RunShape, RunRecord
<1>7. run' = f2 \/ run' = f3
  BY <1>0, <1>1, <1>2, <1>3, <1>4 DEF RunShape, Moved, Late
<1>. QED
  BY <1>5, <1>6, <1>7

(* A process whose owner's output was accepted.                                  *)
Accepted(r) == run' = [run EXCEPT ![r].at = "persist", ![r].evidence = TRUE]

LEMMA AcceptedStep ==
    ASSUME RunShape(run), NEW r \in Processes, Accepted(r)
    PROVE  /\ RunShape(run')
           /\ \A q \in Processes \ {r} : run'[q] = run[q]
           /\ run'[r].at = "persist" /\ run'[r].job = run[r].job /\ run'[r].dry = run[r].dry
           /\ run'[r].exit = run[r].exit /\ run'[r].error = run[r].error /\ run'[r].evidence
<1>0. PICK yes : yes = TRUE
  OBVIOUS
<1>1. PICK f1 : f1 = [run EXCEPT ![r].at = "persist"]
  OBVIOUS
<1>2. PICK f2 : f2 = [f1 EXCEPT ![r].evidence = yes]
  OBVIOUS
<1>3. /\ RunShape(f1) /\ \A q \in Processes \ {r} : f1[q] = run[q]
      /\ f1[r].at = "persist" /\ f1[r].job = run[r].job /\ f1[r].dry = run[r].dry
      /\ f1[r].exit = run[r].exit /\ f1[r].error = run[r].error
  BY <1>1 DEF RunShape, RunRecord
<1>4. /\ RunShape(f2) /\ \A q \in Processes \ {r} : f2[q] = run[q]
      /\ f2[r].at = "persist" /\ f2[r].job = run[r].job /\ f2[r].dry = run[r].dry
      /\ f2[r].exit = run[r].exit /\ f2[r].error = run[r].error /\ f2[r].evidence = yes
  BY <1>2, <1>3 DEF RunShape, RunRecord
<1>5. run' = f2
  BY <1>0, <1>1, <1>2 DEF RunShape, Accepted
<1>. QED
  BY <1>0, <1>4, <1>5

(* A process that takes up a job.                                              *)
LEMMA AskedStep ==
    ASSUME RunShape(run), NEW r \in Processes, NEW job, NEW dry, NEW stage, NEW code,
           run' = Asked(r, job, dry, stage, code)
    PROVE  /\ RunShape(run')
           /\ \A q \in Processes \ {r} : run'[q] = run[q]
           /\ run'[r].at = stage /\ run'[r].job = job /\ run'[r].dry = dry
           /\ run'[r].exit = code /\ ~run'[r].error
<1>1. PICK w : w = [NoRun EXCEPT !.at = stage, !.job = job, !.exit = code, !.dry = dry]
  OBVIOUS
<1>2. w = [at |-> stage, job |-> job, exit |-> code, dry |-> dry, timedOut |-> FALSE,
           error |-> FALSE, evidence |-> FALSE]
  BY <1>1 DEF NoRun
<1>3. run' = [run EXCEPT ![r] = w]
  BY <1>1 DEF Asked
<1>4. RunShape(run') /\ run'[r] = w /\ \A q \in Processes \ {r} : run'[q] = run[q]
  BY <1>2, <1>3 DEF RunShape, RunRecord
<1>. QED
  BY <1>2, <1>4

(* Every action of a process assigns its own records only.                       *)
LEMMA RunIsLocal ==
    ASSUME RunShape(run), NEW r \in Processes, Step(r)
    PROVE  /\ RunShape(run')
           /\ \A q \in Processes \ {r} : run'[q] = run[q]
           /\ run[r].at # "idle" => run'[r].job = run[r].job
           /\ run[r].at \in Busy => run'[r].at \in Busy \cup {"done", "killed"}
           /\ run'[r].at \in Busy => run[r].at \in Busy \cup {"idle"}
           /\ run[r].at = "idle" /\ run'[r].at \in Busy => run'[r].job \in Jobs
<1>1. CASE Invoke(r)
  <2>1. PICK job : \/ \E dry \in BOOLEAN : run' = Asked(r, job, dry, "done", 2)
                   \/ run' = Asked(r, job, TRUE, "done", 0)
                   \/ job \in Jobs /\ run' = Asked(r, job, FALSE, "layout", 0)
    BY <1>1 DEF Invoke, Registered, Jobs
  <2>2. run[r].at = "idle"
    BY <1>1 DEF Invoke
  <2>3. /\ RunShape(run') /\ \A q \in Processes \ {r} : run'[q] = run[q]
        /\ run'[r].at = "done" \/ (run'[r].at = "layout" /\ run'[r].job \in Jobs)
    <3>1. CASE \E dry : run' = Asked(r, job, dry, "done", 2)
      BY <3>1, AskedStep
    <3>2. CASE run' = Asked(r, job, TRUE, "done", 0)
      <4>1. \E dry : run' = Asked(r, job, dry, "done", 0)
        BY <3>2, Zenon
      <4>. QED
        BY <4>1, AskedStep
    <3>3. CASE job \in Jobs /\ run' = Asked(r, job, FALSE, "layout", 0)
      BY <3>3, AskedStep, Zenon
    <3>. QED
      BY <2>1, <3>1, <3>2, <3>3
  <2>. QED
    BY <2>2, <2>3 DEF Busy
<1>2. CASE PrepareLayout(r)
  <2>1. CASE run' = [run EXCEPT ![r].at = "launch"]
    BY <1>2, <2>1 DEF PrepareLayout, RunShape, RunRecord, Busy
  <2>2. CASE run' = Moved(r, "done", 2)
    BY <1>2, <2>2, MovedStep DEF PrepareLayout, Busy
  <2>3. CASE run' = Failure(r, "done")
    BY <1>2, <2>3, FailedStep DEF PrepareLayout, Busy
  <2>. QED
    BY <1>2, <2>1, <2>2, <2>3 DEF PrepareLayout
<1>3. CASE Launch(r)
  <2>1. CASE \E stage, code : stage \in {"project", "done"} /\ run' = Moved(r, stage, code)
    BY <1>3, <2>1, MovedStep DEF Launch, Busy
  <2>2. CASE Unmade(r)
    BY <1>3, <2>2, FailedStep DEF Launch, Busy
  <2>3. CASE run' = [run EXCEPT ![r].at = "wait"]
    <3>1. run[r].at = "launch"
      BY <1>3 DEF Launch
    <3>2. /\ RunShape(run') /\ \A q \in Processes \ {r} : run'[q] = run[q]
          /\ run'[r].at = "wait" /\ run'[r].job = run[r].job
      BY <2>3 DEF RunShape, RunRecord
    <3>. QED
      BY <3>1, <3>2 DEF Busy
  <2>. QED
    BY <1>3, <2>1, <2>2, <2>3 DEF Launch, Unmade
<1>4. CASE Answer(r)
  BY <1>4 DEF Answer, Busy
<1>5. CASE KemsScan(r) \/ KemsLoad(r) \/ KemsTruncate(r) \/ KemsStore(r)
  BY <1>5 DEF KemsScan, KemsLoad, KemsTruncate, KemsStore, Busy
<1>6. CASE Collect(r)
  BY <1>6, MovedStep DEF Collect, Busy
<1>7. CASE Timeout(r)
  <2>1. Late(r)
    BY <1>7 DEF Timeout, Late
  <2>. QED
    BY <1>7, <2>1, MovedStep DEF Timeout, Busy
<1>8. CASE Project(r)
  <2>1. CASE Accepted(r)
    BY <1>8, <2>1, AcceptedStep DEF Project, Busy
  <2>2. CASE run' = Failure(r, "persist")
    BY <1>8, <2>2, FailedStep DEF Project, Busy
  <2>. QED
    BY <1>8, <2>1, <2>2 DEF Project, Accepted
<1>9. CASE PersistFails(r)
  BY <1>9, FailedStep DEF PersistFails, Busy
<1>10. CASE WriteTemporary(r)
  BY <1>10 DEF WriteTemporary, RunShape, RunRecord, Busy
<1>11. CASE Publish(r)
  <2>1. CASE run' = [run EXCEPT ![r].at = "close"]
    BY <1>11, <2>1 DEF Publish, RunShape, RunRecord, Busy
  <2>2. CASE run' = Failure(r, "close")
    BY <1>11, <2>2, FailedStep DEF Publish, Busy
  <2>. QED
    BY <1>11, <2>1, <2>2 DEF Publish
<1>12. CASE Return(r)
  <2>1. CASE run' = [run EXCEPT ![r].at = "done"]
    BY <1>12, <2>1 DEF Return, RunShape, RunRecord, Busy
  <2>2. CASE run' = Failure(r, "done")
    BY <1>12, <2>2, FailedStep DEF Return, Busy
  <2>. QED
    BY <1>12, <2>1, <2>2 DEF Return
<1>13. CASE KillRun(r)
  BY <1>13 DEF KillRun, Alive, RunShape, RunRecord, Busy
<1>. QED
  BY <1>1, <1>2, <1>3, <1>4, <1>5, <1>6, <1>7, <1>8, <1>9, <1>10, <1>11, <1>12, <1>13 DEF Step

(* An owner that goes to another stage with a report.                             *)
LEMMA ReportStep ==
    ASSUME OwnerShape(owner), NEW r \in Processes, NEW stage, NEW out,
           owner' = Prints(r, stage, out)
    PROVE  /\ OwnerShape(owner') /\ \A q \in Processes \ {r} : owner'[q] = owner[q]
           /\ owner'[r].at = stage /\ owner'[r].out = out
           /\ owner'[r].hashes = owner[r].hashes
<1>1. PICK f : f = [owner EXCEPT ![r].at = stage]
  OBVIOUS
<1>2. /\ OwnerShape(f) /\ \A q \in Processes \ {r} : f[q] = owner[q]
      /\ f[r].at = stage /\ f[r].hashes = owner[r].hashes
  BY <1>1 DEF OwnerShape, OwnerRecord
<1>3. owner' = [f EXCEPT ![r].out = out]
  BY <1>1 DEF Prints, OwnerShape
<1>. QED
  BY <1>2, <1>3 DEF OwnerShape, OwnerRecord

LEMMA OwnerIsLocal ==
    ASSUME OwnerShape(owner), NEW r \in Processes, Step(r)
    PROVE  /\ OwnerShape(owner')
           /\ \A q \in Processes \ {r} : owner'[q] = owner[q]
           /\ owner[r].at = "ended" /\ run[r].at \notin {"launch", "wait"} => owner'[r] = owner[r]
           /\ owner[r].at = "none" => owner'[r].at \in {"none", "started", "killed"}
<1>1. CASE Launch(r)
  BY <1>1 DEF Launch, OwnerShape, OwnerRecord
<1>2. CASE Answer(r) \/ KemsLoad(r)
  BY <1>2, ReportStep DEF Answer, KemsLoad
<1>3. CASE KemsScan(r)
  <2>1. PICK hashes : owner' = [owner EXCEPT ![r].at = "scanned", ![r].hashes = hashes]
                      \/ owner' = Prints(r, "ended", PathRefused)
    BY <1>3 DEF KemsScan
  <2>2. owner[r].at = "started"
    BY <1>3 DEF KemsScan
  <2>3. CASE owner' = Prints(r, "ended", PathRefused)
    BY <2>2, <2>3, ReportStep
  <2>4. CASE owner' = [owner EXCEPT ![r].at = "scanned", ![r].hashes = hashes]
    BY <2>2, <2>4 DEF OwnerShape, OwnerRecord
  <2>. QED
    BY <2>1, <2>3, <2>4
<1>5. CASE KemsTruncate(r) \/ KemsStore(r)
  <2>1. owner[r].at \in {"compared", "truncated"}
    BY <1>5 DEF KemsTruncate, KemsStore
  <2>2. CASE owner' = Prints(r, "ended", PathRefused)
    BY <2>1, <2>2, ReportStep
  <2>3. CASE \E stage : owner' = [owner EXCEPT ![r].at = stage]
    BY <2>1, <2>3 DEF OwnerShape, OwnerRecord
  <2>. QED
    BY <1>5, <2>2, <2>3 DEF KemsTruncate, KemsStore
<1>7. CASE Timeout(r)
  <2>1. CASE owner' = Prints(r, "killed", Report(124, NoOutput))
    BY <1>7, <2>1, ReportStep DEF Timeout
  <2>. QED
    BY <1>7, <2>1 DEF Timeout
<1>8. CASE UNCHANGED owner
  BY <1>8
<1>. QED
  BY <1>1, <1>2, <1>3, <1>5, <1>7, <1>8
     DEF Step, Invoke, PrepareLayout, Collect, Project, PersistFails, WriteTemporary, Publish,
         Return, KillRun

(* A receipt appended to those of a job.                                        *)
GrownBy(s, t, e) ==
    /\ t \in Seq(Range(t))
    /\ \A i \in DOMAIN s : i \in DOMAIN t /\ t[i] = s[i]
    /\ \E i \in DOMAIN t : t[i] = e
    /\ \A i \in DOMAIN t : i \in DOMAIN s \/ t[i] = e

LEMMA AppendGrows ==
    ASSUME NEW s, s \in Seq(Range(s)), NEW e
    PROVE  GrownBy(s, Append(s, e), e)
<1>. DEFINE t == Append(s, e)
<1>1. s \in Seq(Range(s) \cup {e})
  BY DEF Range
<1>2. /\ t \in Seq(Range(s) \cup {e}) /\ Len(t) = Len(s) + 1
      /\ \A i \in 1 .. Len(s) : t[i] = s[i]
      /\ t[Len(s) + 1] = e
  BY <1>1, AppendProperties
<1>3. Len(s) \in Nat /\ DOMAIN s = 1 .. Len(s) /\ DOMAIN t = 1 .. Len(t)
  BY <1>1, <1>2, LenProperties
<1>4. t \in Seq(Range(t))
  BY <1>2, <1>3 DEF Range
<1>. QED
  BY <1>2, <1>3, <1>4 DEF GrownBy

LEMMA ReceiptsGrow ==
    ASSUME Shape, NEW r \in Processes, Step(r)
    PROVE  /\ ReceiptsShape(receipts')
           /\ \A j \in Jobs : \A i \in DOMAIN receipts[j] :
                i \in DOMAIN receipts'[j] /\ receipts'[j][i] = receipts[j][i]
           /\ Publish(r) => \E i \in DOMAIN receipts'[run[r].job] :
                              receipts'[run[r].job][i] = Receipt(r)
           /\ \A j \in Jobs : \A i \in DOMAIN receipts'[j] :
                \/ i \in DOMAIN receipts[j]
                \/ Publish(r) /\ run[r].job = j /\ receipts'[j][i] = Receipt(r)
<1>1. CASE Publish(r)
  <2>1. PICK k \in Jobs : k = run[r].job
    BY <1>1 DEF Publish, Shape, JobsAreKnown, Busy
  <2>0. PICK e, s : e = Receipt(r) /\ s = receipts[k]
    OBVIOUS
  <2>2. PICK t : t = Append(s, e)
    OBVIOUS
  <2>3. receipts' = [receipts EXCEPT ![k] = t]
    BY <1>1, <2>0, <2>1, <2>2 DEF Publish
  <2>4. receipts'[k] = t /\ \A j \in Jobs \ {k} : receipts'[j] = receipts[j]
    BY <2>3 DEF Shape, ReceiptsShape
  <2>5. /\ t \in Seq(Range(t))
        /\ \A i \in DOMAIN s : i \in DOMAIN t /\ t[i] = s[i]
        /\ \E i \in DOMAIN t : t[i] = e
        /\ \A i \in DOMAIN t : i \in DOMAIN s \/ t[i] = e
    <3>1. s \in Seq(Range(s))
      BY <2>0 DEF Shape, ReceiptsShape
    <3>2. GrownBy(s, t, e)
      BY <2>2, <3>1, AppendGrows
    <3>. QED
      BY <3>2 DEF GrownBy
  <2>6. ReceiptsShape(receipts')
    <3>1. receipts' = [j \in Jobs |-> receipts'[j]]
      BY <2>3 DEF Shape, ReceiptsShape
    <3>2. \A j \in Jobs : receipts'[j] \in Seq(Range(receipts'[j]))
      BY <2>4, <2>5 DEF Shape, ReceiptsShape
    <3>. QED
      BY <3>1, <3>2 DEF ReceiptsShape
  <2>. QED
    BY <1>1, <2>0, <2>1, <2>4, <2>5, <2>6
<1>2. CASE UNCHANGED receipts /\ ~Publish(r)
  BY <1>2 DEF Shape
<1>. QED
  BY <1>1, <1>2 DEF Step, Invoke, PrepareLayout, Launch, Answer, KemsScan, KemsLoad,
     KemsTruncate, KemsStore, Collect, Timeout, Project, PersistFails, WriteTemporary, Return,
     KillRun

(* Users, and a repair by hand, touch none of that.                              *)
LEMMA OthersStandBy ==
    ASSUME DocumentsNext, ~\E r \in Processes : Step(r)
    PROVE  UNCHANGED <<run, owner, receipts, leftovers, baseline, told, lost, adopted>>
  BY DEF DocumentsNext, ChangeScope, EditCard, RepairRead, RepairWrite, jobVars, kemsVars

LEMMA ShapeStep ==
    ASSUME Shape, NEW r \in Processes, Step(r)
    PROVE  Shape'
<1>1. RunShape(run') /\ OwnerShape(owner') /\ ReceiptsShape(receipts')
  BY RunIsLocal, OwnerIsLocal, ReceiptsGrow DEF Shape
<1>2. ASSUME NEW q \in Processes, run'[q].at \in Busy
      PROVE  run'[q].job \in Jobs
  <2>1. CASE q = r
    BY <1>2, <2>1, RunIsLocal DEF Shape, JobsAreKnown
  <2>2. CASE q # r
    BY <1>2, <2>2, RunIsLocal DEF Shape, JobsAreKnown
  <2>. QED
    BY <2>1, <2>2
<1>. QED
  BY <1>1, <1>2 DEF Shape, JobsAreKnown

(* What the success of a process rests on stays as it is.                         *)
LEMMA SuccessStays ==
    ASSUME Shape, NEW r \in Processes, Step(r), NEW q \in Processes, SuccessIsTrue(q),
           run[q].at \notin {"idle", "launch", "wait"}
    PROVE  SuccessIsTrue(q)'
<1>1. run'[q].job = run[q].job
  BY RunIsLocal DEF Shape
<1>2. owner'[q] = owner[q]
  BY OwnerIsLocal DEF Shape, SuccessIsTrue
<1>. QED
  BY <1>1, <1>2 DEF SuccessIsTrue

(* The process that steps makes the progress its invariant allows.               *)
LEMMA OwnProgress ==
    ASSUME Shape, NEW r \in Processes, Progress(r), Step(r)
    PROVE  Progress(r)'
<1>0. RunShape(run) /\ OwnerShape(owner) /\ RunShape(run') /\ OwnerShape(owner')
  BY ShapeStep DEF Shape
<1>1. CASE Invoke(r)
  <2>1. UNCHANGED <<owner, leftovers>> /\ run[r].at = "idle"
    BY <1>1 DEF Invoke
  <2>2. PICK job, dry, stage, code :
          /\ run' = Asked(r, job, dry, stage, code)
          /\ (stage = "done" /\ code = 2) \/ (stage = "done" /\ dry = TRUE) \/ stage = "layout"
    <3>1. PICK job : \/ \E dry \in BOOLEAN : run' = Asked(r, job, dry, "done", 2)
                     \/ run' = Asked(r, job, TRUE, "done", 0)
                     \/ run' = Asked(r, job, FALSE, "layout", 0)
      BY <1>1 DEF Invoke
    <3>2. CASE \E dry : run' = Asked(r, job, dry, "done", 2)
      BY <3>2
    <3>3. CASE run' = Asked(r, job, TRUE, "done", 0)
      BY <3>3, Zenon
    <3>4. CASE run' = Asked(r, job, FALSE, "layout", 0)
      BY <3>4
    <3>. QED
      BY <3>1, <3>2, <3>3, <3>4, Zenon
  <2>3. run'[r].at = stage /\ run'[r].exit = code /\ run'[r].dry = dry /\ ~run'[r].error
    BY <1>0, <2>2, AskedStep
  <2>4. /\ run'[r].at \in {"done", "layout"} /\ ~run'[r].error
        /\ run'[r].at = "done" => run'[r].exit = 2 \/ run'[r].dry
    BY <2>2, <2>3
  <2>. QED
    BY <2>1, <2>4 DEF Progress
<1>2. CASE PrepareLayout(r)
  <2>1. UNCHANGED <<owner, leftovers>> /\ run[r].at = "layout"
    BY <1>2 DEF PrepareLayout
  <2>2. \/ run'[r].at = "launch" /\ run'[r].error = run[r].error
        \/ run'[r].at = "done" /\ run'[r].exit # 0
    <3>1. CASE run' = [run EXCEPT ![r].at = "launch"]
      BY <1>0, <3>1 DEF RunShape, RunRecord
    <3>2. CASE run' = Moved(r, "done", 2)
      BY <1>0, <3>2, MovedStep
    <3>3. CASE run' = Failure(r, "done")
      BY <1>0, <3>3, FailedStep
    <3>. QED
      BY <1>2, <3>1, <3>2, <3>3 DEF PrepareLayout
  <2>. QED
    BY <2>1, <2>2 DEF Progress
<1>3. CASE Launch(r)
  <2>1. UNCHANGED leftovers /\ run[r].at = "launch"
    BY <1>3 DEF Launch
  <2>2. \/ run'[r].at = "done" /\ run'[r].exit = 2
        \/ run'[r].at = "project" /\ run'[r].exit # 0 /\ run'[r].error = run[r].error
        \/ run'[r].at = "persist" /\ run'[r].exit # 0
        \/ run'[r].at = "wait" /\ run'[r].error = run[r].error
    <3>1. CASE run' = Moved(r, "done", 2)
      BY <1>0, <3>1, MovedStep
    <3>2. CASE \E code \in {125, 127} : run' = Moved(r, "project", code)
      BY <1>0, <3>2, MovedStep
    <3>3. CASE Unmade(r)
      BY <1>0, <3>3, FailedStep DEF Unmade
    <3>4. CASE run' = [run EXCEPT ![r].at = "wait"]
      BY <1>0, <3>4 DEF RunShape, RunRecord
    <3>. QED
      BY <1>3, <3>1, <3>2, <3>3, <3>4 DEF Launch, Unmade
  <2>. QED
    BY <2>1, <2>2 DEF Progress
<1>4. CASE Collect(r)
  <2>1. /\ UNCHANGED <<owner, leftovers>> /\ run[r].at = "wait"
        /\ owner[r].at = "ended"
    BY <1>4 DEF Collect
  <2>2. /\ run'[r].at = "project" /\ run'[r].error = run[r].error
        /\ run'[r].exit = owner[r].out.exit
    BY <1>0, <1>4, MovedStep DEF Collect
  <2>. QED
    BY <2>1, <2>2 DEF Progress
<1>5. CASE Timeout(r)
  <2>1. UNCHANGED leftovers /\ run[r].at = "wait"
    BY <1>5 DEF Timeout
  <2>2. run'[r].at = "project" /\ run'[r].error = run[r].error /\ run'[r].exit = 124
    <3>1. Late(r)
      BY <1>5 DEF Timeout, Late
    <3>. QED
      BY <1>0, <3>1, MovedStep
  <2>. QED
    BY <2>1, <2>2 DEF Progress
<1>6. CASE Project(r)
  <2>1. UNCHANGED <<owner, leftovers>> /\ run[r].at = "project"
    BY <1>6 DEF Project
  <2>2. CASE run' = Failure(r, "persist")
    <3>1. run'[r].at = "persist" /\ run'[r].exit # 0
      BY <1>0, <2>2, FailedStep
    <3>. QED
      BY <2>1, <3>1 DEF Progress
  <2>3. CASE Accepted(r)
    <3>1. /\ run'[r].at = "persist" /\ run'[r].evidence /\ run'[r].error = run[r].error
          /\ run'[r].exit = run[r].exit /\ run'[r].job = run[r].job
      BY <1>0, <2>3, AcceptedStep
    <3>2. run[r].exit = 0 => SuccessIsTrue(r)'
      <4>1. SUFFICES ASSUME run[r].exit = 0
                     PROVE  SuccessIsTrue(r)'
        OBVIOUS
      <4>2. owner[r].at = "ended" /\ owner[r].out.exit = 0
        BY <2>1, <4>1 DEF Progress
      <4>3. run' # Failure(r, "persist")
        BY <1>0, <3>1, <4>1, FailedStep
      <4>4. Accepts(Projection(run[r].job), owner[r].out.payload)
        BY <1>6, <4>2, <4>3 DEF Project
      <4>. QED
        BY <2>1, <3>1, <4>2, <4>4 DEF SuccessIsTrue
    <3>. QED
      BY <2>1, <3>1, <3>2 DEF Progress
  <2>. QED
    BY <1>6, <2>2, <2>3 DEF Project, Accepted
<1>7. CASE PersistFails(r)
  <2>1. run'[r].at = "close" /\ run'[r].exit # 0
    BY <1>0, <1>7, FailedStep DEF PersistFails
  <2>. QED
    BY <2>1 DEF Progress
<1>8. CASE WriteTemporary(r)
  <2>1. UNCHANGED owner /\ run[r].at = "persist"
    BY <1>8 DEF WriteTemporary
  <2>2. /\ run'[r].at = "rename" /\ run'[r].exit = run[r].exit /\ run'[r].error = run[r].error
        /\ run'[r].evidence = run[r].evidence
    BY <1>0, <1>8 DEF WriteTemporary, RunShape, RunRecord
  <2>3. SuccessIsTrue(r) => SuccessIsTrue(r)'
    BY <2>1, SuccessStays
  <2>. QED
    BY <2>1, <2>2, <2>3 DEF Progress
<1>9. CASE Publish(r)
  <2>1. UNCHANGED owner /\ run[r].at = "rename" /\ r \notin leftovers'
    BY <1>9 DEF Publish
  <2>2. /\ run'[r].at = "close" /\ run'[r].job = run[r].job
        /\ run'[r].exit # 0 \/ run'[r].exit = run[r].exit
    <3>1. CASE run' = [run EXCEPT ![r].at = "close"]
      BY <1>0, <3>1 DEF RunShape, RunRecord
    <3>2. CASE run' = Failure(r, "close")
      BY <1>0, <3>2, FailedStep
    <3>. QED
      BY <1>9, <3>1, <3>2 DEF Publish
  <2>3. ASSUME run'[r].exit = 0
        PROVE  Published(r)'
    <3>1. PICK i \in DOMAIN receipts'[run[r].job] : receipts'[run[r].job][i] = Receipt(r)
      BY <1>9, ReceiptsGrow
    <3>2. run[r].job \in Jobs
      BY <2>1 DEF Shape, JobsAreKnown, Busy
    <3>. QED
      BY <2>2, <2>3, <3>1, <3>2 DEF Published, Receipt
  <2>. QED
    BY <2>1, <2>2, <2>3 DEF Progress
<1>10. CASE Return(r)
  <2>1. UNCHANGED <<owner, leftovers, receipts>> /\ run[r].at = "close"
    BY <1>10 DEF Return
  <2>2. /\ run'[r].at = "done" /\ run'[r].job = run[r].job /\ run'[r].dry = run[r].dry
        /\ run'[r].exit # 0 \/ run'[r].exit = run[r].exit
    <3>1. CASE run' = [run EXCEPT ![r].at = "done"]
      BY <1>0, <3>1 DEF RunShape, RunRecord
    <3>2. CASE run' = Failure(r, "done")
      BY <1>0, <3>2, FailedStep
    <3>. QED
      BY <1>10, <3>1, <3>2 DEF Return
  <2>3. Published(r) => Published(r)'
    BY <2>1, <2>2 DEF Published
  <2>. QED
    BY <2>1, <2>2, <2>3 DEF Progress
<1>11. CASE KillRun(r)
  <2>1. run'[r].at = "killed"
    BY <1>0, <1>11 DEF KillRun, RunShape, RunRecord
  <2>. QED
    BY <2>1 DEF Progress
<1>12. CASE Answer(r) \/ KemsScan(r) \/ KemsLoad(r) \/ KemsTruncate(r) \/ KemsStore(r)
  <2>1. UNCHANGED <<run, leftovers, receipts>>
    BY <1>12 DEF Answer, KemsScan, KemsLoad, KemsTruncate, KemsStore
  <2>2. owner[r].at \in {"started", "scanned", "compared", "truncated"}
    BY <1>12 DEF Answer, KemsScan, KemsLoad, KemsTruncate, KemsStore
  <2>. QED
    BY <2>1, <2>2 DEF Progress, SuccessIsTrue, Published
<1>. QED
  BY <1>1, <1>2, <1>3, <1>4, <1>5, <1>6, <1>7, <1>8, <1>9, <1>10, <1>11, <1>12 DEF Step

(* The last stages.                                                           *)
LEMMA PublishCloses ==
    ASSUME RunShape(run), NEW r \in Processes, Publish(r)
    PROVE  run'[r].at = "close"
<1>1. CASE run' = [run EXCEPT ![r].at = "close"]
  BY <1>1 DEF RunShape, RunRecord
<1>2. CASE run' = Failure(r, "close")
  BY <1>2, FailedStep
<1>. QED
  BY <1>1, <1>2 DEF Publish

LEMMA Finishing ==
    ASSUME RunShape(run), NEW r \in Processes, Step(r), run[r].at \in {"close", "done", "killed"}
    PROVE  run'[r].at \in {"close", "done", "killed"}
<1>1. CASE Return(r)
  <2>1. CASE run' = [run EXCEPT ![r].at = "done"]
    BY <2>1 DEF RunShape, RunRecord
  <2>2. CASE run' = Failure(r, "done")
    BY <2>2, FailedStep
  <2>. QED
    BY <1>1, <2>1, <2>2 DEF Return
<1>2. CASE KillRun(r)
  BY <1>2 DEF KillRun, RunShape, RunRecord
<1>3. CASE UNCHANGED run
  BY <1>3
<1>. QED
  BY <1>1, <1>2, <1>3 DEF Step, Invoke, PrepareLayout, Launch, Answer, KemsScan, KemsLoad,
     KemsTruncate, KemsStore, Collect, Timeout, Project, PersistFails, WriteTemporary, Publish

LEMMA LeftoversAreLocal ==
    ASSUME NEW r \in Processes, Step(r), NEW q \in Processes \ {r}
    PROVE  q \in leftovers' <=> q \in leftovers
  BY DEF Step, Invoke, PrepareLayout, Launch, Answer, KemsScan, KemsLoad, KemsTruncate, KemsStore,
     Collect, Timeout, Project, PersistFails, WriteTemporary, Publish, Return, KillRun

(* What one process does takes nothing from another.                             *)
LEMMA OthersProgress ==
    ASSUME Shape, NEW r \in Processes, Step(r), NEW q \in Processes \ {r}, Progress(q)
    PROVE  Progress(q)'
<1>1. run'[q] = run[q] /\ owner'[q] = owner[q]
  BY RunIsLocal, OwnerIsLocal DEF Shape
<1>2. q \in leftovers' <=> q \in leftovers
  BY LeftoversAreLocal
<1>3. SuccessIsTrue(q) => SuccessIsTrue(q)'
  BY <1>1 DEF SuccessIsTrue
<1>4. ASSUME Published(q)
      PROVE  Published(q)'
  <2>0. run[q].job \in Jobs
    BY <1>4 DEF Published
  <2>1. PICK i \in DOMAIN receipts[run[q].job] :
          receipts[run[q].job][i].run = q /\ receipts[run[q].job][i].exit = 0
    BY <1>4 DEF Published
  <2>2. /\ i \in DOMAIN receipts'[run[q].job]
        /\ receipts'[run[q].job][i] = receipts[run[q].job][i]
    BY <2>0, <2>1, ReceiptsGrow
  <2>. QED
    BY <1>1, <2>0, <2>1, <2>2 DEF Published
<1>. QED
  BY <1>1, <1>2, <1>3, <1>4 DEF Progress

(* A receipt stays true, and a new one says what its process had achieved.        *)
LEMMA ReceiptsStaySound ==
    ASSUME Shape, NEW r \in Processes, Step(r), \A q \in Processes : Progress(q),
           NEW j \in Jobs, NEW i \in DOMAIN receipts'[j],
           i \in DOMAIN receipts[j] => ReceiptIsSound(receipts[j][i], j)
    PROVE  ReceiptIsSound(receipts[j][i], j)'
<1>1. CASE i \in DOMAIN receipts[j]
  <2>1. PICK e : e = receipts[j][i] /\ e = receipts'[j][i]
    BY <1>1, ReceiptsGrow
  <2>2. ReceiptIsSound(e, j)
    BY <1>1, <2>1
  <2>3. ASSUME e.exit = 0
        PROVE  /\ run'[e.run].job = j /\ run'[e.run].at \in {"close", "done", "killed"}
               /\ SuccessIsTrue(e.run)'
    <3>1. PICK q \in Processes : q = e.run
      BY <2>2 DEF ReceiptIsSound
    <3>2. /\ SuccessIsTrue(q) /\ run[q].at \in {"close", "done", "killed"} /\ run[q].job = j
      BY <2>2, <2>3, <3>1 DEF ReceiptIsSound
    <3>3. SuccessIsTrue(q)'
      BY <3>2, SuccessStays
    <3>4. run'[q].job = run[q].job
      BY <3>2, RunIsLocal DEF Shape
    <3>5. run'[q].at \in {"close", "done", "killed"}
      <4>1. CASE q # r
        BY <3>2, <4>1, RunIsLocal DEF Shape
      <4>2. CASE q = r
        BY <3>2, <4>2, Finishing DEF Shape
      <4>. QED
        BY <4>1, <4>2
    <3>. QED
      BY <3>1, <3>2, <3>3, <3>4, <3>5
  <2>. QED
    BY <2>1, <2>2, <2>3 DEF ReceiptIsSound
<1>2. CASE Publish(r) /\ run[r].job = j /\ receipts'[j][i] = Receipt(r)
  <2>1. run[r].at = "rename" /\ Progress(r)
    BY <1>2 DEF Publish
  <2>2. run'[r].at = "close" /\ run'[r].job = j
    BY <1>2, PublishCloses, RunIsLocal DEF Shape, Publish
  <2>3. run[r].exit = 0 => ~run[r].error /\ run[r].evidence /\ SuccessIsTrue(r)
    BY <2>1 DEF Progress
  <2>4. SuccessIsTrue(r) => SuccessIsTrue(r)'
    BY <2>1, SuccessStays
  <2>. QED
    BY <1>2, <2>2, <2>3, <2>4 DEF ReceiptIsSound, Receipt
<1>. QED
  BY <1>1, <1>2, ReceiptsGrow

(* The stages of a process, of its owner and of its receipts go together.          *)
THEOREM DocumentsInvHolds == DocumentsSpec => []DocumentsInv
<1>1. DocumentsInit => DocumentsInv
  <2>. SUFFICES ASSUME DocumentsInit PROVE DocumentsInv
    OBVIOUS
  <2>1. RunShape(run) /\ OwnerShape(owner) /\ JobsAreKnown
    BY DEF DocumentsInit, NoRun, NoOwner, RunShape, OwnerShape, RunRecord, OwnerRecord, JobsAreKnown,
       Busy
  <2>2. ReceiptsShape(receipts) /\ \A j \in Jobs : receipts[j] = <<>>
    BY DEF DocumentsInit, ReceiptsShape, Range
  <2>3. \A r \in Processes : Progress(r)
    BY DEF DocumentsInit, NoRun, NoOwner, Progress
  <2>. QED
    BY <2>1, <2>2, <2>3 DEF DocumentsInv, Shape
<1>2. DocumentsInv /\ [DocumentsNext]_documentsVars => DocumentsInv'
  <2>. SUFFICES ASSUME DocumentsInv, [DocumentsNext]_documentsVars PROVE DocumentsInv'
    OBVIOUS
  <2>1. CASE \E r \in Processes : Step(r)
    <3>. PICK r \in Processes : Step(r)
      BY <2>1
    <3>1. Shape'
      BY ShapeStep DEF DocumentsInv
    <3>2. ASSUME NEW q \in Processes PROVE Progress(q)'
      BY OwnProgress, OthersProgress DEF DocumentsInv
    <3>3. ASSUME NEW j \in Jobs, NEW i \in DOMAIN receipts'[j]
          PROVE  ReceiptIsSound(receipts[j][i], j)'
      BY <3>3, ReceiptsStaySound DEF DocumentsInv
    <3>. QED
      BY <3>1, <3>2, <3>3 DEF DocumentsInv
  <2>2. CASE UNCHANGED <<run, owner, receipts, leftovers>>
    BY <2>2 DEF DocumentsInv, Shape, JobsAreKnown, Progress, Published, ReceiptIsSound, SuccessIsTrue
  <2>. QED
    BY <2>1, <2>2, OthersStandBy DEF documentsVars, jobVars
<1>. QED
  BY <1>1, <1>2, PTL DEF DocumentsSpec

(* Runtime never reports a success it cannot show.                              *)
THEOREM SuccessesAreShown == DocumentsSpec => []ReceiptsTellTheTruth
<1>1. DocumentsInv => ReceiptsTellTheTruth
  <2>. SUFFICES ASSUME DocumentsInv PROVE ReceiptsTellTheTruth
    OBVIOUS
  <2>1. ASSUME NEW j \in Jobs, NEW i \in DOMAIN receipts[j], receipts[j][i].exit = 0
        PROVE  /\ ~receipts[j][i].error /\ receipts[j][i].evidence
               /\ run[receipts[j][i].run].job = j /\ SuccessIsTrue(receipts[j][i].run)
    BY <2>1 DEF DocumentsInv, ReceiptIsSound
  <2>2. ASSUME NEW r \in Processes, run[r].at = "done", run[r].exit = 0, ~run[r].dry
        PROVE  /\ r \notin leftovers
               /\ \E i \in DOMAIN receipts[run[r].job] :
                    receipts[run[r].job][i].run = r /\ receipts[run[r].job][i].exit = 0
    BY <2>2 DEF DocumentsInv, Progress, Published
  <2>. QED
    BY <2>1, <2>2 DEF ReceiptsTellTheTruth
<1>. QED
  BY <1>1, DocumentsInvHolds, PTL

-------------------------------------------------------------------------------
(* A process whose check has stored its fingerprints goes on until it returns, is    *)
(* killed, or runs out of time.                                               *)
HasStored(r) ==
    /\ run[r].job = "kems-check" /\ owner[r].at = "ended"
    /\ owner[r].out.payload.status \in {"ok", "changed"}

LEMMA GhostsGrow ==
    ASSUME NEW r \in Processes, Step(r)
    PROVE  told \subseteq told' /\ lost \subseteq lost' /\ adopted \subseteq adopted'
  BY DEF Step, Invoke, PrepareLayout, Launch, Answer, KemsScan, KemsLoad, KemsTruncate, KemsStore,
     Collect, Timeout, Project, PersistFails, WriteTemporary, Publish, Return, Heard, KillRun,
     kemsVars

LEMMA StoredGoesOn ==
    ASSUME Shape, NEW r \in Processes, Progress(r), Step(r), Alive(r), HasStored(r)
    PROVE  \/ Stored(r) \subseteq lost'
           \/ Named(owner[r]) \subseteq told'
           \/ Alive(r)' /\ owner'[r] = owner[r] /\ run'[r].job = run[r].job
<1>0. /\ RunShape(run) /\ run[r].at \notin {"idle", "layout", "launch", "done", "killed"}
      /\ run'[r].job = run[r].job
  BY RunIsLocal DEF Shape, Progress, HasStored, Alive
<1>1. CASE Collect(r)
  <2>1. run'[r].at = "project" /\ UNCHANGED owner
    BY <1>0, <1>1, MovedStep DEF Collect
  <2>. QED
    BY <1>0, <2>1 DEF Alive
<1>2. CASE Timeout(r)
  <2>1. Late(r)
    BY <1>2 DEF Timeout, Late
  <2>2. run'[r].at = "project"
    BY <1>0, <2>1, MovedStep
  <2>. QED
    BY <1>0, <1>2, <2>2 DEF Alive, Timeout
<1>3. CASE Project(r)
  <2>1. UNCHANGED owner
    BY <1>3 DEF Project
  <2>2. run'[r].at = "persist"
    <3>1. CASE Accepted(r)
      BY <1>0, <3>1, AcceptedStep
    <3>2. CASE run' = Failure(r, "persist")
      BY <1>0, <3>2, FailedStep
    <3>. QED
      BY <1>3, <3>1, <3>2 DEF Project, Accepted
  <2>. QED
    BY <1>0, <2>1, <2>2 DEF Alive
<1>4. CASE PersistFails(r)
  <2>1. run'[r].at = "close" /\ UNCHANGED owner
    BY <1>0, <1>4, FailedStep DEF PersistFails
  <2>. QED
    BY <1>0, <2>1 DEF Alive
<1>5. CASE WriteTemporary(r)
  <2>1. run'[r].at = "rename" /\ UNCHANGED owner
    BY <1>0, <1>5 DEF WriteTemporary, RunShape, RunRecord
  <2>. QED
    BY <1>0, <2>1 DEF Alive
<1>6. CASE Publish(r)
  <2>1. run'[r].at = "close" /\ UNCHANGED owner
    BY <1>0, <1>6, PublishCloses DEF Publish
  <2>. QED
    BY <1>0, <2>1 DEF Alive
<1>7. CASE Return(r)
  BY <1>7 DEF Return, Heard, HasStored
<1>8. CASE KillRun(r)
  BY <1>8 DEF KillRun
<1>. QED
  BY <1>0, <1>1, <1>2, <1>3, <1>4, <1>5, <1>6, <1>7, <1>8
     DEF Step, Invoke, PrepareLayout, Launch, Answer, KemsScan, KemsLoad, KemsTruncate, KemsStore,
         HasStored

(* What is covered stays covered.                                              *)
LEMMA CoveredStays ==
    ASSUME DocumentsInv, NEW r \in Processes, Step(r), NEW p, Covered(p)
    PROVE  Covered(p)'
<1>1. CASE p \in told \cup lost \cup adopted
  BY <1>1, GhostsGrow DEF Covered
<1>2. ASSUME NEW q \in Processes, Alive(q), p \in Stored(q), p \in Named(owner[q])
      PROVE  Covered(p)'
  <2>1. CASE q = r
    <3>1. HasStored(r)
      BY <1>2, <2>1 DEF Stored, HasStored
    <3>2. \/ Stored(r) \subseteq lost'
          \/ Named(owner[r]) \subseteq told'
          \/ Alive(r)' /\ owner'[r] = owner[r] /\ run'[r].job = run[r].job
      BY <1>2, <2>1, <3>1, StoredGoesOn DEF DocumentsInv
    <3>3. ASSUME owner'[r] = owner[r], run'[r].job = run[r].job
          PROVE  Stored(r)' = Stored(r)
      BY <3>3 DEF Stored, Fingerprints
    <3>. QED
      BY <1>2, <2>1, <3>2, <3>3 DEF Covered
  <2>2. CASE q # r
    <3>1. run'[q] = run[q] /\ owner'[q] = owner[q]
      BY <2>2, RunIsLocal, OwnerIsLocal DEF DocumentsInv, Shape
    <3>2. Alive(q)' /\ Stored(q)' = Stored(q)
      BY <1>2, <3>1 DEF Alive, Stored, Fingerprints
    <3>. QED
      BY <1>2, <3>1, <3>2 DEF Covered
  <2>. QED
    BY <2>1, <2>2
<1>. QED
  BY <1>1, <1>2 DEF Covered

LEMMA AccountedStays ==
    ASSUME DocumentsInv, NEW r \in Processes, Step(r), NEW hashes, NEW named,
           Accounted(hashes, named)
    PROVE  Accounted(hashes, named)'
  BY CoveredStays DEF Accounted

(* What the owner of the kems check does to its own record.                      *)
LEMMA ScanStep ==
    ASSUME OwnerShape(owner), NEW r \in Processes, KemsScan(r)
    PROVE  \/ /\ owner'[r].at = "scanned"
              /\ Standing \subseteq DOMAIN owner'[r].hashes /\ DOMAIN owner'[r].hashes \subseteq Scopes
           \/ owner'[r].at = "ended" /\ owner'[r].out = PathRefused
<1>1. CASE owner' = Prints(r, "ended", PathRefused)
  BY <1>1, ReportStep
<1>2. ASSUME NEW hashes, DOMAIN hashes = Looked,
             owner' = [owner EXCEPT ![r].at = "scanned", ![r].hashes = hashes]
      PROVE  /\ owner'[r].at = "scanned"
             /\ Standing \subseteq DOMAIN owner'[r].hashes /\ DOMAIN owner'[r].hashes \subseteq Scopes
  <2>1. PICK f : f = [owner EXCEPT ![r].at = "scanned"]
    OBVIOUS
  <2>2. OwnerShape(f) /\ f[r].at = "scanned"
    BY <2>1 DEF OwnerShape, OwnerRecord
  <2>3. owner' = [f EXCEPT ![r].hashes = hashes]
    BY <1>2, <2>1 DEF OwnerShape
  <2>4. owner'[r].at = "scanned" /\ owner'[r].hashes = hashes
    BY <2>2, <2>3 DEF OwnerShape, OwnerRecord
  <2>5. Standing \subseteq Looked /\ Looked \subseteq Scopes
    BY DEF Standing, Looked
  <2>. QED
    BY <1>2, <2>4, <2>5
<1>3. CASE \E hashes : /\ DOMAIN hashes = Looked
                       /\ owner' = [owner EXCEPT ![r].at = "scanned", ![r].hashes = hashes]
  BY <1>2, <1>3
<1>. QED
  BY <1>1, <1>3 DEF KemsScan

LEMMA LoadStep ==
    ASSUME OwnerShape(owner), NEW r \in Processes, KemsLoad(r)
    PROVE  /\ owner'[r].at = "compared" /\ owner'[r].hashes = owner[r].hashes
           /\ owner'[r].out = Compare(owner[r].hashes)
  BY ReportStep DEF KemsLoad

LEMMA WritingStep ==
    ASSUME OwnerShape(owner), NEW r \in Processes, KemsTruncate(r) \/ KemsStore(r)
    PROVE  \/ owner'[r].at \in {"truncated", "ended"} /\ owner'[r].out = owner[r].out
             /\ owner'[r].hashes = owner[r].hashes
           \/ owner'[r].at = "ended" /\ owner'[r].out = PathRefused
<1>1. CASE owner' = Prints(r, "ended", PathRefused)
  BY <1>1, ReportStep
<1>2. CASE \E stage \in {"truncated", "ended"} : owner' = [owner EXCEPT ![r].at = stage]
  BY <1>2 DEF OwnerShape, OwnerRecord
<1>. QED
  BY <1>1, <1>2 DEF KemsTruncate, KemsStore

(* The comparison names what has changed; what has not was in the baseline.        *)
LEMMA CompareNames ==
    ASSUME KemsInv, NEW hashes, Standing \subseteq DOMAIN hashes,
           NEW o, o.hashes = hashes, o.out = Compare(hashes)
    PROVE  o.out.payload.status \in {"ok", "changed"} /\ Accounted(hashes, Claimed(o))
<1>. DEFINE changed == {s \in DOMAIN hashes \cap DOMAIN baseline.hashes :
                          baseline.hashes[s] # hashes[s] /\ hashes[s] # Absent}
<1>1. CASE baseline.at # "kept"
  <2>1. /\ o.out.payload.status = "ok"
        /\ o.out.payload.baseline = "initialized"
    BY <1>1 DEF Compare, Report
  <2>. QED
    BY <2>1 DEF Claimed, ReadNone, Accounted
<1>2. CASE baseline.at = "kept"
  <2>1. /\ o.out.payload.status \in {"ok", "changed"}
        /\ o.out.payload.baseline = "existing"
        /\ o.out.payload.changed = changed
    BY <1>2 DEF Compare, Report
  <2>2. ASSUME NEW s \in Standing, hashes[s] # Absent
        PROVE  <<s, hashes[s]>> \in Claimed(o) \/ Covered(<<s, hashes[s]>>)
    <3>1. s \in DOMAIN hashes /\ s \in DOMAIN baseline.hashes
      BY <1>2 DEF KemsInv, Accounted
    <3>2. CASE baseline.hashes[s] # hashes[s]
      <4>1. s \in changed
        BY <2>2, <3>1, <3>2
      <4>. QED
        BY <2>1, <4>1 DEF Claimed, Named
    <3>3. CASE baseline.hashes[s] = hashes[s]
      BY <1>2, <2>2, <3>3 DEF KemsInv, Accounted
    <3>. QED
      BY <3>2, <3>3
  <2>. QED
    BY <2>1, <2>2 DEF Accounted
<1>. QED
  BY <1>1, <1>2

(* A check stays sound: when its owner stays as it is, and at each step of it.     *)
LEMMA IdleCheckIsSound ==
    ASSUME DocumentsInv, NEW r \in Processes, Step(r), NEW q \in Processes, CheckIsSound(q),
           owner'[q] = owner[q], run'[q].job = run[q].job \/ owner[q].at = "none"
    PROVE  CheckIsSound(q)'
<1>1. PICK h, n : h = owner[q].hashes /\ n = Claimed(owner[q])
  OBVIOUS
<1>2. h = owner'[q].hashes /\ n = Claimed(owner'[q])
  BY <1>1
<1>3. Accounted(h, n) => Accounted(h, n)'
  BY AccountedStays
<1>4. Accounted(owner[q].hashes, Claimed(owner[q])) => Accounted(owner[q].hashes, Claimed(owner[q]))'
  BY <1>1, <1>2, <1>3 DEF Accounted
<1>. QED
  BY <1>4 DEF CheckIsSound

LEMMA OwnCheckIsSound ==
    ASSUME DocumentsInv, KemsInv, NEW r \in Processes, Step(r)
    PROVE  CheckIsSound(r)'
<1>0. RunShape(run) /\ OwnerShape(owner) /\ CheckIsSound(r) /\ Progress(r)
  BY DEF DocumentsInv, Shape, KemsInv
<1>1. CASE Launch(r)
  <2>1. owner'[r].at \in {owner[r].at, "started"} /\ owner[r].at = "none"
    BY <1>0, <1>1 DEF Launch, OwnerShape, OwnerRecord, Progress
  <2>. QED
    BY <2>1 DEF CheckIsSound
<1>2. CASE Answer(r)
  <2>1. owner'[r].at = "ended" /\ run'[r].job # "kems-check"
    BY <1>0, <1>2, ReportStep DEF Answer
  <2>. QED
    BY <2>1 DEF CheckIsSound
<1>3. CASE KemsScan(r)
  <2>1. run'[r].job = "kems-check"
    BY <1>3 DEF KemsScan
  <2>. QED
    BY <1>0, <1>3, <2>1, ScanStep DEF CheckIsSound, PathRefused, Failed, Report
<1>4. CASE KemsLoad(r)
  <2>1. PICK h, o : h = owner[r].hashes /\ o = owner'[r]
    OBVIOUS
  <2>2. o.at = "compared" /\ o.hashes = h /\ o.out = Compare(h)
    BY <1>0, <1>4, <2>1, LoadStep
  <2>3. run'[r].job = "kems-check" /\ Standing \subseteq DOMAIN h
    BY <1>0, <1>4, <2>1 DEF KemsLoad, CheckIsSound
  <2>4. o.out.payload.status \in {"ok", "changed"} /\ Accounted(h, Claimed(o))
    BY <2>2, <2>3, CompareNames
  <2>5. Accounted(h, Claimed(o))'
    BY <2>4, AccountedStays
  <2>6. Accounted(owner[r].hashes, Claimed(owner[r]))'
    BY <2>1, <2>2, <2>5 DEF Accounted
  <2>. QED
    BY <2>1, <2>2, <2>3, <2>4, <2>6 DEF CheckIsSound
<1>5. CASE KemsTruncate(r) \/ KemsStore(r)
  <2>1. run'[r].job = run[r].job /\ owner[r].at \in {"compared", "truncated"}
    BY <1>5 DEF KemsTruncate, KemsStore
  <2>2. CASE owner'[r].at = "ended" /\ owner'[r].out = PathRefused
    BY <2>2 DEF CheckIsSound, PathRefused, Failed, Report
  <2>3. CASE /\ owner'[r].at \in {"truncated", "ended"} /\ owner'[r].out = owner[r].out
             /\ owner'[r].hashes = owner[r].hashes
    <3>1. PICK h, n : h = owner[r].hashes /\ n = Claimed(owner[r])
      OBVIOUS
    <3>2. h = owner'[r].hashes /\ n = Claimed(owner'[r])
      BY <2>3, <3>1 DEF Claimed, Named, ReadNone
    <3>3. Accounted(h, n)
      BY <1>0, <2>1, <3>1 DEF CheckIsSound
    <3>4. Accounted(h, n)'
      BY <3>3, AccountedStays
    <3>5. Accounted(owner[r].hashes, Claimed(owner[r]))'
      BY <3>2, <3>4 DEF Accounted
    <3>. QED
      BY <1>0, <2>1, <2>3, <3>5 DEF CheckIsSound
  <2>. QED
    BY <1>0, <1>5, <2>2, <2>3, WritingStep
<1>6. CASE Timeout(r)
  <2>1. CASE owner' = Prints(r, "killed", Report(124, NoOutput))
    <3>1. owner'[r].at = "killed"
      BY <1>0, <2>1, ReportStep
    <3>. QED
      BY <3>1 DEF CheckIsSound
  <2>2. CASE UNCHANGED owner
    <3>1. run'[r].job = run[r].job
      BY <1>0, <1>6, RunIsLocal DEF Timeout
    <3>. QED
      BY <1>0, <2>2, <3>1, IdleCheckIsSound
  <2>. QED
    BY <1>6, <2>1, <2>2 DEF Timeout
<1>7. CASE UNCHANGED owner
  <2>1. run'[r].job = run[r].job \/ owner[r].at = "none"
    BY <1>0, RunIsLocal DEF Progress
  <2>. QED
    BY <1>0, <1>7, <2>1, IdleCheckIsSound
<1>. QED
  BY <1>1, <1>2, <1>3, <1>4, <1>5, <1>6, <1>7
     DEF Step, Invoke, PrepareLayout, Collect, Project, PersistFails, WriteTemporary, Publish,
         Return, KillRun

(* The baseline a check stores is accounted for.                                 *)
LEMMA BaselineStaysAccounted ==
    ASSUME DocumentsInv, KemsInv, NEW r \in Processes, Step(r), baseline'.at = "kept"
    PROVE  Accounted(baseline.hashes, {})'
<1>0. RunShape(run) /\ OwnerShape(owner) /\ CheckIsSound(r)
  BY DEF DocumentsInv, Shape, KemsInv
<1>1. CASE UNCHANGED baseline
  <2>1. PICK h : h = baseline.hashes
    OBVIOUS
  <2>2. Accounted(h, {})
    BY <1>1, <2>1 DEF KemsInv
  <2>3. Accounted(h, {})'
    BY <2>2, AccountedStays
  <2>. QED
    BY <1>1, <2>1, <2>3 DEF Accounted
<1>2. CASE KemsTruncate(r) /\ baseline' # baseline
  BY <1>2 DEF KemsTruncate
<1>3. CASE KemsStore(r) /\ baseline' # baseline
  <2>1. /\ owner[r].at = "truncated" /\ UNCHANGED run
        /\ baseline' = [at |-> "kept", hashes |-> owner[r].hashes]
        /\ owner' = [owner EXCEPT ![r].at = "ended"]
        /\ lost' = IF Alive(r) THEN lost ELSE lost \cup Fingerprints(r)
        /\ adopted' = IF ReadNone(owner[r]) THEN adopted \cup Fingerprints(r) ELSE adopted
    BY <1>3 DEF KemsStore
  <2>2. /\ owner'[r].at = "ended" /\ owner'[r].out = owner[r].out
        /\ owner'[r].hashes = owner[r].hashes
    BY <1>0, <2>1 DEF OwnerShape, OwnerRecord
  <2>3. PICK h, n, m : h = owner[r].hashes /\ n = Claimed(owner[r]) /\ m = Named(owner[r])
    OBVIOUS
  <2>4. m = Named(owner'[r])
    BY <2>2, <2>3 DEF Named
  <2>5. /\ Accounted(h, n) /\ run[r].job = "kems-check"
        /\ owner[r].out.payload.status \in {"ok", "changed"}
    BY <1>0, <2>1, <2>3 DEF CheckIsSound
  <2>6. Accounted(h, n)'
    BY <2>5, AccountedStays
  <2>7. ASSUME NEW s \in Standing, <<s, h[s]>> \in n
        PROVE  Covered(<<s, h[s]>>)'
    <3>1. <<s, h[s]>> \in Fingerprints(r)
      BY <2>3, <2>5 DEF Fingerprints, Accounted
    <3>2. CASE ~Alive(r) \/ ReadNone(owner[r])
      BY <2>1, <3>1, <3>2 DEF Covered
    <3>3. CASE Alive(r) /\ ~ReadNone(owner[r])
      <4>0. <<s, h[s]>> \in m
        BY <2>3, <2>7, <3>3 DEF Claimed
      <4>1. Alive(r)'
        BY <2>1, <3>3 DEF Alive
      <4>2. Fingerprints(r)' = Fingerprints(r)
        BY <2>2 DEF Fingerprints
      <4>3. <<s, h[s]>> \in Stored(r)'
        BY <2>1, <2>2, <2>5, <3>1, <4>2 DEF Stored
      <4>. QED
        BY <2>4, <4>0, <4>1, <4>3 DEF Covered
    <3>. QED
      BY <3>2, <3>3
  <2>8. baseline'.hashes = h
    BY <2>1, <2>3
  <2>. QED
    BY <2>6, <2>7, <2>8 DEF Accounted
<1>. QED
  BY <1>1, <1>2, <1>3
     DEF Step, Invoke, PrepareLayout, Launch, Answer, KemsScan, KemsLoad, Collect, Timeout, Project,
         PersistFails, WriteTemporary, Publish, Return, Heard, KillRun, kemsVars

(* Every fingerprint in the baseline, or about to be stored in it, is accounted for. *)
THEOREM KemsInvHolds == DocumentsSpec => []KemsInv
<1>1. DocumentsInit => KemsInv
  BY DEF DocumentsInit, NoBaseline, NoOwner, NoRun, KemsInv, CheckIsSound
<1>2. DocumentsInv /\ KemsInv /\ [DocumentsNext]_documentsVars => KemsInv'
  <2>. SUFFICES ASSUME DocumentsInv, KemsInv, [DocumentsNext]_documentsVars PROVE KemsInv'
    OBVIOUS
  <2>1. CASE \E r \in Processes : Step(r)
    <3>. PICK r \in Processes : Step(r)
      BY <2>1
    <3>1. ASSUME NEW q \in Processes PROVE CheckIsSound(q)'
      <4>1. CASE q = r
        BY <4>1, OwnCheckIsSound
      <4>2. CASE q # r
        <5>1. run'[q] = run[q] /\ owner'[q] = owner[q]
          BY <4>2, RunIsLocal, OwnerIsLocal DEF DocumentsInv, Shape
        <5>2. CheckIsSound(q)
          BY DEF KemsInv
        <5>. QED
          BY <5>1, <5>2, IdleCheckIsSound
      <4>. QED
        BY <4>1, <4>2
    <3>. QED
      BY <3>1, BaselineStaysAccounted DEF KemsInv
  <2>2. CASE UNCHANGED <<run, owner, baseline, told, lost, adopted>>
    BY <2>2 DEF KemsInv, CheckIsSound, Accounted, Covered, Alive, Stored, Fingerprints
  <2>. QED
    BY <2>1, <2>2, OthersStandBy DEF documentsVars, jobVars, kemsVars
<1>. QED
  BY <1>1, <1>2, DocumentsInvHolds, PTL DEF DocumentsSpec

(* Whatever the baseline holds was named to a caller, is about to be, was stored by a    *)
(* check nobody heard of, or by one that read no baseline and answered "initialized":     *)
(* no other overlap of checks swallows a change (check_kems).                         *)
THEOREM NoChangeIsSwallowed == DocumentsSpec => []ChangesAreTold
<1>1. KemsInv => ChangesAreTold
  BY DEF KemsInv, Accounted, Covered, ChangesAreTold
<1>. QED
  BY <1>1, KemsInvHolds, PTL

-------------------------------------------------------------------------------
(* Lemmas about numbers, sums and lists.                                         *)

(* A nonempty set of numbers has a least one.                                   *)
LEMMA LeastIsThere ==
    ASSUME NEW X \in SUBSET Nat, X # {}
    PROVE  \E n \in X : \A m \in X : n <= m
<1>1. PICK n \in X : \A m \in X : ~(<<m, n>> \in OpToRel(<, Nat))
  BY NatLessThanWellFounded, WFMin
<1>2. \A m \in X : ~(m < n)
  BY <1>1 DEF OpToRel
<1>. QED
  BY <1>2

(* Of the subsets of a finite set with some property one contains no other.         *)
LEMMA SmallestIsThere ==
    ASSUME NEW S, IsFiniteSet(S), NEW F \in SUBSET (SUBSET S), F # {}
    PROVE  \E T \in F : \A U \in F : U \subseteq T => U = T
<1>1. IsWellFoundedOn(StrictSubsetOrdering(S), SUBSET S)
  BY FS_StrictSubsetOrderingWellFounded, FS_FiniteSubsetsOfFinite
<1>2. PICK T \in F : \A U \in F : ~(<<U, T>> \in StrictSubsetOrdering(S))
  BY <1>1, WFMin
<1>3. ASSUME NEW U \in F, U \subseteq T, U # T PROVE FALSE
  BY <1>2, <1>3 DEF StrictSubsetOrdering
<1>. QED
  BY <1>3

(* The values of a function on a finite set are finitely many.                     *)
LEMMA ValuesAreFinite ==
    ASSUME NEW f, f = [x \in DOMAIN f |-> f[x]], IsFiniteSet(DOMAIN f)
    PROVE  IsFiniteSet(Range(f))
<1>1. f \in Surjection(DOMAIN f, Range(f))
  BY DEF Surjection, Range
<1>. QED
  BY <1>1, FS_Surjection

(* A finite nonempty set of numbers has a greatest one.                            *)
LEMMA GreatestIsThere ==
    ASSUME NEW X, IsFiniteSet(X), X # {}, \A x \in X : x \in Nat
    PROVE  Max(X) \in X /\ \A m \in X : m <= Max(X)
<1>1. \E n \in X : \A m \in X : m <= n
  <2>. DEFINE F == {T \in SUBSET X : T # {} /\ ~\E n \in T : \A m \in T : m <= n}
  <2>. SUFFICES ASSUME F # {} PROVE FALSE
    OBVIOUS
  <2>0. F \in SUBSET (SUBSET X)
    OBVIOUS
  <2>1. PICK T \in F : \A U \in F : U \subseteq T => U = T
    <3>. HIDE DEF F
    <3>. QED
      BY <2>0, SmallestIsThere
  <2>2. PICK x \in T : TRUE
    BY <2>1
  <2>3. CASE T = {x}
    BY <2>1, <2>3
  <2>4. CASE T # {x}
    <3>1. T \ {x} \in SUBSET X /\ T \ {x} # {} /\ T \ {x} \notin F
      BY <2>1, <2>2, <2>4
    <3>2. PICK n \in T \ {x} : \A m \in T \ {x} : m <= n
      BY <3>1
    <3>3. n \in Nat /\ x \in Nat /\ \A m \in T : m \in Nat
      BY <2>1, <2>2, <3>2
    <3>4. \A m \in T : m <= (IF x <= n THEN n ELSE x)
      BY <3>2, <3>3
    <3>5. (IF x <= n THEN n ELSE x) \in T
      BY <2>2, <3>2
    <3>. QED
      BY <2>1, <3>4, <3>5
  <2>. QED
    BY <2>3, <2>4
<1>. QED
  BY <1>1 DEF Max

(* The sum of a function is found by taking its values away one at a time.           *)
LEMMA SumIsUnique ==
    ASSUME NEW f, IsFiniteSet(DOMAIN f), NEW g,
           g = [T \in SUBSET DOMAIN f |-> g[T]],
           g[{}] = 0,
           \A T \in SUBSET DOMAIN f : \A k \in T : g[T] = f[k] + g[T \ {k}]
    PROVE  SumFunction(f) = g[DOMAIN f]
<1>. DEFINE S == DOMAIN f
            Rest(h) == [T \in SUBSET S |->
                          IF T = {} THEN 0
                          ELSE f[CHOOSE x \in T : TRUE] + h[T \ {CHOOSE x \in T : TRUE}]]
<1>1. g = Rest(g)
  <2>1. ASSUME NEW T \in SUBSET S PROVE g[T] = Rest(g)[T]
    BY <2>1
  <2>. QED
    BY <2>1
<1>2. ASSUME NEW h, h = Rest(h) PROVE h[S] = g[S]
  <2>. DEFINE F == {T \in SUBSET S : h[T] # g[T]}
  <2>. SUFFICES ASSUME F # {} PROVE FALSE
    OBVIOUS
  <2>0. F \in SUBSET (SUBSET S)
    OBVIOUS
  <2>1. PICK T \in F : \A U \in F : U \subseteq T => U = T
    <3>. HIDE DEF F
    <3>. QED
      BY <2>0, SmallestIsThere
  <2>2. T # {}
    BY <1>2, <2>1
  <2>3. PICK x \in T : x = CHOOSE y \in T : TRUE
    BY <2>2
  <2>4. h[T] = f[x] + h[T \ {x}] /\ g[T] = f[x] + g[T \ {x}]
    BY <1>1, <1>2, <2>1, <2>2, <2>3
  <2>5. h[T \ {x}] = g[T \ {x}]
    <3>1. T \ {x} \in SUBSET S /\ T \ {x} # T
      BY <2>1, <2>3
    <3>2. T \ {x} \notin F
      BY <2>1, <3>1, Zenon
    <3>. QED
      BY <3>1, <3>2
  <2>. QED
    BY <2>1, <2>4, <2>5
<1>3. SumFunction(f) = (CHOOSE h : h = Rest(h))[S]
  BY DEF SumFunction, SumFunctionOnSet, FoldFunctionOnSet, MapThenFoldSet
<1>. QED
  BY <1>1, <1>2, <1>3

(* The numbers of elements with each value add up to the number of all elements.      *)
LEMMA PartsAddUp ==
    ASSUME NEW D, IsFiniteSet(D), NEW K, IsFiniteSet(K), NEW kind, \A x \in D : kind[x] \in K,
           NEW f, f = [k \in K |-> Cardinality({x \in D : kind[x] = k})]
    PROVE  SumFunction(f) = Cardinality(D)
<1>. DEFINE Of(T) == {x \in D : kind[x] \in T}
<1>1. PICK g : g = [T \in SUBSET K |-> Cardinality(Of(T))]
  OBVIOUS
<1>2. g[{}] = 0
  <2>1. Of({}) = {}
    OBVIOUS
  <2>. QED
    BY <1>1, <2>1, FS_EmptySet
<1>3. ASSUME NEW T \in SUBSET K, NEW k \in T
      PROVE  g[T] = f[k] + g[T \ {k}]
  <2>1. PICK A, B, C : A = {x \in D : kind[x] = k} /\ B = Of(T \ {k}) /\ C = Of(T)
    OBVIOUS
  <2>2. A \cup B = C /\ A \cap B = {} /\ A \subseteq D /\ B \subseteq D
    BY <1>3, <2>1
  <2>3. IsFiniteSet(A) /\ IsFiniteSet(B)
    BY <2>2, FS_Subset
  <2>4. Cardinality(A \cup B) = Cardinality(A) + Cardinality(B) - Cardinality(A \cap B)
    BY <2>3, FS_Union
  <2>5. Cardinality(A) \in Nat /\ Cardinality(B) \in Nat
    BY <2>3, FS_CardinalityType
  <2>6. Cardinality(C) = Cardinality(A) + Cardinality(B)
    <3>1. Cardinality(A \cap B) = 0
      BY <2>2, FS_EmptySet
    <3>2. Cardinality(C) = Cardinality(A) + Cardinality(B) - 0
      BY <2>2, <2>4, <3>1
    <3>. QED
      BY <2>5, <3>2
  <2>7. g[T] = Cardinality(C) /\ g[T \ {k}] = Cardinality(B) /\ f[k] = Cardinality(A)
    BY <1>1, <1>3, <2>1
  <2>. QED
    BY <2>6, <2>7
<1>4. DOMAIN f = K /\ g = [T \in SUBSET DOMAIN f |-> g[T]]
  BY <1>1
<1>5. SumFunction(f) = g[DOMAIN f]
  <2>1. IsFiniteSet(DOMAIN f)
    BY <1>4
  <2>2. \A T \in SUBSET DOMAIN f : \A k \in T : g[T] = f[k] + g[T \ {k}]
    BY <1>3, <1>4
  <2>3. PICK e : e = f
    OBVIOUS
  <2>4. /\ IsFiniteSet(DOMAIN e)
        /\ g = [T \in SUBSET DOMAIN e |-> g[T]]
        /\ \A T \in SUBSET DOMAIN e : \A k \in T : g[T] = e[k] + g[T \ {k}]
    BY <1>4, <2>1, <2>2, <2>3
  <2>5. SumFunction(e) = g[DOMAIN e]
    BY <1>2, <2>4, SumIsUnique
  <2>. QED
    BY <2>3, <2>5
<1>6. Of(K) = D
  OBVIOUS
<1>. QED
  BY <1>1, <1>4, <1>5, <1>6

(* The indices of a list are finitely many.                                      *)
LEMMA IndicesOfList ==
    ASSUME NEW s, IsList(s)
    PROVE  /\ Len(s) \in Nat /\ DOMAIN s = 1 .. Len(s)
           /\ IsFiniteSet(DOMAIN s) /\ Cardinality(DOMAIN s) = Len(s)
<1>1. Len(s) \in Nat /\ DOMAIN s = 1 .. Len(s)
  BY LenProperties DEF IsList
<1>2. PICK n : n = Len(s)
  OBVIOUS
<1>3. IsFiniteSet(1 .. n) /\ Cardinality(1 .. n) = (IF n < 1 THEN 0 ELSE n - 1 + 1)
  <2>1. 1 \in Int /\ n \in Int /\ n \in Nat
    BY <1>1, <1>2
  <2>2. IsFiniteSet(1 .. n)
    BY <2>1, FS_Interval
  <2>3. Cardinality(1 .. n) = (IF 1 > n THEN 0 ELSE n - 1 + 1)
    BY <2>1, FS_Interval, Zenon
  <2>. QED
    BY <2>1, <2>2, <2>3
<1>4. IsFiniteSet(DOMAIN s) /\ Cardinality(DOMAIN s) = n
  <2>1. n \in Nat /\ (IF n < 1 THEN 0 ELSE n - 1 + 1) = n
    BY <1>1, <1>2
  <2>. QED
    BY <1>1, <1>2, <1>3, <2>1
<1>. QED
  BY <1>1, <1>2, <1>4

(* So are those that some condition selects.                                     *)
LEMMA CountIsNumber ==
    ASSUME NEW S, IsFiniteSet(S), NEW T \in SUBSET S
    PROVE  IsFiniteSet(T) /\ Cardinality(T) \in Nat /\ Cardinality(T) <= Cardinality(S)
  BY FS_Subset, FS_CardinalityType

-------------------------------------------------------------------------------
(* What each owner reports is what its projection accepts, by numbers, dates and words.  *)

(* The sum of nothing is 0.                                                        *)
LEMMA NothingAddsUp == SumFunction(<<>>) = 0
<1>1. PICK g : g = [T \in SUBSET DOMAIN <<>> |-> 0]
  OBVIOUS
<1>2. DOMAIN <<>> = {}
  OBVIOUS
<1>3. PICK e : e = <<>>
  OBVIOUS
<1>4. /\ IsFiniteSet(DOMAIN e) /\ g = [T \in SUBSET DOMAIN e |-> g[T]]
      /\ g[{}] = 0 /\ g[DOMAIN e] = 0
      /\ \A T \in SUBSET DOMAIN e : \A k \in T : g[T] = e[k] + g[T \ {k}]
  <2>1. IsFiniteSet(DOMAIN e)
    BY <1>2, <1>3, FS_EmptySet
  <2>. QED
    BY <1>1, <1>2, <1>3, <2>1
<1>5. SumFunction(e) = g[DOMAIN e]
  BY <1>4, SumIsUnique
<1>. QED
  BY <1>3, <1>4, <1>5

(* So are the numbers of elements with each value of a function.                     *)
LEMMA KindsAddUp ==
    ASSUME NEW kind, kind = [x \in DOMAIN kind |-> kind[x]], IsFiniteSet(DOMAIN kind)
    PROVE  SumFunction(Parts(kind)) = Cardinality(DOMAIN kind)
<1>1. PICK D, K, f : D = DOMAIN kind /\ K = Range(kind) /\ f = Parts(kind)
  OBVIOUS
<1>2. IsFiniteSet(D) /\ IsFiniteSet(K)
  BY <1>1, ValuesAreFinite
<1>3. \A x \in D : kind[x] \in K
  BY <1>1 DEF Range
<1>4. f = [k \in K |-> Cardinality({x \in D : kind[x] = k})]
  BY <1>1 DEF Parts
<1>5. SumFunction(f) = Cardinality(D)
  BY <1>2, <1>3, <1>4, PartsAddUp
<1>. QED
  BY <1>1, <1>5

(* An age is a number.                                                             *)
LEMMA AgeIsNumber == ASSUME NEW day, IsDate(day) PROVE Age(day) \in Nat
  BY TodayAssumption DEF Age, IsDate

(* A report has one exit code and one object.                                      *)
LEMMA OneObject ==
    ASSUME NEW x, NEW p, NEW y, NEW q, NEW out, out = Report(x, p), out = Report(y, q)
    PROVE  p = q
<1>1. Report(x, p).payload = p /\ Report(y, q).payload = q
  BY DEF Report
<1>. QED
  BY <1>1, Zenon

(* What the audit of the facts reports is what AcceptsFacts asks.                   *)
LEMMA FactsAreBelieved ==
    ASSUME NEW d, FactsContent(d),
           NEW x, NEW p, AuditFacts(d) = Report(x, p), p.status \notin {"no output", "failed"}
    PROVE  AcceptsFacts(p)
<1>. DEFINE loaded  == {i \in DOMAIN d.files : d.files[i].at = "list"}
            entries == UNION {{i} \X DOMAIN d.files[i].facts : i \in loaded}
            fact    == [e \in entries |-> d.files[e[1]].facts[e[2]]]
            facts   == {e \in entries : fact[e].at = "mapping"}
            total   == Cardinality(facts)
            kind    == [e \in facts |-> fact[e].type]
            sound   == /\ loaded = DOMAIN d.files /\ facts = entries
                       /\ \A e \in facts : FactIsValid(fact[e])
                       /\ Cardinality({fact[e].fid : e \in facts}) = total
                       /\ IndexAgrees(d.index, total)
<1>1. IsFiniteSet(loaded)
  <2>1. IsFiniteSet(DOMAIN d.files)
    BY IndicesOfList DEF FactsContent
  <2>. QED
    BY <2>1, CountIsNumber
<1>2. ASSUME NEW i \in loaded PROVE IsFiniteSet({i} \X DOMAIN d.files[i].facts)
  <2>1. IsList(d.files[i].facts)
    BY DEF FactsContent
  <2>2. IsFiniteSet(DOMAIN d.files[i].facts)
    BY <2>1, IndicesOfList
  <2>3. IsFiniteSet({i})
    BY FS_Singleton
  <2>. QED
    BY <2>2, <2>3, FS_Product
<1>3. IsFiniteSet(entries)
  <2>1. PICK f : f = [i \in loaded |-> {i} \X DOMAIN d.files[i].facts]
    OBVIOUS
  <2>2. f = [z \in DOMAIN f |-> f[z]] /\ IsFiniteSet(DOMAIN f)
    BY <1>1, <2>1
  <2>3. IsFiniteSet(Range(f))
    BY <2>2, ValuesAreFinite
  <2>4. \A T \in Range(f) : IsFiniteSet(T)
    BY <1>2, <2>1 DEF Range
  <2>5. Range(f) = {{i} \X DOMAIN d.files[i].facts : i \in loaded}
    BY <2>1 DEF Range
  <2>6. IsFiniteSet(UNION Range(f))
    BY <2>3, <2>4, FS_UNION
  <2>. QED
    BY <2>5, <2>6
<1>4. IsFiniteSet(facts) /\ total \in Nat
  <2>1. facts \in SUBSET entries
    OBVIOUS
  <2>. HIDE DEF facts, entries
  <2>. QED
    BY <1>3, <2>1, CountIsNumber
<1>5. SumFunction(Parts(kind)) = total
  <2>1. PICK c : c = kind
    OBVIOUS
  <2>2. DOMAIN c = facts /\ c = [z \in DOMAIN c |-> c[z]]
    BY <2>1
  <2>. HIDE DEF facts, kind
  <2>3. SumFunction(Parts(c)) = Cardinality(DOMAIN c)
    BY <1>4, <2>2, KindsAddUp
  <2>. QED
    BY <2>1, <2>2, <2>3
<1>6. PICK n, b, k, ok : n = total /\ b = Parts(kind) /\ ok = sound
                     /\ k = (\E e \in facts : ~fact[e].hashable)
  OBVIOUS
<1>7. AuditFacts(d) =
        IF d.dir # "listed" \/ \A i \in DOMAIN d.files : d.files[i].at = "irregular"
          THEN Report(1, [status |-> "invalid", facts_total |-> 0, by_type |-> <<>>])
        ELSE IF k THEN Crash
        ELSE Report(IF ok THEN 0 ELSE 1,
                   [status |-> IF ok THEN "ok" ELSE "invalid", facts_total |-> n, by_type |-> b])
  BY <1>6 DEF AuditFacts
<1>8. n \in Nat /\ SumFunction(b) = n
  BY <1>4, <1>5, <1>6
<1>. HIDE DEF loaded, entries, fact, facts, total, kind, sound
<1>9. PICK s, code : /\ s \in {"ok", "invalid"} /\ s = (IF ok THEN "ok" ELSE "invalid")
                     /\ code = (IF ok THEN 0 ELSE 1)
  OBVIOUS
<1>10. PICK q1, q2 : /\ q1 = [status |-> "invalid", facts_total |-> 0, by_type |-> <<>>]
                     /\ q2 = [status |-> s, facts_total |-> n, by_type |-> b]
  OBVIOUS
<1>11. AuditFacts(d) = Report(1, q1) \/ AuditFacts(d) = Crash \/ AuditFacts(d) = Report(code, q2)
  BY <1>7, <1>9, <1>10, Zenon
<1>12. CASE AuditFacts(d) = Report(1, q1)
  <2>1. p = q1
    BY <1>12, OneObject, Zenon
  <2>2. p.status = "invalid" /\ p.facts_total = 0 /\ p.by_type = <<>>
    BY <1>10, <2>1, Zenon
  <2>. QED
    BY <2>2, NothingAddsUp DEF AcceptsFacts
<1>13. CASE AuditFacts(d) = Crash
  <2>1. p = NoOutput
    BY <1>13, OneObject, Zenon DEF Crash
  <2>. QED
    BY <2>1 DEF NoOutput
<1>14. CASE AuditFacts(d) = Report(code, q2)
  <2>1. p = q2
    BY <1>14, OneObject, Zenon
  <2>2. p.status = s /\ p.facts_total = n /\ p.by_type = b
    BY <1>10, <2>1, Zenon
  <2>. QED
    BY <1>8, <1>9, <2>2 DEF AcceptsFacts
<1>. QED
  BY <1>11, <1>12, <1>13, <1>14

(* The view of the facts is one of five.                                           *)
LEMMA FactsViewIsKnown ==
    ASSUME NEW facts, facts.at \in {"missing", "invalid"} \/ (facts.at = "dated" /\ IsDate(facts.day))
    PROVE  FactsView(facts) \in {"current", "stale_30d", "stale_60d", "missing", "invalid"}
<1>1. CASE facts.at \in {"missing", "invalid"}
  BY <1>1 DEF FactsView
<1>2. CASE facts.at = "dated" /\ IsDate(facts.day)
  <2>1. PICK a : a = Age(facts.day) /\ a \in Nat
    BY <1>2, AgeIsNumber
  <2>2. FactsView(facts) = CASE a > 60        -> "stale_60d"
                             [] a \in 31 .. 60 -> "stale_30d"
                             [] a <= 30       -> "current"
    BY <1>2, <2>1 DEF FactsView
  <2>3. a > 60 \/ a \in 31 .. 60 \/ a <= 30
    BY <2>1
  <2>. QED
    BY <2>1, <2>2, <2>3
<1>. QED
  BY <1>1, <1>2

(* No signal at all is a count, too.                                              *)
LEMMA NoSignals == [red |-> 0, warning |-> 0, ok |-> 0] \in [Colour -> Nat]
  BY DEF Colour

(* What the audit of the control signals reports is what AcceptsControlHealth asks.   *)
LEMMA ControlHealthIsBelieved ==
    ASSUME NEW d, ControlContent(d),
           NEW x, NEW p, InspectControlHealth(d) = Report(x, p), p.status \notin {"no output", "failed"}
    PROVE  AcceptsControlHealth(p)
<1>1. FactsView(d.facts) \in {"current", "stale_30d", "stale_60d", "missing", "invalid"}
  BY FactsViewIsKnown DEF ControlContent
<1>2. PICK c, v, s, y :
        /\ c = (IF d.signals.at = "missing" THEN [red |-> 0, warning |-> 0, ok |-> 0]
                ELSE d.signals.counts)
        /\ v = FactsView(d.facts)
        /\ s = (IF d.signals.at = "missing" \/ v \in {"missing", "invalid"} THEN "invalid"
                ELSE IF c.red > 0 THEN "critical"
                ELSE IF c.warning >= 3 \/ v \in {"stale_30d", "stale_60d"} THEN "attention"
                ELSE "ok")
        /\ y = (IF s = "ok" THEN 0 ELSE 1)
  OBVIOUS
<1>3. InspectControlHealth(d) =
        IF ~d.domain THEN PathRefused
        ELSE Report(y, [status |-> s, facts_view_status |-> v, signal_counts |-> c])
  BY <1>2, Zenon DEF InspectControlHealth
<1>4. s \in {"ok", "attention", "critical", "invalid"}
  BY <1>2
<1>5. c \in [Colour -> Nat]
  BY <1>2, NoSignals, Zenon DEF ControlContent
<1>6. CASE ~d.domain
  <2>1. p = Failed
    BY <1>3, <1>6, OneObject, Zenon DEF PathRefused
  <2>. QED
    BY <2>1 DEF Failed
<1>7. CASE d.domain
  <2>1. PICK q : q = [status |-> s, facts_view_status |-> v, signal_counts |-> c]
    OBVIOUS
  <2>2. InspectControlHealth(d) = Report(y, q)
    BY <1>3, <1>7, <2>1, Zenon
  <2>3. p = q
    BY <2>2, OneObject, Zenon
  <2>4. p.status = s /\ p.facts_view_status = v /\ p.signal_counts = c
    BY <2>1, <2>3, Zenon
  <2>. QED
    BY <1>1, <1>2, <1>4, <1>5, <2>4, Zenon DEF AcceptsControlHealth
<1>. QED
  BY <1>6, <1>7

(* Five numbers make the record the projection expects.                            *)
LEMMA FreshnessIsCounted ==
    ASSUME NEW a \in Nat, NEW b \in Nat, NEW c \in Nat, NEW e \in Nat, NEW f \in Nat
    PROVE  [scanned |-> a, stale_30_60 |-> b, stale_60 |-> c, invalid |-> e, unreadable |-> f]
             \in [{"scanned", "stale_30_60", "stale_60", "invalid", "unreadable"} -> Nat]
  OBVIOUS

(* What the observation of the planes reports is what AcceptsShadow asks.           *)
LEMMA ShadowIsBelieved ==
    ASSUME NEW d, ShadowContent(d),
           NEW x, NEW p, InspectShadow(d) = Report(x, p), p.status \notin {"no output", "failed"}
    PROVE  AcceptsShadow(p)
<1>. DEFINE notes == d.files
            dated(low, high) == Cardinality({i \in DOMAIN notes :
                notes[i].at = "dated" /\ Age(notes[i].day) >= low /\ Age(notes[i].day) <= high})
            in(at) == Cardinality({i \in DOMAIN notes : notes[i].at = at})
<1>1. IsFiniteSet(DOMAIN notes)
  BY IndicesOfList DEF ShadowContent
<1>2. \A low, high : dated(low, high) \in Nat
  BY <1>1, CountIsNumber
<1>3. \A at : in(at) \in Nat
  BY <1>1, CountIsNumber
<1>4. PICK a, b, c, e, f : /\ a = in("dated") /\ b = dated(31, 60) /\ c = dated(61, Today)
                           /\ e = in("bad date") /\ f = in("unreadable")
  OBVIOUS
<1>5. InspectShadow(d) =
        IF ~d.planes THEN PathRefused
        ELSE Report(1, [status |-> "shadow_observed", replaced |-> FALSE, cutover |-> FALSE,
                       signal_counts |-> d.signals,
                       freshness |-> [scanned |-> a, stale_30_60 |-> b, stale_60 |-> c,
                                      invalid |-> e, unreadable |-> f]])
  BY <1>4 DEF InspectShadow
<1>6. {a, b, c, e, f} \subseteq Nat
  <2>1. a \in Nat /\ b \in Nat /\ c \in Nat
    <3>. HIDE DEF notes, dated, in
    <3>. QED
      BY <1>2, <1>3, <1>4, Zenon
  <2>2. e \in Nat /\ f \in Nat
    <3>. HIDE DEF notes, dated, in
    <3>. QED
      BY <1>3, <1>4, Zenon
  <2>. QED
    BY <2>1, <2>2
<1>. HIDE DEF notes, dated, in
<1>7. PICK f1, q :
        /\ f1 = [scanned |-> a, stale_30_60 |-> b, stale_60 |-> c, invalid |-> e, unreadable |-> f]
        /\ q = [status |-> "shadow_observed", replaced |-> FALSE, cutover |-> FALSE,
                signal_counts |-> d.signals, freshness |-> f1]
  OBVIOUS
<1>8. f1 \in [{"scanned", "stale_30_60", "stale_60", "invalid", "unreadable"} -> Nat]
  BY <1>6, <1>7, FreshnessIsCounted
<1>9. CASE d.planes
  <2>1. InspectShadow(d) = Report(1, q)
    BY <1>5, <1>7, <1>9, Zenon
  <2>2. p = q
    BY <2>1, OneObject, Zenon
  <2>3. /\ p.status = "shadow_observed" /\ p.replaced = FALSE /\ p.cutover = FALSE
        /\ p.signal_counts = d.signals /\ p.freshness = f1
    BY <1>7, <2>2, Zenon
  <2>. QED
    BY <1>8, <2>3, Zenon DEF AcceptsShadow, ShadowContent
<1>10. CASE ~d.planes
  <2>1. p = Failed
    BY <1>5, <1>10, OneObject, Zenon DEF PathRefused
  <2>. QED
    BY <2>1 DEF Failed
<1>. QED
  BY <1>9, <1>10

(* SelectInSeq finds the first model that is not "ok", if there is one.                *)
LEMMA FirstBadModel ==
    ASSUME NEW models, IsList(models), NEW bad, bad = SelectInSeq(models, LAMBDA m : m.at # "ok")
    PROVE  bad = 0 \/ (bad \in DOMAIN models /\ bad > 0 /\ models[bad].at # "ok")
<1>1. PICK I : I = {i \in 1 .. Len(models) : models[i].at # "ok"}
  OBVIOUS
<1>2. bad = (IF I # {} THEN Min(I) ELSE 0)
  BY <1>1 DEF SelectInSeq
<1>3. DOMAIN models = 1 .. Len(models) /\ Len(models) \in Nat
  BY IndicesOfList
<1>4. CASE I = {}
  BY <1>2, <1>4
<1>5. CASE I # {}
  <2>1. I \in SUBSET Nat /\ \A i \in I : i > 0
    BY <1>1, <1>3
  <2>2. \E n \in I : \A m \in I : n <= m
    BY <1>5, <2>1, LeastIsThere
  <2>3. Min(I) \in I
    BY <2>2 DEF Min
  <2>4. bad \in I
    BY <1>2, <1>5, <2>3
  <2>. QED
    BY <1>1, <1>3, <2>1, <2>4
<1>. QED
  BY <1>4, <1>5

(* An inspection that was given up is reported as AcceptsFreshness asks, when its        *)
(* counts fit its error.                                                            *)
LEMMA GivingUpIsBelieved ==
    ASSUME NEW error, NEW facts, NEW models \in Nat, NEW invalid \in {0, 1},
           NEW unreadable \in {0, 1}, OptionalDate(facts),
           NEW p, p.status = "unavailable", p.error = error, p.checked = Today, p.facts = facts,
           p.models = models, p.fresh = 0, p.stale = 0, p.invalid = invalid,
           p.unreadable = unreadable, UnavailableIsConsistent(p)
    PROVE  AcceptsFreshness(p)
  BY TodayAssumption DEF AcceptsFreshness, IsDate

(* What a report says that gives an inspection up.                                 *)
LEMMA NotObservedSays ==
    ASSUME NEW error, NEW facts, NEW models, NEW invalid, NEW unreadable,
           NEW x, NEW p, NotObserved(error, facts, models, invalid, unreadable) = Report(x, p)
    PROVE  /\ p.status = "unavailable" /\ p.error = error /\ p.checked = Today /\ p.facts = facts
           /\ p.models = models /\ p.fresh = 0 /\ p.stale = 0 /\ p.invalid = invalid
           /\ p.unreadable = unreadable
<1>1. PICK q : q = [status |-> "unavailable", error |-> error, checked |-> Today,
                    facts |-> facts, models |-> models, fresh |-> 0, stale |-> 0,
                    invalid |-> invalid, unreadable |-> unreadable]
  OBVIOUS
<1>2. NotObserved(error, facts, models, invalid, unreadable) = Report(2, q)
  BY <1>1, Zenon DEF NotObserved
<1>3. p = q
  BY <1>2, OneObject, Zenon
<1>. QED
  BY <1>1, <1>3, Zenon

(* The inspection that gave up before a model was read.                               *)
LEMMA EarlyEndIsBelieved ==
    ASSUME NEW error, NEW facts, OptionalDate(facts),
           \/ error \in PreFactsErrors /\ facts = NoDate
           \/ error \in DirectoryErrors /\ facts # NoDate,
           NEW x, NEW p, NotObserved(error, facts, 0, 0, 0) = Report(x, p)
    PROVE  AcceptsFreshness(p)
<1>1. /\ p.status = "unavailable" /\ p.error = error /\ p.checked = Today /\ p.facts = facts
      /\ p.models = 0 /\ p.fresh = 0 /\ p.stale = 0 /\ p.invalid = 0 /\ p.unreadable = 0
  <2>1. NotObserved(error, facts, 0, 0, 0) = Report(x, p)
    OBVIOUS
  <2>. QED
    BY <2>1, NotObservedSays
<1>2. UnavailableIsConsistent(p)
  BY <1>1, Zenon DEF UnavailableIsConsistent
<1>. QED
  BY <1>1, <1>2, GivingUpIsBelieved

(* What is reported of the models is what AcceptsFreshness asks.                       *)
LEMMA ModelsAreBelieved ==
    ASSUME NEW facts, IsDate(facts), NEW models, IsList(models), models # <<>>,
           \A i \in DOMAIN models :
             models[i].at \in {"ok", "file_not_regular", "file_unreadable"} \cup ReviewErrors,
           NEW x, NEW p, InspectModels(facts, models) = Report(x, p)
    PROVE  AcceptsFreshness(p)
<1>1. PICK bad, stale, count :
        /\ bad = SelectInSeq(models, LAMBDA m : m.at # "ok")
        /\ stale = Cardinality({i \in DOMAIN models : models[i].day < facts})
        /\ count = Len(models)
  OBVIOUS
<1>2. bad = 0 \/ (bad \in DOMAIN models /\ bad > 0 /\ models[bad].at # "ok")
  BY <1>1, FirstBadModel
<1>3. count \in Nat /\ count > 0 /\ stale \in Nat /\ stale <= count
  <2>1. /\ count \in Nat /\ IsFiniteSet(DOMAIN models) /\ Cardinality(DOMAIN models) = count
        /\ DOMAIN models = 1 .. count
    BY <1>1, IndicesOfList
  <2>2. count # 0
    BY <1>1, EmptySeq DEF IsList
  <2>3. {i \in DOMAIN models : models[i].day < facts} \in SUBSET DOMAIN models
    OBVIOUS
  <2>4. stale \in Nat /\ stale <= Cardinality(DOMAIN models)
    BY <1>1, <2>1, <2>3, CountIsNumber
  <2>. QED
    BY <2>1, <2>2, <2>4
<1>4. facts # NoDate /\ OptionalDate(facts)
  BY TodayAssumption DEF IsDate, OptionalDate
<1>5. CASE bad > 0
  <2>1. PICK at, inv, unr :
          /\ at = models[bad].at
          /\ inv = (IF at \in ReviewErrors THEN 1 ELSE 0)
          /\ unr = (IF at = "file_unreadable" THEN 1 ELSE 0)
    OBVIOUS
  <2>2. at \in {"file_not_regular", "file_unreadable"} \cup ReviewErrors
    BY <1>2, <1>5, <2>1
  <2>3. NotObserved(<<"model", at>>, facts, count, inv, unr) = Report(x, p)
    BY <1>1, <1>5, <2>1, Zenon DEF InspectModels
  <2>4. PICK error : error = <<"model", at>>
    OBVIOUS
  <2>5. /\ p.status = "unavailable" /\ p.error = error /\ p.checked = Today /\ p.facts = facts
        /\ p.models = count /\ p.fresh = 0 /\ p.stale = 0 /\ p.invalid = inv
        /\ p.unreadable = unr
    <3>1. NotObserved(error, facts, count, inv, unr) = Report(x, p)
      BY <2>3, <2>4
    <3>. QED
      BY <3>1, NotObservedSays
  <2>6. error \in ModelErrors
    BY <2>2, <2>4 DEF ModelErrors
  <2>7. unr = (IF error = <<"model", "file_unreadable">> THEN 1 ELSE 0)
    BY <2>1, <2>4
  <2>8. inv = (IF error \in {"model"} \X ReviewErrors THEN 1 ELSE 0)
    BY <2>1, <2>4
  <2>9. UnavailableIsConsistent(p)
    BY <1>3, <1>4, <2>5, <2>6, <2>7, <2>8, Zenon DEF UnavailableIsConsistent
  <2>10. inv \in {0, 1} /\ unr \in {0, 1}
    BY <2>1
  <2>. QED
    BY <1>3, <1>4, <2>5, <2>9, <2>10, GivingUpIsBelieved
<1>6. CASE ~(bad > 0)
  <2>1. PICK y, s, q :
          /\ y = (IF stale > 0 THEN 1 ELSE 0)
          /\ s = (IF stale > 0 THEN "attention" ELSE "ok")
          /\ q = [status |-> s, error |-> NoError, checked |-> Today, facts |-> facts,
                  models |-> count, fresh |-> count - stale, stale |-> stale, invalid |-> 0,
                  unreadable |-> 0]
    OBVIOUS
  <2>2. InspectModels(facts, models) = Report(y, q)
    BY <1>1, <1>6, <2>1, Zenon DEF InspectModels
  <2>3. p = q
    BY <2>2, OneObject, Zenon
  <2>4. /\ p.status = s /\ p.error = NoError /\ p.checked = Today /\ p.facts = facts
        /\ p.models = count /\ p.fresh = count - stale /\ p.stale = stale /\ p.invalid = 0
        /\ p.unreadable = 0
    BY <2>1, <2>3, Zenon
  <2>5. count - stale \in Nat /\ count - stale + stale = count
    BY <1>3
  <2>6. s \in {"ok", "attention"} /\ ((s = "ok") <=> (stale = 0))
    BY <1>3, <2>1
  <2>. QED
    BY <1>3, <1>4, <2>4, <2>5, <2>6, TodayAssumption DEF AcceptsFreshness, IsDate
<1>. QED
  BY <1>5, <1>6

(* What the inspection of the models reports is what AcceptsFreshness asks.            *)
LEMMA FreshnessIsBelieved ==
    ASSUME NEW d, FreshnessContent(d), NEW x, NEW p, InspectFreshness(d) = Report(x, p)
    PROVE  AcceptsFreshness(p)
<1>1. PICK dom, ent, fat, mdir, day :
        /\ dom = d.domain /\ ent = d.entities /\ fat = d.facts.at /\ mdir = d.modelsDir
        /\ day = d.facts.day
  OBVIOUS
<1>. DEFINE Early(error) == NotObserved(error, NoDate, 0, 0, 0)
<1>2. InspectFreshness(d) =
        IF dom # "ok" THEN Early(<<"domain", dom>>)
        ELSE IF ent # "ok" THEN Early(<<"entities_directory", ent>>)
        ELSE IF fat # "ok" THEN Early(<<"facts", fat>>)
        ELSE IF mdir # "ok" THEN NotObserved(<<"models_directory", mdir>>, day, 0, 0, 0)
        ELSE IF d.models = <<>> THEN NotObserved(<<"models_directory", "empty">>, day, 0, 0, 0)
        ELSE InspectModels(day, d.models)
  BY <1>1, Zenon DEF InspectFreshness
<1>3. OptionalDate(NoDate) /\ ~IsDate(NoDate)
  BY TodayAssumption DEF OptionalDate, IsDate
<1>4. CASE dom # "ok"
  <2>1. PICK e : e = <<"domain", dom>>
    OBVIOUS
  <2>2. e \in PreFactsErrors
    BY <1>1, <1>4, <2>1 DEF PreFactsErrors, FreshnessContent
  <2>3. NotObserved(e, NoDate, 0, 0, 0) = Report(x, p)
    BY <1>2, <1>4, <2>1, Zenon
  <2>. QED
    BY <1>3, <2>2, <2>3, EarlyEndIsBelieved, Zenon
<1>5. CASE dom = "ok" /\ ent # "ok"
  <2>1. PICK e : e = <<"entities_directory", ent>>
    OBVIOUS
  <2>2. e \in PreFactsErrors
    BY <1>1, <1>5, <2>1 DEF PreFactsErrors, FreshnessContent
  <2>3. NotObserved(e, NoDate, 0, 0, 0) = Report(x, p)
    BY <1>2, <1>5, <2>1, Zenon
  <2>. QED
    BY <1>3, <2>2, <2>3, EarlyEndIsBelieved, Zenon
<1>6. CASE dom = "ok" /\ ent = "ok" /\ fat # "ok"
  <2>1. PICK e : e = <<"facts", fat>>
    OBVIOUS
  <2>2. e \in PreFactsErrors
    BY <1>1, <1>6, <2>1 DEF PreFactsErrors, FreshnessContent
  <2>3. NotObserved(e, NoDate, 0, 0, 0) = Report(x, p)
    BY <1>2, <1>6, <2>1, Zenon
  <2>. QED
    BY <1>3, <2>2, <2>3, EarlyEndIsBelieved, Zenon
<1>7. CASE dom = "ok" /\ ent = "ok" /\ fat = "ok"
  <2>1. IsDate(day) /\ OptionalDate(day) /\ day # NoDate
    <3>1. IsDate(day)
      BY <1>1, <1>7 DEF FreshnessContent, ReviewErrors
    <3>. QED
      BY <1>3, <3>1 DEF OptionalDate
  <2>2. CASE mdir # "ok"
    <3>1. PICK e : e = <<"models_directory", mdir>>
      OBVIOUS
    <3>2. e \in DirectoryErrors
      BY <1>1, <2>2, <3>1 DEF DirectoryErrors, FreshnessContent
    <3>3. NotObserved(e, day, 0, 0, 0) = Report(x, p)
      BY <1>2, <1>7, <2>2, <3>1, Zenon
    <3>. QED
      BY <2>1, <3>2, <3>3, EarlyEndIsBelieved, Zenon
  <2>3. CASE mdir = "ok" /\ d.models = <<>>
    <3>1. PICK e : e = <<"models_directory", "empty">>
      OBVIOUS
    <3>2. e \in DirectoryErrors
      BY <3>1 DEF DirectoryErrors
    <3>3. NotObserved(e, day, 0, 0, 0) = Report(x, p)
      BY <1>2, <1>7, <2>3, <3>1, Zenon
    <3>. QED
      BY <2>1, <3>2, <3>3, EarlyEndIsBelieved, Zenon
  <2>4. CASE mdir = "ok" /\ d.models # <<>>
    <3>1. InspectModels(day, d.models) = Report(x, p)
      BY <1>2, <1>7, <2>4, Zenon
    <3>2. PICK models : models = d.models
      OBVIOUS
    <3>3. IsList(models) /\ \A i \in DOMAIN models :
            models[i].at \in {"ok", "file_not_regular", "file_unreadable"} \cup ReviewErrors
      BY <3>2, Zenon DEF FreshnessContent
    <3>. QED
      BY <2>1, <2>4, <3>1, <3>2, <3>3, ModelsAreBelieved, Zenon
  <2>. QED
    BY <2>2, <2>3, <2>4
<1>. QED
  BY <1>4, <1>5, <1>6, <1>7

(* Of a finite set of elements that bear dates one bears the latest.                   *)
LEMMA LatestIsADate ==
    ASSUME NEW S, IsFiniteSet(S), S # {}, NEW day, \A i \in S : IsDate(day[i])
    PROVE  IsDate(Max({day[i] : i \in S}))
<1>1. PICK f, X : f = [i \in S |-> day[i]] /\ X = {day[i] : i \in S}
  OBVIOUS
<1>2. f = [i \in DOMAIN f |-> f[i]] /\ IsFiniteSet(DOMAIN f)
  BY <1>1
<1>3. X = Range(f)
  BY <1>1 DEF Range
<1>4. IsFiniteSet(X)
  BY <1>2, <1>3, ValuesAreFinite
<1>5. X # {} /\ \A n \in X : n \in Nat
  BY <1>1 DEF IsDate
<1>6. Max(X) \in X
  BY <1>4, <1>5, GreatestIsThere
<1>. QED
  BY <1>1, <1>5, <1>6 DEF IsDate

(* An audit that was given up is reported as AcceptsSanyi asks.                       *)
LEMMA SanyiUnavailableIsBelieved ==
    ASSUME NEW error,
           error \in ({"arguments", "domain"} \X {"invalid"})
                       \cup ({"dashboard"} \X {"unavailable", "invalid"})
                       \cup ({"facts"} \X {"unavailable", "invalid", "scope_empty"}),
           NEW x, NEW p, SanyiUnavailable(error) = Report(x, p)
    PROVE  AcceptsSanyi(p)
<1>1. PICK q : q = [status |-> "unavailable", error |-> error, checked |-> Today,
                    dashboard |-> NoDate, latest |-> NoDate, relevant |-> 0]
  OBVIOUS
<1>2. SanyiUnavailable(error) = Report(2, q)
  BY <1>1, Zenon DEF SanyiUnavailable
<1>3. p = q
  BY <1>2, OneObject, Zenon
<1>4. /\ p.status = "unavailable" /\ p.error = error /\ p.checked = Today
      /\ p.dashboard = NoDate /\ p.latest = NoDate /\ p.relevant = 0
  BY <1>1, <1>3, Zenon
<1>5. IsDate(Today) /\ "unavailable" \in {"ok", "attention", "unavailable"}
  BY TodayAssumption DEF IsDate
<1>. QED
  BY <1>4, <1>5, Zenon DEF AcceptsSanyi

(* What the audit of the dashboard's date reports is what AcceptsSanyi asks.            *)
LEMMA SanyiIsBelieved ==
    ASSUME NEW d, SanyiContent(d), NEW x, NEW p, InspectSanyi(d) = Report(x, p)
    PROVE  AcceptsSanyi(p)
<1>1. PICK call, dat, shown, fat, seq, scoped, latest :
        /\ call = d.call /\ dat = d.dashboard.at /\ shown = d.dashboard.day /\ fat = d.facts.at
        /\ seq = d.facts.seq
        /\ scoped = {i \in DOMAIN d.facts.seq : d.facts.seq[i].at # "out of scope"}
        /\ latest = Max({d.facts.seq[i].day : i \in scoped})
  OBVIOUS
<1>2. PICK s, y, q :
        /\ s = (IF latest > shown THEN "attention" ELSE "ok")
        /\ y = (IF latest > shown THEN 1 ELSE 0)
        /\ q = [status |-> s, error |-> NoError, checked |-> Today, dashboard |-> shown,
                latest |-> latest, relevant |-> Cardinality(scoped)]
  OBVIOUS
<1>3. InspectSanyi(d) =
        IF call # "ok" THEN SanyiUnavailable(<<call, "invalid">>)
        ELSE IF dat # "ok" THEN SanyiUnavailable(<<"dashboard", dat>>)
        ELSE IF fat # "ok" THEN SanyiUnavailable(<<"facts", fat>>)
        ELSE IF \E i \in scoped : seq[i].at = "broken" THEN SanyiUnavailable(<<"facts", "invalid">>)
        ELSE IF scoped = {} THEN SanyiUnavailable(<<"facts", "scope_empty">>)
        ELSE Report(y, q)
  BY <1>1, <1>2, Zenon DEF InspectSanyi
<1>4. /\ call \in {"ok", "arguments", "domain"}
      /\ dat \in {"unavailable", "invalid"} \/ (dat = "ok" /\ IsDate(shown))
      /\ fat \in {"ok", "unavailable", "invalid"}
      /\ IsList(seq)
      /\ \A i \in DOMAIN seq :
           \/ seq[i].at \in {"out of scope", "broken"}
           \/ seq[i].at = "dated" /\ IsDate(seq[i].day)
      /\ scoped = {i \in DOMAIN seq : seq[i].at # "out of scope"}
      /\ latest = Max({seq[i].day : i \in scoped})
  BY <1>1, Zenon DEF SanyiContent
<1>5. ASSUME NEW error, SanyiUnavailable(error) = Report(x, p),
             error \in ({"arguments", "domain"} \X {"invalid"})
                         \cup ({"dashboard"} \X {"unavailable", "invalid"})
                         \cup ({"facts"} \X {"unavailable", "invalid", "scope_empty"})
      PROVE  AcceptsSanyi(p)
  BY <1>5, SanyiUnavailableIsBelieved, Zenon
<1>6. CASE call # "ok"
  <2>1. PICK e : e = <<call, "invalid">>
    OBVIOUS
  <2>2. SanyiUnavailable(e) = Report(x, p)
    BY <1>3, <1>6, <2>1, Zenon
  <2>3. e \in {"arguments", "domain"} \X {"invalid"}
    BY <1>4, <1>6, <2>1
  <2>. QED
    BY <1>5, <2>2, <2>3, Zenon
<1>7. CASE call = "ok" /\ dat # "ok"
  <2>1. PICK e : e = <<"dashboard", dat>>
    OBVIOUS
  <2>2. SanyiUnavailable(e) = Report(x, p)
    BY <1>3, <1>7, <2>1, Zenon
  <2>3. e \in {"dashboard"} \X {"unavailable", "invalid"}
    BY <1>4, <1>7, <2>1
  <2>. QED
    BY <1>5, <2>2, <2>3, Zenon
<1>8. CASE /\ call = "ok" /\ dat = "ok"
           /\ fat # "ok" \/ scoped = {} \/ \E i \in scoped : seq[i].at = "broken"
  <2>1. PICK e : e = (IF fat # "ok" THEN <<"facts", fat>>
                      ELSE IF \E i \in scoped : seq[i].at = "broken" THEN <<"facts", "invalid">>
                      ELSE <<"facts", "scope_empty">>)
    OBVIOUS
  <2>2. SanyiUnavailable(e) = Report(x, p)
    BY <1>3, <1>8, <2>1, Zenon
  <2>3. e \in {"facts"} \X {"unavailable", "invalid", "scope_empty"}
    BY <1>4, <1>8, <2>1
  <2>. QED
    BY <1>5, <2>2, <2>3, Zenon
<1>9. CASE /\ call = "ok" /\ dat = "ok" /\ fat = "ok" /\ scoped # {}
           /\ \A i \in scoped : seq[i].at # "broken"
  <2>1. InspectSanyi(d) = Report(y, q)
    BY <1>3, <1>9, Zenon
  <2>2. p = q
    BY <2>1, OneObject, Zenon
  <2>3. /\ p.status = s /\ p.error = NoError /\ p.checked = Today /\ p.dashboard = shown
        /\ p.latest = latest /\ p.relevant = Cardinality(scoped)
    BY <1>2, <2>2, Zenon
  <2>4. IsFiniteSet(scoped) /\ Cardinality(scoped) \in Nat /\ Cardinality(scoped) >= 1
    <3>1. IsFiniteSet(DOMAIN seq)
      BY <1>4, IndicesOfList
    <3>2. IsFiniteSet(scoped) /\ Cardinality(scoped) \in Nat
      BY <1>4, <3>1, CountIsNumber
    <3>3. Cardinality(scoped) # 0
      BY <1>9, <3>2, FS_EmptySet
    <3>. QED
      BY <3>2, <3>3
  <2>5. IsDate(latest)
    <3>1. PICK day : day = [i \in scoped |-> seq[i].day]
      OBVIOUS
    <3>2. \A i \in scoped : IsDate(day[i])
      BY <1>4, <1>9, <3>1
    <3>3. {day[i] : i \in scoped} = {seq[i].day : i \in scoped}
      BY <3>1
    <3>4. IsDate(Max({day[i] : i \in scoped}))
      BY <1>9, <2>4, <3>2, LatestIsADate
    <3>. QED
      BY <1>4, <3>3, <3>4
  <2>6. IsDate(shown) /\ IsDate(Today)
    BY <1>4, <1>9, TodayAssumption DEF IsDate
  <2>7. s \in {"ok", "attention"} /\ ((s = "attention") <=> (latest > shown))
    BY <1>2
  <2>. QED
    BY <2>3, <2>4, <2>5, <2>6, <2>7 DEF AcceptsSanyi
<1>. QED
  BY <1>6, <1>7, <1>8, <1>9

(* The age of a file puts it into one of six buckets.                                 *)
LEMMA BucketIsKnown == ASSUME NEW day, OptionalDate(day) PROVE Bucket(day) \in Buckets
<1>1. CASE day = NoDate
  BY <1>1 DEF Bucket, Buckets
<1>2. CASE day # NoDate
  <2>1. PICK a : a = Age(day) /\ a \in Nat
    BY <1>2, AgeIsNumber DEF OptionalDate
  <2>2. Bucket(day) = CASE a < 7         -> "fresh"
                        [] a \in 7 .. 20  -> "normal"
                        [] a \in 21 .. 29 -> "aging"
                        [] a \in 30 .. 59 -> "stale"
                        [] a >= 60       -> "decayed"
    BY <1>2, <2>1, Zenon DEF Bucket
  <2>3. a < 7 \/ a \in 7 .. 20 \/ a \in 21 .. 29 \/ a \in 30 .. 59 \/ a >= 60
    BY <2>1
  <2>. QED
    BY <2>2, <2>3 DEF Buckets
<1>. QED
  BY <1>1, <1>2

(* The buckets are finitely many, and nothing is in them when there is no file.         *)
LEMMA BucketsAreFew ==
    IsFiniteSet(Buckets) /\ SumFunction([b \in Buckets |-> 0]) = 0
<1>1. IsFiniteSet(Buckets)
  <2>1. /\ IsFiniteSet({"fresh"}) /\ IsFiniteSet({"normal"}) /\ IsFiniteSet({"aging"})
        /\ IsFiniteSet({"stale"}) /\ IsFiniteSet({"decayed"}) /\ IsFiniteSet({"uncommitted"})
    BY FS_Singleton
  <2>2. IsFiniteSet({"fresh"} \cup {"normal"} \cup {"aging"})
    BY <2>1, FS_Union
  <2>3. IsFiniteSet({"stale"} \cup {"decayed"} \cup {"uncommitted"})
    BY <2>1, FS_Union
  <2>4. IsFiniteSet(({"fresh"} \cup {"normal"} \cup {"aging"})
                      \cup ({"stale"} \cup {"decayed"} \cup {"uncommitted"}))
    BY <2>2, <2>3, FS_Union
  <2>5. Buckets = ({"fresh"} \cup {"normal"} \cup {"aging"})
                    \cup ({"stale"} \cup {"decayed"} \cup {"uncommitted"})
    BY DEF Buckets
  <2>. QED
    BY <2>4, <2>5
<1>2. PICK f, g : f = [b \in Buckets |-> 0] /\ g = [T \in SUBSET Buckets |-> 0]
  OBVIOUS
<1>3. /\ IsFiniteSet(DOMAIN f) /\ g = [T \in SUBSET DOMAIN f |-> g[T]]
      /\ g[{}] = 0 /\ g[DOMAIN f] = 0
      /\ \A T \in SUBSET DOMAIN f : \A k \in T : g[T] = f[k] + g[T \ {k}]
  <2>1. DOMAIN f = Buckets
    BY <1>2
  <2>. QED
    BY <1>1, <1>2, <2>1
<1>4. SumFunction(f) = g[DOMAIN f]
  BY <1>3, SumIsUnique
<1>. QED
  BY <1>1, <1>2, <1>3, <1>4

(* A part of a finite set and the rest of it add up to all of it.                      *)
LEMMA RestAddsUp ==
    ASSUME NEW S, IsFiniteSet(S), NEW R \in SUBSET S
    PROVE  /\ Cardinality(R) \in Nat /\ Cardinality(S \ R) \in Nat
           /\ Cardinality(R) + Cardinality(S \ R) = Cardinality(S)
           /\ Cardinality(S \ R) = 0 <=> S \ R = {}
<1>1. PICK T : T = S \ R
  OBVIOUS
<1>2. T \in SUBSET S /\ R \cup T = S /\ R \cap T = {}
  BY <1>1
<1>3. /\ IsFiniteSet(R) /\ Cardinality(R) \in Nat
      /\ IsFiniteSet(T) /\ Cardinality(T) \in Nat
  BY <1>2, CountIsNumber
<1>4. Cardinality(R \cup T) = Cardinality(R) + Cardinality(T) - Cardinality(R \cap T)
  BY <1>3, FS_Union
<1>5. Cardinality(R \cap T) = 0
  BY <1>2, FS_EmptySet
<1>6. Cardinality(S) = Cardinality(R) + Cardinality(T) - 0
  BY <1>2, <1>4, <1>5
<1>7. Cardinality(T) = 0 <=> T = {}
  BY <1>3, FS_EmptySet
<1>. QED
  BY <1>1, <1>3, <1>6, <1>7

(* What the audit of the learning concepts reports is what AcceptsDecay asks.           *)
LEMMA DecayIsBelieved ==
    ASSUME NEW d, DecayContent(d), NEW x, NEW p, InspectDecay(d) = Report(x, p)
    PROVE  AcceptsDecay(p)
<1>1. IsDate(Today)
  BY TodayAssumption DEF IsDate
<1>2. CASE d.root # "ok"
  <2>1. PICK q, f : /\ f = [b \in Buckets |-> 0]
                    /\ q = [status |-> "unavailable", error |-> d.root, checked |-> Today,
                            concepts |-> 0, referenced |-> 0, orphans |-> 0, decayed |-> 0,
                            staleness |-> f]
    OBVIOUS
  <2>2. InspectDecay(d) = Report(2, q)
    BY <1>2, <2>1, Zenon DEF InspectDecay
  <2>3. p = q
    BY <2>2, OneObject, Zenon
  <2>4. /\ p.status = "unavailable" /\ p.error = d.root /\ p.checked = Today /\ p.concepts = 0
        /\ p.referenced = 0 /\ p.orphans = 0 /\ p.decayed = 0 /\ p.staleness = f
    BY <2>1, <2>3, Zenon
  <2>5. f \in [Buckets -> Nat]
    BY <2>1
  <2>6. SumFunction(p.staleness) = 0
    BY <2>1, <2>4, BucketsAreFew
  <2>7. p.error \in {"documents_root_invalid", "concept_root_invalid", "today_invalid"}
    <3>1. d.root \in {"documents_root_invalid", "concept_root_invalid"}
      BY <1>2 DEF DecayContent
    <3>. QED
      BY <2>4, <3>1
  <2>. QED
    BY <1>1, <2>4, <2>5, <2>6, <2>7 DEF AcceptsDecay
<1>3. CASE d.root = "ok"
  <2>1. PICK notes, D, referenced, orphans, counts, decayed, calm :
          /\ notes = d.files
          /\ D = DOMAIN d.files
          /\ referenced = {i \in DOMAIN d.files : \E k \in DOMAIN d.files \ {i} :
                             d.files[k].readable /\ i \in d.files[k].names}
          /\ orphans = DOMAIN d.files \ referenced
          /\ counts = [b \in Buckets |->
                         Cardinality({i \in DOMAIN d.files : Bucket(d.files[i].day) = b})]
          /\ decayed = counts["stale"] + counts["decayed"]
          /\ calm = (orphans = {} /\ decayed = 0)
    OBVIOUS
  <2>2. PICK s, y, q :
          /\ s = (IF calm THEN "ok" ELSE "attention")
          /\ y = (IF calm THEN 0 ELSE 1)
          /\ q = [status |-> s, error |-> "none", checked |-> Today, concepts |-> Len(notes),
                  referenced |-> Cardinality(referenced), orphans |-> Cardinality(orphans),
                  decayed |-> decayed, staleness |-> counts]
    OBVIOUS
  <2>3. InspectDecay(d) = Report(y, q)
    BY <1>3, <2>1, <2>2, Zenon DEF InspectDecay
  <2>4. p = q
    BY <2>3, OneObject, Zenon
  <2>5. /\ p.status = s /\ p.error = "none" /\ p.checked = Today /\ p.concepts = Len(notes)
        /\ p.referenced = Cardinality(referenced) /\ p.orphans = Cardinality(orphans)
        /\ p.decayed = decayed /\ p.staleness = counts
    BY <2>2, <2>4, Zenon
  <2>6. IsFiniteSet(D) /\ Len(notes) \in Nat /\ Cardinality(D) = Len(notes)
    BY <2>1, IndicesOfList, Zenon DEF DecayContent
  <2>7. /\ Cardinality(referenced) \in Nat /\ Cardinality(orphans) \in Nat
        /\ Cardinality(referenced) + Cardinality(orphans) = Len(notes)
        /\ Cardinality(orphans) = 0 <=> orphans = {}
    <3>1. referenced \in SUBSET D /\ orphans = D \ referenced
      BY <2>1
    <3>. QED
      BY <2>6, <3>1, RestAddsUp
  <2>8. PICK kind : kind = [i \in D |-> Bucket(d.files[i].day)]
    OBVIOUS
  <2>9. \A i \in D : kind[i] \in Buckets
    <3>1. ASSUME NEW i \in D PROVE OptionalDate(d.files[i].day)
      BY <2>1, <3>1 DEF DecayContent
    <3>. QED
      BY <2>8, <3>1, BucketIsKnown
  <2>10. counts = [b \in Buckets |-> Cardinality({i \in D : kind[i] = b})]
    <3>1. \A b \in Buckets : {i \in D : Bucket(d.files[i].day) = b} = {i \in D : kind[i] = b}
      BY <2>8
    <3>. QED
      BY <2>1, <3>1
  <2>11. SumFunction(counts) = Len(notes)
    BY <2>6, <2>9, <2>10, BucketsAreFew, PartsAddUp
  <2>12. counts \in [Buckets -> Nat]
    <3>1. \A b \in Buckets : Cardinality({i \in D : kind[i] = b}) \in Nat
      BY <2>6, CountIsNumber
    <3>. QED
      BY <2>10, <3>1
  <2>13. decayed \in Nat /\ decayed = counts["stale"] + counts["decayed"]
    <3>1. counts["stale"] \in Nat /\ counts["decayed"] \in Nat
      BY <2>12 DEF Buckets
    <3>. QED
      BY <2>1, <3>1
  <2>14. s \in {"ok", "attention"} /\ ((s = "ok") <=> (Cardinality(orphans) = 0 /\ decayed = 0))
    BY <2>1, <2>2, <2>7
  <2>. QED
    BY <1>1, <2>5, <2>6, <2>7, <2>11, <2>12, <2>13, <2>14 DEF AcceptsDecay
<1>. QED
  BY <1>2, <1>3

-------------------------------------------------------------------------------
(* An owner that could do its inspection says so.                                    *)
Honest(p) == p.status \notin {"no output", "failed"}

(* Every inspection ends with a report.                                               *)
LEMMA InspectionsReport ==
    ASSUME NEW d
    PROVE  /\ \E x, p : AuditFacts(d) = Report(x, p)
           /\ \E x, p : InspectControlHealth(d) = Report(x, p)
           /\ \E x, p : InspectShadow(d) = Report(x, p)
           /\ \E x, p : InspectFreshness(d) = Report(x, p)
           /\ \E x, p : InspectSanyi(d) = Report(x, p)
           /\ \E x, p : InspectDecay(d) = Report(x, p)
<1>1. \E x, p : AuditFacts(d) = Report(x, p)
  BY Zenon DEF AuditFacts, Crash
<1>2. \E x, p : InspectControlHealth(d) = Report(x, p)
  BY Zenon DEF InspectControlHealth, PathRefused
<1>3. \E x, p : InspectShadow(d) = Report(x, p)
  BY Zenon DEF InspectShadow, PathRefused
<1>4. \E x, p : InspectFreshness(d) = Report(x, p)
  <2>1. \A facts, models : \E x, p : InspectModels(facts, models) = Report(x, p)
    BY Zenon DEF InspectModels, NotObserved
  <2>2. \A e, f, m, i, u : \E x, p : NotObserved(e, f, m, i, u) = Report(x, p)
    BY Zenon DEF NotObserved
  <2>3. PICK o1, o2, o3, o4, o5, o6 :
          /\ o1 = NotObserved(<<"domain", d.domain>>, NoDate, 0, 0, 0)
          /\ o2 = NotObserved(<<"entities_directory", d.entities>>, NoDate, 0, 0, 0)
          /\ o3 = NotObserved(<<"facts", d.facts.at>>, NoDate, 0, 0, 0)
          /\ o4 = NotObserved(<<"models_directory", d.modelsDir>>, d.facts.day, 0, 0, 0)
          /\ o5 = NotObserved(<<"models_directory", "empty">>, d.facts.day, 0, 0, 0)
          /\ o6 = InspectModels(d.facts.day, d.models)
    OBVIOUS
  <2>4. \A o \in {o1, o2, o3, o4, o5, o6} : \E x, p : o = Report(x, p)
    BY <2>1, <2>2, <2>3
  <2>5. InspectFreshness(d) \in {o1, o2, o3, o4, o5, o6}
    BY <2>3, Zenon DEF InspectFreshness
  <2>. QED
    BY <2>4, <2>5, Zenon
<1>5. \E x, p : InspectSanyi(d) = Report(x, p)
  BY Zenon DEF InspectSanyi, SanyiUnavailable
<1>6. \E x, p : InspectDecay(d) = Report(x, p)
  BY Zenon DEF InspectDecay
<1>. QED
  BY <1>1, <1>2, <1>3, <1>4, <1>5, <1>6, Zenon

(* A report carries its object.                                                      *)
LEMMA PayloadOfReport == ASSUME NEW x, NEW p PROVE Report(x, p).payload = p
  BY DEF Report

(* What the owner of each job but the kems check answers is what its projection asks,    *)
(* if the owner could do its inspection.                                             *)
LEMMA AnswersAreBelieved ==
    ASSUME NEW job \in Jobs \ {"kems-check"}, NEW out \in Answers(job), Honest(out.payload)
    PROVE  Accepts(Projection(job), out.payload)
<1>1. PICK p : p = out.payload
  OBVIOUS
<1>2. p.status \notin {"no output", "failed"}
  BY <1>1 DEF Honest
<1>3. ASSUME NEW x, NEW q, out = Report(x, q) PROVE q = p
  BY <1>1, <1>3, PayloadOfReport, Zenon
<1>4. out # PathRefused
  <2>1. SUFFICES ASSUME out = PathRefused PROVE FALSE
    OBVIOUS
  <2>2. p = Failed
    BY <1>3, <2>1, Zenon DEF PathRefused
  <2>. QED
    BY <1>2, <2>2 DEF Failed
<1>5. CASE job = "facts-audit"
  <2>1. PICK d \in Contents[job] : out = AuditFacts(d)
    BY <1>4, <1>5 DEF Answers, Shadow
  <2>2. PICK x : AuditFacts(d) = Report(x, p)
    <3>1. PICK x, q : AuditFacts(d) = Report(x, q)
      BY InspectionsReport
    <3>2. q = p
      BY <1>3, <2>1, <3>1, Zenon
    <3>. QED
      BY <3>1, <3>2
  <2>3. FactsContent(d)
    BY <1>5, ContentsAssumption
  <2>4. AcceptsFacts(p)
    BY <1>2, <2>2, <2>3, FactsAreBelieved, Zenon
  <2>5. Projection(job) = "facts-audit-v1"
    BY <1>5 DEF Projection, Shadow
  <2>. QED
    BY <1>1, <2>4, <2>5 DEF Accepts
<1>6. CASE job = "control-health"
  <2>1. PICK d \in Contents[job] : out = InspectControlHealth(d)
    BY <1>6 DEF Answers, Shadow
  <2>2. PICK x : InspectControlHealth(d) = Report(x, p)
    <3>1. PICK x, q : InspectControlHealth(d) = Report(x, q)
      BY InspectionsReport
    <3>2. q = p
      BY <1>3, <2>1, <3>1, Zenon
    <3>. QED
      BY <3>1, <3>2
  <2>3. ControlContent(d)
    BY <1>6, ContentsAssumption
  <2>4. AcceptsControlHealth(p)
    BY <1>2, <2>2, <2>3, ControlHealthIsBelieved, Zenon
  <2>5. Projection(job) = "control-health-v1"
    BY <1>6 DEF Projection, Shadow
  <2>. QED
    BY <1>1, <2>4, <2>5 DEF Accepts
<1>7. CASE job = Shadow
  <2>1. PICK d \in Contents[job] : out = InspectShadow(d)
    BY <1>7 DEF Answers, Shadow
  <2>2. PICK x : InspectShadow(d) = Report(x, p)
    <3>1. PICK x, q : InspectShadow(d) = Report(x, q)
      BY InspectionsReport
    <3>2. q = p
      BY <1>3, <2>1, <3>1, Zenon
    <3>. QED
      BY <3>1, <3>2
  <2>3. ShadowContent(d)
    BY <1>7, ContentsAssumption DEF Shadow
  <2>4. AcceptsShadow(p)
    BY <1>2, <2>2, <2>3, ShadowIsBelieved, Zenon
  <2>5. Projection(job) = "controller-shadow-v2"
    BY <1>7 DEF Projection, Shadow
  <2>. QED
    BY <1>1, <2>4, <2>5 DEF Accepts
<1>8. CASE job = "model-freshness"
  <2>1. PICK d \in Contents[job] : out = InspectFreshness(d)
    BY <1>8 DEF Answers, Shadow
  <2>2. PICK x : InspectFreshness(d) = Report(x, p)
    <3>1. PICK x, q : InspectFreshness(d) = Report(x, q)
      BY InspectionsReport
    <3>2. q = p
      BY <1>3, <2>1, <3>1, Zenon
    <3>. QED
      BY <3>1, <3>2
  <2>3. FreshnessContent(d)
    BY <1>8, ContentsAssumption
  <2>4. AcceptsFreshness(p)
    BY <2>2, <2>3, FreshnessIsBelieved, Zenon
  <2>5. Projection(job) = "model-freshness-v1"
    BY <1>8 DEF Projection, Shadow
  <2>. QED
    BY <1>1, <2>4, <2>5 DEF Accepts
<1>9. CASE job = "sanyi-status"
  <2>1. PICK d \in Contents[job] : out = InspectSanyi(d)
    BY <1>9 DEF Answers, Shadow
  <2>2. PICK x : InspectSanyi(d) = Report(x, p)
    <3>1. PICK x, q : InspectSanyi(d) = Report(x, q)
      BY InspectionsReport
    <3>2. q = p
      BY <1>3, <2>1, <3>1, Zenon
    <3>. QED
      BY <3>1, <3>2
  <2>3. SanyiContent(d)
    BY <1>9, ContentsAssumption
  <2>4. AcceptsSanyi(p)
    BY <2>2, <2>3, SanyiIsBelieved, Zenon
  <2>5. Projection(job) = "sanyi-status-consistency-v1"
    BY <1>9 DEF Projection, Shadow
  <2>. QED
    BY <1>1, <2>4, <2>5 DEF Accepts
<1>10. CASE job = "learning-decay"
  <2>1. PICK d \in Contents[job] : out = InspectDecay(d)
    BY <1>10 DEF Answers, Shadow
  <2>2. PICK x : InspectDecay(d) = Report(x, p)
    <3>1. PICK x, q : InspectDecay(d) = Report(x, q)
      BY InspectionsReport
    <3>2. q = p
      BY <1>3, <2>1, <3>1, Zenon
    <3>. QED
      BY <3>1, <3>2
  <2>3. DecayContent(d)
    BY <1>10, ContentsAssumption
  <2>4. AcceptsDecay(p)
    BY <2>2, <2>3, DecayIsBelieved, Zenon
  <2>5. Projection(job) = "learning-decay-v1"
    BY <1>10 DEF Projection, Shadow
  <2>. QED
    BY <1>1, <2>4, <2>5 DEF Accepts
<1>11. CASE job \in {"l4-content-audit", "learning-validate", "vault-search"}
  <2>1. Projection(job) = "metadata"
    BY <1>11 DEF Projection, Shadow
  <2>. QED
    BY <2>1 DEF Accepts
<1>. QED
  BY <1>5, <1>6, <1>7, <1>8, <1>9, <1>10, <1>11 DEF Jobs, BuiltIn, Optional

(* What a check of the scopes compares is what AcceptsKems asks.                       *)
LEMMA ComparisonIsBelieved ==
    ASSUME NEW hashes, DOMAIN hashes \subseteq KemsScopes
    PROVE  AcceptsKems(Compare(hashes).payload)
<1>1. PICK changed : changed = {s \in DOMAIN hashes \cap DOMAIN baseline.hashes :
                                  baseline.hashes[s] # hashes[s] /\ hashes[s] # Absent}
  OBVIOUS
<1>2. changed \subseteq KemsScopes
  BY <1>1
<1>3. PICK q1, q2, s, y :
        /\ s = (IF changed = {} THEN "ok" ELSE "changed") /\ y = (IF changed = {} THEN 0 ELSE 1)
        /\ q1 = [status |-> "ok", baseline |-> "initialized", changed |-> {}]
        /\ q2 = [status |-> s, baseline |-> "existing", changed |-> changed]
  OBVIOUS
<1>4. Compare(hashes) = Report(0, q1) \/ Compare(hashes) = Report(y, q2)
  BY <1>1, <1>3, Zenon DEF Compare
<1>5. Compare(hashes).payload \in {q1, q2}
  BY <1>4, PayloadOfReport, Zenon
<1>6. AcceptsKems(q1)
  <2>1. q1.status = "ok" /\ q1.baseline = "initialized" /\ q1.changed = {}
    BY <1>3, Zenon
  <2>. QED
    BY <2>1 DEF AcceptsKems
<1>7. AcceptsKems(q2)
  <2>1. q2.status = s /\ q2.baseline = "existing" /\ q2.changed = changed
    BY <1>3, Zenon
  <2>. QED
    BY <1>2, <1>3, <2>1 DEF AcceptsKems
<1>. QED
  BY <1>5, <1>6, <1>7, Zenon

(* What a process of Runtime and the owner it started have of one another: the owner      *)
(* works for a job of the registry, has ended or is gone once its output is projected,    *)
(* and what it prints or is about to print is what the projection of the job asks.        *)
Concluding == {"project", "persist", "rename", "close"}

Believable(w, o) ==
    /\ o.at # "none" => w.job \in Jobs
    /\ w.at \in Concluding => o.at \in {"none", "killed", "ended"}
    /\ o.at \in {"scanned", "compared", "truncated"} =>
         w.job = "kems-check" /\ DOMAIN o.hashes \subseteq KemsScopes
    /\ o.at \in {"compared", "truncated"} => AcceptsKems(o.out.payload)
    /\ o.at = "ended" /\ Honest(o.out.payload) =>
         /\ Accepts(Projection(w.job), o.out.payload)
         /\ w.at \in {"persist", "rename", "close"} => w.evidence

BelievedInv == \A r \in Processes : Believable(run[r], owner[r])

(* An owner whose path was refused could not do its inspection.                       *)
LEMMA PathRefusedIsNotHonest == ~Honest(PathRefused.payload)
<1>1. PathRefused.payload = Failed
  BY PayloadOfReport, Zenon DEF PathRefused
<1>. QED
  BY <1>1 DEF Failed, Honest

(* The stages of the owner.                                                         *)
LEMMA OwnerStaysBelievable ==
    ASSUME DocumentsInv, BelievedInv, NEW r \in Processes,
           Answer(r) \/ KemsScan(r) \/ KemsLoad(r) \/ KemsTruncate(r) \/ KemsStore(r)
    PROVE  Believable(run'[r], owner'[r])
<1>0. /\ RunShape(run) /\ OwnerShape(owner) /\ Progress(r) /\ Believable(run[r], owner[r])
      /\ run' = run
  BY DEF DocumentsInv, Shape, BelievedInv, Answer, KemsScan, KemsLoad, KemsTruncate, KemsStore
<1>1. owner[r].at \in {"started", "scanned", "compared", "truncated"}
  BY DEF Answer, KemsScan, KemsLoad, KemsTruncate, KemsStore
<1>2. run[r].job \in Jobs /\ run[r].at \notin Concluding
  BY <1>0, <1>1 DEF Believable
<1>3. CASE Answer(r)
  <2>1. run[r].job \in Jobs \ {"kems-check"}
    BY <1>2, <1>3 DEF Answer
  <2>2. PICK out \in Answers(run[r].job) : owner' = Prints(r, "ended", out)
    BY <1>3 DEF Answer
  <2>3. owner'[r].at = "ended" /\ owner'[r].out = out
    BY <1>0, <2>2, ReportStep
  <2>4. Honest(out.payload) => Accepts(Projection(run[r].job), out.payload)
    BY <2>1, AnswersAreBelieved
  <2>. QED
    BY <1>0, <1>2, <2>3, <2>4 DEF Believable, Concluding
<1>4. CASE owner'[r].at = "ended" /\ owner'[r].out = PathRefused
  BY <1>0, <1>2, <1>4, PathRefusedIsNotHonest DEF Believable
<1>5. CASE KemsScan(r)
  <2>1. CASE owner'[r].at = "scanned" /\ DOMAIN owner'[r].hashes \subseteq Scopes
    <3>1. run[r].job = "kems-check"
      BY <1>5 DEF KemsScan
    <3>. QED
      BY <1>0, <1>2, <2>1, <3>1, ScopesAssumption DEF Believable
  <2>. QED
    BY <1>0, <1>4, <1>5, <2>1, ScanStep
<1>6. CASE KemsLoad(r)
  <2>1. owner[r].at = "scanned"
    BY <1>6 DEF KemsLoad
  <2>2. PICK h : h = owner[r].hashes
    OBVIOUS
  <2>3. run[r].job = "kems-check" /\ DOMAIN h \subseteq KemsScopes
    BY <1>0, <2>1, <2>2 DEF Believable
  <2>4. owner'[r].at = "compared" /\ owner'[r].hashes = h /\ owner'[r].out = Compare(h)
    BY <1>0, <1>6, <2>2, LoadStep
  <2>5. AcceptsKems(Compare(h).payload)
    BY <2>3, ComparisonIsBelieved
  <2>. QED
    BY <1>0, <1>2, <2>3, <2>4, <2>5 DEF Believable
<1>7. CASE KemsTruncate(r) \/ KemsStore(r)
  <2>1. owner[r].at \in {"compared", "truncated"}
    BY <1>7 DEF KemsTruncate, KemsStore
  <2>2. /\ run[r].job = "kems-check" /\ DOMAIN owner[r].hashes \subseteq KemsScopes
        /\ AcceptsKems(owner[r].out.payload)
    BY <1>0, <2>1 DEF Believable
  <2>3. CASE /\ owner'[r].at \in {"truncated", "ended"} /\ owner'[r].out = owner[r].out
             /\ owner'[r].hashes = owner[r].hashes
    <3>1. Projection(run[r].job) = "kems-check-v1"
      BY <2>2 DEF Projection, Shadow
    <3>2. Accepts(Projection(run[r].job), owner[r].out.payload)
      BY <2>2, <3>1 DEF Accepts
    <3>. QED
      BY <1>0, <1>2, <2>2, <2>3, <3>2 DEF Believable, Concluding
  <2>. QED
    BY <1>0, <1>4, <1>7, <2>3, WritingStep
<1>. QED
  BY <1>3, <1>5, <1>6, <1>7

(* The stages of the process of Runtime.                                              *)
LEMMA ProjectBelieves ==
    ASSUME DocumentsInv, BelievedInv, NEW r \in Processes, Project(r)
    PROVE  Believable(run'[r], owner'[r])
<1>0. /\ RunShape(run) /\ Believable(run[r], owner[r]) /\ owner' = owner
      /\ run[r].at = "project"
  BY DEF DocumentsInv, Shape, BelievedInv, Project
<1>1. owner[r].at \in {"none", "killed", "ended"}
  BY <1>0 DEF Believable, Concluding
<1>2. run'[r].at = "persist" /\ run'[r].job = run[r].job
  <2>1. CASE Accepted(r)
    BY <1>0, <2>1, AcceptedStep
  <2>2. CASE run' = Failure(r, "persist")
    BY <1>0, <2>2, FailedStep
  <2>. QED
    BY <2>1, <2>2 DEF Project, Accepted
<1>3. ASSUME owner[r].at = "ended", Honest(owner[r].out.payload)
      PROVE  run'[r].evidence
  <2>1. Accepts(Projection(run[r].job), owner[r].out.payload)
    BY <1>0, <1>3 DEF Believable
  <2>2. Accepted(r)
    BY <1>3, <2>1 DEF Project, Accepted
  <2>. QED
    BY <1>0, <2>2, AcceptedStep
<1>. QED
  BY <1>0, <1>1, <1>2, <1>3 DEF Believable, Concluding

(* From the evidence on nothing of it is taken back.                                  *)
LEMMA PublishingBelieves ==
    ASSUME DocumentsInv, BelievedInv, NEW r \in Processes,
           PersistFails(r) \/ WriteTemporary(r) \/ Publish(r) \/ Return(r) \/ KillRun(r)
    PROVE  Believable(run'[r], owner'[r])
<1>0. RunShape(run) /\ Believable(run[r], owner[r]) /\ owner' = owner
  BY DEF DocumentsInv, Shape, BelievedInv, PersistFails, WriteTemporary, Publish, Return, KillRun
<1>1. CASE PersistFails(r) \/ WriteTemporary(r) \/ Publish(r)
  <2>1. run[r].at \in {"persist", "rename"}
    BY <1>1 DEF PersistFails, WriteTemporary, Publish
  <2>2. /\ run'[r].at \in {"rename", "close"} /\ run'[r].job = run[r].job
        /\ run'[r].evidence = run[r].evidence
    <3>1. CASE run' = Failure(r, "close")
      BY <1>0, <3>1, FailedStep
    <3>2. CASE \E stage \in {"rename", "close"} : run' = [run EXCEPT ![r].at = stage]
      BY <1>0, <3>2 DEF RunShape, RunRecord
    <3>. QED
      BY <1>1, <3>1, <3>2 DEF PersistFails, WriteTemporary, Publish
  <2>. QED
    BY <1>0, <2>1, <2>2 DEF Believable, Concluding
<1>2. CASE Return(r) \/ KillRun(r)
  <2>1. run'[r].at \in {"done", "killed"} /\ run'[r].job = run[r].job
    <3>1. CASE run' = Failure(r, "done")
      BY <1>0, <3>1, FailedStep
    <3>2. CASE \E stage \in {"done", "killed"} : run' = [run EXCEPT ![r].at = stage]
      BY <1>0, <3>2 DEF RunShape, RunRecord
    <3>. QED
      BY <1>2, <3>1, <3>2 DEF Return, KillRun
  <2>. QED
    BY <1>0, <2>1 DEF Believable, Concluding
<1>. QED
  BY <1>1, <1>2

(* Every step of a process or its owner.                                               *)
LEMMA StepIsBelievable ==
    ASSUME DocumentsInv, BelievedInv, NEW r \in Processes, Step(r)
    PROVE  Believable(run'[r], owner'[r])
<1>0. /\ RunShape(run) /\ OwnerShape(owner) /\ JobsAreKnown /\ Progress(r)
      /\ Believable(run[r], owner[r])
  BY DEF DocumentsInv, Shape, BelievedInv
<1>1. ASSUME owner'[r].at = "none" PROVE Believable(run'[r], owner'[r])
  BY <1>1 DEF Believable
<1>2. CASE Invoke(r) \/ PrepareLayout(r)
  BY <1>0, <1>1, <1>2 DEF Invoke, PrepareLayout, Progress
<1>3. CASE Launch(r)
  <2>1. owner[r].at = "none" /\ run[r].job \in Jobs
    BY <1>0, <1>3 DEF Launch, Progress, JobsAreKnown, Busy
  <2>2. CASE UNCHANGED owner
    BY <1>1, <2>1, <2>2
  <2>3. CASE /\ run' = [run EXCEPT ![r].at = "wait"]
             /\ owner' = [owner EXCEPT ![r].at = "started"]
    <3>1. run'[r].at = "wait" /\ run'[r].job = run[r].job
      BY <1>0, <2>3 DEF RunShape, RunRecord
    <3>2. owner'[r].at = "started"
      BY <1>0, <2>3 DEF OwnerShape, OwnerRecord
    <3>. QED
      BY <2>1, <3>1, <3>2 DEF Believable, Concluding
  <2>. QED
    BY <1>3, <2>2, <2>3 DEF Launch
<1>4. CASE Collect(r) \/ Timeout(r)
  <2>1. run'[r].at = "project" /\ run'[r].job = run[r].job
    <3>1. CASE Collect(r)
      BY <1>0, <3>1, MovedStep DEF Collect
    <3>2. CASE Timeout(r)
      <4>1. Late(r)
        BY <3>2 DEF Timeout, Late
      <4>. QED
        BY <1>0, <4>1, MovedStep
    <3>. QED
      BY <1>4, <3>1, <3>2
  <2>2. CASE owner'[r] = owner[r] /\ owner[r].at = "ended"
    BY <1>0, <2>1, <2>2 DEF Believable, Concluding
  <2>3. CASE owner'[r].at = "killed" /\ run[r].job \in Jobs
    BY <2>1, <2>3 DEF Believable, Concluding
  <2>4. run[r].job \in Jobs
    BY <1>0, <1>4 DEF Collect, Timeout, JobsAreKnown, Busy
  <2>5. owner' = Prints(r, "killed", Report(124, NoOutput)) => owner'[r].at = "killed"
    BY <1>0, ReportStep
  <2>. QED
    BY <1>4, <2>2, <2>3, <2>4, <2>5 DEF Collect, Timeout
<1>. QED
  BY <1>2, <1>3, <1>4, OwnerStaysBelievable, ProjectBelieves, PublishingBelieves DEF Step

(* What an owner prints is what its projection asks, at every stage.                     *)
THEOREM BelievedInvHolds == DocumentsSpec => []BelievedInv
<1>1. DocumentsInit => BelievedInv
  BY DEF DocumentsInit, NoOwner, NoRun, BelievedInv, Believable, Concluding
<1>2. DocumentsInv /\ BelievedInv /\ [DocumentsNext]_documentsVars => BelievedInv'
  <2>. SUFFICES ASSUME DocumentsInv, BelievedInv, [DocumentsNext]_documentsVars PROVE BelievedInv'
    OBVIOUS
  <2>1. CASE \E r \in Processes : Step(r)
    <3>. PICK r \in Processes : Step(r)
      BY <2>1
    <3>1. ASSUME NEW q \in Processes PROVE Believable(run'[q], owner'[q])
      <4>1. CASE q = r
        BY <4>1, StepIsBelievable
      <4>2. CASE q # r
        <5>1. run'[q] = run[q] /\ owner'[q] = owner[q]
          BY <4>2, RunIsLocal, OwnerIsLocal DEF DocumentsInv, Shape
        <5>. QED
          BY <5>1 DEF BelievedInv
      <4>. QED
        BY <4>1, <4>2
    <3>. QED
      BY <3>1 DEF BelievedInv
  <2>2. CASE UNCHANGED <<run, owner>>
    BY <2>2 DEF BelievedInv
  <2>. QED
    BY <2>1, <2>2, OthersStandBy DEF documentsVars, jobVars
<1>. QED
  BY <1>1, <1>2, DocumentsInvHolds, PTL DEF DocumentsSpec

(* The projections of Runtime and the owners, which share no code, agree.                 *)
THEOREM OwnersAreBelieved == DocumentsSpec => []HonestOwnersAreBelieved
<1>1. BelievedInv => HonestOwnersAreBelieved
  BY DEF BelievedInv, Believable, Honest, HonestOwnersAreBelieved
<1>. QED
  BY <1>1, BelievedInvHolds, PTL
===============================================================================
