-------------------------- MODULE ExecutorBooksProofs --------------------------
(***************************************************************************)
(* TLAPS proofs about the books of the executor, for any agents, voters,       *)
(* decisions, metrics, actions and lists of steps and any number of calls.    *)
(* No book reads another, so each has an inductive invariant of its own.       *)
(***************************************************************************)
EXTENDS ExecutorBooks, FiniteSetTheorems, SequenceTheorems, WellFoundedInduction, TLAPS

-------------------------------------------------------------------------------
(* Sequences and least numbers.                                              *)

(* Front drops the last element, and nothing else.                            *)
LEMMA FrontAndLast ==
  ASSUME NEW S, NEW s \in Seq(S), s # <<>>
  PROVE  /\ Len(s) \in Nat /\ Len(s) > 0 /\ Last(s) = s[Len(s)] /\ Last(s) \in S
         /\ Front(s) \in Seq(S) /\ Len(Front(s)) = Len(s) - 1
         /\ \A i \in 1 .. Len(s) - 1 : Front(s)[i] = s[i]
<1>1. Len(s) \in Nat /\ Len(s) > 0
  BY EmptySeq, LenProperties
<1>2. 1 \in Int /\ Len(s) - 1 \in Int /\ \A i \in 1 .. Len(s) - 1 : s[i] \in S
  BY <1>1, ElementOfSeq
<1>3. /\ SubSeq(s, 1, Len(s) - 1) \in Seq(S)
      /\ Len(SubSeq(s, 1, Len(s) - 1)) = IF 1 <= Len(s) - 1 THEN Len(s) - 1 - 1 + 1 ELSE 0
      /\ \A i \in 1 .. Len(s) - 1 - 1 + 1 : SubSeq(s, 1, Len(s) - 1)[i] = s[1 + i - 1]
  BY <1>2, SubSeqProperties
<1>4. Front(s) = SubSeq(s, 1, Len(s) - 1) /\ Last(s) = s[Len(s)]
  BY DEF Front, Last
<1>5. Last(s) \in S
  BY <1>1, <1>4, ElementOfSeq
<1>6. Len(Front(s)) = Len(s) - 1
  <2>1. \A n \in Nat : n > 0 => (IF 1 <= n - 1 THEN n - 1 - 1 + 1 ELSE 0) = n - 1
    OBVIOUS
  <2>2. Len(Front(s)) = IF 1 <= Len(s) - 1 THEN Len(s) - 1 - 1 + 1 ELSE 0
    BY <1>3, <1>4, Zenon
  <2> QED
    BY <1>1, <2>1, <2>2, Zenon
<1>7. ASSUME NEW i \in 1 .. Len(s) - 1 PROVE Front(s)[i] = s[i]
  <2>1. i \in 1 .. Len(s) - 1 - 1 + 1 /\ 1 + i - 1 = i
    BY <1>1
  <2> QED
    BY <1>3, <1>4, <2>1
<1> QED
  BY <1>1, <1>3, <1>4, <1>5, <1>6, <1>7

LEMMA LeastNumber ==
  ASSUME NEW X \in SUBSET Nat, X # {}
  PROVE  Min(X) \in X /\ \A m \in X : Min(X) <= m
<1>1. PICK n \in X : \A m \in X : ~(<<m, n>> \in OpToRel(<, Nat))
  BY NatLessThanWellFounded, WFMin
<1>2. \A m \in X : ~(m < n)
  BY <1>1 DEF OpToRel
<1>3. \A m \in X : n <= m
  BY <1>2
<1> QED
  BY <1>3 DEF Min

(* What holds of 0 and of the successor of each number it holds of, holds of all.        *)
LEMMA AllNumbers ==
  ASSUME NEW X \in SUBSET Nat, 0 \in X, \A n \in Nat : n \in X => n + 1 \in X
  PROVE  X = Nat
<1> SUFFICES ASSUME NEW j \in Nat, j \notin X PROVE FALSE
  OBVIOUS
<1>1. PICK n \in Nat \ X : \A m \in Nat \ X : n <= m
  <2>1. Nat \ X \in SUBSET Nat /\ Nat \ X # {}
    OBVIOUS
  <2> QED
    BY <2>1, LeastNumber
<1>2. n # 0 /\ n - 1 \in Nat
  OBVIOUS
<1>3. n - 1 \in X
  BY <1>1, <1>2
<1> QED
  BY <1>2, <1>3

(* An element and a function for each step make a sequence: what the recursions below stand on. *)
StepMaps(S) == [Nat -> [S -> S]]
Iterates(f, s, g) == f[0] = s /\ \A n \in Nat : f[n + 1] = g[n][f[n]]

LEMMA IterationExists ==
  ASSUME NEW S, NEW s0 \in S, NEW g \in StepMaps(S)
  PROVE  \E f \in [Nat -> S] : Iterates(f, s0, g)
<1>0. g \in [Nat -> [S -> S]]
  BY DEF StepMaps
<1> DEFINE Begins(f, n) ==
             f \in [0 .. n -> S] /\ f[0] = s0 /\ \A k \in Nat : k < n => f[k + 1] = g[k][f[k]]
<1>1. \A n \in Nat : \E f \in [0 .. n -> S] : Begins(f, n)
  <2> DEFINE X == {n \in Nat : \E f \in [0 .. n -> S] : Begins(f, n)}
  <2>1. 0 \in X
    <3>1. Begins([k \in 0 .. 0 |-> s0], 0)
      OBVIOUS
    <3> QED
      BY <3>1
  <2>2. ASSUME NEW n \in Nat, n \in X PROVE n + 1 \in X
    <3>1. PICK f \in [0 .. n -> S] : Begins(f, n)
      BY <2>2
    <3> DEFINE h == [k \in 0 .. n + 1 |-> IF k <= n THEN f[k] ELSE g[n][f[n]]]
    <3>2. f[n] \in S /\ g[n][f[n]] \in S
      BY <1>0, <3>1
    <3>3. h \in [0 .. n + 1 -> S]
      BY <3>1, <3>2
    <3>4. h[0] = s0
      BY <3>1
    <3>5. ASSUME NEW k \in Nat, k < n + 1 PROVE h[k + 1] = g[k][h[k]]
      <4>1. CASE k < n
        <5>1. h[k + 1] = f[k + 1] /\ h[k] = f[k]
          BY <4>1
        <5> QED
          BY <3>1, <4>1, <5>1
      <4>2. CASE k = n
        BY <4>2
      <4> QED
        BY <3>5, <4>1, <4>2
    <3> HIDE DEF h
    <3>6. Begins(h, n + 1)
      BY <3>3, <3>4, <3>5
    <3> QED
      BY <3>3, <3>6
  <2> HIDE DEF X
  <2>3. X = Nat
    <3>1. X \in SUBSET Nat
      BY DEF X
    <3> QED
      BY <2>1, <2>2, <3>1, AllNumbers
  <2> QED
    BY <2>3 DEF X
<1> DEFINE Start(n) == CHOOSE f \in [0 .. n -> S] : Begins(f, n)
<1>2. \A n \in Nat : Begins(Start(n), n)
  BY <1>1
<1> HIDE DEF Start
<1>3. ASSUME NEW n \in Nat, NEW m \in Nat PROVE \A k \in Nat : k <= n /\ k <= m => Start(n)[k] = Start(m)[k]
  <2> DEFINE X == {k \in Nat : k <= n /\ k <= m => Start(n)[k] = Start(m)[k]}
  <2>1. 0 \in X
    BY <1>2
  <2>2. ASSUME NEW k \in Nat, k \in X PROVE k + 1 \in X
    <3>1. SUFFICES ASSUME k + 1 <= n, k + 1 <= m PROVE Start(n)[k + 1] = Start(m)[k + 1]
      OBVIOUS
    <3>2. Start(n)[k] = Start(m)[k]
      BY <2>2, <3>1
    <3>3. Start(n)[k + 1] = g[k][Start(n)[k]] /\ Start(m)[k + 1] = g[k][Start(m)[k]]
      BY <1>2, <3>1
    <3> QED
      BY <3>2, <3>3
  <2> HIDE DEF X
  <2>3. X = Nat
    <3>1. X \in SUBSET Nat
      BY DEF X
    <3> QED
      BY <2>1, <2>2, <3>1, AllNumbers
  <2> QED
    BY <2>3 DEF X
<1> DEFINE F == [n \in Nat |-> Start(n)[n]]
<1>4. F \in [Nat -> S] /\ F[0] = s0
  BY <1>2
<1>5. ASSUME NEW n \in Nat PROVE F[n + 1] = g[n][F[n]]
  <2>1. F[n + 1] = Start(n + 1)[n + 1] /\ F[n] = Start(n)[n]
    OBVIOUS
  <2>2. Start(n + 1)[n + 1] = g[n][Start(n + 1)[n]]
    BY <1>2
  <2>3. Start(n + 1)[n] = Start(n)[n]
    BY <1>3
  <2> QED
    BY <2>1, <2>2, <2>3
<1> QED
  BY <1>4, <1>5 DEF Iterates

-------------------------------------------------------------------------------
(* The phases.                                                              *)

Paths == {"express", "quick", "standard", "deep", "full"}
Risks == {RiskLevels[i] : i \in 1 .. 5}
Machines == [phase : Phases, before : Phases \cup {"none"}, path : Paths, risk : Risks,
             history : Seq([from : Phases, to : Phases])]

(* PausedKnowsWhere, of a machine in use or a saved one.                       *)
Knows(m) ==
    /\ m.before # "none" => m.phase = "PAUSED"
    /\ m.phase = "PAUSED" /\ m.history # <<>> =>
         m.before \in TransitionTable["PAUSED"] /\ m.before = m.history[Len(m.history)].from

(* A hook runs within a legal transition only.                                *)
HooksAreLegal ==
    /\ leaving \in Seq(Phases \X Phases)
    /\ \A i \in 1 .. Len(leaving) : leaving[i][2] \in TransitionTable[leaving[i][1]]

PhaseInv ==
    /\ machine \in Machines /\ Knows(machine)
    /\ saved \in Machines /\ Knows(saved)
    /\ HooksAreLegal

(* A phase that may be paused is one that a pause may resume to.                *)
LEMMA TableIsClosed ==
  /\ "PAUSED" \in Phases /\ "FAILED" \in Phases /\ "INIT" \in Phases /\ "none" \notin Phases
  /\ \A p \in Phases : /\ TransitionTable[p] \subseteq Phases
                       /\ "PAUSED" \in TransitionTable[p] => p \in TransitionTable["PAUSED"]
  BY DEF Phases, TransitionTable

LEMMA InitPhaseInv == PhaseInit => PhaseInv
<1> SUFFICES ASSUME PhaseInit PROVE PhaseInv
  OBVIOUS
<1>1. "medium" \in Risks
  BY DEF Risks, RiskLevels
<1>2. machine \in Machines /\ Knows(machine)
  <2>1. PICK phase \in Phases :
           machine = [phase |-> phase, before |-> "none", path |-> "standard", risk |-> "medium",
                      history |-> <<>>]
    BY DEF PhaseInit
  <2>2. machine.history = <<>> /\ machine.before = "none"
    BY <2>1
  <2> QED
    BY <1>1, <2>1, <2>2 DEF Machines, Knows, Paths
<1>3. HooksAreLegal
  BY DEF PhaseInit, HooksAreLegal
<1> QED
  BY <1>2, <1>3 DEF PhaseInit, PhaseInv

LEMMA ChangedKnows ==
  ASSUME machine \in Machines, Knows(machine), NEW from \in Phases,
         NEW target \in TransitionTable[from]
  PROVE  Changed(from, target) \in Machines /\ Knows(Changed(from, target))
<1>1. target \in Phases /\ [from |-> from, to |-> target] \in [from : Phases, to : Phases]
  BY TableIsClosed
<1> DEFINE step == [from |-> from, to |-> target]
           h == Append(machine.history, step)
<1>2. machine.history \in Seq([from : Phases, to : Phases])
  BY DEF Machines
<1> HIDE DEF step
<1>3. h \in Seq([from : Phases, to : Phases]) /\ h[Len(h)] = step
  BY <1>1, <1>2 DEF step
<1> HIDE DEF h
<1>4. /\ Changed(from, target).phase = target
      /\ Changed(from, target).history = h
      /\ Changed(from, target).before =
            IF target = "PAUSED" THEN from ELSE IF machine.phase = "PAUSED" THEN "none" ELSE machine.before
  BY DEF Changed, Machines, h, step
<1>5. Changed(from, target) \in Machines
  BY <1>1, <1>3 DEF Changed, Machines, h, step
<1>6. step.from = from
  BY DEF step
<1>7. CASE target = "PAUSED"
  BY <1>3, <1>4, <1>5, <1>6, <1>7, TableIsClosed DEF Knows
<1>8. CASE target # "PAUSED"
  BY <1>4, <1>5, <1>8 DEF Knows
<1> QED
  BY <1>7, <1>8, <1>5

LEMMA TransitionInv ==
  ASSUME PhaseInv, NEW target, TransitionTo(target) PROVE PhaseInv'
<1>1. machine.phase \in Phases /\ target \in TransitionTable[machine.phase] /\ target \in Phases
  BY TableIsClosed DEF PhaseInv, Machines, TransitionTo, CanTransitionTo
<1>2. saved' = saved
  BY DEF TransitionTo
<1>3. CASE machine' = Changed(machine.phase, target) /\ UNCHANGED leaving
  <2>1. machine' \in Machines /\ Knows(machine')
    BY <1>1, <1>3, ChangedKnows DEF PhaseInv
  <2>2. HooksAreLegal'
    BY <1>3 DEF PhaseInv, HooksAreLegal
  <2>3. Knows(machine)' /\ Knows(saved)'
    BY <1>2, <2>1 DEF PhaseInv, Knows
  <2> QED
    BY <1>2, <2>1, <2>2, <2>3 DEF PhaseInv
<1>4. CASE leaving' = Append(leaving, <<machine.phase, target>>) /\ UNCHANGED machine
  <2>1. leaving \in Seq(Phases \X Phases) /\ <<machine.phase, target>> \in Phases \X Phases
    BY <1>1 DEF PhaseInv, HooksAreLegal
  <2>2. leaving' \in Seq(Phases \X Phases) /\ Len(leaving') = Len(leaving) + 1
    BY <1>4, <2>1
  <2>3. ASSUME NEW i \in 1 .. Len(leaving') PROVE leaving'[i][2] \in TransitionTable[leaving'[i][1]]
    <3>1. CASE i \in 1 .. Len(leaving)
      <4>1. leaving'[i] = leaving[i]
        BY <1>4, <2>1, <3>1
      <4> QED
        BY <3>1, <4>1 DEF PhaseInv, HooksAreLegal
    <3>2. CASE i = Len(leaving) + 1
      <4>1. leaving'[i] = <<machine.phase, target>>
        BY <1>4, <2>1, <3>2
      <4> QED
        BY <1>1, <4>1
    <3> QED
      BY <2>1, <2>2, <3>1, <3>2
  <2>4. Knows(machine)' /\ Knows(saved)'
    BY <1>2, <1>4 DEF PhaseInv, Knows
  <2> QED
    BY <1>2, <1>4, <2>2, <2>3, <2>4 DEF PhaseInv, HooksAreLegal
<1> QED
  BY <1>3, <1>4 DEF TransitionTo

LEMMA HookInv == ASSUME PhaseInv, HookReturns PROVE PhaseInv'
<1> DEFINE n == Len(leaving)
<1>1. leaving \in Seq(Phases \X Phases) /\ leaving # <<>>
  BY DEF PhaseInv, HooksAreLegal, HookReturns
<1>2. /\ n \in Nat /\ n > 0 /\ leaving[n] \in Phases \X Phases
      /\ leaving' \in Seq(Phases \X Phases) /\ Len(leaving') = n - 1
      /\ \A i \in 1 .. n - 1 : leaving'[i] = leaving[i]
      /\ machine' = Changed(leaving[n][1], leaving[n][2]) /\ saved' = saved
  BY <1>1, FrontAndLast DEF HookReturns
<1>3. machine' \in Machines /\ Knows(machine')
  <2>1. leaving[n][1] \in Phases /\ leaving[n][2] \in TransitionTable[leaving[n][1]]
    BY <1>2 DEF PhaseInv, HooksAreLegal
  <2> QED
    BY <1>2, <2>1, ChangedKnows DEF PhaseInv
<1>5. HooksAreLegal'
  <2>1. ASSUME NEW i \in 1 .. Len(leaving') PROVE leaving'[i][2] \in TransitionTable[leaving'[i][1]]
    <3>1. i \in 1 .. Len(leaving) /\ leaving'[i] = leaving[i]
      BY <1>2
    <3> QED
      BY <3>1 DEF PhaseInv, HooksAreLegal
  <2> QED
    BY <1>2, <2>1 DEF HooksAreLegal
<1>6. Knows(machine)' /\ Knows(saved)'
  BY <1>2, <1>3 DEF PhaseInv, Knows
<1> QED
  BY <1>2, <1>3, <1>5, <1>6 DEF PhaseInv

LEMMA StepPhaseInv == ASSUME PhaseInv, PhaseCall \/ HookReturns PROVE PhaseInv'
<1>1. ASSUME NEW target, TransitionTo(target) PROVE PhaseInv'
  BY <1>1, TransitionInv
<1>2. CASE (\E target \in Phases : TransitionTo(target)) \/ Pause \/ Fail \/ Resume \/ Advance
  <2>1. CASE \E target \in Phases : TransitionTo(target)
    BY <1>1, <2>1
  <2>2. CASE Pause \/ Fail
    BY <1>1, <2>2 DEF Pause, Fail
  <2>3. CASE Resume
    BY <1>1, <2>3 DEF Resume
  <2>4. CASE Advance
    BY <1>1, <2>4 DEF Advance
  <2> QED
    BY <1>2, <2>1, <2>2, <2>3, <2>4
<1>3. CASE AssessRisk \/ SelectDecisionPath
  <2>1. /\ UNCHANGED <<leaving, saved>>
        /\ machine' \in Machines
        /\ machine'.phase = machine.phase /\ machine'.before = machine.before
        /\ machine'.history = machine.history
    <3>1. CASE AssessRisk
      <4>1. PICK points \in 0 .. 6 :
               machine' = [machine EXCEPT !.risk = RiskLevels[IF points > 2 THEN 5 ELSE points + 3]]
        BY <3>1 DEF AssessRisk
      <4>2. RiskLevels[IF points > 2 THEN 5 ELSE points + 3] \in Risks
        BY DEF Risks
      <4> QED
        BY <3>1, <4>1, <4>2 DEF AssessRisk, PhaseInv, Machines
    <3>2. CASE SelectDecisionPath
      <4>1. PICK risk \in Risks : machine' = [machine EXCEPT !.risk = risk, !.path = RiskToPath[risk]]
        BY <3>2 DEF SelectDecisionPath, Risks
      <4>2. RiskToPath[risk] \in Paths
        BY DEF Risks, RiskLevels, RiskToPath, Paths
      <4> QED
        BY <3>2, <4>1, <4>2 DEF SelectDecisionPath, PhaseInv, Machines
    <3> QED
      BY <1>3, <3>1, <3>2
  <2>2. Knows(machine)' /\ Knows(saved)'
    BY <2>1 DEF PhaseInv, Knows
  <2> QED
    BY <2>1, <2>2 DEF PhaseInv, HooksAreLegal
<1>4. CASE ToDict \/ FromDict
  BY <1>4 DEF ToDict, FromDict, PhaseInv, Knows, HooksAreLegal
<1>5. CASE HookReturns
  BY <1>5, HookInv
<1> QED
  BY <1>2, <1>3, <1>4, <1>5 DEF PhaseCall

-------------------------------------------------------------------------------
(* The runs of agents.                                                        *)

RunStatuses == {"RUNNING", "RETRYING", "COMPLETED", "FAILED", "CANCELLED"}
RunPlaces == {"attempting", "sleeping", "returned", "abandoned"}
Runs == [kind : {"runner", "executor"}, agent : Agents, status : RunStatuses,
         attempt : Nat, at : RunPlaces]

(* Nobody cancels a run that has returned.                                     *)
Settled(run) == run.at = "returned" => run.status \in {"COMPLETED", "FAILED"}

(* The state kept for an agent is that of its newest run, or of one that returned. *)
OwnState(a) ==
    states[a] # 0 => /\ states[a] \in 1 .. Len(runs) /\ runs[states[a]].agent = a
                     /\ IsNewest(states[a]) \/ runs[states[a]].at = "returned"

RunInv ==
    /\ runs \in Seq(Runs)
    /\ states \in [Agents -> Nat]
    /\ client \in BOOLEAN
    /\ \A r \in 1 .. Len(runs) : Settled(runs[r])
    /\ \A a \in Agents : OwnState(a)

LEMMA InitRunInv == RunInit => RunInv
<1> SUFFICES ASSUME RunInit PROVE RunInv
  OBVIOUS
<1>1. runs \in Seq(Runs) /\ Len(runs) = 0
  BY DEF RunInit
<1>2. states \in [Agents -> Nat] /\ \A a \in Agents : OwnState(a)
  BY DEF RunInit, OwnState
<1>3. \A r \in 1 .. Len(runs) : Settled(runs[r])
  BY <1>1
<1> QED
  BY <1>1, <1>2, <1>3 DEF RunInit, RunInv

(* An attempt ends a run as completed or failed, or leaves it to be repeated.     *)
LEMMA AttemptedIs ==
  ASSUME NEW run \in [kind : {"runner", "executor"}, agent : Agents, status : RunStatuses,
                      attempt : Nat, at : RunPlaces \cup {"new"}],
         NEW fails \in BOOLEAN
  PROVE  /\ Attempted(run, fails) \in Runs
         /\ Settled(Attempted(run, fails))
         /\ Attempted(run, fails).agent = run.agent
         /\ Attempted(run, fails).kind = run.kind
<1> DEFINE done   == [run EXCEPT !.status = "COMPLETED", !.at = "returned"]
           failed == [run EXCEPT !.status = "FAILED", !.at = "returned"]
           again  == [run EXCEPT !.status = "RETRYING", !.attempt = @ + 1, !.at = "sleeping"]
<1>1. Attempted(run, fails) \in {done, failed, again}
  BY DEF Attempted
<1>2. done \in Runs /\ Settled(done) /\ done.agent = run.agent /\ done.kind = run.kind
  BY DEF Runs, RunStatuses, RunPlaces, Settled
<1>3. failed \in Runs /\ Settled(failed) /\ failed.agent = run.agent /\ failed.kind = run.kind
  BY DEF Runs, RunStatuses, RunPlaces, Settled
<1>4. again \in Runs /\ Settled(again) /\ again.agent = run.agent /\ again.kind = run.kind
  <2>1. run.attempt + 1 \in Nat /\ "RETRYING" \in RunStatuses /\ "sleeping" \in RunPlaces
    BY DEF RunStatuses, RunPlaces
  <2>2. again \in Runs
    BY <2>1 DEF Runs
  <2>3. again.at = "sleeping" /\ again.agent = run.agent /\ again.kind = run.kind
    OBVIOUS
  <2> HIDE DEF again
  <2> QED
    BY <2>2, <2>3 DEF Settled
<1> HIDE DEF done, failed, again
<1> QED
  BY <1>1, <1>2, <1>3, <1>4

LEMMA FailsAre ==
  ASSUME RunInv, NEW kind PROVE Fails(kind) \subseteq BOOLEAN
  BY DEF RunInv, Fails

(* A run goes on, or is cancelled; those of the others stay as they are.         *)
LEMMA RunChanged ==
  ASSUME RunInv, NEW r \in 1 .. Len(runs), NEW run \in Runs, Settled(run),
         run.agent = runs[r].agent, run.kind = runs[r].kind,
         runs[r].at # "returned",
         runs' = [runs EXCEPT ![r] = run],
         client' \in BOOLEAN,
         \/ states' = states
         \/ run.at = "returned" /\ states' = [states EXCEPT ![run.agent] = r]
  PROVE  RunInv'
<1>1. runs \in Seq(Runs) /\ runs[r] \in Runs /\ run.agent \in Agents /\ Len(runs) \in Nat
  <2>1. runs \in Seq(Runs)
    BY DEF RunInv
  <2> QED
    BY <2>1, ElementOfSeq, LenProperties DEF Runs
<1>2. /\ runs' \in Seq(Runs) /\ Len(runs') = Len(runs)
      /\ \A q \in 1 .. Len(runs) : runs'[q] = IF q = r THEN run ELSE runs[q]
  BY <1>1, ExceptSeq
<1>3. states' \in [Agents -> Nat]
  BY <1>1 DEF RunInv
<1>4. \A q \in 1 .. Len(runs') : Settled(runs'[q])
  BY <1>2 DEF RunInv
<1>5. ASSUME NEW a \in Agents PROVE OwnState(a)'
  <2>1. CASE states'[a] = states[a] /\ states[a] # 0
    <3> DEFINE s == states[a]
    <3>1. /\ s \in 1 .. Len(runs) /\ runs[s].agent = a
          /\ IsNewest(s) \/ runs[s].at = "returned"
      BY <2>1 DEF RunInv, OwnState
    <3>2. runs'[s].agent = a
      BY <1>2, <3>1
    <3>3. ASSUME IsNewest(s) PROVE IsNewest(s)'
      <4>1. s' = s
        BY <2>1
      <4>2. ASSUME NEW q \in s + 1 .. Len(runs'), runs'[q].kind = "runner"
            PROVE  runs'[q].agent # runs'[s].agent
        <5>1. q \in 1 .. Len(runs) /\ q \in s + 1 .. Len(runs)
          BY <1>1, <1>2, <3>1
        <5>2. runs'[q].agent = runs[q].agent /\ runs'[q].kind = runs[q].kind
          BY <1>2, <5>1
        <5> QED
          BY <3>1, <3>2, <3>3, <4>2, <5>1, <5>2 DEF IsNewest
      <4> QED
        BY <4>1, <4>2 DEF IsNewest
    <3>4. ASSUME runs[s].at = "returned" PROVE runs'[s].at = "returned"
      BY <1>2, <3>1, <3>4
    <3> QED
      BY <1>2, <2>1, <3>1, <3>2, <3>3, <3>4 DEF OwnState
  <2>2. CASE states'[a] # states[a]
    <3>1. a = run.agent /\ states'[a] = r /\ run.at = "returned"
      BY <1>1, <2>2 DEF RunInv
    <3> QED
      BY <1>1, <1>2, <3>1 DEF OwnState
  <2>3. CASE states'[a] = 0
    BY <2>3 DEF OwnState
  <2> QED
    BY <2>1, <2>2, <2>3
<1>6. \A q \in 1 .. Len(runs') : Settled(runs[q])'
  BY <1>4 DEF Settled
<1> QED
  BY <1>2, <1>3, <1>5, <1>6 DEF RunInv

(* A run begins.                                                              *)
LEMMA RunBegun ==
  ASSUME RunInv, NEW run \in Runs, Settled(run), NEW a \in Agents, run.agent = a,
         runs' = Append(runs, run), client' = client,
         states' = IF run.kind = "runner" THEN [states EXCEPT ![a] = Len(runs')] ELSE states
  PROVE  RunInv'
<1>1. runs \in Seq(Runs) /\ Len(runs) \in Nat
  BY LenProperties DEF RunInv
<1>2. /\ runs' \in Seq(Runs) /\ Len(runs') = Len(runs) + 1 /\ runs'[Len(runs) + 1] = run
      /\ \A q \in 1 .. Len(runs) : runs'[q] = runs[q]
  BY <1>1, AppendProperties
<1>3. states' \in [Agents -> Nat]
  BY <1>1, <1>2 DEF RunInv
<1>4. ASSUME NEW q \in 1 .. Len(runs') PROVE Settled(runs[q])'
  <2>1. CASE q = Len(runs) + 1
    BY <1>2, <2>1 DEF Settled
  <2>2. CASE q \in 1 .. Len(runs)
    BY <1>2, <2>2 DEF Settled, RunInv
  <2> QED
    BY <1>1, <1>2, <2>1, <2>2
<1>5. ASSUME NEW b \in Agents PROVE OwnState(b)'
  <2>1. CASE states'[b] = Len(runs) + 1
    <3>1. run.kind = "runner" /\ b = a
      <4>1. states[b] # Len(runs) + 1
        BY <1>1 DEF RunInv, OwnState
      <4> QED
        BY <1>2, <2>1, <4>1 DEF RunInv
    <3>2. IsNewest(states[b])'
      BY <1>1, <1>2, <2>1 DEF IsNewest
    <3> QED
      BY <1>1, <1>2, <2>1, <3>1, <3>2 DEF OwnState
  <2>2. CASE states'[b] # Len(runs) + 1 /\ states'[b] # 0
    <3> DEFINE s == states[b]
    <3>1. states'[b] = s /\ ~(b = a /\ run.kind = "runner")
      BY <1>2, <2>2 DEF RunInv
    <3>2. /\ s \in 1 .. Len(runs) /\ runs[s].agent = b
          /\ IsNewest(s) \/ runs[s].at = "returned"
      BY <2>2, <3>1 DEF RunInv, OwnState
    <3>3. ASSUME IsNewest(s) PROVE IsNewest(s)'
      <4>1. s' = s
        BY <3>1
      <4>2. ASSUME NEW q \in s + 1 .. Len(runs'), runs'[q].kind = "runner"
            PROVE  runs'[q].agent # runs'[s].agent
        <5>1. CASE q = Len(runs) + 1
          BY <1>2, <3>1, <3>2, <4>2, <5>1
        <5>2. CASE q # Len(runs) + 1
          BY <1>1, <1>2, <3>2, <3>3, <4>2, <5>2 DEF IsNewest
        <5> QED
          BY <5>1, <5>2
      <4> QED
        BY <4>1, <4>2 DEF IsNewest
    <3>4. runs'[s] = runs[s]
      BY <1>2, <3>2
    <3> QED
      BY <1>1, <1>2, <3>1, <3>2, <3>3, <3>4 DEF OwnState
  <2>3. CASE states'[b] = 0
    BY <2>3 DEF OwnState
  <2> QED
    BY <2>1, <2>2, <2>3
<1> QED
  BY <1>2, <1>3, <1>4, <1>5 DEF RunInv

LEMMA StepRunInv == ASSUME RunInv, RunCall \/ RunStep PROVE RunInv'
<1>1. ASSUME NEW a \in Agents, NEW kind \in {"runner", "executor"}, RunAgent(a, kind)
      PROVE  RunInv'
  <2> DEFINE run == [kind |-> kind, agent |-> a, status |-> "RUNNING", attempt |-> 0, at |-> "new"]
             waiting == [run EXCEPT !.at = "attempting"]
  <2>1. run \in [kind : {"runner", "executor"}, agent : Agents, status : RunStatuses,
                 attempt : Nat, at : RunPlaces \cup {"new"}]
    BY DEF RunStatuses
  <2>2. waiting \in Runs /\ Settled(waiting) /\ waiting.agent = a /\ waiting.kind = kind
    BY DEF Runs, RunStatuses, RunPlaces, Settled
  <2>3. run.agent = a /\ run.kind = kind
    OBVIOUS
  <2>4. \/ \E fails \in Fails(kind) : runs' = Append(runs, Attempted(run, fails))
        \/ runs' = Append(runs, waiting)
    BY <1>1 DEF RunAgent
  <2>5. /\ states' = IF kind = "runner" THEN [states EXCEPT ![a] = Len(runs')] ELSE states
        /\ client' = client
    BY <1>1 DEF RunAgent
  <2> HIDE DEF run, waiting
  <2>6. ASSUME NEW fails \in Fails(kind), runs' = Append(runs, Attempted(run, fails))
        PROVE  RunInv'
    <3>1. fails \in BOOLEAN
      BY FailsAre
    <3>2. /\ Attempted(run, fails) \in Runs /\ Settled(Attempted(run, fails))
          /\ Attempted(run, fails).agent = a /\ Attempted(run, fails).kind = kind
      BY <2>1, <2>3, <3>1, AttemptedIs
    <3> QED
      BY <2>5, <2>6, <3>2, RunBegun
  <2>7. CASE runs' = Append(runs, waiting)
    BY <2>2, <2>5, <2>7, RunBegun
  <2> QED
    BY <2>4, <2>6, <2>7
<1>2. ASSUME NEW r \in 1 .. Len(runs), Retry(r) PROVE RunInv'
  <2>1. runs[r] \in Runs
    BY ElementOfSeq DEF RunInv
  <2>2. PICK fails \in Fails(runs[r].kind) : runs' = [runs EXCEPT ![r] = Attempted(runs[r], fails)]
    BY <1>2 DEF Retry
  <2> DEFINE run == Attempted(runs[r], fails)
  <2>3. fails \in BOOLEAN
    BY FailsAre
  <2>4. run \in Runs /\ Settled(run) /\ run.agent = runs[r].agent /\ run.kind = runs[r].kind
    BY <2>1, <2>3, AttemptedIs DEF Runs
  <2>5. \/ states' = states
        \/ runs'[r].at = "returned" /\ states' = [states EXCEPT ![runs[r].agent] = r]
    BY <1>2 DEF Retry
  <2>8. runs[r].at # "returned"
    BY <1>2 DEF Retry
  <2>6. client' \in BOOLEAN
    BY <1>2 DEF Retry, RunInv
  <2> HIDE DEF run
  <2>7. runs' = [runs EXCEPT ![r] = run]
    BY <2>2 DEF run
  <2>9. runs'[r] = run
    BY <2>7 DEF RunInv
  <2> QED
    BY <2>4, <2>5, <2>6, <2>7, <2>8, <2>9, RunChanged
<1>3. ASSUME NEW r \in 1 .. Len(runs), Cancelled(r) PROVE RunInv'
  <2> DEFINE run == [runs[r] EXCEPT !.status = "CANCELLED"]
  <2>1. runs[r] \in Runs /\ Settled(runs[r])
    BY ElementOfSeq DEF RunInv
  <2>2. run \in Runs /\ run.agent = runs[r].agent /\ run.kind = runs[r].kind /\ Settled(run)
    BY <1>3, <2>1 DEF Cancelled, Runs, RunStatuses, Settled
  <2>3. runs' = [runs EXCEPT ![r] = run] /\ states' = states /\ client' \in BOOLEAN
    BY <1>3, <2>1 DEF Cancelled, RunInv
  <2>4. runs[r].at # "returned"
    BY <1>3, <2>1 DEF Cancelled, Settled
  <2> HIDE DEF run
  <2> QED
    BY <2>2, <2>3, <2>4, RunChanged
<1>4. ASSUME NEW r \in 1 .. Len(runs), Abandon(r) PROVE RunInv'
  <2> DEFINE run == [runs[r] EXCEPT !.at = "abandoned"]
  <2>1. runs[r] \in Runs /\ Settled(runs[r])
    BY ElementOfSeq DEF RunInv
  <2>2. run \in Runs /\ run.agent = runs[r].agent /\ run.kind = runs[r].kind /\ Settled(run)
    BY <2>1 DEF Runs, RunPlaces, Settled
  <2>3. runs' = [runs EXCEPT ![r] = run] /\ states' = states /\ client' \in BOOLEAN
    BY <1>4, <2>1 DEF Abandon, RunInv
  <2>4. runs[r].at # "returned"
    BY <1>4 DEF Abandon
  <2> HIDE DEF run
  <2> QED
    BY <2>2, <2>3, <2>4, RunChanged
<1>5. ASSUME NEW a \in Agents, CancelAgent(a) PROVE RunInv'
  <2>1. states[a] \in 1 .. Len(runs) /\ Cancelled(states[a])
    BY <1>5 DEF CancelAgent, RunInv, OwnState
  <2> QED
    BY <1>3, <2>1
<1>6. CASE SetLlmClient
  BY <1>6 DEF SetLlmClient, RunInv, Settled, OwnState, IsNewest
<1> QED
  BY <1>1, <1>2, <1>3, <1>4, <1>5, <1>6 DEF RunCall, RunStep, CancelExecution

(* A run of the runner that is cancelled is the newest of its agent: no step but        *)
(* cancel_agent cancels it.                                                    *)
LEMMA CancelledIsNewest ==
  ASSUME RunInv, RunCall \/ RunStep, NEW r \in 1 .. Len(runs), runs[r].kind = "runner",
         runs[r].status # "CANCELLED", runs'[r].status = "CANCELLED"
  PROVE  IsNewest(r)
<1>0. runs \in Seq(Runs) /\ Len(runs) \in Nat
  BY LenProperties DEF RunInv
<1>1. ASSUME NEW a \in Agents, CancelAgent(a) PROVE IsNewest(r)
  <2>1. /\ states[a] \in 1 .. Len(runs) /\ Cancelled(states[a])
        /\ IsNewest(states[a]) \/ runs[states[a]].at = "returned"
        /\ Settled(runs[states[a]])
    BY <1>1 DEF CancelAgent, RunInv, OwnState
  <2>2. r = states[a]
    BY <1>0, <2>1 DEF Cancelled
  <2> QED
    BY <2>1, <2>2 DEF Cancelled, Settled
<1>2. ASSUME NEW a \in Agents, NEW kind \in {"runner", "executor"}, RunAgent(a, kind)
      PROVE  FALSE
  <2>1. PICK run : runs' = Append(runs, run)
    BY <1>2 DEF RunAgent
  <2>2. runs'[r] = runs[r]
    BY <1>0, <2>1
  <2> QED
    BY <2>2
<1>3. ASSUME NEW q \in 1 .. Len(runs), CancelExecution(q) PROVE FALSE
  BY <1>0, <1>3 DEF CancelExecution, Cancelled
<1>4. ASSUME NEW q \in 1 .. Len(runs), Abandon(q) PROVE FALSE
  BY <1>0, <1>4 DEF Abandon, Runs
<1>5. ASSUME NEW q \in 1 .. Len(runs), Retry(q) PROVE FALSE
  <2>1. PICK fails \in Fails(runs[q].kind) : runs' = [runs EXCEPT ![q] = Attempted(runs[q], fails)]
    BY <1>5 DEF Retry
  <2>2. runs[q] \in Runs
    BY <1>0
  <2>3. Attempted(runs[q], fails).status # "CANCELLED"
    BY <2>2 DEF Attempted, Runs
  <2> QED
    BY <1>0, <2>1, <2>3
<1>6. CASE SetLlmClient
  BY <1>6 DEF SetLlmClient
<1> QED
  BY <1>1, <1>2, <1>3, <1>4, <1>5, <1>6 DEF RunCall, RunStep

-------------------------------------------------------------------------------
(* The votes.                                                                *)

GovernanceInv ==
    /\ votes = [d \in Decisions |-> votes[d]]
    /\ decided = [d \in Decisions |-> decided[d]]
    /\ DecisionIsCurrent

LEMMA InitGovernanceInv == GovernanceInit => GovernanceInv
  BY DEF GovernanceInit, GovernanceInv, DecisionIsCurrent

(* The same votes give the same decision: the strategy is never changed.         *)
LEMMA SameVotesSameDecision ==
  ASSUME NEW d, strategy' = strategy, votes'[d] = votes[d]
  PROVE  Aggregate(votes[d])' = Aggregate(votes[d])
  BY Zenon DEF Aggregate

(* What a decision is made on is kept, or the decision is dropped.               *)
LEMMA DecisionStaysCurrent ==
  ASSUME GovernanceInv, strategy' = strategy,
         votes' = [d \in Decisions |-> votes'[d]], decided' = [d \in Decisions |-> decided'[d]],
         \A d \in Decisions :
            \/ decided'[d] = NoDecision
            \/ votes'[d] = votes[d] /\ decided'[d] \in {decided[d], Aggregate(votes[d])}
  PROVE  GovernanceInv'
<1>1. ASSUME NEW d \in Decisions, decided'[d] # NoDecision PROVE decided'[d] = Aggregate(votes[d])'
  <2>1. votes'[d] = votes[d] /\ decided'[d] \in {decided[d], Aggregate(votes[d])}
    BY <1>1
  <2>2. decided'[d] = Aggregate(votes[d])
    BY <1>1, <2>1 DEF GovernanceInv, DecisionIsCurrent
  <2>3. Aggregate(votes[d])' = Aggregate(votes[d])
    BY <2>1, SameVotesSameDecision
  <2> QED
    BY <2>2, <2>3
<1>2. DecisionIsCurrent'
  BY <1>1 DEF DecisionIsCurrent, NoDecision
<1> QED
  BY <1>2 DEF GovernanceInv

LEMMA StepGovernanceInv == ASSUME GovernanceInv, GovernanceCall PROVE GovernanceInv'
<1>1. ASSUME NEW d \in Decisions, NEW a, NEW t, NEW c, SubmitVote(a, d, t, c) PROVE GovernanceInv'
  <2>1. \E vs : votes' = [votes EXCEPT ![d] = vs]
    BY <1>1 DEF SubmitVote
  <2>2. decided' = [decided EXCEPT ![d] = NoDecision] /\ strategy' = strategy
    BY <1>1 DEF SubmitVote
  <2>3. /\ votes' = [e \in Decisions |-> votes'[e]] /\ decided' = [e \in Decisions |-> decided'[e]]
        /\ decided'[d] = NoDecision
        /\ \A e \in Decisions \ {d} : votes'[e] = votes[e] /\ decided'[e] = decided[e]
    BY <2>1, <2>2 DEF GovernanceInv
  <2> QED
    BY <2>2, <2>3, DecisionStaysCurrent
<1>2. ASSUME NEW d \in Decisions,
             votes' = votes, strategy' = strategy,
             decided' \in {decided, [decided EXCEPT ![d] = Aggregate(votes[d])]}
      PROVE  GovernanceInv'
  <2>1. /\ votes' = [e \in Decisions |-> votes'[e]] /\ decided' = [e \in Decisions |-> decided'[e]]
        /\ \A e \in Decisions : decided'[e] \in {decided[e], Aggregate(votes[e])}
    BY <1>2 DEF GovernanceInv
  <2> QED
    BY <1>2, <2>1, DecisionStaysCurrent
<1>3. ASSUME NEW d \in Decisions,
             DetectConflicts(d) \/ AggregateDecision(d) \/ ResolveConflict(d)
      PROVE  GovernanceInv'
  BY <1>2, <1>3 DEF DetectConflicts, AggregateDecision, ResolveConflict
<1>4. ASSUME NEW d \in Decisions, ClearVotes(d) PROVE GovernanceInv'
  <2>1. /\ votes' = [e \in Decisions |-> votes'[e]] /\ decided' = [e \in Decisions |-> decided'[e]]
        /\ decided'[d] = NoDecision /\ strategy' = strategy
        /\ \A e \in Decisions \ {d} : votes'[e] = votes[e] /\ decided'[e] = decided[e]
    BY <1>4 DEF ClearVotes, GovernanceInv
  <2> QED
    BY <2>1, DecisionStaysCurrent
<1>5. ASSUME NEW a, SetEnabled(a) PROVE GovernanceInv'
  <2>1. UNCHANGED <<strategy, votes, decided>>
    BY <1>5 DEF SetEnabled
  <2> QED
    BY <2>1, DecisionStaysCurrent DEF GovernanceInv
<1>6. CASE ClearProject
  <2>1. /\ votes' = [d \in Decisions |-> votes'[d]] /\ decided' = [d \in Decisions |-> decided'[d]]
        /\ strategy' = strategy /\ \A d \in Decisions : decided'[d] = NoDecision
    BY <1>6 DEF ClearProject
  <2> QED
    BY <2>1, DecisionStaysCurrent
<1> QED
  BY <1>1, <1>3, <1>4, <1>5, <1>6 DEF GovernanceCall

-------------------------------------------------------------------------------
(* The flows of steps.                                                        *)

Outcomes3 == {"ok", "failed", "cancelled"}
CallRecords == [step : Nat, round : Nat, outcome : Outcomes3]
FlowRecords ==
    [kind : {"loop", "parallel", "try"}, steps : StepLists,
     place : {"round", "steps", "finally", "returned", "raised"}, guarded : BOOLEAN,
     round : Nat, calls : Seq(CallRecords), answer : {"none", "ok", "failed"}]

IsMade(flow, k, r) ==
    \E i \in 1 .. Len(flow.calls) : flow.calls[i].step = k /\ flow.calls[i].round = r

(* No sub-step is made twice in a round.                                      *)
MadeOnce(flow) ==
    \A i, j \in 1 .. Len(flow.calls) :
        flow.calls[i].step = flow.calls[j].step /\ flow.calls[i].round = flow.calls[j].round => i = j

(* A loop that goes on has succeeded in all it made: whole rounds, and the present *)
(* one up to the sub-steps left.                                              *)
LoopGood(flow) == LET n == Len(flow.calls) IN
    /\ MadeOnce(flow)
    /\ \A i \in 1 .. n : /\ flow.calls[i].step \in 1 .. Len(flow.steps)
                         /\ flow.steps[flow.calls[i].step] = "call"
                         /\ flow.calls[i].round \in 1 .. flow.round
    /\ \A i \in 1 .. n - 1 : Outcome(flow, i) = "ok"
    /\ flow.place # "finally"
    /\ flow.place \in {"round", "steps"} => flow.answer = "none"
    /\ flow.place = "raised" => flow.answer = "none" /\ n > 0 /\ Outcome(flow, n) = "cancelled"
    /\ flow.place = "returned" => flow.answer # "none"
    /\ flow.answer = "failed" => n > 0 /\ Outcome(flow, n) = "failed"
    /\ flow.place \in {"round", "steps"} \/ flow.answer = "ok" => \A i \in 1 .. n : Outcome(flow, i) = "ok"
    /\ flow.place = "round" \/ flow.answer = "ok" =>
         \A k \in 1 .. Len(flow.steps), r \in 1 .. flow.round :
             flow.steps[k] = "call" => IsMade(flow, k, r)
    /\ flow.place = "steps" =>
         /\ flow.round > 0
         /\ \A k \in 1 .. Len(flow.steps), r \in 1 .. flow.round - 1 :
                flow.steps[k] = "call" => IsMade(flow, k, r)
         /\ \A k \in 1 .. Len(flow.steps) :
                flow.steps[k] = "call" /\ k \notin Left(flow) => IsMade(flow, k, flow.round)

ParallelGood(flow) ==
    /\ MadeOnce(flow)
    /\ flow.round = 0 /\ flow.place # "finally"
    /\ \A i \in 1 .. Len(flow.calls) :
         flow.calls[i].step \in 1 .. Len(flow.steps) /\ flow.calls[i].round = 0
    /\ flow.place = "returned" => \A k \in 1 .. Len(flow.steps) : IsMade(flow, k, 0)

TryGood(flow) ==
    /\ flow.round = 0 /\ flow.place # "round"
    /\ \A i \in 1 .. Len(flow.calls) : flow.calls[i].step = i /\ flow.calls[i].round = 0
    /\ flow.place = "steps" => Len(flow.calls) = 0
    /\ flow.place = "finally" => Len(flow.calls) = 1 /\ flow.guarded
    /\ flow.place \in {"returned", "raised"} => Len(flow.calls) = IF flow.guarded THEN 2 ELSE 1
    /\ flow.place \in {"finally", "returned"} => flow.answer = "none" \/ flow.answer = Outcome(flow, 1)
    /\ flow.place = "returned" => flow.answer # "none"

FlowGood(flow) ==
    /\ flow.kind = "loop" => LoopGood(flow)
    /\ flow.kind = "parallel" => ParallelGood(flow)
    /\ flow.kind = "try" => TryGood(flow)

FlowInv ==
    /\ flows \in Seq(FlowRecords)
    /\ \A f \in 1 .. Len(flows) : FlowGood(flows[f])


(* What is asked of a flow, from how it stands.                                 *)
LEMMA CallsAre ==
  ASSUME NEW flow \in FlowRecords, NEW k, NEW r
  PROVE  /\ ~IsMade(flow, k, r) => Calls(flow, k, r) = 0
         /\ IsMade(flow, k, r) /\ MadeOnce(flow) => Calls(flow, k, r) = 1
<1> DEFINE made == {i \in 1 .. Len(flow.calls) : flow.calls[i].step = k /\ flow.calls[i].round = r}
<1>1. Calls(flow, k, r) = Cardinality(made)
  BY DEF Calls
<1>2. ~IsMade(flow, k, r) => made = {}
  BY DEF IsMade
<1>3. ASSUME IsMade(flow, k, r), MadeOnce(flow) PROVE \E i : made = {i}
  <2>1. PICK i \in 1 .. Len(flow.calls) : flow.calls[i].step = k /\ flow.calls[i].round = r
    BY <1>3 DEF IsMade
  <2>2. made = {i}
    BY <1>3, <2>1 DEF MadeOnce
  <2> QED
    BY <2>2
<1> HIDE DEF made
<1>4. ASSUME NEW i, made = {i} PROVE Cardinality(made) = 1
  BY <1>4, FS_Singleton
<1> QED
  BY <1>1, <1>2, <1>3, <1>4, FS_EmptySet

LEMMA StepsAre ==
  ASSUME NEW flow \in FlowRecords
  PROVE  /\ flow.calls \in Seq(CallRecords) /\ Len(flow.calls) \in Nat /\ Len(flow.steps) \in Nat
         /\ DOMAIN flow.calls = 1 .. Len(flow.calls)
         /\ flow.round \in Nat
         /\ \A i \in 1 .. Len(flow.calls) : flow.calls[i] \in CallRecords
         /\ \A c \in ToSet(flow.calls) : \E i \in 1 .. Len(flow.calls) : flow.calls[i] = c
         /\ \A i \in 1 .. Len(flow.calls) : flow.calls[i] \in ToSet(flow.calls)
<1>1. flow.calls \in Seq(CallRecords) /\ flow.steps \in StepLists /\ flow.round \in Nat
  BY DEF FlowRecords
<1>2. Len(flow.steps) \in Nat
  BY <1>1, StepsAssumption, LenProperties
<1>3. Len(flow.calls) \in Nat /\ DOMAIN flow.calls = 1 .. Len(flow.calls)
  BY <1>1, LenProperties
<1>4. \A i \in 1 .. Len(flow.calls) : flow.calls[i] \in CallRecords
  BY <1>1, ElementOfSeq
<1> QED
  BY <1>1, <1>2, <1>3, <1>4 DEF ToSet

LEMMA InvFlowsAnswer == FlowInv => FlowsAnswerForTheirSteps
<1> SUFFICES ASSUME FlowInv PROVE FlowsAnswerForTheirSteps
  OBVIOUS
<1> SUFFICES ASSUME NEW flow \in FlowRecords, FlowGood(flow), NEW n, n = Len(flow.calls)
    PROVE  /\ flow.kind = "loop" =>
                /\ \A i \in 1 .. n - 1 : Outcome(flow, i) = "ok"
                /\ flow.answer = "failed" <=> n > 0 /\ Outcome(flow, n) = "failed"
                /\ flow.answer = "ok" =>
                     \A k \in 1 .. Len(flow.steps), r \in 1 .. flow.round :
                         Calls(flow, k, r) = IF flow.steps[k] = "call" THEN 1 ELSE 0
           /\ flow.kind = "parallel" /\ flow.place = "returned" =>
                \A k \in 1 .. Len(flow.steps) : Calls(flow, k, 0) = 1
           /\ flow.kind = "try" /\ flow.place \in {"returned", "raised"} =>
                /\ Calls(flow, 1, 0) = 1 /\ Calls(flow, 2, 0) = IF flow.guarded THEN 1 ELSE 0
                /\ flow.place = "returned" => flow.answer = Outcome(flow, 1)
  <2>1. \A f \in 1 .. Len(flows) : flows[f] \in FlowRecords /\ FlowGood(flows[f])
    BY ElementOfSeq DEF FlowInv
  <2> QED
    BY <2>1 DEF FlowsAnswerForTheirSteps
<1>1. ASSUME flow.kind = "loop"
      PROVE  /\ \A i \in 1 .. n - 1 : Outcome(flow, i) = "ok"
             /\ flow.answer = "failed" <=> n > 0 /\ Outcome(flow, n) = "failed"
             /\ flow.answer = "ok" =>
                  \A k \in 1 .. Len(flow.steps), r \in 1 .. flow.round :
                      Calls(flow, k, r) = IF flow.steps[k] = "call" THEN 1 ELSE 0
  <2>1. LoopGood(flow) /\ n \in Nat
    BY <1>1, StepsAre DEF FlowGood
  <2>2. \A i \in 1 .. n - 1 : Outcome(flow, i) = "ok"
    BY <2>1 DEF LoopGood
  <2>3. flow.answer = "failed" => n > 0 /\ Outcome(flow, n) = "failed"
    BY <2>1 DEF LoopGood
  <2>4. ASSUME n > 0, Outcome(flow, n) = "failed" PROVE flow.answer = "failed"
    <3>1. n \in 1 .. n
      BY <2>1, <2>4
    <3>2. flow.place \notin {"round", "steps", "raised", "finally"} /\ flow.answer # "ok"
      BY <2>1, <2>4, <3>1 DEF LoopGood
    <3>3. flow.place = "returned"
      BY <3>2 DEF FlowRecords
    <3>4. flow.answer # "none" /\ flow.answer \in {"none", "ok", "failed"}
      BY <2>1, <3>3 DEF LoopGood, FlowRecords
    <3> QED
      BY <3>2, <3>4
  <2>5. ASSUME flow.answer = "ok", NEW k \in 1 .. Len(flow.steps), NEW r \in 1 .. flow.round
        PROVE  Calls(flow, k, r) = IF flow.steps[k] = "call" THEN 1 ELSE 0
    <3>1. CASE flow.steps[k] = "call"
      <4>1. IsMade(flow, k, r) /\ MadeOnce(flow)
        BY <2>1, <2>5, <3>1 DEF LoopGood
      <4> QED
        BY <3>1, <4>1, CallsAre
    <3>2. CASE flow.steps[k] # "call"
      <4>1. ~IsMade(flow, k, r)
        BY <2>1, <3>2 DEF LoopGood, IsMade
      <4> QED
        BY <3>2, <4>1, CallsAre
    <3> QED
      BY <3>1, <3>2
  <2> QED
    BY <2>2, <2>3, <2>4, <2>5
<1>2. ASSUME flow.kind = "parallel", flow.place = "returned", NEW k \in 1 .. Len(flow.steps)
      PROVE  Calls(flow, k, 0) = 1
  <2>1. IsMade(flow, k, 0) /\ MadeOnce(flow)
    BY <1>2 DEF FlowGood, ParallelGood
  <2> QED
    BY <2>1, CallsAre
<1>3. ASSUME flow.kind = "try", flow.place \in {"returned", "raised"}
      PROVE  /\ Calls(flow, 1, 0) = 1 /\ Calls(flow, 2, 0) = IF flow.guarded THEN 1 ELSE 0
             /\ flow.place = "returned" => flow.answer = Outcome(flow, 1)
  <2>1. TryGood(flow) /\ n = IF flow.guarded THEN 2 ELSE 1
    BY <1>3 DEF FlowGood, TryGood
  <2>2. MadeOnce(flow)
    BY <2>1 DEF TryGood, MadeOnce
  <2>3. IsMade(flow, 1, 0)
    <3>1. 1 \in 1 .. n
      BY <2>1
    <3> QED
      BY <2>1, <3>1 DEF TryGood, IsMade
  <2>4. CASE flow.guarded
    <3>1. 2 \in 1 .. n
      BY <2>1, <2>4
    <3>2. IsMade(flow, 2, 0)
      BY <2>1, <3>1 DEF TryGood, IsMade
    <3> QED
      BY <1>3, <2>1, <2>2, <2>3, <2>4, <3>2, CallsAre DEF TryGood
  <2>5. CASE ~flow.guarded
    <3>1. ~IsMade(flow, 2, 0)
      BY <2>1, <2>5 DEF TryGood, IsMade
    <3> QED
      BY <1>3, <2>1, <2>2, <2>3, <2>5, <3>1, CallsAre DEF TryGood
  <2> QED
    BY <2>4, <2>5
<1> QED
  BY <1>1, <1>2, <1>3

-------------------------------------------------------------------------------
(* A call more, an end: what becomes of a flow.                                 *)
IsCalled(new, flow, k, outcome) == LET n == Len(flow.calls) IN
    /\ new \in FlowRecords
    /\ new.kind = flow.kind /\ new.steps = flow.steps /\ new.place = flow.place
    /\ new.guarded = flow.guarded /\ new.round = flow.round /\ new.answer = flow.answer
    /\ Len(new.calls) = n + 1
    /\ \A i \in 1 .. n : new.calls[i] = flow.calls[i]
    /\ new.calls[n + 1].step = k /\ new.calls[n + 1].round = flow.round
    /\ new.calls[n + 1].outcome = outcome

LEMMA CalledIs ==
  ASSUME NEW flow \in FlowRecords, NEW k \in Nat, NEW outcome \in Outcomes3
  PROVE  IsCalled(Called(flow, k, outcome), flow, k, outcome)
<1> DEFINE new == Called(flow, k, outcome)
           n == Len(flow.calls)
<1>0. SUFFICES IsCalled(new, flow, k, outcome)
  OBVIOUS
<1> DEFINE call == [step |-> k, round |-> flow.round, outcome |-> outcome]
           more == Append(flow.calls, call)
<1>1. call \in CallRecords /\ call.step = k /\ call.round = flow.round /\ call.outcome = outcome
  BY StepsAre DEF CallRecords
<1> HIDE DEF call
<1>2. /\ more \in Seq(CallRecords) /\ Len(more) = n + 1
      /\ more[n + 1] = call
      /\ \A i \in 1 .. n : more[i] = flow.calls[i]
  BY <1>1, StepsAre, AppendProperties
<1> HIDE DEF more
<1>3. new = [flow EXCEPT !.calls = more]
  BY DEF Called, call, more
<1>4. /\ new \in FlowRecords /\ new.calls = more
      /\ new.kind = flow.kind /\ new.steps = flow.steps /\ new.place = flow.place
      /\ new.guarded = flow.guarded /\ new.round = flow.round /\ new.answer = flow.answer
  BY <1>2, <1>3 DEF FlowRecords
<1> HIDE DEF new
<1> QED
  BY <1>1, <1>2, <1>4 DEF IsCalled

LEMMA EndedIs ==
  ASSUME NEW flow \in FlowRecords, NEW place \in {"round", "steps", "finally", "returned", "raised"},
         NEW answer \in {"none", "ok", "failed"}
  PROVE  LET new == Ended(flow, place, answer) IN
         /\ new \in FlowRecords
         /\ new.kind = flow.kind /\ new.steps = flow.steps /\ new.calls = flow.calls
         /\ new.guarded = flow.guarded /\ new.round = flow.round
         /\ new.place = place /\ new.answer = answer
  BY DEF Ended, FlowRecords

(* A call not made yet in this round is made.                                   *)
LEMMA MadeMore ==
  ASSUME NEW flow \in FlowRecords, NEW new \in FlowRecords, NEW k,
         MadeOnce(flow), ~IsMade(flow, k, flow.round),
         Len(new.calls) = Len(flow.calls) + 1,
         \A i \in 1 .. Len(flow.calls) : new.calls[i] = flow.calls[i],
         new.calls[Len(flow.calls) + 1].step = k,
         new.calls[Len(flow.calls) + 1].round = flow.round
  PROVE  /\ MadeOnce(new)
         /\ \A q, r : IsMade(new, q, r) <=> IsMade(flow, q, r) \/ (q = k /\ r = flow.round)
<1>1. PICK n \in Nat : n = Len(flow.calls)
  BY StepsAre
<1>2. \A i \in 1 .. n + 1 : i \in 1 .. n \/ i = n + 1
  OBVIOUS
<1>3. \A i \in 1 .. n : ~(flow.calls[i].step = k /\ flow.calls[i].round = flow.round)
  BY <1>1 DEF IsMade
<1>4. MadeOnce(new)
  <2>1. ASSUME NEW i \in 1 .. n + 1, NEW j \in 1 .. n + 1,
               new.calls[i].step = new.calls[j].step, new.calls[i].round = new.calls[j].round
        PROVE  i = j
    <3>1. CASE i \in 1 .. n /\ j \in 1 .. n
      BY <1>1, <2>1, <3>1 DEF MadeOnce
    <3> QED
      BY <1>1, <1>2, <1>3, <2>1, <3>1
  <2> QED
    BY <1>1, <2>1 DEF MadeOnce
<1>5. ASSUME NEW q, NEW r
      PROVE  IsMade(new, q, r) <=> IsMade(flow, q, r) \/ (q = k /\ r = flow.round)
  <2>1. 1 .. n \subseteq 1 .. n + 1 /\ n + 1 \in 1 .. n + 1
    OBVIOUS
  <2>2. ASSUME NEW i \in 1 .. n, flow.calls[i].step = q, flow.calls[i].round = r
        PROVE  IsMade(new, q, r)
    BY <1>1, <2>1, <2>2 DEF IsMade
  <2>3. ASSUME q = k, r = flow.round PROVE IsMade(new, q, r)
    BY <1>1, <2>1, <2>3 DEF IsMade
  <2>4. ASSUME NEW i \in 1 .. n + 1, new.calls[i].step = q, new.calls[i].round = r
        PROVE  IsMade(flow, q, r) \/ (q = k /\ r = flow.round)
    BY <1>1, <1>2, <2>4 DEF IsMade
  <2> QED
    BY <1>1, <2>2, <2>3, <2>4 DEF IsMade
<1> QED
  BY <1>4, <1>5

LEMMA LeftAre ==
  ASSUME NEW flow \in FlowRecords, flow.kind = "loop"
  PROVE  /\ Left(flow) \in SUBSET Nat
         /\ \A k : k \in Left(flow) <=>
              /\ k \in 1 .. Len(flow.steps) /\ flow.steps[k] = "call"
              /\ \A i \in 1 .. Len(flow.calls) :
                   flow.calls[i].round = flow.round => flow.calls[i].step < k
<1>1. \A k : k \in Left(flow) <=>
         /\ k \in 1 .. Len(flow.steps) /\ flow.steps[k] = "call"
         /\ \A c \in ToSet(flow.calls) : c.round = flow.round => c.step < k
  BY DEF Left, Skipped
<1>2. \A k : (\A c \in ToSet(flow.calls) : c.round = flow.round => c.step < k)
         <=> \A i \in 1 .. Len(flow.calls) :
               flow.calls[i].round = flow.round => flow.calls[i].step < k
  BY StepsAre, Zenon
<1>3. Left(flow) \in SUBSET Nat
  BY StepsAre DEF Left
<1> QED
  BY <1>1, <1>2, <1>3

LEMMA FlowBecomes ==
  ASSUME FlowInv, NEW f \in 1 .. Len(flows), NEW new \in FlowRecords, FlowGood(new),
         Becomes(f, new)
  PROVE  FlowInv'
<1>1. flows \in Seq(FlowRecords) /\ flows' = [flows EXCEPT ![f] = new]
  BY DEF FlowInv, Becomes
<1>2. /\ flows' \in Seq(FlowRecords) /\ Len(flows') = Len(flows)
      /\ \A g \in 1 .. Len(flows) : flows'[g] = IF g = f THEN new ELSE flows[g]
  BY <1>1, ExceptSeq
<1>3. \A g \in 1 .. Len(flows') : FlowGood(flows'[g])
  BY <1>2 DEF FlowInv
<1> QED
  BY <1>2, <1>3 DEF FlowInv

LEMMA StartFlowInv ==
  ASSUME FlowInv, FlowCall PROVE FlowInv'
<1>1. PICK kind \in {"loop", "parallel", "try"}, steps \in StepLists, guarded \in BOOLEAN :
         StartFlow(kind, steps, guarded)
  BY DEF FlowCall
<1> DEFINE new == Flow(kind, steps, IF kind = "loop" THEN "round" ELSE "steps", guarded)
<1>2. /\ new \in FlowRecords /\ new.kind = kind /\ new.round = 0 /\ new.answer = "none"
      /\ Len(new.calls) = 0 /\ new.place = IF kind = "loop" THEN "round" ELSE "steps"
  <2>1. <<>> \in Seq(CallRecords) /\ Len(<<>>) = 0
    OBVIOUS
  <2> QED
    BY <2>1 DEF Flow, FlowRecords
<1> HIDE DEF new
<1>3. FlowGood(new)
  <2>1. MadeOnce(new)
    BY <1>2 DEF MadeOnce
  <2>2. kind = "loop" => LoopGood(new)
    BY <1>2, <2>1 DEF LoopGood
  <2>3. kind = "parallel" => ParallelGood(new)
    BY <1>2, <2>1 DEF ParallelGood
  <2>4. kind = "try" => TryGood(new)
    BY <1>2 DEF TryGood
  <2> QED
    BY <1>2, <2>2, <2>3, <2>4 DEF FlowGood
<1>4. flows \in Seq(FlowRecords) /\ flows' = Append(flows, new) /\ Len(flows) \in Nat
  BY <1>1, LenProperties DEF FlowInv, StartFlow, new
<1>5. /\ flows' \in Seq(FlowRecords) /\ Len(flows') = Len(flows) + 1
      /\ flows'[Len(flows) + 1] = new
      /\ \A g \in 1 .. Len(flows) : flows'[g] = flows[g]
  BY <1>2, <1>4, AppendProperties
<1>6. ASSUME NEW g \in 1 .. Len(flows') PROVE FlowGood(flows'[g])
  <2>1. g \in 1 .. Len(flows) \/ g = Len(flows) + 1
    BY <1>4, <1>5
  <2> QED
    BY <1>3, <1>5, <2>1 DEF FlowInv
<1> QED
  BY <1>5, <1>6 DEF FlowInv

(* The next call of a loop keeps it in order.                                   *)
LEMMA LoopCallIsGood ==
  ASSUME NEW flow \in FlowRecords, flow.kind = "loop", LoopGood(flow), flow.place = "steps",
         Left(flow) # {}, NEW k, k = Min(Left(flow)), NEW outcome \in Outcomes3,
         NEW new \in FlowRecords, new.kind = "loop", new.steps = flow.steps, new.round = flow.round,
         Len(new.calls) = Len(flow.calls) + 1,
         \A i \in 1 .. Len(flow.calls) : new.calls[i] = flow.calls[i],
         new.calls[Len(flow.calls) + 1].step = k,
         new.calls[Len(flow.calls) + 1].round = flow.round,
         new.calls[Len(flow.calls) + 1].outcome = outcome,
         new.place = (CASE outcome = "ok" -> "steps" [] outcome = "failed" -> "returned" [] OTHER -> "raised"),
         new.answer = IF outcome = "failed" THEN "failed" ELSE "none"
  PROVE  LoopGood(new)
<1>1. PICK n \in Nat : n = Len(flow.calls)
  BY StepsAre
<1>2. k \in Left(flow) /\ \A q \in Left(flow) : k <= q
  BY LeftAre, LeastNumber
<1>3. /\ k \in 1 .. Len(flow.steps) /\ flow.steps[k] = "call" /\ k \in Nat /\ Len(flow.steps) \in Nat
      /\ \A i \in 1 .. n : flow.calls[i].round = flow.round => flow.calls[i].step < k
  BY <1>1, <1>2, LeftAre, StepsAre
<1>4. ~IsMade(flow, k, flow.round)
  BY <1>1, <1>3 DEF IsMade
<1>5. /\ MadeOnce(new)
      /\ \A q, r : IsMade(new, q, r) <=> IsMade(flow, q, r) \/ (q = k /\ r = flow.round)
  BY <1>4, MadeMore DEF LoopGood
<1>6. ASSUME NEW i \in 1 .. n + 1
      PROVE  /\ new.calls[i].step \in 1 .. Len(new.steps)
             /\ new.steps[new.calls[i].step] = "call"
             /\ new.calls[i].round \in 1 .. new.round
  <2>1. CASE i \in 1 .. n
    BY <1>1, <2>1 DEF LoopGood
  <2>2. CASE i = n + 1
    <3>1. flow.round \in 1 .. flow.round
      BY StepsAre DEF LoopGood
    <3> QED
      BY <1>1, <1>3, <2>2, <3>1
  <2> QED
    BY <2>1, <2>2
<1>7. /\ \A i \in 1 .. n : Outcome(new, i) = "ok"
      /\ Outcome(new, n + 1) = outcome
  BY <1>1 DEF LoopGood, Outcome
<1>8. CASE outcome = "ok"
  <2>1. new.place = "steps" /\ new.answer = "none"
    BY <1>8
  <2>2. \A i \in 1 .. n + 1 : Outcome(new, i) = "ok"
    BY <1>7, <1>8
  <2>3. \A q \in 1 .. Len(new.steps), r \in 1 .. new.round - 1 :
           new.steps[q] = "call" => IsMade(new, q, r)
    BY <1>5 DEF LoopGood
  <2>4. ASSUME NEW q \in 1 .. Len(new.steps), new.steps[q] = "call", q \notin Left(new)
        PROVE  IsMade(new, q, new.round)
    <3>1. CASE q \notin Left(flow)
      <4>1. IsMade(flow, q, flow.round)
        BY <2>4, <3>1 DEF LoopGood
      <4> QED
        BY <1>5, <4>1
    <3>2. CASE q = k
      BY <1>5, <3>2
    <3>3. CASE q \in Left(flow) /\ q # k
      <4>1. k < q
        BY <1>2, <1>3, <3>3
      <4>2. ASSUME NEW i \in 1 .. n + 1, new.calls[i].round = new.round
            PROVE  new.calls[i].step < q
        <5>1. CASE i \in 1 .. n
          BY <1>1, <3>3, <4>2, <5>1, LeftAre
        <5>2. CASE i = n + 1
          BY <1>1, <4>1, <5>2
        <5> QED
          BY <5>1, <5>2
      <4>3. q \in Left(new)
        BY <1>1, <2>4, <4>2, LeftAre
      <4> QED
        BY <2>4, <4>3
    <3> QED
      BY <3>1, <3>2, <3>3
  <2> QED
    BY <1>1, <1>5, <1>6, <2>1, <2>2, <2>3, <2>4 DEF LoopGood
<1>9. CASE outcome = "failed"
  <2>1. new.place = "returned" /\ new.answer = "failed"
    BY <1>9
  <2>2. n + 1 > 0 /\ n + 1 - 1 = n
    OBVIOUS
  <2> QED
    BY <1>1, <1>5, <1>6, <1>7, <1>9, <2>1, <2>2 DEF LoopGood
<1>10. CASE outcome = "cancelled"
  <2>1. new.place = "raised" /\ new.answer = "none"
    BY <1>10
  <2>2. n + 1 > 0 /\ n + 1 - 1 = n
    OBVIOUS
  <2> QED
    BY <1>1, <1>5, <1>6, <1>7, <1>10, <2>1, <2>2 DEF LoopGood
<1> QED
  BY <1>8, <1>9, <1>10 DEF Outcomes3

(* The next round of a loop, or its end.                                       *)
LEMMA LoopRoundInv ==
  ASSUME FlowInv, NEW f \in 1 .. Len(flows), LoopRound(f) PROVE FlowInv'
<1>1. PICK flow \in FlowRecords : flow = flows[f] /\ flow.kind = "loop" /\ LoopGood(flow)
  BY ElementOfSeq DEF FlowInv, FlowGood, LoopRound
<1>2. /\ flow.place = "round"
      /\ \/ Becomes(f, [flow EXCEPT !.round = @ + 1, !.place = "steps"])
         \/ Becomes(f, Ended(flow, "returned", "ok"))
  BY <1>1 DEF LoopRound
<1>3. PICK n \in Nat, m \in Nat : n = Len(flow.calls) /\ m = flow.round
  BY StepsAre
<1>4. ASSUME NEW new \in FlowRecords, new.kind = "loop", new.steps = flow.steps,
             new.calls = flow.calls,
             \/ new.place = "steps" /\ new.answer = flow.answer /\ new.round = m + 1
             \/ new.place = "returned" /\ new.answer = "ok" /\ new.round = m
      PROVE  LoopGood(new)
  <2>1. /\ \A q, r : IsMade(new, q, r) <=> IsMade(flow, q, r)
        /\ MadeOnce(new) /\ \A i \in 1 .. n : Outcome(new, i) = "ok"
    BY <1>1, <1>2, <1>3, <1>4 DEF IsMade, MadeOnce, Outcome, LoopGood
  <2>2. ASSUME NEW i \in 1 .. n
        PROVE  /\ new.calls[i].step \in 1 .. Len(new.steps)
               /\ new.steps[new.calls[i].step] = "call"
               /\ new.calls[i].round \in 1 .. m /\ new.calls[i].round \in 1 .. new.round
    BY <1>1, <1>3, <1>4 DEF LoopGood
  <2>3. \A q \in 1 .. Len(new.steps), r \in 1 .. m : new.steps[q] = "call" => IsMade(new, q, r)
    BY <1>1, <1>2, <1>3, <1>4, <2>1 DEF LoopGood
  <2>4. CASE new.place = "steps" /\ new.round = m + 1 /\ new.answer = "none"
    <3>1. ASSUME NEW q \in 1 .. Len(new.steps), new.steps[q] = "call" PROVE q \in Left(new)
      <4>1. \A i \in 1 .. n : new.calls[i].round # new.round
        BY <2>2, <2>4
      <4> QED
        BY <1>3, <1>4, <3>1, <4>1, LeftAre
    <3>2. new.round - 1 = m /\ new.round > 0
      BY <2>4
    <3>3. \A q \in 1 .. Len(new.steps), r \in 1 .. new.round - 1 :
             new.steps[q] = "call" => IsMade(new, q, r)
      BY <2>3, <3>2
    <3>4. Len(new.calls) = n /\ \A i \in 1 .. n - 1 : Outcome(new, i) = "ok"
      BY <1>3, <1>4, <2>1
    <3> QED
      BY <2>1, <2>2, <2>4, <3>1, <3>2, <3>3, <3>4 DEF LoopGood
  <2>5. CASE new.place = "returned" /\ new.round = m /\ new.answer = "ok"
    BY <1>3, <1>4, <2>1, <2>2, <2>3, <2>5 DEF LoopGood
  <2> QED
    BY <1>1, <1>2, <1>4, <2>4, <2>5 DEF LoopGood
<1>5. CASE Becomes(f, [flow EXCEPT !.round = @ + 1, !.place = "steps"])
  <2> DEFINE new == [flow EXCEPT !.round = @ + 1, !.place = "steps"]
  <2>1. /\ new \in FlowRecords /\ new.kind = "loop" /\ new.steps = flow.steps
        /\ new.calls = flow.calls /\ new.place = "steps" /\ new.answer = flow.answer
        /\ new.round = m + 1
    <3>1. m + 1 \in Nat /\ new = [flow EXCEPT !.round = m + 1, !.place = "steps"]
      BY <1>3
    <3> HIDE DEF new
    <3> QED
      BY <1>1, <3>1 DEF FlowRecords
  <2> HIDE DEF new
  <2>2. FlowGood(new)
    BY <1>4, <2>1 DEF FlowGood
  <2> QED
    BY <1>5, <2>1, <2>2, FlowBecomes DEF new
<1>6. CASE Becomes(f, Ended(flow, "returned", "ok"))
  <2> DEFINE new == Ended(flow, "returned", "ok")
  <2>1. /\ new \in FlowRecords /\ new.kind = "loop" /\ new.steps = flow.steps
        /\ new.calls = flow.calls /\ new.place = "returned" /\ new.answer = "ok"
        /\ new.round = m
    BY <1>1, <1>3, EndedIs
  <2> HIDE DEF new
  <2>2. FlowGood(new)
    BY <1>4, <2>1 DEF FlowGood
  <2> QED
    BY <1>6, <2>1, <2>2, FlowBecomes DEF new
<1> QED
  BY <1>2, <1>5, <1>6

(* The next call of a round, or its end.                                        *)
LEMMA LoopStepInv ==
  ASSUME FlowInv, NEW f \in 1 .. Len(flows), LoopStep(f) PROVE FlowInv'
<1>1. PICK flow \in FlowRecords : flow = flows[f] /\ flow.kind = "loop" /\ LoopGood(flow)
  BY ElementOfSeq DEF FlowInv, FlowGood, LoopStep
<1>2. flow.place = "steps"
  BY <1>1 DEF LoopStep
<1>3. CASE Left(flow) = {} /\ Becomes(f, [flow EXCEPT !.place = "round"])
  <2> DEFINE new == [flow EXCEPT !.place = "round"]
  <2>1. /\ new \in FlowRecords /\ new.kind = "loop" /\ new.steps = flow.steps
        /\ new.calls = flow.calls /\ new.place = "round" /\ new.answer = flow.answer
        /\ new.round = flow.round
    BY <1>1 DEF FlowRecords
  <2> HIDE DEF new
  <2>2. /\ \A q, r : IsMade(new, q, r) <=> IsMade(flow, q, r)
        /\ MadeOnce(new) /\ \A i \in 1 .. Len(new.calls) : Outcome(new, i) = "ok"
    BY <1>1, <1>2, <2>1 DEF IsMade, MadeOnce, Outcome, LoopGood
  <2>3. ASSUME NEW q \in 1 .. Len(new.steps), NEW r \in 1 .. new.round, new.steps[q] = "call"
        PROVE  IsMade(new, q, r)
    <3>1. r \in 1 .. flow.round - 1 \/ r = flow.round
      BY <2>1, StepsAre
    <3> QED
      BY <1>1, <1>2, <1>3, <2>1, <2>2, <2>3, <3>1 DEF LoopGood
  <2>4. LoopGood(new)
    BY <1>1, <1>2, <2>1, <2>2, <2>3, StepsAre DEF LoopGood
  <2>5. FlowGood(new)
    BY <2>1, <2>4 DEF FlowGood
  <2> QED
    BY <1>3, <2>1, <2>5, FlowBecomes DEF new
<1>4. ASSUME Left(flow) # {}, NEW outcome \in Outcomes3,
             Becomes(f, CASE outcome = "ok" -> Called(flow, Min(Left(flow)), outcome)
                          [] outcome = "failed" -> Ended(Called(flow, Min(Left(flow)), outcome), "returned", "failed")
                          [] OTHER -> Ended(Called(flow, Min(Left(flow)), outcome), "raised", "none"))
      PROVE  FlowInv'
  <2>1. PICK k \in Nat : k = Min(Left(flow))
    BY <1>1, <1>4, LeftAre, LeastNumber
  <2> DEFINE called == Called(flow, k, outcome)
             n == Len(flow.calls)
             new == CASE outcome = "ok" -> called
                      [] outcome = "failed" -> Ended(called, "returned", "failed")
                      [] OTHER -> Ended(called, "raised", "none")
  <2>2. /\ called \in FlowRecords
        /\ called.kind = "loop" /\ called.steps = flow.steps /\ called.place = "steps"
        /\ called.round = flow.round /\ called.answer = "none"
        /\ Len(called.calls) = n + 1
        /\ \A i \in 1 .. n : called.calls[i] = flow.calls[i]
        /\ called.calls[n + 1].step = k
        /\ called.calls[n + 1].round = flow.round
        /\ called.calls[n + 1].outcome = outcome
    <3>1. flow.answer = "none"
      BY <1>1, <1>2 DEF LoopGood
    <3>2. IsCalled(called, flow, k, outcome)
      BY CalledIs
    <3> HIDE DEF called
    <3> QED
      BY <1>1, <1>2, <3>1, <3>2 DEF IsCalled
  <2> HIDE DEF called
  <2>3. /\ new \in FlowRecords
        /\ new.kind = "loop" /\ new.steps = flow.steps /\ new.round = flow.round
        /\ new.calls = called.calls
        /\ new.place = (CASE outcome = "ok" -> "steps" [] outcome = "failed" -> "returned" [] OTHER -> "raised")
        /\ new.answer = IF outcome = "failed" THEN "failed" ELSE "none"
    <3>1. CASE outcome = "ok"
      BY <2>2, <3>1
    <3>2. CASE outcome = "failed"
      <4>1. new = Ended(called, "returned", "failed")
        BY <3>2
      <4> QED
        BY <2>2, <3>2, <4>1, EndedIs
    <3>3. CASE outcome = "cancelled"
      <4>1. new = Ended(called, "raised", "none")
        BY <3>3
      <4> QED
        BY <2>2, <3>3, <4>1, EndedIs
    <3> QED
      BY <3>1, <3>2, <3>3 DEF Outcomes3
  <2>4. Becomes(f, new)
    BY <1>4, <2>1, Zenon DEF called
  <2> HIDE DEF new
  <2>5. LoopGood(new)
    BY <1>1, <1>2, <1>4, <2>1, <2>2, <2>3, LoopCallIsGood
  <2>6. FlowGood(new)
    BY <2>3, <2>5 DEF FlowGood
  <2> QED
    BY <2>3, <2>4, <2>6, FlowBecomes
<1> QED
  <2>1. Outcomes("loop", "call") = Outcomes3
    BY DEF Outcomes, Outcomes3
  <2> QED
    BY <1>1, <1>3, <1>4, <2>1, Zenon DEF LoopStep

LEMMA OutcomesAre ==
  ASSUME NEW kind, NEW type, NEW outcome \in Outcomes(kind, type) PROVE outcome \in Outcomes3
<1>1. Outcomes(kind, type) = Outcomes3 \/ Outcomes(kind, type) = {"ok", "failed"}
      \/ Outcomes(kind, type) = {"failed"}
  BY Zenon DEF Outcomes, Outcomes3
<1> QED
  BY <1>1 DEF Outcomes3

(* A sub-step of a parallel set ends, or all have; or the set is cancelled.        *)
LEMMA ParallelInv ==
  ASSUME FlowInv, NEW f \in 1 .. Len(flows), ParallelStep(f) \/ ParallelCancelled(f)
  PROVE  FlowInv'
<1>1. PICK flow \in FlowRecords : /\ flow = flows[f] /\ flow.kind = "parallel" /\ flow.place = "steps"
                                  /\ ParallelGood(flow)
  BY ElementOfSeq DEF FlowInv, FlowGood, ParallelStep, ParallelCancelled
<1> DEFINE made == {c.step : c \in ToSet(flow.calls)}
<1>2. /\ \A k : k \in made <=> IsMade(flow, k, 0)
      /\ \A k : IsMade(flow, k, 0) => k \in 1 .. Len(flow.steps)
  <2>1. \A i \in 1 .. Len(flow.calls) :
           flow.calls[i].step \in 1 .. Len(flow.steps) /\ flow.calls[i].round = 0
    BY <1>1 DEF ParallelGood
  <2>2. ASSUME NEW k \in made PROVE IsMade(flow, k, 0)
    <3>1. PICK c \in ToSet(flow.calls) : k = c.step
      OBVIOUS
    <3>2. PICK i \in 1 .. Len(flow.calls) : flow.calls[i] = c
      BY StepsAre
    <3> QED
      BY <2>1, <3>1, <3>2 DEF IsMade
  <2>3. ASSUME NEW k, IsMade(flow, k, 0) PROVE k \in made
    BY <2>3, StepsAre DEF IsMade
  <2>4. ASSUME NEW k, IsMade(flow, k, 0) PROVE k \in 1 .. Len(flow.steps)
    BY <2>1, <2>4 DEF IsMade
  <2> QED
    BY <2>2, <2>3, <2>4
<1> HIDE DEF made
<1>3. made \subseteq 1 .. Len(flow.steps)
  BY <1>2
<1>4. ASSUME NEW k \in (1 .. Len(flow.steps)) \ made, NEW outcome \in Outcomes("parallel", flow.steps[k]),
             Becomes(f, Called(flow, k, outcome))
      PROVE  FlowInv'
  <2> DEFINE new == Called(flow, k, outcome)
  <2>1. PICK n \in Nat : n = Len(flow.calls) /\ Len(flow.steps) \in Nat
    BY StepsAre
  <2>2. /\ new \in FlowRecords
        /\ new.kind = "parallel" /\ new.steps = flow.steps /\ new.place = "steps"
        /\ new.round = flow.round
        /\ Len(new.calls) = n + 1 /\ \A i \in 1 .. n : new.calls[i] = flow.calls[i]
        /\ new.calls[n + 1].step = k /\ new.calls[n + 1].round = flow.round
    <3>1. outcome \in Outcomes3 /\ k \in Nat
      BY <2>1, OutcomesAre
    <3>2. IsCalled(new, flow, k, outcome)
      BY <3>1, CalledIs
    <3> HIDE DEF new
    <3> QED
      BY <1>1, <2>1, <3>1, <3>2 DEF IsCalled
  <2> HIDE DEF new
  <2>3. flow.round = 0 /\ ~IsMade(flow, k, flow.round)
    BY <1>1, <1>2 DEF ParallelGood
  <2>4. MadeOnce(new)
    <3>1. MadeOnce(flow)
      BY <1>1 DEF ParallelGood
    <3> QED
      BY <2>1, <2>2, <2>3, <3>1, MadeMore
  <2>5. ASSUME NEW i \in 1 .. n + 1
        PROVE  new.calls[i].step \in 1 .. Len(new.steps) /\ new.calls[i].round = 0
    <3>1. CASE i \in 1 .. n
      BY <1>1, <2>1, <2>2, <3>1 DEF ParallelGood
    <3>2. CASE i = n + 1
      BY <2>2, <2>3, <3>2
    <3> QED
      BY <3>1, <3>2
  <2>6. ParallelGood(new)
    BY <2>1, <2>2, <2>3, <2>4, <2>5 DEF ParallelGood
  <2>7. FlowGood(new)
    BY <2>2, <2>6 DEF FlowGood
  <2> QED
    BY <1>4, <2>2, <2>7, FlowBecomes DEF new
<1>5. CASE Cardinality(made) = Len(flow.steps) /\ Becomes(f, Ended(flow, "returned", "ok"))
  <2> DEFINE new == Ended(flow, "returned", "ok")
  <2>1. made = 1 .. Len(flow.steps)
    <3>1. PICK m \in Nat : m = Len(flow.steps)
      BY StepsAre
    <3>2. IsFiniteSet(1 .. m) /\ Cardinality(1 .. m) = m
      BY FS_Interval
    <3> QED
      BY <1>3, <1>5, <3>1, <3>2, FS_Subset
  <2>2. /\ new \in FlowRecords /\ new.kind = "parallel" /\ new.steps = flow.steps
        /\ new.calls = flow.calls /\ new.round = flow.round /\ new.place = "returned"
    BY <1>1, EndedIs
  <2> HIDE DEF new
  <2>3. \A k \in 1 .. Len(new.steps) : IsMade(new, k, 0)
    BY <1>2, <2>1, <2>2 DEF IsMade
  <2>4. ParallelGood(new)
    BY <1>1, <2>2, <2>3 DEF ParallelGood, MadeOnce
  <2>5. FlowGood(new)
    BY <2>2, <2>4 DEF FlowGood
  <2> QED
    BY <1>5, <2>2, <2>5, FlowBecomes DEF new
<1>6. CASE ParallelCancelled(f)
  <2> DEFINE new == Ended(flow, "raised", "none")
  <2>1. /\ new \in FlowRecords /\ new.kind = "parallel" /\ new.steps = flow.steps
        /\ new.calls = flow.calls /\ new.round = flow.round /\ new.place = "raised"
    BY <1>1, EndedIs
  <2>2. Becomes(f, new)
    BY <1>1, <1>6 DEF ParallelCancelled
  <2> HIDE DEF new
  <2>3. ParallelGood(new)
    BY <1>1, <2>1 DEF ParallelGood, MadeOnce
  <2>4. FlowGood(new)
    BY <2>1, <2>3 DEF FlowGood
  <2> QED
    BY <2>1, <2>2, <2>4, FlowBecomes
<1> QED
  BY <1>1, <1>4, <1>5, <1>6 DEF ParallelStep, made

(* The step of a try.                                                         *)
LEMMA TryStepInv ==
  ASSUME FlowInv, NEW f \in 1 .. Len(flows), TryStep(f) PROVE FlowInv'
<1>1. PICK flow \in FlowRecords : /\ flow = flows[f] /\ flow.kind = "try" /\ flow.place = "steps"
                                  /\ TryGood(flow)
  BY ElementOfSeq DEF FlowInv, FlowGood, TryStep
<1>2. PICK outcome \in Outcomes("try", flow.steps[1]) :
         Becomes(f, Ended(Called(flow, 1, outcome),
                          CASE flow.guarded -> "finally"
                            [] ~flow.guarded /\ outcome = "cancelled" -> "raised"
                            [] OTHER -> "returned",
                          IF outcome = "cancelled" THEN "none" ELSE outcome))
  BY <1>1 DEF TryStep
<1> DEFINE called == Called(flow, 1, outcome)
           place == CASE flow.guarded -> "finally"
                      [] ~flow.guarded /\ outcome = "cancelled" -> "raised"
                      [] OTHER -> "returned"
           answer == IF outcome = "cancelled" THEN "none" ELSE outcome
           new == Ended(called, place, answer)
<1>3. outcome \in Outcomes3 /\ flow.guarded \in BOOLEAN /\ Len(flow.calls) = 0 /\ flow.round = 0
  BY <1>1, OutcomesAre DEF FlowRecords, TryGood
<1>4. /\ place \in {"finally", "raised", "returned"}
      /\ place = "finally" <=> flow.guarded
      /\ place = "returned" => outcome # "cancelled"
  BY <1>3
<1>5. answer \in {"none", "ok", "failed"} /\ (answer = "none" <=> outcome = "cancelled")
      /\ (answer # "none" => answer = outcome)
  BY <1>3 DEF Outcomes3
<1>6. /\ called \in FlowRecords /\ called.kind = "try" /\ called.guarded = flow.guarded
      /\ called.round = 0 /\ Len(called.calls) = 1
      /\ called.calls[1].step = 1 /\ called.calls[1].round = 0 /\ called.calls[1].outcome = outcome
  <2>1. IsCalled(called, flow, 1, outcome)
    BY <1>3, CalledIs
  <2> HIDE DEF called
  <2>2. /\ called.calls[0 + 1].step = 1 /\ called.calls[0 + 1].round = 0
        /\ called.calls[0 + 1].outcome = outcome
        /\ called \in FlowRecords /\ called.kind = "try" /\ called.guarded = flow.guarded
        /\ called.round = 0 /\ Len(called.calls) = 0 + 1
    BY <1>1, <1>3, <2>1 DEF IsCalled
  <2> QED
    BY <2>2
<1> HIDE DEF called, place, answer
<1>7. /\ new \in FlowRecords /\ new.kind = "try" /\ new.guarded = flow.guarded /\ new.round = 0
      /\ new.calls = called.calls /\ new.place = place /\ new.answer = answer
  BY <1>4, <1>5, <1>6, EndedIs
<1>8. Becomes(f, new)
  BY <1>2, Zenon DEF called, place, answer
<1> HIDE DEF new
<1>9. TryGood(new)
  <2>1. \A i \in 1 .. Len(new.calls) : i = 1
    BY <1>6, <1>7
  <2> QED
    BY <1>3, <1>4, <1>5, <1>6, <1>7, <2>1 DEF TryGood, Outcome
<1>10. FlowGood(new)
  BY <1>7, <1>9 DEF FlowGood
<1> QED
  BY <1>7, <1>8, <1>10, FlowBecomes

(* Its finally.                                                               *)
LEMMA FinallyStepInv ==
  ASSUME FlowInv, NEW f \in 1 .. Len(flows), FinallyStep(f) PROVE FlowInv'
<1>1. PICK flow \in FlowRecords : flow = flows[f] /\ flow.place = "finally" /\ FlowGood(flow)
  BY ElementOfSeq DEF FlowInv, FinallyStep
<1>2. flow.kind = "try" /\ TryGood(flow)
  <2>1. flow.kind \in {"loop", "parallel", "try"}
    BY DEF FlowRecords
  <2> QED
    BY <1>1, <2>1 DEF FlowGood, LoopGood, ParallelGood
<1>3. PICK outcome \in {"ok", "failed", "cancelled"} :
         Becomes(f, [Called(flow, 2, outcome) EXCEPT
                        !.place = IF outcome = "cancelled" \/ flow.answer = "none" THEN "raised"
                                  ELSE "returned"])
  BY <1>1 DEF FinallyStep
<1> DEFINE called == Called(flow, 2, outcome)
           place == IF outcome = "cancelled" \/ flow.answer = "none" THEN "raised" ELSE "returned"
           new == [called EXCEPT !.place = place]
<1>4. Len(flow.calls) = 1 /\ flow.round = 0 /\ flow.guarded
      /\ flow.calls[1].step = 1 /\ flow.calls[1].round = 0
      /\ (flow.answer = "none" \/ flow.answer = Outcome(flow, 1))
  BY <1>1, <1>2 DEF TryGood
<1>5. /\ called \in FlowRecords /\ called.kind = "try" /\ called.guarded
      /\ called.round = 0 /\ called.answer = flow.answer /\ Len(called.calls) = 2
      /\ called.calls[1] = flow.calls[1]
      /\ called.calls[2].step = 2 /\ called.calls[2].round = 0
  <2>1. IsCalled(called, flow, 2, outcome)
    BY CalledIs DEF Outcomes3
  <2> HIDE DEF called
  <2>2. /\ called.calls[1 + 1].step = 2 /\ called.calls[1 + 1].round = 0
        /\ called \in FlowRecords /\ called.kind = "try" /\ called.guarded
        /\ called.round = 0 /\ called.answer = flow.answer /\ Len(called.calls) = 1 + 1
        /\ \A i \in 1 .. 1 : called.calls[i] = flow.calls[i]
    BY <1>1, <1>2, <1>4, <2>1 DEF IsCalled
  <2> QED
    BY <2>2
<1>6. place \in {"raised", "returned"} /\ (place = "returned" => flow.answer # "none")
  OBVIOUS
<1> HIDE DEF called, place
<1>7. /\ new \in FlowRecords /\ new.kind = "try" /\ new.guarded /\ new.round = 0
      /\ new.calls = called.calls /\ new.place = place /\ new.answer = flow.answer
  BY <1>5, <1>6 DEF FlowRecords
<1>8. Becomes(f, new)
  BY <1>3 DEF called, place
<1> HIDE DEF new
<1>9. TryGood(new)
  <2>1. Len(new.calls) = 2 /\ \A i \in 1 .. 2 : i = 1 \/ i = 2
    BY <1>5, <1>7
  <2> QED
    BY <1>4, <1>5, <1>6, <1>7, <2>1 DEF TryGood, Outcome
<1>10. FlowGood(new)
  BY <1>7, <1>9 DEF FlowGood
<1> QED
  BY <1>7, <1>8, <1>10, FlowBecomes

LEMMA StepFlowInv == ASSUME FlowInv, FlowCall \/ FlowStep PROVE FlowInv'
  BY StartFlowInv, LoopRoundInv, LoopStepInv, ParallelInv, TryStepInv, FinallyStepInv DEF FlowStep

LEMMA InitFlowInv == FlowInit => FlowInv
  BY DEF FlowInit, FlowInv

-------------------------------------------------------------------------------
(* The ledger.                                                              *)
Node == Seq(Nat)

LEMMA LeavesAre ==
  ASSUME NEW n \in Nat
  PROVE  /\ Leaves(n) \in Seq(Node) /\ Len(Leaves(n)) = n
         /\ \A i \in 1 .. n : Leaves(n)[i] = <<i>>
<1>1. \A i \in 1 .. n : <<i>> \in Node
  BY DEF Node
<1> QED
  BY <1>1 DEF Leaves

LEMMA NextLayerIs ==
  ASSUME NEW l \in Seq(Node)
  PROVE  /\ NextLayer(l) \in Seq(Node) /\ Len(NextLayer(l)) = (Len(l) + 1) \div 2
         /\ \A i \in 1 .. (Len(l) + 1) \div 2 :
              NextLayer(l)[i] = l[2 * i - 1] \o (IF 2 * i <= Len(l) THEN l[2 * i] ELSE l[2 * i - 1])
<1> DEFINE m == (Len(l) + 1) \div 2
<1>1. Len(l) \in Nat /\ m \in Nat /\ 2 * m <= Len(l) + 1
  BY LenProperties
<1>2. ASSUME NEW i \in 1 .. m
      PROVE  l[2 * i - 1] \o (IF 2 * i <= Len(l) THEN l[2 * i] ELSE l[2 * i - 1]) \in Node
  <2>1. 2 * i - 1 \in 1 .. Len(l) /\ (2 * i <= Len(l) => 2 * i \in 1 .. Len(l))
    BY <1>1
  <2>2. l[2 * i - 1] \in Node /\ (2 * i <= Len(l) => l[2 * i] \in Node)
    BY <2>1, ElementOfSeq
  <2> QED
    BY <2>2, ConcatProperties DEF Node
<1>3. NextLayer(l) = [i \in 1 .. m |-> l[2 * i - 1] \o (IF 2 * i <= Len(l) THEN l[2 * i] ELSE l[2 * i - 1])]
  BY DEF NextLayer
<1> HIDE DEF m
<1>4. NextLayer(l) \in [1 .. m -> Node]
  BY <1>2, <1>3
<1>5. NextLayer(l) \in Seq(Node) /\ Len(NextLayer(l)) = m
  BY <1>1, <1>4
<1> QED
  BY <1>3, <1>5 DEF m

LEMMA LayersAre ==
  ASSUME NEW n \in Nat
  PROVE  /\ Layers(n)[0] = Leaves(n)
         /\ \A k \in Nat : Layers(n)[k] \in Seq(Node) /\ Layers(n)[k + 1] = NextLayer(Layers(n)[k])
<1> DEFINE S == Seq(Node)
           g == [k \in Nat |-> [l \in S |-> NextLayer(l)]]
           Is(f) == f = [k \in Nat |-> IF k = 0 THEN Leaves(n) ELSE NextLayer(f[k - 1])]
<1>1. g \in StepMaps(S)
  BY NextLayerIs DEF StepMaps
<1>2. Leaves(n) \in S
  BY LeavesAre
<1> HIDE DEF g
<1>3. PICK f \in [Nat -> S] : Iterates(f, Leaves(n), g)
  BY <1>1, <1>2, IterationExists
<1>4. \A k \in Nat : f[k + 1] = NextLayer(f[k])
  BY <1>3 DEF Iterates, g
<1>5. \A k \in Nat : k # 0 => f[k] = NextLayer(f[k - 1])
  <2>1. \A k \in Nat : k # 0 => k - 1 \in Nat /\ (k - 1) + 1 = k
    OBVIOUS
  <2> QED
    BY <1>4, <2>1
<1>6. Is(f)
  BY <1>3, <1>5 DEF Iterates
<1>7. PICK h : h = Layers(n) /\ Is(h)
  BY <1>6 DEF Layers
<1> HIDE DEF S
<1>8. h[0] = Leaves(n) /\ \A k \in Nat : h[k + 1] = NextLayer(h[k])
  <2>1. \A k \in Nat : k + 1 \in Nat /\ k + 1 # 0 /\ (k + 1) - 1 = k
    OBVIOUS
  <2> QED
    BY <1>7, <2>1
<1>9. \A k \in Nat : h[k] \in Seq(Node)
  <2> DEFINE X == {k \in Nat : h[k] \in Seq(Node)}
  <2>1. 0 \in X
    BY <1>8, LeavesAre
  <2>2. ASSUME NEW k \in Nat, k \in X PROVE k + 1 \in X
    <3>1. h[k] \in Seq(Node) /\ h[k + 1] = NextLayer(h[k])
      BY <1>8, <2>2
    <3>2. NextLayer(h[k]) \in Seq(Node)
      BY <3>1, NextLayerIs
    <3> QED
      BY <3>1, <3>2
  <2>3. X \in SUBSET Nat
    OBVIOUS
  <2> HIDE DEF X
  <2>4. X = Nat
    BY <2>1, <2>2, <2>3, AllNumbers
  <2> QED
    BY <2>4 DEF X
<1> QED
  BY <1>7, <1>8, <1>9

(* A layer is half as long as the one below it, so that the n-th has one node at most.    *)
LEMMA HeightIs ==
  ASSUME NEW n \in Nat, n > 0
  PROVE  /\ Height(n) \in Nat /\ Len(Layers(n)[Height(n)]) = 1
         /\ \A k \in Nat : k < Height(n) => Len(Layers(n)[k]) > 1
<1> DEFINE len(k) == Len(Layers(n)[k])
<1>1. \A k \in Nat : len(k) \in Nat /\ len(k + 1) = (len(k) + 1) \div 2
  BY LayersAre, NextLayerIs, LenProperties
<1>2. len(0) = n
  BY LayersAre, LeavesAre
<1> HIDE DEF len
<1>3. \A k \in Nat : len(k) >= 1 /\ (len(k) = 1 \/ len(k) + k <= n)
  <2> DEFINE X == {k \in Nat : len(k) >= 1 /\ (len(k) = 1 \/ len(k) + k <= n)}
  <2>1. 0 \in X
    BY <1>2
  <2>2. ASSUME NEW k \in Nat, k \in X PROVE k + 1 \in X
    <3>1. \A a, b \in Nat : b = (a + 1) \div 2 /\ a >= 1 =>
            b >= 1 /\ (b = 1 \/ b + 1 <= a)
      OBVIOUS
    <3>2. len(k) >= 1 /\ (len(k) = 1 \/ len(k) + k <= n)
      BY <2>2
    <3>3. len(k + 1) >= 1 /\ (len(k + 1) = 1 \/ len(k + 1) + 1 <= len(k))
      BY <1>1, <3>1, <3>2
    <3>4. len(k) = 1 => len(k + 1) = 1
      BY <1>1
    <3>5. len(k + 1) = 1 \/ len(k + 1) + (k + 1) <= n
      BY <1>1, <3>2, <3>3, <3>4
    <3> QED
      BY <3>3, <3>5
  <2>3. X \in SUBSET Nat
    OBVIOUS
  <2> HIDE DEF X
  <2>4. X = Nat
    BY <2>1, <2>2, <2>3, AllNumbers
  <2> QED
    BY <2>4 DEF X
<1> DEFINE X == {k \in 0 .. n : len(k) <= 1}
<1>4. len(n) = 1
  BY <1>1, <1>3
<1>5. n \in X /\ X \in SUBSET Nat
  BY <1>4
<1>6. Height(n) = Min(X)
  BY DEF Height, len
<1>7. Height(n) \in X /\ \A k \in X : Height(n) <= k
  BY <1>5, <1>6, LeastNumber
<1>8. Height(n) \in Nat /\ len(Height(n)) = 1 /\ Height(n) <= n
  BY <1>1, <1>3, <1>7
<1>9. ASSUME NEW k \in Nat, k < Height(n) PROVE len(k) > 1
  <2>1. k \in 0 .. n /\ k \notin X
    BY <1>7, <1>8, <1>9
  <2> QED
    BY <1>1, <2>1
<1> QED
  BY <1>8, <1>9 DEF len

LEMMA PlacesAre ==
  ASSUME NEW n \in Nat, NEW i \in 1 .. n
  PROVE  /\ Places(i)[0] = i
         /\ \A k \in Nat : /\ Places(i)[k + 1] = (Places(i)[k] + 1) \div 2
                           /\ Places(i)[k] \in 1 .. Len(Layers(n)[k])
<1> DEFINE g == [k \in Nat |-> [p \in Nat |-> (p + 1) \div 2]]
           Is(f) == f = [k \in Nat |-> IF k = 0 THEN i ELSE (f[k - 1] + 1) \div 2]
<1>1. g \in StepMaps(Nat) /\ i \in Nat
  BY DEF StepMaps
<1> HIDE DEF g
<1>3. PICK f \in [Nat -> Nat] : Iterates(f, i, g)
  BY <1>1, IterationExists
<1>4. \A k \in Nat : f[k + 1] = (f[k] + 1) \div 2
  BY <1>3 DEF Iterates, g
<1>5. \A k \in Nat : k # 0 => f[k] = (f[k - 1] + 1) \div 2
  <2>1. \A k \in Nat : k # 0 => k - 1 \in Nat /\ (k - 1) + 1 = k
    OBVIOUS
  <2> QED
    BY <1>4, <2>1
<1>6. Is(f)
  BY <1>3, <1>5 DEF Iterates
<1>7. PICK h : h = Places(i) /\ Is(h)
  BY <1>6 DEF Places
<1>8. h[0] = i /\ \A k \in Nat : h[k + 1] = (h[k] + 1) \div 2
  <2>1. \A k \in Nat : k + 1 \in Nat /\ k + 1 # 0 /\ (k + 1) - 1 = k
    OBVIOUS
  <2> QED
    BY <1>7, <2>1
<1> HIDE DEF Is
<1> DEFINE len(k) == Len(Layers(n)[k])
<1>9. \A k \in Nat : len(k) \in Nat /\ len(k + 1) = (len(k) + 1) \div 2
  BY LayersAre, NextLayerIs, LenProperties
<1>10. len(0) = n
  BY LayersAre, LeavesAre
<1> HIDE DEF len
<1>11. \A k \in Nat : h[k] \in 1 .. len(k)
  <2> DEFINE X == {k \in Nat : h[k] \in 1 .. len(k)}
  <2>1. 0 \in X
    BY <1>8, <1>10
  <2>2. ASSUME NEW k \in Nat, k \in X PROVE k + 1 \in X
    <3>1. h[k] \in 1 .. len(k) /\ len(k) \in Nat
      BY <1>9, <2>2
    <3>2. (h[k] + 1) \div 2 \in 1 .. (len(k) + 1) \div 2
      BY <3>1
    <3> QED
      BY <1>8, <1>9, <3>2
  <2>3. X \in SUBSET Nat
    OBVIOUS
  <2> HIDE DEF X
  <2>4. X = Nat
    BY <2>1, <2>2, <2>3, AllNumbers
  <2> QED
    BY <2>4 DEF X
<1> QED
  BY <1>7, <1>8, <1>11 DEF len

PathSteps == [left : BOOLEAN, hash : Node]

LEMMA CancelNodes ==
  \A s, t, v \in Node : (s \o v = t \o v => s = t) /\ (v \o s = v \o t => s = t)
  BY ConcatSimplifications DEF Node

LEMMA CombinedIs ==
  ASSUME NEW step \in PathSteps, NEW node \in Node
  PROVE  /\ Combined(step, node) \in Node
         /\ \A other \in Node : Combined(step, node) = Combined(step, other) => node = other
<1>1. step.left \in BOOLEAN /\ step.hash \in Node
  BY DEF PathSteps
<1>2. CASE step.left
  <2>1. \A x \in Node : Combined(step, x) = step.hash \o x
    BY <1>2 DEF Combined
  <2>2. \A x \in Node : Combined(step, x) \in Node
    BY <1>1, <2>1, ConcatProperties DEF Node
  <2>3. ASSUME NEW x \in Node, NEW y \in Node, Combined(step, x) = Combined(step, y) PROVE x = y
    <3>1. step.hash \o x = step.hash \o y
      BY <2>1, <2>3, Zenon
    <3> QED
      BY <1>1, <3>1, CancelNodes, Zenon
  <2> QED
    BY <2>2, <2>3
<1>3. CASE ~step.left
  <2>1. \A x \in Node : Combined(step, x) = x \o step.hash
    BY <1>3 DEF Combined
  <2>2. \A x \in Node : Combined(step, x) \in Node
    BY <1>1, <2>1, ConcatProperties DEF Node
  <2>3. ASSUME NEW x \in Node, NEW y \in Node, Combined(step, x) = Combined(step, y) PROVE x = y
    <3>1. x \o step.hash = y \o step.hash
      BY <2>1, <2>3, Zenon
    <3> QED
      BY <1>1, <3>1, CancelNodes, Zenon
  <2> QED
    BY <2>2, <2>3
<1> QED
  BY <1>1, <1>2, <1>3

LEMMA ClimbIs ==
  ASSUME NEW path \in Seq(PathSteps), NEW leaf \in Node
  PROVE  /\ Climb(path, leaf)[0] = leaf
         /\ \A k \in 0 .. Len(path) : Climb(path, leaf)[k] \in Node
         /\ \A k \in Nat : k < Len(path) =>
              Climb(path, leaf)[k + 1] = Combined(path[k + 1], Climb(path, leaf)[k])
<1> DEFINE m == Len(path)
           g == [k \in Nat |-> [x \in Node |-> IF k < m THEN Combined(path[k + 1], x) ELSE x]]
           Is(f) == f = [k \in 0 .. m |-> IF k = 0 THEN leaf ELSE Combined(path[k], f[k - 1])]
<1>1. m \in Nat /\ \A k \in Nat : k < m => path[k + 1] \in PathSteps
  <2>1. m \in Nat
    BY LenProperties
  <2>2. \A k \in Nat : k < m => k + 1 \in 1 .. m
    BY <2>1
  <2> QED
    BY <2>1, <2>2, ElementOfSeq
<1> HIDE DEF m
<1>2. g \in StepMaps(Node)
  BY <1>1, CombinedIs DEF StepMaps
<1> HIDE DEF g
<1>3. PICK f \in [Nat -> Node] : Iterates(f, leaf, g)
  BY <1>2, IterationExists
<1>4. \A k \in Nat : k < m => f[k + 1] = Combined(path[k + 1], f[k])
  BY <1>3 DEF Iterates, g
<1>5. \A k \in 0 .. m : k # 0 => f[k] = Combined(path[k], f[k - 1])
  <2>1. \A k \in 0 .. m : k # 0 => k - 1 \in Nat /\ k - 1 < m /\ (k - 1) + 1 = k
    BY <1>1
  <2> QED
    BY <1>4, <2>1
<1> DEFINE c == [k \in 0 .. m |-> f[k]]
<1>6. Is(c)
  <2>1. \A k \in 0 .. m : k # 0 => k - 1 \in 0 .. m
    BY <1>1
  <2>2. \A k \in 0 .. m : c[k] = IF k = 0 THEN leaf ELSE Combined(path[k], c[k - 1])
    BY <1>3, <1>5, <2>1 DEF Iterates
  <2> QED
    BY <2>2
<1> HIDE DEF c
<1>7. PICK h : h = Climb(path, leaf) /\ Is(h)
  BY <1>6 DEF Climb, m
<1>8. h[0] = leaf /\ \A k \in Nat : k < m => h[k + 1] = Combined(path[k + 1], h[k])
  <2>1. 0 \in 0 .. m /\ \A k \in Nat : k < m => k + 1 \in 0 .. m /\ k + 1 # 0 /\ (k + 1) - 1 = k
    BY <1>1
  <2> QED
    BY <1>7, <2>1
<1> HIDE DEF Is
<1>9. \A k \in 0 .. m : h[k] \in Node
  <2> DEFINE X == {k \in Nat : k <= m => h[k] \in Node}
  <2>1. 0 \in X
    BY <1>8
  <2>2. ASSUME NEW k \in Nat, k \in X PROVE k + 1 \in X
    BY <1>1, <1>8, <2>2, CombinedIs
  <2>3. X \in SUBSET Nat
    OBVIOUS
  <2> HIDE DEF X
  <2>4. X = Nat
    BY <2>1, <2>2, <2>3, AllNumbers
  <2> QED
    BY <1>1, <2>4 DEF X
<1> QED
  BY <1>7, <1>8, <1>9 DEF m

(* Different leaves climb to different nodes, whatever the path.                   *)
LEMMA ClimbBinds ==
  ASSUME NEW path \in Seq(PathSteps), NEW a \in Node, NEW b \in Node,
         Climb(path, a)[Len(path)] = Climb(path, b)[Len(path)]
  PROVE  a = b
<1> DEFINE m == Len(path)
           X == {k \in Nat : k <= m => Climb(path, a)[m - k] = Climb(path, b)[m - k]}
<1>1. m \in Nat
  BY LenProperties
<1>2. 0 \in X
  BY <1>1
<1>3. ASSUME NEW k \in Nat, k \in X PROVE k + 1 \in X
  <2> SUFFICES ASSUME k + 1 <= m PROVE Climb(path, a)[m - (k + 1)] = Climb(path, b)[m - (k + 1)]
    OBVIOUS
  <2> DEFINE j == m - (k + 1)
  <2>1. j \in Nat /\ j < m /\ j \in 0 .. m /\ j + 1 = m - k /\ j + 1 \in 1 .. m
    BY <1>1
  <2>2. Climb(path, a)[j + 1] = Climb(path, b)[j + 1]
    BY <1>1, <1>3, <2>1
  <2>3. path[j + 1] \in PathSteps
    BY <2>1, ElementOfSeq
  <2> HIDE DEF j
  <2>4. Combined(path[j + 1], Climb(path, a)[j]) = Combined(path[j + 1], Climb(path, b)[j])
    BY <2>1, <2>2, ClimbIs
  <2>5. Climb(path, a)[j] \in Node /\ Climb(path, b)[j] \in Node
    BY <2>1, ClimbIs
  <2>6. Climb(path, a)[j] = Climb(path, b)[j]
    BY <2>3, <2>4, <2>5, CombinedIs
  <2> QED
    BY <2>6 DEF j
<1>4. X \in SUBSET Nat
  OBVIOUS
<1> HIDE DEF X
<1>5. X = Nat
  BY <1>2, <1>3, <1>4, AllNumbers
<1>6. Climb(path, a)[0] = Climb(path, b)[0]
  BY <1>1, <1>5 DEF X
<1> QED
  BY <1>6, ClimbIs

(* The path of a leaf has a sibling for every layer below the root.                 *)
LEMMA AuditPathIs ==
  ASSUME NEW n \in Nat, NEW i \in 1 .. n
  PROVE  /\ AuditPath(n, i) \in Seq(PathSteps) /\ Len(AuditPath(n, i)) = Height(n)
         /\ \A k \in Nat : k < Height(n) =>
              AuditPath(n, i)[k + 1] = [left |-> Places(i)[k] % 2 = 0,
                                        hash |-> Sibling(Layers(n)[k], Places(i)[k])]
<1> DEFINE h == Height(n)
           place(k) == Places(i)[k]
           layer(k) == Layers(n)[k]
           Step(k) == [left |-> place(k) % 2 = 0, hash |-> Sibling(layer(k), place(k))]
<1>1. h \in Nat
  BY HeightIs
<1>2. \A k \in Nat : /\ place(k) \in 1 .. Len(layer(k)) /\ layer(k) \in Seq(Node)
                     /\ Len(layer(k)) \in Nat
  BY PlacesAre, LayersAre, LenProperties
<1>3. AuditPath(n, i) = [k \in 1 .. h |-> Step(k - 1)]
  BY DEF AuditPath
<1> HIDE DEF h, place, layer
<1>4. ASSUME NEW k \in Nat, k < h PROVE Step(k) \in PathSteps
  <2>1. /\ place(k) \in 1 .. Len(layer(k)) /\ Len(layer(k)) \in Nat
        /\ \A j \in 1 .. Len(layer(k)) : layer(k)[j] \in Node
    BY <1>2, ElementOfSeq
  <2>2. \A p \in Nat : p % 2 = 0 /\ p >= 1 => p - 1 >= 1
    OBVIOUS
  <2>3. Sibling(layer(k), place(k)) \in Node
    BY <2>1, <2>2 DEF Sibling
  <2> QED
    BY <2>3 DEF PathSteps
<1>5. \A k \in 1 .. h : k - 1 \in Nat /\ k - 1 < h
  BY <1>1
<1>6. AuditPath(n, i) \in [1 .. h -> PathSteps]
  BY <1>3, <1>4, <1>5
<1>7. AuditPath(n, i) \in Seq(PathSteps) /\ Len(AuditPath(n, i)) = h
  BY <1>1, <1>6
<1>8. ASSUME NEW k \in Nat, k < h PROVE AuditPath(n, i)[k + 1] = Step(k)
  <2>1. k + 1 \in 1 .. h /\ (k + 1) - 1 = k
    BY <1>1, <1>8
  <2> HIDE DEF Step
  <2> QED
    BY <1>3, <2>1
<1> QED
  BY <1>7, <1>8 DEF h, place, layer

(* From its own leaf a path climbs through the nodes above it, to the root.           *)
LEMMA ClimbsToTheRoot ==
  ASSUME NEW n \in Nat, NEW i \in 1 .. n
  PROVE  Climb(AuditPath(n, i), <<i>>)[Height(n)] = RootOf(n)
<1> DEFINE h == Height(n)
           path == AuditPath(n, i)
           place(k) == Places(i)[k]
           layer(k) == Layers(n)[k]
           c(k) == Climb(path, <<i>>)[k]
           X == {k \in Nat : k <= h => c(k) = layer(k)[place(k)]}
<1>1. <<i>> \in Node
  BY DEF Node
<1>2. h \in Nat /\ Len(layer(h)) = 1
  BY HeightIs
<1>3. c(0) = <<i>> /\ \A k \in Nat : k < h => c(k + 1) = Combined(path[k + 1], c(k))
  BY <1>1, ClimbIs, AuditPathIs
<1>4. \A k \in Nat : k < h =>
        path[k + 1] = [left |-> place(k) % 2 = 0, hash |-> Sibling(layer(k), place(k))]
  BY AuditPathIs
<1>5. \A k \in Nat : /\ place(k) \in 1 .. Len(layer(k)) /\ Len(layer(k)) \in Nat
                     /\ place(k + 1) = (place(k) + 1) \div 2
                     /\ place(k + 1) \in 1 .. Len(layer(k + 1))
                     /\ layer(k) \in Seq(Node) /\ layer(k + 1) = NextLayer(layer(k))
  <2>1. ASSUME NEW k \in Nat
        PROVE  layer(k) \in Seq(Node) /\ layer(k + 1) = NextLayer(layer(k)) /\ Len(layer(k)) \in Nat
    BY LayersAre, LenProperties
  <2>2. ASSUME NEW k \in Nat
        PROVE  /\ place(k) \in 1 .. Len(layer(k)) /\ place(k + 1) = (place(k) + 1) \div 2
               /\ place(k + 1) \in 1 .. Len(layer(k + 1))
    <3>1. k + 1 \in Nat
      OBVIOUS
    <3> QED
      BY <3>1, PlacesAre
  <2> QED
    BY <2>1, <2>2
<1>6. 0 \in X
  <2>1. layer(0)[place(0)] = <<i>>
    BY PlacesAre, LayersAre, LeavesAre
  <2> QED
    BY <1>3, <2>1
<1> HIDE DEF h, path, place, layer, c
<1>7. ASSUME NEW k \in Nat, k \in X PROVE k + 1 \in X
  <2> SUFFICES ASSUME k + 1 <= h PROVE c(k + 1) = layer(k + 1)[place(k + 1)]
    OBVIOUS
  <2> DEFINE l == layer(k)
             p == place(k)
             q == place(k + 1)
  <2>1. c(k + 1) = IF p % 2 = 0 THEN Sibling(l, p) \o l[p] ELSE l[p] \o Sibling(l, p)
    <3>1. k < h /\ c(k) = l[p]
      BY <1>2, <1>7
    <3>2. path[k + 1] = [left |-> p % 2 = 0, hash |-> Sibling(l, p)]
      BY <1>4, <3>1, Zenon
    <3>3. c(k + 1) = Combined(path[k + 1], l[p])
      BY <1>3, <3>1
    <3>4. c(k + 1) = Combined([left |-> p % 2 = 0, hash |-> Sibling(l, p)], l[p])
      BY <3>2, <3>3, Zenon
    <3> HIDE DEF l, p
    <3>5. CASE p % 2 = 0
      BY <3>4, <3>5 DEF Combined
    <3>6. CASE p % 2 # 0
      BY <3>4, <3>6 DEF Combined
    <3> QED
      BY <3>5, <3>6
  <2>2. /\ p \in 1 .. Len(l) /\ Len(l) \in Nat /\ q = (p + 1) \div 2
        /\ q \in 1 .. (Len(l) + 1) \div 2
    BY <1>5, NextLayerIs
  <2>3. layer(k + 1)[q] = l[2 * q - 1] \o (IF 2 * q <= Len(l) THEN l[2 * q] ELSE l[2 * q - 1])
    BY <1>5, <2>2, NextLayerIs
  <2> HIDE DEF l, p, q
  <2>4. CASE p % 2 = 0
    <3>1. 2 * q = p /\ 2 * q - 1 = p - 1 /\ 2 * q <= Len(l)
      BY <2>2, <2>4
    <3>2. Sibling(l, p) = l[p - 1]
      BY <2>4 DEF Sibling
    <3> QED
      BY <2>1, <2>3, <2>4, <3>1, <3>2 DEF q
  <2>5. CASE p % 2 # 0
    <3>1. 2 * q = p + 1 /\ 2 * q - 1 = p /\ (2 * q <= Len(l) <=> p < Len(l))
      BY <2>2, <2>5
    <3>2. Sibling(l, p) = IF p < Len(l) THEN l[p + 1] ELSE l[p]
      BY <2>5 DEF Sibling
    <3> QED
      BY <2>1, <2>3, <2>5, <3>1, <3>2 DEF q
  <2> QED
    BY <2>4, <2>5
<1>8. X \in SUBSET Nat
  OBVIOUS
<1> HIDE DEF X
<1>9. X = Nat
  BY <1>6, <1>7, <1>8, AllNumbers
<1>10. c(h) = layer(h)[place(h)]
  BY <1>2, <1>9 DEF X
<1>11. place(h) = 1
  <2>1. place(h) \in 1 .. Len(layer(h))
    BY <1>2, <1>5
  <2> QED
    BY <1>2, <2>1
<1> QED
  BY <1>10, <1>11 DEF c, layer, h, path, RootOf

(* A proof given is of an entry there was, at the size there was.                    *)
ProofOf(n, i) == [leaf |-> <<i>>, size |-> n, root |-> RootOf(n), path |-> AuditPath(n, i)]

LedgerInv ==
    /\ entries \in Seq(ActionIds)
    /\ root = RootOf(Len(entries))
    /\ \A proof \in proofs : \E n \in Nat : \E i \in 1 .. n : proof = ProofOf(n, i)

LEMMA InitLedgerInv == LedgerInit => LedgerInv
  BY EmptySeq DEF LedgerInit, LedgerInv, RootOf, EmptyRoot

LEMMA StepLedgerInv == ASSUME LedgerInv, LedgerCall PROVE LedgerInv'
<1>1. Len(entries) \in Nat
  BY LenProperties DEF LedgerInv
<1>2. ASSUME NEW id \in ActionIds, RecordAction(id) PROVE LedgerInv'
  <2>1. entries' \in Seq(ActionIds)
    BY <1>2, AppendProperties DEF RecordAction, LedgerInv
  <2> QED
    BY <1>2, <2>1 DEF RecordAction, LedgerInv
<1>3. ASSUME NEW id \in ActionIds, GenerateInclusionProof(id) PROVE LedgerInv'
  <2>1. PICK i \in 1 .. Len(entries) :
          /\ proofs' = proofs \cup {[leaf |-> <<i>>, size |-> Len(entries), root |-> root,
                                     path |-> AuditPath(Len(entries), i)]}
          /\ UNCHANGED <<entries, root>>
    BY <1>3 DEF GenerateInclusionProof
  <2>2. proofs' = proofs \cup {ProofOf(Len(entries), i)}
    BY <2>1 DEF LedgerInv, ProofOf
  <2> QED
    BY <1>1, <2>1, <2>2 DEF LedgerInv
<1> QED
  BY <1>2, <1>3 DEF LedgerCall

LEMMA InvProofsBind == LedgerInv => ProofsBindTheirEntry
<1> SUFFICES ASSUME LedgerInv, NEW proof \in proofs
             PROVE  /\ proof.root = RootOf(proof.size)
                    /\ \A j \in 1 .. Len(entries) : Verify(proof, <<j>>) <=> <<j>> = proof.leaf
  BY DEF ProofsBindTheirEntry
<1>0. PICK n \in Nat : \E i \in 1 .. n : proof = ProofOf(n, i)
  BY DEF LedgerInv
<1>1. PICK i \in 1 .. n : proof = ProofOf(n, i)
  BY <1>0
<1>2. /\ proof.leaf = <<i>> /\ proof.size = n /\ proof.root = RootOf(n)
      /\ proof.path = AuditPath(n, i)
  BY <1>1 DEF ProofOf
<1>3. AuditPath(n, i) \in Seq(PathSteps) /\ Len(AuditPath(n, i)) = Height(n)
  BY AuditPathIs
<1>4. Climb(AuditPath(n, i), <<i>>)[Height(n)] = RootOf(n)
  BY ClimbsToTheRoot
<1>5. Len(entries) \in Nat
  BY LenProperties DEF LedgerInv
<1>6. ASSUME NEW j \in 1 .. Len(entries)
      PROVE  Verify(proof, <<j>>) <=> <<j>> = proof.leaf
  <2>1. <<j>> \in Node /\ <<i>> \in Node
    BY <1>5 DEF Node
  <2>2. Verify(proof, <<j>>) <=> Climb(AuditPath(n, i), <<j>>)[Height(n)] = RootOf(n)
    BY <1>2, <1>3 DEF Verify
  <2>3. Climb(AuditPath(n, i), <<j>>)[Height(n)] = RootOf(n) => <<j>> = <<i>>
    BY <1>3, <1>4, <2>1, ClimbBinds
  <2> QED
    BY <1>2, <1>4, <2>2, <2>3
<1> QED
  BY <1>2, <1>6

-------------------------------------------------------------------------------
(* The quality report.                                                       *)

(* A total is the last of the partial sums.                                    *)
PartialSums(s, numbers) ==
    s[0] = 0 /\ \A k \in Nat : k < Len(numbers) => s[k + 1] = s[k] + numbers[k + 1]

LEMMA TotalIs ==
  ASSUME NEW numbers \in Seq(Int)
  PROVE  \E s \in [Nat -> Int] : PartialSums(s, numbers) /\ Total(numbers) = s[Len(numbers)]
<1> DEFINE m == Len(numbers)
           g == [k \in Nat |-> [x \in Int |-> IF k < m THEN x + numbers[k + 1] ELSE x]]
           Is(f) == f = [k \in 0 .. m |-> IF k = 0 THEN 0 ELSE f[k - 1] + numbers[k]]
<1>1. m \in Nat /\ \A k \in Nat : k < m => numbers[k + 1] \in Int
  <2>1. m \in Nat
    BY LenProperties
  <2>2. \A k \in Nat : k < m => k + 1 \in 1 .. m
    BY <2>1
  <2> QED
    BY <2>1, <2>2, ElementOfSeq
<1> HIDE DEF m
<1>2. g \in StepMaps(Int)
  BY <1>1 DEF StepMaps
<1> HIDE DEF g
<1>3. PICK f \in [Nat -> Int] : Iterates(f, 0, g)
  <2>1. 0 \in Int
    OBVIOUS
  <2> QED
    BY <1>2, <2>1, IterationExists
<1>4. f[0] = 0 /\ \A k \in Nat : k < m => f[k + 1] = f[k] + numbers[k + 1]
  BY <1>3 DEF Iterates, g
<1>5. \A k \in 0 .. m : k # 0 => f[k] = f[k - 1] + numbers[k]
  <2>1. \A k \in 0 .. m : k # 0 => k - 1 \in Nat /\ k - 1 < m /\ (k - 1) + 1 = k
    BY <1>1
  <2> QED
    BY <1>4, <2>1
<1> DEFINE c == [k \in 0 .. m |-> f[k]]
<1>6. Is(c)
  <2>1. \A k \in 0 .. m : k # 0 => k - 1 \in 0 .. m
    BY <1>1
  <2>2. \A k \in 0 .. m : c[k] = IF k = 0 THEN 0 ELSE c[k - 1] + numbers[k]
    BY <1>4, <1>5, <2>1
  <2> QED
    BY <2>2
<1> HIDE DEF c
<1>7. PICK h : Total(numbers) = h[m] /\ Is(h)
  BY <1>6 DEF Total, m
<1>8. h[0] = 0 /\ \A k \in Nat : k < m => h[k + 1] = h[k] + numbers[k + 1]
  <2>1. 0 \in 0 .. m /\ \A k \in Nat : k < m => k + 1 \in 0 .. m /\ k + 1 # 0 /\ (k + 1) - 1 = k
    BY <1>1
  <2> QED
    BY <1>7, <2>1
<1> HIDE DEF Is
<1>9. h[m] = f[m]
  <2> DEFINE X == {k \in Nat : k <= m => h[k] = f[k]}
  <2>1. 0 \in X
    BY <1>4, <1>8
  <2>2. ASSUME NEW k \in Nat, k \in X PROVE k + 1 \in X
    <3> SUFFICES ASSUME k + 1 <= m PROVE h[k + 1] = f[k + 1]
      OBVIOUS
    <3>1. k < m /\ h[k] = f[k]
      BY <1>1, <2>2
    <3> QED
      BY <1>4, <1>8, <3>1
  <2>3. X \in SUBSET Nat
    OBVIOUS
  <2> HIDE DEF X
  <2>4. X = Nat
    BY <2>1, <2>2, <2>3, AllNumbers
  <2>5. m \in X /\ m <= m
    BY <1>1, <2>4
  <2> QED
    BY <2>5 DEF X
<1> QED
  BY <1>3, <1>4, <1>7, <1>9 DEF PartialSums, m

(* Products of whole numbers: what the arithmetic below needs of them.            *)
LEMMA Products ==
  ASSUME NEW f \in Nat
  PROVE  /\ \A x, y \in Int : x * y \in Int /\ f * (x + y) = f * x + f * y
         /\ \A x, y, b, c \in Int : f * x <= y /\ f * b <= c => f * (x + b) <= y + c
         /\ \A x, y, b, c \in Int : 2 * y <= f * x /\ 2 * c <= f * b => 2 * (y + c) <= f * (x + b)
<1>1. \A x, y \in Int : x * y \in Int
  OBVIOUS
<1>2. \A x, y \in Int : f * (x + y) = f * x + f * y
  OBVIOUS
<1>3. ASSUME NEW x \in Int, NEW y \in Int, NEW b \in Int, NEW c \in Int
      PROVE  /\ f * x <= y /\ f * b <= c => f * (x + b) <= y + c
             /\ 2 * y <= f * x /\ 2 * c <= f * b => 2 * (y + c) <= f * (x + b)
  <2> DEFINE p == f * x
             q == f * b
  <2>1. p \in Int /\ q \in Int /\ f * (x + b) = p + q
    BY <1>1, <1>2
  <2>2. /\ p <= y /\ q <= c => p + q <= y + c
        /\ 2 * y <= p /\ 2 * c <= q => 2 * (y + c) <= p + q
    <3> HIDE DEF p, q
    <3> QED
      BY <2>1
  <2> QED
    BY <2>1, <2>2
<1> QED
  BY <1>1, <1>2, <1>3

(* Totals are bounded as their numbers are.                                    *)
LEMMA TotalsCompare ==
  ASSUME NEW v \in Seq(Int), NEW w \in Seq(Int), Len(v) = Len(w), NEW f \in Nat
  PROVE  /\ Total(v) \in Int /\ Total(w) \in Int
         /\ (\A i \in 1 .. Len(v) : f * v[i] <= w[i]) => f * Total(v) <= Total(w)
         /\ (\A i \in 1 .. Len(v) : 2 * w[i] <= f * v[i]) => 2 * Total(w) <= f * Total(v)
<1> DEFINE m == Len(v)
<1>1. m \in Nat /\ \A k \in Nat : k < m => k + 1 \in 1 .. m /\ v[k + 1] \in Int /\ w[k + 1] \in Int
  <2>1. m \in Nat
    BY LenProperties
  <2>2. \A k \in Nat : k < m => k + 1 \in 1 .. m
    BY <2>1
  <2> QED
    BY <2>1, <2>2, ElementOfSeq
<1>2. PICK s \in [Nat -> Int] : PartialSums(s, v) /\ Total(v) = s[m]
  BY TotalIs
<1>3. PICK t \in [Nat -> Int] : PartialSums(t, w) /\ Total(w) = t[m]
  BY TotalIs
<1>4. /\ s[0] = 0 /\ \A k \in Nat : k < m => s[k + 1] = s[k] + v[k + 1]
      /\ t[0] = 0 /\ \A k \in Nat : k < m => t[k + 1] = t[k] + w[k + 1]
  BY <1>2, <1>3 DEF PartialSums
<1> HIDE DEF m
<1>5. ASSUME \A i \in 1 .. m : f * v[i] <= w[i] PROVE f * s[m] <= t[m]
  <2> DEFINE X == {k \in Nat : k <= m => f * s[k] <= t[k]}
  <2>1. 0 \in X
    <3>1. f * 0 = 0
      OBVIOUS
    <3> QED
      BY <1>4, <3>1
  <2>2. ASSUME NEW k \in Nat, k \in X PROVE k + 1 \in X
    <3> SUFFICES ASSUME k + 1 <= m PROVE f * s[k + 1] <= t[k + 1]
      OBVIOUS
    <3>1. k < m /\ f * s[k] <= t[k] /\ f * v[k + 1] <= w[k + 1]
      BY <1>1, <1>5, <2>2
    <3>2. /\ s[k + 1] = s[k] + v[k + 1] /\ t[k + 1] = t[k] + w[k + 1]
          /\ s[k] \in Int /\ t[k] \in Int /\ v[k + 1] \in Int /\ w[k + 1] \in Int
      BY <1>1, <1>2, <1>3, <1>4, <3>1
    <3>3. \A x, y, b, c \in Int : f * x <= y /\ f * b <= c => f * (x + b) <= y + c
      BY Products, Zenon
    <3>4. f * (s[k] + v[k + 1]) <= t[k] + w[k + 1]
      BY <3>1, <3>2, <3>3, Zenon
    <3> QED
      BY <3>2, <3>4, Zenon
  <2>3. X \in SUBSET Nat
    OBVIOUS
  <2> HIDE DEF X
  <2>4. X = Nat
    BY <2>1, <2>2, <2>3, AllNumbers
  <2>5. m \in X /\ m <= m
    BY <1>1, <2>4
  <2> QED
    BY <2>5 DEF X
<1>6. ASSUME \A i \in 1 .. m : 2 * w[i] <= f * v[i] PROVE 2 * t[m] <= f * s[m]
  <2> DEFINE X == {k \in Nat : k <= m => 2 * t[k] <= f * s[k]}
  <2>1. 0 \in X
    <3>1. f * 0 = 0
      OBVIOUS
    <3> QED
      BY <1>4, <3>1
  <2>2. ASSUME NEW k \in Nat, k \in X PROVE k + 1 \in X
    <3> SUFFICES ASSUME k + 1 <= m PROVE 2 * t[k + 1] <= f * s[k + 1]
      OBVIOUS
    <3>1. k < m /\ 2 * t[k] <= f * s[k] /\ 2 * w[k + 1] <= f * v[k + 1]
      BY <1>1, <1>6, <2>2
    <3>2. /\ s[k + 1] = s[k] + v[k + 1] /\ t[k + 1] = t[k] + w[k + 1]
          /\ s[k] \in Int /\ t[k] \in Int /\ v[k + 1] \in Int /\ w[k + 1] \in Int
      BY <1>1, <1>2, <1>3, <1>4, <3>1
    <3>3. \A x, y, b, c \in Int : 2 * y <= f * x /\ 2 * c <= f * b => 2 * (y + c) <= f * (x + b)
      BY Products, Zenon
    <3>4. 2 * (t[k] + w[k + 1]) <= f * (s[k] + v[k + 1])
      BY <3>1, <3>2, <3>3, Zenon
    <3> QED
      BY <3>2, <3>4, Zenon
  <2>3. X \in SUBSET Nat
    OBVIOUS
  <2> HIDE DEF X
  <2>4. X = Nat
    BY <2>1, <2>2, <2>3, AllNumbers
  <2>5. m \in X /\ m <= m
    BY <1>1, <2>4
  <2> QED
    BY <2>5 DEF X
<1> QED
  BY <1>1, <1>2, <1>3, <1>5, <1>6 DEF m

(* Something positive among what is not negative counts.                             *)
LEMMA TotalIsPositive ==
  ASSUME NEW v \in Seq(Int), \A i \in 1 .. Len(v) : v[i] >= 0,
         NEW j \in 1 .. Len(v), v[j] > 0
  PROVE  Total(v) > 0
<1> DEFINE m == Len(v)
<1>1. m \in Nat /\ \A k \in Nat : k < m => k + 1 \in 1 .. m /\ v[k + 1] \in Int
  <2>1. m \in Nat
    BY LenProperties
  <2>2. \A k \in Nat : k < m => k + 1 \in 1 .. m
    BY <2>1
  <2> QED
    BY <2>1, <2>2, ElementOfSeq
<1>2. PICK s \in [Nat -> Int] : PartialSums(s, v) /\ Total(v) = s[m]
  BY TotalIs
<1>3. s[0] = 0 /\ \A k \in Nat : k < m => s[k + 1] = s[k] + v[k + 1]
  BY <1>2 DEF PartialSums
<1> DEFINE X == {k \in Nat : k <= m => s[k] >= 0 /\ (j <= k => s[k] > 0)}
<1>4. 0 \in X
  BY <1>3
<1>5. ASSUME NEW k \in Nat, k \in X PROVE k + 1 \in X
  <2> SUFFICES ASSUME k + 1 <= m PROVE s[k + 1] >= 0 /\ (j <= k + 1 => s[k + 1] > 0)
    OBVIOUS
  <2>1. k < m /\ v[k + 1] >= 0 /\ v[k + 1] \in Int /\ s[k + 1] = s[k] + v[k + 1] /\ s[k] \in Int
    BY <1>1, <1>2, <1>3
  <2>2. s[k] >= 0 /\ (j <= k => s[k] > 0)
    BY <1>1, <1>5, <2>1
  <2>3. j = k + 1 => v[k + 1] > 0
    OBVIOUS
  <2>4. j \in Nat /\ (j <= k + 1 => j <= k \/ j = k + 1)
    BY <1>1
  <2>5. \A x, y \in Int : x >= 0 /\ y >= 0 => x + y >= 0 /\ (x > 0 \/ y > 0 => x + y > 0)
    OBVIOUS
  <2>6. s[k] + v[k + 1] >= 0 /\ (s[k] > 0 \/ v[k + 1] > 0 => s[k] + v[k + 1] > 0)
    BY <2>1, <2>2, <2>5, Zenon
  <2> QED
    BY <2>1, <2>2, <2>3, <2>4, <2>6, Zenon
<1>6. X \in SUBSET Nat
  OBVIOUS
<1> HIDE DEF X
<1>7. X = Nat
  BY <1>4, <1>5, <1>6, AllNumbers
<1> QED
  BY <1>1, <1>2, <1>7 DEF X

(* A target that is not 0 goes a whole number of times into the full score.          *)
LEMMA Quotient ==
  ASSUME NEW target \in Targets, target # 0
  PROVE  /\ target \in Nat /\ Full \in Nat /\ Full \div target \in Nat
         /\ target * (Full \div target) = Full
<1>1. target \in Nat \ {0} /\ Full \in Nat /\ Full % target = 0
  BY UnitsAssumption DEF Targets
<1>2. /\ Full \div target \in Nat
      /\ Full = target * (Full \div target) + (Full % target)
  BY <1>1
<1>3. target * (Full \div target) \in Int
  BY <1>1, <1>2
<1> QED
  BY <1>1, <1>2, <1>3

LEMMA TimesMore ==
  ASSUME NEW x \in Int, NEW y \in Int, NEW q \in Nat, x >= y
  PROVE  x * q >= y * q /\ q * x >= q * y
<1>1. (x - y) * q >= 0
  OBVIOUS
<1>2. (x - y) * q = x * q - y * q /\ x * q = q * x /\ y * q = q * y
  OBVIOUS
<1>3. x * q \in Int /\ y * q \in Int
  OBVIOUS
<1> DEFINE a == x * q
           b == y * q
<1> HIDE DEF a, b
<1>4. a - b >= 0 /\ a \in Int /\ b \in Int
  BY <1>1, <1>2, <1>3 DEF a, b
<1>5. a >= b
  BY <1>4
<1> QED
  BY <1>2, <1>5 DEF a, b

(* A metric that passes has the full score at least, and every score is a number.      *)
LEMMA ScoreIs ==
  ASSUME NEW value \in Int, NEW def \in Definitions
  PROVE  Score(value, def) \in Int /\ (Passes(value, def) => Score(value, def) >= Full)
<1>1. \A a, b \in Int : /\ Min({a, b}) \in {a, b} /\ Min({a, b}) <= a /\ Min({a, b}) <= b
                        /\ Max({a, b}) \in {a, b} /\ Max({a, b}) >= a /\ Max({a, b}) >= b
  <2> TAKE a, b \in Int
  <2>1. \E x \in {a, b} : \A y \in {a, b} : x <= y
    OBVIOUS
  <2>2. \E x \in {a, b} : \A y \in {a, b} : x >= y
    OBVIOUS
  <2> QED
    BY <2>1, <2>2 DEF Min, Max
<1>2. /\ def.target \in Targets /\ def.target \in Nat /\ def.lower \in BOOLEAN
      /\ Full \in Nat /\ Full > 0 /\ Unit \in Nat /\ Unit > 0
  BY UnitsAssumption DEF Definitions, Targets
<1>3. CASE ~def.lower /\ def.target = 0
  BY <1>2, <1>3 DEF Score, Passes
<1>4. CASE ~def.lower /\ def.target # 0
  <2> DEFINE q == Full \div def.target
             s == value * q
  <2>1. q \in Nat /\ def.target * q = Full
    BY <1>2, <1>4, Quotient
  <2>2. Score(value, def) = Min({Full, s})
    BY <1>4 DEF Score
  <2> HIDE DEF q
  <2>3. s \in Int
    BY <2>1
  <2>4. value >= def.target => s >= Full
    BY <1>2, <2>1, TimesMore
  <2> HIDE DEF s
  <2>5. Min({Full, s}) \in {Full, s}
    <3>1. Full \in Int
      BY <1>2
    <3> QED
      BY <1>1, <2>3, <3>1, Zenon
  <2> QED
    BY <1>2, <1>4, <2>2, <2>3, <2>4, <2>5 DEF Passes
<1>5. CASE def.lower /\ def.target = 0
  <2> DEFINE u == Full \div Unit
             s == Full - value * u
  <2>1. u \in Nat
    BY <1>2
  <2>2. Score(value, def) = IF value = 0 THEN Full ELSE Max({0, s})
    BY <1>5 DEF Score
  <2> HIDE DEF u
  <2>3. value * u \in Int /\ (value <= 0 => value * u <= 0)
    <3>1. value * u \in Int /\ 0 * u = 0
      BY <2>1
    <3>2. value <= 0 => 0 * u >= value * u
      BY <2>1, TimesMore
    <3> QED
      BY <3>1, <3>2
  <2>4. s \in Int /\ (value <= 0 => s >= Full)
    <3> DEFINE p == value * u
    <3>1. p \in Int /\ (value <= 0 => p <= 0)
      BY <2>3
    <3> HIDE DEF p
    <3>2. Full - p \in Int /\ (value <= 0 => Full - p >= Full)
      BY <1>2, <3>1
    <3> QED
      BY <3>2 DEF p
  <2> HIDE DEF s
  <2>5. Max({0, s}) \in {0, s} /\ Max({0, s}) >= s
    <3>1. 0 \in Int /\ s \in Int
      BY <2>4
    <3> QED
      BY <1>1, <3>1, Zenon
  <2> QED
    BY <1>2, <1>5, <2>2, <2>4, <2>5 DEF Passes
<1>6. CASE def.lower /\ def.target # 0
  <2> DEFINE q == Full \div def.target
             s == 2 * Full - value * q
  <2>1. q \in Nat
    BY <1>2, <1>6, Quotient
  <2>2. Score(value, def) = IF value <= def.target THEN Full ELSE Max({0, s})
    BY <1>6 DEF Score
  <2> HIDE DEF q
  <2>3. s \in Int
    <3>1. value * q \in Int /\ 2 * Full \in Int
      BY <1>2, <2>1
    <3> QED
      BY <3>1
  <2> HIDE DEF s
  <2>4. Max({0, s}) \in {0, s}
    BY <1>1, <2>3
  <2> QED
    BY <1>2, <1>6, <2>2, <2>3, <2>4 DEF Passes
<1> QED
  BY <1>2, <1>3, <1>4, <1>5, <1>6

QualityInv ==
    /\ profiles \in [DOMAIN Defaults -> Seq(Definitions)]
    /\ DOMAIN latest = Metrics
    /\ \A m \in Metrics : latest[m].measured \in BOOLEAN /\ latest[m].value \in Int

LEMMA NotMeasuredIs == NotMeasured.measured \in BOOLEAN /\ NotMeasured.value \in Int
<1>1. NotMeasured.value \in Int
  BY DEF NotMeasured
<1>2. NotMeasured.measured = FALSE
  BY DEF NotMeasured
<1> QED
  BY <1>1, <1>2, Zenon

LEMMA InitQualityInv == QualityInit => QualityInv
<1> SUFFICES ASSUME QualityInit PROVE QualityInv
  OBVIOUS
<1>2. profiles \in [DOMAIN Defaults -> Seq(Definitions)]
  BY DefaultsAssumption DEF QualityInit, DefaultsWellFormed
<1>3. latest = [m \in Metrics |-> NotMeasured]
  BY DEF QualityInit
<1> QED
  BY <1>2, <1>3, NotMeasuredIs DEF QualityInv

LEMMA StepQualityInv == ASSUME QualityInv, QualityCall PROVE QualityInv'
<1>0. Defaults \in [DOMAIN Defaults -> Seq(Definitions)]
  BY DefaultsAssumption DEF DefaultsWellFormed
<1>1. \A a \in DOMAIN Defaults : Defaults[a] \in Seq(Definitions) /\ Defaults[a][1] \in Definitions
  <2> SUFFICES ASSUME NEW a \in DOMAIN Defaults
               PROVE  Defaults[a] \in Seq(Definitions) /\ Defaults[a][1] \in Definitions
    OBVIOUS
  <2>1. Defaults[a] \in Seq(Definitions) /\ Defaults[a] # <<>>
    BY DefaultsAssumption DEF DefaultsWellFormed
  <2>2. 1 \in 1 .. Len(Defaults[a])
    BY <2>1, EmptySeq
  <2> QED
    BY <2>1, <2>2, ElementOfSeq
<1>2. ASSUME NEW m \in Metrics, NEW v \in Values, RecordMeasurement(m, v) PROVE QualityInv'
  <2>1. v \in Int
    BY ValuesAssumption
  <2> QED
    BY <1>2, <2>1 DEF RecordMeasurement, QualityInv
<1>3. ASSUME NEW a \in DOMAIN Defaults, NEW b \in DOMAIN Defaults,
             AddMetric(a, Defaults[b][1]) \/ SetProfile(a, <<Defaults[b][1]>>)
      PROVE  QualityInv'
  <2>1. profiles[a] \in Seq(Definitions) /\ Defaults[b][1] \in Definitions
    BY <1>1 DEF QualityInv
  <2>2. Append(profiles[a], Defaults[b][1]) \in Seq(Definitions) /\ <<Defaults[b][1]>> \in Seq(Definitions)
    BY <2>1, AppendProperties
  <2>3. profiles' \in [DOMAIN Defaults -> Seq(Definitions)]
    BY <1>3, <2>2 DEF AddMetric, SetProfile, QualityInv
  <2>4. UNCHANGED latest
    BY <1>3 DEF AddMetric, SetProfile
  <2> QED
    BY <2>3, <2>4 DEF QualityInv
<1>4. CASE ClearMeasurements \/ Reset
  <2>1. profiles' \in [DOMAIN Defaults -> Seq(Definitions)]
    BY <1>0, <1>4 DEF ClearMeasurements, Reset, QualityInv
  <2>2. latest' = [m \in Metrics |-> NotMeasured]
    BY <1>4 DEF ClearMeasurements, Reset
  <2> QED
    BY <2>1, <2>2, NotMeasuredIs DEF QualityInv
<1> QED
  BY <1>2, <1>3, <1>4 DEF QualityCall

LEMMA InvReportAgrees == QualityInv => ReportAgreesWithItsLines
<1> SUFFICES ASSUME QualityInv, NEW a \in DOMAIN profiles
    PROVE  LET lines == ToSet(profiles[a])  some == \E d \in lines : Status(d) # "not-measured" IN
           /\ some /\ (\A d \in lines : Status(d) # "failed") => ReportPassed(a)
           /\ (\A d \in lines : Status(d) = "not-measured" \/ 2 * Score(latest[d.name].value, d) <= Full) =>
                ~ReportPassed(a)
  BY DEF ReportAgreesWithItsLines
<1>0. Full \in Nat /\ Full > 0
  BY UnitsAssumption
<1> DEFINE n == Len(profiles[a])
           line(i) == profiles[a][i]
           score(i) == Score(latest[line(i).name].value, line(i))
<1>1. /\ n \in Nat /\ \A i \in 1 .. n : line(i) \in Definitions
      /\ ToSet(profiles[a]) = {line(i) : i \in 1 .. n}
  <2>1. profiles[a] \in Seq(Definitions)
    BY DEF QualityInv
  <2> QED
    BY <2>1, LenProperties, ElementOfSeq DEF ToSet
<1>2. \A i \in 1 .. n : /\ line(i).name \in Metrics /\ line(i).weight \in Nat \ {0}
                        /\ latest[line(i).name].measured \in BOOLEAN
                        /\ latest[line(i).name].value \in Int
  BY <1>1 DEF Definitions, QualityInv
<1>3. \A i \in 1 .. n : /\ score(i) \in Int
                        /\ Passes(latest[line(i).name].value, line(i)) => score(i) >= Full
  BY <1>1, <1>2, ScoreIs
<1>4. \A i \in 1 .. n : Counts(line(i)) \in Nat /\ Counts(line(i)) * score(i) \in Int
  <2>1. \A i \in 1 .. n : Counts(line(i)) \in Nat
    BY <1>2 DEF Counts
  <2>2. \A x, y \in Int : x * y \in Int
    OBVIOUS
  <2> QED
    BY <1>3, <2>1, <2>2
<1>5. /\ Weights(a) = [i \in 1 .. n |-> Counts(line(i))]
      /\ Scores(a) = [i \in 1 .. n |-> Counts(line(i)) * score(i)]
  BY DEF Weights, Scores
<1> HIDE DEF n, line, score
<1>6. /\ Weights(a) \in Seq(Int) /\ Scores(a) \in Seq(Int)
      /\ Len(Weights(a)) = n /\ Len(Scores(a)) = n
  <2>1. Weights(a) \in [1 .. n -> Int] /\ Scores(a) \in [1 .. n -> Int]
    BY <1>4, <1>5
  <2> QED
    BY <1>1, <2>1
<1>7. /\ Total(Weights(a)) \in Int /\ Total(Scores(a)) \in Int
      /\ (\A i \in 1 .. n : Full * Weights(a)[i] <= Scores(a)[i]) => Full * Total(Weights(a)) <= Total(Scores(a))
      /\ (\A i \in 1 .. n : 2 * Scores(a)[i] <= Full * Weights(a)[i]) => 2 * Total(Scores(a)) <= Full * Total(Weights(a))
  BY <1>0, <1>6, TotalsCompare
<1> DEFINE goal == Full * Total(Weights(a))
<1>8. ReportPassed(a) <=> Total(Weights(a)) > 0 /\ 100 * Total(Scores(a)) >= 70 * goal
  BY DEF ReportPassed, MinimumPassScore
<1>11. goal \in Int /\ (Total(Weights(a)) > 0 => goal > 0)
  BY <1>0, <1>7
<1>9. ASSUME NEW j \in 1 .. n, Status(line(j)) # "not-measured",
             \A i \in 1 .. n : Status(line(i)) # "failed"
      PROVE  ReportPassed(a)
  <2>1. ASSUME NEW i \in 1 .. n PROVE Full * Weights(a)[i] <= Scores(a)[i]
    <3>1. CASE latest[line(i).name].measured
      <4>1. Passes(latest[line(i).name].value, line(i))
        BY <1>9, <3>1 DEF Status
      <4>2. score(i) >= Full /\ score(i) \in Int
        BY <1>3, <4>1
      <4>3. Counts(line(i)) \in Nat
        BY <1>4
      <4>4. Counts(line(i)) * score(i) >= Counts(line(i)) * Full
        BY <1>0, <4>2, <4>3, TimesMore
      <4>5. Counts(line(i)) * Full = Full * Counts(line(i))
        BY <1>0, <4>3
      <4>6. Weights(a)[i] = Counts(line(i)) /\ Scores(a)[i] = Counts(line(i)) * score(i)
        BY <1>5
      <4>7. \A x, y \in Int : x >= y => y <= x
        OBVIOUS
      <4>8. Counts(line(i)) * score(i) \in Int /\ Counts(line(i)) * Full \in Int
        BY <1>0, <1>4, <4>3
      <4> QED
        BY <4>4, <4>5, <4>6, <4>7, <4>8, Zenon
    <3>2. CASE ~latest[line(i).name].measured
      <4>1. Counts(line(i)) = 0
        BY <3>2 DEF Counts
      <4>2. Weights(a)[i] = 0 /\ Scores(a)[i] = 0 * score(i)
        BY <1>5, <4>1
      <4>3. 0 * score(i) = 0 /\ Full * 0 = 0
        BY <1>0, <1>3
      <4> QED
        BY <4>2, <4>3
    <3> QED
      BY <3>1, <3>2
  <2>2. Weights(a)[j] > 0 /\ \A i \in 1 .. n : Weights(a)[i] >= 0
    <3>1. latest[line(j).name].measured
      BY <1>9 DEF Status
    <3>2. Counts(line(j)) \in Nat \ {0}
      BY <1>2, <3>1 DEF Counts
    <3> QED
      BY <1>4, <1>5, <3>2
  <2>3. Total(Weights(a)) > 0
    BY <1>6, <2>2, TotalIsPositive
  <2>4. goal <= Total(Scores(a))
    BY <1>7, <2>1
  <2> HIDE DEF goal
  <2>5. 100 * Total(Scores(a)) >= 70 * goal
    BY <1>7, <1>11, <2>3, <2>4
  <2> QED
    BY <1>8, <2>3, <2>5
<1>10. ASSUME \A i \in 1 .. n : Status(line(i)) = "not-measured" \/ 2 * score(i) <= Full
       PROVE  ~ReportPassed(a)
  <2>1. ASSUME NEW i \in 1 .. n PROVE 2 * Scores(a)[i] <= Full * Weights(a)[i]
    <3>1. CASE latest[line(i).name].measured
      <4>1. 2 * score(i) <= Full /\ score(i) \in Int
        BY <1>3, <1>10, <3>1 DEF Status
      <4>2. Counts(line(i)) \in Nat
        BY <1>4
      <4>3. Counts(line(i)) * Full >= Counts(line(i)) * (2 * score(i))
        BY <1>0, <4>1, <4>2, TimesMore
      <4>4. /\ Counts(line(i)) * Full = Full * Counts(line(i))
            /\ Counts(line(i)) * (2 * score(i)) = 2 * (Counts(line(i)) * score(i))
        BY <1>0, <4>1, <4>2
      <4>5. Weights(a)[i] = Counts(line(i)) /\ Scores(a)[i] = Counts(line(i)) * score(i)
        BY <1>5
      <4>6. \A x, y \in Int : x >= y => y <= x
        OBVIOUS
      <4>7. Counts(line(i)) * (2 * score(i)) \in Int /\ Counts(line(i)) * Full \in Int
        BY <1>0, <4>1, <4>2
      <4> QED
        BY <4>3, <4>4, <4>5, <4>6, <4>7, Zenon
    <3>2. CASE ~latest[line(i).name].measured
      <4>1. Counts(line(i)) = 0
        BY <3>2 DEF Counts
      <4>2. Weights(a)[i] = 0 /\ Scores(a)[i] = 0 * score(i)
        BY <1>5, <4>1
      <4>3. 0 * score(i) = 0 /\ Full * 0 = 0
        BY <1>0, <1>3
      <4> QED
        BY <4>2, <4>3
    <3> QED
      BY <3>1, <3>2
  <2>2. 2 * Total(Scores(a)) <= goal
    BY <1>7, <2>1
  <2> HIDE DEF goal
  <2>3. ~(Total(Weights(a)) > 0 /\ 100 * Total(Scores(a)) >= 70 * goal)
    BY <1>7, <1>11, <2>2
  <2> QED
    BY <1>8, <2>3
<1> QED
  BY <1>1, <1>9, <1>10 DEF score

-------------------------------------------------------------------------------
(* The books together: a step is of one book and leaves the others as they are.  *)
LEMMA OneBookAtATime ==
  ASSUME [Next]_vars
  PROVE  /\ PhaseCall \/ HookReturns \/ UNCHANGED phaseVars
         /\ RunCall \/ RunStep \/ UNCHANGED runVars
         /\ GovernanceCall \/ UNCHANGED governanceVars
         /\ QualityCall \/ UNCHANGED qualityVars
         /\ LedgerCall \/ UNCHANGED ledgerVars
         /\ FlowCall \/ FlowStep \/ UNCHANGED flowVars
<1>1. CASE Next
  BY <1>1 DEF Next, PhaseBook, RunBook, GovernanceBook, QualityBook, LedgerBook,
              ParserBook, FlowBook
<1>2. CASE UNCHANGED vars
  BY <1>2 DEF vars
<1> QED
  BY <1>1, <1>2

(* A project that was paused, and no other, knows the phase it was paused in, which it may  *)
(* resume to: also with transitions that run within the hooks of others, and of a machine  *)
(* restored from what was saved; one made PAUSED does not know until it has left that      *)
(* phase (transition_to, resume, from_dict).                                   *)
THEOREM PausesAreRemembered == Spec => []PausedKnowsWhere
<1>1. Init => PhaseInv
  BY InitPhaseInv DEF Init
<1>2. PhaseInv /\ [Next]_vars => PhaseInv'
  <2> SUFFICES ASSUME PhaseInv, [Next]_vars PROVE PhaseInv'
    OBVIOUS
  <2>1. CASE PhaseCall \/ HookReturns
    BY <2>1, StepPhaseInv
  <2>2. CASE UNCHANGED phaseVars
    BY <2>2 DEF phaseVars, PhaseInv, Knows, HooksAreLegal
  <2> QED
    BY <2>1, <2>2, OneBookAtATime
<1>3. PhaseInv => PausedKnowsWhere
  BY DEF PhaseInv, Knows, PausedKnowsWhere, Last
<1> QED
  BY <1>1, <1>2, <1>3, PTL DEF Spec

(* A cancellation by name strikes the run of the agent begun last, or none, whatever older   *)
(* runs of that agent return in between (run_agent, cancel_agent).                 *)
THEOREM CancellationsAreAimed == Spec => CancelHitsTheNewest
<1>1. Init => RunInv
  BY InitRunInv DEF Init
<1>2. RunInv /\ [Next]_vars => RunInv'
  <2> SUFFICES ASSUME RunInv, [Next]_vars PROVE RunInv'
    OBVIOUS
  <2>1. CASE RunCall \/ RunStep
    BY <2>1, StepRunInv
  <2>2. CASE UNCHANGED runVars
    BY <2>2 DEF runVars, RunInv, Settled, OwnState, IsNewest
  <2> QED
    BY <2>1, <2>2, OneBookAtATime
<1>3. RunInv /\ [Next]_vars =>
        [\A r \in 1 .. Len(runs) :
             /\ runs[r].kind = "runner"
             /\ runs[r].status # "CANCELLED" /\ runs'[r].status = "CANCELLED"
             => IsNewest(r)]_runVars
  <2> SUFFICES ASSUME RunInv, [Next]_vars, ~UNCHANGED runVars,
                      NEW r \in 1 .. Len(runs), runs[r].kind = "runner",
                      runs[r].status # "CANCELLED", runs'[r].status = "CANCELLED"
               PROVE  IsNewest(r)
    OBVIOUS
  <2> QED
    BY CancelledIsNewest, OneBookAtATime
<1> QED
  BY <1>1, <1>2, <1>3, PTL DEF Spec, CancelHitsTheNewest

(* A decision on record is what the votes on record give (submit_vote, aggregate_decision).   *)
THEOREM DecisionsStayCurrent == Spec => []DecisionIsCurrent
<1>1. Init => GovernanceInv
  BY InitGovernanceInv DEF Init
<1>2. GovernanceInv /\ [Next]_vars => GovernanceInv'
  <2> SUFFICES ASSUME GovernanceInv, [Next]_vars PROVE GovernanceInv'
    OBVIOUS
  <2>1. CASE GovernanceCall
    BY <2>1, StepGovernanceInv
  <2>2. CASE UNCHANGED governanceVars
    BY <2>2, DecisionStaysCurrent DEF governanceVars, GovernanceInv
  <2> QED
    BY <2>1, <2>2, OneBookAtATime
<1>3. GovernanceInv => DecisionIsCurrent
  BY DEF GovernanceInv
<1> QED
  BY <1>1, <1>2, <1>3, PTL DEF Spec

(* A loop answers ok only when it made every call of every round once and all succeeded, a  *)
(* parallel set only when each sub-step was made once, and a try what its step answered,     *)
(* its finally made once (loop, parallel, try_catch).                              *)
THEOREM FlowsAnswer == Spec => []FlowsAnswerForTheirSteps
<1>1. Init => FlowInv
  BY InitFlowInv DEF Init
<1>2. FlowInv /\ [Next]_vars => FlowInv'
  <2> SUFFICES ASSUME FlowInv, [Next]_vars PROVE FlowInv'
    OBVIOUS
  <2>1. CASE FlowCall \/ FlowStep
    BY <2>1, StepFlowInv
  <2>2. CASE UNCHANGED flowVars
    BY <2>2 DEF flowVars, FlowInv
  <2> QED
    BY <2>1, <2>2, OneBookAtATime
<1>3. FlowInv => FlowsAnswerForTheirSteps
  BY InvFlowsAnswer
<1> QED
  BY <1>1, <1>2, <1>3, PTL DEF Spec

(* A report passes when every metric measured passes, and fails when none is measured or all  *)
(* miss by half, for any positive weights, any targets that a full score can be counted in,   *)
(* the code's own among them, and whatever profiles were edited meanwhile                 *)
(* (generate_report, _normalize_score).                                          *)
THEOREM ReportsAgree == Spec => []ReportAgreesWithItsLines
<1>1. Init => QualityInv
  BY InitQualityInv DEF Init
<1>2. QualityInv /\ [Next]_vars => QualityInv'
  <2> SUFFICES ASSUME QualityInv, [Next]_vars PROVE QualityInv'
    OBVIOUS
  <2>1. CASE QualityCall
    BY <2>1, StepQualityInv
  <2>2. CASE UNCHANGED qualityVars
    BY <2>2 DEF qualityVars, QualityInv
  <2> QED
    BY <2>1, <2>2, OneBookAtATime
<1>3. QualityInv => ReportAgreesWithItsLines
  BY InvReportAgrees
<1> QED
  BY <1>1, <1>2, <1>3, PTL DEF Spec

(* A proof of inclusion verifies for its own leaf and for no other, for ledgers of any length, *)
(* however much is recorded later (record_action, generate_inclusion_proof, verify).         *)
THEOREM ProofsBind == Spec => []ProofsBindTheirEntry
<1>1. Init => LedgerInv
  BY InitLedgerInv DEF Init
<1>2. LedgerInv /\ [Next]_vars => LedgerInv'
  <2> SUFFICES ASSUME LedgerInv, [Next]_vars PROVE LedgerInv'
    OBVIOUS
  <2>1. CASE LedgerCall
    BY <2>1, StepLedgerInv
  <2>2. CASE UNCHANGED ledgerVars
    BY <2>2 DEF ledgerVars, LedgerInv
  <2> QED
    BY <2>1, <2>2, OneBookAtATime
<1>3. LedgerInv => ProofsBindTheirEntry
  BY InvProofsBind
<1> QED
  BY <1>1, <1>2, <1>3, PTL DEF Spec
===============================================================================
