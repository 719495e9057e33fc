---------------------------- MODULE SchedulersProofs ----------------------------
(***************************************************************************)
(* TLAPS proofs about the two schedulers that live across restarts:          *)
(* MatrixScheduler, for any services, dependencies, scanners and limits and   *)
(* any number of overlaps and kills, and CronService, for any jobs, workers   *)
(* and number of requests, kills and failing statements.                     *)
(***************************************************************************)
EXTENDS MatrixScheduler, CronService, FiniteSetTheorems, TLAPS

-------------------------------------------------------------------------------
(* MatrixScheduler. *)

Judgement == [status : Statuses \cup {"none"},
              health : {"none", "healthy", "unreachable"},
              healed : BOOLEAN]

(* What every memory has, the file and those of the scans, whatever became of *)
(* other scans: a recorded pid and starting time are of one process, the      *)
(* restarts stay within the limit, and none is made up.                      *)
PidVouches(memory) == \A s \in Launchd :
    memory.pid[s] = "present" => memory.since[s] = "present"
Bounded(memory) == \A s \in Services : Cardinality(memory.history[s]) <= MaxHeals
Sound(memory, restarts) ==
    /\ PidVouches(memory)
    /\ Bounded(memory)
    /\ \A s \in Services : memory.history[s] \subseteq restarts[s]

(* What the memory has that will be on file next: every restart and every     *)
(* healthy verdict younger than the last mishap.                             *)
Knows(memory, restarts, sightings, mishap) == \A s \in Services, age \in Ages :
    age < mishap =>
        /\ age \in restarts[s] => age \in memory.history[s]
        /\ s \in Launchd /\ sightings[s] = age => memory.lastHealthy[s] = age

MemoriesSound ==
    /\ Sound(file, heals)
    /\ \A m \in Scanners : Sound(scan[m].memory, heals)

IdleScansEmpty == \A m \in Scanners : ~ Active(m) => scan[m] = Idle

(* Since a mishap there was one scan at a time.                              *)
OneAtATime == calm > 0 =>
    /\ \A m, n \in Scanners : Active(m) /\ Active(n) => m = n
    /\ \A m \in Scanners : Active(m) => Knows(scan[m].memory, heals, seen, calm)
    /\ (\A m \in Scanners : ~ Active(m)) => Knows(file, heals, seen, calm)

IInv ==
    /\ TypeOK
    /\ MemoriesSound
    /\ IdleScansEmpty
    /\ OneAtATime
    /\ FrozenIsEarned

-------------------------------------------------------------------------------
(* What the verdict and the memory operators return. *)

Seen(v, s) == FoundHealthy(v) /\ v.status \notin {"WAITING", "FROZEN"} /\ s \in Launchd

LEMMA StatusFacts ==
    ASSUME NEW memory, NEW s \in Services
    PROVE  /\ Status(memory, s) \in Statuses \ {"WAITING", "FROZEN"}
           /\ Status(memory, s) = "unrecoverable" => GivenUp(memory, s)
BY DEF Status, Statuses

LEMMA VerdictFacts ==
    ASSUME NEW m \in Scanners, NEW s \in Services
    PROVE  /\ Verdict(m, s) \in Judgement
           /\ Verdict(m, s).status \in Statuses
           /\ Verdict(m, s).healed => /\ ~ Frozen(scan[m].memory, s)
                                      /\ Verdict(m, s).status \notin {"WAITING", "FROZEN"}
           /\ Verdict(m, s).status = "FROZEN" => Frozen(scan[m].memory, s)
           /\ Verdict(m, s).status = "unrecoverable" => GivenUp(scan[m].memory, s)
<1>1. Heals(scan[m].memory, s) \in BOOLEAN
  BY DEF Heals
<1>2. Health(s) \in {"none", "healthy", "unreachable"}
  BY DEF Health
<1>3. {"WAITING", "FROZEN"} \subseteq Statuses /\ "unrecoverable" \notin {"WAITING", "FROZEN"}
  BY DEF Statuses
<1> QED
  BY <1>1, <1>2, <1>3, StatusFacts DEF Verdict, Judgement

LEMMA LaunchdServices == Launchd \subseteq Services
BY MatrixAssumption DEF Managed

(* A memory in which the pid and the starting time of one service change.     *)
Vouched(a, b) == b = "present" => a = "present"
Repid(memory, s, a, b) == [memory EXCEPT !.since[s] = a, !.pid[s] = b]

LEMMA PidFacts ==
    ASSUME NEW memory \in Memory, NEW s \in Services,
           NEW a \in {"none", "present", "older"}, NEW b \in {"none", "present", "older"},
           Vouched(a, b)
    PROVE  /\ Repid(memory, s, a, b) \in Memory
           /\ Repid(memory, s, a, b).history = memory.history
           /\ Repid(memory, s, a, b).lastHealthy = memory.lastHealthy
           /\ Repid(memory, s, a, b).since[s] = a
           /\ PidVouches(memory) => PidVouches(Repid(memory, s, a, b))
<1>1. /\ Repid(memory, s, a, b) \in Memory
      /\ Repid(memory, s, a, b).history = memory.history
      /\ Repid(memory, s, a, b).lastHealthy = memory.lastHealthy
      /\ Repid(memory, s, a, b).since = [memory.since EXCEPT ![s] = a]
      /\ Repid(memory, s, a, b).pid = [memory.pid EXCEPT ![s] = b]
  BY DEF Memory, Repid
<1>2. memory.since \in [Services -> {"none", "present", "older"}]
      /\ memory.pid \in [Services -> {"none", "present", "older"}]
  BY DEF Memory
<1> QED
  BY <1>1, <1>2, LaunchdServices DEF PidVouches, Vouched

LEMMA SightedFacts ==
    ASSUME NEW memory \in Memory, NEW s \in Services
    PROVE  /\ Sighted(memory, s) \in Memory
           /\ Sighted(memory, s).history = memory.history
           /\ Sighted(memory, s).lastHealthy = memory.lastHealthy
           /\ PidVouches(memory) => PidVouches(Sighted(memory, s))
           /\ PidVouches(memory) /\ s \in Launchd => Sighted(memory, s).since[s] = "present"
<1>1. CASE memory.since[s] = "none" \/ (s \in Launchd /\ memory.pid[s] # "present")
  <2> DEFINE pid == IF s \in Launchd THEN "present" ELSE memory.pid[s]
  <2>1. /\ pid \in {"none", "present", "older"}
        /\ Vouched("present", pid)
    BY DEF Memory, Vouched
  <2>2. Sighted(memory, s) = Repid(memory, s, "present", pid)
    BY <1>1 DEF Sighted, Memory, Repid
  <2> HIDE DEF pid
  <2>3. /\ Repid(memory, s, "present", pid) \in Memory
        /\ Repid(memory, s, "present", pid).history = memory.history
        /\ Repid(memory, s, "present", pid).lastHealthy = memory.lastHealthy
        /\ Repid(memory, s, "present", pid).since[s] = "present"
        /\ PidVouches(memory) => PidVouches(Repid(memory, s, "present", pid))
    BY <2>1, PidFacts
  <2> QED
    BY <2>2, <2>3
<1>2. CASE ~ (memory.since[s] = "none" \/ (s \in Launchd /\ memory.pid[s] # "present"))
  <2>1. Sighted(memory, s) = memory
    BY <1>2 DEF Sighted
  <2> QED
    BY <1>2, <2>1 DEF Memory, PidVouches
<1> QED BY <1>1, <1>2

LEMMA RestartedFacts ==
    ASSUME NEW memory \in Memory, NEW s \in Services, NEW healed \in BOOLEAN
    PROVE  /\ Restarted(memory, s, healed) \in Memory
           /\ Restarted(memory, s, healed).history
                = [memory.history EXCEPT ![s] = IF healed THEN @ \cup {0} ELSE @]
           /\ Restarted(memory, s, healed).lastHealthy = memory.lastHealthy
           /\ PidVouches(memory) => PidVouches(Restarted(memory, s, healed))
<1>1. 0 \in 0 .. Window - 1
  BY MatrixAssumption
<1> QED
  BY <1>1 DEF Restarted, Memory, PidVouches

LEMMA RememberedFacts ==
    ASSUME NEW memory \in Memory, NEW s \in Services, NEW v \in Judgement,
           v.status \notin {"WAITING", "FROZEN"}
    PROVE  /\ Remembered(memory, s, v) \in Memory
           /\ Remembered(memory, s, v).history
                = [memory.history EXCEPT ![s] = IF v.healed THEN @ \cup {0} ELSE @]
           /\ Remembered(memory, s, v).lastHealthy
                = [memory.lastHealthy EXCEPT ![s] = IF Seen(v, s) THEN 0 ELSE @]
           /\ PidVouches(memory) => PidVouches(Remembered(memory, s, v))
           /\ PidVouches(memory) /\ s \in Launchd /\ v.status = "running"
                => Remembered(memory, s, v).since[s] = "present"
<1> DEFINE restarted == Restarted(memory, s, v.healed)
           sighted == IF v.status = "running" THEN Sighted(restarted, s) ELSE restarted
<1>1. v.healed \in BOOLEAN /\ 0 \in Ages
  BY MatrixAssumption DEF Judgement, Ages
<1>2. /\ restarted \in Memory
      /\ restarted.history = [memory.history EXCEPT ![s] = IF v.healed THEN @ \cup {0} ELSE @]
      /\ restarted.lastHealthy = memory.lastHealthy
      /\ PidVouches(memory) => PidVouches(restarted)
  BY <1>1, RestartedFacts
<1> HIDE DEF restarted
<1>3. /\ sighted \in Memory
      /\ sighted.history = restarted.history
      /\ sighted.lastHealthy = restarted.lastHealthy
      /\ PidVouches(restarted) => PidVouches(sighted)
      /\ PidVouches(restarted) /\ s \in Launchd /\ v.status = "running"
            => sighted.since[s] = "present"
  BY <1>2, SightedFacts
<1> HIDE DEF sighted
<1>4. Remembered(memory, s, v) =
        IF FoundHealthy(v)
        THEN IF s \in Launchd THEN [sighted EXCEPT !.lastHealthy[s] = 0] ELSE sighted
        ELSE [sighted EXCEPT !.since[s] = "none", !.pid[s] = "none"]
  BY DEF Remembered, sighted, restarted
<1>5. v.status = "running" => FoundHealthy(v)
  BY DEF FoundHealthy
<1>6. CASE ~ FoundHealthy(v)
  <2>1. Remembered(memory, s, v) = Repid(sighted, s, "none", "none")
    BY <1>4, <1>6 DEF Repid
  <2>2. [memory.lastHealthy EXCEPT ![s] = IF Seen(v, s) THEN 0 ELSE @] = memory.lastHealthy
    BY <1>6 DEF Seen, Memory
  <2>3. /\ Repid(sighted, s, "none", "none") \in Memory
        /\ Repid(sighted, s, "none", "none").history = sighted.history
        /\ Repid(sighted, s, "none", "none").lastHealthy = sighted.lastHealthy
        /\ PidVouches(sighted) => PidVouches(Repid(sighted, s, "none", "none"))
    <3>1. Vouched("none", "none")
      BY DEF Vouched
    <3> QED
      BY <1>3, <3>1, PidFacts
  <2> QED
    BY <1>2, <1>3, <1>5, <1>6, <2>1, <2>2, <2>3
<1>7. CASE FoundHealthy(v) /\ s \in Launchd
  <2>1. Remembered(memory, s, v) = [sighted EXCEPT !.lastHealthy[s] = 0]
    BY <1>4, <1>7
  <2>2. Seen(v, s)
    BY <1>7 DEF Seen
  <2> QED
    BY <1>1, <1>2, <1>3, <1>7, <2>1, <2>2 DEF Memory, PidVouches
<1>8. CASE FoundHealthy(v) /\ s \notin Launchd
  <2>1. Remembered(memory, s, v) = sighted
    BY <1>4, <1>8
  <2>2. [memory.lastHealthy EXCEPT ![s] = IF Seen(v, s) THEN 0 ELSE @] = memory.lastHealthy
    BY <1>8 DEF Seen, Memory
  <2> QED
    BY <1>2, <1>3, <1>8, <2>1, <2>2
<1> QED BY <1>6, <1>7, <1>8

LEMMA OutdatedFacts ==
    ASSUME NEW memory \in Memory, NEW s \in Services
    PROVE  /\ Outdated(memory, s) \in Memory
           /\ Outdated(memory, s).history = memory.history
           /\ Outdated(memory, s).lastHealthy = memory.lastHealthy
           /\ PidVouches(memory) => PidVouches(Outdated(memory, s))
<1> DEFINE outdate(x) == IF x = "present" THEN "older" ELSE x
           a == outdate(memory.since[s])
           b == outdate(memory.pid[s])
<1>1. a \in {"none", "present", "older"} /\ b \in {"none", "present", "older"}
      /\ Vouched(a, b)
  BY DEF Memory, Vouched
<1>2. Outdated(memory, s) = Repid(memory, s, a, b)
  BY DEF Outdated, Repid
<1> HIDE DEF a, b
<1>3. /\ Repid(memory, s, a, b) \in Memory
      /\ Repid(memory, s, a, b).history = memory.history
      /\ Repid(memory, s, a, b).lastHealthy = memory.lastHealthy
      /\ PidVouches(memory) => PidVouches(Repid(memory, s, a, b))
  BY <1>1, PidFacts
<1> QED
  BY <1>2, <1>3

LEMMA NoMemoryFacts ==
    /\ NoMemory \in Memory
    /\ \A restarts : Sound(NoMemory, restarts)
<1>1. NoMemory \in Memory
  BY DEF NoMemory, Memory
<1>2. \A s \in Services : Cardinality(NoMemory.history[s]) <= MaxHeals
  BY FS_EmptySet, MatrixAssumption DEF NoMemory
<1>3. PidVouches(NoMemory)
  BY LaunchdServices DEF NoMemory, PidVouches
<1> QED
  BY <1>1, <1>2, <1>3 DEF NoMemory, Sound, Bounded

LEMMA OutdatedNoMemory ==
    ASSUME NEW s \in Services
    PROVE  Outdated(NoMemory, s) = NoMemory
<1> DEFINE none == [x \in Services |-> "none"]
<1>1. NoMemory.since = none /\ NoMemory.pid = none
  BY DEF NoMemory
<1>2. Outdated(NoMemory, s) = [NoMemory EXCEPT !.since = [none EXCEPT ![s] = "none"],
                                               !.pid = [none EXCEPT ![s] = "none"]]
  BY <1>1 DEF Outdated, NoMemory
<1>3. [none EXCEPT ![s] = "none"] = none
  OBVIOUS
<1>4. Outdated(NoMemory, s) = [NoMemory EXCEPT !.since = none, !.pid = none]
  BY <1>2, <1>3
<1> QED
  BY <1>1, <1>4 DEF NoMemory

-------------------------------------------------------------------------------
(* How a restart, a verdict and the passing of time change what memories have. *)

Restarts == [Services -> SUBSET (0 .. Window - 1)]
Sightings == [Services -> Ages \cup {Never}]
WithRestart(restarts, s, healed) ==
    [restarts EXCEPT ![s] = IF healed THEN @ \cup {0} ELSE @]
WithSighting(sightings, s, found) == [sightings EXCEPT ![s] = IF found THEN 0 ELSE @]

LEMMA AgesFacts ==
    /\ Window \in Nat \ {0} /\ Hopeless \in Nat \ {0} /\ MaxHeals \in Nat \ {0}
    /\ 0 \in 0 .. Window - 1 /\ 0 .. Window - 1 \subseteq Ages /\ 0 \in Ages
    /\ Ages \subseteq Nat /\ Never \notin Ages
BY MatrixAssumption DEF Ages

LEMMA FiniteHistory ==
    ASSUME NEW S \in SUBSET (0 .. Window - 1)
    PROVE  IsFiniteSet(S) /\ Cardinality(S) \in Nat
<1>1. 0 \in Int /\ Window - 1 \in Int
  BY AgesFacts
<1>2. IsFiniteSet(0 .. Window - 1)
  BY <1>1, FS_Interval
<1>3. IsFiniteSet(S)
  BY <1>2, FS_Subset
<1> QED
  BY <1>3, FS_CardinalityType

LEMMA RestartKeepsOthers ==
    ASSUME NEW memory \in Memory, NEW restarts \in Restarts, NEW s \in Services,
           NEW healed \in BOOLEAN, Sound(memory, restarts)
    PROVE  Sound(memory, WithRestart(restarts, s, healed))
BY DEF Sound, WithRestart, Restarts

LEMMA RestartKeepsOwn ==
    ASSUME NEW memory \in Memory, NEW r \in Memory, NEW restarts \in Restarts,
           NEW s \in Services, NEW healed \in BOOLEAN,
           Sound(memory, restarts), PidVouches(r),
           r.history = WithRestart(memory.history, s, healed),
           healed => ~ Frozen(memory, s)
    PROVE  Sound(r, WithRestart(restarts, s, healed))
<1>1. memory.history \in Restarts /\ r.history \in Restarts
  BY DEF Memory, Restarts
<1>2. ASSUME NEW x \in Services
      PROVE  /\ Cardinality(r.history[x]) <= MaxHeals
             /\ r.history[x] \subseteq WithRestart(restarts, s, healed)[x]
  <2>1. CASE x # s \/ ~ healed
    <3>1. r.history[x] = memory.history[x]
      BY <1>1, <2>1 DEF WithRestart, Restarts
    <3> QED
      BY <3>1 DEF Sound, Bounded, WithRestart, Restarts
  <2>2. CASE x = s /\ healed
    <3>1. r.history[x] = memory.history[x] \cup {0}
      BY <1>1, <2>2 DEF WithRestart, Restarts
    <3>2. IsFiniteSet(memory.history[x]) /\ Cardinality(memory.history[x]) \in Nat
      BY <1>1, FiniteHistory DEF Restarts
    <3>3. Cardinality(memory.history[x]) < MaxHeals
      BY <2>2, <3>2, AgesFacts DEF Frozen
    <3>4. Cardinality(r.history[x]) <= MaxHeals
      <4>1. Cardinality(memory.history[x] \cup {0})
              = IF 0 \in memory.history[x] THEN Cardinality(memory.history[x])
                ELSE Cardinality(memory.history[x]) + 1
        BY <3>2, FS_AddElement
      <4> QED
        BY <3>1, <3>2, <3>3, <4>1, AgesFacts
    <3>5. WithRestart(restarts, s, healed)[x] = restarts[x] \cup {0}
      BY <2>2 DEF WithRestart, Restarts
    <3> QED
      BY <3>1, <3>4, <3>5 DEF Sound
  <2> QED BY <2>1, <2>2
<1> QED
  BY <1>2 DEF Sound, Bounded

LEMMA VerdictKeepsKnowledge ==
    ASSUME NEW memory \in Memory, NEW r \in Memory, NEW restarts \in Restarts,
           NEW sightings \in Sightings, NEW mishap \in Ages,
           NEW s \in Services, NEW healed \in BOOLEAN, NEW found \in BOOLEAN,
           Knows(memory, restarts, sightings, mishap),
           r.history = WithRestart(memory.history, s, healed),
           r.lastHealthy = WithSighting(memory.lastHealthy, s, found)
    PROVE  Knows(r, WithRestart(restarts, s, healed), WithSighting(sightings, s, found), mishap)
<1>1. memory.history \in Restarts /\ memory.lastHealthy \in Sightings
  BY DEF Memory, Restarts, Sightings
<1> SUFFICES ASSUME NEW x \in Services, NEW age \in Ages, age < mishap
             PROVE  /\ age \in WithRestart(restarts, s, healed)[x] => age \in r.history[x]
                    /\ x \in Launchd /\ WithSighting(sightings, s, found)[x] = age
                         => r.lastHealthy[x] = age
  BY DEF Knows
<1>2. age \in WithRestart(restarts, s, healed)[x] => age \in r.history[x]
  BY <1>1 DEF Knows, WithRestart, Restarts
<1>3. x \in Launchd /\ WithSighting(sightings, s, found)[x] = age => r.lastHealthy[x] = age
  BY <1>1 DEF Knows, WithSighting, Sightings
<1> QED BY <1>2, <1>3

(* A memory, a history of restarts and one of sightings, one tick later.      *)
LaterRestarts(restarts) == [s \in Services |-> Aged(restarts[s])]
LaterSightings(sightings) == [s \in Services |-> Older(sightings[s])]
Later(memory) == [memory EXCEPT !.history = [s \in Services |-> Cleaned(@[s])],
                                !.lastHealthy = [s \in Services |-> Older(@[s])]]

LEMMA AgedFacts ==
    ASSUME NEW H \in SUBSET (0 .. Window - 1)
    PROVE  /\ Aged(H) \in SUBSET (0 .. Window - 1)
           /\ Cardinality(Aged(H)) <= Cardinality(H)
           /\ \A a \in 0 .. Window - 1 : a \in Aged(H) <=> a > 0 /\ a - 1 \in H
<1> DEFINE young == {a \in H : a + 1 < Window}
           f == [a \in young |-> a + 1]
<1>1. \A a \in 0 .. Window - 1 : a \in Aged(H) <=> a > 0 /\ a - 1 \in H
  BY AgesFacts DEF Aged
<1>2. Aged(H) \in SUBSET (0 .. Window - 1)
  BY AgesFacts DEF Aged
<1>3. f \in Surjection(young, Aged(H))
  BY DEF Surjection, Aged
<1>4. young \in SUBSET H /\ IsFiniteSet(H)
  BY FiniteHistory
<1>5. IsFiniteSet(young) /\ Cardinality(young) <= Cardinality(H)
  BY <1>4, FS_Subset
<1>6. Cardinality(Aged(H)) <= Cardinality(young)
  BY <1>3, <1>5, FS_Surjection
<1>7. Cardinality(Aged(H)) \in Nat /\ Cardinality(young) \in Nat /\ Cardinality(H) \in Nat
  BY <1>2, <1>4, FiniteHistory
<1> QED
  BY <1>1, <1>2, <1>5, <1>6, <1>7

LEMMA LaterFacts ==
    ASSUME NEW memory \in Memory
    PROVE  /\ Later(memory) \in Memory
           /\ Later(memory).history = LaterRestarts(memory.history)
           /\ Later(memory).lastHealthy = LaterSightings(memory.lastHealthy)
           /\ Later(memory).since = memory.since
           /\ Later(memory).pid = memory.pid
<1>0. Later(memory) = [memory EXCEPT !.history = LaterRestarts(memory.history),
                                     !.lastHealthy = LaterSightings(memory.lastHealthy)]
  BY DEF Later, LaterRestarts, LaterSightings, Cleaned, Aged
<1>1. /\ Later(memory).history = LaterRestarts(memory.history)
      /\ Later(memory).lastHealthy = LaterSightings(memory.lastHealthy)
      /\ Later(memory).since = memory.since
      /\ Later(memory).pid = memory.pid
      /\ Later(memory) = [history |-> Later(memory).history,
                          lastHealthy |-> Later(memory).lastHealthy,
                          since |-> memory.since, pid |-> memory.pid]
  BY <1>0 DEF Memory
<1>2. LaterRestarts(memory.history) \in Restarts
  BY AgedFacts DEF LaterRestarts, Restarts, Memory
<1>3. LaterSightings(memory.lastHealthy) \in Sightings
  BY AgesFacts DEF LaterSightings, Sightings, Memory, Older, Ages
<1> QED
  BY <1>1, <1>2, <1>3 DEF Memory, Restarts, Sightings

LEMMA LaterSound ==
    ASSUME NEW memory \in Memory, NEW restarts \in Restarts, Sound(memory, restarts)
    PROVE  Sound(Later(memory), LaterRestarts(restarts))
<1>1. memory.history \in Restarts
  BY DEF Memory, Restarts
<1>2. PidVouches(Later(memory))
  BY LaterFacts DEF Sound, PidVouches
<1>3. ASSUME NEW s \in Services
      PROVE  /\ Cardinality(Later(memory).history[s]) <= MaxHeals
             /\ Later(memory).history[s] \subseteq LaterRestarts(restarts)[s]
  <2>1. /\ memory.history[s] \in SUBSET (0 .. Window - 1)
        /\ memory.history[s] \subseteq restarts[s]
        /\ Cardinality(memory.history[s]) <= MaxHeals
    BY <1>1 DEF Restarts, Sound, Bounded
  <2>2. Later(memory).history[s] = Aged(memory.history[s])
    BY LaterFacts DEF LaterRestarts
  <2>3. Aged(memory.history[s]) \subseteq Aged(restarts[s])
    BY <2>1 DEF Aged
  <2>4. Cardinality(Aged(memory.history[s])) <= Cardinality(memory.history[s])
    BY <2>1, AgedFacts
  <2>5. Cardinality(Aged(memory.history[s])) \in Nat /\ Cardinality(memory.history[s]) \in Nat
    BY <2>1, AgedFacts, FiniteHistory
  <2> QED
    BY <2>1, <2>2, <2>3, <2>4, <2>5, AgesFacts DEF LaterRestarts
<1> QED
  BY <1>2, <1>3 DEF Sound, Bounded

LEMMA LaterKnows ==
    ASSUME NEW memory \in Memory, NEW restarts \in Restarts, NEW sightings \in Sightings,
           NEW mishap \in Ages, mishap > 0 => Knows(memory, restarts, sightings, mishap)
    PROVE  Knows(Later(memory), LaterRestarts(restarts), LaterSightings(sightings), Older(mishap))
<1> SUFFICES ASSUME NEW s \in Services, NEW age \in Ages, age < Older(mishap)
             PROVE  /\ age \in LaterRestarts(restarts)[s] => age \in Later(memory).history[s]
                    /\ s \in Launchd /\ LaterSightings(sightings)[s] = age
                         => Later(memory).lastHealthy[s] = age
  BY DEF Knows
<1>1. /\ memory.history[s] \in SUBSET (0 .. Window - 1)
      /\ memory.lastHealthy[s] \in Ages \cup {Never}
      /\ restarts[s] \in SUBSET (0 .. Window - 1)
      /\ sightings[s] \in Ages \cup {Never}
  BY DEF Memory, Restarts, Sightings
<1>2. /\ Later(memory).history[s] = Aged(memory.history[s])
      /\ Later(memory).lastHealthy[s] = Older(memory.lastHealthy[s])
  BY LaterFacts DEF LaterRestarts, LaterSightings
<1>3. age \in Nat /\ age <= Hopeless /\ (age > 0 => age - 1 \in Ages /\ age - 1 < mishap /\ mishap > 0)
  BY AgesFacts DEF Ages, Older
<1>4. age \in LaterRestarts(restarts)[s] => age \in Later(memory).history[s]
  <2> SUFFICES ASSUME age \in Aged(restarts[s])
               PROVE  age \in Aged(memory.history[s])
    BY <1>2 DEF LaterRestarts
  <2>1. age \in 0 .. Window - 1 /\ age > 0 /\ age - 1 \in restarts[s]
    BY <1>1, AgedFacts
  <2>2. age - 1 \in memory.history[s]
    BY <1>3, <2>1 DEF Knows
  <2> QED
    BY <1>1, <2>1, <2>2, AgedFacts
<1>5. s \in Launchd /\ LaterSightings(sightings)[s] = age => Later(memory).lastHealthy[s] = age
  <2> SUFFICES ASSUME s \in Launchd, Older(sightings[s]) = age
               PROVE  Older(memory.lastHealthy[s]) = age
    BY <1>2 DEF LaterSightings
  <2>1. age > 0 /\ sightings[s] = age - 1
    BY <1>1, <1>3, AgesFacts DEF Older, Ages
  <2>2. memory.lastHealthy[s] = age - 1
    BY <1>3, <2>1 DEF Knows
  <2> QED
    BY <1>3, <2>1, <2>2, AgesFacts DEF Older
<1> QED BY <1>4, <1>5

-------------------------------------------------------------------------------
(* The steps, in the terms of the lemmas above. *)

ScanState == [at : {"idle", "services", "write"}, next : 1 .. Len(Order) + 1,
              memory : Memory, result : [Services -> Judgement]]

LEMMA TypeFacts ==
    ASSUME TypeOK
    PROVE  /\ scan \in [Scanners -> ScanState]
           /\ file \in Memory
           /\ heals \in Restarts
           /\ seen \in Sightings
           /\ calm \in Ages
BY DEF TypeOK, ScanState, Judgement, Restarts, Sightings

LEMMA OrderFacts ==
    /\ Len(Order) \in Nat
    /\ \A i \in 1 .. Len(Order) : Order[i] \in Services
BY MatrixAssumption

LEMMA IdleFacts ==
    /\ Idle \in ScanState
    /\ Idle.at = "idle"
    /\ Idle.memory = NoMemory
    /\ \A s \in Services : Idle.result[s] = NoResult
<1>1. NoResult \in Judgement
  BY DEF NoResult, Judgement
<1> QED
  BY <1>1, NoMemoryFacts, OrderFacts DEF Idle, ScanState

(* A scan that has judged one more service.                                  *)
Advanced(f, n, s, v, r) == [f EXCEPT !.next = n, !.result[s] = v, !.memory = r]

LEMMA AdvancedFacts ==
    ASSUME NEW A, NEW B, NEW C, NEW D,
           NEW f \in [at : A, next : B, memory : C, result : D],
           NEW n, NEW s, NEW v, NEW r, NEW g, g = Advanced(f, n, s, v, r)
    PROVE  g = [at |-> f.at, next |-> n, memory |-> r, result |-> [f.result EXCEPT ![s] = v]]
<1>1. g = [f EXCEPT !.next = n, !.result[s] = v, !.memory = r]
  BY DEF Advanced
<1>2. g = [at |-> g.at, next |-> g.next, memory |-> g.memory, result |-> g.result]
  BY <1>1
<1>3. g.at = f.at /\ g.next = n /\ g.memory = r /\ g.result = [f.result EXCEPT ![s] = v]
  BY <1>1
<1> QED
  BY <1>2, <1>3

(* The scan of m has judged s: v is the verdict, r what it remembers now.     *)
Judges(m, s, r, v) ==
    /\ scan[m].at = "services"
    /\ s = Order[scan[m].next]
    /\ scan' = [scan EXCEPT ![m] = [at |-> "services", next |-> scan[m].next + 1,
                                    memory |-> r,
                                    result |-> [scan[m].result EXCEPT ![s] = v]]]
    /\ scan[m].next + 1 \in 1 .. Len(Order) + 1
    /\ r.history = WithRestart(scan[m].memory.history, s, v.healed)
    /\ r.lastHealthy = WithSighting(scan[m].memory.lastHealthy, s, Seen(v, s))
    /\ heals' = WithRestart(heals, s, v.healed)
    /\ seen' = WithSighting(seen, s, Seen(v, s))
    /\ PidVouches(scan[m].memory) => PidVouches(r)
    /\ PidVouches(scan[m].memory) /\ s \in Launchd /\ v.status = "running"
         => r.since[s] = "present"
    /\ v.healed => ~ Frozen(scan[m].memory, s)
    /\ v.status = "FROZEN" => Frozen(scan[m].memory, s)
    /\ v.status = "unrecoverable" => GivenUp(scan[m].memory, s)

LEMMA CheckJudges ==
    ASSUME TypeOK, NEW m \in Scanners, CheckService(m)
    PROVE  \E s \in Services, r \in Memory, v \in Judgement : Judges(m, s, r, v)
<1> DEFINE s == Order[scan[m].next]
           v == Verdict(m, s)
           judged == v.status \notin {"WAITING", "FROZEN"}
           memory == scan[m].memory
           r == IF judged THEN Remembered(memory, s, v) ELSE memory
<1>1. scan[m].at = "services" /\ scan[m].next <= Len(Order)
  BY DEF CheckService
<1>2. scan \in [Scanners -> ScanState] /\ scan[m] \in ScanState /\ memory \in Memory
  BY TypeFacts DEF ScanState
<1>3. scan[m].next \in 1 .. Len(Order) /\ scan[m].next + 1 \in 1 .. Len(Order) + 1
  BY <1>1, <1>2, OrderFacts DEF ScanState
<1>4. s \in Services
  BY <1>3, OrderFacts
<1>5. /\ scan' = [scan EXCEPT ![m].next = @ + 1, ![m].result[s] = v, ![m].memory = r]
      /\ heals' = [heals EXCEPT ![s] = IF v.healed THEN @ \cup {0} ELSE @]
      /\ seen' = [seen EXCEPT ![s] =
            IF judged /\ FoundHealthy(v) /\ s \in Launchd THEN 0 ELSE @]
  BY DEF CheckService
<1> HIDE DEF s
<1>6. /\ v \in Judgement
      /\ v.healed => ~ Frozen(memory, s) /\ judged
      /\ v.status = "FROZEN" => Frozen(memory, s)
      /\ v.status = "unrecoverable" => GivenUp(memory, s)
  BY <1>4, VerdictFacts
<1> HIDE DEF v
<1>7. judged =>
        /\ Remembered(memory, s, v) \in Memory
        /\ Remembered(memory, s, v).history = WithRestart(memory.history, s, v.healed)
        /\ Remembered(memory, s, v).lastHealthy = WithSighting(memory.lastHealthy, s, Seen(v, s))
        /\ PidVouches(memory) => PidVouches(Remembered(memory, s, v))
        /\ PidVouches(memory) /\ s \in Launchd /\ v.status = "running"
              => Remembered(memory, s, v).since[s] = "present"
  BY <1>2, <1>4, <1>6, RememberedFacts DEF WithRestart, WithSighting
<1>8. ~ judged => /\ memory.history = WithRestart(memory.history, s, v.healed)
                  /\ memory.lastHealthy = WithSighting(memory.lastHealthy, s, Seen(v, s))
                  /\ v.status # "running"
  BY <1>2, <1>6 DEF WithRestart, WithSighting, Seen, Memory
<1>9. /\ r \in Memory
      /\ r.history = WithRestart(memory.history, s, v.healed)
      /\ r.lastHealthy = WithSighting(memory.lastHealthy, s, Seen(v, s))
      /\ PidVouches(memory) => PidVouches(r)
      /\ PidVouches(memory) /\ s \in Launchd /\ v.status = "running"
            => r.since[s] = "present"
  BY <1>2, <1>7, <1>8
<1> HIDE DEF r
<1>10. scan' = [scan EXCEPT ![m] = [at |-> "services", next |-> scan[m].next + 1,
                                    memory |-> r,
                                    result |-> [scan[m].result EXCEPT ![s] = v]]]
  <2>1. Advanced(scan[m], scan[m].next + 1, s, v, r)
          = [at |-> "services", next |-> scan[m].next + 1, memory |-> r,
             result |-> [scan[m].result EXCEPT ![s] = v]]
    <3>1. PICK A, B, C, D : scan[m] \in [at : A, next : B, memory : C, result : D]
      BY <1>2 DEF ScanState
    <3> QED
      BY <1>1, <3>1, AdvancedFacts
  <2>2. scan' = [scan EXCEPT ![m] = Advanced(scan[m], scan[m].next + 1, s, v, r)]
    BY <1>2, <1>5 DEF Advanced
  <2> QED
    BY <2>1, <2>2
<1>11. heals' = WithRestart(heals, s, v.healed) /\ seen' = WithSighting(seen, s, Seen(v, s))
  BY <1>5 DEF WithRestart, WithSighting, Seen
<1>13. Judges(m, s, r, v)
  BY <1>1, <1>3, <1>6, <1>9, <1>10, <1>11 DEF Judges, s
<1> QED
  BY <1>4, <1>6, <1>9, <1>13

LEMMA TickLater ==
    ASSUME TypeOK, Tick
    PROVE  /\ file' = Later(file)
           /\ heals' = LaterRestarts(heals)
           /\ seen' = LaterSightings(seen)
           /\ calm' = Older(calm)
           /\ scan' = scan
           /\ \A m \in Scanners : ~ Active(m)
BY DEF Tick, Later, LaterRestarts, LaterSightings

LEMMA OlderFacts ==
    /\ \A age \in Ages : Older(age) \in Ages
    /\ \A age \in Ages \cup {Never} : Older(age) \in Ages \cup {Never}
BY AgesFacts DEF Older, Ages

LEMMA LaterTypes ==
    ASSUME NEW restarts \in Restarts, NEW sightings \in Sightings
    PROVE  LaterRestarts(restarts) \in Restarts /\ LaterSightings(sightings) \in Sightings
BY AgedFacts, OlderFacts DEF LaterRestarts, LaterSightings, Restarts, Sightings

LEMMA WithTypes ==
    ASSUME NEW restarts \in Restarts, NEW sightings \in Sightings, NEW s \in Services,
           NEW healed \in BOOLEAN, NEW found \in BOOLEAN
    PROVE  /\ WithRestart(restarts, s, healed) \in Restarts
           /\ WithSighting(sightings, s, found) \in Sightings
BY AgesFacts DEF WithRestart, WithSighting, Restarts, Sightings

(* Every memory of every state has its type.                                 *)
LEMMA InitType == Init => TypeOK
<1> SUFFICES ASSUME Init PROVE TypeOK
  OBVIOUS
<1>1. /\ file \in Memory
      /\ scan \in [Scanners -> ScanState]
      /\ calm \in Ages
      /\ mishaps \in 0 .. MaxMishaps
  BY NoMemoryFacts, IdleFacts, AgesFacts, MatrixAssumption DEF Init, Ages
<1> QED
  BY <1>1 DEF Init, TypeOK, ScanState, Judgement

LEMMA NextType == TypeOK /\ [Next]_vars => TypeOK'
<1> SUFFICES ASSUME TypeOK, [Next]_vars PROVE TypeOK'
  OBVIOUS
<1> USE TypeFacts
<1> DEFINE Rest == /\ process \in [Managed -> {"up", "exited", "down"}]
                   /\ serving \in [Services -> BOOLEAN]
                   /\ heals \in Restarts
                   /\ seen \in Sightings
                   /\ calm \in Ages
                   /\ mishaps \in 0 .. MaxMishaps
<1>1. TypeOK <=> Rest /\ file \in Memory /\ scan \in [Scanners -> ScanState]
  BY DEF TypeOK, ScanState, Judgement, Restarts, Sightings
<1>2. Rest' /\ file' \in Memory /\ scan' \in [Scanners -> ScanState] => TypeOK'
  BY DEF TypeOK, ScanState, Judgement, Restarts, Sightings
<1>3. Mishap => mishaps' \in 0 .. MaxMishaps /\ calm' \in Ages
  BY <1>1, AgesFacts, MatrixAssumption DEF Mishap
<1>4. CASE Tick
  <2>1. file' \in Memory /\ scan' \in [Scanners -> ScanState]
    BY <1>4, TickLater, LaterFacts
  <2>2. heals' \in Restarts /\ seen' \in Sightings /\ calm' \in Ages
    BY <1>4, TickLater, LaterTypes, OlderFacts
  <2>3. UNCHANGED <<process, serving, mishaps>>
    BY <1>4 DEF Tick, world
  <2> QED BY <1>1, <1>2, <2>1, <2>2, <2>3
<1>5. ASSUME NEW m \in Scanners, Load(m) PROVE TypeOK'
  <2>1. scan' \in [Scanners -> ScanState]
    BY <1>5 DEF Load, ScanState
  <2>2. Rest' /\ file' \in Memory
    BY <1>1, <1>3, <1>5 DEF Load, world, truth
  <2> QED BY <1>2, <2>1, <2>2
<1>6. ASSUME NEW m \in Scanners, CheckService(m) PROVE TypeOK'
  <2>1. PICK s \in Services, r \in Memory, v \in Judgement : Judges(m, s, r, v)
    BY <1>6, CheckJudges
  <2>2. scan' \in [Scanners -> ScanState]
    BY <2>1 DEF Judges, ScanState
  <2>3. v.healed \in BOOLEAN /\ Seen(v, s) \in BOOLEAN
    BY DEF Judgement, Seen
  <2>4. heals' \in Restarts /\ seen' \in Sightings
    BY <2>1, <2>3, WithTypes DEF Judges
  <2>5. UNCHANGED <<process, serving, file, calm, mishaps>>
    BY <1>6 DEF CheckService, world
  <2> QED BY <1>1, <1>2, <2>2, <2>4, <2>5
<1>7. ASSUME NEW m \in Scanners, BeginSave(m) PROVE TypeOK'
  <2>1. scan' \in [Scanners -> ScanState] /\ file' \in Memory
    BY <1>7, NoMemoryFacts DEF BeginSave, ScanState
  <2>2. Rest'
    BY <1>1, <1>7 DEF BeginSave, world, truth
  <2> QED BY <1>2, <2>1, <2>2
<1>8. ASSUME NEW m \in Scanners, EndSave(m) PROVE TypeOK'
  <2>1. scan' \in [Scanners -> ScanState] /\ file' \in Memory
    BY <1>8, IdleFacts DEF EndSave, ScanState
  <2>2. Rest'
    BY <1>1, <1>3, <1>8 DEF EndSave, world, truth
  <2> QED BY <1>2, <2>1, <2>2
<1>9. ASSUME NEW m \in Scanners, Kill(m) PROVE TypeOK'
  <2>1. scan' \in [Scanners -> ScanState] /\ file' \in Memory
    BY <1>9, IdleFacts DEF Kill
  <2>2. Rest'
    BY <1>1, <1>3, <1>9 DEF Kill, world, truth
  <2> QED BY <1>2, <2>1, <2>2
<1>10. ASSUME NEW s \in Managed, ProcessStarts(s) PROVE TypeOK'
  <2>1. s \in Services
    BY MatrixAssumption
  <2>2. file' \in Memory
    BY <1>10, <2>1, OutdatedFacts DEF ProcessStarts
  <2>3. scan' \in [Scanners -> ScanState]
    BY <1>10, <2>1, OutdatedFacts DEF ProcessStarts, ScanState
  <2>4. Rest'
    BY <1>1, <1>10 DEF ProcessStarts, truth
  <2> QED BY <1>2, <2>2, <2>3, <2>4
<1>11. ASSUME NEW s \in Managed, ProcessEnds(s) PROVE TypeOK'
  BY <1>1, <1>2, <1>11 DEF ProcessEnds, truth
<1>12. ASSUME NEW s \in Services, ServingChanges(s) PROVE TypeOK'
  BY <1>1, <1>2, <1>12 DEF ServingChanges, truth
<1>13. CASE UNCHANGED vars
  BY <1>1, <1>2, <1>13 DEF vars, world, truth
<1> QED
  BY <1>4, <1>5, <1>6, <1>7, <1>8, <1>9, <1>10, <1>11, <1>12, <1>13 DEF Next, Scan

-------------------------------------------------------------------------------
(* The parts of the invariant, one lemma each. *)

LEMMA InitInv == Init => IInv
<1> SUFFICES ASSUME Init PROVE IInv
  OBVIOUS
<1>1. TypeOK
  BY InitType
<1>2. MemoriesSound
  BY NoMemoryFacts, IdleFacts DEF Init, MemoriesSound
<1>3. IdleScansEmpty
  BY DEF Init, IdleScansEmpty
<1>4. \A m \in Scanners : ~ Active(m)
  BY IdleFacts DEF Init, Active
<1>5. Knows(file, heals, seen, calm)
  BY AgesFacts DEF Init, Knows
<1>6. OneAtATime
  BY <1>4, <1>5 DEF OneAtATime
<1>7. FrozenIsEarned
  BY IdleFacts DEF Init, FrozenIsEarned, NoResult
<1> QED
  BY <1>1, <1>2, <1>3, <1>6, <1>7 DEF IInv

LEMMA NextSound == TypeOK /\ MemoriesSound /\ IdleScansEmpty /\ [Next]_vars => MemoriesSound'
<1> SUFFICES ASSUME TypeOK, MemoriesSound, IdleScansEmpty, [Next]_vars
             PROVE  MemoriesSound'
  OBVIOUS
<1>1. /\ scan \in [Scanners -> ScanState] /\ file \in Memory /\ heals \in Restarts
      /\ \A n \in Scanners : scan[n].memory \in Memory
  BY TypeFacts DEF ScanState
<1>2. Sound(file, heals) /\ \A n \in Scanners : Sound(scan[n].memory, heals)
  BY DEF MemoriesSound
<1>3. Sound(file', heals') /\ (\A n \in Scanners : Sound(scan'[n].memory, heals'))
        => MemoriesSound'
  BY DEF MemoriesSound
<1>4. CASE Tick
  <2>1. Sound(file', heals')
    BY <1>1, <1>2, <1>4, TickLater, LaterSound
  <2>2. \A n \in Scanners : scan'[n].memory = NoMemory
    BY <1>4, TickLater, IdleFacts DEF IdleScansEmpty
  <2> QED BY <1>3, <2>1, <2>2, NoMemoryFacts
<1>5. ASSUME NEW m \in Scanners, Load(m) PROVE MemoriesSound'
  <2>1. /\ file' = file /\ heals' = heals
        /\ \A n \in Scanners : scan'[n].memory \in {scan[n].memory, file}
    BY <1>1, <1>5 DEF Load, truth, ScanState
  <2> QED BY <1>2, <1>3, <2>1
<1>6. ASSUME NEW m \in Scanners, CheckService(m) PROVE MemoriesSound'
  <2>1. PICK s \in Services, r \in Memory, v \in Judgement : Judges(m, s, r, v)
    BY <1>6, CheckJudges
  <2>2. /\ v.healed \in BOOLEAN
        /\ heals' = WithRestart(heals, s, v.healed)
        /\ file' = file
        /\ \A n \in Scanners \ {m} : scan'[n].memory = scan[n].memory
        /\ scan'[m].memory = r
    <3>1. v.healed \in BOOLEAN
      BY DEF Judgement
    <3>2. file' = file
      BY <1>6 DEF CheckService
    <3>3. /\ heals' = WithRestart(heals, s, v.healed)
          /\ scan' = [scan EXCEPT ![m] = [at |-> "services", next |-> scan[m].next + 1,
                                    memory |-> r,
                                    result |-> [scan[m].result EXCEPT ![s] = v]]]
      BY <2>1 DEF Judges
    <3> QED
      BY <1>1, <3>1, <3>2, <3>3
  <2>3. Sound(r, heals')
    <3>1. PidVouches(r)
      BY <1>2, <2>1 DEF Judges, Sound
    <3>2. /\ r.history = WithRestart(scan[m].memory.history, s, v.healed)
          /\ v.healed => ~ Frozen(scan[m].memory, s)
      BY <2>1 DEF Judges
    <3> QED BY <1>1, <1>2, <2>2, <3>1, <3>2, RestartKeepsOwn
  <2>4. Sound(file', heals') /\ \A n \in Scanners \ {m} : Sound(scan'[n].memory, heals')
    BY <1>1, <1>2, <2>2, RestartKeepsOthers
  <2> QED BY <1>3, <2>2, <2>3, <2>4
<1>7. ASSUME NEW m \in Scanners, BeginSave(m) PROVE MemoriesSound'
  <2>1. /\ file' = NoMemory /\ heals' = heals
        /\ \A n \in Scanners : scan'[n].memory = scan[n].memory
    BY <1>1, <1>7 DEF BeginSave, truth, ScanState
  <2> QED BY <1>2, <1>3, <2>1, NoMemoryFacts
<1>8. ASSUME NEW m \in Scanners, EndSave(m) \/ Kill(m) PROVE MemoriesSound'
  <2>1. /\ file' \in {file, scan[m].memory} /\ heals' = heals
        /\ \A n \in Scanners : scan'[n].memory \in {scan[n].memory, NoMemory}
    BY <1>1, <1>8, IdleFacts DEF EndSave, Kill, truth
  <2> QED BY <1>2, <1>3, <2>1, NoMemoryFacts
<1>9. ASSUME NEW s \in Managed, ProcessStarts(s) PROVE MemoriesSound'
  <2>1. s \in Services
    BY MatrixAssumption
  <2>2. /\ file' = Outdated(file, s) /\ heals' = heals
        /\ \A n \in Scanners : scan'[n].memory = Outdated(scan[n].memory, s)
    BY <1>1, <1>9 DEF ProcessStarts, truth, ScanState
  <2>3. ASSUME NEW memory \in Memory, Sound(memory, heals)
        PROVE  Sound(Outdated(memory, s), heals)
    BY <2>1, <2>3, OutdatedFacts DEF Sound, Bounded
  <2> QED BY <1>1, <1>2, <1>3, <2>2, <2>3
<1>10. CASE \/ \E s \in Managed : ProcessEnds(s)
            \/ \E s \in Services : ServingChanges(s)
            \/ UNCHANGED vars
  <2>1. file' = file /\ heals' = heals /\ scan' = scan
    BY <1>10 DEF ProcessEnds, ServingChanges, vars, truth
  <2> QED BY <1>2, <1>3, <2>1
<1> QED
  BY <1>4, <1>5, <1>6, <1>7, <1>8, <1>9, <1>10 DEF Next, Scan

LEMMA NextIdle == TypeOK /\ IdleScansEmpty /\ [Next]_vars => IdleScansEmpty'
<1> SUFFICES ASSUME TypeOK, IdleScansEmpty, [Next]_vars,
                    NEW n \in Scanners, scan'[n].at = "idle"
             PROVE  scan'[n] = Idle
  BY DEF IdleScansEmpty, Active
<1>1. scan \in [Scanners -> ScanState] /\ (scan[n].at = "idle" => scan[n] = Idle)
  BY TypeFacts DEF IdleScansEmpty, Active
<1>2. CASE scan' = scan
  BY <1>1, <1>2
<1>3. ASSUME NEW m \in Scanners, Load(m) \/ BeginSave(m) PROVE scan'[n] = Idle
  BY <1>1, <1>3 DEF Load, BeginSave, ScanState
<1>4. ASSUME NEW m \in Scanners, CheckService(m) PROVE scan'[n] = Idle
  <2>1. PICK s \in Services, r \in Memory, v \in Judgement : Judges(m, s, r, v)
    BY <1>4, CheckJudges
  <2> QED BY <1>1, <2>1 DEF Judges
<1>5. ASSUME NEW m \in Scanners, EndSave(m) \/ Kill(m) PROVE scan'[n] = Idle
  BY <1>1, <1>5 DEF EndSave, Kill
<1>6. ASSUME NEW s \in Managed, ProcessStarts(s) PROVE scan'[n] = Idle
  <2>1. scan'[n] = [scan[n] EXCEPT !.memory = Outdated(@, s)]
    BY <1>6 DEF ProcessStarts
  <2>2. scan[n].at = "idle"
    BY <1>1, <2>1 DEF ScanState
  <2>3. Outdated(NoMemory, s) = NoMemory
    BY MatrixAssumption, OutdatedNoMemory
  <2> QED BY <1>1, <2>1, <2>2, <2>3 DEF Idle
<1>7. Tick \/ UNCHANGED vars \/ (\E s \in Managed : ProcessEnds(s))
        \/ (\E s \in Services : ServingChanges(s)) => scan' = scan
  BY DEF Tick, vars, ProcessEnds, ServingChanges
<1> QED
  BY <1>2, <1>3, <1>4, <1>5, <1>6, <1>7 DEF Next, Scan

LEMMA NextOne == TypeOK /\ OneAtATime /\ [Next]_vars => OneAtATime'
<1> SUFFICES ASSUME TypeOK, OneAtATime, [Next]_vars, calm' > 0
             PROVE  /\ \A m, n \in Scanners : scan'[m].at # "idle" /\ scan'[n].at # "idle" => m = n
                    /\ \A m \in Scanners : scan'[m].at # "idle"
                         => Knows(scan'[m].memory, heals', seen', calm')
                    /\ (\A m \in Scanners : scan'[m].at = "idle")
                         => Knows(file', heals', seen', calm')
  BY DEF OneAtATime, Active
<1> DEFINE Goal == /\ \A m, n \in Scanners :
                         scan'[m].at # "idle" /\ scan'[n].at # "idle" => m = n
                   /\ \A m \in Scanners : scan'[m].at # "idle"
                         => Knows(scan'[m].memory, heals', seen', calm')
                   /\ (\A m \in Scanners : scan'[m].at = "idle")
                         => Knows(file', heals', seen', calm')
<1>1. /\ scan \in [Scanners -> ScanState] /\ file \in Memory /\ heals \in Restarts
      /\ seen \in Sightings /\ calm \in Ages
      /\ \A n \in Scanners : scan[n].memory \in Memory
  BY TypeFacts DEF ScanState
<1>2. calm > 0 =>
        /\ \A m, n \in Scanners : scan[m].at # "idle" /\ scan[n].at # "idle" => m = n
        /\ \A m \in Scanners : scan[m].at # "idle" => Knows(scan[m].memory, heals, seen, calm)
        /\ (\A m \in Scanners : scan[m].at = "idle") => Knows(file, heals, seen, calm)
  BY DEF OneAtATime, Active
<1>3. ~ Mishap
  BY DEF Mishap
<1>4. CASE Tick
  <2>1. /\ \A n \in Scanners : scan'[n].at = "idle" /\ scan[n].at = "idle"
        /\ file' = Later(file) /\ heals' = LaterRestarts(heals)
        /\ seen' = LaterSightings(seen) /\ calm' = Older(calm)
    BY <1>4, TickLater DEF Active
  <2>2. Knows(file', heals', seen', calm')
    BY <1>1, <1>2, <2>1, LaterKnows
  <2> QED BY <2>1, <2>2
<1>5. ASSUME NEW m \in Scanners, Load(m) PROVE Goal
  <2>1. /\ \A n \in Scanners : scan[n].at = "idle"
        /\ calm' = calm /\ heals' = heals /\ seen' = seen /\ file' = file
    BY <1>3, <1>5 DEF Load, truth, Active
  <2>2. /\ \A n \in Scanners \ {m} : scan'[n] = scan[n]
        /\ scan'[m].at = "services" /\ scan'[m].memory = file
    BY <1>1, <1>5 DEF Load, ScanState
  <2>3. Knows(file, heals, seen, calm)
    BY <1>2, <2>1
  <2> QED BY <2>1, <2>2, <2>3
<1>6. ASSUME NEW m \in Scanners, CheckService(m) PROVE Goal
  <2>1. PICK s \in Services, r \in Memory, v \in Judgement : Judges(m, s, r, v)
    BY <1>6, CheckJudges
  <2>2. v.healed \in BOOLEAN /\ Seen(v, s) \in BOOLEAN
    BY DEF Judgement, Seen
  <2>3. calm' = calm
    BY <1>6 DEF CheckService
  <2>4. /\ scan[m].at = "services"
        /\ scan' = [scan EXCEPT ![m] = [at |-> "services", next |-> scan[m].next + 1,
                                        memory |-> r,
                                        result |-> [scan[m].result EXCEPT ![s] = v]]]
        /\ heals' = WithRestart(heals, s, v.healed)
        /\ seen' = WithSighting(seen, s, Seen(v, s))
        /\ r.history = WithRestart(scan[m].memory.history, s, v.healed)
        /\ r.lastHealthy = WithSighting(scan[m].memory.lastHealthy, s, Seen(v, s))
    BY <2>1 DEF Judges
  <2>5. /\ \A n \in Scanners \ {m} : scan'[n] = scan[n] /\ scan[n].at = "idle"
        /\ scan'[m].at = "services" /\ scan'[m].memory = r
        /\ Knows(scan[m].memory, heals, seen, calm)
    BY <1>1, <1>2, <2>3, <2>4
  <2>6. Knows(r, heals', seen', calm')
    BY <1>1, <2>2, <2>3, <2>4, <2>5, VerdictKeepsKnowledge
  <2> QED BY <2>5, <2>6
<1>7. ASSUME NEW m \in Scanners, BeginSave(m) PROVE Goal
  <2>1. /\ \A n \in Scanners : /\ scan'[n].memory = scan[n].memory
                               /\ (scan'[n].at # "idle" <=> scan[n].at # "idle")
        /\ scan'[m].at # "idle"
        /\ calm' = calm /\ heals' = heals /\ seen' = seen
    BY <1>1, <1>7 DEF BeginSave, truth, ScanState
  <2> QED BY <1>2, <2>1
<1>8. ASSUME NEW m \in Scanners, EndSave(m) PROVE Goal
  <2>1. /\ file' = scan[m].memory /\ scan[m].at = "write"
        /\ calm' = calm /\ heals' = heals /\ seen' = seen
        /\ scan' = [scan EXCEPT ![m] = Idle]
    BY <1>3, <1>8 DEF EndSave, truth
  <2>2. Knows(scan[m].memory, heals, seen, calm)
    BY <1>2, <2>1
  <2>3. \A n \in Scanners : scan'[n].at = "idle"
    BY <1>1, <1>2, <2>1, IdleFacts
  <2> QED BY <2>1, <2>2, <2>3
<1>9. ASSUME NEW m \in Scanners, Kill(m) PROVE Goal
  BY <1>3, <1>9 DEF Kill
<1>10. ASSUME NEW s \in Managed, ProcessStarts(s) PROVE Goal
  <2>1. s \in Services
    BY MatrixAssumption
  <2>2. /\ file' = Outdated(file, s) /\ heals' = heals /\ seen' = seen /\ calm' = calm
        /\ \A n \in Scanners : scan'[n].memory = Outdated(scan[n].memory, s)
                               /\ scan'[n].at = scan[n].at
    BY <1>1, <1>10 DEF ProcessStarts, truth, ScanState
  <2>3. ASSUME NEW memory \in Memory, Knows(memory, heals, seen, calm)
        PROVE  Knows(Outdated(memory, s), heals, seen, calm)
    BY <2>1, <2>3, OutdatedFacts DEF Knows
  <2> QED BY <1>1, <1>2, <2>2, <2>3
<1>11. CASE \/ \E s \in Managed : ProcessEnds(s)
            \/ \E s \in Services : ServingChanges(s)
            \/ UNCHANGED vars
  <2>1. file' = file /\ heals' = heals /\ seen' = seen /\ calm' = calm /\ scan' = scan
    BY <1>11 DEF ProcessEnds, ServingChanges, vars, truth
  <2> QED BY <1>2, <2>1
<1> QED
  BY <1>4, <1>5, <1>6, <1>7, <1>8, <1>9, <1>10, <1>11 DEF Next, Scan

LEMMA NextFrozen ==
    TypeOK /\ MemoriesSound /\ IdleScansEmpty /\ FrozenIsEarned /\ [Next]_vars => FrozenIsEarned'
<1> SUFFICES ASSUME TypeOK, MemoriesSound, IdleScansEmpty, FrozenIsEarned, [Next]_vars,
                    NEW n \in Scanners, NEW x \in Services,
                    scan'[n].result[x].status = "FROZEN"
             PROVE  Cardinality(heals'[x]) >= MaxHeals
  BY DEF FrozenIsEarned
<1>1. /\ scan \in [Scanners -> ScanState] /\ heals \in Restarts
      /\ scan[n].memory \in Memory
      /\ scan[n].result[x].status = "FROZEN" => Cardinality(heals[x]) >= MaxHeals
      /\ Cardinality(heals[x]) \in Nat
  BY TypeFacts, FiniteHistory DEF ScanState, FrozenIsEarned, Restarts
<1>2. "FROZEN" # "none"
  OBVIOUS
<1>3. CASE Tick
  <2>1. scan'[n] = Idle
    BY <1>3, TickLater DEF IdleScansEmpty
  <2> QED BY <1>2, <2>1, IdleFacts DEF NoResult
<1>4. ASSUME NEW m \in Scanners, CheckService(m) PROVE Cardinality(heals'[x]) >= MaxHeals
  <2>1. PICK s \in Services, r \in Memory, v \in Judgement : Judges(m, s, r, v)
    BY <1>4, CheckJudges
  <2>2. /\ scan' = [scan EXCEPT ![m] = [at |-> "services", next |-> scan[m].next + 1,
                                        memory |-> r,
                                        result |-> [scan[m].result EXCEPT ![s] = v]]]
        /\ heals' = WithRestart(heals, s, v.healed)
        /\ v.status = "FROZEN" => Frozen(scan[m].memory, s)
    BY <2>1 DEF Judges
  <2>3. v.healed \in BOOLEAN
    BY DEF Judgement
  <2>4. heals[x] \subseteq heals'[x] /\ heals'[x] \in SUBSET (0 .. Window - 1)
    BY <1>1, <2>2, <2>3, AgesFacts DEF WithRestart, Restarts
  <2>5. \A S \in SUBSET heals'[x] : Cardinality(S) >= MaxHeals => Cardinality(heals'[x]) >= MaxHeals
    <3> SUFFICES ASSUME NEW S \in SUBSET heals'[x], Cardinality(S) >= MaxHeals
                 PROVE  Cardinality(heals'[x]) >= MaxHeals
      OBVIOUS
    <3>1. IsFiniteSet(heals'[x]) /\ Cardinality(heals'[x]) \in Nat
      BY <2>4, FiniteHistory
    <3>2. S \in SUBSET (0 .. Window - 1)
      BY <2>4
    <3>3. Cardinality(S) \in Nat
      BY <3>2, FiniteHistory
    <3>4. Cardinality(S) <= Cardinality(heals'[x])
      BY <3>1, FS_Subset
    <3> QED BY <3>1, <3>3, <3>4, AgesFacts
  <2>6. CASE scan[n].result[x].status = "FROZEN"
    BY <1>1, <2>4, <2>5, <2>6
  <2>7. CASE scan[n].result[x].status # "FROZEN"
    <3>1. n = m /\ x = s /\ v.status = "FROZEN"
      BY <1>1, <2>2, <2>7 DEF ScanState
    <3>2. Cardinality(scan[m].memory.history[x]) >= MaxHeals
      BY <2>2, <3>1 DEF Frozen
    <3>3. scan[m].memory.history[x] \subseteq heals[x]
      BY DEF MemoriesSound, Sound
    <3> QED BY <2>4, <2>5, <3>2, <3>3
  <2> QED BY <2>6, <2>7
<1>5. ASSUME heals' = heals, scan'[n].result[x] = scan[n].result[x]
      PROVE  Cardinality(heals'[x]) >= MaxHeals
  BY <1>1, <1>5
<1>6. ASSUME NEW m \in Scanners, Load(m) \/ BeginSave(m)
      PROVE  Cardinality(heals'[x]) >= MaxHeals
  <2>1. heals' = heals /\ scan'[n].result[x] = scan[n].result[x]
    <3>1. CASE Load(m)
      BY <1>1, <3>1 DEF Load, truth, ScanState
    <3>2. CASE BeginSave(m)
      BY <1>1, <3>2 DEF BeginSave, truth, ScanState
    <3> QED BY <1>6, <3>1, <3>2
  <2> QED BY <1>5, <2>1
<1>7. ASSUME NEW m \in Scanners, EndSave(m) \/ Kill(m)
      PROVE  Cardinality(heals'[x]) >= MaxHeals
  <2>1. heals' = heals /\ (scan'[n] = Idle \/ scan'[n] = scan[n])
    BY <1>1, <1>7 DEF EndSave, Kill, truth
  <2>2. scan'[n] # Idle
    BY <1>2, IdleFacts DEF NoResult
  <2> QED BY <1>5, <2>1, <2>2
<1>8. ASSUME NEW s \in Managed, ProcessStarts(s) PROVE Cardinality(heals'[x]) >= MaxHeals
  <2>1. heals' = heals /\ scan'[n].result[x] = scan[n].result[x]
    BY <1>1, <1>8 DEF ProcessStarts, truth, ScanState
  <2> QED BY <1>5, <2>1
<1>9. CASE \/ \E s \in Managed : ProcessEnds(s)
           \/ \E s \in Services : ServingChanges(s)
           \/ UNCHANGED vars
  <2>1. heals' = heals /\ scan' = scan
    BY <1>9 DEF ProcessEnds, ServingChanges, vars, truth
  <2> QED BY <1>5, <2>1
<1> QED
  BY <1>3, <1>4, <1>6, <1>7, <1>8, <1>9 DEF Next, Scan

-------------------------------------------------------------------------------
(* Theorems *)

LEMMA Invariance == Spec => []IInv
<1>1. IInv /\ [Next]_vars => IInv'
  <2> SUFFICES ASSUME IInv, [Next]_vars PROVE IInv'
    OBVIOUS
  <2>1. TypeOK /\ MemoriesSound /\ IdleScansEmpty /\ OneAtATime /\ FrozenIsEarned
    BY DEF IInv
  <2>2. TypeOK' /\ MemoriesSound' /\ IdleScansEmpty' /\ OneAtATime' /\ FrozenIsEarned'
    BY <2>1, NextType, NextSound, NextIdle, NextOne, NextFrozen
  <2> QED BY <2>2 DEF IInv
<1> QED
  BY InitInv, <1>1, PTL DEF Spec

(* Type correctness of the state file, of every scan and of the world.        *)
THEOREM MatrixTypeCorrect == Spec => []TypeOK
<1>1. IInv => TypeOK
  BY DEF IInv
<1> QED
  BY <1>1, Invariance, PTL

(* scan_once freezes a service only while MaxHeals restarts of it are in the  *)
(* window, even if scans overlap, are killed or lose the file.                *)
THEOREM MatrixFrozenIsEarned == Spec => []FrozenIsEarned
<1>1. IInv => FrozenIsEarned
  BY DEF IInv
<1> QED
  BY <1>1, Invariance, PTL

(* A window without overlap or kill has at most MaxHeals restarts of a        *)
(* service: the state file, or the scan that will write it, knows all of them *)
(* and the limit holds for what it knows.                                    *)
THEOREM MatrixRestartsBounded == Spec => []RestartsBounded
<1>1. IInv => RestartsBounded
  <2> SUFFICES ASSUME IInv, calm >= Window, NEW s \in Services
               PROVE  Cardinality(heals[s]) <= MaxHeals
    BY DEF RestartsBounded
  <2>1. TypeOK /\ MemoriesSound /\ OneAtATime
    BY DEF IInv
  <2>2. /\ file \in Memory /\ \A m \in Scanners : scan[m].memory \in Memory
        /\ heals[s] \in SUBSET (0 .. Window - 1) /\ calm > 0 /\ calm \in Nat
    <3>1. /\ scan \in [Scanners -> ScanState] /\ file \in Memory
          /\ heals \in Restarts /\ calm \in Ages
      BY <2>1, TypeFacts
    <3>2. calm > 0 /\ calm \in Nat
      BY <3>1, AgesFacts
    <3> QED BY <3>1, <3>2 DEF ScanState, Restarts
  <2>3. PICK memory \in Memory : Knows(memory, heals, seen, calm) /\ Sound(memory, heals)
    BY <2>1, <2>2 DEF OneAtATime, MemoriesSound
  <2>4. heals[s] \subseteq memory.history[s]
    BY <2>2, <2>3, AgesFacts DEF Knows
  <2>5. memory.history[s] \in SUBSET (0 .. Window - 1)
    BY DEF Memory
  <2>6. /\ IsFiniteSet(memory.history[s]) /\ Cardinality(memory.history[s]) \in Nat
        /\ Cardinality(heals[s]) \in Nat
    BY <2>2, <2>5, FiniteHistory
  <2>7. Cardinality(heals[s]) <= Cardinality(memory.history[s])
    BY <2>4, <2>6, FS_Subset
  <2>8. Cardinality(memory.history[s]) <= MaxHeals
    BY <2>3 DEF Sound, Bounded
  <2> QED BY <2>6, <2>7, <2>8, AgesFacts
<1> QED
  BY <1>1, Invariance, PTL

LEMMA OnlyChecksJudge ==
    ASSUME TypeOK, IdleScansEmpty, [Next]_vars, NEW m \in Scanners, NEW s \in Services,
           scan[m].result[s] = NoResult, scan'[m].result[s].status # "none"
    PROVE  CheckService(m)
<1>1. scan \in [Scanners -> ScanState]
  BY TypeFacts
<1>2. scan'[m].result[s] # scan[m].result[s] /\ scan'[m] # Idle
  BY IdleFacts DEF NoResult
<1>3. ASSUME NEW n \in Scanners, Load(n) \/ BeginSave(n) PROVE FALSE
  BY <1>1, <1>2, <1>3 DEF Load, BeginSave, ScanState
<1>4. ASSUME NEW n \in Scanners, EndSave(n) \/ Kill(n) PROVE FALSE
  BY <1>1, <1>2, <1>4 DEF EndSave, Kill
<1>5. ASSUME NEW n \in Scanners, CheckService(n) PROVE n = m
  <2>1. PICK x \in Services, r \in Memory, v \in Judgement : Judges(n, x, r, v)
    BY <1>5, CheckJudges
  <2> QED BY <1>1, <1>2, <2>1 DEF Judges
<1>6. ASSUME NEW x \in Managed, ProcessStarts(x) PROVE FALSE
  BY <1>1, <1>2, <1>6 DEF ProcessStarts, ScanState
<1>7. ASSUME \/ Tick \/ UNCHANGED vars
             \/ \E x \in Managed : ProcessEnds(x)
             \/ \E x \in Services : ServingChanges(x)
      PROVE  FALSE
  BY <1>2, <1>7 DEF Tick, ProcessEnds, ServingChanges, vars
<1> QED
  BY <1>3, <1>4, <1>5, <1>6, <1>7 DEF Next, Scan

(* scan_once never counts the uptime of a launchd service it finds running    *)
(* from the start of an older process.                                      *)
THEOREM MatrixUptimeIsTrue == Spec => UptimeIsTrue
<1>1. IInv /\ [Next]_vars =>
        [\A m \in Scanners, s \in Launchd :
            scan[m].result[s] = NoResult /\ scan'[m].result[s].status = "running"
              => scan'[m].memory.since[s] = "present"]_vars
  <2> SUFFICES ASSUME IInv, [Next]_vars, NEW m \in Scanners, NEW s \in Launchd,
                      scan[m].result[s] = NoResult, scan'[m].result[s].status = "running"
               PROVE  scan'[m].memory.since[s] = "present"
    OBVIOUS
  <2>1. TypeOK /\ MemoriesSound /\ IdleScansEmpty /\ s \in Services
    BY LaunchdServices DEF IInv
  <2>2. CheckService(m)
    BY <2>1, OnlyChecksJudge
  <2>3. PICK x \in Services, r \in Memory, v \in Judgement : Judges(m, x, r, v)
    BY <2>1, <2>2, CheckJudges
  <2>4. scan' = [scan EXCEPT ![m] = [at |-> "services", next |-> scan[m].next + 1,
                                     memory |-> r,
                                     result |-> [scan[m].result EXCEPT ![x] = v]]]
    BY <2>3 DEF Judges
  <2>5. x = s /\ v.status = "running" /\ scan'[m].memory = r
    BY <2>1, <2>4, TypeFacts DEF ScanState, NoResult
  <2>6. PidVouches(scan[m].memory)
    BY <2>1 DEF MemoriesSound, Sound
  <2> QED BY <2>3, <2>5, <2>6 DEF Judges
<1> QED
  BY <1>1, Invariance, PTL DEF Spec, UptimeIsTrue

(* scan_once gives a service up only if no verdict of the half hour before    *)
(* found it healthy, unless scans overlapped or one was killed in that time.  *)
THEOREM MatrixUnrecoverableIsEarned == Spec => UnrecoverableIsEarned
<1>1. IInv /\ [Next]_vars =>
        [\A m \in Scanners, s \in Services :
            /\ calm > Hopeless
            /\ scan[m].result[s] = NoResult /\ scan'[m].result[s].status = "unrecoverable"
            => seen[s] \notin 0 .. Hopeless]_vars
  <2> SUFFICES ASSUME IInv, [Next]_vars, NEW m \in Scanners, NEW s \in Services,
                      calm > Hopeless, scan[m].result[s] = NoResult,
                      scan'[m].result[s].status = "unrecoverable",
                      seen[s] \in 0 .. Hopeless
               PROVE  FALSE
    OBVIOUS
  <2>1. TypeOK /\ OneAtATime /\ IdleScansEmpty
    BY DEF IInv
  <2>2. CheckService(m)
    BY <2>1, OnlyChecksJudge
  <2>3. PICK x \in Services, r \in Memory, v \in Judgement : Judges(m, x, r, v)
    BY <2>1, <2>2, CheckJudges
  <2>4. /\ scan' = [scan EXCEPT ![m] = [at |-> "services", next |-> scan[m].next + 1,
                                        memory |-> r,
                                        result |-> [scan[m].result EXCEPT ![x] = v]]]
        /\ scan[m].at = "services"
        /\ v.status = "unrecoverable" => GivenUp(scan[m].memory, x)
    BY <2>3 DEF Judges
  <2>5. x = s /\ v.status = "unrecoverable"
    BY <2>1, <2>4, TypeFacts DEF ScanState, NoResult
  <2>6. /\ s \in Launchd
        /\ scan[m].memory.lastHealthy[s] # Never /\ scan[m].memory.lastHealthy[s] > Hopeless
    BY <2>4, <2>5 DEF GivenUp
  <2>7. calm > 0 /\ seen[s] \in Ages /\ seen[s] < calm /\ seen[s] \in Nat
    BY <2>1, TypeFacts, AgesFacts DEF Ages
  <2>8. Knows(scan[m].memory, heals, seen, calm)
    BY <2>1, <2>4, <2>7 DEF OneAtATime, Active
  <2>9. scan[m].memory.lastHealthy[s] = seen[s]
    BY <2>6, <2>7, <2>8 DEF Knows
  <2> QED BY <2>6, <2>9, AgesFacts
<1> QED
  BY <1>1, Invariance, PTL DEF Spec, UnrecoverableIsEarned

-------------------------------------------------------------------------------
(* CronService. *)

(* What the table holds, and that what was ever created is a job.                  *)
TableFits == row \in [Jobs -> Row \cup {NoRow}] /\ created \in Seq(Jobs)

LEMMA ExistingListed == SetToSeq(Existing) \in Seq(Jobs)
<1> DEFINE n == Cardinality(Existing)
<1>1. IsFiniteSet(Existing)
  BY CronAssumption, FS_Subset
<1>2. n \in Nat /\ ExistsBijection(1 .. n, Existing)
  BY <1>1, FS_CardinalityType
<1>3. PICK f \in [1 .. n -> Existing] : IsInjective(f)
  BY <1>2 DEF ExistsBijection, Bijection, Injection, Surjection, IsInjective
<1>4. SetToSeq(Existing) \in [1 .. n -> Existing]
  BY <1>3 DEF SetToSeq
<1>5. SetToSeq(Existing) \in Seq(Existing)
  BY <1>2, <1>4
<1>6. QED
  BY <1>5, CronAssumption

LEMMA CronStarts == CronInit => TableFits
<1> SUFFICES ASSUME CronInit PROVE TableFits
  OBVIOUS
<1>1. row \in [Jobs -> Row \cup {NoRow}]
  BY DEF CronInit, Row
<1>2. QED
  BY <1>1, ExistingListed DEF CronInit, TableFits

(* What a step may do to the table: a client edits it, a run is recorded, an        *)
(* interval elapses; nothing else writes it.                                        *)
Elapsed(j) ==
    /\ row[j] # NoRow /\ row[j].last = "recent"
    /\ row' = [row EXCEPT ![j].last = "elapsed"]

LEMMA WritersOfTheTable ==
    ASSUME [CronNext]_cronVars
    PROVE  \/ ClientEdits
           \/ UNCHANGED created /\ \E j : RecordRun(j) \/ Elapsed(j)
           \/ UNCHANGED <<row, created>>
<1>1. CASE Ticker
  BY <1>1 DEF Ticker, BeginTick, Submit, EndSubmit, EndScan
<1>2. ASSUME NEW w \in Workers, Worker(w)
      PROVE  UNCHANGED created /\ (UNCHANGED row \/ \E j : RecordRun(j))
  BY <1>2 DEF Worker, Take, ScriptEnds, WorkerRecords, WorkerCannotRecord
<1>3. CASE InitialScan \/ Stop \/ Exit \/ ScanIntervalElapses
  BY <1>3 DEF InitialScan, Stop, Exit, Ends, ScanIntervalElapses
<1>4. ASSUME NEW p \in Processes, Manual(p)
      PROVE  UNCHANGED created /\ (UNCHANGED row \/ \E j : RecordRun(j))
  BY <1>4 DEF Manual, ManualEnds, ManualRecords, ManualOverruns, Ends
<1>5. ASSUME NEW p \in Processes, Start(p) \/ Killed(p) \/ \E j \in Jobs : RunNow(p, j)
      PROVE  UNCHANGED <<row, created>>
  BY <1>5 DEF Start, Killed, Ends, RunNow
<1>6. ASSUME NEW j \in Jobs, IntervalElapses(j)
      PROVE  UNCHANGED created /\ Elapsed(j)
  BY <1>6 DEF IntervalElapses, Elapsed
<1>7. CASE UNCHANGED cronVars
  BY <1>7 DEF cronVars
<1>8. CASE \E p \in Processes, j \in Jobs : CreateJob(p, j) \/ UpdateJob(p, j) \/ DeleteJob(p, j)
  BY <1>8 DEF ClientEdits
<1>9. QED
  BY <1>1, <1>2, <1>3, <1>4, <1>5, <1>6, <1>7, <1>8 DEF CronNext

(* Recording a run, or time, changes nothing of a row but when the job last ran.     *)
LEMMA OnlyLastChanges ==
    ASSUME TableFits, NEW j, RecordRun(j) \/ Elapsed(j)
    PROVE  /\ row' \in [Jobs -> Row \cup {NoRow}]
           /\ \A i \in Jobs : row[i] = NoRow => row'[i] = NoRow
           /\ \A i \in Jobs : row[i] # NoRow =>
                 row'[i] # NoRow /\ [row'[i] EXCEPT !.last = row[i].last] = row[i]
<1>1. PICK last \in {"recent", "elapsed"} :
         row' = row \/ (row[j] # NoRow /\ row' = [row EXCEPT ![j].last = last])
  BY DEF RecordRun, Elapsed
<1>2. CASE row' = row
  <2>1. \A i \in Jobs : row[i] # NoRow => [row[i] EXCEPT !.last = row[i].last] = row[i]
    BY DEF TableFits, Row
  <2>2. QED
    BY <1>2, <2>1 DEF TableFits
<1>3. CASE row[j] # NoRow /\ row' = [row EXCEPT ![j].last = last]
  <2> SUFFICES ASSUME NEW i \in Jobs
               PROVE  /\ row'[i] \in Row \cup {NoRow}
                      /\ row[i] = NoRow => row'[i] = NoRow
                      /\ row[i] # NoRow => /\ row'[i] # NoRow
                                           /\ [row'[i] EXCEPT !.last = row[i].last] = row[i]
    BY <1>3 DEF TableFits
  <2>1. row'[i] = IF i = j THEN [row[i] EXCEPT !.last = last] ELSE row[i]
    BY <1>3 DEF TableFits
  <2>2. row[i] \in Row => /\ [row[i] EXCEPT !.last = last] \in Row
                          /\ [[row[i] EXCEPT !.last = last] EXCEPT !.last = row[i].last] = row[i]
                          /\ [row[i] EXCEPT !.last = row[i].last] = row[i]
    BY DEF Row
  <2>3. row[i] \in Row \cup {NoRow}
    BY DEF TableFits
  <2>4. QED
    BY <1>3, <2>1, <2>2, <2>3, CronAssumption
<1>4. QED
  BY <1>1, <1>2, <1>3

(* What a client edits it leaves well formed, and a job that is gone stays gone.      *)
LEMMA EditsFit ==
    ASSUME TableFits, ClientEdits
    PROVE  /\ TableFits'
           /\ \A i \in ToSet(created) : row[i] = NoRow => row'[i] = NoRow
<1>1. ToSet(created) \subseteq Jobs
  BY DEF TableFits, ToSet
<1>2. ASSUME NEW p \in Processes, NEW j \in Jobs, CreateJob(p, j)
      PROVE  TableFits' /\ \A i \in ToSet(created) : row[i] = NoRow => row'[i] = NoRow
  <2>1. PICK s \in {"empty", "bad", "good"}, script \in BOOLEAN :
           row' = [row EXCEPT ![j] = [enabled |-> TRUE, schedule |-> s,
                                      script |-> script, last |-> "null"]]
    BY <1>2 DEF CreateJob
  <2>2. [enabled |-> TRUE, schedule |-> s, script |-> script, last |-> "null"] \in Row
    BY DEF Row
  <2>3. created' = Append(created, j) /\ j \notin ToSet(created)
    BY <1>2 DEF CreateJob
  <2>4. QED
    BY <1>1, <2>1, <2>2, <2>3 DEF TableFits
<1>3. ASSUME NEW p \in Processes, NEW j \in Jobs, UpdateJob(p, j)
      PROVE  TableFits' /\ \A i \in ToSet(created) : row[i] = NoRow => row'[i] = NoRow
  <2>1. row[j] \in Row /\ UNCHANGED created /\ row[j] # NoRow
    BY <1>3 DEF UpdateJob, TableFits
  <2>2. PICK r \in Row : row' = [row EXCEPT ![j] = r]
    <3>1. CASE row' = [row EXCEPT ![j].enabled = ~ @]
      <4>1. [row[j] EXCEPT !.enabled = ~ @] \in Row
        BY <2>1 DEF Row
      <4>2. QED
        BY <3>1, <4>1
    <3>2. CASE row' = [row EXCEPT ![j].script = ~ @]
      <4>1. [row[j] EXCEPT !.script = ~ @] \in Row
        BY <2>1 DEF Row
      <4>2. QED
        BY <3>2, <4>1
    <3>3. ASSUME NEW s \in {"empty", "bad", "good"}, NEW l \in {"recent", "elapsed"},
                 row' = [row EXCEPT ![j].schedule = s,
                                    ![j].last = IF @ = "null" THEN @ ELSE l]
          PROVE  \E r \in Row : row' = [row EXCEPT ![j] = r]
      <4> DEFINE r == [row[j] EXCEPT !.schedule = s, !.last = IF @ = "null" THEN @ ELSE l]
      <4>1. r \in Row
        BY <2>1 DEF Row
      <4>2. row' = [row EXCEPT ![j] = r]
        BY <3>3 DEF TableFits
      <4> HIDE DEF r
      <4>3. QED
        BY <4>1, <4>2
    <3>4. QED
      BY <1>3, <3>1, <3>2, <3>3 DEF UpdateJob
  <2>3. QED
    BY <1>1, <2>1, <2>2 DEF TableFits
<1>4. ASSUME NEW p \in Processes, NEW j \in Jobs, DeleteJob(p, j)
      PROVE  TableFits' /\ \A i \in ToSet(created) : row[i] = NoRow => row'[i] = NoRow
  BY <1>1, <1>4 DEF DeleteJob, TableFits
<1>5. QED
  BY <1>2, <1>3, <1>4 DEF ClientEdits

LEMMA CronKeeps ==
    TableFits /\ [CronNext]_cronVars =>
        /\ TableFits'
        /\ \A j \in ToSet(created) : row[j] = NoRow => row'[j] = NoRow
<1> SUFFICES ASSUME TableFits, [CronNext]_cronVars
             PROVE  TableFits' /\ \A j \in ToSet(created) : row[j] = NoRow => row'[j] = NoRow
  OBVIOUS
<1>1. ToSet(created) \subseteq Jobs
  BY DEF TableFits, ToSet
<1>2. CASE ClientEdits
  BY <1>2, EditsFit
<1>3. CASE UNCHANGED created /\ \E j : RecordRun(j) \/ Elapsed(j)
  BY <1>1, <1>3, OnlyLastChanges DEF TableFits
<1>4. CASE UNCHANGED <<row, created>>
  BY <1>4 DEF TableFits
<1>5. QED
  BY <1>2, <1>3, <1>4, WritersOfTheTable

LEMMA EditsKept ==
    ASSUME TableFits, [CronNext]_cronVars, ~ ClientEdits, NEW j \in Jobs, row[j] # NoRow
    PROVE  row'[j] # NoRow /\ [row'[j] EXCEPT !.last = row[j].last] = row[j]
<1>1. CASE \E i : RecordRun(i) \/ Elapsed(i)
  BY <1>1, OnlyLastChanges
<1>2. CASE UNCHANGED row
  <2>1. [row[j] EXCEPT !.last = row[j].last] = row[j]
    BY DEF TableFits, Row
  <2>2. QED
    BY <1>2, <2>1
<1>3. QED
  BY <1>1, <1>2, WritersOfTheTable

(* The table is well formed after any number of requests, runs and restarts.             *)
THEOREM CronTableFits == CronSpec => []TableFits
BY CronStarts, CronKeeps, PTL DEF CronSpec

(* For any jobs, processes' schedules, workers and failures: no run that ends after its   *)
(* job was deleted brings the row back.                                              *)
THEOREM DeletedForGood == CronSpec => DeletedStaysDeleted
<1>1. TableFits /\ [CronNext]_cronVars =>
         [\A j \in ToSet(created) : row[j] = NoRow => row'[j] = NoRow]_cronVars
  BY CronKeeps
<1>2. QED
  BY <1>1, CronTableFits, PTL DEF CronSpec, DeletedStaysDeleted

(* For any jobs, workers and failures: recording a run undoes nothing a client changed      *)
(* while it ran.                                                                   *)
THEOREM EditsAlwaysSurvive == CronSpec => EditsSurviveRuns
<1>1. TableFits /\ [CronNext]_cronVars =>
         [~ ClientEdits => \A j \in Jobs : row[j] # NoRow =>
              /\ row'[j] # NoRow
              /\ [row'[j] EXCEPT !.last = row[j].last] = row[j]]_cronVars
  BY EditsKept
<1>2. QED
  BY <1>1, CronTableFits, PTL DEF CronSpec, EditsSurviveRuns

===============================================================================
