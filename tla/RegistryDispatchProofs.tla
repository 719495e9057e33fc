------------------------ MODULE RegistryDispatchProofs ------------------------
(***************************************************************************)
(* TLAPS proofs about RegistryDispatch, for any agents, tasks, nodes and     *)
(* pool threads and any number of requests, outages and retries.            *)
(***************************************************************************)
EXTENDS RegistryDispatch, FiniteSetTheorems, TLAPS

(* What a handler holds in its locals while it waits for the store's lock:   *)
(* a task and an agent to give it to, or a load that counts one.             *)
Routing == {"select", "read", "write"}

FrameFits(f) ==
    /\ f \in Frame
    /\ f.pc \in Routing => f.task \in Tasks
    /\ f.pc \in {"read", "write"} => f.agent \in Agents
    /\ f.pc = "release" => f.agent \in Agents /\ f.seen >= 1
    /\ f.pc \in {"set_idle", "set_offline"} => f.agent \in Agents
    /\ f.pc = "next" => f.op \in {"dispatch", "retry", "failover"}
    /\ f.pc \in {"visit", "set_offline"} => f.op = "failover"

FramesFit == frame \in [Threads -> Frame] /\ \A h \in Threads : FrameFits(frame[h])

(* The queues are finite, so the length of an iterated dict is a number.     *)
QueuesFinite == IsFiniteSet(pending) /\ IsFiniteSet(escalated)
KeptFinite == \A h \in Threads : IsFiniteSet(frame[h].kept)

(* The event loop only submits, and a task that is still tried has a try     *)
(* left, unless its last one is being written.                              *)
LoopSubmits ==
    /\ \/ frame[Loop] = Idle
       \/ frame[Loop].op = "submit" /\ frame[Loop].pc \in Routing
    /\ \A h \in Workers : frame[h].op # "submit"

TriesLeft ==
    \A t \in Tasks :
        \/ submission[t] \notin {"new", "waiting"}
        \/ frame[Loop] # Idle /\ frame[Loop].task = t
        \/ attempts[t] <= MaxRetries

(* A TaskAssignment names an agent.                                         *)
AssignmentsNamed == \A t \in Tasks : taskStatus[t] # "none" => assigned[t] \in Agents

TypeInv ==
    /\ TypeOK
    /\ FramesFit
    /\ QueuesFinite
    /\ KeptFinite
    /\ LoopSubmits
    /\ TriesLeft
    /\ AssignmentsNamed

(* While no two rewriters of the queue overlapped, there is one at most; what *)
(* it iterates was in the queue, and each item of it is still to be looked    *)
(* at, kept, about to be assigned, dispatched or reported.                   *)
OneRewriter ==
    \A g, h \in Workers : frame[g].op \in Rewriting /\ frame[h].op \in Rewriting => g = h

Iterating(h) == frame[h].op \in Rewriting /\ frame[h].pc \in {"next"} \cup Routing

Settled(t) == taskStatus[t] = "dispatched" \/ reports[t] > 0

Handled(h, t) ==
    \/ t \in frame[h].todo \cup frame[h].kept
    \/ frame[h].pc \in Routing /\ frame[h].task = t
    \/ Settled(t)

Covered(h) ==
    \E items \in SUBSET pending :
        Cardinality(items) = frame[h].size /\ \A t \in items : Handled(h, t)

IterationCovers == \A h \in Workers : Iterating(h) => Covered(h)

(* A task nobody has reported on is dispatched, queued or being tried.       *)
InPlace(t) ==
    submission[t] # "new" => Settled(t) \/ t \in pending \/ submission[t] = "waiting"

QueueInOrder == OneRewriter /\ IterationCovers /\ \A t \in Tasks : InPlace(t)

QueueInv == overlapped \/ QueueInOrder

IInv == TypeInv /\ QueueInv

(* What may still be given back to an agent: the tasks it has that nobody has      *)
(* reported on, or that are dispatched to it, and the handlers that are about to    *)
(* write its load back.                                                       *)
Slots(a) ==
    {t \in Tasks : assigned[t] = a /\ (taskStatus[t] = "dispatched" \/ reports[t] = 0)}
Returning(a) == {h \in Workers : frame[h].pc = "release" /\ frame[h].agent = a}

SlotsFinite == \A a \in Agents : IsFiniteSet(Slots(a)) /\ IsFiniteSet(Returning(a))

SlotsCovered ==
    \A a \in Agents : status[a] \in Known =>
        Cardinality(Slots(a)) + Cardinality(Returning(a)) <= active[a]

(* An agent that has yet to register is nobody's choice.                       *)
NewcomersFree ==
    \A a \in Agents : status[a] = "absent" =>
        /\ \A t \in Tasks : assigned[t] # a
        /\ \A h \in Threads : frame[h].agent # a /\ a \notin frame[h].among

LoadInv ==
    /\ SlotsFinite /\ NewcomersFree
    /\ raced \/ (\E t \in Tasks : reports[t] > 1) \/ SlotsCovered

-------------------------------------------------------------------------------
(* Frames.                                                                  *)

LEMMA IdleFits == FrameFits(Idle) /\ IsFiniteSet(Idle.kept) /\ Idle.op # "submit"
  BY FS_EmptySet DEF FrameFits, Frame, Idle, Routing

(* A pool thread goes on with another frame.                                *)
LEMMA SetFrame ==
  ASSUME FramesFit, KeptFinite, LoopSubmits,
         NEW h \in Workers, NEW f, FrameFits(f), IsFiniteSet(f.kept), f.op # "submit",
         frame' = [frame EXCEPT ![h] = f]
  PROVE  FramesFit' /\ KeptFinite' /\ LoopSubmits' /\ frame'[Loop] = frame[Loop]
<1>1. h \in Threads /\ Loop \in Threads /\ h # Loop
  BY ThreadsAssumption DEF Threads
<1>2. frame' \in [Threads -> Frame]
  BY <1>1 DEF FramesFit, FrameFits
<1>3. \A g \in Threads : frame'[g] = IF g = h THEN f ELSE frame[g]
  BY <1>1 DEF FramesFit
<1>4. FramesFit'
  BY <1>2, <1>3 DEF FramesFit, FrameFits
<1>5. KeptFinite'
  BY <1>3 DEF KeptFinite
<1>6. LoopSubmits'
  BY <1>1, <1>3 DEF LoopSubmits, Threads
<1> QED
  BY <1>1, <1>3, <1>4, <1>5, <1>6

LEMMA DoneFits ==
  ASSUME FramesFit, KeptFinite, LoopSubmits, NEW h \in Workers, Done(h)
  PROVE  FramesFit' /\ KeptFinite' /\ LoopSubmits' /\ frame'[Loop] = frame[Loop]
  BY IdleFits, SetFrame DEF Done

(* A route has its task, and goes on with what the handler was doing.        *)
LEMMA RoutedFits ==
  ASSUME NEW f, FrameFits(f), NEW t \in Tasks
  PROVE  /\ FrameFits(Routed(f, t))
         /\ Routed(f, t).kept = f.kept
         /\ Routed(f, t).op = f.op
         /\ Routed(f, t).task = t
         /\ Routed(f, t).pc = "select"
         /\ Routed(f, t).agent = f.agent
         /\ Routed(f, t).among = Candidates(t)
<1>1. Candidates(t) \subseteq Agents
  BY AgentsAssumption DEF Candidates
<1> QED
  BY <1>1 DEF Routed, FrameFits, Frame, Routing

(* An assignment is taken out of the snapshots of others, and changes nothing *)
(* else of what they are doing.                                              *)
LEMMA ReplacedFits ==
  ASSUME NEW f, FrameFits(f), NEW t \in Tasks, AssignmentsNamed
  PROVE  /\ FrameFits(Replaced(f, t))
         /\ Replaced(f, t).op = f.op /\ Replaced(f, t).pc = f.pc
         /\ Replaced(f, t).task = f.task /\ Replaced(f, t).agent = f.agent
         /\ Replaced(f, t).among = f.among /\ Replaced(f, t).kept = f.kept
         /\ f.pc \notin {"visit", "set_offline"} => Replaced(f, t) = f
<1>1. CASE ~(f.pc \in {"visit", "set_offline"} /\ t \in f.todo)
  BY <1>1 DEF Replaced
<1>2. CASE f.pc \in {"visit", "set_offline"} /\ t \in f.todo
  <2> DEFINE o == IF taskStatus[t] = "dispatched" THEN f.old \cup {<<t, assigned[t]>>} ELSE f.old
  <2>1. f \in Frame /\ f.old \in SUBSET (Tasks \X Agents) /\ f.todo \ {t} \in SUBSET Tasks
    BY DEF FrameFits, Frame
  <2>2. o \in SUBSET (Tasks \X Agents)
    <3>1. CASE taskStatus[t] = "dispatched"
      <4>1. <<t, assigned[t]>> \in Tasks \X Agents
        BY <3>1 DEF AssignmentsNamed
      <4> QED
        BY <2>1, <3>1, <4>1
    <3> QED
      BY <2>1, <3>1
  <2>3. Replaced(f, t) = [f EXCEPT !.todo = f.todo \ {t}, !.old = o]
    BY <1>2 DEF Replaced
  <2> HIDE DEF o
  <2>4. [f EXCEPT !.todo = f.todo \ {t}, !.old = o] \in Frame
    BY <2>1, <2>2 DEF Frame
  <2> QED
    BY <1>2, <2>1, <2>3, <2>4 DEF FrameFits, Frame
<1> QED
  BY <1>1, <1>2

(* What an assignment leaves of the frames.                                  *)
LEMMA AssignedFits ==
  ASSUME TypeInv, NEW h \in Threads, NEW f, frame[h].task \in Tasks,
         FrameFits(f), IsFiniteSet(f.kept), Assigned(h, f),
         h = Loop => f = Idle, h # Loop => f.op # "submit" /\ frame[Loop].pc \notin {"visit", "set_offline"}
  PROVE  /\ FramesFit' /\ KeptFinite' /\ LoopSubmits'
         /\ frame'[h] = f
         /\ h # Loop => frame'[Loop] = frame[Loop]
         /\ \A g \in Threads \ {h} :
               /\ frame'[g].op = frame[g].op /\ frame'[g].pc = frame[g].pc
               /\ frame'[g].task = frame[g].task /\ frame'[g].agent = frame[g].agent
               /\ frame'[g].among = frame[g].among /\ frame'[g].kept = frame[g].kept
               /\ frame[g].pc \notin {"visit", "set_offline"} => frame'[g] = frame[g]
<1>1. Loop \in Threads /\ Loop \notin Workers /\ Workers \subseteq Threads
  BY ThreadsAssumption DEF Threads
<1>2. /\ frame'[h] = f
      /\ \A g \in Threads \ {h} : frame'[g] = Replaced(frame[g], frame[h].task)
      /\ DOMAIN frame' = Threads
  BY DEF Assigned
<1>3. \A g \in Threads \ {h} :
         /\ FrameFits(frame'[g])
         /\ frame'[g].op = frame[g].op /\ frame'[g].pc = frame[g].pc
         /\ frame'[g].task = frame[g].task /\ frame'[g].agent = frame[g].agent
         /\ frame'[g].among = frame[g].among /\ frame'[g].kept = frame[g].kept
         /\ frame[g].pc \notin {"visit", "set_offline"} => frame'[g] = frame[g]
  BY <1>2, ReplacedFits DEF TypeInv, FramesFit
<1>4. \A g \in Threads : FrameFits(frame'[g]) /\ IsFiniteSet(frame'[g].kept)
  BY <1>2, <1>3 DEF TypeInv, KeptFinite
<1>5. frame' \in [Threads -> Frame]
  BY <1>4 DEF Assigned, FrameFits
<1>6. h # Loop => frame'[Loop] = frame[Loop]
  BY <1>1, <1>3
<1>7. LoopSubmits'
  BY <1>1, <1>2, <1>3, <1>6, IdleFits DEF TypeInv, LoopSubmits
<1> QED
  BY <1>2, <1>3, <1>4, <1>5, <1>6, <1>7 DEF FramesFit, KeptFinite

LEMMA LoopNotVisiting ==
  ASSUME LoopSubmits PROVE frame[Loop].pc \notin {"visit", "set_offline"}
  BY DEF LoopSubmits, Idle, Routing

-------------------------------------------------------------------------------
(* Type correctness.                                                        *)

LEMMA InitTypeInv == Init => TypeInv
<1> SUFFICES ASSUME Init PROVE TypeInv
  OBVIOUS
<1>1. FramesFit /\ KeptFinite /\ LoopSubmits
  BY IdleFits, ThreadsAssumption DEF Init, FramesFit, FrameFits, KeptFinite, LoopSubmits, Threads, Routing
<1>2. TypeOK
  <2>1. 0 \in 0 .. MaxRequests /\ 0 \in 0 .. MaxOutages /\ 0 \in 0 .. MaxRetries + 1
    BY BoundsAssumption
  <2>2. /\ status \in [Agents -> Statuses]
        /\ assigned \in [Tasks -> Agents \cup {None}]
        /\ taskStatus \in [Tasks -> {"none", "dispatched", "completed", "failed"}]
        /\ submission \in [Tasks -> {"new", "waiting", "dispatched", "escalated"}]
        /\ attempts \in [Tasks -> 0 .. MaxRetries + 1]
    BY <2>1 DEF Init, Statuses, Known
  <2> QED
    BY <1>1, <2>1, <2>2 DEF Init, TypeOK, FramesFit
<1>3. QueuesFinite /\ TriesLeft /\ AssignmentsNamed
  BY BoundsAssumption, FS_EmptySet DEF Init, QueuesFinite, TriesLeft, AssignmentsNamed
<1> QED
  BY <1>1, <1>2, <1>3 DEF TypeInv

(* An assignment writes back one more than the load it read.                 *)
LEMMA AssignTypes ==
  ASSUME TypeInv, NEW h \in Threads, Assign(h)
  PROVE  /\ status' \in [Agents -> Statuses]
         /\ active' \in [Agents -> Nat]
         /\ assigned' \in [Tasks -> Agents \cup {None}]
         /\ taskStatus' \in [Tasks -> {"none", "dispatched", "completed", "failed"}]
         /\ AssignmentsNamed'
         /\ raced' \in BOOLEAN
         /\ UNCHANGED <<queues, requests, outages, reports, overlapped>>
<1> DEFINE a == frame[h].agent
           t == frame[h].task
<1>1. frame[h] \in Frame /\ a \in Agents /\ t \in Tasks
  BY DEF TypeInv, FramesFit, FrameFits, Assign, At, Routing
<1>2. frame[h].seen + 1 \in Nat
  BY <1>1 DEF Frame
<1>3. status' \in [Agents -> Statuses] /\ active' \in [Agents -> Nat]
  <2>1. CASE status[a] \in Known
    BY <1>1, <1>2, <2>1 DEF Assign, TypeInv, TypeOK, Statuses, Known
  <2>2. CASE status[a] \notin Known
    BY <2>2 DEF Assign, store, TypeInv, TypeOK
  <2> QED
    BY <2>1, <2>2
<1>4. /\ assigned' \in [Tasks -> Agents \cup {None}]
      /\ taskStatus' \in [Tasks -> {"none", "dispatched", "completed", "failed"}]
  BY <1>1 DEF Assign, TypeInv, TypeOK
<1>5. raced' \in BOOLEAN
  BY DEF Assign, TypeInv, TypeOK
<1>6. AssignmentsNamed'
  BY <1>1 DEF Assign, TypeInv, TypeOK, AssignmentsNamed
<1> QED
  BY <1>3, <1>4, <1>5, <1>6 DEF Assign

(* Agents that come and go touch their status only.                          *)
LEMMA AgentStepTypes ==
  ASSUME TypeInv,
         \/ \E a \in Agents : Register(a) \/ Sweep(a) \/ Deregister(a)
         \/ \E n \in Nodes : MarkNodeOffline(n)
  PROVE  TypeInv'
<1>1. UNCHANGED <<active, tasks, queues, intake, frame, requests, reports, overlapped, raced>>
  BY DEF Register, Sweep, Deregister, MarkNodeOffline, history
<1>2. status' \in [Agents -> Statuses]
  <2>1. ASSUME NEW a \in Agents, Register(a) \/ Sweep(a) \/ Deregister(a)
        PROVE  status' \in [Agents -> Statuses]
    BY <2>1 DEF Register, Sweep, Deregister, TypeInv, TypeOK, Statuses, Known
  <2>2. ASSUME NEW n \in Nodes, MarkNodeOffline(n) PROVE status' \in [Agents -> Statuses]
    BY <2>2 DEF MarkNodeOffline, TypeInv, TypeOK, Statuses, Known
  <2> QED
    BY <2>1, <2>2
<1>3. outages' \in 0 .. MaxOutages
  BY BoundsAssumption
     DEF Register, Sweep, Deregister, MarkNodeOffline, Outage, history, TypeInv, TypeOK
<1>4. FramesFit' /\ KeptFinite' /\ LoopSubmits'
  BY <1>1 DEF TypeInv, FramesFit, KeptFinite, LoopSubmits
<1>5. TypeOK'
  BY <1>1, <1>2, <1>3 DEF TypeInv, TypeOK, tasks, queues, intake
<1>6. QueuesFinite' /\ TriesLeft' /\ AssignmentsNamed'
  BY <1>1 DEF TypeInv, QueuesFinite, TriesLeft, AssignmentsNamed,
              tasks, queues, intake
<1> QED
  BY <1>4, <1>5, <1>6 DEF TypeInv

(* The frame after the choice, and after the read of a load.                 *)
LEMMA RouteFrame ==
  ASSUME TypeInv, NEW h \in Threads, Select(h) \/ ReadLoad(h)
  PROVE  /\ frame'[h] \in Frame /\ FrameFits(frame'[h])
         /\ frame[h].pc \in Routing /\ frame'[h].pc \in Routing
         /\ frame'[h].op = frame[h].op /\ frame'[h].task = frame[h].task
         /\ frame'[h].todo = frame[h].todo /\ frame'[h].kept = frame[h].kept
         /\ frame'[h].size = frame[h].size
         /\ frame'[h].among \subseteq frame[h].among
         /\ frame'[h].agent \in Agents
         /\ \/ frame[h].pc = "select" /\ frame'[h].agent \in frame[h].among
            \/ frame[h].pc = "read" /\ frame'[h].agent = frame[h].agent
         /\ \A g \in Threads \ {h} : frame'[g] = frame[g]
         /\ frame' \in [Threads -> Frame]
         /\ UNCHANGED <<store, tasks, queues, intake, history>>
<1>1. FrameFits(frame[h]) /\ frame[h] \in Frame /\ frame \in [Threads -> Frame]
  BY DEF TypeInv, FramesFit
<1>2. CASE Select(h)
  <2>1. PICK a \in Best(frame[h].among) :
           frame' = [frame EXCEPT ![h].pc = "read", ![h].agent = a, ![h].among = {}]
    BY <1>2 DEF Select
  <2>2. a \in frame[h].among /\ a \in Agents /\ frame[h].pc = "select"
    BY <1>1, <1>2 DEF Select, Best, At, Frame
  <2> DEFINE f == [frame[h] EXCEPT !.pc = "read", !.agent = a, !.among = {}]
  <2>3. frame' = [frame EXCEPT ![h] = f]
    BY <1>1, <2>1
  <2>4. /\ f \in Frame /\ f.pc = "read" /\ f.agent = a /\ f.among = {}
        /\ f.op = frame[h].op /\ f.task = frame[h].task /\ f.todo = frame[h].todo
        /\ f.kept = frame[h].kept /\ f.size = frame[h].size
    BY <1>1, <2>2 DEF Frame
  <2> HIDE DEF f
  <2>5. FrameFits(f)
    BY <1>1, <2>2, <2>4 DEF FrameFits, Routing
  <2> QED
    BY <1>1, <1>2, <2>2, <2>3, <2>4, <2>5 DEF Select, Routing
<1>3. CASE ReadLoad(h)
  <2> DEFINE n == active[frame[h].agent]
             f == [frame[h] EXCEPT !.pc = "write", !.seen = n]
  <2>1. frame' = [frame EXCEPT ![h] = f] /\ frame[h].pc = "read"
    BY <1>1, <1>3 DEF ReadLoad, At
  <2>2. frame[h].agent \in Agents /\ n \in Nat
    BY <1>1, <2>1 DEF FrameFits, TypeInv, TypeOK
  <2>4. /\ f \in Frame /\ f.pc = "write" /\ f.agent = frame[h].agent /\ f.among = frame[h].among
        /\ f.op = frame[h].op /\ f.task = frame[h].task /\ f.todo = frame[h].todo
        /\ f.kept = frame[h].kept /\ f.size = frame[h].size
    BY <1>1, <2>2 DEF Frame
  <2> HIDE DEF f, n
  <2>5. FrameFits(f)
    BY <1>1, <2>1, <2>2, <2>4 DEF FrameFits, Routing
  <2> QED
    BY <1>1, <1>3, <2>1, <2>2, <2>4, <2>5 DEF ReadLoad, Routing
<1> QED
  BY <1>2, <1>3

LEMMA RouteStepTypes ==
  ASSUME TypeInv, NEW h \in Threads, Select(h) \/ ReadLoad(h)
  PROVE  TypeInv'
<1> USE DEF TypeInv
<1>0. Loop \in Threads /\ Loop \notin Workers /\ Threads = Workers \cup {Loop}
  BY ThreadsAssumption DEF Threads
<1>1. /\ FrameFits(frame'[h]) /\ frame[h].pc \in Routing /\ frame'[h].pc \in Routing
      /\ frame'[h].op = frame[h].op /\ frame'[h].task = frame[h].task
      /\ frame'[h].kept = frame[h].kept
      /\ \A g \in Threads \ {h} : frame'[g] = frame[g]
      /\ frame' \in [Threads -> Frame]
      /\ UNCHANGED <<store, tasks, queues, intake, history>>
  BY RouteFrame
<1>2. Idle.pc \notin Routing
  BY DEF Idle, Routing
<1>3. FramesFit' /\ KeptFinite'
  BY <1>1 DEF FramesFit, KeptFinite
<1>4. LoopSubmits'
  BY <1>0, <1>1, <1>2 DEF LoopSubmits
<1>5. TriesLeft'
  BY <1>0, <1>1, <1>2 DEF TriesLeft, intake
<1>6. TypeOK'
  BY <1>1 DEF TypeOK, store, tasks, queues, intake, history
<1>7. QueuesFinite' /\ AssignmentsNamed'
  BY <1>1 DEF QueuesFinite, AssignmentsNamed, queues, tasks
<1> QED
  BY <1>3, <1>4, <1>5, <1>6, <1>7

(* The event loop.                                                          *)
LEMMA LoopStepTypes ==
  ASSUME TypeInv, EventLoop
  PROVE  TypeInv'
<1> USE DEF TypeInv
<1>0. Loop \in Threads /\ Loop \notin Workers
  BY ThreadsAssumption DEF Threads
<1>1. ASSUME NEW t \in Tasks, AttemptRouted(t) PROVE TypeInv'
  <2> DEFINE i == [Idle EXCEPT !.op = "submit"]
             f == Routed(i, t)
  <2>1. frame' = [frame EXCEPT ![Loop] = f]
    BY <1>1 DEF AttemptRouted
  <2>2. FrameFits(i) /\ i.op = "submit" /\ IsFiniteSet(i.kept)
    BY FS_EmptySet DEF FrameFits, Frame, Idle, Routing
  <2> HIDE DEF i
  <2>3. /\ FrameFits(f) /\ f.op = "submit" /\ f.pc \in Routing /\ f.task = t
        /\ IsFiniteSet(f.kept)
    BY <2>2, RoutedFits DEF Routing
  <2> HIDE DEF f
  <2>4. \A g \in Threads : frame'[g] = IF g = Loop THEN f ELSE frame[g]
    BY <1>0, <2>1 DEF FramesFit, f
  <2>5. frame' \in [Threads -> Frame]
    BY <1>0, <2>1, <2>3 DEF FramesFit, FrameFits, f
  <2>6. FramesFit' /\ KeptFinite' /\ LoopSubmits'
    BY <1>0, <2>3, <2>4, <2>5 DEF FramesFit, KeptFinite, LoopSubmits, Threads
  <2>7. frame'[Loop] # Idle /\ frame'[Loop].task = t
    BY <1>0, <2>3, <2>4 DEF Idle, Routing
  <2>8. attempts' \in [Tasks -> 0 .. MaxRetries + 1] /\ TriesLeft'
    <3>1. attempts[t] <= MaxRetries
      BY <1>1 DEF AttemptRouted, Attempt, TriesLeft
    <3>2. attempts' \in [Tasks -> 0 .. MaxRetries + 1]
      BY <1>1, <3>1, BoundsAssumption DEF AttemptRouted, Attempt, TypeOK
    <3>3. \A u \in Tasks : u # t => /\ attempts'[u] = attempts[u]
                                    /\ submission'[u] = submission[u]
      BY <1>1 DEF AttemptRouted, Attempt, TypeOK
    <3>4. frame[Loop] = Idle
      BY <1>1 DEF AttemptRouted, Attempt
    <3> QED
      BY <2>7, <3>2, <3>3, <3>4 DEF TriesLeft
  <2>9. TypeOK'
    BY <1>1, <2>5, <2>8 DEF AttemptRouted, Attempt, TypeOK, store, tasks, queues, history
  <2>10. QueuesFinite' /\ AssignmentsNamed'
    BY <1>1 DEF AttemptRouted, Attempt, QueuesFinite, AssignmentsNamed, store, tasks, queues
  <2> QED
    BY <2>6, <2>8, <2>9, <2>10
<1>2. ASSUME NEW t \in Tasks, AttemptQueued(t) PROVE TypeInv'
  <2>1. UNCHANGED <<store, tasks, history, frame>>
    BY <1>2 DEF AttemptQueued, Attempt
  <2>2. attempts[t] <= MaxRetries /\ frame[Loop] = Idle
    BY <1>2 DEF AttemptQueued, Attempt, TriesLeft
  <2>3. attempts' \in [Tasks -> 0 .. MaxRetries + 1]
    BY <1>2, <2>2, BoundsAssumption DEF AttemptQueued, Attempt, TypeOK
  <2>4. /\ submission' \in [Tasks -> {"new", "waiting", "dispatched", "escalated"}]
        /\ pending' = pending \cup {t}
        /\ escalated' \in {escalated, escalated \cup {t}}
    BY <1>2 DEF AttemptQueued, TypeOK
  <2>5. TriesLeft'
    <3> SUFFICES ASSUME NEW u \in Tasks, submission'[u] \in {"new", "waiting"}
                 PROVE  attempts'[u] <= MaxRetries
      BY DEF TriesLeft
    <3>1. CASE u = t
      BY <1>2, <3>1, BoundsAssumption DEF AttemptQueued, Attempt, TypeOK
    <3>2. CASE u # t
      BY <1>2, <2>2, <3>2 DEF AttemptQueued, Attempt, TypeOK, TriesLeft
    <3> QED
      BY <3>1, <3>2
  <2>6. FramesFit' /\ KeptFinite' /\ LoopSubmits'
    BY <2>1 DEF FramesFit, KeptFinite, LoopSubmits
  <2>7. QueuesFinite'
    BY <2>4, FS_AddElement DEF QueuesFinite
  <2>8. TypeOK' /\ AssignmentsNamed'
    BY <2>1, <2>3, <2>4 DEF TypeOK, AssignmentsNamed, store, tasks, history
  <2> QED
    BY <2>5, <2>6, <2>7, <2>8
<1>3. ASSUME SubmitDispatched PROVE TypeInv'
  <2> DEFINE t == frame[Loop].task
  <2>1. /\ Assign(Loop) /\ Assigned(Loop, Idle) /\ UNCHANGED attempts
        /\ submission' = [submission EXCEPT ![t] = "dispatched"]
    BY <1>3 DEF SubmitDispatched
  <2>2. t \in Tasks /\ frame[Loop] \in Frame
    BY <1>0, <2>1 DEF Assign, At, FramesFit, FrameFits, Routing
  <2>3. FramesFit' /\ KeptFinite' /\ LoopSubmits' /\ frame' \in [Threads -> Frame]
    BY <1>0, <2>1, <2>2, IdleFits, AssignedFits DEF FramesFit
  <2>6. TriesLeft'
    BY <2>1, <2>2 DEF TriesLeft, TypeOK
  <2>7. TypeOK' /\ QueuesFinite' /\ AssignmentsNamed'
    BY <1>0, <2>1, <2>2, <2>3, AssignTypes DEF TypeOK, QueuesFinite, queues
  <2> QED
    BY <2>3, <2>6, <2>7
<1>4. ASSUME Select(Loop) \/ ReadLoad(Loop) PROVE TypeInv'
  BY <1>0, <1>4, RouteStepTypes
<1> QED
  BY <1>1, <1>2, <1>3, <1>4 DEF EventLoop

(* A request that arrives.                                                  *)
LEMMA BeginTypes ==
  ASSUME TypeInv, NEW h \in Workers, NEW f,
         FrameFits(f), IsFiniteSet(f.kept), f.op # "submit", Begin(h, f)
  PROVE  /\ FramesFit' /\ KeptFinite' /\ LoopSubmits' /\ frame'[Loop] = frame[Loop]
         /\ requests' \in 0 .. MaxRequests
         /\ overlapped' \in BOOLEAN
<1>1. FramesFit' /\ KeptFinite' /\ LoopSubmits' /\ frame'[Loop] = frame[Loop]
  BY SetFrame DEF TypeInv, Begin
<1>2. requests' \in 0 .. MaxRequests
  BY BoundsAssumption DEF TypeInv, TypeOK, Begin
<1>3. overlapped' \in BOOLEAN
  BY DEF TypeInv, TypeOK, Begin
<1> QED
  BY <1>1, <1>2, <1>3

(* A handler that replaces its queue tells the others that iterate it.       *)
LEMMA DetachFits ==
  ASSUME TypeInv, NEW h \in Workers, NEW ops, "submit" \notin ops, Detach(h, ops)
  PROVE  FramesFit' /\ KeptFinite' /\ LoopSubmits' /\ frame'[Loop] = frame[Loop]
<1> USE DEF TypeInv
<1>1. h \in Threads /\ Loop \in Threads /\ h # Loop
  BY ThreadsAssumption DEF Threads
<1>2. \A g \in Threads :
         frame'[g] \in {Idle, frame[g], [frame[g] EXCEPT !.size = -1]}
  BY DEF Detach
<1>3. \A g \in Threads : /\ FrameFits(frame'[g])
                         /\ IsFiniteSet(frame'[g].kept)
                         /\ frame'[g].op \in {"none", frame[g].op}
  <2> SUFFICES ASSUME NEW g \in Threads
               PROVE  /\ FrameFits(frame'[g])
                      /\ IsFiniteSet(frame'[g].kept)
                      /\ frame'[g].op \in {"none", frame[g].op}
    OBVIOUS
  <2>1. FrameFits(frame[g]) /\ frame[g] \in Frame /\ IsFiniteSet(frame[g].kept)
    BY DEF FramesFit, KeptFinite
  <2>2. CASE frame'[g] = Idle
    BY <2>2, IdleFits DEF Idle
  <2>3. CASE frame'[g] = frame[g]
    BY <2>1, <2>3
  <2>4. CASE frame'[g] = [frame[g] EXCEPT !.size = -1]
    BY <2>1, <2>4 DEF FrameFits, Frame
  <2> QED
    BY <1>2, <2>2, <2>3, <2>4
<1>4. frame' \in [Threads -> Frame]
  BY <1>3 DEF Detach, FrameFits
<1>5. frame'[Loop] = frame[Loop]
  BY <1>1 DEF Detach, LoopSubmits, Idle
<1>6. LoopSubmits'
  BY <1>1, <1>3, <1>5 DEF LoopSubmits, Threads
<1> QED
  BY <1>3, <1>4, <1>5, <1>6 DEF FramesFit, KeptFinite

(* The pool's steps leave the submissions alone.                             *)
LEMMA TriesKept ==
  ASSUME TriesLeft, frame'[Loop] = frame[Loop], UNCHANGED intake
  PROVE  TriesLeft'
  BY DEF TriesLeft, intake

(* What a pool thread's step that keeps the loads leaves in order.           *)
LEMMA PoolStepTypes ==
  ASSUME TypeInv, FramesFit', KeptFinite', LoopSubmits', frame'[Loop] = frame[Loop],
         status' \in [Agents -> Statuses], UNCHANGED active, UNCHANGED assigned,
         taskStatus' \in [Tasks -> {"none", "dispatched", "completed", "failed"}],
         \A t \in Tasks : taskStatus'[t] = taskStatus[t] \/ assigned[t] \in Agents,
         pending' \subseteq Tasks, escalated' \subseteq Tasks, QueuesFinite',
         UNCHANGED intake, UNCHANGED outages,
         requests' \in 0 .. MaxRequests, reports' \in [Tasks -> Nat],
         overlapped' \in BOOLEAN, raced' \in BOOLEAN
  PROVE  TypeInv'
<1>1. UNCHANGED <<submission, attempts>>
  BY DEF intake
<1>2. frame' \in [Threads -> Frame]
  BY DEF FramesFit
<1>3. TypeOK'
  BY <1>1, <1>2 DEF TypeInv, TypeOK
<1>4. TriesLeft' /\ AssignmentsNamed'
  BY TriesKept DEF TypeInv, AssignmentsNamed
<1> QED
  BY <1>3, <1>4 DEF TypeInv

(* A handler that begins a loop has not chosen anything yet.                 *)
LEMMA LoopingFits ==
  ASSUME NEW f, f \in Frame, f.kept = {},
         \/ f.op \in {"dispatch", "retry"} /\ f.pc = "next"
         \/ f.op = "failover" /\ f.pc = "visit"
  PROVE  FrameFits(f) /\ IsFiniteSet(f.kept) /\ f.op # "submit"
  BY FS_EmptySet DEF FrameFits, Routing

(* The fields a request sets.                                               *)
LEMMA LoopFrame ==
  ASSUME NEW f \in Frame, NEW items \in SUBSET Tasks, NEW n \in Int,
         NEW op \in {"dispatch", "retry"}
  PROVE  [f EXCEPT !.op = op, !.pc = "next", !.todo = items, !.size = n] \in Frame
  BY DEF Frame

LEMMA RestartFrame ==
  ASSUME NEW f \in Frame, NEW items \in SUBSET Tasks, NEW n \in Int
  PROVE  [f EXCEPT !.pc = "next", !.todo = items, !.old = {}, !.size = n] \in Frame
  BY DEF Frame

LEMMA ReportFrame ==
  ASSUME NEW f \in Frame, NEW op \in {"complete", "fail"}, NEW a \in Agents, NEW seen \in Nat
  PROVE  [f EXCEPT !.op = op, !.pc = "release", !.agent = a, !.seen = seen] \in Frame
  BY DEF Frame

LEMMA RequestTypes ==
  ASSUME TypeInv, NEW h \in Workers, Request(h)
  PROVE  TypeInv'
<1> USE DEF TypeInv
<1>0. pending \subseteq Tasks /\ escalated \subseteq Tasks
  BY DEF TypeOK
<1>1. CASE BeginDispatch(h)
  <2> DEFINE f == [Idle EXCEPT !.op = "dispatch", !.pc = "next", !.todo = pending,
                               !.size = Cardinality(pending)]
  <2>1. Cardinality(pending) \in Int
    BY FS_CardinalityType DEF QueuesFinite
  <2>2. FrameFits(f) /\ IsFiniteSet(f.kept) /\ f.op # "submit"
    <3>1. f \in Frame
      BY <1>0, <2>1, IdleFits, LoopFrame DEF FrameFits
    <3>2. f.kept = {} /\ f.op \in {"dispatch", "retry"} /\ f.pc = "next"
      BY DEF Idle
    <3> HIDE DEF f
    <3> QED
      BY <3>1, <3>2, LoopingFits
  <2>3. Begin(h, f) /\ UNCHANGED <<store, tasks, queues, intake, outages, reports, raced>>
    BY <1>1 DEF BeginDispatch
  <2> HIDE DEF f
  <2>4. /\ FramesFit' /\ KeptFinite' /\ LoopSubmits' /\ frame'[Loop] = frame[Loop]
        /\ requests' \in 0 .. MaxRequests /\ overlapped' \in BOOLEAN
    BY <2>2, <2>3, BeginTypes
  <2>5. UNCHANGED <<status, active, assigned, taskStatus, pending, escalated, intake,
                    outages, reports, raced>>
    BY <2>3 DEF store, tasks, queues
  <2>6. QueuesFinite'
    BY <2>5 DEF QueuesFinite
  <2> QED
    BY <2>4, <2>5, <2>6, PoolStepTypes DEF TypeOK
<1>2. CASE BeginRetry(h)
  <2> DEFINE f == [Idle EXCEPT !.op = "retry", !.pc = "next", !.todo = escalated,
                               !.size = Cardinality(escalated)]
  <2>1. Cardinality(escalated) \in Int
    BY FS_CardinalityType DEF QueuesFinite
  <2>2. FrameFits(f) /\ IsFiniteSet(f.kept) /\ f.op # "submit"
    <3>1. f \in Frame
      BY <1>0, <2>1, IdleFits, LoopFrame DEF FrameFits
    <3>2. f.kept = {} /\ f.op \in {"dispatch", "retry"} /\ f.pc = "next"
      BY DEF Idle
    <3> HIDE DEF f
    <3> QED
      BY <3>1, <3>2, LoopingFits
  <2>3. Begin(h, f) /\ UNCHANGED <<store, tasks, queues, intake, outages, reports, raced>>
    BY <1>2 DEF BeginRetry
  <2> HIDE DEF f
  <2>4. /\ FramesFit' /\ KeptFinite' /\ LoopSubmits' /\ frame'[Loop] = frame[Loop]
        /\ requests' \in 0 .. MaxRequests /\ overlapped' \in BOOLEAN
    BY <2>2, <2>3, BeginTypes
  <2>5. UNCHANGED <<status, active, assigned, taskStatus, pending, escalated, intake,
                    outages, reports, raced>>
    BY <2>3 DEF store, tasks, queues
  <2>6. QueuesFinite'
    BY <2>5 DEF QueuesFinite
  <2> QED
    BY <2>4, <2>5, <2>6, PoolStepTypes DEF TypeOK
<1>3. ASSUME NEW t \in Tasks, NEW op \in {"complete", "fail"}, BeginReport(h, t, op)
      PROVE  TypeInv'
  <2> DEFINE a == assigned[t]
             counted == status[a] \in Known /\ active[a] > 0
             f == IF counted THEN [Idle EXCEPT !.op = op, !.pc = "release",
                                               !.agent = a, !.seen = active[a]]
                             ELSE Idle
  <2>1. /\ a # None /\ Begin(h, f)
        /\ reports' = [reports EXCEPT ![t] = @ + 1]
        /\ taskStatus' = [taskStatus EXCEPT ![t] = IF op = "complete" THEN "completed"
                                                                      ELSE "failed"]
        /\ UNCHANGED <<store, assigned, queues, intake, outages, raced>>
    BY <1>3 DEF BeginReport, Report
  <2>2. a \in Agents /\ active[a] \in Nat
    BY <2>1 DEF TypeOK
  <2>3. FrameFits(f) /\ IsFiniteSet(f.kept) /\ f.op # "submit"
    <3>1. CASE counted
      <4>1. f \in Frame
        <5>1. f = [Idle EXCEPT !.op = op, !.pc = "release", !.agent = a, !.seen = active[a]]
          BY <3>1
        <5>2. active[a] \in Nat /\ Idle \in Frame
          BY <2>2, IdleFits DEF FrameFits
        <5> HIDE DEF f, a
        <5> QED
          BY <2>2, <5>1, <5>2, ReportFrame
      <4>2. /\ f.kept = {} /\ f.op = op /\ f.pc = "release"
            /\ f.agent = a /\ f.seen = active[a] /\ active[a] > 0
        BY <3>1 DEF Idle
      <4> HIDE DEF f, a
      <4> QED
        BY <2>2, <4>1, <4>2, FS_EmptySet DEF FrameFits, Routing
    <3>2. CASE ~counted
      BY <3>2, IdleFits
    <3> QED
      BY <3>1, <3>2
  <2> HIDE DEF f
  <2>4. /\ FramesFit' /\ KeptFinite' /\ LoopSubmits' /\ frame'[Loop] = frame[Loop]
        /\ requests' \in 0 .. MaxRequests /\ overlapped' \in BOOLEAN
    BY <2>1, <2>3, BeginTypes
  <2>5. /\ reports' \in [Tasks -> Nat]
        /\ taskStatus' \in [Tasks -> {"none", "dispatched", "completed", "failed"}]
    BY <2>1 DEF TypeOK
  <2>6. UNCHANGED <<status, active, assigned, pending, escalated, intake, outages, raced>>
    BY <2>1 DEF store, queues
  <2>7. QueuesFinite'
    BY <2>6 DEF QueuesFinite
  <2>8. \A u \in Tasks : taskStatus'[u] = taskStatus[u] \/ assigned[u] \in Agents
    BY <2>1, <2>2 DEF TypeOK
  <2> QED
    BY <2>4, <2>5, <2>6, <2>7, <2>8, PoolStepTypes DEF TypeOK
<1>4. ASSUME NEW n \in Nodes, BeginFailover(h, n) PROVE TypeInv'
  <2> DEFINE f == [Idle EXCEPT !.op = "failover", !.pc = "visit", !.node = n,
                               !.todo = {t \in Tasks : taskStatus[t] # "none"}]
  <2>1. FrameFits(f) /\ IsFiniteSet(f.kept) /\ f.op # "submit"
    <3>1. f \in Frame
      BY IdleFits DEF FrameFits, Frame
    <3>2. f.kept = {} /\ f.op = "failover" /\ f.pc = "visit"
      BY DEF Idle
    <3> HIDE DEF f
    <3> QED
      BY <3>1, <3>2, LoopingFits
  <2>2. Begin(h, f) /\ UNCHANGED <<store, tasks, queues, intake, outages, reports, raced>>
    BY <1>4 DEF BeginFailover
  <2> HIDE DEF f
  <2>3. /\ FramesFit' /\ KeptFinite' /\ LoopSubmits' /\ frame'[Loop] = frame[Loop]
        /\ requests' \in 0 .. MaxRequests /\ overlapped' \in BOOLEAN
    BY <2>1, <2>2, BeginTypes
  <2>4. UNCHANGED <<status, active, assigned, taskStatus, pending, escalated, intake,
                    outages, reports, raced>>
    BY <2>2 DEF store, tasks, queues
  <2>5. QueuesFinite'
    BY <2>4 DEF QueuesFinite
  <2> QED
    BY <2>3, <2>4, <2>5, PoolStepTypes DEF TypeOK
<1> QED
  BY <1>1, <1>2, <1>3, <1>4 DEF Request

(* The steps of a pool thread's handler.                                    *)
LEMMA ItemTypes ==
  ASSUME TypeInv, NEW h \in Workers, NEW t \in Tasks, ItemRouted(h, t) \/ ItemKept(h, t)
  PROVE  TypeInv'
<1> USE DEF TypeInv
<1>1. h \in Threads
  BY DEF Threads
<1>2. FrameFits(frame[h]) /\ frame[h] \in Frame /\ IsFiniteSet(frame[h].kept)
  BY <1>1 DEF FramesFit, KeptFinite
<1>3. frame[h].op # "submit"
  BY DEF LoopSubmits
<1>4. NextItem(h, t) /\ At(h, "next")
  BY DEF ItemRouted, ItemKept, NextItem
<1>5. /\ UNCHANGED <<status, active, assigned, taskStatus, escalated, intake, outages>>
      /\ UNCHANGED <<requests, reports, overlapped, raced>>
  BY <1>4 DEF NextItem, store, tasks, history
<1>6. FramesFit' /\ KeptFinite' /\ LoopSubmits' /\ frame'[Loop] = frame[Loop]
  <2>1. CASE ItemRouted(h, t)
    <3> DEFINE f == [frame[h] EXCEPT !.todo = frame[h].todo \ {t}]
    <3>1. frame' = [frame EXCEPT ![h] = Routed(f, t)]
      BY <2>1 DEF ItemRouted
    <3>2. f \in Frame /\ f.pc = "next" /\ f.op = frame[h].op /\ f.kept = frame[h].kept
      BY <1>2, <1>4 DEF Frame, At
    <3> HIDE DEF f
    <3>3. FrameFits(f)
      BY <1>2, <1>4, <3>2 DEF FrameFits, At, Routing
    <3> DEFINE g == Routed(f, t)
    <3>4. FrameFits(g) /\ g.kept = frame[h].kept /\ g.op = frame[h].op
      BY <3>2, <3>3, RoutedFits
    <3> HIDE DEF g
    <3> QED
      BY <1>2, <1>3, <3>1, <3>4, SetFrame DEF g
  <2>2. CASE ItemKept(h, t)
    <3> DEFINE f == [frame[h] EXCEPT !.todo = frame[h].todo \ {t},
                                     !.kept = frame[h].kept \cup {t}]
    <3>1. frame' = [frame EXCEPT ![h] = f]
      BY <1>1, <2>2 DEF ItemKept, FramesFit
    <3>2. f \in Frame /\ f.pc = "next" /\ f.op = frame[h].op /\ f.kept = frame[h].kept \cup {t}
      BY <1>2, <1>4 DEF Frame, At
    <3> HIDE DEF f
    <3>3. FrameFits(f) /\ IsFiniteSet(f.kept)
      BY <1>2, <1>4, <3>2, FS_AddElement DEF FrameFits, At, Routing
    <3> QED
      BY <1>3, <3>1, <3>2, <3>3, SetFrame
  <2> QED
    BY <2>1, <2>2
<1>7. pending' \in {pending, pending \cup {t}}
  BY DEF ItemRouted, ItemKept
<1>8. QueuesFinite'
  BY <1>5, <1>7, FS_AddElement DEF QueuesFinite
<1>9. pending' \subseteq Tasks
  BY <1>7 DEF TypeOK
<1> QED
  BY <1>5, <1>6, <1>8, <1>9, PoolStepTypes DEF TypeOK

LEMMA ItemDispatchedTypes ==
  ASSUME TypeInv, NEW h \in Workers, ItemDispatched(h)
  PROVE  TypeInv'
<1> USE DEF TypeInv
<1> DEFINE f == [frame[h] EXCEPT !.pc = "next", !.task = None, !.agent = None, !.seen = 0]
<1>1. h \in Threads
  BY DEF Threads
<1>2. Assign(h) /\ UNCHANGED intake /\ Assigned(h, f)
  BY DEF ItemDispatched
<1>3. FrameFits(frame[h]) /\ frame[h] \in Frame /\ IsFiniteSet(frame[h].kept)
  BY <1>1 DEF FramesFit, KeptFinite
<1>4. f \in Frame /\ f.pc = "next" /\ f.op = frame[h].op /\ f.kept = frame[h].kept
  BY <1>3 DEF Frame
<1> HIDE DEF f
<1>5. FrameFits(f) /\ IsFiniteSet(f.kept) /\ f.op # "submit"
  BY <1>3, <1>4 DEF FrameFits, LoopSubmits, ItemDispatched, Routing
<1>6. FramesFit' /\ KeptFinite' /\ LoopSubmits' /\ frame'[Loop] = frame[Loop]
  <2>1. h # Loop /\ frame[h].task \in Tasks
    BY <1>2, <1>3, ThreadsAssumption DEF Assign, At, FrameFits, Routing
  <2> QED
    BY <1>1, <1>2, <1>5, <2>1, LoopNotVisiting, AssignedFits
<1>7. /\ status' \in [Agents -> Statuses]
      /\ active' \in [Agents -> Nat]
      /\ assigned' \in [Tasks -> Agents \cup {None}]
      /\ taskStatus' \in [Tasks -> {"none", "dispatched", "completed", "failed"}]
      /\ AssignmentsNamed'
      /\ raced' \in BOOLEAN
      /\ UNCHANGED <<queues, requests, outages, reports, overlapped>>
  BY <1>1, <1>2, AssignTypes
<1>8. UNCHANGED <<pending, escalated, submission, attempts, requests, outages, reports,
                  overlapped>>
  BY <1>2, <1>7 DEF queues, intake
<1>9. TypeOK'
  BY <1>6, <1>7, <1>8 DEF TypeOK, FramesFit
<1>10. QueuesFinite' /\ TriesLeft'
  BY <1>2, <1>6, <1>8, TriesKept DEF QueuesFinite
<1> QED
  BY <1>6, <1>7, <1>9, <1>10

(* The end of an iteration.                                                 *)
LEMMA IterationEndTypes ==
  ASSUME TypeInv, NEW h \in Workers, IterationRaises(h) \/ Replace(h)
  PROVE  TypeInv'
<1> USE DEF TypeInv
<1>1. h \in Threads
  BY DEF Threads
<1>2. /\ UNCHANGED <<status, active, assigned, taskStatus, intake, outages>>
      /\ UNCHANGED <<requests, reports, overlapped, raced>>
  BY DEF IterationRaises, Replace, store, tasks, history
<1>3. /\ pending' \in {pending, frame[h].kept}
      /\ escalated' \in {escalated, frame[h].kept}
  BY DEF IterationRaises, Replace, queues
<1>4. IsFiniteSet(frame[h].kept) /\ frame[h].kept \subseteq Tasks
  BY <1>1 DEF KeptFinite, FramesFit, Frame
<1>5. QueuesFinite' /\ pending' \subseteq Tasks /\ escalated' \subseteq Tasks
  BY <1>3, <1>4 DEF QueuesFinite, TypeOK
<1>6. FramesFit' /\ KeptFinite' /\ LoopSubmits' /\ frame'[Loop] = frame[Loop]
  <2>1. CASE IterationRaises(h)
    BY <2>1, DoneFits DEF IterationRaises
  <2>2. CASE Replace(h)
    <3>1. Detach(h, {"retry"}) \/ Detach(h, {"dispatch", "failover"})
      BY <2>2 DEF Replace
    <3> QED
      BY <3>1, DetachFits
  <2> QED
    BY <2>1, <2>2
<1> QED
  BY <1>2, <1>5, <1>6, PoolStepTypes DEF TypeOK

(* Giving a slot back lowers a load that was read as at least 1.              *)
LEMMA ReleaseTypes ==
  ASSUME TypeInv, NEW h \in Workers, Release(h)
  PROVE  TypeInv'
<1> USE DEF TypeInv
<1> DEFINE a == frame[h].agent
<1>1. h \in Threads
  BY DEF Threads
<1>2. FrameFits(frame[h]) /\ frame[h] \in Frame /\ IsFiniteSet(frame[h].kept)
  BY <1>1 DEF FramesFit, KeptFinite
<1>3. a \in Agents /\ frame[h].seen \in Nat /\ frame[h].seen >= 1
  BY <1>2 DEF FrameFits, Release, At, Frame
<1>4. active' \in [Agents -> Nat]
  <2>1. frame[h].seen - 1 \in Nat
    BY <1>3
  <2>2. active' = [active EXCEPT ![a] = frame[h].seen - 1] \/ active' = active
    BY DEF Release
  <2> HIDE DEF a
  <2> QED
    BY <1>3, <2>1, <2>2 DEF TypeOK
<1>5. /\ UNCHANGED <<status, assigned, taskStatus, pending, escalated, submission, attempts>>
      /\ UNCHANGED <<requests, outages, reports, overlapped>>
      /\ raced' \in BOOLEAN
  BY DEF Release, tasks, queues, intake, TypeOK
<1>6. FramesFit' /\ KeptFinite' /\ LoopSubmits' /\ frame'[Loop] = frame[Loop]
  <2>1. CASE Done(h)
    BY <2>1, DoneFits
  <2>2. CASE ~Done(h)
    <3> DEFINE f == [frame[h] EXCEPT !.pc = "set_idle"]
    <3>1. frame' = [frame EXCEPT ![h] = f]
      BY <1>1, <2>2 DEF Release, FramesFit
    <3>2. f \in Frame /\ f.pc = "set_idle" /\ f.kept = frame[h].kept
          /\ f.op = frame[h].op /\ f.agent = a
      BY <1>2 DEF Frame
    <3> HIDE DEF f, a
    <3>3. FrameFits(f) /\ IsFiniteSet(f.kept) /\ f.op # "submit"
      BY <1>2, <1>3, <3>2 DEF FrameFits, LoopSubmits, Routing
    <3> QED
      BY <3>1, <3>3, SetFrame
  <2> QED
    BY <2>1, <2>2
<1>7. TypeOK'
  BY <1>4, <1>5, <1>6 DEF TypeOK, FramesFit
<1>8. QueuesFinite' /\ TriesLeft' /\ AssignmentsNamed'
  BY <1>5, <1>6, TriesKept DEF QueuesFinite, intake, AssignmentsNamed
<1> QED
  BY <1>4, <1>6, <1>7, <1>8

(* The steps that write a status, and those of a failover.                   *)
LEMMA StatusStepTypes ==
  ASSUME TypeInv, NEW h \in Workers, SetIdle(h) \/ SetOffline(h)
  PROVE  TypeInv'
<1> USE DEF TypeInv
<1>1. h \in Threads
  BY DEF Threads
<1>2. FrameFits(frame[h]) /\ frame[h] \in Frame /\ IsFiniteSet(frame[h].kept)
  BY <1>1 DEF FramesFit, KeptFinite
<1>3. /\ UNCHANGED <<active, assigned, taskStatus, pending, escalated, intake, outages>>
      /\ UNCHANGED <<requests, reports, overlapped, raced>>
  BY DEF SetIdle, SetOffline, tasks, queues, history
<1>4. frame[h].agent \in Agents
  BY <1>2 DEF SetIdle, SetOffline, At, FrameFits
<1>5. status' \in [Agents -> Statuses]
  BY <1>4 DEF SetIdle, SetOffline, TypeOK, Statuses, Known
<1>6. FramesFit' /\ KeptFinite' /\ LoopSubmits' /\ frame'[Loop] = frame[Loop]
  <2>1. CASE SetIdle(h)
    BY <2>1, DoneFits DEF SetIdle
  <2>2. CASE SetOffline(h)
    <3> DEFINE f == [frame[h] EXCEPT !.pc = "visit", !.agent = None]
    <3>1. frame' = [frame EXCEPT ![h] = f]
      BY <1>1, <2>2 DEF SetOffline, FramesFit
    <3>2. f \in Frame /\ f.pc = "visit" /\ f.kept = frame[h].kept /\ f.op = frame[h].op
      BY <1>2 DEF Frame
    <3> HIDE DEF f
    <3>3. FrameFits(f) /\ IsFiniteSet(f.kept) /\ f.op # "submit"
      BY <1>2, <2>2, <3>2 DEF FrameFits, LoopSubmits, SetOffline, At, Routing
    <3> QED
      BY <3>1, <3>3, SetFrame
  <2> QED
    BY <2>1, <2>2
<1>7. QueuesFinite'
  BY <1>3 DEF QueuesFinite
<1> QED
  BY <1>3, <1>5, <1>6, <1>7, PoolStepTypes DEF TypeOK

LEMMA FailoverStepTypes ==
  ASSUME TypeInv, NEW h \in Workers,
         (\E t \in Tasks : Requeue(h, t) \/ \E a \in Agents : RequeueOld(h, t, a)) \/ DispatchRequeued(h)
  PROVE  TypeInv'
<1> USE DEF TypeInv
<1>1. h \in Threads
  BY DEF Threads
<1>2. FrameFits(frame[h]) /\ frame[h] \in Frame /\ IsFiniteSet(frame[h].kept)
  BY <1>1 DEF FramesFit, KeptFinite
<1>3. frame[h].op # "submit"
  BY DEF LoopSubmits
<1>4. ASSUME NEW t \in Tasks, Requeue(h, t) PROVE TypeInv'
  <2> DEFINE f == [frame[h] EXCEPT !.pc = "set_offline", !.agent = assigned[t],
                                   !.todo = frame[h].todo \ {t}]
  <2>1. assigned[t] \in Agents
    BY <1>4 DEF Requeue, Failing, AssignmentsNamed
  <2>2. f \in Frame /\ f.pc = "set_offline" /\ f.agent = assigned[t]
        /\ f.kept = frame[h].kept /\ f.op = frame[h].op
    BY <1>2, <2>1 DEF Frame
  <2>3. frame' = [frame EXCEPT ![h] = f]
    BY <1>1, <1>4 DEF Requeue, FramesFit
  <2> HIDE DEF f
  <2>4. FrameFits(f) /\ IsFiniteSet(f.kept) /\ f.op # "submit"
    BY <1>2, <1>3, <1>4, <2>1, <2>2 DEF FrameFits, Requeue, At, Routing
  <2>5. FramesFit' /\ KeptFinite' /\ LoopSubmits' /\ frame'[Loop] = frame[Loop]
    BY <2>3, <2>4, SetFrame
  <2>6. /\ UNCHANGED <<status, active, assigned, escalated, intake, outages>>
        /\ UNCHANGED <<requests, reports, overlapped, raced>>
        /\ taskStatus' = [taskStatus EXCEPT ![t] = "failed"]
        /\ pending' = pending \cup {t}
    BY <1>4 DEF Requeue, store, history
  <2>7. QueuesFinite' /\ pending' \subseteq Tasks
    BY <2>6, FS_AddElement DEF QueuesFinite, TypeOK
  <2>8. /\ taskStatus' \in [Tasks -> {"none", "dispatched", "completed", "failed"}]
        /\ \A u \in Tasks : taskStatus'[u] = taskStatus[u] \/ assigned[u] \in Agents
    BY <2>1, <2>6 DEF TypeOK
  <2> QED
    BY <2>5, <2>6, <2>7, <2>8, PoolStepTypes DEF TypeOK
<1>5. CASE DispatchRequeued(h)
  <2> DEFINE f == [frame[h] EXCEPT !.pc = "next", !.todo = pending, !.old = {},
                                   !.size = Cardinality(pending)]
  <2>1. pending \in SUBSET Tasks /\ Cardinality(pending) \in Int
    BY FS_CardinalityType DEF QueuesFinite, TypeOK
  <2>2. f \in Frame
    BY <1>2, <2>1, RestartFrame
  <2>3. f.pc = "next" /\ f.kept = frame[h].kept /\ f.op = frame[h].op
    BY <1>2 DEF Frame
  <2>4. frame' = [frame EXCEPT ![h] = f]
    BY <1>1, <1>5 DEF DispatchRequeued, FramesFit
  <2> HIDE DEF f
  <2>5. FrameFits(f) /\ IsFiniteSet(f.kept) /\ f.op # "submit"
    BY <1>2, <1>3, <1>5, <2>2, <2>3 DEF FrameFits, DispatchRequeued, At, Routing
  <2>6. FramesFit' /\ KeptFinite' /\ LoopSubmits' /\ frame'[Loop] = frame[Loop]
    BY <2>4, <2>5, SetFrame
  <2>7. /\ UNCHANGED <<status, active, assigned, taskStatus, pending, escalated, intake>>
        /\ UNCHANGED <<outages, requests, reports, overlapped, raced>>
    BY <1>5 DEF DispatchRequeued, store, tasks, queues, history
  <2>8. QueuesFinite'
    BY <2>7 DEF QueuesFinite
  <2> QED
    BY <2>6, <2>7, <2>8, PoolStepTypes DEF TypeOK
<1>6. ASSUME NEW t \in Tasks, NEW a \in Agents, RequeueOld(h, t, a) PROVE TypeInv'
  <2> DEFINE f == [frame[h] EXCEPT !.pc = "set_offline", !.agent = a,
                                   !.old = frame[h].old \ {<<t, a>>}]
  <2>1. frame[h].old \ {<<t, a>>} \in SUBSET (Tasks \X Agents)
    BY <1>2 DEF Frame
  <2>2. f \in Frame /\ f.pc = "set_offline" /\ f.agent = a
        /\ f.kept = frame[h].kept /\ f.op = frame[h].op
    BY <1>2, <2>1 DEF Frame
  <2>3. frame' = [frame EXCEPT ![h] = f]
    BY <1>1, <1>6 DEF RequeueOld, FramesFit
  <2> HIDE DEF f
  <2>4. FrameFits(f) /\ IsFiniteSet(f.kept) /\ f.op # "submit"
    BY <1>2, <1>3, <1>6, <2>2 DEF FrameFits, RequeueOld, At, Routing
  <2>5. FramesFit' /\ KeptFinite' /\ LoopSubmits' /\ frame'[Loop] = frame[Loop]
    BY <2>3, <2>4, SetFrame
  <2>6. /\ UNCHANGED <<status, active, assigned, taskStatus, escalated, intake, outages>>
        /\ UNCHANGED <<requests, reports, overlapped, raced>>
        /\ pending' = pending \cup {t}
    BY <1>6 DEF RequeueOld, store, tasks, history
  <2>7. QueuesFinite' /\ pending' \subseteq Tasks
    BY <2>6, FS_AddElement DEF QueuesFinite, TypeOK
  <2> QED
    BY <2>5, <2>6, <2>7, PoolStepTypes DEF TypeOK
<1> QED
  BY <1>4, <1>5, <1>6

LEMMA StepTypeInv == TypeInv /\ [Next]_vars => TypeInv'
<1> SUFFICES ASSUME TypeInv, [Next]_vars PROVE TypeInv'
  OBVIOUS
<1>1. CASE EventLoop
  BY <1>1, LoopStepTypes
<1>2. ASSUME NEW h \in Workers, Request(h) PROVE TypeInv'
  BY <1>2, RequestTypes
<1>3. ASSUME NEW h \in Workers, Step(h) PROVE TypeInv'
  <2>1. CASE \E t \in Tasks : ItemRouted(h, t) \/ ItemKept(h, t)
    BY <2>1, ItemTypes
  <2>2. CASE ItemDispatched(h)
    BY <2>2, ItemDispatchedTypes
  <2>3. CASE IterationRaises(h) \/ Replace(h)
    BY <2>3, IterationEndTypes
  <2>4. CASE Release(h)
    BY <2>4, ReleaseTypes
  <2>5. CASE SetIdle(h) \/ SetOffline(h)
    BY <2>5, StatusStepTypes
  <2>6. CASE (\E t \in Tasks : Requeue(h, t) \/ \E a \in Agents : RequeueOld(h, t, a)) \/ DispatchRequeued(h)
    BY <2>6, FailoverStepTypes
  <2>7. CASE Select(h) \/ ReadLoad(h)
    BY <2>7, RouteStepTypes DEF Threads
  <2> QED
    BY <1>3, <2>1, <2>2, <2>3, <2>4, <2>5, <2>6, <2>7 DEF Step
<1>4. CASE \/ \E a \in Agents : Register(a) \/ Sweep(a) \/ Deregister(a)
           \/ \E n \in Nodes : MarkNodeOffline(n)
  BY <1>4, AgentStepTypes
<1>5. CASE UNCHANGED vars
  BY <1>5 DEF vars, TypeInv, TypeOK, FramesFit, QueuesFinite, KeptFinite,
              LoopSubmits, TriesLeft, AssignmentsNamed
<1> QED
  BY <1>1, <1>2, <1>3, <1>4, <1>5 DEF Next

-------------------------------------------------------------------------------
(* The queue while no two rewriters overlapped.                              *)

LEMMA InitQueueInv == Init => QueueInv
  BY ThreadsAssumption
     DEF Init, QueueInv, QueueInOrder, OneRewriter, IterationCovers, Iterating, InPlace,
         Rewriting, Idle, Threads, Routing

(* Another handler's iteration stays covered when the queue only grows and no *)
(* task is unsettled.                                                       *)
LEMMA OtherCovered ==
  ASSUME NEW g, Covered(g), frame'[g] = frame[g], pending \subseteq pending',
         \A t \in Tasks : Settled(t) => Settled(t)', pending \subseteq Tasks
  PROVE  Covered(g)'
<1>1. PICK items \in SUBSET pending :
         Cardinality(items) = frame[g].size /\ \A t \in items : Handled(g, t)
  BY DEF Covered
<1>2. \A t \in items : Handled(g, t)'
  BY <1>1 DEF Handled
<1>3. items \in SUBSET pending' /\ Cardinality(items) = frame'[g].size
  BY <1>1
<1> QED
  BY <1>2, <1>3 DEF Covered

(* A step of thread h alone that keeps the queue and what is settled.         *)
LEMMA MonotoneStep ==
  ASSUME TypeInv, QueueInOrder, NEW h \in Workers,
         \A g \in Workers : g # h => /\ frame'[g].op = frame[g].op /\ frame'[g].pc = frame[g].pc
                                     /\ Iterating(g) => frame'[g] = frame[g],
         frame'[h].op \in Rewriting => frame[h].op \in Rewriting
                                       \/ \A g \in Workers : frame[g].op \notin Rewriting,
         Iterating(h)' => Covered(h)',
         pending \subseteq pending',
         \A t \in Tasks : Settled(t) => Settled(t)',
         UNCHANGED submission
  PROVE  QueueInOrder'
<1>1. OneRewriter'
  BY DEF QueueInOrder, OneRewriter
<1>2. ASSUME NEW g \in Workers, Iterating(g)' PROVE Covered(g)'
  <2>1. CASE g = h
    BY <1>2, <2>1
  <2>2. CASE g # h
    <3>1. frame'[g] = frame[g] /\ Iterating(g)
      BY <1>2, <2>2 DEF Iterating
    <3>2. Covered(g) /\ pending \subseteq Tasks
      BY <3>1 DEF QueueInOrder, IterationCovers, TypeInv, TypeOK
    <3> QED
      BY <3>1, <3>2, OtherCovered
  <2> QED
    BY <2>1, <2>2
<1>3. \A t \in Tasks : InPlace(t)'
  BY DEF QueueInOrder, InPlace
<1> QED
  BY <1>1, <1>2, <1>3 DEF QueueInOrder, IterationCovers

(* What an assignment writes is settled.                                    *)
LEMMA AssignSettles ==
  ASSUME TypeInv, NEW h \in Threads, Assign(h)
  PROVE  /\ \E t \in Tasks : t = frame[h].task /\ Settled(t)'
         /\ \A t \in Tasks : Settled(t) => Settled(t)'
         /\ UNCHANGED pending
<1>1. frame[h].task \in Tasks
  BY DEF TypeInv, FramesFit, FrameFits, Assign, At, Routing
<1>2. /\ taskStatus' = [taskStatus EXCEPT ![frame[h].task] = "dispatched"]
      /\ UNCHANGED <<pending, reports>>
  BY DEF Assign, queues
<1>3. /\ taskStatus'[frame[h].task] = "dispatched"
      /\ \A t \in Tasks : taskStatus'[t] = taskStatus[t] \/ taskStatus'[t] = "dispatched"
  BY <1>1, <1>2 DEF TypeInv, TypeOK
<1> QED
  BY <1>1, <1>2, <1>3 DEF Settled

(* The event loop's steps.                                                  *)
LEMMA LoopQueueInv ==
  ASSUME TypeInv, QueueInOrder, EventLoop
  PROVE  QueueInOrder'
<1>0. Loop \in Threads /\ Loop \notin Workers
  BY ThreadsAssumption DEF Threads
<1>1. \A g \in Workers : /\ frame'[g].op = frame[g].op /\ frame'[g].pc = frame[g].pc
                         /\ Iterating(g) => frame'[g] = frame[g]
  <2>1. CASE SubmitDispatched
    <3>1. frame[Loop].task \in Tasks
      BY <1>0, <2>1 DEF SubmitDispatched, Assign, At, TypeInv, FramesFit, FrameFits, Routing
    <3> QED
      BY <1>0, <2>1, <3>1, IdleFits, AssignedFits
         DEF SubmitDispatched, Iterating, Routing, Threads
  <2>2. CASE Select(Loop) \/ ReadLoad(Loop)
    BY <1>0, <2>2, RouteFrame DEF Threads
  <2>3. CASE \E t \in Tasks : AttemptRouted(t) \/ AttemptQueued(t)
    BY <1>0, <2>3 DEF AttemptRouted, AttemptQueued, TypeInv, FramesFit, Threads
  <2> QED
    BY <2>1, <2>2, <2>3 DEF EventLoop
<1>2. /\ pending \subseteq pending'
      /\ \A t \in Tasks : Settled(t) => Settled(t)'
  <2>1. CASE \E t \in Tasks : AttemptRouted(t) \/ AttemptQueued(t)
    BY <2>1 DEF AttemptRouted, AttemptQueued, Attempt, Settled, tasks, queues, history
  <2>2. CASE SubmitDispatched
    BY <1>0, <2>2, AssignSettles DEF SubmitDispatched
  <2>3. CASE Select(Loop) \/ ReadLoad(Loop)
    BY <1>0, <2>3, RouteFrame DEF Settled, tasks, queues, history
  <2> QED
    BY <2>1, <2>2, <2>3 DEF EventLoop
<1>3. OneRewriter'
  BY <1>1 DEF QueueInOrder, OneRewriter
<1>4. ASSUME NEW g \in Workers, Iterating(g)' PROVE Covered(g)'
  <2>1. Covered(g) /\ frame'[g] = frame[g] /\ pending \subseteq Tasks
    BY <1>1, <1>4 DEF Iterating, QueueInOrder, IterationCovers, TypeInv, TypeOK
  <2> QED
    BY <1>2, <2>1, OtherCovered
<1>5. ASSUME NEW t \in Tasks PROVE InPlace(t)'
  <2>0. InPlace(t)
    BY DEF QueueInOrder
  <2>1. ASSUME NEW u \in Tasks, AttemptRouted(u) PROVE InPlace(t)'
    BY <1>2, <2>0, <2>1 DEF AttemptRouted, Attempt, InPlace, TypeInv, TypeOK
  <2>2. ASSUME NEW u \in Tasks, AttemptQueued(u) PROVE InPlace(t)'
    BY <1>2, <2>0, <2>2 DEF AttemptQueued, Attempt, InPlace, TypeInv, TypeOK
  <2>3. CASE SubmitDispatched
    <3>1. PICK u \in Tasks : u = frame[Loop].task /\ Settled(u)'
      BY <1>0, <2>3, AssignSettles DEF SubmitDispatched
    <3>2. submission' = [submission EXCEPT ![u] = "dispatched"]
      BY <2>3, <3>1 DEF SubmitDispatched
    <3>3. t # u => submission'[t] = submission[t]
      BY <3>2 DEF TypeInv, TypeOK
    <3> QED
      BY <1>2, <2>0, <3>1, <3>3 DEF InPlace
  <2>4. CASE Select(Loop) \/ ReadLoad(Loop)
    BY <1>0, <1>2, <2>0, <2>4, RouteFrame DEF InPlace, intake
  <2> QED
    BY <2>1, <2>2, <2>3, <2>4 DEF EventLoop
<1> QED
  BY <1>3, <1>4, <1>5 DEF QueueInOrder, IterationCovers

(* A request that arrives, with no other rewriter if it is one itself.        *)
LEMMA RequestQueueInv ==
  ASSUME TypeInv, QueueInOrder, NEW h \in Workers, Request(h), ~overlapped'
  PROVE  QueueInOrder'
<1> USE DEF TypeInv
<1>0. h \in Threads
  BY DEF Threads
<1>1. ASSUME NEW f, Begin(h, f)
      PROVE  /\ \A g \in Workers : g # h => frame'[g] = frame[g]
             /\ frame'[h] = f
             /\ f.op \in Rewriting => \A g \in Workers : frame[g].op \notin Rewriting
  BY <1>0, <1>1 DEF Begin, FramesFit, Threads
<1>2. CASE BeginDispatch(h)
  <2> DEFINE f == [Idle EXCEPT !.op = "dispatch", !.pc = "next", !.todo = pending,
                               !.size = Cardinality(pending)]
  <2>1. Begin(h, f) /\ UNCHANGED <<taskStatus, pending, submission, reports>>
    BY <1>2 DEF BeginDispatch, tasks, queues, intake
  <2>2. f.op = "dispatch" /\ f.todo = pending /\ f.size = Cardinality(pending)
    BY DEF Idle
  <2> HIDE DEF f
  <2>3. Covered(h)'
    BY <1>1, <2>1, <2>2 DEF Covered, Handled
  <2>4. \A t \in Tasks : Settled(t) => Settled(t)'
    BY <2>1 DEF Settled
  <2> QED
    BY <1>1, <2>1, <2>3, <2>4, MonotoneStep
<1>3. CASE BeginRetry(h)
  <2> DEFINE f == [Idle EXCEPT !.op = "retry", !.pc = "next", !.todo = escalated,
                               !.size = Cardinality(escalated)]
  <2>1. Begin(h, f) /\ UNCHANGED <<taskStatus, pending, submission, reports>>
    BY <1>3 DEF BeginRetry, tasks, queues, intake
  <2>2. f.op = "retry"
    BY DEF Idle
  <2> HIDE DEF f
  <2>3. frame'[h].op \notin Rewriting
    BY <1>1, <2>1, <2>2 DEF Rewriting
  <2>4. \A t \in Tasks : Settled(t) => Settled(t)'
    BY <2>1 DEF Settled
  <2> QED
    BY <1>1, <2>1, <2>3, <2>4, MonotoneStep DEF Iterating
<1>4. ASSUME NEW t \in Tasks, NEW op \in {"complete", "fail"}, BeginReport(h, t, op)
      PROVE  QueueInOrder'
  <2>1. PICK f : Begin(h, f) /\ f.op \in {"none", op}
    <3> DEFINE a == assigned[t]
               r == [Idle EXCEPT !.op = op, !.pc = "release", !.agent = a, !.seen = active[a]]
               f == IF status[a] \in Known /\ active[a] > 0 THEN r ELSE Idle
    <3>1. Begin(h, f)
      BY <1>4 DEF BeginReport, Report
    <3>2. r.op = op /\ Idle.op = "none"
      BY DEF Idle
    <3> HIDE DEF r
    <3>3. f.op \in {"none", op}
      BY <3>2
    <3> QED
      BY <3>1, <3>3
  <2>2. /\ UNCHANGED <<pending, submission>>
        /\ reports' = [reports EXCEPT ![t] = @ + 1]
        /\ \A u \in Tasks : u # t => taskStatus'[u] = taskStatus[u]
    BY <1>4 DEF BeginReport, Report, queues, intake, TypeOK
  <2>3. frame'[h].op \notin Rewriting
    BY <1>1, <2>1 DEF Rewriting
  <2>4. \A u \in Tasks : Settled(u) => Settled(u)'
    BY <2>2 DEF Settled, TypeOK
  <2> QED
    BY <1>1, <2>1, <2>2, <2>3, <2>4, MonotoneStep DEF Iterating
<1>5. ASSUME NEW n \in Nodes, BeginFailover(h, n) PROVE QueueInOrder'
  <2> DEFINE f == [Idle EXCEPT !.op = "failover", !.pc = "visit", !.node = n,
                               !.todo = {t \in Tasks : taskStatus[t] # "none"}]
  <2>1. Begin(h, f) /\ UNCHANGED <<taskStatus, pending, submission, reports>>
    BY <1>5 DEF BeginFailover, tasks, queues, intake
  <2>2. f.pc = "visit" /\ f.op = "failover"
    BY DEF Idle
  <2> HIDE DEF f
  <2>3. ~Iterating(h)'
    BY <1>1, <2>1, <2>2 DEF Iterating, Routing
  <2>4. \A t \in Tasks : Settled(t) => Settled(t)'
    BY <2>1 DEF Settled
  <2> QED
    BY <1>1, <2>1, <2>2, <2>3, <2>4, MonotoneStep
<1> QED
  BY <1>2, <1>3, <1>4, <1>5 DEF Request

(* One item of the iteration.                                               *)
LEMMA ItemQueueInv ==
  ASSUME TypeInv, QueueInOrder, NEW h \in Workers, NEW t \in Tasks,
         ItemRouted(h, t) \/ ItemKept(h, t)
  PROVE  QueueInOrder'
<1> USE DEF TypeInv
<1>1. h \in Threads /\ frame[h] \in Frame
  BY DEF Threads, FramesFit
<1>2. /\ UNCHANGED <<taskStatus, reports, submission>>
      /\ pending \subseteq pending' /\ pending \subseteq Tasks
      /\ frame[h].pc = "next" /\ t \in frame[h].todo
  BY DEF ItemRouted, ItemKept, NextItem, At, tasks, intake, history, TypeOK
<1>3. \A g \in Workers : g # h => frame'[g] = frame[g]
  BY DEF ItemRouted, ItemKept, FramesFit, Threads
<1>4. /\ frame'[h].op = frame[h].op /\ frame'[h].size = frame[h].size
      /\ frame'[h].todo = frame[h].todo \ {t}
      /\ \/ frame'[h].kept = frame[h].kept \cup {t}
         \/ /\ frame'[h].kept = frame[h].kept
            /\ frame'[h].pc \in Routing /\ frame'[h].task = t
  <2>1. CASE ItemRouted(h, t)
    <3> DEFINE f == [frame[h] EXCEPT !.todo = frame[h].todo \ {t}]
    <3>1. frame' = [frame EXCEPT ![h] = Routed(f, t)]
      BY <2>1 DEF ItemRouted
    <3>2. /\ f \in Frame /\ f.op = frame[h].op /\ f.size = frame[h].size
          /\ f.todo = frame[h].todo \ {t} /\ f.kept = frame[h].kept
      BY <1>1 DEF Frame
    <3> HIDE DEF f
    <3>3. frame'[h] = Routed(f, t)
      BY <1>1, <3>1 DEF FramesFit
    <3> QED
      BY <3>2, <3>3 DEF Routed, Frame, Routing
  <2>2. CASE ItemKept(h, t)
    <3>1. frame'[h] = [frame[h] EXCEPT !.todo = frame[h].todo \ {t},
                                       !.kept = frame[h].kept \cup {t}]
      BY <1>1, <2>2 DEF ItemKept, FramesFit
    <3> QED
      BY <1>1, <3>1 DEF Frame
  <2> QED
    BY <2>1, <2>2
<1>5. ASSUME Iterating(h)' PROVE Covered(h)'
  <2>1. Iterating(h)
    BY <1>2, <1>4, <1>5 DEF Iterating
  <2>2. PICK items \in SUBSET pending :
           Cardinality(items) = frame[h].size /\ \A u \in items : Handled(h, u)
    BY <2>1 DEF QueueInOrder, IterationCovers, Covered
  <2>3. \A u \in items : Handled(h, u)'
    BY <1>2, <1>4, <2>2 DEF Handled, Settled, Routing
  <2> QED
    BY <1>2, <1>4, <2>2, <2>3 DEF Covered
<1>6. \A u \in Tasks : Settled(u) => Settled(u)'
  BY <1>2 DEF Settled
<1> QED
  BY <1>2, <1>3, <1>4, <1>5, <1>6, MonotoneStep

LEMMA ItemDispatchedQueueInv ==
  ASSUME TypeInv, QueueInOrder, NEW h \in Workers, ItemDispatched(h)
  PROVE  QueueInOrder'
<1> USE DEF TypeInv
<1>1. h \in Threads /\ frame[h] \in Frame
  BY DEF Threads, FramesFit
<1>2. Assign(h) /\ UNCHANGED submission /\ frame[h].pc = "write"
  BY DEF ItemDispatched, Assign, At, intake
<1>3. PICK t \in Tasks : t = frame[h].task /\ Settled(t)'
  BY <1>1, <1>2, AssignSettles
<1>4. (\A u \in Tasks : Settled(u) => Settled(u)') /\ UNCHANGED pending /\ pending \subseteq Tasks
  BY <1>1, <1>2, AssignSettles DEF TypeOK
<1>0. h # Loop /\ frame[h].task \in Tasks /\ IsFiniteSet(frame[h].kept) /\ FrameFits(frame[h])
  BY <1>1, <1>2, <1>3, ThreadsAssumption DEF KeptFinite, FramesFit
<1> DEFINE f == [frame[h] EXCEPT !.pc = "next", !.task = None, !.agent = None, !.seen = 0]
<1>8. /\ f \in Frame /\ f.pc = "next" /\ f.op = frame[h].op /\ f.size = frame[h].size
      /\ f.todo = frame[h].todo /\ f.kept = frame[h].kept
  BY <1>1 DEF Frame
<1>9. Assigned(h, f)
  BY DEF ItemDispatched
<1> HIDE DEF f
<1>10. FrameFits(f) /\ f.op # "submit"
  BY <1>0, <1>8 DEF FrameFits, ItemDispatched, Routing
<1>5. /\ frame'[h] = f
      /\ \A g \in Workers : g # h => /\ frame'[g].op = frame[g].op /\ frame'[g].pc = frame[g].pc
                                     /\ Iterating(g) => frame'[g] = frame[g]
  BY <1>0, <1>1, <1>8, <1>9, <1>10, LoopNotVisiting, AssignedFits DEF Iterating, Routing, Threads
<1>6. /\ frame'[h].op = frame[h].op /\ frame'[h].size = frame[h].size
      /\ frame'[h].todo = frame[h].todo /\ frame'[h].kept = frame[h].kept
      /\ frame'[h].pc = "next"
  BY <1>5, <1>8
<1>7. ASSUME Iterating(h)' PROVE Covered(h)'
  <2>1. Iterating(h)
    BY <1>2, <1>6, <1>7 DEF Iterating, Routing
  <2>2. PICK items \in SUBSET pending :
           Cardinality(items) = frame[h].size /\ \A u \in items : Handled(h, u)
    BY <2>1 DEF QueueInOrder, IterationCovers, Covered
  <2>3. \A u \in items : Handled(h, u)'
    BY <1>3, <1>4, <1>6, <2>2 DEF Handled
  <2> QED
    BY <1>4, <1>6, <2>2, <2>3 DEF Covered
<1> QED
  BY <1>2, <1>4, <1>5, <1>6, <1>7, MonotoneStep

(* A queue that did not change its size is the one that was iterated, so what *)
(* replaces it loses nothing that is not settled.                            *)
LEMMA ReplaceQueueInv ==
  ASSUME TypeInv, QueueInOrder, NEW h \in Workers, Replace(h)
  PROVE  QueueInOrder'
<1> USE DEF TypeInv
<1>1. h \in Threads /\ FrameFits(frame[h]) /\ frame[h].pc = "next" /\ frame[h].todo = {}
  BY DEF Threads, FramesFit, Replace, At
<1>2. UNCHANGED <<taskStatus, reports, submission>>
  BY DEF Replace, tasks, intake, history
<1>3. \A t \in Tasks : Settled(t) => Settled(t)'
  BY <1>2 DEF Settled
<1>4. CASE frame[h].op = "retry"
  <2>1. UNCHANGED pending /\ Detach(h, {"retry"})
    BY <1>4 DEF Replace
  <2>2. /\ ~Iterating(h)'
        /\ frame'[h].op \notin Rewriting
    BY <1>1, <2>1 DEF Detach, Idle, Rewriting, Iterating
  <2>3. ASSUME NEW g \in Workers
        PROVE  /\ frame'[g].op \in Rewriting => frame[g].op \in Rewriting
               /\ frame'[g].op \in Rewriting => frame'[g] = frame[g]
    <3>1. g \in Threads /\ frame[g] \in Frame
      BY DEF Threads, FramesFit
    <3>2. frame'[g] = IF g = h THEN Idle
                      ELSE IF frame[g].op \in {"retry"} THEN [frame[g] EXCEPT !.size = -1]
                      ELSE frame[g]
      BY <2>1, <3>1 DEF Detach
    <3>3. CASE g = h
      BY <2>2, <3>3
    <3>4. CASE g # h /\ frame[g].op = "retry"
      <4>1. frame'[g].op = "retry"
        BY <3>1, <3>2, <3>4 DEF Frame
      <4> QED
        BY <4>1 DEF Rewriting
    <3>5. CASE g # h /\ frame[g].op # "retry"
      BY <3>2, <3>5
    <3> QED
      BY <3>3, <3>4, <3>5
  <2>4. OneRewriter'
    BY <2>3 DEF QueueInOrder, OneRewriter
  <2>5. ASSUME NEW g \in Workers, Iterating(g)' PROVE Covered(g)'
    <3>1. frame'[g] = frame[g] /\ Iterating(g)
      BY <2>3, <2>5 DEF Iterating
    <3>2. Covered(g) /\ pending \subseteq Tasks
      BY <3>1 DEF QueueInOrder, IterationCovers, TypeOK
    <3> QED
      BY <1>3, <2>1, <3>1, <3>2, OtherCovered
  <2>6. \A t \in Tasks : InPlace(t)'
    BY <1>2, <1>3, <2>1 DEF QueueInOrder, InPlace
  <2> QED
    BY <2>4, <2>5, <2>6 DEF QueueInOrder, IterationCovers
<1>5. CASE frame[h].op # "retry"
  <2>1. /\ frame[h].op \in Rewriting /\ Iterating(h)
        /\ pending' = frame[h].kept
        /\ Detach(h, {"dispatch", "failover"})
    BY <1>1, <1>5 DEF FrameFits, Rewriting, Iterating, Replace
  <2>2. PICK items \in SUBSET pending :
           Cardinality(items) = frame[h].size /\ \A t \in items : Handled(h, t)
    BY <2>1 DEF QueueInOrder, IterationCovers, Covered
  <2>3. items = pending
    <3>1. IsFiniteSet(pending) /\ IsFiniteSet(items)
      BY FS_Subset DEF QueuesFinite
    <3>2. Cardinality(items) \in Nat
      BY <3>1, FS_CardinalityType
    <3>3. Cardinality(pending) = Cardinality(items)
      BY <1>5, <2>2, <3>2 DEF Replace, Grown, Iterated
    <3> QED
      BY <3>1, <3>3, FS_Subset
  <2>4. \A t \in pending : t \in pending' \/ Settled(t)
    BY <1>1, <2>1, <2>2, <2>3 DEF Handled, Routing
  <2>5. \A t \in Tasks : InPlace(t)'
    BY <1>2, <1>3, <2>4 DEF QueueInOrder, InPlace
  <2>6. \A g \in Workers : frame'[g].op \notin Rewriting
    <3> SUFFICES ASSUME NEW g \in Workers PROVE frame'[g].op \notin Rewriting
      OBVIOUS
    <3>1. g \in Threads
      BY DEF Threads
    <3>2. CASE g = h
      BY <1>1, <2>1, <3>2 DEF Detach, Idle, Rewriting
    <3>3. CASE g # h
      <4>1. frame[g].op \notin Rewriting
        BY <2>1, <3>3 DEF QueueInOrder, OneRewriter
      <4>2. frame'[g] = frame[g]
        BY <2>1, <3>1, <3>3, <4>1 DEF Detach, Rewriting
      <4> QED
        BY <4>1, <4>2
    <3> QED
      BY <3>2, <3>3
  <2> QED
    BY <2>5, <2>6 DEF QueueInOrder, OneRewriter, IterationCovers, Iterating
<1> QED
  BY <1>4, <1>5

(* The steps that neither begin nor advance an iteration.                    *)
LEMMA QuietQueueInv ==
  ASSUME TypeInv, QueueInOrder, NEW h \in Workers,
         \/ IterationRaises(h) \/ Release(h) \/ SetIdle(h) \/ SetOffline(h)
  PROVE  QueueInOrder'
<1> USE DEF TypeInv
<1>1. h \in Threads /\ frame[h] \in Frame
  BY DEF Threads, FramesFit
<1>2. UNCHANGED <<taskStatus, reports, submission, pending>>
  BY DEF IterationRaises, Release, SetIdle, SetOffline, tasks, queues, intake, history
<1>3. \A g \in Workers : g # h => frame'[g] = frame[g]
  BY DEF IterationRaises, Release, SetIdle, SetOffline, Done, FramesFit, Threads
<1>4. ~Iterating(h)' /\ frame'[h].op \in {"none", frame[h].op}
  <2>1. CASE Done(h)
    <3>1. frame'[h] = Idle
      BY <1>1, <2>1 DEF Done, FramesFit
    <3> QED
      BY <3>1 DEF Idle, Iterating, Rewriting, Routing
  <2>2. CASE ~Done(h)
    <3>1. \/ frame'[h] = [frame[h] EXCEPT !.pc = "set_idle"]
          \/ frame'[h] = [frame[h] EXCEPT !.pc = "visit", !.agent = None]
      BY <1>1, <2>2 DEF IterationRaises, Release, SetIdle, SetOffline, FramesFit
    <3> QED
      BY <1>1, <3>1 DEF Frame, Iterating, Routing
  <2> QED
    BY <2>1, <2>2
<1>5. \A t \in Tasks : Settled(t) => Settled(t)'
  BY <1>2 DEF Settled
<1>6. frame'[h].op \in Rewriting => frame[h].op \in Rewriting
  BY <1>4 DEF Rewriting
<1> QED
  BY <1>2, <1>3, <1>4, <1>5, <1>6, MonotoneStep

(* A task that a failover takes from its agent goes back to the queue.        *)
LEMMA FailoverQueueInv ==
  ASSUME TypeInv, QueueInOrder, NEW h \in Workers,
         (\E t \in Tasks : Requeue(h, t) \/ \E a \in Agents : RequeueOld(h, t, a)) \/ DispatchRequeued(h)
  PROVE  QueueInOrder'
<1> USE DEF TypeInv
<1>1. h \in Threads /\ frame[h] \in Frame
  BY DEF Threads, FramesFit
<1>2. frame[h].op = "failover"
  BY <1>1 DEF Requeue, RequeueOld, DispatchRequeued, At, FramesFit, FrameFits
<1>3. \A g \in Workers : g # h => frame'[g] = frame[g] /\ frame[g].op \notin Rewriting
  BY <1>2 DEF Requeue, RequeueOld, DispatchRequeued, FramesFit, Threads, QueueInOrder, OneRewriter, Rewriting
<1>4. OneRewriter'
  BY <1>3 DEF OneRewriter
<1>5. \A g \in Workers : Iterating(g)' => g = h
  BY <1>3 DEF Iterating
<1>6. ASSUME NEW t \in Tasks, Requeue(h, t) PROVE QueueInOrder'
  <2>1. frame'[h].pc = "set_offline"
    <3>1. frame'[h] = [frame[h] EXCEPT !.pc = "set_offline", !.agent = assigned[t],
                                       !.todo = frame[h].todo \ {t}]
      BY <1>1, <1>6 DEF Requeue, FramesFit
    <3> QED
      BY <1>1, <3>1 DEF Frame
  <2>2. ~Iterating(h)'
    BY <2>1 DEF Iterating, Routing
  <2>3. /\ UNCHANGED <<reports, submission>>
        /\ \A u \in Tasks : u # t => taskStatus'[u] = taskStatus[u]
        /\ pending' = pending \cup {t}
    BY <1>6 DEF Requeue, intake, history, TypeOK
  <2>4. \A u \in Tasks : InPlace(u)'
    BY <2>3 DEF QueueInOrder, InPlace, Settled
  <2> QED
    BY <1>4, <1>5, <2>2, <2>4 DEF QueueInOrder, IterationCovers
<1>7. CASE DispatchRequeued(h)
  <2>1. UNCHANGED <<taskStatus, reports, submission, pending>>
    BY <1>7 DEF DispatchRequeued, tasks, queues, intake, history
  <2>2. frame'[h].todo = pending /\ frame'[h].size = Cardinality(pending)
    <3>1. frame'[h] = [frame[h] EXCEPT !.pc = "next", !.todo = pending, !.old = {},
                                       !.size = Cardinality(pending)]
      BY <1>1, <1>7 DEF DispatchRequeued, FramesFit
    <3> QED
      BY <1>1, <3>1 DEF Frame
  <2>3. Covered(h)'
    BY <2>1, <2>2 DEF Covered, Handled
  <2>4. \A t \in Tasks : InPlace(t)'
    BY <2>1 DEF QueueInOrder, InPlace, Settled
  <2> QED
    BY <1>4, <1>5, <2>3, <2>4 DEF QueueInOrder, IterationCovers
<1>8. ASSUME NEW t \in Tasks, NEW a \in Agents, RequeueOld(h, t, a) PROVE QueueInOrder'
  <2>1. frame'[h].pc = "set_offline"
    <3>1. frame'[h] = [frame[h] EXCEPT !.pc = "set_offline", !.agent = a,
                                       !.old = frame[h].old \ {<<t, a>>}]
      BY <1>1, <1>8 DEF RequeueOld, FramesFit
    <3> QED
      BY <1>1, <3>1 DEF Frame
  <2>2. ~Iterating(h)'
    BY <2>1 DEF Iterating, Routing
  <2>3. UNCHANGED <<reports, submission, taskStatus>> /\ pending' = pending \cup {t}
    BY <1>8 DEF RequeueOld, intake, tasks, history
  <2>4. \A u \in Tasks : InPlace(u)'
    BY <2>3 DEF QueueInOrder, InPlace, Settled
  <2> QED
    BY <1>4, <1>5, <2>2, <2>4 DEF QueueInOrder, IterationCovers
<1> QED
  BY <1>6, <1>7, <1>8

(* The choice of an agent and the read of its load touch no queue.            *)
LEMMA RouteQueueInv ==
  ASSUME TypeInv, QueueInOrder, NEW h \in Workers, Select(h) \/ ReadLoad(h)
  PROVE  QueueInOrder'
<1>1. h \in Threads /\ Workers \subseteq Threads
  BY DEF Threads
<1>2. /\ frame[h].pc \in Routing /\ frame'[h].pc \in Routing
      /\ frame'[h].op = frame[h].op /\ frame'[h].task = frame[h].task
      /\ frame'[h].todo = frame[h].todo /\ frame'[h].kept = frame[h].kept
      /\ frame'[h].size = frame[h].size
      /\ \A g \in Workers : g # h => frame'[g] = frame[g]
      /\ UNCHANGED <<taskStatus, pending, submission, reports>>
  BY <1>1, RouteFrame DEF tasks, queues, intake, history
<1>3. ASSUME Iterating(h)' PROVE Covered(h)'
  <2>1. Iterating(h)
    BY <1>2, <1>3 DEF Iterating
  <2>2. PICK items \in SUBSET pending :
           Cardinality(items) = frame[h].size /\ \A u \in items : Handled(h, u)
    BY <2>1 DEF QueueInOrder, IterationCovers, Covered
  <2>3. \A u \in items : Handled(h, u)'
    BY <1>2, <2>2 DEF Handled, Settled
  <2> QED
    BY <1>2, <2>2, <2>3 DEF Covered
<1>4. \A u \in Tasks : Settled(u) => Settled(u)'
  BY <1>2 DEF Settled
<1> QED
  BY <1>2, <1>3, <1>4, MonotoneStep

LEMMA OverlapStays == [Next]_vars /\ overlapped => overlapped'
<1> SUFFICES ASSUME [Next]_vars, overlapped PROVE overlapped'
  OBVIOUS
<1>1. CASE EventLoop
  BY <1>1 DEF EventLoop, AttemptRouted, AttemptQueued, Attempt, SubmitDispatched, Assign,
              Select, ReadLoad, history
<1>2. ASSUME NEW h \in Workers, Request(h) PROVE overlapped'
  <2>1. ASSUME NEW f, Begin(h, f) PROVE overlapped'
    BY <2>1 DEF Begin
  <2> QED
    BY <1>2, <2>1 DEF Request, BeginDispatch, BeginRetry, BeginReport, Report, BeginFailover
<1>3. ASSUME NEW h \in Workers, Step(h) PROVE overlapped'
  BY <1>3 DEF Step, ItemRouted, ItemKept, NextItem, ItemDispatched, Assign, IterationRaises,
              Replace, Release, SetIdle, Requeue, RequeueOld, SetOffline, DispatchRequeued,
              Select, ReadLoad, history
<1>4. CASE \/ \E a \in Agents : Register(a) \/ Sweep(a) \/ Deregister(a)
           \/ \E n \in Nodes : MarkNodeOffline(n)
  BY <1>4 DEF Register, Sweep, Deregister, MarkNodeOffline, history
<1>5. CASE UNCHANGED vars
  BY <1>5 DEF vars
<1> QED
  BY <1>1, <1>2, <1>3, <1>4, <1>5 DEF Next

LEMMA StepQueueInv == TypeInv /\ QueueInv /\ [Next]_vars => QueueInv'
<1> SUFFICES ASSUME TypeInv, QueueInv, [Next]_vars, ~overlapped' PROVE QueueInOrder'
  BY DEF QueueInv
<1>1. QueueInOrder
  <2>1. overlapped => overlapped'
    BY OverlapStays
  <2> QED
    BY <2>1 DEF QueueInv
<1>2. CASE EventLoop
  BY <1>1, <1>2, LoopQueueInv
<1>3. ASSUME NEW h \in Workers, Request(h) PROVE QueueInOrder'
  BY <1>1, <1>3, RequestQueueInv
<1>4. ASSUME NEW h \in Workers, Step(h) PROVE QueueInOrder'
  <2>1. CASE \E t \in Tasks : ItemRouted(h, t) \/ ItemKept(h, t)
    BY <1>1, <2>1, ItemQueueInv
  <2>2. CASE ItemDispatched(h)
    BY <1>1, <2>2, ItemDispatchedQueueInv
  <2>3. CASE Replace(h)
    BY <1>1, <2>3, ReplaceQueueInv
  <2>4. CASE IterationRaises(h) \/ Release(h) \/ SetIdle(h) \/ SetOffline(h)
    BY <1>1, <2>4, QuietQueueInv
  <2>5. CASE (\E t \in Tasks : Requeue(h, t) \/ \E a \in Agents : RequeueOld(h, t, a)) \/ DispatchRequeued(h)
    BY <1>1, <2>5, FailoverQueueInv
  <2>6. CASE Select(h) \/ ReadLoad(h)
    BY <1>1, <2>6, RouteQueueInv
  <2> QED
    BY <1>4, <2>1, <2>2, <2>3, <2>4, <2>5, <2>6 DEF Step
<1>5. CASE UNCHANGED <<taskStatus, pending, submission, frame, reports>>
  BY <1>1, <1>5 DEF QueueInOrder, OneRewriter, IterationCovers, Iterating, Covered, Handled,
                    Settled, InPlace
<1>6. CASE \/ \E a \in Agents : Register(a) \/ Sweep(a) \/ Deregister(a)
           \/ \E n \in Nodes : MarkNodeOffline(n)
  BY <1>5, <1>6 DEF Register, Sweep, Deregister, MarkNodeOffline, tasks, queues, intake, history
<1>7. CASE UNCHANGED vars
  BY <1>5, <1>7 DEF vars
<1> QED
  BY <1>2, <1>3, <1>4, <1>6, <1>7 DEF Next

-------------------------------------------------------------------------------
(* The count of the tasks an agent has.                                       *)

LEMMA InitLoadInv == Init => LoadInv
<1> SUFFICES ASSUME Init PROVE LoadInv
  OBVIOUS
<1>1. \A a \in Agents : Slots(a) = {} /\ Returning(a) = {}
  BY AgentsAssumption DEF Init, Slots, Returning, Threads, Idle
<1>2. SlotsFinite
  BY <1>1, FS_EmptySet DEF SlotsFinite
<1>3. NewcomersFree
  BY AgentsAssumption DEF Init, NewcomersFree, Idle
<1>4. SlotsCovered
  BY <1>1, FS_EmptySet DEF SlotsCovered, Init
<1> QED
  BY <1>2, <1>3, <1>4 DEF LoadInv

(* The other threads stand where they stood, for the same agents.              *)
OnlyFrame(h) ==
    \A g \in Threads \ {h} : /\ frame'[g].pc = frame[g].pc
                             /\ frame'[g].agent = frame[g].agent
                             /\ frame'[g].among = frame[g].among

(* A step that gives nobody a task, reports nothing and writes no load.         *)
Ordinary(h) ==
    /\ OnlyFrame(h) /\ frame'[h].pc # "release"
    /\ \/ frame'[h].agent \in {None, frame[h].agent}
       \/ frame'[h].agent \in Agents /\ status[frame'[h].agent] # "absent"
    /\ \A a \in frame'[h].among : a \in frame[h].among \/ status[a] # "absent"
    /\ UNCHANGED <<assigned, active, reports, raced>>
    /\ \A t \in Tasks : taskStatus'[t] = "dispatched" => taskStatus[t] = "dispatched"
    /\ \A a \in Agents : /\ status'[a] = "absent" => status[a] = "absent"
                         /\ status'[a] \in Known => status[a] \in Known \cup {"absent"}

(* Fewer tasks and fewer handlers are covered by the same load.                *)
LEMMA FewerAreCovered ==
  ASSUME NEW S, NEW R, IsFiniteSet(S), IsFiniteSet(R),
         NEW S2 \in SUBSET S, NEW R2 \in SUBSET R, NEW n \in Nat
  PROVE  /\ IsFiniteSet(S2) /\ IsFiniteSet(R2)
         /\ Cardinality(S) + Cardinality(R) <= n => Cardinality(S2) + Cardinality(R2) <= n
<1>1. /\ IsFiniteSet(S2) /\ Cardinality(S2) <= Cardinality(S)
      /\ IsFiniteSet(R2) /\ Cardinality(R2) <= Cardinality(R)
  BY FS_Subset
<1>2. /\ Cardinality(S) \in Nat /\ Cardinality(S2) \in Nat
      /\ Cardinality(R) \in Nat /\ Cardinality(R2) \in Nat
  BY <1>1, FS_CardinalityType
<1> QED
  BY <1>1, <1>2

LEMMA OrdinaryLoad ==
  ASSUME TypeInv, TypeInv', LoadInv, NEW h \in Threads, Ordinary(h) PROVE LoadInv'
<1>1. ASSUME NEW a \in Agents PROVE Slots(a)' \subseteq Slots(a) /\ Returning(a)' \subseteq Returning(a)
  <2>1. Slots(a)' \subseteq Slots(a)
    BY DEF Ordinary, Slots
  <2>2. Returning(a)' \subseteq Returning(a)
    BY DEF Ordinary, OnlyFrame, Returning, Threads
  <2> QED
    BY <2>1, <2>2
<1>2. ASSUME NEW a \in Agents
      PROVE  /\ IsFiniteSet(Slots(a)') /\ IsFiniteSet(Returning(a)')
             /\ active[a] \in Nat
             /\ Cardinality(Slots(a)) + Cardinality(Returning(a)) <= active[a]
                  => Cardinality(Slots(a)') + Cardinality(Returning(a)') <= active[a]
  <2>1. IsFiniteSet(Slots(a)) /\ IsFiniteSet(Returning(a)) /\ active[a] \in Nat
    BY DEF LoadInv, SlotsFinite, TypeInv, TypeOK
  <2> QED
    BY <1>1, <2>1, FewerAreCovered
<1>3. SlotsFinite'
  BY <1>2 DEF SlotsFinite
<1>4. NewcomersFree'
  BY AgentsAssumption DEF LoadInv, NewcomersFree, Ordinary, OnlyFrame
<1>5. ASSUME SlotsCovered PROVE SlotsCovered'
  <2>1. ASSUME NEW a \in Agents, status'[a] \in Known
        PROVE  Cardinality(Slots(a)') + Cardinality(Returning(a)') <= active'[a]
    <3>1. active'[a] = active[a]
      BY DEF Ordinary
    <3>2. CASE status[a] \in Known
      BY <1>2, <1>5, <3>1, <3>2 DEF SlotsCovered
    <3>3. CASE status[a] = "absent"
      <4>1. Slots(a) = {} /\ Returning(a) = {}
        BY <3>3 DEF LoadInv, NewcomersFree, Slots, Returning, Threads
      <4>2. Slots(a)' = {} /\ Returning(a)' = {}
        BY <1>1, <4>1
      <4> QED
        BY <1>2, <3>1, <4>2, FS_EmptySet
    <3> QED
      BY <2>1, <3>2, <3>3 DEF Ordinary
  <2> QED
    BY <2>1 DEF SlotsCovered
<1>6. raced \/ (\E t \in Tasks : reports[t] > 1) => raced' \/ (\E t \in Tasks : reports'[t] > 1)
  BY DEF Ordinary
<1> QED
  BY <1>3, <1>4, <1>5, <1>6 DEF LoadInv

(* Agents that register, leave or miss their heartbeats.                      *)
LEMMA AgentStepLoad ==
  ASSUME TypeInv,
         \/ \E a \in Agents : Register(a) \/ Sweep(a) \/ Deregister(a)
         \/ \E n \in Nodes : MarkNodeOffline(n)
         \/ UNCHANGED vars
  PROVE  Ordinary(Loop)
<1>1. UNCHANGED <<assigned, taskStatus, active, reports, raced, frame>>
  BY DEF Register, Sweep, Deregister, MarkNodeOffline, tasks, queues, intake, history, vars
<1>2. frame[Loop].pc # "release"
  BY DEF TypeInv, LoopSubmits, Idle, Routing
<1>3. \A a \in Agents : /\ status'[a] = "absent" => status[a] = "absent"
                        /\ status'[a] \in Known => status[a] \in Known \cup {"absent"}
  <2>1. CASE \E a \in Agents : Register(a) \/ Sweep(a) \/ Deregister(a)
    BY <2>1 DEF Register, Sweep, Deregister, TypeInv, TypeOK, Known
  <2>2. CASE \E n \in Nodes : MarkNodeOffline(n)
    BY <2>2 DEF MarkNodeOffline, Known
  <2>3. CASE UNCHANGED vars
    BY <2>3 DEF vars
  <2> QED
    BY <2>1, <2>2, <2>3
<1> QED
  BY <1>1, <1>2, <1>3 DEF Ordinary, OnlyFrame

(* The filter only keeps agents in service.                                  *)
LEMMA CandidatesInService ==
  ASSUME NEW t \in Tasks, NEW a \in Candidates(t)
  PROVE  a \in Agents /\ status[a] # "absent"
  BY AgentsAssumption DEF Candidates

LEMMA AttemptLoad ==
  ASSUME TypeInv, NEW t \in Tasks, AttemptRouted(t) \/ AttemptQueued(t)
  PROVE  Ordinary(Loop)
<1>1. UNCHANGED <<assigned, taskStatus, active, reports, raced, status>>
  BY DEF AttemptRouted, AttemptQueued, Attempt, store, tasks, history
<1>2. Loop \in Threads /\ frame \in [Threads -> Frame] /\ frame[Loop].pc # "release"
  BY DEF Threads, TypeInv, TypeOK, LoopSubmits, Idle, Routing
<1>3. CASE AttemptQueued(t)
  BY <1>1, <1>2, <1>3 DEF AttemptQueued, Ordinary, OnlyFrame
<1>4. CASE AttemptRouted(t)
  <2> DEFINE i == [Idle EXCEPT !.op = "submit"]
  <2>1. frame' = [frame EXCEPT ![Loop] = Routed(i, t)]
    BY <1>4 DEF AttemptRouted
  <2>2. FrameFits(i) /\ i.agent = None
    BY FS_EmptySet DEF FrameFits, Frame, Idle, Routing
  <2> HIDE DEF i
  <2>3. /\ frame'[Loop].pc = "select" /\ frame'[Loop].agent = None
        /\ frame'[Loop].among = Candidates(t)
    BY <1>2, <2>1, <2>2, RoutedFits
  <2>4. OnlyFrame(Loop)
    BY <1>2, <2>1 DEF OnlyFrame
  <2> QED
    BY <1>1, <2>3, <2>4, CandidatesInService DEF Ordinary
<1> QED
  BY <1>3, <1>4

(* A pool thread goes on with another frame, and nobody else does.             *)
LEMMA OwnFrame ==
  ASSUME TypeInv, NEW h \in Workers, NEW f, frame' = [frame EXCEPT ![h] = f]
  PROVE  h \in Threads /\ OnlyFrame(h) /\ frame'[h] = f
  BY DEF TypeInv, TypeOK, Threads, OnlyFrame

LEMMA FrameIsRecord == ASSUME TypeInv, NEW h \in Workers PROVE h \in Threads /\ frame[h] \in Frame
  BY DEF TypeInv, TypeOK, Threads

(* Requests that only look at the queue, or at the assignments.                *)
LEMMA RequestLoad ==
  ASSUME TypeInv, NEW h \in Workers,
         \/ BeginDispatch(h) \/ BeginRetry(h)
         \/ \E n \in Nodes : BeginFailover(h, n)
  PROVE  Ordinary(h)
<1>1. UNCHANGED <<assigned, taskStatus, active, reports, raced, status>>
  BY DEF BeginDispatch, BeginRetry, BeginFailover, store, tasks
<1>2. ASSUME NEW f, Begin(h, f), f.pc # "release", f.agent = None, f.among = {} PROVE Ordinary(h)
  <2>1. OnlyFrame(h) /\ frame'[h] = f
    BY <1>2, OwnFrame DEF Begin
  <2> QED
    BY <1>1, <1>2, <2>1 DEF Ordinary
<1>3. CASE BeginDispatch(h)
  <2> DEFINE f == [Idle EXCEPT !.op = "dispatch", !.pc = "next", !.todo = pending,
                               !.size = Cardinality(pending)]
  <2>1. Begin(h, f) /\ f.pc # "release" /\ f.agent = None /\ f.among = {}
    BY <1>3 DEF BeginDispatch, Idle
  <2> QED
    BY <1>2, <2>1
<1>4. CASE BeginRetry(h)
  <2> DEFINE f == [Idle EXCEPT !.op = "retry", !.pc = "next", !.todo = escalated,
                               !.size = Cardinality(escalated)]
  <2>1. Begin(h, f) /\ f.pc # "release" /\ f.agent = None /\ f.among = {}
    BY <1>4 DEF BeginRetry, Idle
  <2> QED
    BY <1>2, <2>1
<1>5. ASSUME NEW n \in Nodes, BeginFailover(h, n) PROVE Ordinary(h)
  <2> DEFINE f == [Idle EXCEPT !.op = "failover", !.pc = "visit", !.node = n,
                               !.todo = {t \in Tasks : taskStatus[t] # "none"}]
  <2>1. Begin(h, f) /\ f.pc # "release" /\ f.agent = None /\ f.among = {}
    BY <1>5 DEF BeginFailover, Idle
  <2> QED
    BY <1>2, <2>1
<1> QED
  BY <1>3, <1>4, <1>5

(* The steps of an iteration that assign nothing.                             *)
LEMMA ItemLoad ==
  ASSUME TypeInv, NEW h \in Workers,
         \E t \in Tasks : ItemRouted(h, t) \/ ItemKept(h, t)
  PROVE  Ordinary(h)
<1>1. UNCHANGED <<assigned, taskStatus, active, reports, raced, status>>
  BY DEF ItemRouted, ItemKept, NextItem, store, tasks, history
<1>2. h \in Threads /\ frame[h] \in Frame
  BY FrameIsRecord
<1>3. ASSUME NEW t \in Tasks, ItemRouted(h, t) PROVE Ordinary(h)
  <2> DEFINE i == [frame[h] EXCEPT !.todo = @ \ {t}]
             f == Routed(i, t)
  <2>1. frame' = [frame EXCEPT ![h] = f] /\ frame[h].pc = "next"
    BY <1>3 DEF ItemRouted, NextItem, At
  <2>2. FrameFits(frame[h]) /\ i \in Frame /\ i.pc = "next" /\ i.agent = frame[h].agent /\ i.op = frame[h].op
    BY <1>2, <2>1 DEF Frame, TypeInv, FramesFit
  <2> HIDE DEF i
  <2>3. FrameFits(i)
    BY <2>1, <2>2 DEF FrameFits, Routing
  <2>4. f.pc = "select" /\ f.agent = frame[h].agent /\ f.among = Candidates(t)
    BY <2>2, <2>3, RoutedFits
  <2>5. OnlyFrame(h) /\ frame'[h] = f
    BY <2>1, OwnFrame
  <2> HIDE DEF f
  <2> QED
    BY <1>1, <2>4, <2>5, CandidatesInService DEF Ordinary
<1>4. ASSUME NEW t \in Tasks, ItemKept(h, t) PROVE Ordinary(h)
  <2> DEFINE f == [frame[h] EXCEPT !.todo = @ \ {t}, !.kept = @ \cup {t}]
  <2>1. frame' = [frame EXCEPT ![h] = f] /\ frame[h].pc = "next"
    BY <1>2, <1>4 DEF ItemKept, NextItem, At, TypeInv, TypeOK
  <2>2. f.pc = "next" /\ f.agent = frame[h].agent /\ f.among = frame[h].among
    BY <1>2, <2>1 DEF Frame
  <2>3. OnlyFrame(h) /\ frame'[h] = f
    BY <2>1, OwnFrame
  <2> HIDE DEF f
  <2> QED
    BY <1>1, <2>2, <2>3 DEF Ordinary
<1> QED
  BY <1>3, <1>4

(* The agent that is chosen was kept by the filter.                          *)
LEMMA RouteLoad ==
  ASSUME TypeInv, NewcomersFree, NEW h \in Threads, Select(h) \/ ReadLoad(h)
  PROVE  Ordinary(h)
<1>1. /\ frame[h].pc \in Routing /\ frame'[h].pc \in Routing
      /\ frame'[h].among \subseteq frame[h].among
      /\ frame'[h].agent \in Agents
      /\ frame'[h].agent \in frame[h].among \/ frame'[h].agent = frame[h].agent
      /\ OnlyFrame(h)
      /\ UNCHANGED <<status, active, assigned, taskStatus, reports, raced>>
  BY RouteFrame DEF OnlyFrame, store, tasks, history
<1>2. status[frame'[h].agent] # "absent"
  BY <1>1 DEF NewcomersFree
<1> QED
  BY <1>1, <1>2 DEF Ordinary, Routing

LEMMA IterationEndLoad ==
  ASSUME TypeInv, NEW h \in Workers, IterationRaises(h) \/ Replace(h)
  PROVE  Ordinary(h)
<1>1. UNCHANGED <<assigned, taskStatus, active, reports, raced, status>>
  BY DEF IterationRaises, Replace, store, tasks, history
<1>2. Idle.pc = "none" /\ Idle.agent = None /\ Idle.among = {}
  BY DEF Idle
<1>3. CASE IterationRaises(h)
  <2>1. OnlyFrame(h) /\ frame'[h] = Idle
    BY <1>3, OwnFrame DEF IterationRaises, Done
  <2> QED
    BY <1>1, <1>2, <2>1 DEF Ordinary
<1>4. CASE Replace(h)
  <2>1. PICK ops : Detach(h, ops)
    BY <1>4 DEF Replace
  <2>2. h \in Threads /\ frame'[h] = Idle
    BY <2>1, FrameIsRecord DEF Detach
  <2>3. ASSUME NEW g \in Threads \ {h}
        PROVE  /\ frame'[g].pc = frame[g].pc /\ frame'[g].agent = frame[g].agent
               /\ frame'[g].among = frame[g].among
    <3>1. frame[g] \in Frame
      BY DEF TypeInv, TypeOK
    <3>2. frame'[g] = IF frame[g].op \in ops THEN [frame[g] EXCEPT !.size = -1] ELSE frame[g]
      BY <2>1 DEF Detach
    <3> QED
      BY <3>1, <3>2 DEF Frame
  <2> QED
    BY <1>1, <1>2, <2>2, <2>3 DEF Ordinary, OnlyFrame
<1> QED
  BY <1>3, <1>4

(* An agent's status, and a failover.                                        *)
LEMMA StatusStepLoad ==
  ASSUME TypeInv, NEW h \in Workers, SetIdle(h) \/ SetOffline(h)
  PROVE  Ordinary(h)
<1>1. UNCHANGED <<assigned, taskStatus, active, reports, raced>>
  BY DEF SetIdle, SetOffline, tasks, history
<1>2. h \in Threads /\ frame[h] \in Frame
  BY FrameIsRecord
<1>3. \A a \in Agents : /\ status'[a] = "absent" => status[a] = "absent"
                        /\ status'[a] \in Known => status[a] \in Known \cup {"absent"}
  BY DEF SetIdle, SetOffline, TypeInv, TypeOK, Known
<1>4. CASE SetIdle(h)
  <2>1. OnlyFrame(h) /\ frame'[h] = Idle
    BY <1>4, OwnFrame DEF SetIdle, Done
  <2> QED
    BY <1>1, <1>3, <2>1 DEF Ordinary, Idle
<1>5. CASE SetOffline(h)
  <2> DEFINE f == [frame[h] EXCEPT !.pc = "visit", !.agent = None]
  <2>1. frame' = [frame EXCEPT ![h] = f]
    BY <1>2, <1>5 DEF SetOffline, TypeInv, TypeOK
  <2>2. f.pc = "visit" /\ f.agent = None /\ f.among = frame[h].among
    BY <1>2 DEF Frame
  <2>3. OnlyFrame(h) /\ frame'[h] = f
    BY <2>1, OwnFrame
  <2> HIDE DEF f
  <2> QED
    BY <1>1, <1>3, <2>2, <2>3 DEF Ordinary
<1> QED
  BY <1>4, <1>5

LEMMA FailoverLoad ==
  ASSUME TypeInv, NEW h \in Workers,
         (\E t \in Tasks : Requeue(h, t) \/ \E a \in Agents : RequeueOld(h, t, a)) \/ DispatchRequeued(h)
  PROVE  Ordinary(h)
<1>1. UNCHANGED <<assigned, active, reports, raced, status>>
  BY DEF Requeue, RequeueOld, DispatchRequeued, store, tasks, history
<1>2. h \in Threads /\ frame[h] \in Frame
  BY FrameIsRecord
<1>3. ASSUME NEW t \in Tasks, Requeue(h, t) PROVE Ordinary(h)
  <2> DEFINE a == assigned[t]
             f == [frame[h] EXCEPT !.pc = "set_offline", !.agent = a, !.todo = @ \ {t}]
  <2>1. frame' = [frame EXCEPT ![h] = f]
    BY <1>2, <1>3 DEF Requeue, TypeInv, TypeOK
  <2>2. a \in Agents /\ status[a] # "absent"
    BY <1>3 DEF Requeue, Failing, OnFailedNode, TypeInv, AssignmentsNamed, Known
  <2>3. f.pc = "set_offline" /\ f.agent = a /\ f.among = frame[h].among
    BY <1>2 DEF Frame
  <2>4. OnlyFrame(h) /\ frame'[h] = f
    BY <2>1, OwnFrame
  <2>5. \A u \in Tasks : taskStatus'[u] = "dispatched" => taskStatus[u] = "dispatched"
    BY <1>3 DEF Requeue, TypeInv, TypeOK
  <2> HIDE DEF f, a
  <2> QED
    BY <1>1, <2>2, <2>3, <2>4, <2>5 DEF Ordinary
<1>4. CASE DispatchRequeued(h)
  <2> DEFINE f == [frame[h] EXCEPT !.pc = "next", !.todo = pending, !.old = {},
                                   !.size = Cardinality(pending)]
  <2>1. frame' = [frame EXCEPT ![h] = f]
    BY <1>2, <1>4 DEF DispatchRequeued, TypeInv, TypeOK
  <2>2. f.pc = "next" /\ f.agent = frame[h].agent /\ f.among = frame[h].among
    BY <1>2 DEF Frame
  <2>3. OnlyFrame(h) /\ frame'[h] = f
    BY <2>1, OwnFrame
  <2>4. taskStatus' = taskStatus
    BY <1>4 DEF DispatchRequeued, tasks
  <2> HIDE DEF f
  <2> QED
    BY <1>1, <2>2, <2>3, <2>4 DEF Ordinary
<1>5. ASSUME NEW t \in Tasks, NEW a \in Agents, RequeueOld(h, t, a) PROVE Ordinary(h)
  <2> DEFINE f == [frame[h] EXCEPT !.pc = "set_offline", !.agent = a, !.old = @ \ {<<t, a>>}]
  <2>1. frame' = [frame EXCEPT ![h] = f]
    BY <1>2, <1>5 DEF RequeueOld, TypeInv, TypeOK
  <2>2. status[a] # "absent" /\ taskStatus' = taskStatus
    BY <1>5 DEF RequeueOld, OnFailedNode, Known, tasks
  <2>3. f.pc = "set_offline" /\ f.agent = a /\ f.among = frame[h].among
    BY <1>2 DEF Frame
  <2>4. OnlyFrame(h) /\ frame'[h] = f
    BY <2>1, OwnFrame
  <2> HIDE DEF f
  <2> QED
    BY <1>1, <2>2, <2>3, <2>4 DEF Ordinary
<1> QED
  BY <1>3, <1>4, <1>5

(* A step that adds at most d to what an agent b may give back, and d to its load. *)
LEMMA AddedIsCovered ==
  ASSUME NEW S, NEW R, IsFiniteSet(S), IsFiniteSet(R), NEW t,
         NEW S2 \in SUBSET (S \cup {t}), NEW n \in Nat
  PROVE  /\ IsFiniteSet(S2)
         /\ Cardinality(S) + Cardinality(R) <= n => Cardinality(S2) + Cardinality(R) <= n + 1
<1>1. IsFiniteSet(S \cup {t}) /\ Cardinality(S \cup {t}) <= Cardinality(S) + 1
  <2>1. Cardinality(S) \in Nat
    BY FS_CardinalityType
  <2> QED
    BY <2>1, FS_AddElement
<1>2. IsFiniteSet(S2) /\ Cardinality(S2) <= Cardinality(S \cup {t})
  BY <1>1, FS_Subset
<1>3. /\ Cardinality(S) \in Nat /\ Cardinality(S2) \in Nat
      /\ Cardinality(R) \in Nat /\ Cardinality(S \cup {t}) \in Nat
  BY <1>1, <1>2, FS_CardinalityType
<1> QED
  BY <1>1, <1>2, <1>3

(* An assignment adds a task to an agent and one to its load, if nobody wrote  *)
(* that load since it was read.                                               *)
LEMMA AssignLoad ==
  ASSUME TypeInv, LoadInv, NEW h \in Threads, Assign(h), OnlyFrame(h),
         frame'[h].pc # "release", frame'[h].agent = None,
         frame'[h].among \subseteq frame[h].among
  PROVE  LoadInv'
<1>0. /\ frame[h].agent \in Agents /\ frame[h].task \in Tasks
      /\ frame[h].pc = "write" /\ frame[h] \in Frame
  BY DEF TypeInv, FramesFit, FrameFits, Assign, At, Routing
<1>1. PICK a \in Agents, t \in Tasks : a = frame[h].agent /\ t = frame[h].task
  BY <1>0
<1>2. status[a] # "absent"
  BY <1>1 DEF LoadInv, NewcomersFree
<1>3. /\ assigned' = [assigned EXCEPT ![t] = a]
      /\ taskStatus' = [taskStatus EXCEPT ![t] = "dispatched"]
      /\ raced' = (raced \/ active[a] # frame[h].seen)
      /\ reports' = reports
  BY <1>1 DEF Assign
<1>4. \/ /\ status[a] \in Known
         /\ active' = [active EXCEPT ![a] = frame[h].seen + 1]
         /\ status' = [status EXCEPT ![a] = "busy"]
      \/ status[a] \notin Known /\ UNCHANGED <<status, active>>
  BY <1>1 DEF Assign, store
<1>5. /\ assigned \in [Tasks -> Agents \cup {None}]
      /\ taskStatus \in [Tasks -> {"none", "dispatched", "completed", "failed"}]
      /\ status \in [Agents -> Statuses] /\ active \in [Agents -> Nat]
  BY DEF TypeInv, TypeOK
<1>6. Slots(a)' \subseteq Slots(a) \cup {t}
  BY <1>1, <1>3, <1>5 DEF Slots
<1>7. \A b \in Agents \ {a} : Slots(b)' \subseteq Slots(b)
  BY <1>1, <1>3, <1>5 DEF Slots
<1>8. \A b \in Agents : Returning(b)' \subseteq Returning(b)
  BY <1>0 DEF Returning, OnlyFrame, Threads
<1>9. \A b \in Agents : IsFiniteSet(Slots(b)) /\ IsFiniteSet(Returning(b)) /\ active[b] \in Nat
  BY <1>5 DEF LoadInv, SlotsFinite
<1>10. \A b \in Agents : IsFiniteSet(Returning(b)')
  BY <1>8, <1>9, FS_Subset
<1>11. SlotsFinite'
  <2>1. IsFiniteSet(Slots(a)')
    <3>1. IsFiniteSet(Slots(a) \cup {t})
      BY <1>1, <1>9, FS_AddElement
    <3> QED
      BY <1>6, <3>1, FS_Subset
  <2>2. \A b \in Agents \ {a} : IsFiniteSet(Slots(b)')
    BY <1>7, <1>9, FS_Subset
  <2> QED
    BY <1>10, <2>1, <2>2 DEF SlotsFinite
<1>12. NewcomersFree'
  <2>1. ASSUME NEW b \in Agents, status'[b] = "absent" PROVE b # a /\ status[b] = "absent"
    BY <1>1, <1>2, <1>4, <1>5, <2>1
  <2>2. ASSUME NEW b \in Agents, status'[b] = "absent"
        PROVE  /\ \A u \in Tasks : assigned'[u] # b
               /\ \A g \in Threads : frame'[g].agent # b /\ b \notin frame'[g].among
    <3>1. \A u \in Tasks : assigned'[u] # b
      BY <1>1, <1>3, <1>5, <2>1, <2>2 DEF LoadInv, NewcomersFree
    <3>2. \A g \in Threads : frame'[g].agent # b /\ b \notin frame'[g].among
      BY <2>1, <2>2, AgentsAssumption DEF LoadInv, NewcomersFree, OnlyFrame
    <3> QED
      BY <3>1, <3>2
  <2> QED
    BY <2>2 DEF NewcomersFree
<1>13. ASSUME SlotsCovered, ~raced' PROVE SlotsCovered'
  <2>1. active[a] = frame[h].seen
    BY <1>3, <1>13
  <2>2. ASSUME NEW b \in Agents, b # a, status'[b] \in Known
        PROVE  Cardinality(Slots(b)') + Cardinality(Returning(b)') <= active'[b]
    <3>1. status[b] \in Known /\ active'[b] = active[b]
      BY <1>1, <1>4, <1>5, <2>2
    <3>2. Cardinality(Slots(b)) + Cardinality(Returning(b)) <= active[b]
      BY <1>13, <3>1 DEF SlotsCovered
    <3>3. Slots(b)' \in SUBSET Slots(b) /\ Returning(b)' \in SUBSET Returning(b)
      BY <1>7, <1>8, <2>2
    <3> QED
      BY <1>9, <3>1, <3>2, <3>3, FewerAreCovered
  <2>3. ASSUME status'[a] \in Known
        PROVE  Cardinality(Slots(a)') + Cardinality(Returning(a)') <= active'[a]
    <3>1. status[a] \in Known /\ active'[a] = active[a] + 1
      BY <1>1, <1>4, <1>5, <2>1, <2>3
    <3>2. Cardinality(Slots(a)) + Cardinality(Returning(a)) <= active[a]
      BY <1>1, <1>13, <3>1 DEF SlotsCovered
    <3>3. IsFiniteSet(Slots(a)') /\ Cardinality(Slots(a)') + Cardinality(Returning(a)) <= active[a] + 1
      <4>1. Slots(a)' \in SUBSET (Slots(a) \cup {t})
        BY <1>6
      <4>2. IsFiniteSet(Slots(a)) /\ IsFiniteSet(Returning(a)) /\ active[a] \in Nat
        BY <1>1, <1>9
      <4> QED
        BY <3>2, <4>1, <4>2, AddedIsCovered
    <3>4. active[a] + 1 \in Nat
      BY <1>1, <1>9
    <3>5. Cardinality(Slots(a)') + Cardinality(Returning(a)') <= active[a] + 1
      BY <1>1, <1>8, <1>9, <3>3, <3>4, FewerAreCovered
    <3> QED
      BY <3>1, <3>5
  <2> QED
    BY <2>2, <2>3 DEF SlotsCovered
<1>14. raced => raced'
  BY <1>3
<1> QED
  BY <1>3, <1>11, <1>12, <1>13, <1>14 DEF LoadInv

LEMMA DispatchedLoad ==
  ASSUME TypeInv, LoadInv, SubmitDispatched \/ \E h \in Workers : ItemDispatched(h)
  PROVE  LoadInv'
<1>1. CASE SubmitDispatched
  <2>1. Loop \in Threads /\ frame[Loop].task \in Tasks
    BY <1>1 DEF SubmitDispatched, Threads, Assign, At, TypeInv, FramesFit, FrameFits, Routing
  <2>2. frame'[Loop] = Idle /\ OnlyFrame(Loop)
    BY <1>1, <2>1, IdleFits, AssignedFits DEF SubmitDispatched, OnlyFrame
  <2> QED
    BY <1>1, <2>1, <2>2, AssignLoad DEF SubmitDispatched, Idle
<1>2. ASSUME NEW h \in Workers, ItemDispatched(h) PROVE LoadInv'
  <2> DEFINE f == [frame[h] EXCEPT !.pc = "next", !.task = None, !.agent = None, !.seen = 0]
  <2>1. h \in Threads /\ frame[h] \in Frame /\ FrameFits(frame[h]) /\ frame[h].task \in Tasks
    BY <1>2, FrameIsRecord DEF ItemDispatched, Assign, At, TypeInv, FramesFit, FrameFits, Routing
  <2>2. Assigned(h, f) /\ Assign(h) /\ frame[h].op \in {"dispatch", "retry", "failover"}
    BY <1>2 DEF ItemDispatched
  <2>3. /\ f.pc = "next" /\ f.agent = None /\ f.among = frame[h].among
        /\ f \in Frame /\ f.op = frame[h].op /\ f.kept = frame[h].kept
    BY <2>1 DEF Frame
  <2> HIDE DEF f
  <2>4. FrameFits(f) /\ IsFiniteSet(f.kept) /\ h # Loop
    BY <2>1, <2>2, <2>3, ThreadsAssumption DEF FrameFits, Routing, TypeInv, KeptFinite
  <2>5. OnlyFrame(h) /\ frame'[h] = f
    BY <2>1, <2>2, <2>3, <2>4, LoopNotVisiting, AssignedFits DEF OnlyFrame, TypeInv
  <2> QED
    BY <2>1, <2>2, <2>3, <2>5, AssignLoad
<1> QED
  BY <1>1, <1>2

(* A handler that writes a load back has counted as one of it.                 *)
LEMMA ReleaseLoad ==
  ASSUME TypeInv, LoadInv, NEW h \in Workers, Release(h)
  PROVE  LoadInv'
<1>0. /\ h \in Threads /\ frame[h] \in Frame
      /\ frame[h].agent \in Agents /\ frame[h].pc = "release"
  BY FrameIsRecord DEF TypeInv, FramesFit, FrameFits, Release, At
<1>1. PICK a \in Agents : a = frame[h].agent
  BY <1>0
<1>2. /\ OnlyFrame(h) /\ frame'[h].pc # "release" /\ frame'[h].agent \in {None, a}
      /\ frame'[h].among \subseteq frame[h].among
  <2>1. CASE Done(h)
    <3>1. OnlyFrame(h) /\ frame'[h] = Idle
      BY <2>1, OwnFrame DEF Done
    <3> QED
      BY <3>1 DEF Idle
  <2>2. CASE frame' = [frame EXCEPT ![h].pc = "set_idle"]
    BY <1>0, <1>1, <2>2 DEF TypeInv, TypeOK, OnlyFrame, Frame
  <2> QED
    BY <2>1, <2>2 DEF Release
<1>3. /\ UNCHANGED <<status, assigned, taskStatus, reports>>
      /\ raced' = (raced \/ active[a] # frame[h].seen)
      /\ active' = IF status[a] \in Known THEN [active EXCEPT ![a] = frame[h].seen - 1] ELSE active
  BY <1>1 DEF Release, tasks
<1>4. active \in [Agents -> Nat]
  BY DEF TypeInv, TypeOK
<1>5. \A b \in Agents : Slots(b)' = Slots(b) /\ Returning(b)' \subseteq Returning(b)
  BY <1>2, <1>3 DEF Slots, Returning, OnlyFrame, Threads
<1>6. h \in Returning(a) /\ Returning(a)' \subseteq Returning(a) \ {h}
  BY <1>0, <1>1, <1>2 DEF Returning, OnlyFrame, Threads
<1>7. \A b \in Agents : IsFiniteSet(Slots(b)) /\ IsFiniteSet(Returning(b))
  BY DEF LoadInv, SlotsFinite
<1>8. SlotsFinite'
  BY <1>5, <1>7, FS_Subset DEF SlotsFinite
<1>9. NewcomersFree'
  BY <1>0, <1>1, <1>2, <1>3, AgentsAssumption DEF LoadInv, NewcomersFree, OnlyFrame
<1>10. ASSUME SlotsCovered, ~raced' PROVE SlotsCovered'
  <2>1. active[a] = frame[h].seen
    BY <1>3, <1>10
  <2>2. ASSUME NEW b \in Agents, b # a, status'[b] \in Known
        PROVE  Cardinality(Slots(b)') + Cardinality(Returning(b)') <= active'[b]
    <3>1. status[b] \in Known /\ active'[b] = active[b]
      BY <1>1, <1>3, <1>4, <2>2
    <3>2. Cardinality(Slots(b)) + Cardinality(Returning(b)) <= active[b]
      BY <1>10, <3>1 DEF SlotsCovered
    <3> QED
      BY <1>4, <1>5, <1>7, <3>1, <3>2, FewerAreCovered
  <2>3. ASSUME status'[a] \in Known
        PROVE  Cardinality(Slots(a)') + Cardinality(Returning(a)') <= active'[a]
    <3>1. status[a] \in Known /\ active'[a] = active[a] - 1
      BY <1>1, <1>3, <1>4, <2>1, <2>3
    <3>2. Cardinality(Slots(a)) + Cardinality(Returning(a)) <= active[a]
      BY <1>1, <1>10, <3>1 DEF SlotsCovered
    <3>3. /\ IsFiniteSet(Returning(a) \ {h})
          /\ Cardinality(Returning(a) \ {h}) = Cardinality(Returning(a)) - 1
      BY <1>1, <1>6, <1>7, FS_RemoveElement
    <3>4. Cardinality(Returning(a)') <= Cardinality(Returning(a) \ {h})
      BY <1>6, <3>3, FS_Subset
    <3>5. /\ Cardinality(Slots(a)) \in Nat /\ Cardinality(Returning(a)) \in Nat
          /\ Cardinality(Returning(a)') \in Nat /\ active[a] \in Nat
      BY <1>1, <1>4, <1>6, <1>7, <3>3, FS_Subset, FS_CardinalityType
    <3>6. Slots(a)' = Slots(a)
      BY <1>1, <1>5
    <3> QED
      BY <3>1, <3>2, <3>3, <3>4, <3>5, <3>6
  <2> QED
    BY <2>2, <2>3 DEF SlotsCovered
<1>11. raced => raced'
  BY <1>3
<1> QED
  BY <1>3, <1>8, <1>9, <1>10, <1>11 DEF LoadInv

(* The first report for a task turns its slot into one about to be given back. *)
LEMMA ReportLoad ==
  ASSUME TypeInv, LoadInv, NEW h \in Workers, NEW t \in Tasks, NEW op \in {"complete", "fail"},
         BeginReport(h, t, op)
  PROVE  LoadInv'
<1>0. assigned[t] \in Agents
  BY DEF BeginReport, Report, TypeInv, TypeOK
<1>1. PICK a \in Agents : a = assigned[t]
  BY <1>0
<1>16. status[a] # "absent"
  BY <1>1 DEF LoadInv, NewcomersFree
<1> DEFINE f == IF status[a] \in Known /\ active[a] > 0
                     THEN [Idle EXCEPT !.op = op, !.pc = "release", !.agent = a, !.seen = active[a]]
                     ELSE Idle
<1>2. Begin(h, f)
  BY <1>1 DEF BeginReport, Report
<1>3. f.agent \in {None, a} /\ f.among = {}
  BY DEF Idle
<1> HIDE DEF f
<1>4. h \in Threads /\ frame[h] = Idle /\ OnlyFrame(h) /\ frame'[h] = f
  BY <1>2, OwnFrame DEF Begin
<1>5. /\ UNCHANGED <<status, active, assigned, raced>>
      /\ reports' = [reports EXCEPT ![t] = @ + 1]
      /\ taskStatus' = [taskStatus EXCEPT ![t] = IF op = "complete" THEN "completed" ELSE "failed"]
  BY DEF BeginReport, Report, store
<1>6. /\ reports \in [Tasks -> Nat] /\ active \in [Agents -> Nat]
      /\ taskStatus \in [Tasks -> {"none", "dispatched", "completed", "failed"}]
  BY DEF TypeInv, TypeOK
<1>7. t \notin Slots(a)'
  <2>1. taskStatus'[t] # "dispatched" /\ reports'[t] # 0
    BY <1>5, <1>6
  <2> QED
    BY <2>1 DEF Slots
<1>8. \A b \in Agents : Slots(b)' \subseteq Slots(b)
  BY <1>5, <1>6 DEF Slots
<1>9. \A b \in Agents \ {a} : Returning(b)' \subseteq Returning(b)
  BY <1>3, <1>4, AgentsAssumption DEF Returning, OnlyFrame, Threads
<1>10. Returning(a)' \subseteq Returning(a) \cup {h}
  BY <1>4 DEF Returning, OnlyFrame, Threads
<1>11. \A b \in Agents : IsFiniteSet(Slots(b)) /\ IsFiniteSet(Returning(b))
  BY DEF LoadInv, SlotsFinite
<1>12. SlotsFinite'
  <2>1. IsFiniteSet(Returning(a)')
    BY <1>1, <1>10, <1>11, FS_AddElement, FS_Subset
  <2> QED
    BY <1>8, <1>9, <1>11, <2>1, FS_Subset DEF SlotsFinite
<1>13. NewcomersFree'
  BY <1>16, <1>3, <1>4, <1>5, AgentsAssumption DEF LoadInv, NewcomersFree, OnlyFrame
<1>14. ASSUME SlotsCovered, ~(reports'[t] > 1) PROVE SlotsCovered'
  <2>1. t \in Slots(a)
    BY <1>1, <1>5, <1>6, <1>14 DEF Slots
  <2>2. ASSUME NEW b \in Agents, b # a, status'[b] \in Known
        PROVE  Cardinality(Slots(b)') + Cardinality(Returning(b)') <= active'[b]
    <3>1. status[b] \in Known /\ active'[b] = active[b]
      BY <1>5, <2>2
    <3>2. Cardinality(Slots(b)) + Cardinality(Returning(b)) <= active[b]
      BY <1>14, <3>1 DEF SlotsCovered
    <3>3. Slots(b)' \in SUBSET Slots(b) /\ Returning(b)' \in SUBSET Returning(b)
      BY <1>8, <1>9, <2>2
    <3> QED
      BY <1>6, <1>11, <3>1, <3>2, <3>3, FewerAreCovered
  <2>3. ASSUME status'[a] \in Known
        PROVE  Cardinality(Slots(a)') + Cardinality(Returning(a)') <= active'[a]
    <3>1. status[a] \in Known /\ active'[a] = active[a]
      BY <1>5, <2>3
    <3>2. Cardinality(Slots(a)) + Cardinality(Returning(a)) <= active[a]
      BY <1>1, <1>14, <3>1 DEF SlotsCovered
    <3>3. /\ IsFiniteSet(Slots(a) \ {t})
          /\ Cardinality(Slots(a) \ {t}) = Cardinality(Slots(a)) - 1
      BY <1>1, <1>11, <2>1, FS_RemoveElement
    <3>4. /\ IsFiniteSet(Slots(a)')
          /\ Cardinality(Slots(a)') <= Cardinality(Slots(a) \ {t})
      <4>1. Slots(a)' \subseteq Slots(a) \ {t}
        BY <1>1, <1>7, <1>8
      <4> QED
        BY <3>3, <4>1, FS_Subset
    <3>5. /\ Cardinality(Slots(a)) \in Nat /\ Cardinality(Slots(a)') \in Nat
          /\ Cardinality(Returning(a)) \in Nat /\ active[a] \in Nat
      BY <1>1, <1>6, <1>11, <3>4, FS_CardinalityType
    <3>6. /\ IsFiniteSet(Returning(a) \cup {h})
          /\ Cardinality(Returning(a) \cup {h}) <= Cardinality(Returning(a)) + 1
      <4>1. IsFiniteSet(Returning(a))
        BY <1>1, <1>11
      <4>2. /\ IsFiniteSet(Returning(a) \cup {h})
            /\ Cardinality(Returning(a) \cup {h})
                 = IF h \in Returning(a) THEN Cardinality(Returning(a))
                                         ELSE Cardinality(Returning(a)) + 1
        BY <4>1, FS_AddElement
      <4> QED
        BY <3>5, <4>2
    <3>7. /\ Cardinality(Returning(a)') \in Nat
          /\ Cardinality(Returning(a)') <= Cardinality(Returning(a) \cup {h})
      <4>1. Returning(a)' \in SUBSET (Returning(a) \cup {h})
        BY <1>10
      <4>2. /\ IsFiniteSet(Returning(a)')
            /\ Cardinality(Returning(a)') <= Cardinality(Returning(a) \cup {h})
        BY <3>6, <4>1, FS_Subset
      <4> QED
        BY <4>2, FS_CardinalityType
    <3>8. Cardinality(Returning(a) \cup {h}) \in Nat
      BY <3>6, FS_CardinalityType
    <3> QED
      BY <3>1, <3>2, <3>3, <3>4, <3>5, <3>6, <3>7, <3>8
  <2> QED
    BY <2>2, <2>3 DEF SlotsCovered
<1>15. ASSUME NEW u \in Tasks, reports[u] > 1 PROVE reports'[u] > 1
  BY <1>5, <1>6, <1>15
<1> QED
  BY <1>5, <1>12, <1>13, <1>14, <1>15 DEF LoadInv

LEMMA StepLoadInv == TypeInv /\ LoadInv /\ [Next]_vars => LoadInv'
<1> SUFFICES ASSUME TypeInv, LoadInv, [Next]_vars PROVE LoadInv'
  OBVIOUS
<1>1. TypeInv'
  BY StepTypeInv
<1>2. ASSUME NEW h \in Threads, Ordinary(h) PROVE LoadInv'
  BY <1>1, <1>2, OrdinaryLoad
<1>3. CASE EventLoop
  <2>1. Loop \in Threads
    BY DEF Threads
  <2> QED
    BY <1>2, <1>3, <2>1, AttemptLoad, RouteLoad, DispatchedLoad DEF EventLoop, LoadInv
<1>4. ASSUME NEW h \in Workers, Request(h) PROVE LoadInv'
  <2>1. h \in Threads
    BY DEF Threads
  <2>2. CASE BeginDispatch(h) \/ BeginRetry(h) \/ \E n \in Nodes : BeginFailover(h, n)
    BY <1>2, <2>1, <2>2, RequestLoad
  <2>3. CASE \E t \in Tasks, op \in {"complete", "fail"} : BeginReport(h, t, op)
    BY <2>3, ReportLoad
  <2> QED
    BY <1>4, <2>2, <2>3 DEF Request
<1>5. ASSUME NEW h \in Workers, Step(h) PROVE LoadInv'
  <2>1. h \in Threads
    BY DEF Threads
  <2>2. CASE \E t \in Tasks : ItemRouted(h, t) \/ ItemKept(h, t)
    BY <1>2, <2>1, <2>2, ItemLoad
  <2>3. CASE ItemDispatched(h)
    BY <2>3, DispatchedLoad
  <2>4. CASE IterationRaises(h) \/ Replace(h)
    BY <1>2, <2>1, <2>4, IterationEndLoad
  <2>5. CASE Release(h)
    BY <2>5, ReleaseLoad
  <2>6. CASE SetIdle(h) \/ SetOffline(h)
    BY <1>2, <2>1, <2>6, StatusStepLoad
  <2>7. CASE (\E t \in Tasks : Requeue(h, t) \/ \E a \in Agents : RequeueOld(h, t, a)) \/ DispatchRequeued(h)
    BY <1>2, <2>1, <2>7, FailoverLoad
  <2>8. CASE Select(h) \/ ReadLoad(h)
    BY <1>2, <2>1, <2>8, RouteLoad DEF LoadInv
  <2> QED
    BY <1>5, <2>2, <2>3, <2>4, <2>5, <2>6, <2>7, <2>8 DEF Step
<1>6. CASE \/ \E a \in Agents : Register(a) \/ Sweep(a) \/ Deregister(a)
           \/ \E n \in Nodes : MarkNodeOffline(n)
           \/ UNCHANGED vars
  <2>1. Loop \in Threads
    BY DEF Threads
  <2> QED
    BY <1>2, <1>6, <2>1, AgentStepLoad
<1> QED
  BY <1>3, <1>4, <1>5, <1>6 DEF Next

-------------------------------------------------------------------------------
(* How far an agent may be overrun: the handlers that the filter has let pass  *)
(* and that have not written yet are counted with what the agent has.          *)
Aimed(a) ==
    {h \in Threads : \/ frame[h].pc = "select" /\ a \in frame[h].among
                     \/ frame[h].pc \in {"read", "write"} /\ frame[h].agent = a}

RoomLeft ==
    \A a \in Agents :
        active[a] + Cardinality(Aimed(a)) <= Concurrency[a] + Cardinality(Threads) - 1

RoomInv == raced \/ RoomLeft

LEMMA ThreadsFinite ==
  IsFiniteSet(Threads) /\ Cardinality(Threads) \in Nat /\ Cardinality(Threads) >= 1
<1>1. IsFiniteSet(Threads) /\ Threads = Workers \cup {Loop}
  BY ThreadsAssumption, FS_AddElement DEF Threads
<1>2. Cardinality(Threads) = Cardinality(Workers) + 1
  BY <1>1, ThreadsAssumption, FS_AddElement
<1>3. Cardinality(Workers) \in Nat
  BY ThreadsAssumption, FS_CardinalityType
<1> QED
  BY <1>1, <1>2, <1>3

LEMMA AimedFinite ==
  ASSUME NEW a
  PROVE  /\ IsFiniteSet(Aimed(a)) /\ Cardinality(Aimed(a)) \in Nat
         /\ Cardinality(Aimed(a)) <= Cardinality(Threads)
<1>1. Aimed(a) \subseteq Threads
  BY DEF Aimed
<1>2. IsFiniteSet(Aimed(a)) /\ Cardinality(Aimed(a)) <= Cardinality(Threads)
  BY <1>1, ThreadsFinite, FS_Subset
<1> QED
  BY <1>2, FS_CardinalityType

LEMMA AimedFiniteNext ==
  ASSUME NEW a
  PROVE  /\ IsFiniteSet(Aimed(a)') /\ Cardinality(Aimed(a)') \in Nat
         /\ Cardinality(Aimed(a)') <= Cardinality(Threads)
<1>1. Aimed(a)' \subseteq Threads
  BY DEF Aimed
<1>2. IsFiniteSet(Aimed(a)') /\ Cardinality(Aimed(a)') <= Cardinality(Threads)
  BY <1>1, ThreadsFinite, FS_Subset
<1> QED
  BY <1>2, FS_CardinalityType

LEMMA InitRoomInv == Init => RoomInv
<1> SUFFICES ASSUME Init, NEW a \in Agents
             PROVE  active[a] + Cardinality(Aimed(a)) <= Concurrency[a] + Cardinality(Threads) - 1
  BY DEF RoomInv, RoomLeft
<1>1. Aimed(a) = {}
  BY DEF Init, Aimed, Idle
<1>2. active[a] = 0 /\ Cardinality(Aimed(a)) = 0 /\ Concurrency[a] \in Nat
  BY <1>1, AgentsAssumption, FS_EmptySet DEF Init
<1> QED
  BY <1>2, ThreadsFinite

(* A step that lets nobody pass the filter and adds to nobody's load.          *)
Unaimed(h) ==
    /\ OnlyFrame(h)
    /\ \A a \in Agents : h \in Aimed(a)' => h \in Aimed(a)
    /\ UNCHANGED active
    /\ raced => raced'

LEMMA UnaimedRoom ==
  ASSUME TypeInv, RoomInv, NEW h \in Threads, Unaimed(h) PROVE RoomInv'
<1> SUFFICES ASSUME ~raced', NEW a \in Agents
             PROVE  active'[a] + Cardinality(Aimed(a)') <= Concurrency[a] + Cardinality(Threads) - 1
  BY DEF RoomInv, RoomLeft
<1>1. active[a] + Cardinality(Aimed(a)) <= Concurrency[a] + Cardinality(Threads) - 1
  BY DEF RoomInv, RoomLeft, Unaimed
<1>2. Aimed(a)' \subseteq Aimed(a)
  BY DEF Unaimed, OnlyFrame, Aimed
<1>3. Cardinality(Aimed(a)') <= Cardinality(Aimed(a))
  BY <1>2, AimedFinite, FS_Subset
<1>4. active'[a] = active[a] /\ active[a] \in Nat /\ Concurrency[a] \in Nat
  BY AgentsAssumption DEF Unaimed, TypeInv, TypeOK
<1> QED
  BY <1>1, <1>3, <1>4, AimedFinite, AimedFiniteNext, ThreadsFinite

(* The filter: who passes it saw an agent with room.                           *)
LEMMA RoutedRoom ==
  ASSUME TypeInv, RoomInv, NEW h \in Threads, NEW t \in Tasks, OnlyFrame(h),
         frame'[h].pc = "select", frame'[h].among = Candidates(t),
         UNCHANGED <<active, raced>>
  PROVE  RoomInv'
<1> SUFFICES ASSUME ~raced, NEW a \in Agents
             PROVE  active'[a] + Cardinality(Aimed(a)') <= Concurrency[a] + Cardinality(Threads) - 1
  BY DEF RoomInv, RoomLeft
<1>1. active'[a] = active[a] /\ active[a] \in Nat /\ Concurrency[a] \in Nat
  BY AgentsAssumption DEF TypeInv, TypeOK
<1>2. CASE a \in Candidates(t)
  <2>1. active[a] < Concurrency[a]
    BY <1>2 DEF Candidates
  <2> QED
    BY <1>1, <2>1, AimedFiniteNext, ThreadsFinite
<1>3. CASE a \notin Candidates(t)
  <2>1. active[a] + Cardinality(Aimed(a)) <= Concurrency[a] + Cardinality(Threads) - 1
    BY DEF RoomInv, RoomLeft
  <2>2. Aimed(a)' \subseteq Aimed(a)
    BY <1>3 DEF OnlyFrame, Aimed
  <2>3. Cardinality(Aimed(a)') <= Cardinality(Aimed(a))
    BY <2>2, AimedFinite, FS_Subset
  <2> QED
    BY <1>1, <2>1, <2>3, AimedFinite, AimedFiniteNext, ThreadsFinite
<1> QED
  BY <1>2, <1>3

(* The write turns a handler that was aimed at the agent into one more task.   *)
LEMMA AssignRoom ==
  ASSUME TypeInv, RoomInv, NEW h \in Threads, Assign(h), OnlyFrame(h),
         frame'[h].pc \notin Routing
  PROVE  RoomInv'
<1> SUFFICES ASSUME ~raced', NEW b \in Agents
             PROVE  active'[b] + Cardinality(Aimed(b)') <= Concurrency[b] + Cardinality(Threads) - 1
  BY DEF RoomInv, RoomLeft
<1>1. frame[h].agent \in Agents /\ frame[h].pc = "write"
  BY DEF TypeInv, FramesFit, FrameFits, Assign, At
<1>2. PICK a \in Agents : a = frame[h].agent
  BY <1>1
<1>3. active[a] = frame[h].seen /\ ~raced
  BY <1>2 DEF Assign
<1>4. active'[b] \in {active[b], IF a = b THEN active[b] + 1 ELSE active[b]}
  BY <1>2, <1>3 DEF Assign, store, TypeInv, TypeOK
<1>5. active[b] + Cardinality(Aimed(b)) <= Concurrency[b] + Cardinality(Threads) - 1
  BY <1>3 DEF RoomInv, RoomLeft
<1>6. active[b] \in Nat /\ Concurrency[b] \in Nat
  BY AgentsAssumption DEF TypeInv, TypeOK
<1>7. Aimed(b)' \subseteq Aimed(b) \ {h}
  BY DEF OnlyFrame, Aimed, Routing
<1>8. CASE a = b
  <2>1. h \in Aimed(b)
    BY <1>1, <1>2, <1>8 DEF Aimed
  <2>2. /\ IsFiniteSet(Aimed(b) \ {h})
        /\ Cardinality(Aimed(b) \ {h}) = Cardinality(Aimed(b)) - 1
    BY <2>1, AimedFinite, FS_RemoveElement
  <2>3. Cardinality(Aimed(b)') <= Cardinality(Aimed(b) \ {h})
    BY <1>7, <2>2, FS_Subset
  <2> QED
    BY <1>4, <1>5, <1>6, <2>2, <2>3, AimedFinite, AimedFiniteNext, ThreadsFinite
<1>9. CASE a # b
  <2>1. Aimed(b)' \subseteq Aimed(b)
    BY <1>7
  <2>2. Cardinality(Aimed(b)') <= Cardinality(Aimed(b))
    BY <2>1, AimedFinite, FS_Subset
  <2> QED
    BY <1>4, <1>5, <1>6, <1>9, <2>2, AimedFinite, AimedFiniteNext, ThreadsFinite
<1> QED
  BY <1>8, <1>9

(* Giving a task back makes room.                                             *)
LEMMA ReleaseRoom ==
  ASSUME TypeInv, RoomInv, NEW h \in Workers, Release(h)
  PROVE  RoomInv'
<1> SUFFICES ASSUME ~raced', NEW b \in Agents
             PROVE  active'[b] + Cardinality(Aimed(b)') <= Concurrency[b] + Cardinality(Threads) - 1
  BY DEF RoomInv, RoomLeft
<1>0. h \in Threads /\ frame[h] \in Frame /\ frame[h].pc = "release" /\ frame[h].agent \in Agents
  BY FrameIsRecord DEF TypeInv, FramesFit, FrameFits, Release, At
<1>1. PICK a \in Agents : a = frame[h].agent
  BY <1>0
<1>2. active[a] = frame[h].seen /\ ~raced
  BY <1>1 DEF Release
<1>3. active'[b] \in {active[b], IF a = b THEN active[b] - 1 ELSE active[b]}
  BY <1>1, <1>2 DEF Release, TypeInv, TypeOK
<1>4. active[b] + Cardinality(Aimed(b)) <= Concurrency[b] + Cardinality(Threads) - 1
  BY <1>2 DEF RoomInv, RoomLeft
<1>5. active[b] \in Nat /\ Concurrency[b] \in Nat
  BY AgentsAssumption DEF TypeInv, TypeOK
<1>6. OnlyFrame(h) /\ frame'[h].pc \in {"none", "set_idle"}
  <2>1. CASE Done(h)
    <3>1. OnlyFrame(h) /\ frame'[h] = Idle
      BY <2>1, OwnFrame DEF Done
    <3> QED
      BY <3>1 DEF Idle
  <2>2. CASE frame' = [frame EXCEPT ![h].pc = "set_idle"]
    BY <1>0, <2>2 DEF TypeInv, TypeOK, OnlyFrame, Frame
  <2> QED
    BY <2>1, <2>2 DEF Release
<1>7. Aimed(b)' \subseteq Aimed(b)
  BY <1>6 DEF OnlyFrame, Aimed
<1>8. Cardinality(Aimed(b)') <= Cardinality(Aimed(b))
  BY <1>7, AimedFinite, FS_Subset
<1> QED
  BY <1>3, <1>4, <1>5, <1>8, AimedFinite, AimedFiniteNext, ThreadsFinite

(* A thread that is not routing is aimed at nobody; the choice and the read    *)
(* are aimed at no agent the filter has not kept.                            *)
LEMMA NotRoutingUnaimed ==
  ASSUME NEW h \in Threads, OnlyFrame(h), frame'[h].pc \notin Routing,
         UNCHANGED active, raced => raced'
  PROVE  Unaimed(h)
  BY DEF Unaimed, Aimed, Routing

LEMMA RouteRoom ==
  ASSUME TypeInv, RoomInv, NEW h \in Threads, Select(h) \/ ReadLoad(h)
  PROVE  RoomInv'
<1>1. /\ frame'[h].pc \in {"read", "write"}
      /\ \/ frame[h].pc = "select" /\ frame'[h].agent \in frame[h].among
         \/ frame[h].pc = "read" /\ frame'[h].agent = frame[h].agent
      /\ OnlyFrame(h)
      /\ UNCHANGED <<active, raced>>
  <2>1. frame[h] \in Frame /\ frame \in [Threads -> Frame]
    BY DEF TypeInv, TypeOK
  <2>2. frame'[h].pc \in {"read", "write"}
    <3>1. CASE Select(h)
      <4>1. PICK a \in Best(frame[h].among) :
               frame' = [frame EXCEPT ![h].pc = "read", ![h].agent = a, ![h].among = {}]
        BY <3>1 DEF Select
      <4> QED
        BY <2>1, <4>1 DEF Frame
    <3>2. CASE ReadLoad(h)
      BY <2>1, <3>2 DEF ReadLoad, Frame
    <3> QED
      BY <3>1, <3>2
  <2>3. OnlyFrame(h) /\ UNCHANGED <<active, raced>>
    BY RouteFrame DEF OnlyFrame, store, history
  <2> QED
    BY <2>2, <2>3, RouteFrame
<1>2. Unaimed(h)
  BY <1>1 DEF Unaimed, Aimed
<1> QED
  BY <1>2, UnaimedRoom

(* What the event loop does.                                                 *)
LEMMA LoopRoom ==
  ASSUME TypeInv, RoomInv, EventLoop PROVE RoomInv'
<1>1. Loop \in Threads /\ frame \in [Threads -> Frame]
  BY DEF Threads, TypeInv, TypeOK
<1>2. ASSUME NEW t \in Tasks, AttemptRouted(t) PROVE RoomInv'
  <2> DEFINE i == [Idle EXCEPT !.op = "submit"]
  <2>1. frame' = [frame EXCEPT ![Loop] = Routed(i, t)] /\ UNCHANGED <<active, raced>>
    BY <1>2 DEF AttemptRouted, Attempt, store, history
  <2>2. FrameFits(i)
    BY FS_EmptySet DEF FrameFits, Frame, Idle, Routing
  <2> HIDE DEF i
  <2>3. frame'[Loop].pc = "select" /\ frame'[Loop].among = Candidates(t) /\ OnlyFrame(Loop)
    BY <1>1, <2>1, <2>2, RoutedFits DEF OnlyFrame
  <2> QED
    BY <1>1, <2>1, <2>3, RoutedRoom
<1>3. ASSUME NEW t \in Tasks, AttemptQueued(t) PROVE RoomInv'
  <2>1. UNCHANGED <<frame, active, raced>>
    BY <1>3 DEF AttemptQueued, Attempt, store, history
  <2> QED
    BY <1>1, <2>1, UnaimedRoom DEF Unaimed, OnlyFrame, Aimed
<1>4. CASE SubmitDispatched
  <2>1. frame[Loop].task \in Tasks /\ Assign(Loop)
    BY <1>1, <1>4 DEF SubmitDispatched, Assign, At, TypeInv, FramesFit, FrameFits, Routing
  <2>2. frame'[Loop] = Idle /\ OnlyFrame(Loop)
    BY <1>1, <1>4, <2>1, IdleFits, AssignedFits DEF SubmitDispatched, OnlyFrame
  <2> QED
    BY <1>1, <2>1, <2>2, AssignRoom DEF Idle, Routing
<1>5. CASE Select(Loop) \/ ReadLoad(Loop)
  BY <1>1, <1>5, RouteRoom
<1> QED
  BY <1>2, <1>3, <1>4, <1>5 DEF EventLoop

LEMMA ItemDispatchedRoom ==
  ASSUME TypeInv, RoomInv, NEW h \in Workers, ItemDispatched(h) PROVE RoomInv'
<1> DEFINE f == [frame[h] EXCEPT !.pc = "next", !.task = None, !.agent = None, !.seen = 0]
<1>1. h \in Threads /\ frame[h] \in Frame /\ FrameFits(frame[h]) /\ frame[h].task \in Tasks
  BY FrameIsRecord DEF ItemDispatched, Assign, At, TypeInv, FramesFit, FrameFits, Routing
<1>2. Assigned(h, f) /\ Assign(h) /\ frame[h].op \in {"dispatch", "retry", "failover"}
  BY DEF ItemDispatched
<1>3. f.pc = "next" /\ f \in Frame /\ f.op = frame[h].op /\ f.kept = frame[h].kept
  BY <1>1 DEF Frame
<1> HIDE DEF f
<1>4. FrameFits(f) /\ IsFiniteSet(f.kept) /\ h # Loop
  BY <1>1, <1>2, <1>3, ThreadsAssumption DEF FrameFits, Routing, TypeInv, KeptFinite
<1>5. OnlyFrame(h) /\ frame'[h] = f
  BY <1>1, <1>2, <1>3, <1>4, LoopNotVisiting, AssignedFits DEF OnlyFrame, TypeInv
<1> QED
  BY <1>1, <1>2, <1>3, <1>5, AssignRoom DEF Routing

LEMMA ItemRoutedRoom ==
  ASSUME TypeInv, RoomInv, NEW h \in Workers, NEW t \in Tasks, ItemRouted(h, t) PROVE RoomInv'
<1> DEFINE i == [frame[h] EXCEPT !.todo = @ \ {t}]
<1>1. h \in Threads /\ FrameFits(frame[h]) /\ frame[h] \in Frame
  BY FrameIsRecord DEF TypeInv, FramesFit
<1>2. /\ frame' = [frame EXCEPT ![h] = Routed(i, t)] /\ frame[h].pc = "next"
      /\ UNCHANGED <<active, raced>>
  BY DEF ItemRouted, NextItem, At, store, history
<1>3. i \in Frame /\ i.pc = "next" /\ i.op = frame[h].op
  BY <1>1, <1>2 DEF Frame
<1> HIDE DEF i
<1>4. FrameFits(i)
  BY <1>1, <1>2, <1>3 DEF FrameFits, Routing
<1>5. OnlyFrame(h) /\ frame'[h] = Routed(i, t)
  BY <1>2, OwnFrame
<1>6. frame'[h].pc = "select" /\ frame'[h].among = Candidates(t)
  BY <1>4, <1>5, RoutedFits
<1> QED
  BY <1>1, <1>2, <1>5, <1>6, RoutedRoom

(* A pool thread's other steps begin a request, or end up somewhere else.      *)
LEMMA QuietRoom ==
  ASSUME TypeInv, RoomInv, NEW h \in Threads, Ordinary(h), frame'[h].pc \notin Routing
  PROVE  RoomInv'
  BY NotRoutingUnaimed, UnaimedRoom DEF Ordinary

LEMMA BegunPlace ==
  ASSUME NEW f, NEW h \in Workers, Begin(h, f), TypeInv, f.pc \notin Routing
  PROVE  frame'[h].pc \notin Routing /\ OnlyFrame(h)
  BY OwnFrame DEF Begin

LEMMA RequestRoom ==
  ASSUME TypeInv, RoomInv, NEW h \in Workers, Request(h) PROVE RoomInv'
<1>0. h \in Threads
  BY DEF Threads
<1>1. UNCHANGED <<active, raced>>
  BY DEF Request, BeginDispatch, BeginRetry, BeginReport, Report, BeginFailover, store
<1>2. PICK f : Begin(h, f) /\ f.pc \notin Routing
  <2>1. CASE BeginDispatch(h)
    <3>1. [Idle EXCEPT !.op = "dispatch", !.pc = "next", !.todo = pending,
                       !.size = Cardinality(pending)].pc = "next"
      BY DEF Idle
    <3> QED
      BY <2>1, <3>1 DEF BeginDispatch, Routing
  <2>2. CASE BeginRetry(h)
    <3>1. [Idle EXCEPT !.op = "retry", !.pc = "next", !.todo = escalated,
                       !.size = Cardinality(escalated)].pc = "next"
      BY DEF Idle
    <3> QED
      BY <2>2, <3>1 DEF BeginRetry, Routing
  <2>3. ASSUME NEW t \in Tasks, NEW op \in {"complete", "fail"}, BeginReport(h, t, op)
        PROVE  \E f : Begin(h, f) /\ f.pc \notin Routing
    <3> DEFINE a == assigned[t]
               r == [Idle EXCEPT !.op = op, !.pc = "release", !.agent = a, !.seen = active[a]]
               f == IF status[a] \in Known /\ active[a] > 0 THEN r ELSE Idle
    <3>1. Begin(h, f)
      BY <2>3 DEF BeginReport, Report
    <3>2. r.pc = "release" /\ Idle.pc = "none"
      BY DEF Idle
    <3> HIDE DEF r
    <3>3. f.pc \notin Routing
      BY <3>2 DEF Routing
    <3> QED
      BY <3>1, <3>3
  <2>4. ASSUME NEW n \in Nodes, BeginFailover(h, n)
        PROVE  \E f : Begin(h, f) /\ f.pc \notin Routing
    <3>1. [Idle EXCEPT !.op = "failover", !.pc = "visit", !.node = n,
                       !.todo = {t \in Tasks : taskStatus[t] # "none"}].pc = "visit"
      BY DEF Idle
    <3> QED
      BY <2>4, <3>1 DEF BeginFailover, Routing
  <2> QED
    BY <2>1, <2>2, <2>3, <2>4 DEF Request
<1> QED
  BY <1>0, <1>1, <1>2, BegunPlace, NotRoutingUnaimed, UnaimedRoom

LEMMA StepRoom ==
  ASSUME TypeInv, RoomInv, NEW h \in Workers, Step(h) PROVE RoomInv'
<1>0. h \in Threads /\ frame[h] \in Frame /\ frame \in [Threads -> Frame]
  BY FrameIsRecord DEF TypeInv, TypeOK
<1>1. ASSUME NEW t \in Tasks, ItemRouted(h, t) PROVE RoomInv'
  BY <1>1, ItemRoutedRoom
<1>2. CASE ItemDispatched(h)
  BY <1>2, ItemDispatchedRoom
<1>3. CASE Select(h) \/ ReadLoad(h)
  BY <1>0, <1>3, RouteRoom
<1>4. CASE Release(h)
  BY <1>4, ReleaseRoom
<1>5. ASSUME NEW t \in Tasks, ItemKept(h, t) PROVE RoomInv'
  <2>1. Ordinary(h) /\ frame[h].pc = "next"
    BY <1>5, ItemLoad DEF ItemKept, NextItem, At
  <2>2. frame'[h].pc = "next"
    BY <1>0, <1>5, <2>1 DEF ItemKept, Frame
  <2> QED
    BY <1>0, <2>1, <2>2, QuietRoom DEF Routing
<1>6. CASE IterationRaises(h) \/ Replace(h)
  <2>1. Ordinary(h)
    BY <1>6, IterationEndLoad
  <2>2. frame'[h].pc = "none"
    BY <1>0, <1>6 DEF IterationRaises, Replace, Detach, Done, Idle
  <2> QED
    BY <1>0, <2>1, <2>2, QuietRoom DEF Routing
<1>7. CASE SetIdle(h) \/ SetOffline(h)
  <2>1. Ordinary(h)
    BY <1>7, StatusStepLoad
  <2>2. frame'[h].pc \in {"none", "visit"}
    BY <1>0, <1>7 DEF SetIdle, SetOffline, Done, Idle, Frame
  <2> QED
    BY <1>0, <2>1, <2>2, QuietRoom DEF Routing
<1>8. CASE (\E t \in Tasks : Requeue(h, t) \/ \E a \in Agents : RequeueOld(h, t, a)) \/ DispatchRequeued(h)
  <2>1. Ordinary(h)
    BY <1>8, FailoverLoad
  <2>2. frame'[h].pc \in {"set_offline", "next"}
    <3>1. ASSUME NEW t \in Tasks, Requeue(h, t) PROVE frame'[h].pc = "set_offline"
      BY <1>0, <3>1 DEF Requeue, Frame
    <3>2. ASSUME NEW t \in Tasks, NEW a \in Agents, RequeueOld(h, t, a)
          PROVE  frame'[h].pc = "set_offline"
      BY <1>0, <3>2 DEF RequeueOld, Frame
    <3>3. CASE DispatchRequeued(h)
      BY <1>0, <3>3 DEF DispatchRequeued, Frame
    <3> QED
      BY <1>8, <3>1, <3>2, <3>3
  <2> QED
    BY <1>0, <2>1, <2>2, QuietRoom DEF Routing
<1> QED
  BY <1>1, <1>2, <1>3, <1>4, <1>5, <1>6, <1>7, <1>8 DEF Step

LEMMA StepRoomInv == TypeInv /\ RoomInv /\ [Next]_vars => RoomInv'
<1> SUFFICES ASSUME TypeInv, RoomInv, [Next]_vars PROVE RoomInv'
  OBVIOUS
<1>1. CASE EventLoop
  BY <1>1, LoopRoom
<1>2. ASSUME NEW h \in Workers, Request(h) \/ Step(h) PROVE RoomInv'
  BY <1>2, RequestRoom, StepRoom
<1>3. CASE \/ \E a \in Agents : Register(a) \/ Sweep(a) \/ Deregister(a)
           \/ \E n \in Nodes : MarkNodeOffline(n)
           \/ UNCHANGED vars
  <2>1. UNCHANGED <<frame, active, raced>>
    BY <1>3 DEF Register, Sweep, Deregister, MarkNodeOffline, history, vars
  <2>2. Loop \in Threads
    BY DEF Threads
  <2> QED
    BY <2>1, <2>2, UnaimedRoom DEF Unaimed, OnlyFrame, Aimed
<1> QED
  BY <1>1, <1>2, <1>3 DEF Next

-------------------------------------------------------------------------------
(* The state has its type in every reachable state.                         *)
THEOREM RegistryTypeCorrect == Spec => []TypeOK
<1>1. TypeInv => TypeOK
  BY DEF TypeInv
<1> QED
  BY <1>1, InitTypeInv, StepTypeInv, PTL DEF Spec

(* registry/README.md:142: an agent that the filter of dispatch.py:135 found     *)
(* with room gets at most one task too many for each other thread, whatever    *)
(* handlers interleave between the filter, the choice, the read of the load    *)
(* and the write of it, as long as no update of the load is lost.              *)
THEOREM RegistryBoundsOverrun == Spec => []OverrunIsBounded
<1>1. Init => TypeInv /\ RoomInv
  BY InitTypeInv, InitRoomInv
<1>2. TypeInv /\ RoomInv /\ [Next]_vars => TypeInv' /\ RoomInv'
  BY StepTypeInv, StepRoomInv
<1>3. TypeInv /\ RoomInv => OverrunIsBounded
  <2> SUFFICES ASSUME TypeInv, ~raced, RoomLeft, NEW a \in Agents
               PROVE  active[a] <= Concurrency[a] + Cardinality(Threads) - 1
    BY DEF RoomInv, OverrunIsBounded
  <2>1. Cardinality(Aimed(a)) \in Nat /\ Cardinality(Threads) \in Nat
    BY ThreadsFinite, AimedFinite, FS_CardinalityType
  <2>2. active[a] \in Nat /\ Concurrency[a] \in Nat
    BY AgentsAssumption DEF TypeInv, TypeOK
  <2> QED
    BY <2>1, <2>2 DEF RoomLeft
<1> QED
  BY <1>1, <1>2, <1>3, PTL DEF Spec

(* No task that nobody has reported on is forgotten, through failovers,       *)
(* escalations and handlers that raise half-way, unless two requests that    *)
(* rewrite the queue overlapped.                                             *)
THEOREM RegistryKeepsTasks == Spec => []TasksKept
<1>1. Init => IInv
  BY InitTypeInv, InitQueueInv DEF IInv
<1>2. IInv /\ [Next]_vars => IInv'
  BY StepTypeInv, StepQueueInv DEF IInv
<1>3. IInv => TasksKept
  BY DEF IInv, QueueInv, QueueInOrder, InPlace, Settled, TasksKept, TypeInv, TypeOK
<1> QED
  BY <1>1, <1>2, <1>3, PTL DEF Spec

(* registry/README.md:142: unless a load was written from an outdated read or  *)
(* a task reported twice, active_tasks counts at least the tasks dispatched to *)
(* an agent of dispatch.py, whatever is dispatched twice, failed over or late. *)
THEOREM RegistryCountsLoad == Spec => []LoadIsCounted
<1>1. Init => TypeInv /\ LoadInv
  BY InitTypeInv, InitLoadInv
<1>2. TypeInv /\ LoadInv /\ [Next]_vars => TypeInv' /\ LoadInv'
  BY StepTypeInv, StepLoadInv
<1>3. TypeInv /\ LoadInv => LoadIsCounted
  <2> SUFFICES ASSUME TypeInv, LoadInv, SlotsCovered, NEW a \in Agents, status[a] \in Known
               PROVE  Cardinality(Load(a)) <= active[a]
    BY DEF LoadInv, LoadIsCounted
  <2>1. IsFiniteSet(Slots(a)) /\ IsFiniteSet(Returning(a)) /\ active[a] \in Nat
    BY DEF LoadInv, SlotsFinite, TypeInv, TypeOK
  <2>2. Load(a) \subseteq Slots(a)
    BY DEF Load, Slots
  <2>3. /\ Cardinality(Load(a)) <= Cardinality(Slots(a)) /\ IsFiniteSet(Load(a))
    BY <2>1, <2>2, FS_Subset
  <2>4. /\ Cardinality(Load(a)) \in Nat /\ Cardinality(Slots(a)) \in Nat
        /\ Cardinality(Returning(a)) \in Nat
    BY <2>1, <2>3, FS_CardinalityType
  <2> QED
    BY <2>1, <2>3, <2>4 DEF SlotsCovered
<1> QED
  BY <1>1, <1>2, <1>3, PTL DEF Spec
===============================================================================
