------------------------------ MODULE GossipSync ------------------------------
(***************************************************************************)
(* The gossip between registry nodes (registry/sync.py, store.py, heartbeat.py *)
(* and the endpoints of server.py that the peers and the clients call).  Every *)
(* node runs a loop of cycles: pull from every peer, then push its own agents  *)
(* to the peers it can reach; /sync/force runs one more cycle beside the loop.  *)
(*                                                                          *)
(* What the code makes of the messages matters more than their plan: a pull     *)
(* answers without registered_at, so every agent in it is skipped and a pull    *)
(* only tells that the peer lives; a pushed agent that is new is registered,    *)
(* one that should override makes update_agent raise, and the rest of the push  *)
(* is dropped.  notify_local_mutation is called from the endpoints' worker       *)
(* threads, where there is no event loop, and returns.  The logical clock, which *)
(* nothing but a status reads, is left out.                                   *)
(***************************************************************************)
EXTENDS Integers, FiniteSets, Functions

CONSTANTS
    Nodes,
    Agents,        \* the ids of the agents registered one day
    Home,          \* the node each agent is registered at, as its node_id says
    Cases          \* bound: who is whose peer, which nodes run their loop, which agents they
                   \* know, what may happen and how often (a user acts, a message is lost, a node dies)

ASSUME HomeAssumption == Home \in [Agents -> Nodes]
ASSUME CasesAssumption == \A c \in Cases : c.peers \in [Nodes -> SUBSET Nodes]

None == <<>>

(* The function g, overlaid with f; the function of one entry.                      *)
Overlay(f, g) == [x \in DOMAIN f \cup DOMAIN g |-> IF x \in DOMAIN f THEN f[x] ELSE g[x]]
Entry(x, value) == [y \in {x} |-> value]

VARIABLES
    given,         \* the case at hand (never changes)
    up,            \* the nodes that run
    store,         \* the agents each node knows, kept over a restart
    peers,         \* the peers each node knows, with their failures; forgotten by a restart
    cycle,         \* the cycles under way at each node
    late,          \* the pushes that arrive after their sender gave them up
    born,          \* the agents registered so far
    now,           \* the time, counted in heartbeats
    misses,        \* (ghost) the requests lost since a node's last good pull from another
    accused,       \* (ghost) the nodes of which some node missed three answers in a row
    replaced,      \* (ghost) the nodes whose peer object was put out of some table of peers
                   \* while a pull through it was under way
    events

nodeVars == <<up, store, peers, cycle>>
ghosts == <<misses, accused, replaced>>
gossipVars == <<given, nodeVars, late, born, now, ghosts, events>>

Cycles == {"loop", "force"}
Resting == [at |-> "rest", on |-> "none", left |-> {}, size |-> 0,
            orphan |-> None, held |-> {}, gone |-> None]
NewPeer == [failures |-> 0, reachable |-> TRUE]

GossipInit ==
    /\ given \in Cases
    /\ up = Nodes
    /\ store = [n \in Nodes |-> [a \in given.known[n] |-> [status |-> "idle", beat |-> 1]]]
    /\ peers = [n \in Nodes |-> [m \in given.peers[n] |-> NewPeer]]
    /\ cycle = [n \in Nodes |-> [k \in Cycles |-> Resting]]
    /\ late = {} /\ born = UNION {given.known[n] : n \in Nodes} /\ now = 1
    /\ misses = [n \in Nodes |-> [m \in Nodes |-> 0]] /\ accused = {} /\ replaced = {}
    /\ events = 0

Event == events < given.events /\ events' = events + 1
Uneventful == UNCHANGED events

-------------------------------------------------------------------------------
(* The clients of a node: registration, heartbeats, deregistration, and the       *)
(* sweep of heartbeat.py, which refreshes the heartbeat of what it marks.         *)
Register(a) ==
    /\ Home[a] \in up /\ a \notin born /\ "register" \in given.kinds
    /\ born' = born \cup {a} /\ now' = now + 1
    /\ store' = [store EXCEPT ![Home[a]] = Overlay(Entry(a, [status |-> "idle", beat |-> now']), @)]
    /\ Uneventful
    /\ UNCHANGED <<given, up, peers, cycle, late, ghosts>>

Heartbeat(n, a) ==
    /\ n \in up /\ a \in DOMAIN store[n] /\ "heartbeat" \in given.kinds
    /\ Event /\ now' = now + 1
    /\ store' = [store EXCEPT ![n][a].beat = now']
    /\ UNCHANGED <<given, up, peers, cycle, late, born, ghosts>>

(* A cycle under way holds the agents it listed, not copies of them: it pushes     *)
(* what they have become, and a removed one as it was last.                     *)
LetGo(c, a, agent) ==
    IF a \notin c.held THEN c
    ELSE [c EXCEPT !.held = @ \ {a}, !.gone = Overlay(Entry(a, agent), @)]

Remove(n, a) ==
    /\ store' = [store EXCEPT ![n] = Restrict(@, DOMAIN @ \ {a})]
    /\ cycle' = [cycle EXCEPT ![n] = [k \in Cycles |-> LetGo(cycle[n][k], a, store[n][a])]]

Deregister(n, a) ==
    /\ n \in up /\ a \in DOMAIN store[n] /\ "deregister" \in given.kinds
    /\ Event /\ Remove(n, a)
    /\ UNCHANGED <<given, up, peers, late, born, now, ghosts>>

Sweep(n, a) ==
    /\ n \in up /\ a \in DOMAIN store[n] /\ "sweep" \in given.kinds
    /\ store[n][a].beat < now /\ Event /\ now' = now + 1
    /\ IF store[n][a].status = "offline" THEN Remove(n, a)
       ELSE /\ store' = [store EXCEPT ![n][a] = [status |-> "offline", beat |-> now']]
            /\ UNCHANGED cycle
    /\ UNCHANGED <<given, up, peers, late, born, ghosts>>

-------------------------------------------------------------------------------
(* A node that dies forgets its peers and its cycles; the store is on file.      *)
Die(n) ==
    /\ n \in up /\ n \in given.mortal /\ Event
    /\ up' = up \ {n}
    /\ peers' = [peers EXCEPT ![n] = None]
    /\ cycle' = [cycle EXCEPT ![n] = [k \in Cycles |-> Resting]]
    /\ UNCHANGED <<given, store, late, born, now, ghosts>>

Restart(n) ==
    /\ n \notin up /\ Event
    /\ up' = up \cup {n}
    /\ UNCHANGED <<given, store, peers, cycle, late, born, now, ghosts>>

(* A cycle awaiting an answer keeps the peer object it asked, in the dictionary or   *)
(* not; an iteration goes on over what the dictionary has become.                *)
Orphaned(n, m, left) ==
    [k \in Cycles |-> LET c == cycle[n][k] IN
       IF c.at = "rest" THEN c
       ELSE [c EXCEPT !.left = left[k],
                      !.orphan = IF c.on = m /\ c.orphan = None /\ m \in DOMAIN peers[n]
                                   THEN <<peers[n][m]>> ELSE @]]

PutOut(n, m) ==
    replaced' = IF \E k \in Cycles : cycle[n][k].at = "pull" /\ cycle[n][k].on = m
                THEN replaced \cup {m} ELSE replaced

AddPeer(n, m) ==
    /\ n \in up /\ m # n /\ "peers" \in given.kinds /\ Event
    /\ peers' = [peers EXCEPT ![n] = Overlay(Entry(m, NewPeer), @)]
    /\ cycle' = [cycle EXCEPT ![n] = Orphaned(n, m, [k \in Cycles |->
                   cycle[n][k].left \cup ({m} \ DOMAIN peers[n])])]
    /\ PutOut(n, m)
    /\ UNCHANGED <<given, up, store, late, born, now, misses, accused>>

RemovePeer(n, m) ==
    /\ n \in up /\ m \in DOMAIN peers[n] /\ "peers" \in given.kinds /\ Event
    /\ peers' = [peers EXCEPT ![n] = Restrict(@, DOMAIN @ \ {m})]
    /\ cycle' = [cycle EXCEPT ![n] = Orphaned(n, m, [k \in Cycles |-> cycle[n][k].left \ {m}])]
    /\ PutOut(n, m)
    /\ UNCHANGED <<given, up, store, late, born, now, misses, accused>>

-------------------------------------------------------------------------------
(* sync_once: a pass of pulls, then a pass of pushes to the reachable peers.  The    *)
(* cycle waits for one peer at a time; then the iteration goes on, or raises because  *)
(* the dictionary has another size, which ends the cycle.                        *)
PushPass(c, known) ==
    LET next == {m \in c.left : known[m].reachable}
    IN  IF next = {} THEN {Resting}
        ELSE {[c EXCEPT !.on = m, !.left = @ \ {m}, !.orphan = None] : m \in next}

PullPass(c, known) ==
    IF c.left = {}
      THEN PushPass([c EXCEPT !.at = "push", !.left = DOMAIN known,
                              !.size = Cardinality(DOMAIN known)], known)
    ELSE {[c EXCEPT !.on = m, !.left = @ \ {m}, !.orphan = None] : m \in c.left}

GoesOn(c, known) ==
    CASE Cardinality(DOMAIN known) # c.size -> {Resting}
      [] c.at = "pull" -> PullPass(c, known)
      [] OTHER -> PushPass(c, known)

Begin(n, k) ==
    /\ n \in up \cap given.loops /\ cycle[n][k].at = "rest"
    /\ IF k = "loop" THEN Uneventful ELSE "force" \in given.kinds /\ Event
    /\ \E c \in PullPass([Resting EXCEPT !.at = "pull", !.left = DOMAIN peers[n],
                                         !.size = Cardinality(DOMAIN peers[n]),
                                         !.held = DOMAIN store[n]], peers[n]) :
         cycle' = [cycle EXCEPT ![n][k] = c]
    /\ UNCHANGED <<given, up, store, peers, late, born, now, ghosts>>

Asked(c, known) == IF c.orphan = None THEN known[c.on] ELSE c.orphan[1]
PeerBecomes(n, k, peer) ==
    /\ peers' = IF cycle[n][k].orphan = None THEN [peers EXCEPT ![n][cycle[n][k].on] = peer]
                ELSE peers
    /\ \E c \in GoesOn(cycle[n][k], peers'[n]) : cycle' = [cycle EXCEPT ![n][k] = c]

(* Defect: the failures are counted since the start, not in a row.              *)
AnswerKeepsFailures(n, k) ==
    /\ cycle[n][k].at = "pull" /\ cycle[n][k].on \in up /\ Uneventful
    /\ PeerBecomes(n, k, Asked(cycle[n][k], peers[n]))
    /\ misses' = [misses EXCEPT ![n][cycle[n][k].on] = 0]
    /\ UNCHANGED <<given, up, store, late, born, now, accused, replaced>>

PullAnswered(n, k) ==
    /\ cycle[n][k].at = "pull" /\ cycle[n][k].on \in up /\ Uneventful
    /\ PeerBecomes(n, k, NewPeer)
    /\ misses' = [misses EXCEPT ![n][cycle[n][k].on] = 0]
    /\ UNCHANGED <<given, up, store, late, born, now, accused, replaced>>

(* mark_node_agents_offline: whatever their status.                            *)
Marked(agents, m) ==
    [a \in DOMAIN agents |-> IF Home[a] = m THEN [agents[a] EXCEPT !.status = "remote_offline"]
                             ELSE agents[a]]

Lost(n, m) ==
    /\ IF m \in up THEN Event ELSE Uneventful
    /\ misses' = [misses EXCEPT ![n][m] = IF @ = 3 THEN 3 ELSE @ + 1]
    /\ accused' = IF misses[n][m] >= 2 THEN accused \cup {m} ELSE accused

(* Defect: the agents are marked at the third failure only, not at each from then.  *)
PullFailsMarkingOnce(n, k) ==
    /\ cycle[n][k].at = "pull"
    /\ LET peer     == Asked(cycle[n][k], peers[n])
           failures == IF peer.failures = 3 THEN 3 ELSE peer.failures + 1
       IN  /\ Lost(n, cycle[n][k].on)
           /\ PeerBecomes(n, k, [failures |-> failures, reachable |-> failures < 3])
           /\ store' = IF peer.failures = 2 THEN [store EXCEPT ![n] = Marked(@, cycle[n][k].on)]
                       ELSE store
    /\ UNCHANGED <<given, up, late, born, now, replaced>>

PullFails(n, k) ==
    /\ cycle[n][k].at = "pull"
    /\ LET m        == cycle[n][k].on
           peer     == Asked(cycle[n][k], peers[n])
           failures == peer.failures + 1
       IN  /\ Lost(n, m)
           /\ IF failures < 3
                THEN PeerBecomes(n, k, [peer EXCEPT !.failures = failures]) /\ UNCHANGED store
              ELSE /\ PeerBecomes(n, k, [failures |-> 3, reachable |-> FALSE])
                   /\ store' = [store EXCEPT ![n] = Marked(@, m)]
    /\ UNCHANGED <<given, up, late, born, now, replaced>>

(* _should_override, apply_delta: the agents are merged in the order of the       *)
(* sender's dictionary, up to the first that overrides.                        *)
Overrides(mine, theirs) ==
    \/ theirs.beat > mine.beat
    \/ theirs.beat = mine.beat /\ mine.status = "offline" /\ theirs.status # "offline"

Merges(mine, theirs) ==
    LET unknown    == DOMAIN theirs \ DOMAIN mine
        overriding == {a \in DOMAIN theirs \cap DOMAIN mine : Overrides(mine[a], theirs[a])}
    IN  {Overlay(mine, Restrict(theirs, taken)) :
           taken \in IF overriding = {} THEN {unknown} ELSE SUBSET unknown}

Pushed(n, k) == Overlay(Restrict(store[n], cycle[n][k].held), cycle[n][k].gone)
PushEnds(n, k) ==
    \E c \in GoesOn(cycle[n][k], peers[n]) : cycle' = [cycle EXCEPT ![n][k] = c]

Push(n, k) ==
    /\ cycle[n][k].at = "push" /\ cycle[n][k].on \in up /\ Uneventful
    /\ \E merged \in Merges(store[cycle[n][k].on], Pushed(n, k)) :
         store' = [store EXCEPT ![cycle[n][k].on] = merged]
    /\ PushEnds(n, k)
    /\ UNCHANGED <<given, up, peers, late, born, now, ghosts>>

PushFails(n, k) ==
    /\ cycle[n][k].at = "push" /\ PushEnds(n, k)
    /\ IF cycle[n][k].on \notin up THEN Uneventful /\ UNCHANGED late
       ELSE Event /\ late' \in {late, late \cup {[to |-> cycle[n][k].on, agents |-> Pushed(n, k)]}}
    /\ UNCHANGED <<given, up, store, peers, born, now, ghosts>>

ArrivesLate(delta) ==
    /\ delta \in late /\ Uneventful
    /\ late' = late \ {delta}
    /\ IF delta.to \in up
         THEN \E merged \in Merges(store[delta.to], delta.agents) :
                store' = [store EXCEPT ![delta.to] = merged]
       ELSE UNCHANGED store
    /\ UNCHANGED <<given, up, peers, cycle, born, now, ghosts>>

Step(n, k) ==
    Begin(n, k) \/ PullAnswered(n, k) \/ PullFails(n, k) \/ Push(n, k) \/ PushFails(n, k)

GossipNext ==
    \/ \E n \in Nodes, k \in Cycles : Step(n, k)
    \/ \E n \in Nodes : Die(n) \/ Restart(n)
    \/ \E n, m \in Nodes : AddPeer(n, m) \/ RemovePeer(n, m)
    \/ \E a \in Agents : Register(a)
    \/ \E n \in Nodes, a \in Agents : Heartbeat(n, a) \/ Deregister(n, a) \/ Sweep(n, a)
    \/ \E delta \in late : ArrivesLate(delta)

(* The event loop goes on: every request has a timeout, so a pass over the peers   *)
(* ends, and the loop begins its next cycle.  Late pushes may never arrive.       *)
Fairness == \A n \in Nodes : WF_gossipVars(Step(n, "loop")) /\ WF_gossipVars(Step(n, "force"))

GossipSpec == GossipInit /\ [][GossipNext]_gossipVars /\ Fairness

-------------------------------------------------------------------------------

(* An agent is held to be remote_offline, here or where the verdict was pushed to, *)
(* only if its node failed to answer three requests in a row, whatever cycles       *)
(* overlap and whatever a push makes of its peer's errors, or if its peer object     *)
(* was replaced during a pull: then the cycle counts on the old object and the       *)
(* others on the new one, so that an answer counted on one does not end the row of    *)
(* failures on the other (sync_once, mark_node_agents_offline).                    *)
VerdictsAreEarned ==
    \A n \in Nodes : \A a \in DOMAIN store[n] :
        store[n][a].status = "remote_offline" => Home[a] \in accused \cup replaced

(* "Fail closed for agents owned by an unreachable peer node": a node that is gone  *)
(* for good has, in the end, no idle agent at a node that watches it, whatever       *)
(* third nodes and late pushes still tell of them.                              *)
Gone(n, m) == n \in up \cap given.loops /\ m \notin up /\ m \in DOMAIN peers[n]
IdleOf(n, m) == {a \in DOMAIN store[n] : Home[a] = m /\ store[n][a].status = "idle"}

DeadPeersAreMarked ==
    \A n, m \in Nodes : <>[]Gone(n, m) => <>[](IdleOf(n, m) = {})

===============================================================================
