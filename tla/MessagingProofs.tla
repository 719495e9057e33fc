---------------------------- MODULE MessagingProofs ----------------------------
(***************************************************************************)
(* Proofs about the two components that live on messages: BusConsumer, for any    *)
(* number of events, any limit and any number of faults, and GossipSync, for any   *)
(* nodes, agents, homes, tables of peers and any number of events.                *)
(***************************************************************************)
EXTENDS BusConsumer, GossipSync, TLAPS

-------------------------------------------------------------------------------
(* BusConsumer: the table's books are true and repeated puts are explained. *)


(* The inductive invariant, without which neither property is preserved: a row is    *)
(* settled from the daemon's local count and from where it is in its handling.      *)
IInv == TypeOK /\ CountsAreBacked /\ PutsAreOwed /\ BooksAreTrue

(* The initial states satisfy the inductive invariant: no row, no put, no count.    *)
LEMMA InitIInv == Init => IInv
<1>1. SUFFICES ASSUME Init PROVE IInv
  OBVIOUS
<1>2. TypeOK
  BY <1>1, EventsAssumption DEF Init, TypeOK, Stages
<1>3. CountsAreBacked
  BY <1>1 DEF Init, CountsAreBacked, Handling
<1>4. PutsAreOwed
  BY <1>1 DEF Init, PutsAreOwed, Owed
<1>5. BooksAreTrue
  BY <1>1 DEF Init, BooksAreTrue
<1>6. QED
  BY <1>2, <1>3, <1>4, <1>5 DEF IInv

(* Every step of the daemon keeps the types of its table and of its variables.       *)
LEMMA TypeStep == TypeOK /\ CountsAreBacked /\ [Next]_vars => TypeOK'
<1> SUFFICES ASSUME TypeOK, CountsAreBacked, [Next]_vars PROVE TypeOK'
  OBVIOUS
<1> USE EventsAssumption
<1>1. CASE Publish
  BY <1>1 DEF Publish, TypeOK, CountsAreBacked, Handling, rows, books, Stages, Ids
<1>2. CASE Start
  BY <1>2 DEF Start, TypeOK, CountsAreBacked, Handling, rows, books, Stages, Ids
<1>3. CASE Connect
  BY <1>3 DEF Connect, TypeOK, CountsAreBacked, Handling, rows, books, Stages, Ids
<1>4. CASE Disconnect
  BY <1>4 DEF Disconnect, Fault, TypeOK, CountsAreBacked, Handling, rows, books, Stages, Ids
<1>5. CASE Kill
  BY <1>5 DEF Kill, Fault, TypeOK, CountsAreBacked, Handling, rows, books, Stages, Ids
<1>6. CASE PassOver
  BY <1>6 DEF PassOver, Fine, Delivered, TypeOK, CountsAreBacked, Handling, rows, books, Stages, Ids
<1>7. CASE NotUnderstood
  BY <1>7 DEF NotUnderstood, Fine, Delivered, Advance, TypeOK, CountsAreBacked, Handling, rows, books, Stages, Ids
<1>8. CASE Insert
  BY <1>8 DEF Insert, Fine, Delivered, TypeOK, CountsAreBacked, Handling, rows, books, Stages, Ids
<1>9. CASE FindPending
  <2>1. at \in Ids
    BY <1>9 DEF FindPending, Delivered, TypeOK, CountsAreBacked, Ids
  <2>2. stage' \in Stages /\ count' \in Nat /\ at' \in Nat
    BY <1>9, <2>1 DEF FindPending, TypeOK, Stages
  <2>3. QED
    BY <1>9, <2>2 DEF FindPending, Fine, TypeOK, rows, books
<1>10. CASE LookupRefused
  <2>1. at \in Ids
    BY <1>10 DEF LookupRefused, Delivered, TypeOK, CountsAreBacked, Ids
  <2>2. mishaps' \in [Ids -> Nat] /\ faults' \in Nat
    BY <1>10, <2>1 DEF LookupRefused, Mishap, Fault, TypeOK
  <2>3. stage' \in Stages /\ at' \in Nat /\ count' \in Nat
    BY <1>10 DEF LookupRefused, Advance, TypeOK, Stages
  <2>4. QED
    BY <1>10, <2>2, <2>3 DEF LookupRefused, TypeOK, rows
<1>11. CASE Put
  <2>1. at \in Ids
    BY <1>11 DEF Put, CountsAreBacked, Handling
  <2>2. stage' \in Stages /\ brain' \subseteq Ids /\ puts' \in [Ids -> Nat]
    BY <1>11, <2>1 DEF Put, Stored, TypeOK, Stages
  <2>3. QED
    BY <1>11, <2>2 DEF Put, Fine, TypeOK, rows
<1>12. CASE PutFails
  <2>1. at \in Ids
    BY <1>12 DEF PutFails, CountsAreBacked, Handling
  <2>2. stage' \in Stages
    BY <1>12 DEF PutFails, Stages
  <2>3. brain' \subseteq Ids /\ puts' \in [Ids -> Nat]
    <3>1. CASE Stored
      BY <2>1, <3>1 DEF Stored, TypeOK
    <3>2. CASE UNCHANGED <<brain, puts>>
      BY <3>2 DEF TypeOK
    <3>3. QED
      BY <1>12, <3>1, <3>2 DEF PutFails
  <2>4. mishaps' \in [Ids -> Nat] /\ faults' \in Nat
    BY <1>12, <2>1 DEF PutFails, Mishap, Fault, TypeOK
  <2>5. QED
    BY <1>12, <2>2, <2>3, <2>4 DEF PutFails, TypeOK, rows
<1>13. CASE Ack
  BY <1>13 DEF Ack, Fine, TypeOK, CountsAreBacked, Handling, rows, books, Stages, Ids
<1>14. CASE AckRefused
  <2>1. at \in Ids
    BY <1>14 DEF AckRefused, CountsAreBacked, Handling
  <2>2. mishaps' \in [Ids -> Nat] /\ faults' \in Nat
    BY <1>14, <2>1 DEF AckRefused, Mishap, Fault, TypeOK
  <2>3. QED
    BY <1>14, <2>2 DEF AckRefused, TypeOK, rows, Stages
<1>15. CASE CountFailure
  <2>1. at \in Ids
    BY <1>15 DEF CountFailure, CountsAreBacked, Handling
  <2>2. retries' \in [Ids -> Nat]
    BY <1>15, <2>1 DEF CountFailure, TypeOK
  <2>3. /\ status' \in [Ids -> {"none", "PENDING", "ACKED", "DLQ"}]
        /\ stage' \in Stages /\ at' \in Nat /\ count' \in Nat
    <3>1. CASE count + 1 >= Limit
      BY <1>15, <2>1, <3>1, LimitAssumption DEF CountFailure, TypeOK, Stages
    <3>2. CASE ~(count + 1 >= Limit)
      BY <1>15, <2>1, <3>2 DEF CountFailure, Advance, TypeOK, Stages
    <3>3. QED
      BY <3>1, <3>2
  <2>4. QED
    BY <1>15, <2>2, <2>3 DEF CountFailure, Fine, TypeOK, books
<1>16. CASE CountRefused
  <2>1. at \in Ids
    BY <1>16 DEF CountRefused, CountsAreBacked, Handling
  <2>2. mishaps' \in [Ids -> Nat] /\ faults' \in Nat
    BY <1>16, <2>1 DEF CountRefused, Mishap, Fault, TypeOK
  <2>3. QED
    BY <1>16, <2>2 DEF CountRefused, TypeOK, rows, Stages
<1>17. CASE CountRefusedAgain
  <2>1. at \in Ids
    BY <1>17 DEF CountRefusedAgain, CountsAreBacked, Handling
  <2>2. mishaps' \in [Ids -> Nat] /\ faults' \in Nat
    BY <1>17, <2>1 DEF CountRefusedAgain, Mishap, Fault, TypeOK
  <2>3. QED
    BY <1>17, <2>2 DEF CountRefusedAgain, Advance, TypeOK, rows, Stages
<1>18. CASE MarkSeen
  BY <1>18 DEF MarkSeen, Advance, Fine, TypeOK, CountsAreBacked, Handling, rows, books, Stages, Ids
<1>19. CASE MarkRefused
  BY <1>19 DEF MarkRefused, Advance, Fault, TypeOK, CountsAreBacked, Handling, rows, books, Stages, Ids
<1>20. CASE UNCHANGED vars
  BY <1>20 DEF vars, rows, books, TypeOK, CountsAreBacked, Handling, Stages, Ids
<1>q. QED
  BY <1>1, <1>2, <1>3, <1>4, <1>5, <1>6, <1>7, <1>8, <1>9, <1>10, <1>11, <1>12, <1>13, <1>14, <1>15, <1>16, <1>17, <1>18, <1>19, <1>20 DEF Next

(* The counts stay backed by mishaps, whatever the database refuses.               *)
LEMMA CountsStep == TypeOK /\ CountsAreBacked /\ [Next]_vars => CountsAreBacked'
<1> SUFFICES ASSUME TypeOK, CountsAreBacked, [Next]_vars PROVE CountsAreBacked'
  OBVIOUS
<1> USE EventsAssumption
<1>1. CASE Publish
  BY <1>1 DEF Publish, TypeOK, CountsAreBacked, Handling, rows, books, Ids
<1>2. CASE Start
  BY <1>2 DEF Start, TypeOK, CountsAreBacked, Handling, rows, books, Ids
<1>3. CASE Connect
  BY <1>3 DEF Connect, TypeOK, CountsAreBacked, Handling, rows, books, Ids
<1>4. CASE Disconnect
  BY <1>4 DEF Disconnect, Fault, TypeOK, CountsAreBacked, Handling, rows, books, Ids
<1>5. CASE Kill
  BY <1>5 DEF Kill, Fault, TypeOK, CountsAreBacked, Handling, rows, books, Ids
<1>6. CASE PassOver
  BY <1>6 DEF PassOver, Fine, Delivered, TypeOK, CountsAreBacked, Handling, rows, books, Ids
<1>7. CASE NotUnderstood
  BY <1>7 DEF NotUnderstood, Fine, Delivered, Advance, TypeOK, CountsAreBacked, Handling, rows, books, Ids
<1>8. CASE Insert
  BY <1>8 DEF Insert, Fine, Delivered, TypeOK, CountsAreBacked, Handling, rows, books, Ids
<1>9. CASE FindPending
  BY <1>9 DEF FindPending, Fine, Delivered, TypeOK, CountsAreBacked, Handling, rows, books, Ids
<1>10. CASE LookupRefused
  BY <1>10 DEF LookupRefused, Delivered, Advance, Mishap, Fault, TypeOK, CountsAreBacked, Handling, rows, books, Ids
<1>11. CASE Put
  BY <1>11 DEF Put, Stored, Fine, TypeOK, CountsAreBacked, Handling, rows, books, Ids
<1>12. CASE PutFails
  BY <1>12 DEF PutFails, Stored, Mishap, Fault, TypeOK, CountsAreBacked, Handling, rows, books, Ids
<1>13. CASE Ack
  BY <1>13 DEF Ack, Fine, TypeOK, CountsAreBacked, Handling, rows, books, Ids
<1>14. CASE AckRefused
  BY <1>14 DEF AckRefused, Mishap, Fault, TypeOK, CountsAreBacked, Handling, rows, books, Ids
<1>15. CASE CountFailure
  BY <1>15 DEF CountFailure, Fine, Advance, TypeOK, CountsAreBacked, Handling, rows, books, Ids
<1>16. CASE CountRefused
  BY <1>16 DEF CountRefused, Mishap, Fault, TypeOK, CountsAreBacked, Handling, rows, books, Ids
<1>17. CASE CountRefusedAgain
  BY <1>17 DEF CountRefusedAgain, Advance, Mishap, Fault, TypeOK, CountsAreBacked, Handling, rows, books, Ids
<1>18. CASE MarkSeen
  BY <1>18 DEF MarkSeen, Advance, Fine, TypeOK, CountsAreBacked, Handling, rows, books, Ids
<1>19. CASE MarkRefused
  BY <1>19 DEF MarkRefused, Advance, Fault, TypeOK, CountsAreBacked, Handling, rows, books, Ids
<1>20. CASE UNCHANGED vars
  BY <1>20 DEF vars, rows, books, TypeOK, CountsAreBacked, Handling, Ids
<1>q. QED
  BY <1>1, <1>2, <1>3, <1>4, <1>5, <1>6, <1>7, <1>8, <1>9, <1>10, <1>11, <1>12, <1>13, <1>14, <1>15, <1>16, <1>17, <1>18, <1>19, <1>20 DEF Next

(* Every put stays owed to a row, to the daemon, to a mishap or to a kill.          *)
LEMMA PutsStep == TypeOK /\ CountsAreBacked /\ PutsAreOwed /\ [Next]_vars => PutsAreOwed'
<1> SUFFICES ASSUME TypeOK, CountsAreBacked, PutsAreOwed, [Next]_vars PROVE PutsAreOwed'
  OBVIOUS
<1> USE EventsAssumption
<1>1. CASE Publish
  BY <1>1 DEF Publish, TypeOK, CountsAreBacked, Handling, PutsAreOwed, Owed, rows, books
<1>2. CASE Start
  BY <1>2 DEF Start, TypeOK, CountsAreBacked, Handling, PutsAreOwed, Owed, rows, books
<1>3. CASE Connect
  BY <1>3 DEF Connect, TypeOK, CountsAreBacked, Handling, PutsAreOwed, Owed, rows, books
<1>4. CASE Disconnect
  BY <1>4 DEF Disconnect, Fault, TypeOK, CountsAreBacked, Handling, PutsAreOwed, Owed, rows, books
<1>5. CASE Kill
  BY <1>5 DEF Kill, Fault, TypeOK, CountsAreBacked, Handling, PutsAreOwed, Owed, rows, books
<1>6. CASE PassOver
  BY <1>6 DEF PassOver, Fine, Delivered, TypeOK, CountsAreBacked, Handling, PutsAreOwed, Owed, rows, books
<1>7. CASE NotUnderstood
  BY <1>7 DEF NotUnderstood, Fine, Delivered, Advance, TypeOK, CountsAreBacked, Handling, PutsAreOwed, Owed, rows, books
<1>8. CASE Insert
  BY <1>8 DEF Insert, Fine, Delivered, TypeOK, CountsAreBacked, Handling, PutsAreOwed, Owed, rows, books
<1>9. CASE FindPending
  BY <1>9 DEF FindPending, Fine, Delivered, TypeOK, CountsAreBacked, Handling, PutsAreOwed, Owed, rows, books
<1>10. CASE LookupRefused
  BY <1>10 DEF LookupRefused, Delivered, Advance, Mishap, Fault, TypeOK, CountsAreBacked, Handling, PutsAreOwed, Owed, rows, books
<1>11. CASE Put
  BY <1>11 DEF Put, Stored, Fine, TypeOK, CountsAreBacked, Handling, PutsAreOwed, Owed, rows, books
<1>12. CASE PutFails
  BY <1>12 DEF PutFails, Stored, Mishap, Fault, TypeOK, CountsAreBacked, Handling, PutsAreOwed, Owed, rows, books
<1>13. CASE Ack
  BY <1>13 DEF Ack, Fine, TypeOK, CountsAreBacked, Handling, PutsAreOwed, Owed, rows, books
<1>14. CASE AckRefused
  BY <1>14 DEF AckRefused, Mishap, Fault, TypeOK, CountsAreBacked, Handling, PutsAreOwed, Owed, rows, books
<1>15. CASE CountFailure
  BY <1>15 DEF CountFailure, Fine, Advance, TypeOK, CountsAreBacked, Handling, PutsAreOwed, Owed, rows, books
<1>16. CASE CountRefused
  BY <1>16 DEF CountRefused, Mishap, Fault, TypeOK, CountsAreBacked, Handling, PutsAreOwed, Owed, rows, books
<1>17. CASE CountRefusedAgain
  BY <1>17 DEF CountRefusedAgain, Advance, Mishap, Fault, TypeOK, CountsAreBacked, Handling, PutsAreOwed, Owed, rows, books
<1>18. CASE MarkSeen
  BY <1>18 DEF MarkSeen, Advance, Fine, TypeOK, CountsAreBacked, Handling, PutsAreOwed, Owed, rows, books
<1>19. CASE MarkRefused
  BY <1>19 DEF MarkRefused, Advance, Fault, TypeOK, CountsAreBacked, Handling, PutsAreOwed, Owed, rows, books
<1>20. CASE UNCHANGED vars
  BY <1>20 DEF vars, rows, books, TypeOK, CountsAreBacked, Handling, PutsAreOwed, Owed
<1>q. QED
  BY <1>1, <1>2, <1>3, <1>4, <1>5, <1>6, <1>7, <1>8, <1>9, <1>10, <1>11, <1>12, <1>13, <1>14, <1>15, <1>16, <1>17, <1>18, <1>19, <1>20 DEF Next

(* The books stay true: a row is settled only on what the counts are backed by.     *)
LEMMA BooksStep == TypeOK /\ CountsAreBacked /\ BooksAreTrue /\ [Next]_vars => BooksAreTrue'
<1> SUFFICES ASSUME TypeOK, CountsAreBacked, BooksAreTrue, [Next]_vars PROVE BooksAreTrue'
  OBVIOUS
<1> USE EventsAssumption, LimitAssumption
<1>1. CASE Publish
  BY <1>1 DEF Publish, TypeOK, CountsAreBacked, Handling, BooksAreTrue, rows, books
<1>2. CASE Start
  BY <1>2 DEF Start, TypeOK, CountsAreBacked, Handling, BooksAreTrue, rows, books
<1>3. CASE Connect
  BY <1>3 DEF Connect, TypeOK, CountsAreBacked, Handling, BooksAreTrue, rows, books
<1>4. CASE Disconnect
  BY <1>4 DEF Disconnect, Fault, TypeOK, CountsAreBacked, Handling, BooksAreTrue, rows, books
<1>5. CASE Kill
  BY <1>5 DEF Kill, Fault, TypeOK, CountsAreBacked, Handling, BooksAreTrue, rows, books
<1>6. CASE PassOver
  BY <1>6 DEF PassOver, Fine, Delivered, TypeOK, CountsAreBacked, Handling, BooksAreTrue, rows, books
<1>7. CASE NotUnderstood
  BY <1>7 DEF NotUnderstood, Fine, Delivered, Advance, TypeOK, CountsAreBacked, Handling, BooksAreTrue, rows, books
<1>8. CASE Insert
  BY <1>8 DEF Insert, Fine, Delivered, TypeOK, CountsAreBacked, Handling, BooksAreTrue, rows, books
<1>9. CASE FindPending
  BY <1>9 DEF FindPending, Fine, Delivered, TypeOK, CountsAreBacked, Handling, BooksAreTrue, rows, books
<1>10. CASE LookupRefused
  BY <1>10 DEF LookupRefused, Delivered, Advance, Mishap, Fault, TypeOK, CountsAreBacked, Handling, BooksAreTrue, rows, books
<1>11. CASE Put
  BY <1>11 DEF Put, Stored, Fine, TypeOK, CountsAreBacked, Handling, BooksAreTrue, rows, books
<1>12. CASE PutFails
  BY <1>12 DEF PutFails, Stored, Mishap, Fault, TypeOK, CountsAreBacked, Handling, BooksAreTrue, rows, books
<1>13. CASE Ack
  BY <1>13 DEF Ack, Fine, TypeOK, CountsAreBacked, Handling, BooksAreTrue, rows, books
<1>14. CASE AckRefused
  BY <1>14 DEF AckRefused, Mishap, Fault, TypeOK, CountsAreBacked, Handling, BooksAreTrue, rows, books
<1>15. CASE CountFailure
  BY <1>15 DEF CountFailure, Fine, Advance, TypeOK, CountsAreBacked, Handling, BooksAreTrue, rows, books
<1>16. CASE CountRefused
  BY <1>16 DEF CountRefused, Mishap, Fault, TypeOK, CountsAreBacked, Handling, BooksAreTrue, rows, books
<1>17. CASE CountRefusedAgain
  BY <1>17 DEF CountRefusedAgain, Advance, Mishap, Fault, TypeOK, CountsAreBacked, Handling, BooksAreTrue, rows, books
<1>18. CASE MarkSeen
  BY <1>18 DEF MarkSeen, Advance, Fine, TypeOK, CountsAreBacked, Handling, BooksAreTrue, rows, books
<1>19. CASE MarkRefused
  BY <1>19 DEF MarkRefused, Advance, Fault, TypeOK, CountsAreBacked, Handling, BooksAreTrue, rows, books
<1>20. CASE UNCHANGED vars
  BY <1>20 DEF vars, rows, books, TypeOK, CountsAreBacked, Handling, BooksAreTrue
<1>q. QED
  BY <1>1, <1>2, <1>3, <1>4, <1>5, <1>6, <1>7, <1>8, <1>9, <1>10, <1>11, <1>12, <1>13, <1>14, <1>15, <1>16, <1>17, <1>18, <1>19, <1>20 DEF Next

(* The inductive invariant holds in every behaviour of the daemon.                 *)
LEMMA Inductive == Spec => []IInv
<1>1. IInv /\ [Next]_vars => IInv'
  BY TypeStep, CountsStep, PutsStep, BooksStep DEF IInv
<1>2. QED
  BY InitIInv, <1>1, PTL DEF Spec

(* Type correctness of the daemon and its table, for every instance.              *)
THEOREM BusTypeCorrect == Spec => []TypeOK
<1>1. IInv => TypeOK
  BY DEF IInv
<1>2. QED
  BY Inductive, <1>1, PTL

(* An acknowledged event is in the knowledge base and a parked one had its mishaps,   *)
(* for any events, limit and faults (process_event).                            *)
THEOREM BusBooksAreTrue == Spec => []BooksAreTrue
<1>1. IInv => BooksAreTrue
  BY DEF IInv
<1>2. QED
  BY Inductive, <1>1, PTL

(* The replay of the stream repeats no put that no mishap and no kill explains, for   *)
(* any events, limit and faults (process_event).                                *)
THEOREM BusRepeatsAreExplained == Spec => []RepeatsAreExplained
<1>1. IInv => RepeatsAreExplained
  <2>1. SUFFICES ASSUME IInv, NEW e \in Ids PROVE puts[e] <= 1 + mishaps[e] + kills
    BY DEF RepeatsAreExplained
  <2>2. puts[e] \in Nat /\ mishaps[e] \in Nat /\ kills \in Nat
    BY <2>1 DEF IInv, TypeOK
  <2>3. puts[e] <= Owed(e) + mishaps[e] + kills
    BY <2>1 DEF IInv, PutsAreOwed
  <2>4. Owed(e) \in {0, 1}
    BY DEF Owed
  <2>5. QED
    BY <2>2, <2>3, <2>4
<1>2. QED
  BY Inductive, <1>1, PTL

-------------------------------------------------------------------------------
(* GossipSync: no living node is given up. *)

Agent == [status : {"idle", "offline", "remote_offline"}, beat : Nat]
Peer == [failures : 0 .. 3, reachable : BOOLEAN]
CycleFields == {"at", "on", "left", "size", "orphan", "held", "gone"}

(* Agents as a store keeps them and a push carries them, none given up that is not  *)
(* of a guilty node.                                                              *)
Earned(agents, guilty) == \A a \in DOMAIN agents :
    /\ agents[a] \in Agent
    /\ agents[a].status = "remote_offline" => Home[a] \in guilty

(* What a cycle holds across its awaits: it has still to visit peers that are in the *)
(* table known, and the peer object it pulls through is in that table unless it was   *)
(* put out.                                                                       *)
Holds(c, agents, known, guilty) ==
    /\ DOMAIN c = CycleFields
    /\ c.at \in {"rest", "pull", "push"}
    /\ c.orphan \in {None} \cup {<<p>> : p \in Peer}
    /\ c.held \subseteq DOMAIN agents
    /\ Earned(c.gone, guilty)
    /\ c.at # "rest" => c.left \subseteq DOMAIN known

OnTrack(c, agents, known, out, guilty) ==
    /\ Holds(c, agents, known, guilty)
    /\ c.at = "pull" => /\ c.on \in Nodes
                        /\ c.orphan = None => c.on \in DOMAIN known
                        /\ c.orphan # None => c.on \in out

Table(known) == DOMAIN known \subseteq Nodes /\ \A m \in DOMAIN known : known[m] \in Peer

Guilty == accused \cup replaced

TablesFit ==
    /\ DOMAIN store = Nodes /\ DOMAIN peers = Nodes
    /\ DOMAIN cycle = Nodes /\ \A n \in Nodes : DOMAIN cycle[n] = Cycles
    /\ now \in Nat
    /\ misses \in [Nodes -> [Nodes -> 0 .. 3]]
    /\ \A n \in Nodes : Table(peers[n])

CyclesOnTrack == \A n \in Nodes, k \in Cycles :
    OnTrack(cycle[n][k], store[n], peers[n], replaced, Guilty)

(* The failures counted on a peer object that was not replaced are answers really   *)
(* missed since the last one.                                                     *)
FailuresAreMisses == \A n \in Nodes : \A m \in DOMAIN peers[n] \ replaced :
    peers[n][m].failures <= misses[n][m]

StatusesAreEarned ==
    /\ \A n \in Nodes : Earned(store[n], Guilty)
    /\ \A delta \in late : Earned(delta.agents, Guilty)

GossipInvariant == TablesFit /\ CyclesOnTrack /\ FailuresAreMisses /\ StatusesAreEarned

-------------------------------------------------------------------------------
(* What the operators on functions return. *)

LEMMA Overlaid ==
    ASSUME NEW f, NEW g
    PROVE  /\ DOMAIN Overlay(f, g) = DOMAIN f \cup DOMAIN g
           /\ \A x \in DOMAIN f : Overlay(f, g)[x] = f[x]
           /\ \A x \in DOMAIN g \ DOMAIN f : Overlay(f, g)[x] = g[x]
BY DEF Overlay

LEMMA OneEntry ==
    ASSUME NEW x, NEW y
    PROVE  DOMAIN Entry(x, y) = {x} /\ Entry(x, y)[x] = y
BY DEF Entry

LEMMA Restricted ==
    ASSUME NEW f, NEW S
    PROVE  DOMAIN Restrict(f, S) = S /\ \A x \in S : Restrict(f, S)[x] = f[x]
BY DEF Restrict

LEMMA NoneIsEmpty == DOMAIN None = {}
BY DEF None

(* More guilty nodes, more agents or more entries only help.                      *)
LEMMA EarnedGrows ==
    ASSUME NEW agents, NEW guilty, NEW more, Earned(agents, guilty), guilty \subseteq more
    PROVE  Earned(agents, more)
BY DEF Earned

LEMMA OnTrackGrows ==
    ASSUME NEW c, NEW agents, NEW known, NEW out, NEW guilty,
           NEW agents2, NEW known2, NEW out2, NEW guilty2,
           OnTrack(c, agents, known, out, guilty),
           DOMAIN agents \subseteq DOMAIN agents2, DOMAIN known \subseteq DOMAIN known2,
           out \subseteq out2, guilty \subseteq guilty2
    PROVE  OnTrack(c, agents2, known2, out2, guilty2)
BY EarnedGrows DEF OnTrack, Holds

LEMMA RestingOnTrack ==
    ASSUME NEW agents, NEW known, NEW out, NEW guilty
    PROVE  OnTrack(Resting, agents, known, out, guilty)
<1>1. Earned(None, guilty)
  BY NoneIsEmpty DEF Earned
<1>2. QED
  BY <1>1 DEF Resting, OnTrack, Holds, CycleFields

LEMMA OverlaidEarned ==
    ASSUME NEW f, NEW g, NEW guilty, Earned(f, guilty), Earned(g, guilty)
    PROVE  Earned(Overlay(f, g), guilty)
<1> SUFFICES ASSUME NEW a \in DOMAIN Overlay(f, g)
             PROVE  /\ Overlay(f, g)[a] \in Agent
                    /\ Overlay(f, g)[a].status = "remote_offline" => Home[a] \in guilty
  BY DEF Earned
<1>1. CASE a \in DOMAIN f
  <2>1. Overlay(f, g)[a] = f[a]
    BY <1>1 DEF Overlay
  <2>2. QED
    BY <1>1, <2>1 DEF Earned
<1>2. CASE a \in DOMAIN g \ DOMAIN f
  <2>1. Overlay(f, g)[a] = g[a]
    BY <1>2 DEF Overlay
  <2>2. QED
    BY <1>2, <2>1 DEF Earned
<1>3. QED
  BY <1>1, <1>2, Overlaid

LEMMA RestrictedEarned ==
    ASSUME NEW f, NEW S, NEW guilty, Earned(f, guilty), S \subseteq DOMAIN f
    PROVE  Earned(Restrict(f, S), guilty)
BY Restricted DEF Earned

LEMMA EntryEarned ==
    ASSUME NEW a, NEW agent \in Agent, NEW guilty,
           agent.status = "remote_offline" => Home[a] \in guilty
    PROVE  Earned(Entry(a, agent), guilty)
<1>1. \A b \in DOMAIN Entry(a, agent) : b = a /\ Entry(a, agent)[b] = agent
  BY DEF Entry
<1>2. QED
  BY <1>1 DEF Earned
-------------------------------------------------------------------------------
(* Where a cycle goes on. *)

LEMMA PushPassOnTrack ==
    ASSUME NEW c, NEW agents, NEW known, NEW out, NEW guilty,
           Holds(c, agents, known, guilty), c.at = "push", Table(known),
           NEW d \in PushPass(c, known)
    PROVE  OnTrack(d, agents, known, out, guilty)
<1>1. CASE d = Resting
  BY <1>1, RestingOnTrack
<1>2. ASSUME NEW m \in c.left, d = [c EXCEPT !.on = m, !.left = @ \ {m}, !.orphan = None]
      PROVE  OnTrack(d, agents, known, out, guilty)
  <2>1. /\ DOMAIN d = CycleFields /\ d.at = "push" /\ d.orphan = None
        /\ d.held = c.held /\ d.gone = c.gone /\ d.left \subseteq c.left
    BY <1>2 DEF OnTrack, Holds, CycleFields
  <2>2. QED
    BY <2>1 DEF OnTrack, Holds
<1>3. QED
  BY <1>1, <1>2 DEF PushPass

LEMMA PullPassOnTrack ==
    ASSUME NEW c, NEW agents, NEW known, NEW out, NEW guilty,
           Holds(c, agents, known, guilty), c.at = "pull", Table(known),
           NEW d \in PullPass(c, known)
    PROVE  OnTrack(d, agents, known, out, guilty)
<1> DEFINE turned == [c EXCEPT !.at = "push", !.left = DOMAIN known,
                               !.size = Cardinality(DOMAIN known)]
<1>1. CASE c.left = {}
  <2>1. /\ DOMAIN turned = CycleFields /\ turned.at = "push" /\ turned.left = DOMAIN known
        /\ turned.orphan = c.orphan /\ turned.held = c.held /\ turned.gone = c.gone
    BY DEF OnTrack, Holds, CycleFields
  <2>2. Holds(turned, agents, known, guilty)
    BY <2>1 DEF OnTrack, Holds
  <2>3. d \in PushPass(turned, known)
    BY <1>1 DEF PullPass
  <2>4. QED
    BY <2>1, <2>2, <2>3, PushPassOnTrack
<1>2. CASE c.left # {}
  <2>1. PICK m \in c.left : d = [c EXCEPT !.on = m, !.left = @ \ {m}, !.orphan = None]
    BY <1>2 DEF PullPass
  <2>2. /\ DOMAIN d = CycleFields /\ d.at = "pull" /\ d.on = m /\ d.orphan = None
        /\ d.held = c.held /\ d.gone = c.gone /\ d.left \subseteq c.left
    BY <2>1 DEF OnTrack, Holds, CycleFields
  <2>3. QED
    BY <2>2 DEF OnTrack, Holds, Table
<1>3. QED
  BY <1>1, <1>2

LEMMA GoesOnOnTrack ==
    ASSUME NEW c, NEW agents, NEW known, NEW out, NEW guilty,
           Holds(c, agents, known, guilty), c.at # "rest", Table(known),
           NEW d \in GoesOn(c, known)
    PROVE  OnTrack(d, agents, known, out, guilty)
<1>1. CASE d = Resting
  BY <1>1, RestingOnTrack
<1>2. CASE c.at = "pull" /\ d \in PullPass(c, known)
  BY <1>2, PullPassOnTrack
<1>3. CASE c.at = "push" /\ d \in PushPass(c, known)
  BY <1>3, PushPassOnTrack
<1>4. QED
  BY <1>1, <1>2, <1>3 DEF GoesOn, OnTrack, Holds

-------------------------------------------------------------------------------
(* The initial states satisfy the invariant: nobody is given up.                   *)
LEMMA GossipStarts == GossipInit => GossipInvariant
<1> SUFFICES ASSUME GossipInit PROVE GossipInvariant
  OBVIOUS
<1>1. given.peers \in [Nodes -> SUBSET Nodes]
  BY CasesAssumption DEF GossipInit
<1>2. ASSUME NEW n \in Nodes
      PROVE  Table(peers[n]) /\ \A m \in DOMAIN peers[n] : peers[n][m].failures = 0
  <2>1. peers[n] = [m \in given.peers[n] |-> NewPeer]
    BY DEF GossipInit
  <2>2. NewPeer \in Peer /\ NewPeer.failures = 0
    BY DEF NewPeer, Peer
  <2>3. QED
    BY <1>1, <2>1, <2>2 DEF Table
<1>3. ASSUME NEW n \in Nodes PROVE Earned(store[n], Guilty)
  <2>1. \A a \in DOMAIN store[n] : store[n][a] = [status |-> "idle", beat |-> 1]
    BY DEF GossipInit
  <2>2. QED
    BY <2>1 DEF Earned, Agent
<1>4. TablesFit
  BY <1>2 DEF TablesFit, GossipInit
<1>5. CyclesOnTrack
  BY RestingOnTrack DEF CyclesOnTrack, GossipInit
<1>6. FailuresAreMisses
  <2>1. \A n, m \in Nodes : misses[n][m] = 0
    BY DEF GossipInit
  <2>2. \A n \in Nodes : \A m \in DOMAIN peers[n] : m \in Nodes /\ peers[n][m].failures = 0
    BY <1>2 DEF Table
  <2>3. QED
    BY <2>1, <2>2 DEF FailuresAreMisses
<1>7. StatusesAreEarned
  BY <1>3 DEF StatusesAreEarned, GossipInit
<1>8. QED
  BY <1>4, <1>5, <1>6, <1>7 DEF GossipInvariant

(* A step that only changes what a store says of agents.                            *)
LEMMA StoreStep ==
    ASSUME GossipInvariant, now' \in Nat,
           UNCHANGED <<peers, cycle, late, misses, accused, replaced>>,
           DOMAIN store' = Nodes,
           \A n \in Nodes : DOMAIN store[n] \subseteq DOMAIN store'[n] /\ Earned(store'[n], Guilty)
    PROVE  GossipInvariant'
<1> USE DEF GossipInvariant
<1>1. Guilty' = Guilty
  BY DEF Guilty
<1>2. TablesFit'
  BY DEF TablesFit, Table
<1>3. CyclesOnTrack'
  <2> SUFFICES ASSUME NEW n \in Nodes, NEW k \in Cycles
               PROVE  OnTrack(cycle[n][k], store'[n], peers[n], replaced, Guilty)
    BY <1>1 DEF CyclesOnTrack
  <2> QED
    BY OnTrackGrows DEF CyclesOnTrack
<1>4. FailuresAreMisses'
  BY DEF FailuresAreMisses
<1>5. StatusesAreEarned'
  BY <1>1 DEF StatusesAreEarned
<1>6. QED
  BY <1>2, <1>3, <1>4, <1>5

LEMMA RegisterStep ==
    ASSUME GossipInvariant, NEW a \in Agents, Register(a)
    PROVE  GossipInvariant'
<1> DEFINE agent == [status |-> "idle", beat |-> now']
<1>1. Home[a] \in Nodes /\ now' \in Nat
  BY HomeAssumption DEF Register, GossipInvariant, TablesFit
<1>2. store' = [store EXCEPT ![Home[a]] = Overlay(Entry(a, agent), store[Home[a]])]
  BY DEF Register
<1>3. Earned(Overlay(Entry(a, agent), store[Home[a]]), Guilty)
  <2>1. agent \in Agent /\ agent.status = "idle"
    BY <1>1 DEF Agent
  <2>2. Earned(Entry(a, agent), Guilty)
    BY <2>1, EntryEarned
  <2>3. Earned(store[Home[a]], Guilty)
    BY <1>1 DEF GossipInvariant, StatusesAreEarned
  <2>4. QED
    BY <2>2, <2>3, OverlaidEarned
<1>4. DOMAIN store' = Nodes
  BY <1>2 DEF GossipInvariant, TablesFit
<1>5. ASSUME NEW n \in Nodes
      PROVE  DOMAIN store[n] \subseteq DOMAIN store'[n] /\ Earned(store'[n], Guilty)
  <2>1. CASE n = Home[a]
    <3>1. store'[n] = Overlay(Entry(a, agent), store[n])
      BY <1>2, <2>1 DEF GossipInvariant, TablesFit
    <3>2. DOMAIN store[n] \subseteq DOMAIN store'[n]
      BY <3>1 DEF Overlay
    <3>3. QED
      BY <1>3, <2>1, <3>1, <3>2
  <2>2. CASE n # Home[a]
    BY <1>2, <2>2 DEF GossipInvariant, TablesFit, StatusesAreEarned
  <2>3. QED
    BY <2>1, <2>2
<1>6. UNCHANGED <<peers, cycle, late, misses, accused, replaced>>
  BY DEF Register, ghosts
<1>7. QED
  BY <1>1, <1>4, <1>5, <1>6, StoreStep

(* One agent of one store becomes another, which is earned.                         *)
LEMMA AgentStep ==
    ASSUME GossipInvariant, now' \in Nat,
           UNCHANGED <<peers, cycle, late, misses, accused, replaced>>,
           NEW n \in Nodes, NEW a \in DOMAIN store[n], NEW agent \in Agent,
           agent.status = "remote_offline" => Home[a] \in Guilty,
           store' = [store EXCEPT ![n] = [@ EXCEPT ![a] = agent]]
    PROVE  GossipInvariant'
<1>1. DOMAIN store' = Nodes
  BY DEF GossipInvariant, TablesFit
<1>2. ASSUME NEW o \in Nodes
      PROVE  DOMAIN store[o] \subseteq DOMAIN store'[o] /\ Earned(store'[o], Guilty)
  <2>1. Earned(store[o], Guilty)
    BY DEF GossipInvariant, StatusesAreEarned
  <2>2. store'[o] = IF o = n THEN [store[o] EXCEPT ![a] = agent] ELSE store[o]
    BY DEF GossipInvariant, TablesFit
  <2>3. Earned([store[o] EXCEPT ![a] = agent], Guilty)
    BY <2>1 DEF Earned
  <2>4. QED
    BY <2>1, <2>2, <2>3
<1>3. QED
  BY <1>1, <1>2, StoreStep

LEMMA HeartbeatStep ==
    ASSUME GossipInvariant, NEW n \in Nodes, NEW a \in Agents, Heartbeat(n, a)
    PROVE  GossipInvariant'
<1> DEFINE agent == [store[n][a] EXCEPT !.beat = now']
<1>1. a \in DOMAIN store[n] /\ now' \in Nat
  BY DEF Heartbeat, GossipInvariant, TablesFit
<1>2. store[n][a] \in Agent /\ (store[n][a].status = "remote_offline" => Home[a] \in Guilty)
  BY <1>1 DEF GossipInvariant, StatusesAreEarned, Earned
<1>3. agent \in Agent /\ agent.status = store[n][a].status
  BY <1>1, <1>2 DEF Agent
<1>4. store' = [store EXCEPT ![n] = [@ EXCEPT ![a] = agent]]
  BY DEF Heartbeat
<1>5. UNCHANGED <<peers, cycle, late, misses, accused, replaced>>
  BY DEF Heartbeat, ghosts
<1>6. QED
  BY <1>1, <1>2, <1>3, <1>4, <1>5, AgentStep

(* An agent that is removed stays, as it was last, with the cycles that hold it.     *)
LEMMA RemoveStep ==
    ASSUME GossipInvariant, now' \in Nat, NEW n \in Nodes, NEW a \in DOMAIN store[n],
           Remove(n, a), UNCHANGED <<peers, late, misses, accused, replaced>>
    PROVE  GossipInvariant'
<1> USE DEF GossipInvariant
<1>1. Guilty' = Guilty
  BY DEF Guilty
<1>2. store' = [store EXCEPT ![n] = Restrict(store[n], DOMAIN store[n] \ {a})]
  BY DEF Remove
<1>3. /\ \A o \in Nodes \ {n} : store'[o] = store[o] /\ cycle'[o] = cycle[o]
      /\ store'[n] = Restrict(store[n], DOMAIN store[n] \ {a})
      /\ DOMAIN store'[n] = DOMAIN store[n] \ {a}
  <2>1. /\ \A o \in Nodes \ {n} : store'[o] = store[o]
        /\ store'[n] = Restrict(store[n], DOMAIN store[n] \ {a})
    BY <1>2 DEF TablesFit
  <2>2. \A o \in Nodes \ {n} : cycle'[o] = cycle[o]
    BY DEF Remove, TablesFit
  <2>3. QED
    BY <2>1, <2>2, Restricted
<1>4. Earned(store[n], Guilty)
  BY DEF StatusesAreEarned
<1>5. ASSUME NEW k \in Cycles
      PROVE  OnTrack(cycle'[n][k], store'[n], peers[n], replaced, Guilty)
  <2>1. OnTrack(cycle[n][k], store[n], peers[n], replaced, Guilty)
    BY DEF CyclesOnTrack
  <2>2. cycle'[n][k] = LetGo(cycle[n][k], a, store[n][a])
    BY DEF Remove, TablesFit
  <2>3. CASE a \notin cycle[n][k].held
    BY <1>3, <2>1, <2>2, <2>3 DEF OnTrack, Holds, LetGo
  <2>4. CASE a \in cycle[n][k].held
    <3> DEFINE gone == Overlay(Entry(a, store[n][a]), cycle[n][k].gone)
    <3>1. Earned(Entry(a, store[n][a]), Guilty)
      BY <1>4, EntryEarned DEF Earned
    <3>2. Earned(gone, Guilty)
      BY <2>1, <3>1, OverlaidEarned DEF OnTrack, Holds
    <3> HIDE DEF gone
    <3>3. cycle'[n][k] = [cycle[n][k] EXCEPT !.held = @ \ {a}, !.gone = gone]
      BY <2>2, <2>4 DEF gone, LetGo
    <3>4. /\ DOMAIN cycle'[n][k] = CycleFields /\ cycle'[n][k].gone = gone
          /\ cycle'[n][k].held = cycle[n][k].held \ {a} /\ cycle'[n][k].at = cycle[n][k].at
          /\ cycle'[n][k].orphan = cycle[n][k].orphan /\ cycle'[n][k].left = cycle[n][k].left
          /\ cycle'[n][k].on = cycle[n][k].on
      BY <2>1, <3>3 DEF OnTrack, Holds, CycleFields
    <3>5. QED
      BY <1>3, <2>1, <3>2, <3>4 DEF OnTrack, Holds
  <2>5. QED
    BY <2>3, <2>4
<1>6. TablesFit'
  <2>1. DOMAIN store' = Nodes /\ DOMAIN cycle' = Nodes /\ DOMAIN cycle'[n] = Cycles
    BY <1>2 DEF Remove, TablesFit
  <2>2. QED
    BY <1>3, <2>1 DEF TablesFit, Table
<1>7. CyclesOnTrack'
  <2> SUFFICES ASSUME NEW o \in Nodes, NEW k \in Cycles
               PROVE  OnTrack(cycle'[o][k], store'[o], peers[o], replaced, Guilty)
    BY <1>1 DEF CyclesOnTrack
  <2> QED
    BY <1>3, <1>5 DEF CyclesOnTrack
<1>8. FailuresAreMisses'
  BY DEF FailuresAreMisses
<1>9. StatusesAreEarned'
  <2>1. Earned(store'[n], Guilty)
    BY <1>3, <1>4, RestrictedEarned
  <2>2. QED
    BY <1>1, <1>3, <2>1 DEF StatusesAreEarned
<1>10. QED
  BY <1>6, <1>7, <1>8, <1>9

LEMMA DeregisterStep ==
    ASSUME GossipInvariant, NEW n \in Nodes, NEW a \in Agents, Deregister(n, a)
    PROVE  GossipInvariant'
<1>1. a \in DOMAIN store[n] /\ Remove(n, a) /\ now' \in Nat
  BY DEF Deregister, GossipInvariant, TablesFit
<1>2. UNCHANGED <<peers, late, misses, accused, replaced>>
  BY DEF Deregister, ghosts
<1>3. QED
  BY <1>1, <1>2, RemoveStep

LEMMA SweepStep ==
    ASSUME GossipInvariant, NEW n \in Nodes, NEW a \in Agents, Sweep(n, a)
    PROVE  GossipInvariant'
<1>1. a \in DOMAIN store[n] /\ now' \in Nat
  BY DEF Sweep, GossipInvariant, TablesFit
<1>2. UNCHANGED <<peers, late, misses, accused, replaced>>
  BY DEF Sweep, ghosts
<1>3. CASE store[n][a].status = "offline"
  BY <1>1, <1>2, <1>3, RemoveStep DEF Sweep
<1>4. CASE store[n][a].status # "offline"
  <2> DEFINE agent == [status |-> "offline", beat |-> now']
  <2>1. agent \in Agent /\ agent.status # "remote_offline"
    BY <1>1 DEF Agent
  <2>2. store' = [store EXCEPT ![n] = [@ EXCEPT ![a] = agent]] /\ UNCHANGED cycle
    BY <1>4 DEF Sweep
  <2> HIDE DEF agent
  <2>3. QED
    BY <1>1, <1>2, <2>1, <2>2, AgentStep
<1>5. QED
  BY <1>3, <1>4

(* A node that dies forgets its cycles and its table of peers.                       *)
LEMMA DieStep ==
    ASSUME GossipInvariant, NEW n \in Nodes, Die(n)
    PROVE  GossipInvariant'
<1> USE DEF GossipInvariant
<1>1. UNCHANGED <<store, late, now, misses, accused, replaced>> /\ Guilty' = Guilty
  BY DEF Die, ghosts, Guilty
<1>2. /\ \A o \in Nodes \ {n} : peers'[o] = peers[o] /\ cycle'[o] = cycle[o]
      /\ DOMAIN peers'[n] = {}
      /\ DOMAIN peers' = Nodes /\ DOMAIN cycle' = Nodes
      /\ cycle'[n] = [k \in Cycles |-> Resting]
  BY NoneIsEmpty DEF Die, TablesFit
<1>3. TablesFit'
  BY <1>1, <1>2 DEF TablesFit, Table
<1>4. CyclesOnTrack'
  <2> SUFFICES ASSUME NEW o \in Nodes, NEW k \in Cycles
               PROVE  OnTrack(cycle'[o][k], store[o], peers'[o], replaced, Guilty)
    BY <1>1 DEF CyclesOnTrack
  <2>1. CASE o = n
    BY <1>2, <2>1, RestingOnTrack
  <2>2. CASE o # n
    BY <1>2, <2>2 DEF CyclesOnTrack
  <2>3. QED
    BY <2>1, <2>2
<1>5. FailuresAreMisses'
  <2> SUFFICES ASSUME NEW o \in Nodes, NEW m \in DOMAIN peers'[o] \ replaced
               PROVE  peers'[o][m].failures <= misses[o][m]
    BY <1>1 DEF FailuresAreMisses
  <2>1. o # n /\ peers'[o] = peers[o]
    BY <1>2
  <2>2. QED
    BY <2>1 DEF FailuresAreMisses
<1>6. StatusesAreEarned'
  BY <1>1 DEF StatusesAreEarned
<1>7. QED
  BY <1>3, <1>4, <1>5, <1>6

(* Peers come and go: a cycle that pulls from one that goes is on its own.            *)
LEMMA OrphanedOnTrack ==
    ASSUME GossipInvariant, NEW n \in Nodes, NEW m \in Nodes, NEW left, NEW known, NEW k \in Cycles,
           PutOut(n, m), Table(known),
           DOMAIN peers[n] \ {m} \subseteq DOMAIN known,
           cycle[n][k].at # "rest" => left[k] \subseteq DOMAIN known
    PROVE  OnTrack(Orphaned(n, m, left)[k], store[n], known, replaced', accused \cup replaced')
<1> DEFINE c == cycle[n][k]
           d == [c EXCEPT !.left = left[k],
                          !.orphan = IF c.on = m /\ c.orphan = None /\ m \in DOMAIN peers[n]
                                       THEN <<peers[n][m]>> ELSE @]
<1>1. OnTrack(c, store[n], peers[n], replaced, Guilty)
  BY DEF GossipInvariant, CyclesOnTrack
<1>2. /\ replaced \subseteq replaced' /\ Guilty \subseteq accused \cup replaced'
      /\ c.at = "pull" /\ c.on = m => m \in replaced'
  BY DEF PutOut, Guilty
<1>3. Orphaned(n, m, left)[k] = IF c.at = "rest" THEN c ELSE d
  BY DEF Orphaned
<1>4. Earned(c.gone, accused \cup replaced')
  BY <1>1, <1>2, EarnedGrows DEF OnTrack, Holds
<1>5. CASE c.at = "rest"
  BY <1>1, <1>3, <1>4, <1>5 DEF OnTrack, Holds
<1>6. CASE c.at # "rest"
  <2>1. m \in DOMAIN peers[n] => peers[n][m] \in Peer
    BY DEF GossipInvariant, TablesFit, Table
  <2>2. /\ DOMAIN d = CycleFields /\ d.at = c.at /\ d.on = c.on /\ d.left = left[k]
        /\ d.held = c.held /\ d.gone = c.gone
        /\ d.orphan = IF c.on = m /\ c.orphan = None /\ m \in DOMAIN peers[n]
                         THEN <<peers[n][m]>> ELSE c.orphan
    BY <1>1 DEF OnTrack, Holds, CycleFields
  <2>3. d.orphan \in {None} \cup {<<p>> : p \in Peer}
    BY <1>1, <2>1, <2>2 DEF OnTrack, Holds
  <2>4. ASSUME c.at = "pull"
        PROVE  /\ c.on \in Nodes
               /\ d.orphan = None => c.on \in DOMAIN known
               /\ d.orphan # None => c.on \in replaced'
    <3>1. CASE c.on = m
      <4>1. <<peers[n][m]>> # None
        BY DEF None
      <4>2. QED
        BY <1>1, <1>2, <2>2, <2>4, <3>1, <4>1 DEF OnTrack, Holds
    <3>2. CASE c.on # m
      BY <1>1, <1>2, <2>2, <2>4, <3>2 DEF OnTrack, Holds
    <3>3. QED
      BY <3>1, <3>2
  <2> HIDE DEF d
  <2>5. OnTrack(d, store[n], known, replaced', accused \cup replaced')
    BY <1>1, <1>4, <1>6, <2>2, <2>3, <2>4 DEF OnTrack, Holds
  <2>6. QED
    BY <1>3, <1>6, <2>5
<1>7. QED
  BY <1>5, <1>6

(* The table of one node becomes known, its cycles are orphaned.                     *)
LEMMA PeersStep ==
    ASSUME GossipInvariant, NEW n \in Nodes, NEW m \in Nodes, NEW left, NEW known,
           UNCHANGED <<store, late, now, misses, accused>>, PutOut(n, m), Table(known),
           DOMAIN peers[n] \ {m} \subseteq DOMAIN known,
           \A k \in Cycles : cycle[n][k].at # "rest" => left[k] \subseteq DOMAIN known,
           \A o \in DOMAIN known : \/ known[o].failures = 0
                                   \/ o \in DOMAIN peers[n] /\ known[o] = peers[n][o],
           peers' = [peers EXCEPT ![n] = known],
           cycle' = [cycle EXCEPT ![n] = Orphaned(n, m, left)]
    PROVE  GossipInvariant'
<1> USE DEF GossipInvariant
<1>1. Guilty \subseteq Guilty' /\ Guilty' = accused \cup replaced' /\ replaced \subseteq replaced'
  BY DEF PutOut, Guilty
<1>2. /\ \A o \in Nodes \ {n} : peers'[o] = peers[o] /\ cycle'[o] = cycle[o]
      /\ peers'[n] = known /\ cycle'[n] = Orphaned(n, m, left)
      /\ DOMAIN peers' = Nodes /\ DOMAIN cycle' = Nodes
  BY DEF TablesFit
<1>3. TablesFit'
  <2>1. DOMAIN cycle'[n] = Cycles
    BY <1>2 DEF Orphaned
  <2>2. QED
    BY <1>2, <2>1 DEF TablesFit, Table
<1>4. CyclesOnTrack'
  <2> SUFFICES ASSUME NEW o \in Nodes, NEW k \in Cycles
               PROVE  OnTrack(cycle'[o][k], store[o], peers'[o], replaced', Guilty')
    BY DEF CyclesOnTrack
  <2>1. CASE o = n
    BY <1>1, <1>2, <2>1, OrphanedOnTrack
  <2>2. CASE o # n
    BY <1>1, <1>2, <2>2, OnTrackGrows DEF CyclesOnTrack
  <2>3. QED
    BY <2>1, <2>2
<1>5. FailuresAreMisses'
  <2> SUFFICES ASSUME NEW o \in Nodes, NEW p \in DOMAIN peers'[o] \ replaced'
               PROVE  peers'[o][p].failures <= misses[o][p]
    BY DEF FailuresAreMisses
  <2>1. CASE o = n /\ known[p].failures = 0
    <3>1. p \in Nodes /\ misses[o][p] \in 0 .. 3
      BY <1>2, <2>1 DEF TablesFit, Table
    <3>2. QED
      BY <1>2, <2>1, <3>1
  <2>2. CASE o = n /\ p \in DOMAIN peers[n] /\ known[p] = peers[n][p]
    BY <1>1, <1>2, <2>2 DEF FailuresAreMisses
  <2>3. CASE o # n
    BY <1>1, <1>2, <2>3 DEF FailuresAreMisses
  <2>4. QED
    BY <1>2, <2>1, <2>2, <2>3
<1>6. StatusesAreEarned'
  BY <1>1, EarnedGrows DEF StatusesAreEarned
<1>7. QED
  BY <1>3, <1>4, <1>5, <1>6

LEMMA AddPeerStep ==
    ASSUME GossipInvariant, NEW n \in Nodes, NEW m \in Nodes, AddPeer(n, m)
    PROVE  GossipInvariant'
<1> DEFINE known == Overlay(Entry(m, NewPeer), peers[n])
           left == [k \in Cycles |-> cycle[n][k].left \cup ({m} \ DOMAIN peers[n])]
<1>1. DOMAIN known = {m} \cup DOMAIN peers[n] /\ known[m] = NewPeer
      /\ \A o \in DOMAIN peers[n] \ {m} : known[o] = peers[n][o]
  BY DEF Overlay, Entry
<1>2. NewPeer \in Peer /\ NewPeer.failures = 0
  BY DEF NewPeer, Peer
<1>3. Table(peers[n])
  BY DEF GossipInvariant, TablesFit
<1>4. ASSUME NEW k \in Cycles, cycle[n][k].at # "rest"
      PROVE  left[k] \subseteq DOMAIN known
  <2>1. cycle[n][k].left \subseteq DOMAIN peers[n]
    BY <1>4 DEF GossipInvariant, CyclesOnTrack, OnTrack, Holds
  <2>2. QED
    BY <1>1, <2>1
<1>5. /\ UNCHANGED <<store, late, now, misses, accused>> /\ PutOut(n, m)
      /\ peers' = [peers EXCEPT ![n] = known] /\ cycle' = [cycle EXCEPT ![n] = Orphaned(n, m, left)]
  BY DEF AddPeer
<1> HIDE DEF known, left
<1>6. Table(known)
  BY <1>1, <1>2, <1>3 DEF Table
<1>7. QED
  BY <1>1, <1>2, <1>4, <1>5, <1>6, PeersStep

LEMMA RemovePeerStep ==
    ASSUME GossipInvariant, NEW n \in Nodes, NEW m \in Nodes, RemovePeer(n, m)
    PROVE  GossipInvariant'
<1> DEFINE known == Restrict(peers[n], DOMAIN peers[n] \ {m})
           left == [k \in Cycles |-> cycle[n][k].left \ {m}]
<1>1. DOMAIN known = DOMAIN peers[n] \ {m} /\ \A o \in DOMAIN known : known[o] = peers[n][o]
  BY Restricted
<1>2. Table(peers[n])
  BY DEF GossipInvariant, TablesFit
<1>3. ASSUME NEW k \in Cycles, cycle[n][k].at # "rest"
      PROVE  left[k] \subseteq DOMAIN known
  <2>1. cycle[n][k].left \subseteq DOMAIN peers[n]
    BY <1>3 DEF GossipInvariant, CyclesOnTrack, OnTrack, Holds
  <2>2. QED
    BY <1>1, <2>1
<1>4. /\ UNCHANGED <<store, late, now, misses, accused>> /\ PutOut(n, m)
      /\ peers' = [peers EXCEPT ![n] = known] /\ cycle' = [cycle EXCEPT ![n] = Orphaned(n, m, left)]
  BY DEF RemovePeer
<1> HIDE DEF known, left
<1>5. Table(known)
  BY <1>1, <1>2 DEF Table
<1>6. QED
  BY <1>1, <1>3, <1>4, <1>5, PeersStep

-------------------------------------------------------------------------------
(* A cycle moves on, and with it what its node says of the peer it asked.            *)
LEMMA CycleStep ==
    ASSUME GossipInvariant, NEW n \in Nodes, NEW k \in Cycles, NEW c,
           cycle' = [cycle EXCEPT ![n][k] = c],
           OnTrack(c, store'[n], peers'[n], replaced', Guilty'),
           UNCHANGED <<now, replaced>>, accused \subseteq accused',
           DOMAIN store' = Nodes, DOMAIN peers' = Nodes,
           \A o \in Nodes : DOMAIN store[o] \subseteq DOMAIN store'[o],
           \A o \in Nodes : DOMAIN peers'[o] = DOMAIN peers[o] /\ Table(peers'[o]),
           misses' \in [Nodes -> [Nodes -> 0 .. 3]],
           FailuresAreMisses', StatusesAreEarned'
    PROVE  GossipInvariant'
<1> USE DEF GossipInvariant
<1>1. Guilty \subseteq Guilty'
  BY DEF Guilty
<1>2. DOMAIN cycle' = Nodes /\ \A o \in Nodes : DOMAIN cycle'[o] = Cycles
  BY DEF TablesFit
<1>3. TablesFit'
  BY <1>2 DEF TablesFit
<1>4. CyclesOnTrack'
  <2> SUFFICES ASSUME NEW o \in Nodes, NEW j \in Cycles
               PROVE  OnTrack(cycle'[o][j], store'[o], peers'[o], replaced', Guilty')
    BY DEF CyclesOnTrack
  <2>1. CASE o = n /\ j = k
    BY <2>1 DEF TablesFit
  <2>2. CASE ~ (o = n /\ j = k)
    <3>1. cycle'[o][j] = cycle[o][j]
      BY <2>2 DEF TablesFit
    <3>2. OnTrack(cycle[o][j], store[o], peers[o], replaced, Guilty)
      BY DEF CyclesOnTrack
    <3>3. /\ DOMAIN store[o] \subseteq DOMAIN store'[o] /\ DOMAIN peers[o] \subseteq DOMAIN peers'[o]
          /\ replaced \subseteq replaced'
      OBVIOUS
    <3>4. OnTrack(cycle[o][j], store'[o], peers'[o], replaced', Guilty')
      BY <1>1, <3>2, <3>3, OnTrackGrows
    <3>5. QED
      BY <3>1, <3>4
  <2>3. QED
    BY <2>1, <2>2
<1>5. QED
  BY <1>3, <1>4

LEMMA BeginStep ==
    ASSUME GossipInvariant, NEW n \in Nodes, NEW k \in Cycles, Begin(n, k)
    PROVE  GossipInvariant'
<1> USE DEF GossipInvariant
<1> DEFINE c == [Resting EXCEPT !.at = "pull", !.left = DOMAIN peers[n],
                                !.size = Cardinality(DOMAIN peers[n]), !.held = DOMAIN store[n]]
<1>1. PICK d \in PullPass(c, peers[n]) : cycle' = [cycle EXCEPT ![n][k] = d]
  BY DEF Begin
<1>2. UNCHANGED <<store, peers, late, now, misses, accused, replaced>>
  BY DEF Begin, ghosts
<1>3. Holds(c, store[n], peers[n], Guilty) /\ c.at = "pull"
  <2>1. Earned(None, Guilty)
    BY NoneIsEmpty DEF Earned
  <2>2. /\ DOMAIN c = CycleFields /\ c.at = "pull" /\ c.left = DOMAIN peers[n]
        /\ c.held = DOMAIN store[n] /\ c.orphan = None /\ c.gone = None
    BY DEF Resting, CycleFields
  <2>3. QED
    BY <2>1, <2>2 DEF Holds
<1> HIDE DEF c
<1>4. OnTrack(d, store[n], peers[n], replaced, Guilty)
  BY <1>3, PullPassOnTrack DEF TablesFit
<1>5. OnTrack(d, store'[n], peers'[n], replaced', Guilty')
  BY <1>2, <1>4 DEF Guilty
<1>6. FailuresAreMisses' /\ StatusesAreEarned'
  BY <1>2 DEF FailuresAreMisses, StatusesAreEarned, Guilty
<1>7. QED
  BY <1>1, <1>2, <1>5, <1>6, CycleStep DEF TablesFit

(* What is on file for the peer a cycle asked becomes peer.                          *)
LEMMA PeerBecomesFacts ==
    ASSUME GossipInvariant, NEW n \in Nodes, NEW k \in Cycles, NEW peer \in Peer,
           cycle[n][k].at = "pull", PeerBecomes(n, k, peer)
    PROVE  /\ cycle[n][k].on \in Nodes
           /\ DOMAIN peers' = Nodes
           /\ \A o \in Nodes : DOMAIN peers'[o] = DOMAIN peers[o] /\ Table(peers'[o])
           /\ \A o \in Nodes : \A m \in DOMAIN peers[o] :
                 \/ peers'[o][m] = peers[o][m] /\ (o = n /\ m = cycle[n][k].on => m \in replaced)
                 \/ o = n /\ m = cycle[n][k].on /\ peers'[o][m] = peer /\ cycle[n][k].orphan = None
           /\ \E c : /\ cycle' = [cycle EXCEPT ![n][k] = c]
                     /\ OnTrack(c, store[n], peers'[n], replaced, Guilty)
<1> USE DEF GossipInvariant
<1> DEFINE c == cycle[n][k]
<1>1. OnTrack(c, store[n], peers[n], replaced, Guilty)
  BY DEF CyclesOnTrack
<1>2. c.on \in Nodes /\ (c.orphan = None => c.on \in DOMAIN peers[n])
      /\ (c.orphan # None => c.on \in replaced)
  BY <1>1 DEF OnTrack
<1>3. peers' = IF c.orphan = None THEN [peers EXCEPT ![n][c.on] = peer] ELSE peers
  BY DEF PeerBecomes
<1>4. \A o \in Nodes : \A m \in DOMAIN peers[o] :
         \/ peers'[o][m] = peers[o][m] /\ (o = n /\ m = c.on => m \in replaced)
         \/ o = n /\ m = c.on /\ peers'[o][m] = peer /\ c.orphan = None
  BY <1>2, <1>3 DEF TablesFit
<1>5. DOMAIN peers' = Nodes /\ \A o \in Nodes : DOMAIN peers'[o] = DOMAIN peers[o]
  BY <1>3 DEF TablesFit
<1>6. ASSUME NEW o \in Nodes PROVE Table(peers'[o])
  BY <1>4, <1>5 DEF TablesFit, Table
<1>7. PICK d \in GoesOn(c, peers'[n]) : cycle' = [cycle EXCEPT ![n][k] = d]
  BY DEF PeerBecomes
<1>8. OnTrack(c, store[n], peers'[n], replaced, Guilty)
  BY <1>1, <1>5, OnTrackGrows
<1>9. OnTrack(d, store[n], peers'[n], replaced, Guilty)
  BY <1>6, <1>8, GoesOnOnTrack DEF OnTrack
<1>10. QED
  BY <1>2, <1>4, <1>5, <1>6, <1>7, <1>9

LEMMA PullAnsweredStep ==
    ASSUME GossipInvariant, NEW n \in Nodes, NEW k \in Cycles, PullAnswered(n, k)
    PROVE  GossipInvariant'
<1> USE DEF GossipInvariant
<1> DEFINE m == cycle[n][k].on
<1>1. /\ cycle[n][k].at = "pull" /\ PeerBecomes(n, k, NewPeer)
      /\ misses' = [misses EXCEPT ![n][m] = 0]
      /\ UNCHANGED <<store, late, now, accused, replaced>> /\ Guilty' = Guilty
  BY DEF PullAnswered, Guilty
<1>2. NewPeer \in Peer /\ NewPeer.failures = 0
  BY DEF NewPeer, Peer
<1>3. /\ m \in Nodes
      /\ DOMAIN peers' = Nodes
      /\ \A o \in Nodes : DOMAIN peers'[o] = DOMAIN peers[o] /\ Table(peers'[o])
      /\ \A o \in Nodes : \A p \in DOMAIN peers[o] :
            \/ peers'[o][p] = peers[o][p] /\ (o = n /\ p = m => p \in replaced)
            \/ o = n /\ p = m /\ peers'[o][p] = NewPeer /\ cycle[n][k].orphan = None
      /\ \E c : /\ cycle' = [cycle EXCEPT ![n][k] = c]
                /\ OnTrack(c, store[n], peers'[n], replaced, Guilty)
  BY <1>1, <1>2, PeerBecomesFacts
<1>4. misses' \in [Nodes -> [Nodes -> 0 .. 3]]
  BY <1>1, <1>3 DEF TablesFit
<1>5. FailuresAreMisses'
  <2> SUFFICES ASSUME NEW o \in Nodes, NEW p \in DOMAIN peers'[o] \ replaced
               PROVE  peers'[o][p].failures <= misses'[o][p]
    BY <1>1 DEF FailuresAreMisses
  <2>1. p \in DOMAIN peers[o] /\ p \in Nodes
    BY <1>3 DEF Table
  <2>2. CASE o = n /\ p = m
    BY <1>1, <1>2, <1>3, <2>1, <2>2 DEF TablesFit
  <2>3. CASE ~ (o = n /\ p = m)
    <3>1. peers'[o][p] = peers[o][p] /\ misses'[o][p] = misses[o][p]
      BY <1>1, <1>3, <2>1, <2>3 DEF TablesFit
    <3>2. QED
      BY <2>1, <3>1 DEF FailuresAreMisses
  <2>4. QED
    BY <2>2, <2>3
<1>6. StatusesAreEarned'
  BY <1>1 DEF StatusesAreEarned
<1>7. QED
  BY <1>1, <1>3, <1>4, <1>5, <1>6, CycleStep DEF TablesFit

(* A pull that is lost: with the third in a row the node is accused.                   *)
LEMMA PullFailsStep ==
    ASSUME GossipInvariant, NEW n \in Nodes, NEW k \in Cycles, PullFails(n, k)
    PROVE  GossipInvariant'
<1> USE DEF GossipInvariant
<1> DEFINE m == cycle[n][k].on
           asked == Asked(cycle[n][k], peers[n])
<1>1. /\ cycle[n][k].at = "pull" /\ Lost(n, m)
      /\ UNCHANGED <<late, now, replaced>>
  BY DEF PullFails
<1>2. OnTrack(cycle[n][k], store[n], peers[n], replaced, Guilty)
  BY DEF CyclesOnTrack
<1>3. /\ m \in Nodes /\ asked \in Peer
      /\ cycle[n][k].orphan = None => m \in DOMAIN peers[n] /\ asked = peers[n][m]
      /\ cycle[n][k].orphan # None => m \in replaced
  <2>1. m \in Nodes /\ (cycle[n][k].orphan = None => m \in DOMAIN peers[n])
        /\ (cycle[n][k].orphan # None => m \in replaced)
    BY <1>1, <1>2 DEF OnTrack
  <2>2. CASE cycle[n][k].orphan = None
    BY <2>1, <2>2 DEF Asked, TablesFit, Table
  <2>3. CASE cycle[n][k].orphan # None
    <3>1. PICK p \in Peer : cycle[n][k].orphan = <<p>>
      BY <1>2, <2>3 DEF OnTrack, Holds
    <3>2. QED
      BY <2>1, <2>3, <3>1 DEF Asked
  <2>4. QED
    BY <2>2, <2>3
<1>4. misses[n][m] \in 0 .. 3 /\ asked.failures \in 0 .. 3
  BY <1>3 DEF TablesFit, Peer
<1>5. m \notin replaced => asked.failures <= misses[n][m]
  BY <1>3 DEF FailuresAreMisses
<1>6. /\ misses' = [misses EXCEPT ![n][m] = IF misses[n][m] = 3 THEN 3 ELSE misses[n][m] + 1]
      /\ accused' = IF misses[n][m] >= 2 THEN accused \cup {m} ELSE accused
  BY <1>1 DEF Lost
<1>7. misses' \in [Nodes -> [Nodes -> 0 .. 3]]
  BY <1>3, <1>4, <1>6 DEF TablesFit
<1>8. Guilty \subseteq Guilty' /\ accused \subseteq accused'
  BY <1>1, <1>6 DEF Guilty
<1>9. PICK peer \in Peer :
         /\ PeerBecomes(n, k, peer)
         /\ asked.failures < 3 => peer.failures = asked.failures + 1
         /\ peer.failures <= 3
         /\ \/ UNCHANGED store
            \/ asked.failures >= 2 /\ store' = [store EXCEPT ![n] = Marked(store[n], m)]
  <2>1. CASE asked.failures + 1 < 3
    <3> DEFINE peer == [asked EXCEPT !.failures = asked.failures + 1]
    <3>1. peer \in Peer /\ peer.failures = asked.failures + 1
      BY <1>3, <1>4, <2>1 DEF Peer
    <3>2. PeerBecomes(n, k, peer) /\ UNCHANGED store
      BY <2>1 DEF PullFails
    <3> HIDE DEF peer
    <3>3. QED
      BY <1>4, <2>1, <3>1, <3>2
  <2>2. CASE ~ (asked.failures + 1 < 3)
    <3> DEFINE peer == [failures |-> 3, reachable |-> FALSE]
    <3>1. peer \in Peer /\ peer.failures = 3
      BY DEF Peer
    <3>2. PeerBecomes(n, k, peer) /\ store' = [store EXCEPT ![n] = Marked(store[n], m)]
      BY <2>2 DEF PullFails
    <3> HIDE DEF peer
    <3>3. QED
      BY <1>4, <2>2, <3>1, <3>2
  <2>3. QED
    BY <2>1, <2>2
<1>10. /\ DOMAIN store' = Nodes
       /\ \A o \in Nodes : DOMAIN store[o] \subseteq DOMAIN store'[o] /\ Earned(store'[o], Guilty')
  <2>1. \A o \in Nodes : Earned(store[o], Guilty')
    BY <1>8, EarnedGrows DEF StatusesAreEarned
  <2>2. CASE UNCHANGED store
    BY <2>1, <2>2 DEF TablesFit
  <2>3. CASE asked.failures >= 2 /\ store' = [store EXCEPT ![n] = Marked(store[n], m)]
    <3>1. m \in Guilty'
      BY <1>1, <1>4, <1>5, <1>6, <2>3 DEF Guilty
    <3>2. DOMAIN Marked(store[n], m) = DOMAIN store[n]
      BY DEF Marked
    <3>3. Earned(Marked(store[n], m), Guilty')
      <4> SUFFICES ASSUME NEW a \in DOMAIN store[n]
                   PROVE  /\ Marked(store[n], m)[a] \in Agent
                          /\ Marked(store[n], m)[a].status = "remote_offline" => Home[a] \in Guilty'
        BY <3>2 DEF Earned
      <4>1. /\ store[n][a] \in Agent
            /\ store[n][a].status = "remote_offline" => Home[a] \in Guilty'
        BY <2>1 DEF Earned
      <4>2. CASE Home[a] = m
        <5>1. Marked(store[n], m)[a] = [store[n][a] EXCEPT !.status = "remote_offline"]
          BY <4>2 DEF Marked
        <5>2. QED
          BY <3>1, <4>1, <4>2, <5>1 DEF Agent
      <4>3. CASE Home[a] # m
        BY <4>1, <4>3 DEF Marked
      <4>4. QED
        BY <4>2, <4>3
    <3>4. QED
      BY <2>1, <2>3, <3>2, <3>3 DEF TablesFit
  <2>4. QED
    BY <1>9, <2>2, <2>3
<1>11. /\ DOMAIN peers' = Nodes
       /\ \A o \in Nodes : DOMAIN peers'[o] = DOMAIN peers[o] /\ Table(peers'[o])
       /\ \A o \in Nodes : \A p \in DOMAIN peers[o] :
             \/ peers'[o][p] = peers[o][p] /\ (o = n /\ p = m => p \in replaced)
             \/ o = n /\ p = m /\ peers'[o][p] = peer /\ cycle[n][k].orphan = None
       /\ \E c : /\ cycle' = [cycle EXCEPT ![n][k] = c]
                 /\ OnTrack(c, store[n], peers'[n], replaced, Guilty)
  BY <1>1, <1>9, PeerBecomesFacts
<1>12. FailuresAreMisses'
  <2> SUFFICES ASSUME NEW o \in Nodes, NEW p \in DOMAIN peers'[o] \ replaced
               PROVE  peers'[o][p].failures <= misses'[o][p]
    BY <1>1 DEF FailuresAreMisses
  <2>1. p \in DOMAIN peers[o] /\ p \in Nodes
    BY <1>11 DEF Table
  <2>2. CASE o = n /\ p = m
    <3>1. peers'[o][p] = peer
      BY <1>11, <2>1, <2>2
    <3>2. misses'[o][p] = IF misses[n][m] = 3 THEN 3 ELSE misses[n][m] + 1
      BY <1>3, <1>6, <2>2 DEF TablesFit
    <3>3. QED
      BY <1>4, <1>5, <1>9, <2>2, <3>1, <3>2
  <2>3. CASE ~ (o = n /\ p = m)
    <3>1. peers'[o][p] = peers[o][p]
      BY <1>11, <2>1, <2>3
    <3>2. misses'[o][p] = misses[o][p]
      BY <1>3, <1>6, <2>1, <2>3 DEF TablesFit
    <3>3. QED
      BY <2>1, <3>1, <3>2 DEF FailuresAreMisses
  <2>4. QED
    BY <2>2, <2>3
<1>13. StatusesAreEarned'
  BY <1>1, <1>8, <1>10, EarnedGrows DEF StatusesAreEarned
<1>14. PICK c : /\ cycle' = [cycle EXCEPT ![n][k] = c]
                /\ OnTrack(c, store[n], peers'[n], replaced, Guilty)
  BY <1>11
<1>15. OnTrack(c, store'[n], peers'[n], replaced', Guilty')
  <2>1. DOMAIN store[n] \subseteq DOMAIN store'[n]
    BY <1>10
  <2>2. QED
    BY <1>1, <1>8, <1>14, <2>1, OnTrackGrows
<1>16. QED
  BY <1>1, <1>7, <1>8, <1>10, <1>11, <1>12, <1>13, <1>14, <1>15, CycleStep

-------------------------------------------------------------------------------
(* What a push carries is earned, and so is what it leaves at the peer.                *)
LEMMA PushedEarned ==
    ASSUME GossipInvariant, NEW n \in Nodes, NEW k \in Cycles
    PROVE  Earned(Pushed(n, k), Guilty)
<1>1. Holds(cycle[n][k], store[n], peers[n], Guilty) /\ Earned(store[n], Guilty)
  BY DEF GossipInvariant, CyclesOnTrack, OnTrack, StatusesAreEarned
<1>2. QED
  BY <1>1, RestrictedEarned, OverlaidEarned DEF Pushed, Holds

LEMMA MergesEarned ==
    ASSUME NEW mine, NEW theirs, NEW guilty, Earned(mine, guilty), Earned(theirs, guilty),
           NEW merged \in Merges(mine, theirs)
    PROVE  Earned(merged, guilty) /\ DOMAIN mine \subseteq DOMAIN merged
<1>1. PICK taken : taken \subseteq DOMAIN theirs /\ merged = Overlay(mine, Restrict(theirs, taken))
  BY DEF Merges
<1>2. Earned(Restrict(theirs, taken), guilty)
  BY <1>1, RestrictedEarned
<1>3. DOMAIN mine \subseteq DOMAIN merged
  BY <1>1 DEF Overlay
<1>4. QED
  BY <1>1, <1>2, <1>3, OverlaidEarned

(* A push that ends leaves peers and accusations alone.                                *)
LEMMA PushEndsStep ==
    ASSUME GossipInvariant, NEW n \in Nodes, NEW k \in Cycles,
           cycle[n][k].at = "push", PushEnds(n, k),
           UNCHANGED <<peers, now, misses, accused, replaced>>,
           DOMAIN store' = Nodes, \A o \in Nodes : DOMAIN store[o] \subseteq DOMAIN store'[o],
           StatusesAreEarned'
    PROVE  GossipInvariant'
<1> USE DEF GossipInvariant
<1>1. PICK d \in GoesOn(cycle[n][k], peers[n]) : cycle' = [cycle EXCEPT ![n][k] = d]
  BY DEF PushEnds
<1>2. OnTrack(cycle[n][k], store[n], peers[n], replaced, Guilty) /\ Table(peers[n])
  BY DEF CyclesOnTrack, TablesFit
<1>3. OnTrack(d, store[n], peers[n], replaced, Guilty)
  BY <1>2, GoesOnOnTrack DEF OnTrack
<1>4. DOMAIN store[n] \subseteq DOMAIN store'[n] /\ Guilty' = Guilty
  BY DEF Guilty
<1>5. OnTrack(d, store'[n], peers'[n], replaced', Guilty')
  BY <1>3, <1>4, OnTrackGrows
<1>6. FailuresAreMisses'
  BY DEF FailuresAreMisses
<1>7. QED
  BY <1>1, <1>5, <1>6, CycleStep DEF TablesFit

(* The store of one node takes what was pushed to it.                                  *)
LEMMA MergedStores ==
    ASSUME GossipInvariant, NEW n, NEW theirs, Earned(theirs, Guilty),
           NEW merged \in Merges(store[n], theirs), store' = [store EXCEPT ![n] = merged]
    PROVE  /\ DOMAIN store' = Nodes
           /\ \A o \in Nodes : DOMAIN store[o] \subseteq DOMAIN store'[o] /\ Earned(store'[o], Guilty)
<1>1. \A o \in Nodes : Earned(store[o], Guilty)
  BY DEF GossipInvariant, StatusesAreEarned
<1>2. n \in Nodes => Earned(merged, Guilty) /\ DOMAIN store[n] \subseteq DOMAIN merged
  BY <1>1, MergesEarned
<1>3. QED
  BY <1>1, <1>2 DEF GossipInvariant, TablesFit
LEMMA PushStep ==
    ASSUME GossipInvariant, NEW n \in Nodes, NEW k \in Cycles, Push(n, k)
    PROVE  GossipInvariant'
<1>1. PICK merged \in Merges(store[cycle[n][k].on], Pushed(n, k)) :
         store' = [store EXCEPT ![cycle[n][k].on] = merged]
  BY DEF Push
<1>2. /\ cycle[n][k].at = "push" /\ PushEnds(n, k)
      /\ UNCHANGED <<peers, late, now, misses, accused, replaced>> /\ Guilty' = Guilty
  BY DEF Push, ghosts, Guilty
<1>3. /\ DOMAIN store' = Nodes
      /\ \A o \in Nodes : DOMAIN store[o] \subseteq DOMAIN store'[o] /\ Earned(store'[o], Guilty)
  BY <1>1, PushedEarned, MergedStores
<1>4. StatusesAreEarned'
  BY <1>2, <1>3 DEF StatusesAreEarned, GossipInvariant
<1>5. QED
  BY <1>2, <1>3, <1>4, PushEndsStep

LEMMA PushFailsStep ==
    ASSUME GossipInvariant, NEW n \in Nodes, NEW k \in Cycles, PushFails(n, k)
    PROVE  GossipInvariant'
<1>1. /\ cycle[n][k].at = "push" /\ PushEnds(n, k)
      /\ UNCHANGED <<store, peers, now, misses, accused, replaced>> /\ Guilty' = Guilty
  BY DEF PushFails, ghosts, Guilty
<1>2. ASSUME NEW delta \in late' PROVE Earned(delta.agents, Guilty)
  <2>1. CASE delta \in late
    BY <2>1 DEF GossipInvariant, StatusesAreEarned
  <2>2. CASE delta = [to |-> cycle[n][k].on, agents |-> Pushed(n, k)]
    BY <2>2, PushedEarned
  <2>3. QED
    BY <2>1, <2>2 DEF PushFails
<1>3. StatusesAreEarned'
  BY <1>1, <1>2 DEF StatusesAreEarned, GossipInvariant
<1>4. DOMAIN store' = Nodes /\ \A o \in Nodes : DOMAIN store[o] \subseteq DOMAIN store'[o]
  BY <1>1 DEF GossipInvariant, TablesFit
<1>5. QED
  BY <1>1, <1>3, <1>4, PushEndsStep

LEMMA ArrivesLateStep ==
    ASSUME GossipInvariant, NEW delta \in late, ArrivesLate(delta)
    PROVE  GossipInvariant'
<1> USE DEF GossipInvariant
<1>1. /\ UNCHANGED <<peers, cycle, now, misses, accused, replaced>> /\ Guilty' = Guilty
      /\ late' \subseteq late
  BY DEF ArrivesLate, ghosts, Guilty
<1>2. /\ DOMAIN store' = Nodes
      /\ \A o \in Nodes : DOMAIN store[o] \subseteq DOMAIN store'[o] /\ Earned(store'[o], Guilty)
  <2>1. CASE UNCHANGED store
    BY <2>1 DEF TablesFit, StatusesAreEarned
  <2>2. CASE ~ UNCHANGED store
    <3>1. PICK merged \in Merges(store[delta.to], delta.agents) :
             store' = [store EXCEPT ![delta.to] = merged]
      BY <2>2 DEF ArrivesLate
    <3>2. Earned(delta.agents, Guilty)
      BY DEF StatusesAreEarned
    <3>3. QED
      BY <3>1, <3>2, MergedStores
  <2>3. QED
    BY <2>1, <2>2
<1>3. TablesFit'
  BY <1>1, <1>2 DEF TablesFit, Table
<1>4. CyclesOnTrack'
  <2> SUFFICES ASSUME NEW n \in Nodes, NEW k \in Cycles
               PROVE  OnTrack(cycle[n][k], store'[n], peers[n], replaced, Guilty)
    BY <1>1 DEF CyclesOnTrack
  <2> QED
    BY <1>2, OnTrackGrows DEF CyclesOnTrack
<1>5. FailuresAreMisses'
  BY <1>1 DEF FailuresAreMisses
<1>6. StatusesAreEarned'
  BY <1>1, <1>2 DEF StatusesAreEarned
<1>7. QED
  BY <1>3, <1>4, <1>5, <1>6

(* The variables the invariant reads.                                                *)
LEMMA NothingGossiped ==
    ASSUME GossipInvariant, UNCHANGED <<store, peers, cycle, late, now, misses, accused, replaced>>
    PROVE  GossipInvariant'
BY DEF GossipInvariant, TablesFit, CyclesOnTrack, FailuresAreMisses, StatusesAreEarned, Guilty

LEMMA GossipKeeps == GossipInvariant /\ [GossipNext]_gossipVars => GossipInvariant'
<1> SUFFICES ASSUME GossipInvariant, [GossipNext]_gossipVars PROVE GossipInvariant'
  OBVIOUS
<1>1. CASE \E n \in Nodes, k \in Cycles : Step(n, k)
  BY <1>1, BeginStep, PullAnsweredStep, PullFailsStep, PushStep, PushFailsStep DEF Step
<1>2. ASSUME NEW n \in Nodes, Die(n) \/ Restart(n) PROVE GossipInvariant'
  <2>1. CASE Die(n)
    BY <2>1, DieStep
  <2>2. CASE Restart(n)
    BY <2>2, NothingGossiped DEF Restart, ghosts
  <2>3. QED
    BY <1>2, <2>1, <2>2
<1>3. CASE \E n, m \in Nodes : AddPeer(n, m) \/ RemovePeer(n, m)
  BY <1>3, AddPeerStep, RemovePeerStep
<1>4. CASE \E a \in Agents : Register(a)
  BY <1>4, RegisterStep
<1>5. CASE \E n \in Nodes, a \in Agents : Heartbeat(n, a) \/ Deregister(n, a) \/ Sweep(n, a)
  BY <1>5, HeartbeatStep, DeregisterStep, SweepStep
<1>6. CASE \E delta \in late : ArrivesLate(delta)
  BY <1>6, ArrivesLateStep
<1>7. CASE UNCHANGED gossipVars
  BY <1>7, NothingGossiped DEF gossipVars, nodeVars, ghosts
<1>8. QED
  BY <1>1, <1>2, <1>3, <1>4, <1>5, <1>6, <1>7 DEF GossipNext

THEOREM GossipInvariantHolds == GossipSpec => []GossipInvariant
BY GossipStarts, GossipKeeps, PTL DEF GossipSpec

(* Whatever the nodes, agents and homes, however many events: an agent is held to be     *)
(* remote_offline, at any node, only if its node missed three answers in a row or its    *)
(* peer object was replaced during a pull.                                           *)
THEOREM VerdictsAreAlwaysEarned == GossipSpec => []VerdictsAreEarned
<1>1. GossipInvariant => VerdictsAreEarned
  BY DEF GossipInvariant, StatusesAreEarned, Earned, VerdictsAreEarned, Guilty
<1>2. QED
  BY <1>1, GossipInvariantHolds, PTL

===============================================================================
