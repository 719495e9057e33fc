------------------------------ MODULE MCGossipSync ------------------------------
(* The instances of GossipSync that TLC checks.                                *)
EXTENDS GossipSync

MCHome == [a \in Agents |-> IF a = "a1" THEN "n1" ELSE "n2"]
Peered(one, two, three) ==
    [n \in Nodes |-> CASE n = "n1" -> one [] n = "n2" -> two [] n = "n3" -> three]
Quiet == [peers |-> Peered({"n2"}, {"n1"}, {}), loops |-> {"n1", "n2"},
          known |-> Peered({"a1"}, {"a1"}, {}), kinds |-> {}, mortal |-> {}, events |-> 3]

(* Heartbeats, sweeps and deregistrations between two nodes; a third node that      *)
(* passes on what it heard of a node that dies and comes back; cycles run by force   *)
(* beside the loop; peers that come and go; a peer that is added again while it is    *)
(* asked, which makes a row of failures outlive an answer.                        *)
MCCases == {
  [Quiet EXCEPT !.kinds = {"register", "heartbeat", "sweep", "deregister"}, !.loops = {"n1"},
                !.known = Peered({"a1"}, {}, {})],
  [Quiet EXCEPT !.peers = Peered({}, {"n1"}, {"n2"}), !.loops = {"n2", "n3"},
                !.known = Peered({"a1"}, {}, {"a1"}), !.mortal = {"n1"}, !.events = 4],
  [Quiet EXCEPT !.kinds = {"force"}, !.mortal = {"n1"}, !.events = 4],
  [Quiet EXCEPT !.peers = Peered({"n2", "n3"}, {}, {}), !.loops = {"n1"},
                !.known = Peered({"a2"}, {"a2"}, {}),
                !.kinds = {"peers", "force"}, !.mortal = {"n2"}],
  [Quiet EXCEPT !.peers = Peered({"n2"}, {}, {}), !.loops = {"n1"},
                !.known = Peered({"a2"}, {"a2"}, {}),
                !.kinds = {"peers", "force"}, !.events = 5]}
===============================================================================
