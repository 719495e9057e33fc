------------------------------ MODULE MerkleLedger ------------------------------
(***************************************************************************)
(* The action ledger (merkle_ledger.py): entries are appended, the root of their hash    *)
(* tree is computed again, and a proof of inclusion is given for an action.  A leaf is     *)
(* the entry's number (its timestamp makes it unique) and the hash of two nodes is their   *)
(* concatenation, injective between nodes of one layer, as the digest is.              *)
(***************************************************************************)
EXTENDS Integers, Sequences, SequencesExt, FiniteSetsExt

CONSTANT ActionIds     \* one may be recorded again

VARIABLES
    entries,       \* the action id of every entry
    root,          \* _root_hash
    proofs         \* the proofs given so far

ledgerVars == <<entries, root, proofs>>

EmptyRoot == <<>>
LedgerInit == entries = <<>> /\ root = EmptyRoot /\ proofs = {}

-------------------------------------------------------------------------------
(* A layer's last node is paired with itself when their number is odd.                *)
NextLayer(layer) ==
    [i \in 1 .. (Len(layer) + 1) \div 2 |->
        layer[2 * i - 1] \o (IF 2 * i <= Len(layer) THEN layer[2 * i] ELSE layer[2 * i - 1])]

(* The layers over n leaves, up to the first of one node at most.                   *)
Leaves(n) == [i \in 1 .. n |-> <<i>>]
Layers(n) ==
    LET layer[k \in Nat] == IF k = 0 THEN Leaves(n) ELSE NextLayer(layer[k - 1]) IN layer
Height(n) == Min({k \in 0 .. n : Len(Layers(n)[k]) <= 1})

RootOf(n) == IF n = 0 THEN EmptyRoot ELSE Layers(n)[Height(n)][1]

(* Defect: an odd last node is proved by its neighbour.                             *)
SiblingBefore(layer, i) == IF i % 2 = 0 \/ i = Len(layer) THEN layer[i - 1] ELSE layer[i + 1]

Sibling(layer, i) ==
    IF i % 2 = 0 THEN layer[i - 1]
    ELSE IF i < Len(layer) THEN layer[i + 1] ELSE layer[i]

(* The place of leaf i is halved from layer to layer.                             *)
Places(i) == LET place[k \in Nat] == IF k = 0 THEN i ELSE (place[k - 1] + 1) \div 2 IN place

AuditPath(n, i) ==
    [k \in 1 .. Height(n) |->
        LET place == Places(i)[k - 1] IN
        [left |-> place % 2 = 0, hash |-> Sibling(Layers(n)[k - 1], place)]]

RecordAction(id) ==
    /\ entries' = Append(entries, id) /\ root' = RootOf(Len(entries')) /\ UNCHANGED proofs

(* The first entry of the action is the one proved.                               *)
GenerateInclusionProof(id) ==
    \E i \in 1 .. Len(entries) :
        /\ entries[i] = id /\ \A j \in 1 .. i - 1 : entries[j] # id
        /\ proofs' = proofs \cup {[leaf |-> <<i>>, size |-> Len(entries), root |-> root,
                                   path |-> AuditPath(Len(entries), i)]}
        /\ UNCHANGED <<entries, root>>

Combined(step, node) == IF step.left THEN step.hash \o node ELSE node \o step.hash

Climb(path, leaf) ==
    LET node[k \in 0 .. Len(path)] == IF k = 0 THEN leaf ELSE Combined(path[k], node[k - 1]) IN node

Verify(proof, leaf) == Climb(proof.path, leaf)[Len(proof.path)] = proof.root

LedgerCall == \E id \in ActionIds : RecordAction(id) \/ GenerateInclusionProof(id)

-------------------------------------------------------------------------------
(* A proof given at any size verifies, for its own leaf and no other, against the root    *)
(* of the entries there were: recording more never makes it claim something else           *)
(* (generate_inclusion_proof, verify, _recompute_tree).                             *)
ProofsBindTheirEntry ==
    \A proof \in proofs :
        /\ proof.root = RootOf(proof.size)
        /\ \A i \in 1 .. Len(entries) : Verify(proof, <<i>>) <=> <<i>> = proof.leaf
===============================================================================
