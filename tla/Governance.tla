------------------------------- MODULE Governance -------------------------------
(***************************************************************************)
(* The governance coordinator (executor/governance.py): votes on decisions, their     *)
(* aggregation by a strategy, the decision kept, the conflicts found and recorded.     *)
(* One project; confidences are tenths, the two of an instance neither 3 nor 5 apart,   *)
(* where the code compares rounded differences.                                  *)
(***************************************************************************)
EXTENDS Integers, Sequences, SequencesExt, FiniteSetsExt

CONSTANTS
    Voters,        \* the agents of the configuration
    Decisions,     \* decision ids
    Confidences,   \* tenths, of submitted votes
    MaxHistory     \* max_conflict_history

VoteTypes == {"GO", "NO_GO", "CONDITIONAL_GO", "ABSTAIN"}
Strategies == {"simple", "weighted", "unanimity", "confidence", "super"}

VARIABLES
    strategy, enabled,
    votes,         \* of every decision, in the order the voters first voted
    decided,       \* _decisions: the type and confidence kept, as <<type, sum, count>>
    conflicts,     \* the project's conflicts
    history        \* _conflict_history, over all projects

governanceVars == <<strategy, enabled, votes, decided, conflicts, history>>

NoDecision == <<"none", 0, 0>>

GovernanceInit ==
    /\ strategy \in Strategies /\ enabled = Voters
    /\ votes = [d \in Decisions |-> <<>>] /\ decided = [d \in Decisions |-> NoDecision]
    /\ conflicts = <<>> /\ history = <<>>

-------------------------------------------------------------------------------
(* Aggregation.  A confidence is a sum of tenths over a count.                      *)
OfType(vs, type) == SelectSeq(vs, LAMBDA v : v.type = type)
Count(vs, type) == Len(OfType(vs, type))
Sum(vs) == FoldSeq(LAMBDA v, s : v.conf + s, 0, vs)
Average(vs, type) == <<type, Sum(OfType(vs, type)), Count(vs, type)>>

(* The weights are left out of the comparison: weighted is a simple majority.         *)
Majority(vs) ==
    LET most == Max({Count(vs, t) : t \in VoteTypes \ {"ABSTAIN"}}) IN
    Average(vs, CASE Count(vs, "GO") = most -> "GO"
                  [] Count(vs, "GO") # most /\ Count(vs, "CONDITIONAL_GO") = most -> "CONDITIONAL_GO"
                  [] OTHER -> "NO_GO")
Unanimity(vs) ==
    CASE vs = <<>> -> <<"NO_GO", 0, 1>>
      [] vs # <<>> /\ Count(vs, "GO") = Len(vs) -> Average(vs, "GO")
      [] vs # <<>> /\ Count(vs, "NO_GO") = Len(vs) -> Average(vs, "NO_GO")
      [] OTHER -> <<"CONDITIONAL_GO", 5, 1>>
(* The type of the greatest sum, of equal ones that of the earliest vote.            *)
ByConfidence(vs) ==
    IF vs = <<>> THEN <<"NO_GO", 0, 1>>
    ELSE LET Weight(i) == Sum(OfType(vs, vs[i].type))
             best == CHOOSE i \in 1 .. Len(vs) :
                       \A j \in 1 .. Len(vs) : Weight(i) > Weight(j) \/ (Weight(i) = Weight(j) /\ i <= j)
         IN Average(vs, vs[best].type)
SuperMajority(vs) ==
    CASE vs # <<>> /\ 3 * Count(vs, "GO") >= 2 * Len(vs) -> Average(vs, "GO")
      [] vs # <<>> /\ 3 * Count(vs, "NO_GO") >= 2 * Len(vs) -> Average(vs, "NO_GO")
      [] OTHER -> Majority(vs)
Aggregate(vs) ==
    CASE strategy = "unanimity" -> Unanimity(vs)
      [] strategy = "confidence" -> ByConfidence(vs)
      [] strategy = "super" -> SuperMajority(vs)
      [] OTHER -> Majority(vs)

(* Conflicts: GO against NO_GO, graded by the mean of the two mean confidences; else    *)
(* a gap of confidence over 0.3.                                                *)
Above(vs, bound) ==    \* whether the combined confidence is above bound tenths
    LET go == Average(vs, "GO")  no == Average(vs, "NO_GO")
    IN go[2] * no[3] + no[2] * go[3] > 2 * bound * go[3] * no[3]
Gap(vs) == Max({v.conf : v \in ToSet(vs)}) - Min({v.conf : v \in ToSet(vs)})
Conflict(d, vs) ==
    CASE Len(vs) < 2 -> "none"
      [] Len(vs) >= 2 /\ Count(vs, "GO") > 0 /\ Count(vs, "NO_GO") > 0 ->
           IF Above(vs, 7) THEN "high" ELSE "medium"
      [] OTHER -> IF Gap(vs) > 5 THEN "high" ELSE IF Gap(vs) > 3 THEN "medium" ELSE "none"

(* Detecting records what is found, every time: n times in a call that detects n times. *)
Recorded(d, n) ==
    LET found == [i \in 1 .. n |-> <<d, Conflict(d, votes[d])>>]
        kept  == history \o found
    IN  IF Conflict(d, votes[d]) = "none" THEN UNCHANGED <<conflicts, history>>
        ELSE /\ conflicts' = conflicts \o found
             /\ history' = SubSeq(kept, Max({1, Len(kept) - MaxHistory + 1}), Len(kept))

-------------------------------------------------------------------------------
(* Defect: the decision kept outlives the vote it was made on.                      *)
SubmitVoteKeeping(a, d, type, conf) ==
    LET vote == [voter |-> a, type |-> type, conf |-> conf]
        at == {i \in 1 .. Len(votes[d]) : votes[d][i].voter = a}
    IN  /\ a \in enabled
        /\ votes' = [votes EXCEPT ![d] = IF at = {} THEN Append(@, vote)
                                         ELSE [i \in DOMAIN @ |-> IF i \in at THEN vote ELSE @[i]]]
        /\ UNCHANGED <<strategy, enabled, decided, conflicts, history>>

SubmitVote(a, d, type, conf) ==
    LET vote == [voter |-> a, type |-> type, conf |-> conf]
        at == {i \in 1 .. Len(votes[d]) : votes[d][i].voter = a}
    IN  /\ a \in enabled
        /\ votes' = [votes EXCEPT ![d] = IF at = {} THEN Append(@, vote)
                                         ELSE [i \in DOMAIN @ |-> IF i \in at THEN vote ELSE @[i]]]
        /\ decided' = [decided EXCEPT ![d] = NoDecision]
        /\ UNCHANGED <<strategy, enabled, conflicts, history>>

SetEnabled(a) ==
    /\ enabled' = IF a \in enabled THEN enabled \ {a} ELSE enabled \cup {a}
    /\ UNCHANGED <<strategy, votes, decided, conflicts, history>>

DetectConflicts(d) == Recorded(d, 1) /\ UNCHANGED <<strategy, enabled, votes, decided>>

AggregateDecision(d) ==
    /\ decided[d] = NoDecision
    /\ decided' = [decided EXCEPT ![d] = Aggregate(votes[d])]
    /\ Recorded(d, 1) /\ UNCHANGED <<strategy, enabled, votes>>

(* A high severity goes to a human; otherwise the decision is made, if not kept.       *)
ResolveConflict(d) ==
    /\ IF Conflict(d, votes[d]) = "high" \/ decided[d] # NoDecision
       THEN Recorded(d, 1) /\ UNCHANGED decided
       ELSE Recorded(d, 2) /\ decided' = [decided EXCEPT ![d] = Aggregate(votes[d])]
    /\ UNCHANGED <<strategy, enabled, votes>>

ClearVotes(d) ==
    /\ votes' = [votes EXCEPT ![d] = <<>>] /\ decided' = [decided EXCEPT ![d] = NoDecision]
    /\ UNCHANGED <<strategy, enabled, conflicts, history>>

ClearProject ==
    /\ votes' = [d \in Decisions |-> <<>>] /\ decided' = [d \in Decisions |-> NoDecision]
    /\ conflicts' = <<>> /\ UNCHANGED <<strategy, enabled, history>>

GovernanceCall ==
    \/ \E d \in Decisions :
         \/ \E a \in Voters, t \in VoteTypes, c \in Confidences : SubmitVote(a, d, t, c)
         \/ DetectConflicts(d) \/ AggregateDecision(d) \/ ResolveConflict(d) \/ ClearVotes(d)
    \/ \E a \in Voters : SetEnabled(a)
    \/ ClearProject

-------------------------------------------------------------------------------
(* A decision that is kept is the one the present votes would give, after votes are       *)
(* replaced, cleared, or added once it was made (submit_vote, aggregate_decision,         *)
(* clear_votes, clear_project).                                                  *)
DecisionIsCurrent == \A d \in Decisions : decided[d] # NoDecision => decided[d] = Aggregate(votes[d])
===============================================================================
