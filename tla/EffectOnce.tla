------------------------------ MODULE EffectOnce ------------------------------
(***************************************************************************)
(* What the effect journal promises about one durable external effect per   *)
(* key, whoever asks for it and however often:                              *)
(*                                                                          *)
(*   - once the effect of a key is recorded as done it is never performed   *)
(*     again;                                                               *)
(*   - it is compensated only when it is done, and never again once the     *)
(*     compensation is recorded;                                            *)
(*   - nothing is recorded that was not performed.                          *)
(*                                                                          *)
(* Before it is recorded an effect may be performed several times: the      *)
(* record is written after the call returns, so the promise is "at least    *)
(* once until recorded, never after".                                       *)
(***************************************************************************)
EXTENDS Naturals

CONSTANT Keys                  \* the effect keys

VARIABLES
    ledger,                    \* ledger[k]: what the journal says of key k
    performed                  \* performed[<<t, k>>]: how often the outside
                               \* world saw the effect or its compensation

States == {"open", "done", "undone"}
Kinds == {"effect", "compensation"}

Init ==
    /\ ledger = [k \in Keys |-> "open"]
    /\ performed = [s \in Kinds \X Keys |-> 0]

(* The external effect takes place; nothing is recorded yet.               *)
Perform(k) ==
    /\ ledger[k] = "open"
    /\ performed' = [performed EXCEPT ![<<"effect", k>>] = @ + 1]
    /\ UNCHANGED ledger

(* Its success is recorded.                                                *)
Commit(k) ==
    /\ ledger[k] = "open"
    /\ performed[<<"effect", k>>] > 0
    /\ ledger' = [ledger EXCEPT ![k] = "done"]
    /\ UNCHANGED performed

(* The compensation takes place; nothing is recorded yet.                  *)
Revert(k) ==
    /\ ledger[k] = "done"
    /\ performed' = [performed EXCEPT ![<<"compensation", k>>] = @ + 1]
    /\ UNCHANGED ledger

(* The compensation is recorded, for good.                                 *)
CommitRevert(k) ==
    /\ ledger[k] = "done"
    /\ performed[<<"compensation", k>>] > 0
    /\ ledger' = [ledger EXCEPT ![k] = "undone"]
    /\ UNCHANGED performed

Next == \E k \in Keys : Perform(k) \/ Commit(k) \/ Revert(k) \/ CommitRevert(k)

Spec == Init /\ [][Next]_<<ledger, performed>>
===============================================================================
