--------------------------- MODULE MCEffectJournal ---------------------------
(* Two Runtime processes; the first has two threads that share its store.   *)
EXTENDS EffectJournal, TLC

CONSTANTS c1, c2, c3, p1, p2

MCHome == (c1 :> p1) @@ (c2 :> p1) @@ (c3 :> p2)
MCMaxCalls == (c1 :> 1) @@ (c2 :> 1) @@ (c3 :> 1)
===============================================================================
