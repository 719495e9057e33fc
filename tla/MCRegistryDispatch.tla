-------------------------- MODULE MCRegistryDispatch --------------------------
(* Two agents, one able to do two things at once; both can do every task.    *)
(* Neither the tasks nor the pool's threads differ.                          *)
EXTENDS RegistryDispatch, TLC

CONSTANTS a1, a2, n1, n2, t1, t2, w1, w2

MCNodeOf == [a \in Agents |-> IF a = a1 THEN n1 ELSE n2]
MCConcurrency == [a \in Agents |-> IF a = a1 THEN 2 ELSE 1]
MCCanHandle == [t \in Tasks |-> Agents]
MCSymmetry == Permutations(Tasks) \cup Permutations(Workers)
===============================================================================
