---------------------------- MODULE MCWorkflowRun ----------------------------
(* One run with two effects: turns that ask for one tool or for both.        *)
EXTENDS WorkflowRun

CONSTANTS e1, e2

MCEffects == {e1, e2}
MCToolCallLists == {<<e1>>, <<e1, e2>>}
===============================================================================
