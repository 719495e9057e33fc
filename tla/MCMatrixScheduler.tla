-------------------------- MODULE MCMatrixScheduler --------------------------
(* A launchd service (top) behind two services nobody manages: it depends on *)
(* middle, and middle on base; base and top have a health_url.                 *)
EXTENDS MatrixScheduler

CONSTANTS base, middle, top, m1, m2

MCOrder == <<base, middle, top>>
MCDependsOn == [x \in {base, middle, top} |->
    IF x = top THEN {middle} ELSE IF x = middle THEN {base} ELSE {}]
===============================================================================
