---- MODULE MCGate ----
EXTENDS ShareGate, TLC
MCProcOf == [c \in Callers |-> IF c = "c3" THEN "p2" ELSE "p1"]
====
