-------------------------------- MODULE MCStream --------------------------------
(* BuildLog and Dashboard, what a browser streams, each by itself: which one *)
(* moves is chosen at the start, and the other stays where it begins.        *)
EXTENDS BuildLog, Dashboard

VARIABLE part

streamVars == <<logVars, dashVars, part>>

StreamInit == LogInit /\ DashInit /\ part \in {"log", "dashboard"}

StreamNext ==
  /\ UNCHANGED part
  /\ \/ part = "log" /\ LogNext /\ UNCHANGED dashVars
     \/ part = "dashboard" /\ DashNext /\ UNCHANGED <<logVars>>

\* No fair action of a module can change anything where the module begins.
StreamSpec == StreamInit /\ [][StreamNext]_streamVars /\ LogFairness /\ DashFairness

\* Both type invariants.
StreamTypeOK == LogTypeOK /\ DashTypeOK
===============================================================================
