------------------------------ MODULE MCHandover ------------------------------
(* Recovery, what a restart makes of the tables, and Reports, what the platform *)
(* is told: each by itself. Which one moves is chosen at the start, and the     *)
(* other stays where it begins.                                                 *)
EXTENDS Recovery, Reports, TLC

VARIABLE part

Symmetry ==
  Permutations(Commits) \cup Permutations(HeadCommits) \cup Permutations(Requests)

HandoverInit ==
  /\ Init /\ ReportsInit /\ part \in {"recovery", "reports"}
  /\ part = "recovery" => \A r \in Requests : headOf[r] = CHOOSE c \in HeadCommits : TRUE

HandoverNext ==
  /\ UNCHANGED part
  /\ \/ part = "recovery" /\ Next /\ UNCHANGED reportVars
     \/ part = "reports" /\ ReportsNext /\ UNCHANGED vars

HandoverSpec == HandoverInit /\ [][HandoverNext]_<<vars, reportVars, part>>
===============================================================================
