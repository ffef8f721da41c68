------------------------------- MODULE MCParts --------------------------------
(* Parts that share no state, each by itself: which one moves is chosen at the *)
(* start, and the others stay where they begin.                                *)
EXTENDS Intake, Pipeline, Comment, ZrokNames, Exposers, Vault, Provision, Platform, Setup, TLC

CONSTANTS p1, p2, f1

VARIABLE part

MCPRs == {p1, p2}
MCForks == {f1}
MCSym == Permutations(MCPRs)

MCZrokNameOf == [k \in Keys |->
  CASE k = "site" -> "branch" [] k \in {"b1", "b2"} -> "c1" [] OTHER -> "c2"]
MCPreviewOf == [k \in PubKeys |-> IF k \in {"a1", "a2"} THEN "a" ELSE k]
MCPubName == [k \in PubKeys |-> IF k = "a" THEN "na" ELSE "n"]
MCForms == {{"token", "frontend", "env", "agent"}, {"gateway id"}, {"identity", "service"}}

\* What is chosen in the beginning is chosen only for the part that moves.
PartsInit ==
  /\ part \in {"intake", "pipeline", "comment", "zrok", "exposers", "vault", "provision",
               "platform", "setup"}
  /\ IntakeInit /\ PipelineInit /\ CommentInit /\ NamesInit /\ ExposersInit
  /\ VaultInit /\ ProvisionInit /\ PlatformInit /\ SetupInit
  /\ part # "intake" => project = "none"
  /\ part # "pipeline" => driver = "docker" /\ \A b \in Runs : commitOf[b] = CHOOSE c \in Commits : TRUE
  /\ part # "exposers" => kind = "local"
  /\ part # "vault" => fromFile = TRUE
  /\ part # "platform" => client = "github"
  /\ part # "setup" => configKind = "local" /\ issued = {}

Others(p, v) == part # p => UNCHANGED v

PartsNext ==
  /\ UNCHANGED part
  /\ Others("intake", intakeVars) /\ Others("pipeline", pipeVars)
  /\ Others("comment", commentVars) /\ Others("zrok", nameVars)
  /\ Others("exposers", expoVars) /\ Others("vault", vaultVars)
  /\ Others("provision", provVars) /\ Others("platform", platVars)
  /\ Others("setup", setupVars)
  /\ \/ part = "intake" /\ IntakeNext
     \/ part = "pipeline" /\ PipelineNext
     \/ part = "comment" /\ CommentNext
     \/ part = "zrok" /\ NamesNext
     \/ part = "exposers" /\ ExposersNext
     \/ part = "vault" /\ VaultNext
     \/ part = "provision" /\ ProvisionNext
     \/ part = "platform" /\ PlatformNext
     \/ part = "setup" /\ SetupNext

PartsSpec ==
  PartsInit /\ [][PartsNext]_<<intakeVars, pipeVars, commentVars, nameVars, expoVars, vaultVars,
                               provVars, platVars, setupVars, part>>

\* The type invariant of the part that moves.
PartsTypeOK ==
  CASE part = "intake" -> IntakeTypeOK
    [] part = "pipeline" -> PipelineTypeOK
    [] part = "comment" -> CommentTypeOK
    [] part = "zrok" -> NamesTypeOK
    [] part = "exposers" -> ExposersTypeOK
    [] part = "vault" -> VaultTypeOK
    [] part = "provision" -> ProvisionTypeOK
    [] part = "platform" -> PlatformTypeOK
    [] part = "setup" -> SetupTypeOK
===============================================================================
