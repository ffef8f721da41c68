------------------------------ MODULE PartsProofs -------------------------------
(* The parts MCParts puts side by side: each keeps its types, whichever moves. *)
EXTENDS MCParts, OperatorProofs, PlatformProofs, PublishingProofs

\* Each part moves by its own steps or not at all.
LEMMA PartsMove ==
  ASSUME [PartsNext]_<<intakeVars, pipeVars, commentVars, nameVars, expoVars, vaultVars, provVars, platVars,
                       setupVars, part>>
  PROVE  /\ [IntakeNext]_intakeVars /\ [PipelineNext]_pipeVars /\ [CommentNext]_commentVars
         /\ [NamesNext]_nameVars /\ [ExposersNext]_expoVars /\ [VaultNext]_vaultVars
         /\ [ProvisionNext]_provVars /\ [PlatformNext]_platVars /\ [SetupNext]_setupVars
         /\ part' = part
BY DEF PartsNext, Others

\* Side by side as they are, every part has its types.
THEOREM PartsTypeCorrect == PartsSpec => []PartsTypeOK
<1> DEFINE Chosen == part \in {"intake", "pipeline", "comment", "zrok", "exposers", "vault", "provision",
                               "platform", "setup"}
<1>1. PartsSpec => []Chosen
  <2>1. PartsInit => Chosen
    BY DEF PartsInit
  <2>2. Chosen /\ [PartsNext]_<<intakeVars, pipeVars, commentVars, nameVars, expoVars, vaultVars, provVars,
                                platVars, setupVars, part>> => Chosen'
    BY PartsMove
  <2> HIDE DEF Chosen
  <2>3. QED BY <2>1, <2>2, PTL DEF PartsSpec
<1>2. /\ PartsInit => /\ IntakeInit /\ PipelineInit /\ CommentInit /\ NamesInit /\ ExposersInit
                      /\ VaultInit /\ ProvisionInit /\ PlatformInit /\ SetupInit
  BY DEF PartsInit
<1>3. /\ PartsSpec => IntakeSpec /\ PipelineSpec /\ CommentSpec
      /\ PartsSpec => NamesSpec /\ ExposersSpec /\ VaultSpec
      /\ PartsSpec => ProvisionSpec /\ PlatformSpec /\ SetupSpec
  BY <1>2, PartsMove, PTL DEF PartsSpec, IntakeSpec, PipelineSpec, CommentSpec, NamesSpec, ExposersSpec, VaultSpec,
     ProvisionSpec, PlatformSpec, SetupSpec
<1>4. Chosen /\ IntakeTypeOK /\ PipelineTypeOK /\ CommentTypeOK /\ NamesTypeOK /\ ExposersTypeOK /\ VaultTypeOK
        /\ ProvisionTypeOK /\ PlatformTypeOK /\ SetupTypeOK => PartsTypeOK
  BY DEF PartsTypeOK
<1> HIDE DEF Chosen
<1>5. QED
  BY <1>1, <1>3, <1>4, IntakeTypeCorrect, PipelineTyped, CommentTypeCorrect, NamesTypeCorrect, ExposersTypeCorrect,
     VaultTypeCorrect, ProvisionTypeCorrect, PlatformTypeCorrect, SetupTypeCorrect, PTL
===============================================================================
