-------------------------- MODULE ComponentsProofs --------------------------
(***************************************************************************)
(* The components beside one another: what TLC runs as one instance is a   *)
(* behaviour of every component's own specification, so what is proved of  *)
(* a component holds of the instance, whatever its bounds.                 *)
(***************************************************************************)
EXTENDS MCComponents, NodeAgentProofs, NodeProofs, SubmissionsProofs, TrainingRunProofs,
        LabelledDataProofs

componentVars == <<part, agentVars, registryVars, identityVars, submissionsVars,
                   trainingVars, labelVars>>

\* A step of the instance is a step of each component or leaves it as it is.
LEMMA PartsTakeTheirSteps ==
    ASSUME [ComponentsNext]_componentVars
    PROVE  /\ [AgentNext]_agentVars /\ [RegistryNext]_registryVars
           /\ [IdentityNext]_identityVars /\ [SubmissionsNext]_submissionsVars
           /\ [TrainingNext]_trainingVars /\ [LabelsNext]_labelVars
<1>1. CASE UNCHANGED componentVars
  BY <1>1 DEF componentVars
<1>2. CASE ComponentsNext
  <2>1. AgentPart => AgentNext
    BY DEF AgentPart
  <2>2. IdentityPart => IdentityNext
    BY DEF IdentityPart
  <2>3. SubmissionsPart => SubmissionsNext
    BY DEF SubmissionsPart, SubmissionsNext
  <2>4. QED
    BY <1>2, <2>1, <2>2, <2>3 DEF ComponentsNext
<1>3. QED
  BY <1>1, <1>2

\* Every behaviour of the instance is one of each component, so the run of the six
\* shows nothing that a component alone does not do, and the theorems hold in it.
THEOREM PartsAreComponents ==
    ComponentsSpec => /\ AgentSpec /\ RegistrySpec /\ IdentitySpec
                      /\ SubmissionsSpec /\ TrainingSpec /\ LabelsSpec
<1>1. ComponentsInit => /\ AgentInit /\ RegistryInit /\ IdentityInit
                        /\ SubmissionsInit /\ TrainingInit /\ LabelsInit
  BY DEF ComponentsInit
<1>2. ComponentsSpec => ComponentsInit /\ [][ComponentsNext]_componentVars
  BY DEF ComponentsSpec, componentVars
<1>3. QED
  BY <1>1, <1>2, PartsTakeTheirSteps, PTL
     DEF AgentSpec, RegistrySpec, IdentitySpec, SubmissionsSpec, TrainingSpec, LabelsSpec

\* Every component keeps its type in the instance: the memory of the coordinator
\* holds no machine without a row (nodes.py), no account has a key twice
\* (submitterService.py), a run that is over has an outcome (trainer.py), an index
\* stands for a name (artifacts.py).
THEOREM ComponentsTypeCorrect == ComponentsSpec => []ComponentsTypeOK
<1>1. (/\ AgentTypeOK /\ RegistryTypeOK /\ IdentityTypeOK
       /\ SubmissionsTypeOK /\ TrainingTypeOK /\ LabelsTypeOK) => ComponentsTypeOK
  BY DEF ComponentsTypeOK
<1>2. QED
  BY <1>1, PartsAreComponents, AgentTypeCorrect, RegistryTypeCorrect, IdentityTypeCorrect,
     SubmissionsTypeCorrect, TrainingTypeCorrect, LabelsTypeCorrect, PTL

\* All that the run of the instance checks in a state holds for every value of the
\* constants.
THEOREM ComponentsAreSafe ==
    ComponentsSpec =>
      [](/\ BusyIsOccupied /\ StopIsItsOwn /\ OwnerAnswersOnce /\ OwnersChoiceIsKept
         /\ MemoryKeepsTheSwitch /\ IdentityIsKept /\ TokensOfOneRound
         /\ JobQuotaHolds /\ ByteQuotaHolds /\ SentWorkIsInReach
         /\ PlanIsFair /\ StepIsOfTheWholeBatch /\ HeatIsNoticed
         /\ LabelsKeepTheirMeaning /\ NamedWorkFits)
BY PartsAreComponents, BusyIsOccupiedCorrect, StopIsItsOwnCorrect, OwnerAnswersOnceCorrect,
   OwnersChoiceIsKeptCorrect, MemoryKeepsTheSwitchCorrect, IdentityIsKeptCorrect,
   TokensOfOneRoundCorrect, JobQuotaHoldsCorrect, ByteQuotaHoldsCorrect, SentWorkIsInReachCorrect,
   PlanIsFairCorrect, StepIsOfTheWholeBatchCorrect, HeatIsNoticedCorrect,
   LabelsKeepTheirMeaningCorrect, NamedWorkFitsCorrect, PTL
=============================================================================
