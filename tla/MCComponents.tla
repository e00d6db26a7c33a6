---------------------------- MODULE MCComponents ----------------------------
(* The instance TLC runs of the six modules that are about one component each.
   They share no state, so they do not take steps beside one another: the first
   state chooses the part that runs, and the others stay in their first state.
   The parts of one module bound it in different ways. *)
EXTENDS NodeAgent, NodeRegistry, NodeIdentity, Submissions, TrainingRun, LabelledData

CONSTANT Parts  \* those a run is about
VARIABLE part

\* A hot card only keeps the agent from polling: the parts without one (jobs and
\* tests, about safety only) have every state the agent reaches with one.
AgentPart ==
  \/ /\ part = "jobs" /\ AgentNext
     /\ refusedTokens' = {} /\ beat' = 0 /\ asks' = 0 /\ issued' <= 1 /\ restarts' = 0
     /\ tooHot' = FALSE
  \/ /\ part = "tests" /\ AgentNext
     /\ refusedTokens' = {} /\ beat' = 0 /\ issued' <= 1 /\ restarts' = 0
     /\ Cardinality(unseen') >= Cardinality(AgentJobs) - 1
     /\ tooHot' = FALSE
  \/ /\ part = "offers" /\ AgentNext
     /\ refusedTokens' = {} /\ issued' <= 1 /\ restarts' = 0 /\ asks' = 0
  \/ part = "session" /\ AgentNext /\ unseen' = unseen /\ asks' = 0
IdentityPart ==
  \/ part = "identity" /\ IdentityNext /\ generated' = 0
  \/ part = "challenge" /\ IdentityNext /\ \E f \in Flows : flow'[f].at = "off"
OneKey == CHOOSE k \in Keys : TRUE
SubmissionsPart ==
  \/ /\ part = "quota" /\ SendStep /\ UNCHANGED <<known, linked>>
     /\ \A s \in Senders : sends'[s].owner \in {OneKey, NoKey}
     /\ \A j \in 1..queued' : jobs'[j].owner # NoKey
  \/ /\ part = "accounts" /\ (AccountStep \/ SendStep)
     /\ \E s \in Senders : sends'[s] = Off
     /\ queued' <= 2
     /\ \A j \in JobIds : jobs'[j].recent = (j <= queued') /\ jobs'[j].how # "reopened"
  \/ part = "uploads" /\ UploadStep
ComponentsInit ==
  /\ AgentInit /\ RegistryInit /\ IdentityInit /\ SubmissionsInit /\ TrainingInit /\ LabelsInit
  /\ part \in Parts
ComponentsNext ==
  /\ \/ AgentPart /\ UNCHANGED <<registryVars, identityVars, submissionsVars, trainingVars, labelVars>>
     \/ /\ part = "registry" /\ RegistryNext
        /\ UNCHANGED <<agentVars, identityVars, submissionsVars, trainingVars, labelVars>>
     \/ IdentityPart /\ UNCHANGED <<agentVars, registryVars, submissionsVars, trainingVars, labelVars>>
     \/ SubmissionsPart /\ UNCHANGED <<agentVars, registryVars, identityVars, trainingVars, labelVars>>
     \/ /\ part = "training" /\ TrainingNext
        /\ UNCHANGED <<agentVars, registryVars, identityVars, submissionsVars, labelVars>>
     \/ /\ part = "labels" /\ LabelsNext
        /\ UNCHANGED <<agentVars, registryVars, identityVars, submissionsVars, trainingVars>>
  /\ UNCHANGED part
ComponentsSpec ==
  /\ ComponentsInit
  /\ [][ComponentsNext]_<<part, agentVars, registryVars, identityVars, submissionsVars,
                         trainingVars, labelVars>>
\* No module is fair to an action its first state enables.
ComponentsFairSpec ==
  ComponentsSpec /\ AgentFairness /\ RegistryFairness /\ IdentityFairness /\ TrainingFairness
-----------------------------------------------------------------------------
\* The types of all six modules, with what a type says of two variables together:
\* the memory holds no machine without a row, no key is linked twice, a run that
\* is over has an outcome, an index stands for a name.
ComponentsTypeOK ==
  /\ AgentTypeOK /\ RegistryTypeOK /\ IdentityTypeOK
  /\ SubmissionsTypeOK /\ TrainingTypeOK /\ LabelsTypeOK
=============================================================================
