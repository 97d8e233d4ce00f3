SPECIFICATION Spec
CONSTANTS
  None = None
  StepIds <- MCStepIds
  ToolNames <- MCToolNames
  Tools <- RegistryTools
  Risk <- ManifestRisk
  ToolResults <- RegistryResults
  Inputs <- MCInputs
  BlockedInputs <- MCBlockedInputs
  Policy = "graded"
  MaxSteps = 5
  MaxToolCalls = 3
  DemoMode = FALSE
  DefaultPlan <- CreateDefaultPlan
  ModelPlans <- MCModelPlans
INVARIANT
  AcceptedIsVerified
CHECK_DEADLOCK FALSE
