SPECIFICATION Spec
CONSTANTS
  None = None
  StepIds <- MCStepIds
  ToolNames <- MCToolNames
  Tools <- RegistryTools
  Risk <- ManifestRisk
  ToolResults <- RegistryResults
  Inputs <- MCInputs
  BlockedInputs <- MCBlockedInputs
  Policy = "graded"
  MaxSteps = 5
  MaxToolCalls = 3
  DemoMode = FALSE
  DefaultPlan <- CreateDefaultPlan
  ModelPlans <- MCModelPlans
INVARIANTS
  TypeOK
  CallsAuthorized
  BudgetsBound
  AttemptsBound
  StepsInOrder
  AnalyzedOnce
  WaitingIsAsking
  EndIsReported
PROPERTIES
  KeepsLifecycle
CHECK_DEADLOCK FALSE
