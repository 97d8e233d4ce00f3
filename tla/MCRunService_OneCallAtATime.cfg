SPECIFICATION Spec
CONSTANTS
  None = None
  StepIds <- MCStepIds
  ToolNames <- RegistryTools
  Tools <- RegistryTools
  Risk <- ManifestRisk
  ToolResults <- MCResults
  Inputs <- MCInputs
  BlockedInputs = {}
  Policy = "graded"
  MaxSteps = 5
  MaxToolCalls = 4
  DemoMode = FALSE
  DefaultPlan <- CreateDefaultPlan
  ModelPlans <- MCModelPlans
  Submissions <- MCSubmissions
  Slots <- MCSlots
  MaxCrashes = 1
  MaxAnswers = 2
  Repeats = TRUE
CHECK_DEADLOCK FALSE
INVARIANT
  OneCallAtATime
