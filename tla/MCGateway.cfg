SPECIFICATION Spec
CONSTANTS
  Callers <- MCCallers
  Models <- MCModels
  Candidates <- MCCandidates
  Attempts = 3
  Threshold = 3
INVARIANTS
  TypeOK
  FailsInVain
  LateRequestsBound
PROPERTIES
  CallReturns
