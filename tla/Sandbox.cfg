SPECIFICATION Spec
CONSTANTS
  Calls = {a, b}
  MaxAttempts = 2
  MaxCrashes = 1
  None = None
INVARIANT SuccessIsWhole
PROPERTY CallSettles
