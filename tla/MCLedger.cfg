SPECIFICATION Spec
CONSTANTS
  Writers <- MCWriters
  Processes <- MCProcesses
  ProcessOf <- MCProcessOf
  None = None
  MaxWrites = 2
  MaxCrashes = 1
  MaxFaults = 1
CHECK_DEADLOCK FALSE
INVARIANTS
  TypeOK
  ChainIntact
  OnlyRivalsCollide
  VerifiedIsTrue
PROPERTIES
  AppendEnds
  AppendsOnly
