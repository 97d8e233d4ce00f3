SPECIFICATION Spec
CONSTANTS
  None = None
  Ids <- MCIds
  Vectors <- MCVectors
  Sizes = {4, 8}
  DomainDocs <- MCDomainDocs
  Configs <- MCConfigs
  BatchSize = 2
  MaxRuns = 3
  MaxAborts = 1
  Agents = {a1}
  Consoles = {s1}
  SearchSize = 4
  MaxSearches = 1
CHECK_DEADLOCK FALSE
INVARIANTS
  TypeOK
  FinishedIsStored
  CheckpointIsStored
  NoRework
