SPECIFICATION IngestSpec
CONSTANTS
  Lists <- MCLists
  Sources <- MCSources
  Contents = {"edited"}
  MaxReplays = 2
  MaxEdits = 2
INVARIANTS IngestTypeOK InventoryMatches
CHECK_DEADLOCK FALSE
