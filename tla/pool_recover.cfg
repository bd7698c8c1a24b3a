SPECIFICATION Spec
CONSTANTS
  Batches <- RecoverBatches
  Pools <- SafePools
  Names = {"m", "n"}
  PanelNames = {"m"}
  PanelSaves = 0
  LastPosi = 5
  Tries = 3
  MaxLag = 2
  Resends = 1
  Settles = TRUE
INVARIANTS TrueCid
CHECK_DEADLOCK FALSE
