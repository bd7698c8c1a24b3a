SPECIFICATION Spec
CONSTANTS
  Batches <- SafeBatches
  Pools <- SafePools
  Names = {"m", "n", "o", "p"}
  PanelNames = {"m"}
  PanelSaves = 1
  LastPosi = 5
  Tries = 3
  MaxLag = 2
  Resends = 1
  Settles = TRUE
INVARIANTS ReturnsOwn NoSilentStub TruthfulAbsence
PROPERTIES OthersSafe CheckedMovesNobody
CHECK_DEADLOCK FALSE
