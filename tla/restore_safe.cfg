SPECIFICATION BackupSpec
CONSTANTS
  Jobs <- AllJobs
  Devices <- AllDevices
  Slots = 4
  PanelEdits = 1
  Runs = 2
  Scenes <- MCScenes
  SlugOf <- MCSlugOf
  CaseOf <- MCCaseOf
  IrOf <- MCIrOf
  CaseBlind = FALSE
  Takes = 2
INVARIANTS OkMeansRestored Mirror Kept
PROPERTIES NothingLost Ends
CHECK_DEADLOCK FALSE
