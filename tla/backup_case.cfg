SPECIFICATION BackupSpec
CONSTANTS
  Jobs <- NoJobs
  Devices <- AllDevices
  Slots = 4
  PanelEdits = 1
  Runs = 2
  Scenes <- MCRenamed
  SlugOf <- MCSlugOf
  CaseOf <- MCCaseOf
  IrOf <- MCIrOf
  CaseBlind = TRUE
  Takes = 2
INVARIANTS Mirror
CHECK_DEADLOCK FALSE
