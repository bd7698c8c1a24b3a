SPECIFICATION FairSpec
CONSTANTS
  Proc = {p1, p2, p3}
  NoProc = NoProc
  CrashPoints <- CrashAnywhere
  Overruns = FALSE
  PidReuse = FALSE

PROPERTY CrashedMetaReclaimed
CHECK_DEADLOCK FALSE
