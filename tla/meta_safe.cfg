SPECIFICATION Spec
CONSTANTS
  Proc = {p1, p2, p3, p4}
  NoProc = NoProc
  CrashPoints <- CrashOutsideBreak
  Overruns = FALSE
  PidReuse = TRUE
SYMMETRY Symmetry
INVARIANTS MetaInv MetaExclusion
PROPERTY ImplementsSectionLock
CHECK_DEADLOCK FALSE
