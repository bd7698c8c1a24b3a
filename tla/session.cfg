SPECIFICATION SessionSpec
CONSTANTS
  lock = lock relock = relock verb = verb read = read unlock = unlock other = other
  agent = agent tok = tok
  Proc = {lock, relock, verb, read, unlock, other}
  NoProc = NoProc
  Agents = {agent}
  Ghosts = {}
  Parent <- ShellOf
  Tokens = {tok}
  Token <- TokenOf
  NoToken = NoToken
  ScopeOrder <- Scopes2
  All = "all"
  NoLease = NoLease
  Ttl <- TtlTable
  SessionGrace = 1
  Nonces = {1,2,3,4,5,6,7}
  Want <- WantLibrary
  LeaseKind <- KindOf
  LeasePid <- PidOf
  Leftovers <- NoLeftovers
  Mortal = {}
  CrashPoints <- Nowhere
  Stalls = FALSE
  Command <- CommandOf
  NewToken <- NewTokenOf
  After <- InOrder
INVARIANTS SessionProtected SessionExclusion
PROPERTIES NoReadOnLostSession LockedStays
CHECK_DEADLOCK FALSE
