SPECIFICATION FairSpec
CONSTANTS
  a = a b = b c = c shA = shA shB = shB shC = shC z = z tok = tok
  Proc = {a, b}
  NoProc = NoProc
  Agents = {}
  Ghosts = {z}
  Parent <- ThreeShells
  Token <- NoTokens
  NoToken = NoToken
  Tokens = {tok}
  ScopeOrder <- Scopes2
  All = "all"
  NoLease = NoLease
  Ttl <- TtlTable
  SessionGrace = 1
  Nonces = {1,2,3,4,5,6,7}
  Want <- CrossedWants
  LeaseKind <- Autos
  LeasePid <- OwnPids
  Leftovers <- UsualLeftovers
  Mortal = {b}
  CrashPoints <- AnyPoint
  Stalls = FALSE
PROPERTY AcquireEnds
CHECK_DEADLOCK FALSE
