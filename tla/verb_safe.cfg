SPECIFICATION Spec
CONSTANTS
  a = a b = b c = c shA = shA shB = shB shC = shC z = z tok = tok
  Proc = {a, b, c}
  NoProc = NoProc
  Agents = {}
  Ghosts = {z}
  Parent <- ThreeShells
  Token <- NoTokens
  NoToken = NoToken
  Tokens = {tok}
  ScopeOrder <- Scopes2
  All = "all"
  NoLease = NoLease
  Ttl <- TtlTable
  SessionGrace = 1
  Nonces = {1,2,3,4,5,6,7}
  Want <- OverlappingWants
  LeaseKind <- Autos
  LeasePid <- OwnPids
  Leftovers <- UsualLeftovers
  Mortal = {c}
  CrashPoints <- AnyPoint
  Stalls = FALSE
INVARIANTS LeaseInv BodyExclusion BodyProtected NothingLeftBehind
PROPERTIES OnlyOwnerRemoves ImplementsExclusion
CHECK_DEADLOCK FALSE
