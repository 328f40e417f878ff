SPECIFICATION Spec
CONSTANTS
  p1 = p1
  p2 = p2
  p3 = p3
  p4 = p4
  ip1 = ip1
  shared = shared
  other = other
  IPs = {ip1}
  Peers = {p1}
  Ip <- OneIp
  Key <- OneKey
  Ahead <- OneAhead
  TrustedKeys = {shared}
  WellAddressed = {p1}
  Handlers = {h1, h2}
  NoHandler = NoHandler
  NoPeer = NoPeer
  Window = 1
  RateMax = 2
  Second = 1
  TokenExpiration = 2
  TokenRefreshThreshold = 0
  TokenFutureTolerance = 1
  NonceExpiry = 2
  PeerTimeout = 1
  PeerCleanupInterval = 1
  MaxPeers = 1
  MaxTokens = 1
  MaxRestarts = 0
  MaxTime = 5
SYMMETRY Symmetric
INVARIANT TokenAcceptedOnce
CHECK_DEADLOCK FALSE
