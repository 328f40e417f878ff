SPECIFICATION Spec
CONSTANTS
  p1 = p1
  p2 = p2
  p3 = p3
  p4 = p4
  ip1 = ip1
  shared = shared
  other = other
  IPs = {ip1}
  Peers = {p1, p2, p3, p4}
  Ip <- SharedIp
  Key <- Keys
  Ahead <- Skewed
  TrustedKeys = {shared}
  WellAddressed = {p1, p2, p3}
  Handlers = {h1, h2}
  NoHandler = NoHandler
  NoPeer = NoPeer
  Window = 1
  RateMax = 1
  Second = 1
  TokenExpiration = 1
  TokenRefreshThreshold = 0
  TokenFutureTolerance = 1
  NonceExpiry = 1
  PeerTimeout = 0
  PeerCleanupInterval = 1
  MaxPeers = 1
  MaxTokens = 2
  MaxRestarts = 1
  MaxTime = 2
SYMMETRY Symmetric
INVARIANTS TypeOK OnlyEarlyTokensRepeat StaleBound RegistryBounded OnlyVouchedForRegister
PROPERTY OnlyStalePeersExpire
CHECK_DEADLOCK FALSE
