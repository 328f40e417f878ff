CONSTANTS
  a = a  b = b  c = c
  w1 = w1  w2 = w2
  PeerIDs = {a, b, c}
  Workers = {w1, w2}
  MaxPeers = 2
  MaxRetries = 2
  MaxStops = 1
SPECIFICATION Spec
INVARIANTS TypeOK SavedWithinLimit SavedIsTried
PROPERTIES OnceSafeAlwaysSafe
SYMMETRY Alike
