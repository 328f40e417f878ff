CONSTANTS
  p1 = p1  p2 = p2
  n1 = n1
  s1 = s1  s2 = s2
  c1 = c1
  k1 = k1  k2 = k2  k3 = k3
  Procs = {p1, p2}
  Names = {n1}
  Songs = {s1, s2}
  Calls = {c1}
  Keys = {k1, k2, k3}
  MaxLen = 2
  MaxEvents = 5
  Absent = Absent  None = None  Torn = Torn
SPECIFICATION Spec
INVARIANTS TypeOK SavedWasThere
PROPERTIES ImplementsAtomicFile StartsAlone KeepsIdentity
SYMMETRY Alike
\* the events are bounded, and a daemon may stay down
CHECK_DEADLOCK FALSE
