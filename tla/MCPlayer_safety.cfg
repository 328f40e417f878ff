SPECIFICATION Spec
CONSTANTS
  Clients = {c1, c2}
  Songs = {a}
  Broken = {a}
  Levels = {low}
  Requested = {low, loud}
  NoSong = NoSong
  MaxSessions = 3
  MaxQueue = 2
SYMMETRY Symmetric
INVARIANTS TypeOK CursorInQueue FilesOwned AdvanceOnlyAfterEnd EndIsDelivered
PROPERTY ImplementsLifecycle
CHECK_DEADLOCK FALSE
