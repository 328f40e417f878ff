SPECIFICATION Spec
CONSTANTS
  Clients = {c1}
  Songs = {a, b}
  Broken = {}
  Levels = {low}
  Requested = {low}
  NoSong = NoSong
  MaxSessions = 3
  MaxQueue = 3
INVARIANT StopLeavesDaemonUp
CHECK_DEADLOCK FALSE
