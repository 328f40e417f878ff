SPECIFICATION AppendOnlyFairSpec
CONSTANTS
  Clients = {c1}
  Songs = {a}
  Broken = {}
  Levels = {low}
  Requested = {low}
  NoSong = NoSong
  MaxSessions = 3
  MaxQueue = 3
PROPERTY QueuedIsPlayed
CHECK_DEADLOCK FALSE
