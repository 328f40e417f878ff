SPECIFICATION SteeredFairSpec
CONSTANTS
  Clients = {c1}
  Songs = {a, b}
  Broken = {}
  Levels = {low}
  Requested = {low}
  NoSong = NoSong
  MaxSessions = 3
  MaxSteers = 2
  MaxQueue = 3
INVARIANTS UnsteeredNeverPanics UnsteeredInOrder UnsteeredNowPlaying
PROPERTY EndedTrackIsReplaced
CHECK_DEADLOCK FALSE
