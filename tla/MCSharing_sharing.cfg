CONSTANTS
  w1 = w1
  w2 = w2
  own1 = own1
  own2 = own2
  sent1 = sent1
  torn = torn
  tOwn = tOwn
  tSent = tSent
  Idle = Idle
  NoFile = NoFile
  Torn = torn
  NoHash = NoHash
  Main = w1
  Clients = {w1}
  Timers = {w2}
  Receivers = {w1, w2}
  Files <- MCFiles
  AudioFiles <- MCAudioFiles
  Contents <- MCContents
  TitleOf <- MCTitleOf
  UserVersions <- MCUserVersions
  Sent = {2}
  Versions <- MCVersions
  MaxEvents = 2
SPECIFICATION FairSpec
INVARIANTS
  TypeOK
  SettledIsFound
  LookupFinds
  ReceivedIsAnnounced
  TornIsNeverListed
  NoTempLeft
CHECK_DEADLOCK FALSE
PROPERTY NewFileIsListed
