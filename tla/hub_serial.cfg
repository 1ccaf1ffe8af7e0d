SPECIFICATION SerialSpec
CONSTANTS
  Streams = {s1, s2}
  Messages = {m1, m2}
  k1 = k1
  k2 = k2
  elsewhere = {}
  Keys <- MCKeys
  Canon <- MCCanon
  StreamKey <- MCStreamKey
  MessageKey <- MCMessageKey
  QueueCap = 1
  MaxArrays = 5
  NoStream = NoStream
  NoMessage = NoMessage
SYMMETRY Symmetry
VIEW View
INVARIANTS
  RegistryExact
  NoPanic
  NoSilentLoss
  LiveOnce
  YoungRegistered
PROPERTIES
  ImplementsFeed
CHECK_DEADLOCK FALSE
