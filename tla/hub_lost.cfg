SPECIFICATION Spec
CONSTANTS
  Streams = {s1, s2}
  Messages = {}
  k1 = k1
  k2 = k2
  elsewhere = {}
  Keys <- MCKeys
  Canon <- MCCanon
  StreamKey <- MCStreamKey
  MessageKey <- MCMessageKey
  QueueCap = 1
  MaxArrays = 5
  NoStream = NoStream
  NoMessage = NoMessage
VIEW View
INVARIANTS
  YoungRegistered
CHECK_DEADLOCK FALSE
