SPECIFICATION FairSerialSpec
CONSTANTS
  Streams = {s1}
  Messages = {m1, m2}
  k1 = k1
  k2 = k2
  elsewhere = {m2}
  Keys <- MCKeys
  Canon <- MCCanon
  StreamKey <- MCStreamKey
  MessageKey <- MCMessageKey
  QueueCap = 1
  MaxArrays = 5
  NoStream = NoStream
  NoMessage = NoMessage
INVARIANTS
  OnlyStored
PROPERTIES
  StreamsEnd
CHECK_DEADLOCK FALSE
