SPECIFICATION LiveSpec
CONSTANTS
  MaxHead = 2
  Streams = {c1, c2}
  Users = {u1}
  None = None
  Total = 2
  PerUser = 1
  StartsPerMinute = 2
  ReplayLimit = 1
  QueueLimit = 1
INVARIANTS  StreamsKeepTheirLimits 
PROPERTIES RevokedStreamsEnd
