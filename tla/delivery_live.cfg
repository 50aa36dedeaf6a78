SPECIFICATION FairSpec
CONSTANTS
  Sessions = {s1, s2}
  NoSession = NoSession
  MaxMsgs = 2
  MaxAttempts = 2
  MaxFaults = 1
  MaxHangs = 1
  Outages <- SomeOutage
PROPERTIES OutboxDrains
CONSTRAINT PlainMessages
