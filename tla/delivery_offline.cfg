SPECIFICATION Spec
CONSTANTS
  Sessions = {s1, s2}
  NoSession = NoSession
  MaxMsgs = 2
  MaxAttempts = 2
  MaxFaults = 0
  MaxHangs = 0
  Outages <- AnyOutage
INVARIANTS DeliveredWasShown
