SPECIFICATION Spec
CONSTANTS
  Sessions = {s1, s2}
  NoSession = NoSession
  MaxMsgs = 2
  MaxAttempts = 2
  MaxFaults = 1
  MaxHangs = 1
  Outages <- AllOnline
SYMMETRY SessionSymmetry
INVARIANTS TypeOK ShownOnce NoOvertaking CardsAnswerable
PROPERTIES OutboxKept
