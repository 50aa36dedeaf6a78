SPECIFICATION Spec
CONSTANTS
  MaxMsgs = 2
  MaxTries = 1
  PromptLimit = 2
  MaxFaults = 2
  Classes <- Everything
  HostFaults = TRUE
  StopFails = FALSE
  HangPoints <- InQuery
INVARIANTS TypeOK SingleWriter FailedIsSpent OneHand
PROPERTIES RetryIsEarned Lifecycle OneContainer
