SPECIFICATION FairSpec
CONSTANTS
  MaxMsgs = 3
  MaxTries = 1
  PromptLimit = 2
  MaxFaults = 1
  Classes <- Mixed
  HostFaults = TRUE
  StopFails = FALSE
  HangPoints <- InQuery
CONSTRAINT WorkOrTalk
PROPERTIES AllSettle
