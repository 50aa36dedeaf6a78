SPECIFICATION FairSpec
CONSTANTS
  MaxMsgs = 2
  MaxTries = 1
  PromptLimit = 1
  MaxFaults = 0
  Classes <- Background
  HostFaults = FALSE
  StopFails = FALSE
  HangPoints <- Nowhere
PROPERTIES TriggerSettles
