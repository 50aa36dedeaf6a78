SPECIFICATION DialoguesSpec
CONSTANTS
  MaxAgents = 2
  Senders = {"stranger", "owner", "nobody"}
  Nameless = {"nobody"}
  Admins = {"owner"}
  Threads = {"t1", "t2"}
  MaxMsgs = 2
  Events <- Talk
  Setups <- Pairs
  Policies = {"request_approval", "public"}
  MaxGroups = 2
  MaxMentions = 2
  MaxPresses = 3
  Actions = {a}
  Handled = {a}
  Credentials = {c}
  MaxClicks = 2
  MaxFaults = 1
INVARIANTS DialoguesTypeOK AdmissionSafe WiredOnce ActionsSettled
PROPERTIES DialogueSteps OneVerdict DialoguesEnd
CHECK_DEADLOCK FALSE
