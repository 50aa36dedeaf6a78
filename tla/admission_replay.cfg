SPECIFICATION AdmissionSpec
CONSTANTS
  MaxAgents = 2
  Senders = {"stranger"}
  Nameless = {}
  Admins = {}
  Threads = {"t1"}
  MaxMsgs = 1
  Events <- OneMention
  Setups <- Mentioned
  Policies = {"request_approval"}
  MaxFaults = 0
INVARIANTS ApprovedIsRouted
CHECK_DEADLOCK FALSE
