SPECIFICATION WizardSpec
CONSTANTS
  Parts = {"setup", "channels", "uninstall"}
  Runtimes = {"claude", "codex"}
  MaxLaunches = 2
  MaxTroubles = 1
  Offered = {"telegram", "discord", "whatsapp", "signal", "slack", "imessage", "teams"}
  MaxVisits = 2
  MaxMishaps = 2
  MaxTries = 2
  MaxSlips = 1
  MaxBoxes = 1
INVARIANTS SetupSafe FlowsSafe 
PROPERTIES WizardSteps WizardsEnd
CHECK_DEADLOCK FALSE
