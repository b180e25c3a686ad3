CONSTANTS
  Devices <- SomeDevices
  UserSettings <- SomeSettings
  MaxLimits = 2
  MaxRounds = 3
SPECIFICATION PlanSpec
INVARIANTS
  StreamFits
  PreflightQuotes
CHECK_DEADLOCK FALSE
