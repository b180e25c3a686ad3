CONSTANTS
  Device = {buds}
  NoDevice = NoDevice
  Favourite = {buds}
  Paired = {buds}
  Commands = {"connect", "disconnect", "scan", "forget"}
  MaxCommands = 2
SPECIFICATION FairSpec
PROPERTIES
  InterruptHonoured
  EofEndsProcess
CHECK_DEADLOCK FALSE
