CONSTANTS
  Device = {buds}
  NoDevice = NoDevice
  Favourite = {buds}
  Paired = {buds}
  Commands = {"connect", "disconnect"}
  MaxCommands = 2
SPECIFICATION FairSpec
PROPERTIES
  DisconnectServed
CHECK_DEADLOCK FALSE
