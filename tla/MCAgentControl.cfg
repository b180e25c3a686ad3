CONSTANTS
  Device = {buds, other}
  NoDevice = NoDevice
  Favourite = {buds}
  Paired = {buds, other}
  Commands = {"connect", "disconnect", "scan", "forget", "on", "off", "stop", "quit"}
  MaxCommands = 2
SPECIFICATION Spec
INVARIANTS
  HeldIsBonded
  PlayingMeansAudio
PROPERTIES
  NoSpuriousStop
  GhostOnlyByReplacement
CHECK_DEADLOCK FALSE
