SPECIFICATION OtaSpec
CONSTANTS
  old = old
  new = new
  NoImage = NoImage
  Image <- MCImage
  Size <- MCSize
  Block = 2
  Sound <- MCSound
  Commands <- MCCommands
  MaxCuts = 1
  MaxFaults = 1
  Syncs = 2
  MaxUpsets = 1
INVARIANTS UpdateInv OkMeansFlashed StagedFirst
PROPERTIES OnlyPowerCutBricks
CHECK_DEADLOCK FALSE
