SPECIFICATION OtaRetrySpec
CONSTANTS
  old = old
  new = new
  NoImage = NoImage
  Image <- MCImage
  Size <- MCSize
  Block = 2
  Sound <- MCSound
  Commands <- MCCommands
  MaxCuts = 0
  MaxFaults = 0
  Syncs = 2
  MaxUpsets = 2
PROPERTIES RetriesHeal
CHECK_DEADLOCK FALSE
