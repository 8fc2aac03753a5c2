SPECIFICATION FairSpec
CONSTANTS
  old = old
  new = new
  NoImage = NoImage
  Image <- MCImage
  Size <- MCSize
  Block = 2
  Sound <- MCSound
  Commands <- BackupCommands
  MaxCuts = 0
  MaxFaults = 1
INVARIANTS IInv
PROPERTIES TrialEnds
CHECK_DEADLOCK FALSE
