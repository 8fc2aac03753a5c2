SPECIFICATION Spec
CONSTANTS
  old = old
  new = new
  NoImage = NoImage
  Image <- MCImage
  Size <- MCSize
  Block = 2
  Sound <- MCSound
  Commands <- AllCommands
  MaxCuts = 1
  MaxFaults = 0
INVARIANTS EntriesTrue RestoreIsWhole RollbackClosesTrial
CHECK_DEADLOCK FALSE
