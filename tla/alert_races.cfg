SPECIFICATION JaamSpec
CONSTANTS
  Homes <- TwoHomes
  Chain <- TwoChains
  AlertFlags <- OneLevel
  NotifFlags <- MCNotifFlags
  Framings <- FragmentedSnapshot
  BufEvents = 2
  MaxChanges = 1
  MaxNotifs = 1
  MaxUpsets = 0
  MaxMoves = 1
INVARIANTS HandedOver
PROPERTIES AlertsArrive
