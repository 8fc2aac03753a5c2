SPECIFICATION JaamSpec
CONSTANTS
  Homes <- OneHome
  Chain <- OneChain
  AlertFlags <- OneLevel
  NotifFlags <- MCNotifFlags
  Framings <- FramedSnapshot
  BufEvents = 2
  MaxChanges = 2
  MaxNotifs = 0
  MaxUpsets = 2
  MaxMoves = 0
INVARIANTS SessionSound
PROPERTIES RejectedWaits AlertsAlwaysArrive
