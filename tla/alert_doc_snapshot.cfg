SPECIFICATION JaamSpec
CONSTANTS
  Homes <- OneHome
  Chain <- OneChain
  AlertFlags <- OneLevel
  NotifFlags <- MCNotifFlags
  Framings <- BulkSnapshot
  BufEvents = 2
  MaxChanges = 1
  MaxNotifs = 0
  MaxUpsets = 0
  MaxMoves = 0
INVARIANTS BulkParsed
