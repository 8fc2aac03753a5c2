SPECIFICATION DeviceSpec
CONSTANTS
  Budgets <- MCBudgets
  Nets = {home, away}
  Reachable = {home}
  Towns = {kyiv, lutsk}
  Regions = {8, 31}
  NoNet = NoNet
  ConfigNet = ConfigNet
  Keep = Keep
  Pages = 2
  Lights <- MCLights
INVARIANTS
  DeviceTypeOK
  InForce
  SettingsAsAsked
  NetworkAsAsked
  GesturesTold
  OnlyReadings
PROPERTIES
  OkMeansWritten
  LoopServes
  MirrorCatchesUp
  ChargerFollows
  PanelComesRight
CHECK_DEADLOCK FALSE
