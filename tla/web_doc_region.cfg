SPECIFICATION DeviceSpec
CONSTANTS
  Budgets <- MCOneSetting
  Nets = {home, away}
  Reachable = {home}
  Towns = {kyiv, lutsk}
  Regions = {8, 31}
  NoNet = NoNet
  ConfigNet = ConfigNet
  Keep = Keep
  Pages = 2
  Lights <- MCLights
INVARIANTS
  RegionSurvives
CHECK_DEADLOCK FALSE
