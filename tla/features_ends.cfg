SPECIFICATION FairSpec
CONSTANTS
  Packages = {"alarm", "timer", "weather", "silence"}
  Presets = 1
  HaTimes = {}
INVARIANTS
  RingingContextIsLive
PROPERTIES
  QuietReturns
