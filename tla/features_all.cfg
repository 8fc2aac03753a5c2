SPECIFICATION Spec
CONSTANTS
  Packages = {"alarm", "timer", "weather", "climate", "silence", "alert", "ha", "ota"}
  Presets = 2
  HaTimes = {1, 2}
INVARIANTS
  FeaturesTypeOK
  ScriptsMatch
  ShownByOwner
PROPERTIES
  SirenOutranks
