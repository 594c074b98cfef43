SPECIFICATION FairSpec
CONSTANTS
  Fields = {f, g}
  Values = {v0, v1}
  Default = v0
  Writers = {w1}
  NoWriter = NoWriter
  MaxRows = 3
  MaxBoots = 1
  MaxLost = 1
  ReadsFail = TRUE
INVARIANTS
  TypeOK EveryRowReported
PROPERTIES
  SettingsKeepUp EditTakesEffect
CHECK_DEADLOCK FALSE
