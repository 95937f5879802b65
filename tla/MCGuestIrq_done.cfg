SPECIFICATION FairSpec
CONSTANTS
  Dom = {d1}
  Cpu = {c1, c2}
  Vector = {1, 2}
  Action = {a1, a2}
  Controllers <- NestedOrTimed
  WillShare <- LevelShared
CONSTRAINT Foreseen
CONSTRAINT BindsAlone
CONSTRAINT AcksInFlight
CONSTRAINT OneAddress
CHECK_DEADLOCK FALSE
INVARIANT EoiMapExact
PROPERTY EoiDone
PROPERTY UnbindReturns
