SPECIFICATION Spec
CONSTANTS
  Dom = {d1, d2, d3}
  Cpu = {c1, c2}
  Vector = {1}
  Action = {a1, a2}
  Controllers <- EachType
  WillShare <- LevelShared
CONSTRAINT Foreseen
CONSTRAINT BindsApart
SYMMETRY Symmetry
CHECK_DEADLOCK FALSE
INVARIANT GuestsAgree
INVARIANT ReleaseIsSettled
INVARIANT NoLostEoi
