SPECIFICATION Spec
CONSTANTS
  Dom = {d1, d2}
  Cpu = {c1, c2}
  Vector = {1}
  Action = {a1, a2}
  Controllers <- AllEoi
  WillShare <- LevelShared
SYMMETRY Symmetry
INVARIANT FreedOnce
