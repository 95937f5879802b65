SPECIFICATION FairSpec
CONSTANTS
  Cpu = {c1, c2}
  Head = {d1, d2}
  None = None
  Period = 4
  blimit = 1
  MaxKept = 1
  MaxLives = 3
  First = 3
INVARIANT NoDangling
INVARIANT RefsCounted
INVARIANT DestroyedInOrder
PROPERTY GracePeriodSpec
PROPERTY Freed
CHECK_DEADLOCK FALSE
