SPECIFICATION FairSpec
CONSTANTS
  Thread = {t1, t2}
  Size = 2
  Period = 4
  None = None
INVARIANT IndexOrder
INVARIANT OneCopy
INVARIANT NoMissedEvent
PROPERTY ServiceSpec
PROPERTY Returns
