SPECIFICATION Spec
CONSTANTS
  Thread = {t1, t2, t3}
  Size = 2
  Period = 4
  None = None
INVARIANT NoDepletion
