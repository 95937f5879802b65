SPECIFICATION FairSpec
CONSTANTS
  Cpu = {c1, c2}
  Vcpu = {v0, v1}
  Dom0 = v0
  Idle = Idle
  NoCpu = NoCpu
  Affinities = {{c1}, {c1, c2}}
CONSTRAINT MarkedInTime
INVARIANT ProcessorOwns
INVARIANT OneCpu
INVARIANT PausedIsStill
INVARIANT NoLostVcpu
INVARIANT AffinityHonoured
INVARIANT SwitchAsserts
PROPERTY PauseReturns
PROPERTY MigrationHappens
