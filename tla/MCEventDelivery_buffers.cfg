SPECIFICATION FairSpec
CONSTANTS
  Vcpu = {0}
  Cpu = {c1, c2}
  Port = {1}
  Word = {0}
  WordOf <- PortWord
  Notifies <- ToAny
  StoreBuffers = {"timeout"}
  Uses = {"block", "upcall", "mask", "poll", "timeout"}
INVARIANT NoLostBlock
INVARIANT NoLostEvent
PROPERTY PollReturns
CHECK_DEADLOCK FALSE
