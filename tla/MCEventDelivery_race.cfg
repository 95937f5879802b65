SPECIFICATION Spec
CONSTANTS
  Vcpu = {0}
  Cpu = {c1}
  Port = {1}
  Word = {0}
  WordOf <- PortWord
  Notifies <- ToAny
  StoreBuffers = {"poll"}
  Uses = {"poll"}
INVARIANT NoLostPoll
CHECK_DEADLOCK FALSE
