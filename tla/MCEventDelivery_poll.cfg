SPECIFICATION Spec
CONSTANTS
  Vcpu = {0, 1}
  Cpu = {c1, c2}
  Port = {1}
  Word = {0}
  WordOf <- PortWord
  Notifies <- ToVcpu0
  StoreBuffers = {}
  Uses = {"poll", "timeout"}
INVARIANT NoLostPoll
SYMMETRY CpuSymmetry
CHECK_DEADLOCK FALSE
