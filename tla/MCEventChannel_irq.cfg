SPECIFICATION Spec
CONSTANTS
  Dom = {0, 1}
  Priv = {0}
  Hvm = {}
  Cpu = {c1}
  NoCpu = NoCpu
  Vcpu = {0, 1}
  Virq = {0, 1}
  GlobalVirq = {1}
  Pirq = {0}
  MAX_EVTCHNS = 2
  EVTCHNS_PER_BUCKET = 1
SYMMETRY CpuSymmetry
CONSTRAINT FewPending
INVARIANT TypeOK
INVARIANT IrqTables
INVARIANT VirqSendStable
INVARIANT NoStalePending
