SPECIFICATION Spec
CONSTANTS
  Dom = {0, 1}
  Priv = {0}
  Hvm = {1}
  Cpu = {c1, c2}
  NoCpu = NoCpu
  Vcpu = {0}
  Virq = {}
  GlobalVirq = {}
  Pirq = {}
  MAX_EVTCHNS = 3
  EVTCHNS_PER_BUCKET = 3
SYMMETRY CpuSymmetry
CONSTRAINT FewUsed
VIEW ButPending
INVARIANT PeerSymmetry
INVARIANT ClosePeerStable
INVARIANT SendPeerStable
INVARIANT LockOrder
INVARIANT PeerReferenced
INVARIANT DestroyedIsClean
INVARIANT XenPortAttached
PROPERTY XenChannelKept
