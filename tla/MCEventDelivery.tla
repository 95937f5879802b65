-------------------------- MODULE MCEventDelivery --------------------------
(* Instances of EventDelivery for TLC.                                     *)
EXTENDS EventDelivery, TLC

PortWord == [p \in Port |-> 0]

ToVcpu0 == [p \in Port |-> {0}]
ToAny == [p \in Port |-> Vcpu]

CpuSymmetry == Permutations(Cpu)

=============================================================================
