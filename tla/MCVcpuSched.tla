---------------------------- MODULE MCVcpuSched -----------------------------
(* Instances of VcpuSched for TLC.                                         *)
EXTENDS VcpuSched, TLC

CpuSymmetry == Permutations(Cpu)
=============================================================================
