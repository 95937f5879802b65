---------------------------- MODULE MCDomainLife ----------------------------
(* Instances of DomainLife for TLC.                                        *)
EXTENDS DomainLife, TLC

CpuSymmetry == Permutations(Cpu)
=============================================================================
