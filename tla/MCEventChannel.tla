--------------------------- MODULE MCEventChannel ---------------------------
(* Model-checking instances of EventChannel. *)
EXTENDS EventChannel, TLC

\* CPUs are interchangeable.
CpuSymmetry == Permutations(Cpu)

\* Bound on the pending bits set at the same time, over all domains.
MaxPending == 1
FewPending == Cardinality({dp \in Dom \X Port : dp[2] \in pending[dp[1]]}) <= MaxPending

\* Bounds on the ports in use: a pair and a port that replaces one of it over all domains, and one
\* in a domain without a device model.
MaxUsed == 3
MaxPlain == 1
Used(d) == Cardinality({p \in Port \ {0} : evtchn[d][p].state # "FREE"})
FewUsed ==
  /\ Cardinality({dp \in Dom \X (Port \ {0}) : evtchn[dp[1]][dp[2]].state # "FREE"}) <= MaxUsed
  /\ \A d \in Dom \ Hvm : Used(d) <= MaxPlain

\* The state without the pending bits, which decide nothing that EventChannel does: enough for
\* properties that do not mention them.
ButPending == <<evtchn, nr_ports, irqVars, domVars, cpuVars>>
=============================================================================
