----------------------------- MODULE MCGuestIrq ------------------------------
(* Instances of GuestIrq for TLC.                                          *)
EXTENDS GuestIrq, TLC

AllEoi == {[v \in Vector |-> "EOI"]}
UnmaskAndNone == [v \in Vector |-> IF v = 1 THEN "UNMASK" ELSE "NONE"]
NestedOrTimed == AllEoi \cup {UnmaskAndNone}
EachType == [Vector -> AckTypes]

\* Level interrupts that are EOIed are always shared, the others may be.
LevelShared == [t \in AckTypes |-> IF t = "EOI" THEN {TRUE} ELSE BOOLEAN]
Symmetry == Permutations(Dom) \cup Permutations(Cpu) \cup Permutations(Action)

(* Bounds, as state constraints.  Foreseen, of GuestIrq, is one of them: where it is *)
(* FALSE it stays so, and the properties say nothing more.                           *)

Eoi == {"eoi", "eoi_flush", "eoi_call"}

\* Binds do not overlap acknowledgements; or no other hypercall at all.
BindsApart == \A c, e \in Cpu : op[c].pc = "bind" => op[e].pc \notin Eoi
BindsAlone == \A c, e \in Cpu : op[c].pc = "bind" /\ c # e => op[e] = Idle

\* An interrupt is acknowledged when it is in flight, or while it is unbound.
AcksInFlight ==
  \A c \in Cpu : op[c].pc = "eoi" =>
    <<op[c].d, op[c].vec>> \in pirq_mask \/ UnbindOverlaps(op[c].vec)

\* Of two free actions, xmalloc() returns the same one for vector 1, and the other for vector 2.
OneAddress ==
  LET first == CHOOSE a \in Action : TRUE
  IN \A v \in Vector : desc[v].action # NULL => (v = 1 <=> desc[v].action = first)
=============================================================================
