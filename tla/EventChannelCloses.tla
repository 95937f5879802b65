------------------------- MODULE EventChannelCloses -------------------------
(***************************************************************************)
(* The steps of __evtchn_close() and of evtchn_bind_pirq() preserve IInv.  *)
(***************************************************************************)
EXTENDS EventChannelSteps, TLAPS

IrqTypes ==
  /\ virq_to_evtchn \in [Dom -> [Vcpu -> [Virq -> Port]]]
  /\ virq_lock \in [Dom -> [Vcpu -> Port]]
  /\ pirq_to_evtchn \in [Dom -> [Pirq -> Port]]
  /\ irq_guest \in [Dom -> SUBSET Pirq]

\* The tail of __evtchn_close(), given what it does to the channels.
LEMMA FreeStep ==
  ASSUME IInv, NEW c \in Cpu, NEW chans, FreeChannel(c, chans), IrqTypes',
         op[c].pc \in Closing,
         evtchn' \in [Dom -> [Port -> Evtchn]], evtchn'[op[c].d1][op[c].port1].state = "FREE",
         PeerSymmetry', DyingKeeps, ValidPorts', Undisturbed(c)
  PROVE  IInv'
<1>1. /\ UNCHANGED <<nr_ports, is_dying, xen_port>> /\ Leave(c, Return(c))
      /\ pending' = [pending EXCEPT ![op[c].d1] = @ \ {op[c].port1}]
  BY DEF FreeChannel, domVars
<1>2. Return(c) \in Frame /\ op[c].d1 \in Dom
  BY ReturnFrame
<1>3. /\ OthersKeep(c) /\ DomainsKeep /\ op' \in [Cpu -> Frame] /\ op'[c] = Return(c)
      /\ evtchn_lock' \in [Dom -> Cpu \cup {NoCpu}] /\ (\A d \in Dom : evtchn_lock'[d] # c)
      /\ refs' \in [Dom -> SUBSET (Cpu \cup {"self"})]
  BY <1>1, <1>2, LeaveKeeps
<1>4. TypeOK'
  <2>1. pending' \in [Dom -> SUBSET Port]
    BY <1>1, <1>2 DEF IInv, TypeOK
  <2> QED  BY <1>1, <1>3, <2>1 DEF IInv, TypeOK, IrqTypes
<1>5. ActorOK(c)
  BY <1>1, <1>3, ReturnActor
<1> QED  BY <1>3, <1>4, <1>5, StepPreserves

\* A channel that is not interdomain is freed by a CPU that has locked its domain.
LEMMA FreeLocal ==
  ASSUME IInv, NEW c \in Cpu, FreeChannel(c, evtchn), IrqTypes',
         op[c].pc \in Closing, Chn1(c).state # "INTERDOMAIN",
         evtchn_lock[op[c].d1] \in {NoCpu, c}
  PROVE  IInv'
<1>1. PICK d \in Dom, p \in Port : d = op[c].d1 /\ p = op[c].port1
  BY ReturnFrame
<1> DEFINE X == Freed(evtchn[d][p])
<1>2. evtchn \in [Dom -> [Port -> Evtchn]] /\ \A a \in Dom : nr_ports[a] \in Nat
  BY DEF IInv, TypeOK
<1>3. X \in Evtchn /\ X.state = "FREE" /\ X.xen = evtchn[d][p].xen
  BY <1>2, FreedChan
<1>4. evtchn' = [evtchn EXCEPT ![d][p] = X] /\ UNCHANGED nr_ports
  BY <1>1 DEF FreeChannel
<1> HIDE DEF X
<1>5. evtchn' \in [Dom -> [Port -> Evtchn]]
  BY <1>2, <1>3, <1>4
<1>6. \A a \in Dom, i \in Port : evtchn'[a][i] = IF a = d /\ i = p THEN X ELSE evtchn[a][i]
  BY <1>2, <1>4
<1>7. PeerSymmetry'
  <2>1. LinksKept  BY <1>1, <1>3, <1>6 DEF LinksKept, SameLink, Chn1
  <2> QED  BY <2>1, LinksKeptPeers DEF IInv
<1>8. DyingKeeps
  BY <1>3, <1>6 DEF DyingKeeps, Live
<1>9. ValidPorts'
  BY <1>3, <1>4, <1>6 DEF IInv, ValidPorts
<1>10. Undisturbed(c)
  BY <1>1, <1>2, <1>4, <1>6, NumberFacts DEF Undisturbed, SameLink
<1>11. evtchn'[op[c].d1][op[c].port1].state = "FREE"
  BY <1>1, <1>3, <1>6
<1> QED  BY <1>5, <1>7, <1>8, <1>9, <1>10, <1>11, FreeStep

\* Closing an unbound or IPI channel preserves the invariant.
LEMMA CloseUnboundIpi ==
  ASSUME IInv, NEW c \in Cpu, close_unbound_ipi(c)
  PROVE  IInv'
<1>1. /\ FreeChannel(c, evtchn) /\ op[c].pc \in {"close", "again"} /\ evtchn_lock[op[c].d1] = NoCpu
      /\ Chn1(c).state \in {"UNBOUND", "IPI"}
  BY DEF close_unbound_ipi, LockD1, Unlocked
<1>2. IrqTypes'
  BY DEF IInv, TypeOK, IrqTypes, close_unbound_ipi, irqVars
<1> QED  BY <1>1, <1>2, FreeLocal DEF Closing

\* Closing a PIRQ channel preserves the invariant.
LEMMA ClosePirq ==
  ASSUME IInv, NEW c \in Cpu, close_pirq(c)
  PROVE  IInv'
<1>1. /\ FreeChannel(c, evtchn) /\ op[c].pc \in {"close", "again"} /\ evtchn_lock[op[c].d1] = NoCpu
      /\ Chn1(c).state = "PIRQ"
  BY DEF close_pirq, LockD1, Unlocked
<1>2. IrqTypes'
  <2>1. op[c].d1 \in Dom  BY <1>1 DEF IInv, FrameOK
  <2>2. pirq_to_evtchn' \in [Dom -> [Pirq -> Port]]
    <3>1. pirq_to_evtchn[op[c].d1] \in [Pirq -> Port]
      BY <2>1 DEF IInv, TypeOK
    <3>2. [pirq_to_evtchn[op[c].d1] EXCEPT ![Chn1(c).irq] = 0] \in [Pirq -> Port]
      BY Zenon, <3>1, NumberFacts
    <3> QED  BY <2>1, <3>2 DEF close_pirq, IInv, TypeOK
  <2>3. irq_guest' \in [Dom -> SUBSET Pirq]
    BY <2>1 DEF close_pirq, IInv, TypeOK
  <2> QED  BY <2>2, <2>3 DEF IInv, TypeOK, IrqTypes, close_pirq
<1> QED  BY <1>1, <1>2, FreeLocal DEF Closing

\* Closing a VIRQ channel preserves the invariant once the barrier is passed.
LEMMA CloseVirqBarrier ==
  ASSUME IInv, NEW c \in Cpu, close_virq_barrier(c)
  PROVE  IInv'
<1>1. FreeChannel(c, evtchn) /\ op[c].pc = "virq_barrier"
  BY DEF close_virq_barrier
<1>2. Chn1(c).state = "VIRQ" /\ evtchn_lock[op[c].d1] = c
  BY <1>1 DEF IInv, FrameOK
<1>3. IrqTypes'
  BY Zenon DEF IInv, TypeOK, IrqTypes, close_virq_barrier, irqVars
<1> QED  BY <1>1, <1>2, <1>3, FreeLocal DEF Closing

\* An interdomain channel is freed, and its peer unbound, by a CPU that has locked
\* both domains.
LEMMA FreePair ==
  ASSUME IInv, NEW c \in Cpu, FreeChannel(c, PeerUnbound(c)), UNCHANGED irqVars,
         op[c].pc \in Closing, Chn1(c).state = "INTERDOMAIN",
         evtchn_lock[op[c].d1] \in {NoCpu, c}, evtchn_lock[Chn1(c).rdom] \in {NoCpu, c}
  PROVE  IInv'
<1>1. PICK d \in Dom, p \in Port : d = op[c].d1 /\ p = op[c].port1
  BY Zenon, ReturnFrame
<1>2. PICK rd \in Dom, rp \in Port :
        /\ rd = evtchn[d][p].rdom /\ rp = evtchn[d][p].rport /\ IsPair(rd, rp, d, p)
  BY <1>1 DEF IInv, PeerSymmetry, Chn1
<1>3. evtchn \in [Dom -> [Port -> Evtchn]] /\ \A a \in Dom : nr_ports[a] \in Nat
  BY DEF IInv, TypeOK
<1> DEFINE U == Unbound(evtchn[rd][rp], d)
           chans == [evtchn EXCEPT ![rd][rp] = U]
           X == Freed(chans[d][p])
<1>4. /\ U \in Evtchn /\ U.state = "UNBOUND" /\ U.rdom = d /\ U.xen = evtchn[rd][rp].xen
  BY SMTT(60), <1>3, UnboundChan
<1>5. evtchn' = [chans EXCEPT ![d][p] = X] /\ UNCHANGED nr_ports
  BY Zenon, <1>1, <1>2 DEF FreeChannel, PeerUnbound, Chn1
<1> HIDE DEF U
<1>6. chans \in [Dom -> [Port -> Evtchn]]
      /\ \A a \in Dom, i \in Port : chans[a][i] = IF a = rd /\ i = rp THEN U ELSE evtchn[a][i]
  BY <1>3, <1>4
<1> HIDE DEF chans
<1>7. X \in Evtchn /\ X.state = "FREE" /\ X.xen = chans[d][p].xen
  BY <1>6, FreedChan
<1> HIDE DEF X
<1>8. evtchn' \in [Dom -> [Port -> Evtchn]]
  BY <1>5, <1>6, <1>7
<1>9. \A a \in Dom, i \in Port :
        evtchn'[a][i] = IF a = d /\ i = p THEN X
                        ELSE IF a = rd /\ i = rp THEN U ELSE evtchn[a][i]
  BY SMTT(60), <1>5, <1>6
<1>10. evtchn[d][p].state = "INTERDOMAIN"
  BY Zenon, <1>1 DEF Chn1
<1>11. PeerSymmetry'
  <2> SUFFICES ASSUME NEW a \in Dom, NEW i \in Port, evtchn'[a][i].state = "INTERDOMAIN"
               PROVE  /\ evtchn'[a][i].rdom \in Dom /\ evtchn'[a][i].rport \in Port
                      /\ IsPair(evtchn[a][i].rdom, evtchn[a][i].rport, a, i)'
    BY DEF PeerSymmetry
  <2>1. evtchn'[a][i] = evtchn[a][i] /\ ~(a = d /\ i = p) /\ ~(a = rd /\ i = rp)
    BY <1>4, <1>7, <1>9
  <2>2. PICK b \in Dom, j \in Port :
          /\ b = evtchn[a][i].rdom /\ j = evtchn[a][i].rport /\ IsPair(b, j, a, i)
    BY Zenon, <2>1 DEF IInv, PeerSymmetry
  <2>3. ~(b = d /\ j = p) /\ ~(b = rd /\ j = rp)
    BY Zenon, <1>2, <2>1, <2>2 DEF IsPair
  <2>4. evtchn'[b][j] = evtchn[b][j]
    BY Zenon, <1>9, <2>3
  <2> QED  BY Zenon, <2>1, <2>2, <2>4 DEF IsPair
<1>12. DyingKeeps
  <2> SUFFICES ASSUME NEW a \in Dom, NEW i \in Port
               PROVE  /\ Live(a, i)' => Live(a, i)
                      /\ Live(a, i)' /\ evtchn[a][i].state \in {"UNBOUND", "INTERDOMAIN"} =>
                           /\ evtchn'[a][i].state \in {"UNBOUND", "INTERDOMAIN"}
                           /\ evtchn'[a][i].rdom = evtchn[a][i].rdom
                      /\ ~evtchn[a][i].xen => ~evtchn'[a][i].xen
    BY DEF DyingKeeps
  <2>1. CASE a = d /\ i = p
    <3>1. evtchn'[a][i] = X  BY <2>1, <1>9
    <3>2. ~evtchn[a][i].xen => ~X.xen  BY Zenon, <2>1, <1>4, <1>6, <1>7
    <3> QED  BY <1>7, <3>1, <3>2 DEF Live
  <2>2. CASE ~(a = d /\ i = p) /\ a = rd /\ i = rp
    <3>1. evtchn'[a][i] = U  BY <2>2, <1>9
    <3> QED  BY Zenon, <1>2, <1>4, <2>2, <3>1 DEF Live, IsPair
  <2>3. CASE ~(a = d /\ i = p) /\ ~(a = rd /\ i = rp)
    <3>1. evtchn'[a][i] = evtchn[a][i]  BY <2>3, <1>9
    <3> QED  BY <3>1 DEF Live
  <2> QED  BY Zenon, <2>1, <2>2, <2>3
<1>13. ValidPorts'
  <2>1. ASSUME NEW a \in Dom, NEW i \in Port, evtchn'[a][i].state # "FREE"
        PROVE  evtchn[a][i].state # "FREE"
    BY <1>2, <1>7, <1>9, <2>1 DEF IsPair
  <2> QED  BY Zenon, <1>5, <2>1 DEF IInv, ValidPorts
<1>14. Undisturbed(c)
  <2>1. evtchn_lock[d] \in {NoCpu, c} /\ evtchn_lock[rd] \in {NoCpu, c}
    BY Zenon, <1>1, <1>2 DEF Chn1
  <2>2. ASSUME NEW a \in Dom, evtchn_lock[a] \in Cpu, evtchn_lock[a] # c, NEW i \in Port
        PROVE  evtchn'[a][i] = evtchn[a][i]
    BY <1>9, <2>1, <2>2, NumberFacts
  <2> QED  BY SMTT(60), <1>3, <1>5, <2>2 DEF Undisturbed, SameLink
<1>15. evtchn'[op[c].d1][op[c].port1].state = "FREE"
  BY <1>1, <1>7, <1>9
<1>16. IrqTypes'
  BY DEF IInv, TypeOK, IrqTypes, irqVars
<1> QED  BY Zenon, <1>8, <1>11, <1>12, <1>13, <1>14, <1>15, <1>16, FreeStep

\* Closing an interdomain channel with all its locks held preserves the invariant.
LEMMA CloseInterdomain ==
  ASSUME IInv, NEW c \in Cpu, close_interdomain(c)
  PROVE  IInv'
<1>1. /\ FreeChannel(c, PeerUnbound(c)) /\ UNCHANGED irqVars
      /\ op[c].pc \in {"close", "again"} /\ evtchn_lock[op[c].d1] = NoCpu
      /\ Chn1(c).state = "INTERDOMAIN"
      /\ IF op[c].d2 = NULL THEN Chn1(c).rdom = op[c].d1 ELSE Chn1(c).rdom = op[c].d2
  BY Zenon DEF close_interdomain, LockD1, Unlocked
<1>2. evtchn_lock[Chn1(c).rdom] \in {NoCpu, c}
  <2>1. FrameOK(c)  BY DEF IInv
  <2> QED  BY <1>1, <2>1, NumberFacts DEF FrameOK
<1> QED  BY <1>1, <1>2, FreePair DEF Closing

\* So does taking the second lock in address order and closing the channel.
LEMMA CloseLockD2 ==
  ASSUME IInv, NEW c \in Cpu, close_lock_d2(c)
  PROVE  IInv'
<1>1. /\ FreeChannel(c, PeerUnbound(c)) /\ UNCHANGED irqVars
      /\ op[c].pc = "lock2" /\ evtchn_lock[op[c].d2] = NoCpu
  BY Zenon DEF close_lock_d2, Unlocked
<1>2. /\ Chn1(c).state = "INTERDOMAIN" /\ evtchn_lock[op[c].d1] = c
      /\ evtchn_lock[Chn1(c).rdom] = NoCpu
  BY <1>1 DEF IInv, FrameOK
<1> QED  BY <1>1, <1>2, FreePair DEF Closing

\* CPU c goes on to its next frame, keeping its locks and taking at most one more.
LEMMA MoveKeeps ==
  ASSUME IInv, NEW c \in Cpu, NEW F \in Frame, op' = [op EXCEPT ![c] = F], Undisturbed(c),
         UNCHANGED is_dying,
         \/ UNCHANGED refs
         \/ \E d \in Dom : refs' = [refs EXCEPT ![d] = @ \cup {c}],
         \/ UNCHANGED evtchn_lock
         \/ \E d \in Dom : Unlocked(d) /\ evtchn_lock' = [evtchn_lock EXCEPT ![d] = c]
  PROVE  /\ OthersKeep(c) /\ DomainsKeep
         /\ op' \in [Cpu -> Frame] /\ op'[c] = F
         /\ evtchn_lock' \in [Dom -> Cpu \cup {NoCpu}]
         /\ refs' \in [Dom -> SUBSET (Cpu \cup {"self"})]
<1>1. /\ op \in [Cpu -> Frame] /\ evtchn_lock \in [Dom -> Cpu \cup {NoCpu}]
      /\ refs \in [Dom -> SUBSET (Cpu \cup {"self"})]
  BY DEF IInv, TypeOK
<1>2. op' \in [Cpu -> Frame] /\ op'[c] = F /\ \A e \in Cpu : e # c => op'[e] = op[e]
  BY <1>1
<1>3. /\ evtchn_lock' \in [Dom -> Cpu \cup {NoCpu}]
      /\ \A a \in Dom, e \in Cpu : e # c => ((evtchn_lock'[a] = e) <=> (evtchn_lock[a] = e))
  BY <1>1, NumberFacts DEF Unlocked
<1>4. /\ refs' \in [Dom -> SUBSET (Cpu \cup {"self"})]
      /\ \A a \in Dom : refs[a] \subseteq refs'[a] /\ refs'[a] \subseteq refs[a] \cup {c}
  BY <1>1
<1>5. OthersKeep(c)
  BY <1>2, <1>3, <1>4 DEF OthersKeep, Undisturbed
<1>6. DomainsKeep
  <2>1. "self" # c  BY EvtchnConstants DEF EvtchnConstants
  <2>2. \A a \in Dom : ("self" \in refs'[a]) <=> ("self" \in refs[a])
    BY <1>4, <2>1
  <2> QED  BY <2>2, SameDomains
<1> QED  BY <1>2, <1>3, <1>4, <1>5, <1>6

\* evtchn_bind_pirq() preserves the invariant when the IRQ is bound.
LEMMA PirqGuestBind ==
  ASSUME IInv, NEW c \in Cpu, NEW q \in Pirq, pirq_guest_bind(c, q)
  PROVE  IInv'
<1> DEFINE F == Goto(op[c], "pirq_bound")
<1>1. /\ UNCHANGED <<evtchn, nr_ports, is_dying, refs, evtchn_lock>> /\ op[c].pc = "pirq_map"
      /\ op' = [op EXCEPT ![c] = F]
  BY DEF pirq_guest_bind, domVars, chanVars
<1>2. op[c] \in Frame /\ op[c].d1 \in Dom
  BY <1>1 DEF IInv, TypeOK, FrameOK
<1>3. /\ F \in Frame /\ F.pc = "pirq_bound" /\ F.caller = op[c].caller /\ F.cur = op[c].cur
      /\ F.d1 = op[c].d1 /\ F.port1 = op[c].port1
  BY <1>2, GotoFields DEF Pc
<1> HIDE DEF F
<1>4. OthersKeep(c) /\ DomainsKeep /\ op' \in [Cpu -> Frame] /\ op'[c] = F
  BY Zenon, <1>1, <1>3, MoveKeeps, SameUndisturbed
<1>5. TypeOK'
  <2>1. irq_guest' \in [Dom -> SUBSET Pirq]
    BY <1>2 DEF IInv, TypeOK, pirq_guest_bind
  <2> QED  BY <1>4, <2>1 DEF IInv, TypeOK, pirq_guest_bind, domVars, chanVars
<1>6. ActorOK(c)
  <2>1. op[c].caller # "destroy"
    BY Zenon, <1>1 DEF IInv, DestroyOK, Closing
  <2>2. FrameOK(c)'
    <3>1. FrameOK(c)  BY DEF IInv
    <3> QED  BY Zenon, <1>1, <1>3, <1>4, <3>1 DEF FrameOK, Closing, Chn1
  <2>3. \A d \in Dom : evtchn_lock'[d] = c => Holds(c, d)'
    BY <1>1, <1>3, <1>4 DEF IInv, HeldOK, Holds
  <2> QED  BY <1>3, <1>4, <2>1, <2>2, <2>3 DEF ActorOK, DestroyOK, Destroying
<1> QED  BY <1>1, <1>4, <1>5, <1>6, SameChannels, StepPreserves

\* evtchn_bind_pirq() preserves the invariant when the channel becomes ECS_PIRQ.
LEMMA BindPirqFinish ==
  ASSUME IInv, NEW c \in Cpu, NEW q \in Pirq, bind_pirq_finish(c, q)
  PROVE  IInv'
<1>1. UNCHANGED <<nr_ports, is_dying>> /\ Leave(c, Idle) /\ op[c].pc = "pirq_bound"
  BY Zenon DEF bind_pirq_finish, domVars
<1>2. PICK d \in Dom, p \in Port : d = op[c].d1 /\ p = op[c].port1
  BY Zenon, <1>1 DEF IInv, FrameOK
<1>3. /\ evtchn[d][p].state = "FREE" /\ is_dying[d] = "alive" /\ evtchn_lock[d] = c /\ p < nr_ports[d]
  BY Zenon, <1>1, <1>2 DEF IInv, FrameOK, Chn1
<1> DEFINE X == BoundPirq(evtchn[d][p], q)
<1>4. evtchn \in [Dom -> [Port -> Evtchn]] /\ \A a \in Dom : nr_ports[a] \in Nat
  BY DEF IInv, TypeOK
<1>5. X \in Evtchn /\ X.state = "PIRQ"
  BY <1>4, PirqChan
<1>6. evtchn' = [evtchn EXCEPT ![d][p] = X]
  BY <1>2 DEF bind_pirq_finish
<1> HIDE DEF X
<1>7. evtchn' \in [Dom -> [Port -> Evtchn]]
  BY <1>4, <1>5, <1>6
<1>8. \A a \in Dom, i \in Port : evtchn'[a][i] = IF a = d /\ i = p THEN X ELSE evtchn[a][i]
  BY <1>4, <1>6
<1>9. PeerSymmetry'
  <2>1. LinksKept  BY <1>3, <1>5, <1>8 DEF LinksKept, SameLink
  <2> QED  BY <2>1, LinksKeptPeers DEF IInv
<1>10. DyingKeeps
  BY <1>3, <1>8 DEF DyingKeeps, Live
<1>11. ValidPorts'
  BY Zenon, <1>1, <1>3, <1>8 DEF IInv, ValidPorts
<1>12. Undisturbed(c)
  BY <1>1, <1>3, <1>4, <1>8 DEF Undisturbed, SameLink
<1>13. /\ OthersKeep(c) /\ DomainsKeep /\ op' \in [Cpu -> Frame] /\ op'[c] = Idle
       /\ evtchn_lock' \in [Dom -> Cpu \cup {NoCpu}] /\ (\A a \in Dom : evtchn_lock'[a] # c)
       /\ refs' \in [Dom -> SUBSET (Cpu \cup {"self"})]
  BY Zenon, <1>1, <1>12, LeaveKeeps, IdleFields
<1>14. TypeOK'
  BY Zenon, <1>7, <1>13 DEF IInv, TypeOK, bind_pirq_finish, irqVars, domVars
<1>15. ActorOK(c)
  <2>1. op[c].caller # "destroy"
    BY <1>1 DEF IInv, DestroyOK, Closing
  <2> QED  BY Zenon, <1>13, <2>1, IdleActor
<1> QED  BY Zenon, <1>9, <1>10, <1>11, <1>13, <1>14, <1>15, StepPreserves

\* Unhooking a port from the VIRQ tables keeps their type.
LEMMA UnhookedType ==
  ASSUME NEW table \in [Vcpu -> [Virq -> Port]], NEW q, NEW p
  PROVE  Unhooked(table, q, p) \in [Vcpu -> [Virq -> Port]]
<1>1. ASSUME NEW v \in Vcpu PROVE [table[v] EXCEPT ![q] = IF @ = p THEN 0 ELSE @] \in [Virq -> Port]
  BY Zenon, NumberFacts
<1> QED  BY <1>1 DEF Unhooked

\* Unhooking the port of a VIRQ channel preserves the invariant.
LEMMA CloseVirq ==
  ASSUME IInv, NEW c \in Cpu, close_virq(c)
  PROVE  IInv'
<1> DEFINE F == Goto(op[c], "virq_barrier")
<1>1. /\ UNCHANGED <<evtchn, nr_ports, is_dying, refs>> /\ op[c].pc \in {"close", "again"}
      /\ op' = [op EXCEPT ![c] = F] /\ Unlocked(op[c].d1)
      /\ evtchn_lock' = [evtchn_lock EXCEPT ![op[c].d1] = c]
      /\ Chn1(c).state = "VIRQ"
  BY DEF close_virq, domVars, chanVars, LockD1
<1>2. op[c] \in Frame /\ op[c].d1 \in Dom
  BY <1>1 DEF IInv, TypeOK, FrameOK
<1>3. /\ F \in Frame /\ F.pc = "virq_barrier" /\ F.caller = op[c].caller
      /\ F.d1 = op[c].d1 /\ F.port1 = op[c].port1 /\ F.d2 = op[c].d2
  BY <1>2, GotoFields DEF Pc
<1> HIDE DEF F
<1>4. /\ OthersKeep(c) /\ DomainsKeep /\ op' \in [Cpu -> Frame] /\ op'[c] = F
      /\ evtchn_lock' \in [Dom -> Cpu \cup {NoCpu}]
  <2>1. Undisturbed(c)  BY <1>1, SameUndisturbed
  <2> QED  BY Zenon, <1>1, <1>2, <1>3, <2>1, MoveKeeps
<1>5. TypeOK'
  <2>1. virq_to_evtchn' \in [Dom -> [Vcpu -> [Virq -> Port]]]
    <3>1. Unhooked(virq_to_evtchn[op[c].d1], Chn1(c).irq, op[c].port1) \in [Vcpu -> [Virq -> Port]]
      <4>1. virq_to_evtchn[op[c].d1] \in [Vcpu -> [Virq -> Port]]
        BY <1>2 DEF IInv, TypeOK
      <4> QED  BY Zenon, <4>1, UnhookedType
    <3> QED  BY <1>2, <3>1 DEF IInv, TypeOK, close_virq
  <2> QED  BY <1>4, <2>1 DEF IInv, TypeOK, close_virq, domVars, chanVars
<1>6. ActorOK(c)
  <2>1. \A e \in Dom : evtchn_lock'[e] = IF e = op[c].d1 THEN c ELSE evtchn_lock[e]
    BY Zenon, <1>1 DEF IInv, TypeOK
  <2>2. FrameOK(c)'
    <3>1. FrameOK(c)  BY DEF IInv
    <3> QED  BY Zenon, <1>1, <1>2, <1>3, <1>4, <2>1, <3>1 DEF FrameOK, Closing, Chn1
  <2>3. \A d \in Dom : evtchn_lock'[d] = c => Holds(c, d)'
    BY Zenon, <1>1, <1>3, <1>4, <2>1 DEF IInv, HeldOK, Holds
  <2>4. DestroyOK(c)'
    <3>1. DestroyOK(c)  BY DEF IInv
    <3> QED  BY Zenon, <1>1, <1>3, <1>4, <3>1 DEF DestroyOK, Closing, Chn1, Live
  <2> QED  BY <1>3, <1>4, <2>2, <2>3, <2>4 DEF ActorOK, Destroying
<1> QED  BY <1>1, <1>4, <1>5, <1>6, SameChannels, StepPreserves

\* Taking the lock of d2 first, after backing off, preserves the invariant.
LEMMA CloseAgain ==
  ASSUME IInv, NEW c \in Cpu, close_again(c)
  PROVE  IInv'
<1> DEFINE F == Goto(op[c], "again")
<1>1. /\ UNCHANGED <<evtchn, nr_ports, is_dying, refs>> /\ op[c].pc = "backoff"
      /\ op' = [op EXCEPT ![c] = F] /\ Unlocked(op[c].d2)
      /\ evtchn_lock' = [evtchn_lock EXCEPT ![op[c].d2] = c]
  BY Zenon DEF close_again, domVars, chanVars
<1>2. op[c] \in Frame /\ op[c].d1 \in Dom /\ op[c].d2 \in Dom
  BY Zenon, <1>1 DEF IInv, TypeOK, FrameOK
<1>3. /\ F \in Frame /\ F.pc = "again" /\ F.caller = op[c].caller
      /\ F.d1 = op[c].d1 /\ F.port1 = op[c].port1 /\ F.d2 = op[c].d2
  BY SMTT(60), <1>2, GotoFields DEF Pc
<1> HIDE DEF F
<1>4. /\ OthersKeep(c) /\ DomainsKeep /\ op' \in [Cpu -> Frame] /\ op'[c] = F
      /\ evtchn_lock' \in [Dom -> Cpu \cup {NoCpu}]
  <2>1. Undisturbed(c)  BY Zenon, <1>1, SameUndisturbed
  <2> QED  BY Zenon, <1>1, <1>2, <1>3, <2>1, MoveKeeps
<1>5. TypeOK'
  BY Zenon, <1>4 DEF IInv, TypeOK, close_again, domVars, chanVars, irqVars
<1>6. ActorOK(c)
  <2>1. \A e \in Dom : evtchn_lock'[e] = IF e = op[c].d2 THEN c ELSE evtchn_lock[e]
    BY Zenon, <1>1 DEF IInv, TypeOK
  <2>2. FrameOK(c)'
    <3>1. FrameOK(c)  BY DEF IInv
    <3> QED  BY Zenon, <1>1, <1>2, <1>3, <1>4, <2>1, <3>1 DEF FrameOK, Closing, Chn1
  <2>3. \A d \in Dom : evtchn_lock'[d] = c => Holds(c, d)'
    BY Zenon, <1>1, <1>3, <1>4, <2>1 DEF IInv, HeldOK, Holds
  <2>4. DestroyOK(c)'
    <3>1. DestroyOK(c)  BY DEF IInv
    <3> QED  BY Zenon, <1>1, <1>3, <1>4, <3>1 DEF DestroyOK, Closing, Chn1, Live
  <2>5. c \in refs'[op'[c].d2]
    BY Zenon, <1>1, <1>3, <1>4 DEF IInv, RefsOK
  <2> QED  BY Zenon, <1>3, <1>4, <2>2, <2>3, <2>4, <2>5 DEF ActorOK, Destroying
<1> QED  BY <1>1, <1>4, <1>5, <1>6, SameChannels, StepPreserves

\* The first pass that meets a peer in another domain preserves the invariant,
\* whether it keeps the lock of d1 or drops it.
LEMMA CloseGetDomain ==
  ASSUME IInv, NEW c \in Cpu, close_get_domain(c)
  PROVE  IInv'
<1>1. /\ UNCHANGED <<evtchn, nr_ports, is_dying>> /\ op[c].pc \in {"close", "again"}
      /\ op[c].d2 = NULL /\ Unlocked(op[c].d1) /\ Chn1(c).state = "INTERDOMAIN"
  BY Zenon DEF close_get_domain, domVars, chanVars, LockD1
<1>2. PICK d \in Dom, p \in Port : d = op[c].d1 /\ p = op[c].port1
  BY Zenon, <1>1 DEF IInv, FrameOK, Closing
<1>3. PICK rd \in Dom : rd = Chn1(c).rdom
  BY Zenon, <1>1, <1>2 DEF IInv, PeerSymmetry, Chn1
<1>4. /\ op[c] \in Frame /\ op[c].pc = "close"
  BY Zenon, <1>1, NumberFacts DEF IInv, TypeOK, FrameOK
<1>5. refs' = [refs EXCEPT ![rd] = @ \cup {c}]
  BY <1>3 DEF close_get_domain
<1>6. \A a \in Dom : evtchn_lock[a] # c
  BY <1>4 DEF IInv, HeldOK, Holds
<1>7. c \in refs'[rd]
  BY Zenon, <1>5 DEF IInv, TypeOK
<1>8. SUFFICES ASSUME NEW F, F \in Frame, op' = [op EXCEPT ![c] = F],
                      F.caller = op[c].caller, F.d1 = d, F.port1 = p, F.d2 = rd,
                      \/ /\ F.pc = "lock2" /\ d < rd
                         /\ evtchn_lock' = [evtchn_lock EXCEPT ![d] = c]
                      \/ F.pc = "backoff" /\ d > rd /\ UNCHANGED evtchn_lock
               PROVE  IInv'
  <2>1. CASE /\ d < rd /\ op' = [op EXCEPT ![c] = GotoWith(op[c], "lock2", rd)]
             /\ evtchn_lock' = [evtchn_lock EXCEPT ![d] = c]
    <3>1. /\ GotoWith(op[c], "lock2", rd) \in Frame /\ GotoWith(op[c], "lock2", rd).pc = "lock2"
          /\ GotoWith(op[c], "lock2", rd).caller = op[c].caller /\ GotoWith(op[c], "lock2", rd).d1 = d
          /\ GotoWith(op[c], "lock2", rd).port1 = p /\ GotoWith(op[c], "lock2", rd).d2 = rd
      BY <1>2, <1>4, GotoWithFields DEF Pc
    <3> QED  BY Zenon, <1>8, <2>1, <3>1
  <2>2. CASE /\ d > rd /\ op' = [op EXCEPT ![c] = GotoWith(op[c], "backoff", rd)]
             /\ UNCHANGED evtchn_lock
    <3>1. /\ GotoWith(op[c], "backoff", rd) \in Frame /\ GotoWith(op[c], "backoff", rd).pc = "backoff"
          /\ GotoWith(op[c], "backoff", rd).caller = op[c].caller /\ GotoWith(op[c], "backoff", rd).d1 = d
          /\ GotoWith(op[c], "backoff", rd).port1 = p /\ GotoWith(op[c], "backoff", rd).d2 = rd
      BY <1>2, <1>4, GotoWithFields DEF Pc
    <3> QED  BY Zenon, <1>8, <2>2, <3>1
  <2> QED  BY Zenon, <1>2, <1>3, <2>1, <2>2 DEF close_get_domain
<1>9. /\ OthersKeep(c) /\ DomainsKeep /\ op' \in [Cpu -> Frame] /\ op'[c] = F
      /\ evtchn_lock' \in [Dom -> Cpu \cup {NoCpu}]
      /\ refs' \in [Dom -> SUBSET (Cpu \cup {"self"})]
  <2>1. Undisturbed(c)  BY <1>1, SameUndisturbed
  <2> QED  BY Zenon, <1>1, <1>2, <1>5, <1>8, <2>1, MoveKeeps
<1>10. TypeOK'
  BY <1>9 DEF IInv, TypeOK, close_get_domain, domVars, chanVars, irqVars
<1>11. ActorOK(c)
  <2>1. \A e \in Dom : evtchn_lock'[e] = c <=> F.pc = "lock2" /\ e = d
    BY Zenon, <1>6, <1>8 DEF IInv, TypeOK
  <2>2. FrameOK(c)'
    BY Zenon, <1>1, <1>2, <1>3, <1>8, <1>9, <2>1, NumberFacts DEF FrameOK, Closing, Chn1
  <2>3. \A a \in Dom : evtchn_lock'[a] = c => Holds(c, a)'
    BY <1>8, <1>9, <2>1 DEF Holds
  <2>4. DestroyOK(c)'
    <3>1. DestroyOK(c)  BY DEF IInv
    <3>2. op'[c] = F /\ evtchn' = evtchn /\ is_dying' = is_dying  BY <1>1, <1>9
    <3>3. F.caller = op[c].caller /\ F.d1 = d /\ F.port1 = p /\ F.d2 = rd /\ F.pc \in {"lock2", "backoff"}
      BY Zenon, <1>8
    <3>4. evtchn[d][p].state = "INTERDOMAIN" /\ evtchn[d][p].rdom = rd
      BY <1>1, <1>2, <1>3 DEF Chn1
    <3> QED  BY Zenon, <1>2, <1>4, <3>1, <3>2, <3>3, <3>4 DEF DestroyOK, Closing, Chn1, Live
  <2> QED  BY Zenon, <1>2, <1>7, <1>8, <1>9, <2>2, <2>3, <2>4 DEF ActorOK, Destroying
<1> QED  BY Zenon, <1>1, <1>9, <1>10, <1>11, SameChannels, StepPreserves

=============================================================================
