------------------------- MODULE EventChannelSteps --------------------------
(***************************************************************************)
(* Signalling, allocation and binding preserve IInv; what every operation  *)
(* that leaves or returns has in common.                                   *)
(***************************************************************************)
EXTENDS EventChannelInv, TLAPS

\* A step that changes no channel keeps the pairs and the dying domains as they are.
LEMMA SameLinks ==
  ASSUME IInv, UNCHANGED evtchn
  PROVE  DyingKeeps /\ PeerSymmetry'
  BY Zenon DEF IInv, DyingKeeps, Live, PeerSymmetry, IsPair

\* A step that changes no channel, lock or reference disturbs no other CPU.
LEMMA SameChannels ==
  ASSUME IInv, UNCHANGED <<evtchn, nr_ports>>
  PROVE  DyingKeeps /\ PeerSymmetry' /\ ValidPorts'
  BY DEF IInv, DyingKeeps, Live, PeerSymmetry, IsPair, ValidPorts

\* A step that changes no reference and no is_dying flag keeps the peers referenced.
LEMMA SameDomains ==
  ASSUME UNCHANGED is_dying, \A d \in Dom : ("self" \in refs'[d]) <=> ("self" \in refs[d])
  PROVE  DomainsKeep
  BY DEF DomainsKeep

\* Steps that change neither a channel's link, nor a frame, nor a lock.
LEMMA QuietStep ==
  ASSUME IInv, TypeOK', UNCHANGED <<evtchn, nr_ports, is_dying, refs, evtchn_lock, op>>
  PROVE  IInv'
<1>1. OthersKeep(NoCpu)
  <2>1. \A d \in Dom : nr_ports[d] \in Nat
    BY DEF IInv, TypeOK
  <2> QED  BY <2>1 DEF OthersKeep, SameLink
<1> QED  BY <1>1, SameChannels, SameDomains, StepPreserves, NumberFacts

\* evtchn_send() to an IPI channel preserves the invariant.
LEMMA EvtchnSendIpi ==
  ASSUME IInv, NEW d \in Dom, NEW p \in Port, evtchn_send_ipi(d, p)
  PROVE  IInv'
<1>1. TypeOK'
  BY DEF IInv, TypeOK, evtchn_send_ipi, SetPending, cpuVars, domVars, irqVars, chanVars
<1>2. UNCHANGED <<evtchn, nr_ports, is_dying, refs, evtchn_lock, op>>
  BY DEF evtchn_send_ipi, cpuVars, domVars, chanVars
<1> QED  BY <1>1, <1>2, QuietStep

\* A VIRQ sender that reads its port under virq_lock preserves the invariant.
LEMMA SendGuestVirq ==
  ASSUME IInv, NEW d \in Dom, NEW v \in Vcpu, NEW q \in Virq, send_guest_virq(d, v, q)
  PROVE  IInv'
<1>1. TypeOK'
  BY DEF IInv, TypeOK, send_guest_virq, cpuVars, domVars, irqVars, chanVars
<1>2. UNCHANGED <<evtchn, nr_ports, is_dying, refs, evtchn_lock, op>>
  BY DEF send_guest_virq, cpuVars, domVars, chanVars
<1> QED  BY <1>1, <1>2, QuietStep

\* A VIRQ sender that signals its port preserves the invariant.
LEMMA SendVirqFinish ==
  ASSUME IInv, NEW d \in Dom, NEW v \in Vcpu, send_virq_finish(d, v)
  PROVE  IInv'
<1>1. TypeOK'
  BY NumberFacts DEF IInv, TypeOK, send_virq_finish, SetPending, cpuVars, domVars, irqVars, chanVars
<1>2. UNCHANGED <<evtchn, nr_ports, is_dying, refs, evtchn_lock, op>>
  BY DEF send_virq_finish, cpuVars, domVars, chanVars
<1> QED  BY <1>1, <1>2, QuietStep

\* send_guest_pirq() preserves the invariant.
LEMMA SendGuestPirq ==
  ASSUME IInv, NEW d \in Dom, NEW q \in Pirq, send_guest_pirq(d, q)
  PROVE  IInv'
<1>1. TypeOK'
  BY DEF IInv, TypeOK, send_guest_pirq, SetPending, cpuVars, domVars, irqVars, chanVars
<1>2. UNCHANGED <<evtchn, nr_ports, is_dying, refs, evtchn_lock, op>>
  BY DEF send_guest_pirq, cpuVars, domVars, chanVars
<1> QED  BY <1>1, <1>2, QuietStep

\* A guest that clears a pending bit preserves the invariant.
LEMMA GuestClearPending ==
  ASSUME IInv, NEW d \in Dom, NEW p \in Port, guest_clear_pending(d, p)
  PROVE  IInv'
<1>1. TypeOK'
  BY DEF IInv, TypeOK, guest_clear_pending, cpuVars, domVars, irqVars, chanVars
<1>2. UNCHANGED <<evtchn, nr_ports, is_dying, refs, evtchn_lock, op>>
  BY DEF guest_clear_pending, cpuVars, domVars, chanVars
<1> QED  BY <1>1, <1>2, QuietStep

\* An operation that only enters its first frame.
LEMMA EnterKeeps ==
  ASSUME IInv, NEW c \in Cpu, NEW F, Enter(c, F), UNCHANGED <<evtchn, nr_ports, is_dying, refs>>,
         \/ UNCHANGED evtchn_lock
         \/ \E d \in Dom : Unlocked(d) /\ evtchn_lock' = [evtchn_lock EXCEPT ![d] = c]
  PROVE  /\ OthersKeep(c)
         /\ op'[c] = F /\ op[c] = Idle
         /\ \A d \in Dom : evtchn_lock[d] # c
         /\ \A d \in Dom : ~Destroying(c, d)
<1>1. op \in [Cpu -> Frame] /\ evtchn_lock \in [Dom -> Cpu \cup {NoCpu}]
      /\ \A d \in Dom : nr_ports[d] \in Nat
  BY DEF IInv, TypeOK
<1>2. op[c] = Idle /\ op'[c] = F /\ \A e \in Cpu : e # c => op'[e] = op[e]
  BY <1>1 DEF Enter
<1>3. \A d \in Dom : evtchn_lock[d] # c
  BY <1>2, IdleFields DEF IInv, HeldOK, Holds
<1>4. \A d \in Dom, e \in Cpu : e # c => ((evtchn_lock'[d] = e) <=> (evtchn_lock[d] = e))
  BY <1>1, NumberFacts DEF Unlocked
<1>5. OthersKeep(c)
  BY <1>1, <1>2, <1>4 DEF OthersKeep, SameLink
<1> QED  BY <1>2, <1>3, <1>5, IdleFields DEF Destroying

\* Entering evtchn_close() preserves the invariant.
LEMMA EvtchnClose ==
  ASSUME IInv, NEW c \in Cpu, NEW d \in Dom, NEW p \in Port, evtchn_close(c, d, p)
  PROVE  IInv'
<1> DEFINE F == MkFrame("close", "guest", d, d, p, NULL, 0)
<1>1. /\ F \in Frame /\ F.pc = "close" /\ F.caller = "guest" /\ F.d1 = d /\ F.port1 = p /\ F.d2 = NULL
  BY NumberFacts, MkFrameFields DEF Pc, Caller
<1>2. /\ Enter(c, F) /\ UNCHANGED <<evtchn, nr_ports, is_dying, refs, evtchn_lock>>
  BY DEF evtchn_close, chanVars, domVars
<1> HIDE DEF F
<1>3. OthersKeep(c) /\ op'[c] = F /\ (\A e \in Dom : evtchn_lock[e] # c /\ ~Destroying(c, e))
  BY <1>2, EnterKeeps
<1>4. TypeOK'
  BY <1>1, <1>2 DEF IInv, TypeOK, Enter, evtchn_close, irqVars, domVars, chanVars
<1>5. ActorOK(c)
  BY <1>1, <1>2, <1>3 DEF ActorOK, FrameOK, DestroyOK, Closing
<1> QED  BY <1>2, <1>3, <1>4, <1>5, SameChannels, SameDomains, StepPreserves

\* nr_ports[] after get_free_port() has returned p.
BucketAdded(d, p) ==
  /\ p < nr_ports'[d]
  /\ \A e \in Dom : nr_ports[e] <= nr_ports'[e]

\* A new bucket makes the allocated port valid and no other one invalid.
LEMMA AddBucketGrows ==
  ASSUME IInv, NEW d \in Dom, NEW p \in Port, get_free_port(d, p), AddBucket(d, p)
  PROVE  BucketAdded(d, p) /\ nr_ports' \in [Dom -> Nat]
<1>1. nr_ports \in [Dom -> Nat] /\ EVTCHNS_PER_BUCKET \in Nat \ {0} /\ p \in Nat
  BY EvtchnConstants, NumberFacts DEF EvtchnConstants, IInv, TypeOK
<1>2. p <= nr_ports[d]
  <2>1. CASE p = 0
    BY <1>1, <2>1
  <2>2. CASE p # 0
    <3>1. p - 1 \in Port /\ p - 1 < p
      BY <1>1, <2>2, EvtchnConstants DEF Port, EvtchnConstants
    <3>2. p - 1 < nr_ports[d]
      BY <3>1 DEF get_free_port, IInv, ValidPorts
    <3> QED  BY <1>1, <3>2
  <2> QED  BY <2>1, <2>2
<1>3. nr_ports' = [nr_ports EXCEPT ![d] = IF p < nr_ports[d] THEN nr_ports[d]
                                          ELSE nr_ports[d] + EVTCHNS_PER_BUCKET]
  BY DEF AddBucket
<1>4. nr_ports' \in [Dom -> Nat]
  BY <1>1, <1>3
<1>5. \A e \in Dom : nr_ports[e] <= nr_ports'[e]
  BY <1>1, <1>3
<1>6. p < nr_ports'[d]
  BY <1>1, <1>2, <1>3
<1> QED  BY <1>4, <1>5, <1>6 DEF BucketAdded

\* Entering evtchn_reset() preserves the invariant.
LEMMA EvtchnReset ==
  ASSUME IInv, NEW c \in Cpu, NEW cur \in Dom, NEW d \in Dom, evtchn_reset(c, cur, d)
  PROVE  IInv'
<1> DEFINE F == MkFrame("loop", "reset", cur, d, 0, NULL, 0)
<1>1. F \in Frame /\ F.pc = "loop" /\ F.caller = "reset" /\ F.d1 = d /\ F.d2 = NULL
  BY NumberFacts, MkFrameFields DEF Pc, Caller
<1>2. Enter(c, F) /\ UNCHANGED <<evtchn, nr_ports, is_dying, refs, evtchn_lock>>
  BY DEF evtchn_reset, chanVars, domVars
<1> HIDE DEF F
<1>3. OthersKeep(c) /\ op'[c] = F /\ (\A e \in Dom : evtchn_lock[e] # c /\ ~Destroying(c, e))
  BY <1>2, EnterKeeps
<1>4. TypeOK'
  BY SMTT(60), <1>1, <1>2 DEF IInv, TypeOK, Enter, evtchn_reset, irqVars, domVars, chanVars
<1>5. ActorOK(c)
  BY <1>1, <1>2, <1>3 DEF ActorOK, FrameOK, DestroyOK, Closing
<1> QED  BY <1>2, <1>3, <1>4, <1>5, SameChannels, SameDomains, StepPreserves

\* evtchn_bind_interdomain() preserves the invariant when it takes its first lock.
LEMMA EvtchnBindInterdomain ==
  ASSUME IInv, NEW c \in Cpu, NEW ld \in Dom, NEW rd \in Dom, NEW rport \in Port,
         evtchn_bind_interdomain(c, ld, rd, rport)
  PROVE  IInv'
<1> DEFINE F == MkFrame("bind", "guest", ld, ld, 0, rd, rport)
           first == IF ld < rd THEN ld ELSE rd
<1>1. /\ F \in Frame /\ F.pc = "bind" /\ F.caller = "guest" /\ F.d1 = ld /\ F.d2 = rd /\ F.port2 = rport
  BY NumberFacts, MkFrameFields DEF Pc, Caller
<1>2. /\ Enter(c, F) /\ UNCHANGED <<evtchn, nr_ports, is_dying, refs>>
      /\ first \in Dom /\ Unlocked(first) /\ evtchn_lock' = [evtchn_lock EXCEPT ![first] = c]
  BY DEF evtchn_bind_interdomain, chanVars, domVars
<1> HIDE DEF F
<1>3. OthersKeep(c) /\ op'[c] = F /\ (\A e \in Dom : evtchn_lock[e] # c /\ ~Destroying(c, e))
  BY Zenon, <1>2, EnterKeeps
<1>4. TypeOK'
  <2>1. op' \in [Cpu -> Frame]
    BY <1>1, <1>2 DEF IInv, TypeOK, Enter
  <2>2. evtchn_lock' \in [Dom -> Cpu \cup {NoCpu}]
    BY <1>2 DEF IInv, TypeOK
  <2> QED  BY <2>1, <2>2 DEF IInv, TypeOK, evtchn_bind_interdomain, irqVars, domVars, chanVars
<1>5. ActorOK(c)
  <2>1. \A e \in Dom : evtchn_lock'[e] = c <=> e = first
    BY <1>2, <1>3 DEF IInv, TypeOK
  <2> QED  BY <1>1, <1>2, <1>3, <2>1 DEF ActorOK, FrameOK, DestroyOK, Closing, Holds
<1> QED  BY <1>2, <1>3, <1>4, <1>5, SameChannels, SameDomains, StepPreserves

\* A sender that has locked the local domain finds both ends of its channel connected.
LEMMA SendEnters ==
  ASSUME IInv, NEW c \in Cpu, NEW F, NEW ld \in Dom, NEW lport \in Port,
         Enter(c, F), UNCHANGED <<evtchn, nr_ports, is_dying, refs>>,
         Unlocked(ld), evtchn_lock' = [evtchn_lock EXCEPT ![ld] = c],
         evtchn[ld][lport].state = "INTERDOMAIN",
         F.pc = "send", F.caller # "destroy", F.d1 = ld, F.port1 = lport,
         F.d2 = evtchn[ld][lport].rdom, F.port2 = evtchn[ld][lport].rport,
         TypeOK'
  PROVE  IInv'
<1>1. OthersKeep(c) /\ op'[c] = F /\ (\A e \in Dom : evtchn_lock[e] # c /\ ~Destroying(c, e))
  BY Zenon, EnterKeeps
<1>2. ActorOK(c)
  <2>1. \A e \in Dom : evtchn_lock'[e] = c <=> e = ld
    BY <1>1 DEF IInv, TypeOK
  <2> QED  BY <1>1, <2>1 DEF ActorOK, FrameOK, DestroyOK, Closing, Holds, IsPair
<1> QED  BY <1>1, <1>2, SameChannels, SameDomains, StepPreserves

\* evtchn_send() to an interdomain channel preserves the invariant.
LEMMA EvtchnSend ==
  ASSUME IInv, NEW c \in Cpu, NEW cur \in Dom \cup {NULL}, NEW ld \in Dom, NEW lport \in Port,
         evtchn_send(c, cur, ld, lport)
  PROVE  IInv'
<1> DEFINE F == MkFrame("send", "guest", cur, ld, lport, evtchn[ld][lport].rdom, evtchn[ld][lport].rport)
<1>1. evtchn[ld][lport] \in Evtchn
  BY DEF IInv, TypeOK
<1>2. /\ F \in Frame /\ F.pc = "send" /\ F.caller = "guest" /\ F.d1 = ld /\ F.port1 = lport
      /\ F.d2 = evtchn[ld][lport].rdom /\ F.port2 = evtchn[ld][lport].rport
  BY <1>1, NumberFacts, ChanFields, MkFrameFields DEF Pc, Caller
<1>3. /\ Enter(c, F) /\ UNCHANGED <<evtchn, nr_ports, is_dying, refs>>
      /\ Unlocked(ld) /\ evtchn_lock' = [evtchn_lock EXCEPT ![ld] = c]
      /\ evtchn[ld][lport].state = "INTERDOMAIN"
  BY Zenon DEF evtchn_send, chanVars, domVars
<1> HIDE DEF F
<1>4. TypeOK'
  <2>1. op' \in [Cpu -> Frame]
    BY <1>2, <1>3 DEF IInv, TypeOK, Enter
  <2>2. evtchn_lock' \in [Dom -> Cpu \cup {NoCpu}]
    BY Zenon, <1>3 DEF IInv, TypeOK
  <2> QED  BY <2>1, <2>2 DEF IInv, TypeOK, evtchn_send, irqVars, domVars, chanVars
<1> QED  BY Zenon, <1>2, <1>3, <1>4, SendEnters

\* notify_via_xen_event_channel() preserves the invariant.
LEMMA NotifyViaXen ==
  ASSUME IInv, NEW c \in Cpu, NEW ld \in Dom, NEW v \in Vcpu,
         notify_via_xen_event_channel(c, ld, v)
  PROVE  IInv'
<1> DEFINE lport == xen_port[ld][v]
           F == MkFrame("send", "notify", ld, ld, lport, evtchn[ld][lport].rdom, evtchn[ld][lport].rport)
<1>0. lport \in Port
  BY DEF IInv, TypeOK
<1>1. evtchn[ld][lport] \in Evtchn
  BY <1>0 DEF IInv, TypeOK
<1>2. /\ F \in Frame /\ F.pc = "send" /\ F.caller = "notify" /\ F.d1 = ld /\ F.port1 = lport
      /\ F.d2 = evtchn[ld][lport].rdom /\ F.port2 = evtchn[ld][lport].rport
  <2> HIDE DEF lport
  <2> QED  BY <1>0, <1>1, NumberFacts, ChanFields, MkFrameFields DEF Pc, Caller
<1>3. /\ Enter(c, F) /\ UNCHANGED <<evtchn, nr_ports, is_dying, refs>>
      /\ Unlocked(ld) /\ evtchn_lock' = [evtchn_lock EXCEPT ![ld] = c]
      /\ evtchn[ld][lport].state = "INTERDOMAIN"
  BY DEF notify_via_xen_event_channel, chanVars, domVars
<1> HIDE DEF F
<1>4. TypeOK'
  <2>1. op' \in [Cpu -> Frame]
    BY <1>2, <1>3 DEF IInv, TypeOK, Enter
  <2>2. evtchn_lock' \in [Dom -> Cpu \cup {NoCpu}]
    BY Zenon, <1>3 DEF IInv, TypeOK
  <2> QED  BY Zenon, <2>1, <2>2 DEF IInv, TypeOK, notify_via_xen_event_channel, irqVars, domVars, chanVars
<1> HIDE DEF lport
<1> QED  BY Zenon, <1>0, <1>2, <1>3, <1>4, SendEnters

\* evtchn_bind_pirq() preserves the invariant when it enters the port in the table.
LEMMA EvtchnBindPirq ==
  ASSUME IInv, NEW c \in Cpu, NEW d \in Dom, NEW q \in Pirq, evtchn_bind_pirq(c, d, q)
  PROVE  IInv'
<1>1. PICK p \in Port :
        /\ get_free_port(d, p) /\ AddBucket(d, p)
        /\ pirq_to_evtchn' = [pirq_to_evtchn EXCEPT ![d][q] = p]
        /\ Enter(c, MkFrame("pirq_map", "guest", d, d, p, NULL, 0))
  BY Zenon DEF evtchn_bind_pirq
<1> DEFINE F == MkFrame("pirq_map", "guest", d, d, p, NULL, 0)
<1>2. /\ F \in Frame /\ F.pc = "pirq_map" /\ F.caller = "guest" /\ F.d1 = d /\ F.port1 = p /\ F.cur = d
  BY NumberFacts, MkFrameFields DEF Pc, Caller
<1>3. /\ Enter(c, F) /\ UNCHANGED <<evtchn, is_dying, refs>>
      /\ Unlocked(d) /\ evtchn_lock' = [evtchn_lock EXCEPT ![d] = c]
      /\ is_dying[d] = "alive" /\ evtchn[d][p].state = "FREE"
  BY <1>1 DEF evtchn_bind_pirq, domVars, get_free_port
<1> HIDE DEF F
<1>4. TypeOK' /\ BucketAdded(d, p)
  <2>1. BucketAdded(d, p) /\ nr_ports' \in [Dom -> Nat]
    BY <1>1, AddBucketGrows
  <2>2. op' \in [Cpu -> Frame]
    BY <1>2, <1>3 DEF Enter, IInv, TypeOK
  <2>3. pirq_to_evtchn' \in [Dom -> [Pirq -> Port]]
    BY <1>1 DEF IInv, TypeOK
  <2>4. evtchn_lock' \in [Dom -> Cpu \cup {NoCpu}]
    BY <1>3 DEF IInv, TypeOK
  <2>5. UNCHANGED <<evtchn, pending, virq_to_evtchn, virq_lock, irq_guest, xen_port, is_dying, refs>>
    BY DEF evtchn_bind_pirq, domVars
  <2> QED  BY <2>1, <2>2, <2>3, <2>4, <2>5 DEF IInv, TypeOK
<1>5. /\ op[c] = Idle /\ op'[c] = F /\ \A e \in Cpu : e # c => op'[e] = op[e]
  BY Zenon, <1>2, <1>3 DEF Enter, IInv, TypeOK
<1>6. \A e \in Dom : evtchn_lock[e] # c /\ ~Destroying(c, e)
  BY <1>5, IdleFields DEF IInv, HeldOK, Holds, Destroying
<1>7. \A e \in Dom : evtchn_lock'[e] = IF e = d THEN c ELSE evtchn_lock[e]
  BY <1>3 DEF IInv, TypeOK
<1>8. OthersKeep(c)
  BY Zenon, <1>3, <1>4, <1>5, <1>7, NumberFacts DEF OthersKeep, SameLink, BucketAdded, Unlocked
<1>9. ActorOK(c)
  <2>1. evtchn'[d][p].state = "FREE" /\ is_dying'[d] = "alive" /\ p < nr_ports'[d]
    BY Zenon, <1>3, <1>4 DEF BucketAdded
  <2>2. FrameOK(c)'
    BY <1>2, <1>5, <1>7, <2>1 DEF FrameOK, Closing, Chn1
  <2>3. \A e \in Dom : evtchn_lock'[e] = c => Holds(c, e)'
    BY <1>2, <1>5, <1>6, <1>7 DEF Holds
  <2> QED  BY <1>2, <1>5, <1>6, <2>2, <2>3 DEF ActorOK, DestroyOK
<1>10. ValidPorts'
  <2>1. \A a \in Dom : nr_ports[a] \in Nat /\ nr_ports'[a] \in Nat
    BY <1>4 DEF IInv, TypeOK
  <2> QED  BY <1>3, <1>4, <2>1, NumberFacts DEF IInv, ValidPorts, BucketAdded
<1>11. DyingKeeps /\ PeerSymmetry'
  BY Zenon, <1>3, SameLinks
<1> QED  BY Zenon, <1>3, <1>4, <1>8, <1>9, <1>10, <1>11, SameDomains, StepPreserves

\* A new channel disturbs no other channel, and no CPU that holds a lock.
LEMMA AllocateKeeps ==
  ASSUME IInv, NEW d \in Dom, NEW p \in Port, NEW X \in Evtchn, X.state # "INTERDOMAIN",
         Allocate(d, p, X), Unlocked(d)
  PROVE  /\ evtchn' \in [Dom -> [Port -> Evtchn]] /\ nr_ports' \in [Dom -> Nat]
         /\ PeerSymmetry' /\ DyingKeeps /\ ValidPorts'
         /\ \A a \in Dom : evtchn_lock[a] \in Cpu =>
              nr_ports[a] <= nr_ports'[a] /\ \A i \in Port : SameLink(a, i)
<1>1. evtchn \in [Dom -> [Port -> Evtchn]] /\ nr_ports \in [Dom -> Nat]
  BY DEF IInv, TypeOK
<1>2. /\ evtchn' = [evtchn EXCEPT ![d][p] = X]
      /\ evtchn[d][p].state = "FREE" /\ is_dying[d] = "alive"
      /\ evtchn_lock[d] \notin Cpu
  BY NumberFacts DEF Allocate, get_free_port, Unlocked
<1>3. evtchn' \in [Dom -> [Port -> Evtchn]]
  BY <1>1, <1>2
<1>4. \A a \in Dom, i \in Port : evtchn'[a][i] = IF a = d /\ i = p THEN X ELSE evtchn[a][i]
  BY <1>1, <1>2
<1>5. BucketAdded(d, p) /\ nr_ports' \in [Dom -> Nat]
  BY AddBucketGrows DEF Allocate
<1>6. PeerSymmetry'
  <2>1. LinksKept  BY <1>2, <1>4 DEF LinksKept, SameLink
  <2> QED  BY <2>1, LinksKeptPeers DEF IInv
<1>7. DyingKeeps
  BY <1>2, <1>4 DEF DyingKeeps, Live
<1>8. ValidPorts'
  <2>1. ASSUME NEW a \in Dom, NEW i \in Port, evtchn'[a][i].state # "FREE"
        PROVE  i < nr_ports'[a]
    <3>1. CASE a = d /\ i = p
      BY <3>1, <1>5 DEF BucketAdded
    <3>2. CASE ~(a = d /\ i = p)
      <4>1. i < nr_ports[a]  BY <3>2, <2>1, <1>4 DEF IInv, ValidPorts
      <4>2. i \in Nat /\ nr_ports[a] \in Nat /\ nr_ports'[a] \in Nat /\ nr_ports[a] <= nr_ports'[a]
        BY <1>1, <1>5, NumberFacts DEF BucketAdded
      <4> QED  BY <4>1, <4>2
    <3> QED  BY <3>1, <3>2
  <2> QED  BY <2>1 DEF ValidPorts
<1>9. \A a \in Dom : evtchn_lock[a] \in Cpu =>
        nr_ports[a] <= nr_ports'[a] /\ \A i \in Port : SameLink(a, i)
  BY <1>2, <1>4, <1>5 DEF SameLink, BucketAdded
<1> QED  BY <1>3, <1>5, <1>6, <1>7, <1>8, <1>9

\* An allocation done by a CPU that stays outside any frame preserves the invariant.
LEMMA AllocateStep ==
  ASSUME IInv, NEW d \in Dom, NEW p \in Port, NEW X \in Evtchn, X.state # "INTERDOMAIN",
         Allocate(d, p, X), Unlocked(d), UNCHANGED <<is_dying, cpuVars>>,
         evtchn' \in [Dom -> [Port -> Evtchn]] /\ nr_ports' \in [Dom -> Nat] => TypeOK'
  PROVE  IInv'
<1>1. /\ TypeOK' /\ PeerSymmetry' /\ DyingKeeps /\ ValidPorts'
      /\ \A a \in Dom : evtchn_lock[a] \in Cpu =>
           nr_ports[a] <= nr_ports'[a] /\ \A i \in Port : SameLink(a, i)
  BY AllocateKeeps
<1>2. OthersKeep(NoCpu)
  BY <1>1 DEF OthersKeep, cpuVars
<1> QED  BY Zenon, <1>1, <1>2, SameDomains, StepPreserves, NumberFacts DEF cpuVars

\* evtchn_alloc_unbound() preserves the invariant.
LEMMA EvtchnAllocUnbound ==
  ASSUME IInv, NEW cur \in Dom, NEW d \in Dom, NEW rdom \in Dom, evtchn_alloc_unbound(cur, d, rdom)
  PROVE  IInv'
<1>1. PICK p \in Port : Allocate(d, p, Unbound(evtchn[d][p], rdom))
  BY DEF evtchn_alloc_unbound
<1>2. Unbound(evtchn[d][p], rdom) \in Evtchn /\ Unbound(evtchn[d][p], rdom).state = "UNBOUND"
  BY UnboundChan DEF IInv, TypeOK
<1>3. evtchn' \in [Dom -> [Port -> Evtchn]] /\ nr_ports' \in [Dom -> Nat] => TypeOK'
  BY DEF IInv, TypeOK, evtchn_alloc_unbound, irqVars, domVars, cpuVars
<1>4. Unlocked(d) /\ UNCHANGED <<is_dying, cpuVars>>
  BY DEF evtchn_alloc_unbound, domVars
<1> QED  BY <1>1, <1>2, <1>3, <1>4, AllocateStep

\* evtchn_bind_ipi() preserves the invariant.
LEMMA EvtchnBindIpi ==
  ASSUME IInv, NEW d \in Dom, NEW v \in Vcpu, evtchn_bind_ipi(d, v)
  PROVE  IInv'
<1>1. PICK p \in Port : Allocate(d, p, BoundIpi(evtchn[d][p], v))
  BY DEF evtchn_bind_ipi
<1>2. BoundIpi(evtchn[d][p], v) \in Evtchn /\ BoundIpi(evtchn[d][p], v).state = "IPI"
  BY IpiChan DEF IInv, TypeOK
<1>3. evtchn' \in [Dom -> [Port -> Evtchn]] /\ nr_ports' \in [Dom -> Nat] => TypeOK'
  BY DEF IInv, TypeOK, evtchn_bind_ipi, irqVars, domVars, cpuVars
<1>4. Unlocked(d) /\ UNCHANGED <<is_dying, cpuVars>>
  BY DEF evtchn_bind_ipi, domVars
<1> QED  BY <1>1, <1>2, <1>3, <1>4, AllocateStep

\* evtchn_bind_virq() preserves the invariant.
LEMMA EvtchnBindVirq ==
  ASSUME IInv, NEW d \in Dom, NEW v \in Vcpu, NEW q \in Virq, evtchn_bind_virq(d, v, q)
  PROVE  IInv'
<1>1. PICK p \in Port : /\ Allocate(d, p, BoundVirq(evtchn[d][p], v, q))
                        /\ virq_to_evtchn' = [virq_to_evtchn EXCEPT ![d][v][q] = p]
  BY Zenon DEF evtchn_bind_virq
<1>2. BoundVirq(evtchn[d][p], v, q) \in Evtchn /\ BoundVirq(evtchn[d][p], v, q).state = "VIRQ"
  BY VirqChan DEF IInv, TypeOK
<1>3. evtchn' \in [Dom -> [Port -> Evtchn]] /\ nr_ports' \in [Dom -> Nat] => TypeOK'
  <2>1. virq_to_evtchn' \in [Dom -> [Vcpu -> [Virq -> Port]]]
    BY <1>1 DEF IInv, TypeOK
  <2> QED  BY <2>1 DEF IInv, TypeOK, evtchn_bind_virq, domVars, cpuVars
<1>4. Unlocked(d) /\ UNCHANGED <<is_dying, cpuVars>>
  BY DEF evtchn_bind_virq, domVars
<1> QED  BY <1>1, <1>2, <1>3, <1>4, AllocateStep

\* The channel that alloc_unbound_xen_event_channel() makes waits for a bind.
LEMMA XenChannelType ==
  ASSUME IInv, NEW d \in Dom, NEW p \in Port, NEW v \in Vcpu, NEW rdom \in Priv
  PROVE  XenChannel(d, p, v, rdom) \in Evtchn /\ XenChannel(d, p, v, rdom).state = "UNBOUND"
<1>1. Unbound(evtchn[d][p], rdom) \in Evtchn /\ Unbound(evtchn[d][p], rdom).state = "UNBOUND"
  BY UnboundChan, EvtchnConstants DEF IInv, TypeOK, EvtchnConstants
<1> QED  BY <1>1, XenAttachedChan DEF XenChannel

\* hvm_vcpu_initialise() preserves the invariant.
LEMMA HvmVcpuInitialise ==
  ASSUME IInv, NEW d \in Dom, NEW v \in Vcpu, hvm_vcpu_initialise(d, v)
  PROVE  IInv'
<1>1. PICK p \in Port, rdom \in Priv :
        /\ Allocate(d, p, XenChannel(d, p, v, rdom))
        /\ xen_port' = [xen_port EXCEPT ![d][v] = p]
  BY Zenon DEF hvm_vcpu_initialise
<1>2. XenChannel(d, p, v, rdom) \in Evtchn /\ XenChannel(d, p, v, rdom).state = "UNBOUND"
  BY XenChannelType
<1>3. evtchn' \in [Dom -> [Port -> Evtchn]] /\ nr_ports' \in [Dom -> Nat] => TypeOK'
  <2>1. xen_port' \in [Dom -> [Vcpu -> Port]]
    BY <1>1 DEF IInv, TypeOK
  <2> QED  BY <2>1 DEF IInv, TypeOK, hvm_vcpu_initialise, irqVars, cpuVars
<1>4. Unlocked(d) /\ UNCHANGED <<is_dying, cpuVars>>
  BY DEF hvm_vcpu_initialise
<1> QED  BY <1>1, <1>2, <1>3, <1>4, AllocateStep

\* evtchn_bind_vcpu() preserves the invariant.
LEMMA EvtchnBindVcpu ==
  ASSUME IInv, NEW d \in Dom, NEW p \in Port, NEW v \in Vcpu, evtchn_bind_vcpu(d, p, v)
  PROVE  IInv'
<1> DEFINE X == Notifies(evtchn[d][p], v)
<1>1. evtchn \in [Dom -> [Port -> Evtchn]] /\ \A a \in Dom : nr_ports[a] \in Nat
  BY DEF IInv, TypeOK
<1>2. /\ X \in Evtchn /\ X.state = evtchn[d][p].state /\ X.rdom = evtchn[d][p].rdom
      /\ X.rport = evtchn[d][p].rport /\ X.xen = evtchn[d][p].xen
  BY <1>1, NotifiesChan
<1>3. evtchn' = [evtchn EXCEPT ![d][p] = X]
  BY DEF evtchn_bind_vcpu
<1>4. UNCHANGED <<nr_ports, is_dying, refs, evtchn_lock, op>>
  BY DEF evtchn_bind_vcpu, domVars, cpuVars
<1> HIDE DEF X
<1>5. evtchn' \in [Dom -> [Port -> Evtchn]]
  BY <1>1, <1>2, <1>3
<1>6. \A a \in Dom, i \in Port : evtchn'[a][i] = IF a = d /\ i = p THEN X ELSE evtchn[a][i]
  BY <1>1, <1>3
<1>7. \A a \in Dom, i \in Port : SameLink(a, i) /\ evtchn'[a][i].xen = evtchn[a][i].xen
  BY Zenon, <1>2, <1>6 DEF SameLink
<1>8. TypeOK'
  BY <1>5 DEF IInv, TypeOK, evtchn_bind_vcpu, irqVars, domVars, cpuVars
<1>9. PeerSymmetry'
  <2>1. LinksKept  BY Zenon, <1>7 DEF LinksKept, SameLink
  <2> QED  BY Zenon, <2>1, LinksKeptPeers DEF IInv
<1>10. DyingKeeps
  BY Zenon, <1>7 DEF DyingKeeps, Live, SameLink
<1>11. ValidPorts'
  BY Zenon, <1>4, <1>7 DEF IInv, ValidPorts, SameLink
<1>12. OthersKeep(NoCpu)
  BY SMTT(60), <1>1, <1>4, <1>7 DEF OthersKeep
<1> QED  BY <1>4, <1>8, <1>9, <1>10, <1>11, <1>12, SameDomains, StepPreserves, NumberFacts

\* Channels of a domain that another CPU has locked are left alone.
Undisturbed(c) ==
  \A a \in Dom : evtchn_lock[a] \in Cpu /\ evtchn_lock[a] # c =>
    nr_ports[a] <= nr_ports'[a] /\ \A i \in Port : SameLink(a, i)

\* Dropping its own locks and references, a CPU takes none from the others.
LEMMA LeaveKeeps ==
  ASSUME IInv, NEW c \in Cpu, NEW F \in Frame, Leave(c, F), UNCHANGED is_dying, Undisturbed(c)
  PROVE  /\ OthersKeep(c) /\ DomainsKeep
         /\ op' \in [Cpu -> Frame] /\ op'[c] = F
         /\ evtchn_lock' \in [Dom -> Cpu \cup {NoCpu}] /\ \A d \in Dom : evtchn_lock'[d] # c
         /\ refs' \in [Dom -> SUBSET (Cpu \cup {"self"})]
<1>1. /\ op \in [Cpu -> Frame] /\ evtchn_lock \in [Dom -> Cpu \cup {NoCpu}]
      /\ refs \in [Dom -> SUBSET (Cpu \cup {"self"})]
  BY DEF IInv, TypeOK
<1>2. op' \in [Cpu -> Frame] /\ op'[c] = F /\ \A e \in Cpu : e # c => op'[e] = op[e]
  BY <1>1 DEF Leave
<1>3. /\ evtchn_lock' \in [Dom -> Cpu \cup {NoCpu}]
      /\ \A d \in Dom : evtchn_lock'[d] = IF evtchn_lock[d] = c THEN NoCpu ELSE evtchn_lock[d]
  BY <1>1 DEF Leave
<1>4. refs' \in [Dom -> SUBSET (Cpu \cup {"self"})] /\ \A d \in Dom : refs'[d] = refs[d] \ {c}
  BY Zenon, <1>1 DEF Leave
<1>5. OthersKeep(c)
  BY <1>2, <1>3, <1>4, NumberFacts DEF OthersKeep, Undisturbed
<1>6. DomainsKeep
  <2>1. "self" # c  BY EvtchnConstants DEF EvtchnConstants
  <2> QED  BY <1>4, <2>1, SameDomains
<1> QED  BY Zenon, <1>2, <1>3, <1>4, <1>5, <1>6, NumberFacts

\* A step that changes no channel disturbs nobody's channels.
LEMMA SameUndisturbed ==
  ASSUME IInv, NEW c, UNCHANGED <<evtchn, nr_ports>>
  PROVE  Undisturbed(c)
<1>1. \A a \in Dom : nr_ports[a] \in Nat
  BY Zenon DEF IInv, TypeOK
<1> QED  BY <1>1 DEF Undisturbed, SameLink

\* A CPU that has finished has nothing left to guarantee.
LEMMA IdleActor ==
  ASSUME NEW c \in Cpu, op'[c] = Idle, \A d \in Dom : evtchn_lock'[d] # c,
         op[c].caller # "destroy"
  PROVE  ActorOK(c)
  BY Zenon, IdleFields DEF ActorOK, FrameOK, DestroyOK, Closing, Destroying

\* __evtchn_close() returns to the guest or to the next turn of a loop.
LEMMA ReturnFrame ==
  ASSUME IInv, NEW c \in Cpu, op[c].pc \in Closing
  PROVE  /\ Return(c) \in Frame /\ Return(c).pc \in {"idle", "loop"}
         /\ Return(c).pc = "loop" => /\ Return(c).caller = op[c].caller /\ Return(c).d1 = op[c].d1
                                     /\ Return(c).port1 = op[c].port1 + 1 /\ Return(c).d2 = NULL
         /\ op[c].caller = "destroy" => Return(c).pc = "loop"
         /\ Return(c).caller = "destroy" => op[c].caller = "destroy"
         /\ op[c].d1 \in Dom /\ op[c].port1 \in Port /\ op[c] \in Frame
<1>1. op[c] \in Frame /\ op[c].d1 \in Dom /\ op[c].port1 \in Port
  BY Zenon DEF IInv, TypeOK, FrameOK, Closing
<1>2. CASE op[c].caller \in {"reset", "destroy"}
  BY Zenon, <1>1, <1>2, NextPortFields DEF Return
<1>3. CASE op[c].caller \notin {"reset", "destroy"}
  BY Zenon, <1>1, <1>3, IdleFields DEF Return
<1> QED  BY Zenon, <1>1, <1>2, <1>3

\* __evtchn_close() returns: evtchn_destroy() needs the port it closed to be free.
LEMMA ReturnActor ==
  ASSUME IInv, NEW c \in Cpu, op[c].pc \in Closing, op'[c] = Return(c), UNCHANGED is_dying,
         \A d \in Dom : evtchn_lock'[d] # c, DyingKeeps,
         op[c].caller = "destroy" => evtchn'[op[c].d1][op[c].port1].state \in {"FREE", "RESERVED"}
  PROVE  ActorOK(c)
<1>0. PICK d \in Dom, p \in Port : d = op[c].d1 /\ p = op[c].port1
  BY Zenon, ReturnFrame
<1>1. /\ Return(c) \in Frame /\ Return(c).pc \in {"idle", "loop"} /\ d \in Dom /\ p \in Port
      /\ Return(c).pc = "loop" => Return(c).caller = op[c].caller /\ Return(c).d1 = d
                                  /\ Return(c).port1 = p + 1 /\ Return(c).d2 = NULL
      /\ op[c].caller = "destroy" => Return(c).pc = "loop"
      /\ Return(c).caller = "destroy" => op[c].caller = "destroy"
  BY Zenon, <1>0, ReturnFrame
<1>2. FrameOK(c)'
  BY Zenon, <1>1 DEF FrameOK, Closing
<1>3. DestroyOK(c)'
  <2> SUFFICES ASSUME op[c].caller = "destroy"
               PROVE  /\ is_dying'[d] = "dying" /\ \A i \in Port : i < p + 1 => ~Live(d, i)'
    BY Zenon, <1>1 DEF DestroyOK, Closing
  <2>1. is_dying[d] = "dying" /\ \A i \in Port : i < p => ~Live(d, i)
    BY Zenon, <1>0 DEF IInv, DestroyOK
  <2>2. \A i \in Port : i < p + 1 => i < p \/ i = p
    BY SMTT(60), NumberFacts
  <2>3. is_dying[d] # "alive" /\ ~Live(d, p)'
    BY Zenon, <1>0, <2>1 DEF Live
  <2>4. ASSUME NEW i \in Port, i < p + 1 PROVE ~Live(d, i)'
    BY Zenon, <2>1, <2>2, <2>3, <2>4 DEF DyingKeeps
  <2> QED  BY Zenon, <2>1, <2>4
<1>4. \A a \in Dom : Destroying(c, a) => Destroying(c, a)'
  BY <1>0, <1>1 DEF Destroying
<1> QED  BY Zenon, <1>1, <1>2, <1>3, <1>4 DEF ActorOK

\* An __evtchn_close() that fails preserves the invariant.
LEMMA CloseError ==
  ASSUME IInv, NEW c \in Cpu, close_error(c)
  PROVE  IInv'
<1>1. UNCHANGED <<evtchn, nr_ports, is_dying>> /\ Leave(c, Return(c)) /\ op[c].pc \in {"close", "again"}
  BY Zenon DEF close_error, chanVars, domVars, LockD1
<1>2. op[c].pc \in Closing /\ Return(c) \in Frame /\ op[c].d1 \in Dom /\ op[c].port1 \in Port
  BY Zenon, <1>1, ReturnFrame DEF Closing
<1>3. /\ OthersKeep(c) /\ DomainsKeep /\ op' \in [Cpu -> Frame] /\ op'[c] = Return(c)
      /\ evtchn_lock' \in [Dom -> Cpu \cup {NoCpu}] /\ (\A d \in Dom : evtchn_lock'[d] # c)
      /\ refs' \in [Dom -> SUBSET (Cpu \cup {"self"})]
  BY Zenon, <1>1, <1>2, LeaveKeeps, SameUndisturbed
<1>4. TypeOK'
  BY Zenon, <1>3 DEF IInv, TypeOK, close_error, irqVars, domVars, chanVars
<1>5. op[c].caller = "destroy" => ~Live(op[c].d1, op[c].port1)
  <2> SUFFICES ASSUME op[c].caller = "destroy", Live(op[c].d1, op[c].port1) PROVE FALSE
    OBVIOUS
  <2>1. ~Chn1(c).xen /\ FrameOK(c) /\ DestroyOK(c)
    BY Zenon, <1>2 DEF IInv, DestroyOK
  <2>2. Closable(c)
    BY Zenon, <1>2, <2>1 DEF IInv, ValidPorts, Live, Closable, port_is_valid, Chn1
  <2>3. Chn1(c).state = "INTERDOMAIN" /\ op[c].d2 \notin {NULL, Chn1(c).rdom}
    BY Zenon, <2>2 DEF close_error
  <2> QED  BY Zenon, <1>1, <2>1, <2>3 DEF FrameOK, DestroyOK
<1>6. DyingKeeps /\ PeerSymmetry' /\ ValidPorts'
  BY Zenon, <1>1, SameChannels
<1>7. ActorOK(c)
  <2>1. op[c].caller = "destroy" => evtchn'[op[c].d1][op[c].port1].state \in {"FREE", "RESERVED"}
    BY Zenon, <1>1, <1>5 DEF Live
  <2> QED  BY Zenon, <1>1, <1>2, <1>3, <1>6, <2>1, ReturnActor
<1> QED  BY Zenon, <1>3, <1>4, <1>6, <1>7, StepPreserves

\* The signal to the remote port preserves the invariant.
LEMMA SendRemote ==
  ASSUME IInv, NEW c \in Cpu, send_remote(c)
  PROVE  IInv'
<1>1. UNCHANGED <<evtchn, nr_ports, is_dying>> /\ Leave(c, Idle) /\ op[c].pc = "send"
  BY DEF send_remote, domVars
<1>2. /\ OthersKeep(c) /\ DomainsKeep /\ op' \in [Cpu -> Frame] /\ op'[c] = Idle
      /\ evtchn_lock' \in [Dom -> Cpu \cup {NoCpu}] /\ (\A d \in Dom : evtchn_lock'[d] # c)
      /\ refs' \in [Dom -> SUBSET (Cpu \cup {"self"})]
  BY Zenon, <1>1, LeaveKeeps, SameUndisturbed, IdleFields
<1>3. op[c].d2 \in Dom /\ op[c].port2 \in Port
  <2>1. FrameOK(c) /\ PeerSymmetry
    BY Zenon DEF IInv
  <2>2. /\ op[c].d1 \in Dom /\ op[c].port1 \in Port
        /\ evtchn[op[c].d1][op[c].port1].state = "INTERDOMAIN"
        /\ evtchn[op[c].d1][op[c].port1].rdom = op[c].d2
        /\ evtchn[op[c].d1][op[c].port1].rport = op[c].port2
    BY Zenon, <1>1, <2>1 DEF FrameOK, IsPair
  <2> QED  BY <2>1, <2>2 DEF PeerSymmetry
<1>4. TypeOK'
  <2>1. pending' \in [Dom -> SUBSET Port]
    <3>1. \/ pending' = pending
          \/ pending' = [pending EXCEPT ![op[c].d2] = @ \cup {op[c].port2}]
      BY DEF send_remote, SetPending
    <3>2. pending \in [Dom -> SUBSET Port]
      BY DEF IInv, TypeOK
    <3>3. pending[op[c].d2] \cup {op[c].port2} \in SUBSET Port
      BY <1>3, <3>2
    <3> QED  BY Zenon, <3>1, <3>2, <3>3
  <2> QED  BY <1>2, <2>1 DEF IInv, TypeOK, send_remote, irqVars, domVars
<1>5. ActorOK(c)
  <2>1. op[c].caller # "destroy"
    BY Zenon, <1>1 DEF IInv, DestroyOK, Closing
  <2> QED  BY Zenon, <1>2, <2>1, IdleActor
<1> QED  BY Zenon, <1>1, <1>2, <1>4, <1>5, SameChannels, StepPreserves

\* evtchn_bind_pirq() preserves the invariant when pirq_guest_bind() fails.
LEMMA PirqGuestBindFail ==
  ASSUME IInv, NEW c \in Cpu, NEW q \in Pirq, pirq_guest_bind_fail(c, q)
  PROVE  IInv'
<1>1. UNCHANGED <<evtchn, nr_ports, is_dying>> /\ Leave(c, Idle) /\ op[c].pc = "pirq_map"
  BY Zenon DEF pirq_guest_bind_fail, domVars, chanVars
<1>2. /\ OthersKeep(c) /\ DomainsKeep /\ op' \in [Cpu -> Frame] /\ op'[c] = Idle
      /\ evtchn_lock' \in [Dom -> Cpu \cup {NoCpu}] /\ (\A d \in Dom : evtchn_lock'[d] # c)
      /\ refs' \in [Dom -> SUBSET (Cpu \cup {"self"})]
  BY Zenon, <1>1, LeaveKeeps, SameUndisturbed, IdleFields
<1>3. op[c].d1 \in Dom
  BY Zenon, <1>1 DEF IInv, FrameOK
<1>4. TypeOK'
  <2>1. pirq_to_evtchn' \in [Dom -> [Pirq -> Port]]
    BY Zenon, <1>3, NumberFacts DEF IInv, TypeOK, pirq_guest_bind_fail
  <2> QED  BY Zenon, <1>2, <2>1 DEF IInv, TypeOK, pirq_guest_bind_fail, chanVars, domVars
<1>5. ActorOK(c)
  <2>1. op[c].caller # "destroy"
    BY <1>1 DEF IInv, DestroyOK, Closing
  <2> QED  BY <1>2, <2>1, IdleActor
<1> QED  BY <1>1, <1>2, <1>4, <1>5, SameChannels, StepPreserves

=============================================================================
