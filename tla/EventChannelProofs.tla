------------------------- MODULE EventChannelProofs -------------------------
(***************************************************************************)
(* The lifecycle of a domain and the second half of a bind preserve IInv;  *)
(* hence IInv is invariant, and with it the properties of EventChannel     *)
(* that it implies.                                                        *)
(***************************************************************************)
EXTENDS EventChannelCloses, TLAPS

\* The barrier of evtchn_destroy() preserves the invariant: no other CPU is left that
\* allocates in the dying domain.
LEMMA EvtchnDestroy ==
  ASSUME IInv, NEW c \in Cpu, evtchn_destroy(c)
  PROVE  IInv'
<1> DEFINE F == Goto(op[c], "loop")
<1>1. /\ UNCHANGED <<evtchn, nr_ports, is_dying, refs, evtchn_lock>> /\ op[c].pc = "destroy"
      /\ op' = [op EXCEPT ![c] = F]
  BY DEF evtchn_destroy, domVars, chanVars
<1>2. op[c] \in Frame /\ op[c].d1 \in Dom
  BY <1>1 DEF IInv, TypeOK, FrameOK
<1>3. /\ F \in Frame /\ F.pc = "loop" /\ F.caller = op[c].caller /\ F.d1 = op[c].d1
      /\ F.port1 = op[c].port1 /\ F.d2 = NULL
  <2>1. op[c].d2 = NULL  BY <1>1 DEF IInv, FrameOK
  <2> QED  BY <1>2, <2>1, GotoFields DEF Pc
<1> HIDE DEF F
<1>4. OthersKeep(c) /\ DomainsKeep /\ op' \in [Cpu -> Frame] /\ op'[c] = F
  BY Zenon, <1>1, <1>3, MoveKeeps, SameUndisturbed
<1>5. TypeOK'
  BY <1>4 DEF IInv, TypeOK, evtchn_destroy, domVars, chanVars, irqVars
<1>6. ActorOK(c)
  <2>1. FrameOK(c)'
    BY <1>2, <1>3, <1>4 DEF FrameOK, Closing
  <2>2. \A d \in Dom : evtchn_lock'[d] # c
    BY <1>1 DEF IInv, HeldOK, Holds
  <2>3. DestroyOK(c)'
    <3>1. DestroyOK(c)  BY DEF IInv
    <3>2. op[c].port1 = 0  BY <1>1 DEF IInv, FrameOK
    <3>3. \A i \in Port : ~(i < 0)  BY NumberFacts
    <3> QED  BY <1>1, <1>3, <1>4, <3>1, <3>2, <3>3 DEF DestroyOK, Closing, Live
  <2> QED  BY <1>3, <1>4, <2>1, <2>2, <2>3 DEF ActorOK, Destroying
<1> QED  BY <1>1, <1>4, <1>5, <1>6, SameChannels, StepPreserves

\* The end of the loop over the ports preserves the invariant.
LEMMA CloseLastPort ==
  ASSUME IInv, NEW c \in Cpu, close_last_port(c)
  PROVE  IInv'
<1> DEFINE F == IF op[c].caller = "destroy" THEN Goto(op[c], "free_buckets") ELSE Idle
<1>1. /\ UNCHANGED <<evtchn, nr_ports, is_dying, refs, evtchn_lock>> /\ op[c].pc = "loop"
      /\ op' = [op EXCEPT ![c] = F] /\ ~port_is_valid(op[c].d1, op[c].port1)
  BY Zenon DEF close_last_port, domVars, chanVars
<1>2. op[c] \in Frame /\ op[c].d1 \in Dom
  BY <1>1 DEF IInv, TypeOK, FrameOK
<1>3. /\ F \in Frame
      /\ op[c].caller # "destroy" => F = Idle
      /\ op[c].caller = "destroy" => F.pc = "free_buckets" /\ F.caller = "destroy" /\ F.d1 = op[c].d1
  <2>1. CASE op[c].caller # "destroy"
    BY <2>1, IdleFields
  <2>2. CASE op[c].caller = "destroy"
    BY <1>2, <2>2, GotoFields DEF Pc
  <2> QED  BY <2>1, <2>2
<1> HIDE DEF F
<1>4. OthersKeep(c) /\ DomainsKeep /\ op' \in [Cpu -> Frame] /\ op'[c] = F
  BY Zenon, <1>1, <1>3, MoveKeeps, SameUndisturbed
<1>5. TypeOK'
  BY <1>4 DEF IInv, TypeOK, close_last_port, domVars, chanVars, irqVars
<1>6. \A d \in Dom : evtchn_lock'[d] # c
  BY <1>1 DEF IInv, HeldOK, Holds
<1>7. CASE op[c].caller # "destroy"
  <2>1. ActorOK(c)  BY <1>3, <1>4, <1>6, <1>7, IdleActor
  <2> QED  BY <1>1, <1>4, <1>5, <2>1, SameChannels, StepPreserves
<1>8. CASE op[c].caller = "destroy"
  <2>1. DestroyOK(c)  BY DEF IInv
  <2>2. ASSUME NEW p \in Port PROVE ~Live(op[c].d1, p)
    <3>1. p < op[c].port1 => ~Live(op[c].d1, p)
      BY <1>1, <1>8, <2>1 DEF DestroyOK
    <3>2. CASE op[c].port1 \in Port
      <4>1. ~(op[c].port1 < nr_ports[op[c].d1])
        BY <1>1, <3>2 DEF port_is_valid
      <4>2. Live(op[c].d1, p) => p < nr_ports[op[c].d1]
        BY <1>2 DEF IInv, ValidPorts, Live
      <4>3. nr_ports[op[c].d1] \in Nat /\ p \in Nat /\ op[c].port1 \in Nat
        BY Zenon, <1>2, FrameFields, NumberFacts DEF IInv, TypeOK
      <4> QED  BY <3>1, <4>1, <4>2, <4>3
    <3>3. CASE op[c].port1 \notin Port
      <4>1. op[c].port1 \in Nat  BY <1>2, FrameFields
      <4>2. p < op[c].port1  BY <3>3, <4>1, EvtchnConstants DEF Port, EvtchnConstants
      <4> QED  BY <3>1, <4>2
    <3> QED  BY <3>2, <3>3
  <2>3. ActorOK(c)
    <3>1. FrameOK(c)'
      BY Zenon, <1>2, <1>3, <1>4, <1>8 DEF FrameOK, Closing
    <3>2. DestroyOK(c)'
      BY <1>1, <1>3, <1>4, <1>8, <2>1, <2>2 DEF DestroyOK, Closing, Live
    <3> QED  BY <1>3, <1>4, <1>6, <1>8, <3>1, <3>2 DEF ActorOK, Destroying
  <2> QED  BY <1>1, <1>4, <1>5, <2>3, SameChannels, StepPreserves
<1> QED  BY <1>7, <1>8

\* consumer_is_xen is cleared: no link changes.
LEMMA DetachKeeps ==
  ASSUME IInv, NEW d \in Dom, NEW p \in Port,
         evtchn' = [evtchn EXCEPT ![d][p] = XenDetached(@)], UNCHANGED nr_ports
  PROVE  /\ evtchn' \in [Dom -> [Port -> Evtchn]] /\ ~evtchn'[d][p].xen
         /\ PeerSymmetry' /\ DyingKeeps /\ ValidPorts'
         /\ \A c : Undisturbed(c)
         /\ \A a \in Dom, i \in Port : SameLink(a, i)
<1> DEFINE X == XenDetached(evtchn[d][p])
<1>1. evtchn \in [Dom -> [Port -> Evtchn]] /\ \A a \in Dom : nr_ports[a] \in Nat
  BY DEF IInv, TypeOK
<1>2. /\ X \in Evtchn /\ X.state = evtchn[d][p].state /\ X.rdom = evtchn[d][p].rdom
      /\ X.rport = evtchn[d][p].rport /\ ~X.xen
  BY <1>1, XenDetachedChan
<1>3. evtchn' = [evtchn EXCEPT ![d][p] = X]
  OBVIOUS
<1> HIDE DEF X
<1>4. evtchn' \in [Dom -> [Port -> Evtchn]]
  BY <1>1, <1>2, <1>3
<1>5. \A a \in Dom, i \in Port : evtchn'[a][i] = IF a = d /\ i = p THEN X ELSE evtchn[a][i]
  BY <1>1, <1>3
<1>6. \A a \in Dom, i \in Port : SameLink(a, i) /\ (~evtchn[a][i].xen => ~evtchn'[a][i].xen)
  BY <1>2, <1>5 DEF SameLink
<1>7. PeerSymmetry'
  <2>1. LinksKept  BY Zenon, <1>6 DEF LinksKept, SameLink
  <2> QED  BY <2>1, LinksKeptPeers DEF IInv
<1>8. DyingKeeps
  BY <1>6 DEF DyingKeeps, Live, SameLink
<1>9. ValidPorts'
  BY <1>6 DEF IInv, ValidPorts, SameLink
<1>10. \A c : Undisturbed(c)
  <2>1. \A a \in Dom : nr_ports[a] <= nr_ports'[a]
    BY <1>1
  <2> QED  BY <1>6, <2>1 DEF Undisturbed
<1>11. ~evtchn'[d][p].xen
  BY <1>2, <1>5
<1> QED  BY <1>4, <1>6, <1>7, <1>8, <1>9, <1>10, <1>11

\* A turn of the loops in evtchn_reset() and evtchn_destroy() preserves the invariant.
LEMMA CloseNextPort ==
  ASSUME IInv, NEW c \in Cpu, close_next_port(c)
  PROVE  IInv'
<1> DEFINE F == Goto(op[c], "close")
<1>1. /\ UNCHANGED <<nr_ports, is_dying, refs, evtchn_lock>> /\ op[c].pc = "loop"
      /\ op' = [op EXCEPT ![c] = F] /\ port_is_valid(op[c].d1, op[c].port1)
  BY Zenon DEF close_next_port, domVars
<1>2. PICK d \in Dom, p \in Port : d = op[c].d1 /\ p = op[c].port1
  BY Zenon, <1>1 DEF IInv, FrameOK, port_is_valid
<1>3. op[c] \in Frame /\ op[c].d2 = NULL
  BY <1>1 DEF IInv, TypeOK, FrameOK
<1>4. /\ F \in Frame /\ F.pc = "close" /\ F.caller = op[c].caller /\ F.d1 = d /\ F.port1 = p /\ F.d2 = NULL
  BY <1>2, <1>3, GotoFields DEF Pc
<1> HIDE DEF F
<1>5. /\ evtchn' \in [Dom -> [Port -> Evtchn]]
      /\ PeerSymmetry' /\ DyingKeeps /\ ValidPorts' /\ Undisturbed(c)
      /\ op[c].caller = "destroy" => ~evtchn'[d][p].xen
      /\ \A a \in Dom, i \in Port : SameLink(a, i)
  <2>1. CASE op[c].caller = "destroy"
    <3>1. evtchn' = [evtchn EXCEPT ![d][p] = XenDetached(@)]
      BY <1>2, <2>1 DEF close_next_port
    <3> QED  BY Zenon, <1>1, <3>1, DetachKeeps
  <2>2. CASE op[c].caller # "destroy"
    <3>1. UNCHANGED evtchn  BY <2>2 DEF close_next_port
    <3>2. evtchn' \in [Dom -> [Port -> Evtchn]]  BY <3>1 DEF IInv, TypeOK
    <3>3. \A a \in Dom, i \in Port : SameLink(a, i)  BY <3>1 DEF SameLink
    <3> QED  BY <1>1, <2>2, <3>1, <3>2, <3>3, SameChannels, SameUndisturbed
  <2> QED  BY <2>1, <2>2
<1>6. OthersKeep(c) /\ DomainsKeep /\ op' \in [Cpu -> Frame] /\ op'[c] = F
  BY Zenon, <1>1, <1>4, <1>5, MoveKeeps
<1>7. TypeOK'
  BY Zenon, <1>5, <1>6 DEF IInv, TypeOK, close_next_port, domVars, irqVars
<1>8. ActorOK(c)
  <2>1. FrameOK(c)'
    BY <1>4, <1>6 DEF FrameOK, Closing
  <2>2. \A a \in Dom : evtchn_lock'[a] # c
    BY Zenon, <1>1 DEF IInv, HeldOK, Holds
  <2>3. DestroyOK(c)'
    <3>1. DestroyOK(c)  BY Zenon DEF IInv
    <3> SUFFICES ASSUME op[c].caller = "destroy"
                 PROVE  /\ is_dying'[d] = "dying" /\ \A i \in Port : i < p => ~Live(d, i)'
      BY Zenon, <1>4, <1>5, <1>6 DEF DestroyOK, Closing, Chn1
    <3>2. is_dying[d] = "dying" /\ \A i \in Port : i < p => ~Live(d, i)
      BY <1>1, <1>2, <3>1 DEF DestroyOK
    <3> QED  BY <1>1, <1>5, <3>2 DEF Live, SameLink
  <2> QED  BY Zenon, <1>2, <1>4, <1>6, <2>1, <2>2, <2>3 DEF ActorOK, Destroying
<1> QED  BY <1>5, <1>6, <1>7, <1>8, StepPreserves

\* free_xen_event_channel() preserves the invariant when it detaches the port.
LEMMA FreeXenEventChannel ==
  ASSUME IInv, NEW c \in Cpu, free_xen_event_channel(c)
  PROVE  IInv'
<1>1. /\ UNCHANGED <<nr_ports, is_dying, refs, evtchn_lock>> /\ op[c].pc = "xen_free"
  BY DEF free_xen_event_channel, domVars
<1>2. PICK d \in Dom, p \in Port : d = op[c].d1 /\ p = op[c].port1
  BY Zenon, <1>1 DEF IInv, FrameOK
<1>3. op[c] \in Frame /\ op[c].d2 = NULL /\ op[c].caller # "destroy"
  BY Zenon, <1>1 DEF IInv, TypeOK, FrameOK, DestroyOK, Closing
<1>4. \A a \in Dom : evtchn_lock'[a] # c
  BY <1>1 DEF IInv, HeldOK, Holds
<1>5. CASE UNCHANGED evtchn /\ op' = [op EXCEPT ![c] = Idle]
  <2>1. OthersKeep(c) /\ DomainsKeep /\ op' \in [Cpu -> Frame] /\ op'[c] = Idle
    BY Zenon, <1>1, <1>5, IdleFields, MoveKeeps, SameUndisturbed
  <2>2. TypeOK'
    BY <1>5, <2>1 DEF IInv, TypeOK, free_xen_event_channel, domVars, irqVars
  <2>3. ActorOK(c)
    BY <1>3, <1>4, <2>1, IdleActor
  <2> QED  BY <1>1, <1>5, <2>1, <2>2, <2>3, SameChannels, StepPreserves
<1>6. CASE /\ evtchn' = [evtchn EXCEPT ![d][p] = XenDetached(@)]
           /\ op' = [op EXCEPT ![c] = Goto(op[c], "close")]
  <2> DEFINE F == Goto(op[c], "close")
  <2>1. F \in Frame /\ F.pc = "close" /\ F.caller = op[c].caller /\ F.d1 = d /\ F.port1 = p /\ F.d2 = NULL
    BY <1>2, <1>3, GotoFields DEF Pc
  <2>2. op' = [op EXCEPT ![c] = F]  BY <1>6
  <2> HIDE DEF F
  <2>3. /\ evtchn' \in [Dom -> [Port -> Evtchn]]
        /\ PeerSymmetry' /\ DyingKeeps /\ ValidPorts' /\ Undisturbed(c)
    BY Zenon, <1>1, <1>6, DetachKeeps
  <2>4. OthersKeep(c) /\ DomainsKeep /\ op' \in [Cpu -> Frame] /\ op'[c] = F
    BY Zenon, <1>1, <2>1, <2>2, <2>3, MoveKeeps
  <2>5. TypeOK'
    BY Zenon, <2>3, <2>4 DEF IInv, TypeOK, free_xen_event_channel, domVars, irqVars
  <2>6. ActorOK(c)
    BY <1>3, <1>4, <2>1, <2>4 DEF ActorOK, FrameOK, DestroyOK, Closing, Destroying
  <2> QED  BY Zenon, <2>3, <2>4, <2>5, <2>6, StepPreserves
<1> QED  BY <1>2, <1>5, <1>6 DEF free_xen_event_channel

\* The exchange of an ioreq port preserves the invariant.
LEMMA HvmSetDmDomain ==
  ASSUME IInv, NEW c \in Cpu, NEW cur \in Dom, NEW d \in Dom, NEW v \in Vcpu,
         hvm_set_dm_domain(c, cur, d, v)
  PROVE  IInv'
<1> DEFINE old == xen_port[d][v]
           F == MkFrame("xen_free", "xen", cur, d, old, NULL, 0)
<1>1. PICK p \in Port, rdom \in Priv :
        /\ Allocate(d, p, XenChannel(d, p, v, rdom))
        /\ xen_port' = [xen_port EXCEPT ![d][v] = p]
  BY Zenon DEF hvm_set_dm_domain
<1>2. old \in Port
  BY DEF IInv, TypeOK
<1>3. /\ F \in Frame /\ F.pc = "xen_free" /\ F.caller = "xen" /\ F.d1 = d
      /\ F.port1 = old /\ F.d2 = NULL
  <2> HIDE DEF old
  <2> QED  BY <1>2, NumberFacts, MkFrameFields DEF Pc, Caller
<1>4. Enter(c, F) /\ Unlocked(d) /\ UNCHANGED <<is_dying, refs, evtchn_lock>>
  BY DEF hvm_set_dm_domain
<1> HIDE DEF F
<1>5. XenChannel(d, p, v, rdom) \in Evtchn /\ XenChannel(d, p, v, rdom).state = "UNBOUND"
  BY XenChannelType
<1>6. /\ evtchn' \in [Dom -> [Port -> Evtchn]] /\ nr_ports' \in [Dom -> Nat]
      /\ PeerSymmetry' /\ DyingKeeps /\ ValidPorts' /\ Undisturbed(c)
  BY <1>1, <1>4, <1>5, AllocateKeeps DEF Undisturbed
<1>7. op[c] = Idle /\ op' = [op EXCEPT ![c] = F]
  BY Zenon, <1>4 DEF Enter
<1>8. OthersKeep(c) /\ DomainsKeep /\ op' \in [Cpu -> Frame] /\ op'[c] = F
  BY Zenon, <1>3, <1>4, <1>6, <1>7, MoveKeeps
<1>9. TypeOK'
  <2>1. xen_port' \in [Dom -> [Vcpu -> Port]]
    BY Zenon, <1>1 DEF IInv, TypeOK
  <2> QED  BY <1>6, <1>8, <2>1 DEF IInv, TypeOK, hvm_set_dm_domain, irqVars
<1>10. ActorOK(c)
  <2>1. \A e \in Dom : evtchn_lock'[e] # c /\ ~Destroying(c, e)
    BY <1>4, <1>7, IdleFields DEF IInv, HeldOK, Holds, Destroying
  <2> QED  BY Zenon, <1>2, <1>3, <1>8, <2>1 DEF ActorOK, FrameOK, DestroyOK, Closing
<1> QED  BY <1>6, <1>8, <1>9, <1>10, StepPreserves

\* domain_kill() preserves the invariant when it marks the domain dying.
LEMMA DomainKill ==
  ASSUME IInv, NEW c \in Cpu, NEW cur \in Dom, NEW d \in Dom, domain_kill(c, cur, d)
  PROVE  IInv'
<1> DEFINE F == MkFrame("destroy", "destroy", cur, d, 0, NULL, 0)
<1>1. /\ F \in Frame /\ F.pc = "destroy" /\ F.caller = "destroy" /\ F.d1 = d
      /\ F.port1 = 0 /\ F.d2 = NULL
  <2>1. "destroy" \in Pc /\ "destroy" \in Caller  BY DEF Pc, Caller
  <2> QED  BY <2>1, NumberFacts, MkFrameFields
<1>2. /\ op[c] = Idle /\ op' = [op EXCEPT ![c] = F] /\ UNCHANGED <<evtchn, nr_ports, refs, evtchn_lock>>
      /\ is_dying[d] = "alive" /\ is_dying' = [is_dying EXCEPT ![d] = "dying"]
      /\ (\A e \in Cpu : op[e].cur # d /\ op[e].caller # "destroy")
  BY Zenon DEF domain_kill, Enter, Quiescent, chanVars
<1> HIDE DEF F
<1>3. /\ op' \in [Cpu -> Frame] /\ op'[c] = F /\ \A e \in Cpu : e # c => op'[e] = op[e]
  BY <1>1, <1>2 DEF IInv, TypeOK
<1>4. \A a \in Dom : is_dying'[a] = IF a = d THEN "dying" ELSE is_dying[a]
  BY Zenon, <1>2 DEF IInv, TypeOK
<1>5. TypeOK'
  <2>1. is_dying' \in [Dom -> {"alive", "dying", "dead"}]
    BY Zenon, <1>2 DEF IInv, TypeOK
  <2> QED  BY SMTT(60), <1>2, <1>3, <2>1 DEF IInv, TypeOK, domain_kill, irqVars, chanVars
<1>6. OthersKeep(c)
  <2>1. Undisturbed(c)  BY Zenon, <1>2, SameUndisturbed
  <2> QED  BY <1>2, <1>3, <1>4, <2>1 DEF OthersKeep, Undisturbed, Destroying
<1>7. DomainsKeep
  <2>1. Destroying(c, d)'  BY Zenon, <1>1, <1>3 DEF Destroying
  <2> QED  BY <1>2, <1>4, <2>1 DEF DomainsKeep
<1>8. ActorOK(c)
  <2>1. \A e \in Dom : evtchn_lock'[e] # c /\ ~Destroying(c, e)
    BY Zenon, <1>2, IdleFields DEF IInv, HeldOK, Holds, Destroying
  <2>2. FrameOK(c)'
    BY Zenon, <1>1, <1>3 DEF FrameOK, Closing
  <2>3. DestroyOK(c)'
    BY <1>1, <1>3, <1>4 DEF DestroyOK, Closing
  <2> QED  BY Zenon, <1>1, <1>3, <2>1, <2>2, <2>3 DEF ActorOK
<1>9. DyingKeeps /\ PeerSymmetry' /\ ValidPorts'
  BY <1>2, SameChannels
<1> QED  BY Zenon, <1>5, <1>6, <1>7, <1>8, <1>9, StepPreserves

\* Putting the last reference of a dead domain preserves the invariant: it is nobody's peer.
LEMMA DomainDead ==
  ASSUME IInv, NEW d \in Dom, domain_dead(d)
  PROVE  IInv'
<1>1. /\ UNCHANGED <<evtchn, nr_ports, evtchn_lock, op>>
      /\ is_dying[d] = "dying" /\ is_dying' = [is_dying EXCEPT ![d] = "dead"]
      /\ refs' = [refs EXCEPT ![d] = @ \ {"self"}]
      /\ (\A c \in Cpu : ~Destroying(c, d))
  BY DEF domain_dead, chanVars, Destroying
<1>2. \A a \in Dom : is_dying'[a] = IF a = d THEN "dead" ELSE is_dying[a]
  BY <1>1 DEF IInv, TypeOK
<1>3. \A a \in Dom : refs'[a] = IF a = d THEN refs[a] \ {"self"} ELSE refs[a]
  BY Zenon, <1>1 DEF IInv, TypeOK
<1>4. TypeOK'
  <2>1. is_dying' \in [Dom -> {"alive", "dying", "dead"}]
    BY <1>1 DEF IInv, TypeOK
  <2>2. refs' \in [Dom -> SUBSET (Cpu \cup {"self"})]
    BY Zenon, <1>1 DEF IInv, TypeOK
  <2> QED  BY Zenon, <1>1, <2>1, <2>2 DEF IInv, TypeOK, domain_dead, irqVars, chanVars
<1>5. OthersKeep(NoCpu)
  <2>1. Undisturbed(NoCpu)  BY <1>1, SameUndisturbed
  <2>2. "self" \notin Cpu  BY EvtchnConstants DEF EvtchnConstants
  <2>3. \A e \in Cpu, a \in Dom : e \in refs[a] => e \in refs'[a]
    BY Zenon, <1>3, <2>2
  <2> QED  BY Zenon, <1>1, <1>2, <2>1, <2>3, NumberFacts DEF OthersKeep, Undisturbed
<1>6. DomainsKeep
  BY <1>1, <1>2, <1>3 DEF DomainsKeep
<1>7. DyingKeeps /\ PeerSymmetry' /\ ValidPorts'
  BY <1>1, SameChannels
<1> QED  BY Zenon, <1>4, <1>5, <1>6, <1>7, StepPreserves, NumberFacts

\* Freeing the buckets of a dying domain preserves the invariant.
LEMMA FreeBuckets ==
  ASSUME IInv, NEW c \in Cpu, free_buckets(c)
  PROVE  IInv'
<1>1. /\ UNCHANGED <<is_dying, refs, evtchn_lock>> /\ op[c].pc = "free_buckets"
      /\ op' = [op EXCEPT ![c] = Idle] /\ Unlocked(op[c].d1)
  BY Zenon DEF free_buckets, domVars
<1>2. PICK d \in Dom : d = op[c].d1
  BY Zenon, <1>1 DEF IInv, FrameOK
<1>3. evtchn \in [Dom -> [Port -> Evtchn]] /\ nr_ports \in [Dom -> Nat]
  BY DEF IInv, TypeOK
<1>4. /\ evtchn' = [evtchn EXCEPT ![d] = [p \in Port |-> Blank]]
      /\ nr_ports' = [nr_ports EXCEPT ![d] = 0]
  BY <1>2 DEF free_buckets
<1>5. /\ evtchn' \in [Dom -> [Port -> Evtchn]] /\ nr_ports' \in [Dom -> Nat]
      /\ \A a \in Dom : a # d => evtchn'[a] = evtchn[a] /\ nr_ports'[a] = nr_ports[a]
      /\ \A p \in Port : evtchn'[d][p] = Blank
  BY Zenon, <1>3, <1>4, BlankChan
<1>6. \A p \in Port : evtchn'[d][p].state = "FREE" /\ evtchn'[d][p].xen = FALSE
  BY SMTT(60), <1>5 DEF Blank
<1>7. op[c].caller = "destroy" => \A p \in Port : ~Live(d, p)
  BY Zenon, <1>1, <1>2 DEF IInv, DestroyOK
<1>8. op[c].caller = "destroy"
  BY Zenon, <1>1 DEF IInv, FrameOK
<1>9. PeerSymmetry'
  <2>1. LinksKept
    BY Zenon, <1>5, <1>6, <1>7, <1>8 DEF LinksKept, SameLink, Live
  <2> QED  BY Zenon, <2>1, LinksKeptPeers DEF IInv
<1>10. DyingKeeps
  BY <1>5, <1>6 DEF DyingKeeps, Live
<1>11. ValidPorts'
  BY <1>5, <1>6 DEF IInv, ValidPorts
<1>12. Undisturbed(c)
  <2>1. evtchn_lock[d] \notin Cpu  BY Zenon, <1>1, <1>2, NumberFacts DEF Unlocked
  <2> QED  BY <1>3, <1>5, <2>1 DEF Undisturbed, SameLink
<1>13. OthersKeep(c) /\ DomainsKeep /\ op' \in [Cpu -> Frame] /\ op'[c] = Idle
  BY Zenon, <1>1, <1>12, IdleFields, MoveKeeps
<1>14. TypeOK'
  BY <1>5, <1>13 DEF IInv, TypeOK, free_buckets, irqVars, domVars
<1>15. ActorOK(c)
  <2>1. \A a \in Dom : evtchn_lock'[a] # c
    BY <1>1 DEF IInv, HeldOK, Holds
  <2>2. \A a \in Dom : Destroying(c, a) => \A p \in Port : ~Live(a, p)'
    BY Zenon, <1>2, <1>6 DEF Destroying, Live
  <2> QED  BY Zenon, <1>13, <2>1, <2>2, IdleFields DEF ActorOK, FrameOK, DestroyOK, Closing
<1> QED  BY <1>9, <1>10, <1>11, <1>13, <1>14, <1>15, StepPreserves

\* evtchn_bind_interdomain() preserves the invariant when it connects the two ports.
LEMMA BindInterdomainSecond ==
  ASSUME IInv, NEW c \in Cpu, bind_interdomain_second(c)
  PROVE  IInv'
<1>1. UNCHANGED is_dying /\ Leave(c, Idle) /\ op[c].pc = "bind"
  BY Zenon DEF bind_interdomain_second, domVars
<1>2. PICK ld \in Dom, rd \in Dom, rport \in Port :
        ld = op[c].d1 /\ rd = op[c].d2 /\ rport = op[c].port2
  BY Zenon, <1>1 DEF IInv, FrameOK
<1>3. evtchn_lock[ld] \in {NoCpu, c} /\ evtchn_lock[rd] \in {NoCpu, c}
  BY ZenonT(60), <1>1, <1>2 DEF IInv, FrameOK, bind_interdomain_second, Unlocked
<1>4. SUFFICES /\ evtchn' \in [Dom -> [Port -> Evtchn]] /\ nr_ports' \in [Dom -> Nat]
               /\ pending' \in [Dom -> SUBSET Port]
               /\ PeerSymmetry' /\ DyingKeeps /\ ValidPorts' /\ Undisturbed(c)
  <2>1. /\ OthersKeep(c) /\ DomainsKeep /\ op' \in [Cpu -> Frame] /\ op'[c] = Idle
        /\ evtchn_lock' \in [Dom -> Cpu \cup {NoCpu}] /\ (\A a \in Dom : evtchn_lock'[a] # c)
        /\ refs' \in [Dom -> SUBSET (Cpu \cup {"self"})]
    BY Zenon, <1>1, <1>4, LeaveKeeps, IdleFields
  <2>2. TypeOK'
    BY Zenon, <1>4, <2>1 DEF IInv, TypeOK, bind_interdomain_second, irqVars, domVars
  <2>3. ActorOK(c)
    <3>1. op[c].caller # "destroy"
      BY Zenon, <1>1 DEF IInv, DestroyOK, Closing
    <3> QED  BY Zenon, <2>1, <3>1, IdleActor
  <2> QED  BY <1>4, <2>1, <2>2, <2>3, StepPreserves
<1>5. evtchn \in [Dom -> [Port -> Evtchn]] /\ nr_ports \in [Dom -> Nat] /\ pending \in [Dom -> SUBSET Port]
  BY DEF IInv, TypeOK
<1>6. CASE UNCHANGED chanVars
  BY <1>5, <1>6, SameChannels, SameUndisturbed DEF chanVars
<1>7. ASSUME NEW lport \in Port, get_free_port(ld, lport), AddBucket(ld, lport),
             UNCHANGED <<evtchn, pending>>
      PROVE  /\ evtchn' \in [Dom -> [Port -> Evtchn]] /\ nr_ports' \in [Dom -> Nat]
             /\ pending' \in [Dom -> SUBSET Port]
             /\ PeerSymmetry' /\ DyingKeeps /\ ValidPorts' /\ Undisturbed(c)
  <2>1. BucketAdded(ld, lport) /\ nr_ports' \in [Dom -> Nat]
    BY <1>7, AddBucketGrows
  <2>2. ValidPorts'
    <3>1. \A a \in Dom, i \in Port : i \in Nat /\ nr_ports[a] \in Nat /\ nr_ports'[a] \in Nat
      BY <1>5, <2>1, NumberFacts
    <3>2. \A a \in Dom : nr_ports[a] <= nr_ports'[a]
      BY <2>1 DEF BucketAdded
    <3>3. ASSUME NEW a \in Dom, NEW i \in Port, evtchn'[a][i].state # "FREE"
          PROVE  i < nr_ports'[a]
      <4>1. i < nr_ports[a]  BY Zenon, <1>7, <3>3 DEF IInv, ValidPorts
      <4> QED  BY SMTT(60), <3>1, <3>2, <4>1
    <3> QED  BY <3>3 DEF ValidPorts
  <2>3. Undisturbed(c)
    BY <1>7, <2>1 DEF Undisturbed, SameLink, BucketAdded
  <2> QED  BY <1>5, <1>7, <2>1, <2>2, <2>3, SameLinks
<1>8. ASSUME NEW lport \in Port, get_free_port(ld, lport), AddBucket(ld, lport),
             AwaitsBind(ld, rd, rport),
             evtchn' = [evtchn EXCEPT ![ld][lport] = Interdomain(@, rd, rport),
                                      ![rd][rport] = Interdomain(@, ld, lport)],
             pending' = [pending EXCEPT ![ld] = @ \cup {lport}]
      PROVE  /\ evtchn' \in [Dom -> [Port -> Evtchn]] /\ nr_ports' \in [Dom -> Nat]
             /\ pending' \in [Dom -> SUBSET Port]
             /\ PeerSymmetry' /\ DyingKeeps /\ ValidPorts' /\ Undisturbed(c)
  <2>1. BucketAdded(ld, lport) /\ nr_ports' \in [Dom -> Nat]
    BY <1>8, AddBucketGrows
  <2>2. /\ evtchn[ld][lport].state = "FREE" /\ is_dying[ld] = "alive"
        /\ evtchn[rd][rport].state = "UNBOUND" /\ evtchn[rd][rport].rdom = ld
    BY Zenon, <1>8 DEF get_free_port, AwaitsBind
  <2> DEFINE L == Interdomain(evtchn[ld][lport], rd, rport)
             R == Interdomain(evtchn[rd][rport], ld, lport)
  <2>3. /\ L \in Evtchn /\ L.state = "INTERDOMAIN" /\ L.rdom = rd /\ L.rport = rport
        /\ R \in Evtchn /\ R.state = "INTERDOMAIN" /\ R.rdom = ld /\ R.rport = lport
        /\ R.xen = evtchn[rd][rport].xen
    BY <1>5, InterdomainChan
  <2>4. ~(ld = rd /\ lport = rport)
    BY <2>2
  <2>5. evtchn' = [[evtchn EXCEPT ![ld][lport] = L] EXCEPT ![rd][rport] = R]
    <3>1. [evtchn EXCEPT ![ld][lport] = L][rd][rport] = evtchn[rd][rport]
      BY <1>5, <2>4
    <3> QED  BY <1>8, <3>1
  <2> HIDE DEF L, R
  <2>6. evtchn' \in [Dom -> [Port -> Evtchn]]
    <3>1. [evtchn EXCEPT ![ld][lport] = L] \in [Dom -> [Port -> Evtchn]]
      BY <1>5, <2>3
    <3> QED  BY Zenon, <2>3, <2>5, <3>1
  <2>7. \A a \in Dom, i \in Port :
          evtchn'[a][i] = IF a = rd /\ i = rport THEN R
                          ELSE IF a = ld /\ i = lport THEN L ELSE evtchn[a][i]
    BY <1>5, <2>5
  <2>8. PeerSymmetry'
    <3> SUFFICES ASSUME NEW a \in Dom, NEW i \in Port, evtchn'[a][i].state = "INTERDOMAIN"
                 PROVE  /\ evtchn'[a][i].rdom \in Dom /\ evtchn'[a][i].rport \in Port
                        /\ IsPair(evtchn[a][i].rdom, evtchn[a][i].rport, a, i)'
      BY DEF PeerSymmetry
    <3>0. evtchn'[rd][rport] = R /\ evtchn'[ld][lport] = L
      BY Zenon, <2>4, <2>7
    <3>1. CASE a = rd /\ i = rport
      BY Zenon, <2>3, <3>0, <3>1 DEF IsPair
    <3>2. CASE a = ld /\ i = lport
      BY Zenon, <2>3, <3>0, <3>2 DEF IsPair
    <3>3. CASE ~(a = rd /\ i = rport) /\ ~(a = ld /\ i = lport)
      <4>1. evtchn'[a][i] = evtchn[a][i]  BY Zenon, <2>7, <3>3
      <4>2. PICK b \in Dom, j \in Port :
              b = evtchn[a][i].rdom /\ j = evtchn[a][i].rport /\ IsPair(b, j, a, i)
        BY Zenon, <4>1 DEF IInv, PeerSymmetry
      <4>3. ~(b = rd /\ j = rport) /\ ~(b = ld /\ j = lport)
        BY <2>2, <4>2 DEF IsPair
      <4>4. evtchn'[b][j] = evtchn[b][j]  BY Zenon, <2>7, <4>3
      <4> QED  BY Zenon, <4>1, <4>2, <4>4 DEF IsPair
    <3> QED  BY <3>1, <3>2, <3>3
  <2>9. DyingKeeps
    <3> SUFFICES ASSUME NEW a \in Dom, NEW i \in Port, is_dying[a] # "alive"
                 PROVE  /\ Live(a, i)' => Live(a, i)
                        /\ Live(a, i)' /\ evtchn[a][i].state \in {"UNBOUND", "INTERDOMAIN"} =>
                             /\ evtchn'[a][i].state \in {"UNBOUND", "INTERDOMAIN"}
                             /\ evtchn'[a][i].rdom = evtchn[a][i].rdom
                        /\ ~evtchn[a][i].xen => ~evtchn'[a][i].xen
      BY DEF DyingKeeps
    <3>1. CASE a = rd /\ i = rport
      <4>1. evtchn'[a][i] = R  BY <2>7, <3>1
      <4> QED  BY Zenon, <2>2, <2>3, <3>1, <4>1 DEF Live
    <3>2. CASE ~(a = rd /\ i = rport)
      <4>1. evtchn'[a][i] = evtchn[a][i]  BY <2>2, <2>7, <3>2
      <4> QED  BY <4>1 DEF Live
    <3> QED  BY Zenon, <3>1, <3>2
  <2>10. ValidPorts'
    <3> SUFFICES ASSUME NEW a \in Dom, NEW i \in Port, evtchn'[a][i].state # "FREE"
                 PROVE  i < nr_ports'[a]
      BY DEF ValidPorts
    <3>1. CASE a = ld /\ i = lport
      BY <2>1, <3>1 DEF BucketAdded
    <3>2. CASE ~(a = ld /\ i = lport)
      <4>1. evtchn[a][i].state # "FREE"  BY <2>2, <2>7, <3>2
      <4>2. i < nr_ports[a]  BY <4>1 DEF IInv, ValidPorts
      <4>3. i \in Nat /\ nr_ports[a] \in Nat /\ nr_ports'[a] \in Nat /\ nr_ports[a] <= nr_ports'[a]
        BY Zenon, <1>5, <2>1, NumberFacts DEF BucketAdded
      <4> QED  BY <4>2, <4>3
    <3> QED  BY <3>1, <3>2
  <2>11. Undisturbed(c)
    <3>1. ASSUME NEW a \in Dom, evtchn_lock[a] \in Cpu, evtchn_lock[a] # c, NEW i \in Port
          PROVE  evtchn'[a][i] = evtchn[a][i]
      BY Zenon, <1>3, <2>7, <3>1, NumberFacts
    <3> QED  BY <2>1, <3>1 DEF Undisturbed, SameLink, BucketAdded
  <2>12. pending' \in [Dom -> SUBSET Port]
    BY <1>5, <1>8
  <2> QED  BY Zenon, <2>1, <2>6, <2>8, <2>9, <2>10, <2>11, <2>12
<1> QED  BY Zenon, <1>2, <1>6, <1>7, <1>8 DEF bind_interdomain_second

-----------------------------------------------------------------------------
(* The theorems.                                                           *)

\* evtchn_init() establishes the invariant.
THEOREM InvInit == Init => IInv
<1> SUFFICES ASSUME Init PROVE IInv
  OBVIOUS
<1>1. TypeOK
  <2>1. evtchn \in [Dom -> [Port -> Evtchn]]
    <3>1. [Blank EXCEPT !.state = "RESERVED"] \in Evtchn
      BY BlankChan DEF Evtchn, ECS
    <3> QED  BY <3>1, BlankChan DEF Init
  <2>2. op \in [Cpu -> Frame]
    BY IdleFields DEF Init
  <2>3. nr_ports \in [Dom -> Nat]
    BY EvtchnConstants DEF Init, EvtchnConstants
  <2> QED  BY Zenon, <2>1, <2>2, <2>3, NumberFacts DEF Init, TypeOK
<1>2. \A d \in Dom, p \in Port : evtchn[d][p].state \in {"FREE", "RESERVED"}
                                /\ (evtchn[d][p].state = "RESERVED" => p = 0)
  BY DEF Init, Blank
<1>3. PeerSymmetry
  BY <1>2 DEF PeerSymmetry
<1>4. ValidPorts
  <2>1. \A d \in Dom : nr_ports[d] = EVTCHNS_PER_BUCKET /\ 0 < EVTCHNS_PER_BUCKET
    BY EvtchnConstants DEF Init, EvtchnConstants
  <2> QED  BY <1>2, <2>1 DEF ValidPorts
<1>5. \A c \in Cpu : op[c] = Idle
  BY DEF Init
<1>6. HeldOK
  BY NumberFacts DEF Init, HeldOK
<1>7. DeadOK
  BY <1>2 DEF DeadOK, Live
<1>8. RefsOK
  BY Zenon, <1>5, IdleFields DEF Init, RefsOK
<1>9. \A c \in Cpu : FrameOK(c) /\ DestroyOK(c)
  BY Zenon, <1>5, IdleFields DEF FrameOK, DestroyOK, Closing
<1> QED  BY <1>1, <1>3, <1>4, <1>6, <1>7, <1>8, <1>9 DEF IInv

\* Every step of every CPU preserves it.
THEOREM InvNext == IInv /\ [Next]_vars => IInv'
<1> SUFFICES ASSUME IInv, [Next]_vars PROVE IInv'
  OBVIOUS
<1>1. CASE Bind
  <2>1. ASSUME NEW cur \in Dom, NEW d \in Dom, NEW rdom \in Dom, evtchn_alloc_unbound(cur, d, rdom) PROVE IInv'
    BY <2>1, EvtchnAllocUnbound
  <2>2. ASSUME NEW c \in Cpu, NEW ld \in Dom, NEW rd \in Dom, NEW p \in Port, evtchn_bind_interdomain(c, ld, rd, p) PROVE IInv'
    BY <2>2, EvtchnBindInterdomain
  <2>3. ASSUME NEW c \in Cpu, bind_interdomain_second(c) PROVE IInv'
    BY <2>3, BindInterdomainSecond
  <2>4. ASSUME NEW d \in Dom, NEW v \in Vcpu, NEW q \in Virq, evtchn_bind_virq(d, v, q) PROVE IInv'
    BY <2>4, EvtchnBindVirq
  <2>5. ASSUME NEW d \in Dom, NEW v \in Vcpu, evtchn_bind_ipi(d, v) PROVE IInv'
    BY <2>5, EvtchnBindIpi
  <2>6. ASSUME NEW d \in Dom, NEW p \in Port, NEW v \in Vcpu, evtchn_bind_vcpu(d, p, v) PROVE IInv'
    BY Zenon, <2>6, EvtchnBindVcpu
  <2>7. ASSUME NEW c \in Cpu, NEW d \in Dom, NEW q \in Pirq, evtchn_bind_pirq(c, d, q) PROVE IInv'
    BY <2>7, EvtchnBindPirq
  <2>8. ASSUME NEW c \in Cpu, NEW q \in Pirq, pirq_guest_bind(c, q) PROVE IInv'
    BY <2>8, PirqGuestBind
  <2>9. ASSUME NEW c \in Cpu, NEW q \in Pirq, pirq_guest_bind_fail(c, q) PROVE IInv'
    BY <2>9, PirqGuestBindFail
  <2>10. ASSUME NEW c \in Cpu, NEW q \in Pirq, bind_pirq_finish(c, q) PROVE IInv'
    BY <2>10, BindPirqFinish
  <2> QED  BY Zenon, <1>1, <2>1, <2>2, <2>3, <2>4, <2>5, <2>6, <2>7, <2>8, <2>9, <2>10 DEF Bind
<1>2. CASE Close
  <2>1. ASSUME NEW c \in Cpu, NEW d \in Dom, NEW p \in Port, evtchn_close(c, d, p) PROVE IInv'
    BY Zenon, <2>1, EvtchnClose
  <2>2. ASSUME NEW c \in Cpu, close_error(c) PROVE IInv'
    BY <2>2, CloseError
  <2>3. ASSUME NEW c \in Cpu, close_unbound_ipi(c) PROVE IInv'
    BY <2>3, CloseUnboundIpi
  <2>4. ASSUME NEW c \in Cpu, close_pirq(c) PROVE IInv'
    BY <2>4, ClosePirq
  <2>5. ASSUME NEW c \in Cpu, close_virq(c) PROVE IInv'
    BY <2>5, CloseVirq
  <2>6. ASSUME NEW c \in Cpu, close_virq_barrier(c) PROVE IInv'
    BY <2>6, CloseVirqBarrier
  <2>7. ASSUME NEW c \in Cpu, close_interdomain(c) PROVE IInv'
    BY <2>7, CloseInterdomain
  <2>8. ASSUME NEW c \in Cpu, close_get_domain(c) PROVE IInv'
    BY <2>8, CloseGetDomain
  <2>9. ASSUME NEW c \in Cpu, close_lock_d2(c) PROVE IInv'
    BY <2>9, CloseLockD2
  <2>10. ASSUME NEW c \in Cpu, close_again(c) PROVE IInv'
    BY <2>10, CloseAgain
  <2> QED  BY <1>2, <2>1, <2>2, <2>3, <2>4, <2>5, <2>6, <2>7, <2>8, <2>9, <2>10 DEF Close
<1>3. CASE Signal
  <2>1. ASSUME NEW c \in Cpu, NEW cur \in Dom \cup {NULL}, NEW ld \in Dom, NEW p \in Port, evtchn_send(c, cur, ld, p) PROVE IInv'
    BY <2>1, EvtchnSend
  <2>2. ASSUME NEW c \in Cpu, NEW ld \in Dom, NEW v \in Vcpu, notify_via_xen_event_channel(c, ld, v) PROVE IInv'
    BY <2>2, NotifyViaXen
  <2>3. ASSUME NEW c \in Cpu, send_remote(c) PROVE IInv'
    BY <2>3, SendRemote
  <2>4. ASSUME NEW ld \in Dom, NEW p \in Port, evtchn_send_ipi(ld, p) PROVE IInv'
    BY <2>4, EvtchnSendIpi
  <2>5. ASSUME NEW d \in Dom, NEW v \in Vcpu, NEW q \in Virq, send_guest_virq(d, v, q) PROVE IInv'
    BY <2>5, SendGuestVirq
  <2>6. ASSUME NEW d \in Dom, NEW v \in Vcpu, send_virq_finish(d, v) PROVE IInv'
    BY <2>6, SendVirqFinish
  <2>7. ASSUME NEW d \in Dom, NEW q \in Pirq, send_guest_pirq(d, q) PROVE IInv'
    BY <2>7, SendGuestPirq
  <2>8. ASSUME NEW d \in Dom, NEW p \in Port, guest_clear_pending(d, p) PROVE IInv'
    BY <2>8, GuestClearPending
  <2> QED  BY <1>3, <2>1, <2>2, <2>3, <2>4, <2>5, <2>6, <2>7, <2>8 DEF Signal
<1>4. CASE Lifecycle
  <2>1. ASSUME NEW d \in Dom, NEW v \in Vcpu, hvm_vcpu_initialise(d, v) PROVE IInv'
    BY <2>1, HvmVcpuInitialise
  <2>2. ASSUME NEW c \in Cpu, NEW cur \in Dom, NEW d \in Dom, NEW v \in Vcpu, hvm_set_dm_domain(c, cur, d, v) PROVE IInv'
    BY <2>2, HvmSetDmDomain
  <2>3. ASSUME NEW c \in Cpu, free_xen_event_channel(c) PROVE IInv'
    BY <2>3, FreeXenEventChannel
  <2>4. ASSUME NEW c \in Cpu, NEW cur \in Dom, NEW d \in Dom, evtchn_reset(c, cur, d) PROVE IInv'
    BY <2>4, EvtchnReset
  <2>5. ASSUME NEW c \in Cpu, NEW cur \in Dom, NEW d \in Dom, domain_kill(c, cur, d) PROVE IInv'
    BY Zenon, <2>5, DomainKill
  <2>6. ASSUME NEW c \in Cpu, evtchn_destroy(c) PROVE IInv'
    BY <2>6, EvtchnDestroy
  <2>7. ASSUME NEW c \in Cpu, close_next_port(c) PROVE IInv'
    BY <2>7, CloseNextPort
  <2>8. ASSUME NEW c \in Cpu, close_last_port(c) PROVE IInv'
    BY <2>8, CloseLastPort
  <2>9. ASSUME NEW c \in Cpu, free_buckets(c) PROVE IInv'
    BY <2>9, FreeBuckets
  <2>10. ASSUME NEW d \in Dom, domain_dead(d) PROVE IInv'
    BY <2>10, DomainDead
  <2> QED  BY Zenon, <1>4, <2>1, <2>2, <2>3, <2>4, <2>5, <2>6, <2>7, <2>8, <2>9, <2>10 DEF Lifecycle
<1>5. CASE UNCHANGED vars
  <2>1. TypeOK'
    BY <1>5 DEF IInv, TypeOK, vars, chanVars, irqVars, domVars, cpuVars
  <2> QED  BY Zenon, <1>5, <2>1, QuietStep DEF vars, chanVars, irqVars, domVars, cpuVars
<1> QED  BY <1>1, <1>2, <1>3, <1>4, <1>5 DEF Next

\* IInv is an invariant of the event channel code, for all domains, CPUs and ports.
THEOREM Invariance == Spec => []IInv
  BY InvInit, InvNext, PTL DEF Spec

\* Every variable of the event channel code keeps its type.
THEOREM TypeCorrect == Spec => []TypeOK
<1>1. IInv => TypeOK
  BY DEF IInv
<1> QED  BY <1>1, Invariance, PTL

\* Interdomain channels come in pairs, whatever bind and close interleave.
THEOREM PeersAreSymmetric == Spec => []PeerSymmetry
<1>1. IInv => PeerSymmetry
  BY Zenon DEF IInv
<1> QED  BY <1>1, Invariance, PTL

\* What evtchn_send() dereferences without the remote lock stays connected to it.
THEOREM SendSeesItsPeer == Spec => []SendPeerStable
<1>1. IInv => SendPeerStable
  <2> SUFFICES ASSUME IInv, NEW c \in Cpu, op[c].pc = "send"
               PROVE  /\ IsPair(op[c].d1, op[c].port1, op[c].d2, op[c].port2)
                      /\ IsPair(op[c].d2, op[c].port2, op[c].d1, op[c].port1)
                      /\ port_is_valid(op[c].d2, op[c].port2)
    BY Zenon DEF SendPeerStable
  <2>1. /\ op[c].d1 \in Dom /\ op[c].port1 \in Port
        /\ IsPair(op[c].d1, op[c].port1, op[c].d2, op[c].port2)
    BY Zenon DEF IInv, FrameOK
  <2>2. /\ op[c].d2 \in Dom /\ op[c].port2 \in Port
        /\ IsPair(op[c].d2, op[c].port2, op[c].d1, op[c].port1)
    <3>1. /\ evtchn[op[c].d1][op[c].port1].state = "INTERDOMAIN"
          /\ evtchn[op[c].d1][op[c].port1].rdom = op[c].d2
          /\ evtchn[op[c].d1][op[c].port1].rport = op[c].port2
      BY Zenon, <2>1 DEF IsPair
    <3> QED  BY Zenon, <2>1, <3>1 DEF IInv, PeerSymmetry
  <2>3. port_is_valid(op[c].d2, op[c].port2)
    BY Zenon, <2>2 DEF IInv, ValidPorts, IsPair, port_is_valid
  <2> QED  BY Zenon, <2>1, <2>2, <2>3
<1> QED  BY <1>1, Invariance, PTL

\* The BUG_ON()s that follow the second lock of __evtchn_close() cannot fire.
THEOREM CloseSeesItsPeer == Spec => []ClosePeerStable
<1>1. IInv => ClosePeerStable
  <2> SUFFICES ASSUME IInv, NEW c \in Cpu, op[c].pc = "lock2"
               PROVE  /\ Chn1(c).state = "INTERDOMAIN" /\ Chn1(c).rdom = op[c].d2
                      /\ port_is_valid(op[c].d2, Chn1(c).rport)
                      /\ IsPair(op[c].d2, Chn1(c).rport, op[c].d1, op[c].port1)
    BY Zenon DEF ClosePeerStable
  <2>1. /\ op[c].d1 \in Dom /\ op[c].port1 \in Port
        /\ Chn1(c).state = "INTERDOMAIN" /\ Chn1(c).rdom = op[c].d2
    BY Zenon DEF IInv, FrameOK, Closing
  <2>2. /\ op[c].d2 \in Dom /\ Chn1(c).rport \in Port
        /\ IsPair(op[c].d2, Chn1(c).rport, op[c].d1, op[c].port1)
    BY Zenon, <2>1 DEF IInv, PeerSymmetry, Chn1
  <2>3. port_is_valid(op[c].d2, Chn1(c).rport)
    BY Zenon, <2>2 DEF IInv, ValidPorts, IsPair, port_is_valid
  <2> QED  BY Zenon, <2>1, <2>2, <2>3
<1> QED  BY <1>1, Invariance, PTL

\* No two CPUs in bind or close can wait for each other's evtchn_lock.
THEOREM LocksAreOrdered == Spec => []LockOrder
<1>1. IInv => LockOrder
  <2> SUFFICES ASSUME IInv, NEW c \in Cpu, NEW held \in Dom, evtchn_lock[held] = c,
                      NEW wanted \in Waiting(c)
               PROVE  held < wanted
    BY DEF LockOrder
  <2>1. Holds(c, held)
    BY DEF IInv, HeldOK
  <2>2. FrameOK(c)
    BY DEF IInv
  <2>3. CASE op[c].pc = "bind"
    <3>1. op[c].d1 \in Nat /\ op[c].d2 \in Nat
      BY Zenon, <2>2, <2>3, NumberFacts DEF FrameOK
    <3>2. /\ op[c].d1 # op[c].d2
          /\ held = (IF op[c].d1 < op[c].d2 THEN op[c].d1 ELSE op[c].d2)
          /\ wanted = (IF op[c].d1 < op[c].d2 THEN op[c].d2 ELSE op[c].d1)
      BY <2>1, <2>3 DEF Holds, Waiting
    <3> QED  BY SMTT(60), <3>1, <3>2
  <2>4. CASE op[c].pc # "bind"
    BY <2>1, <2>2, <2>4 DEF Holds, Waiting, FrameOK
  <2> QED  BY <2>3, <2>4
<1> QED  BY <1>1, Invariance, PTL

\* get_domain(d2) in __evtchn_close() cannot fail.
THEOREM PeersAreReferenced == Spec => []PeerReferenced
<1>1. IInv => PeerReferenced
  <2> SUFFICES ASSUME IInv PROVE PeerReferenced
    OBVIOUS
  <2>1. ASSUME NEW d \in Dom, NEW p \in Port, evtchn[d][p].state = "INTERDOMAIN"
        PROVE  "self" \in refs[evtchn[d][p].rdom]
    <3>1. PICK rd \in Dom, rp \in Port : rd = evtchn[d][p].rdom /\ IsPair(rd, rp, d, p)
      BY Zenon, <2>1 DEF IInv, PeerSymmetry
    <3>2. Live(rd, rp)
      BY Zenon, <3>1 DEF Live, IsPair
    <3>3. is_dying[rd] # "dead"
      <4> SUFFICES ASSUME is_dying[rd] = "dead" PROVE FALSE
        OBVIOUS
      <4>1. PICK c \in Cpu : Destroying(c, rd)
        BY <3>2 DEF IInv, DeadOK
      <4> QED  BY <4>1 DEF IInv, DestroyOK, Destroying
    <3> QED  BY <3>1, <3>3 DEF IInv, RefsOK
  <2> QED  BY <2>1 DEF PeerReferenced, IInv, RefsOK
<1> QED  BY <1>1, Invariance, PTL

=============================================================================
