-------------------------- MODULE EventChannelInv ---------------------------
(***************************************************************************)
(* The inductive invariant of EventChannel and the argument by which every *)
(* step preserves it.  IInv says, for each CPU in the middle of an         *)
(* operation, which locks it holds and what it has established about its   *)
(* channels (FrameOK, HeldOK, DestroyOK), and what a dying domain and the  *)
(* references keep true (DeadOK, RefsOK).  StepPreserves reduces a step to *)
(* what it leaves alone for the others and what it sets up for itself.     *)
(***************************************************************************)
EXTENDS EventChannel, TLAPS

-----------------------------------------------------------------------------
(* What the update operators of EventChannel do to a channel and a frame.  *)

\* Port 0, vCPU 0 and the marks NULL and NoCpu are where the constants put them.
LEMMA NumberFacts ==
  /\ 0 \in Port /\ 0 \in Vcpu /\ Port \subseteq Nat /\ Dom \subseteq Nat
  /\ NULL \notin Dom /\ NULL \notin Port /\ NoCpu \notin Cpu
  BY EvtchnConstants DEF EvtchnConstants, NULL, Port

\* The members of a struct evtchn have their types.
LEMMA ChanFields ==
  \A chn \in Evtchn :
    /\ chn.state \in ECS /\ chn.rdom \in Dom \cup {NULL} /\ chn.rport \in Port \cup {NULL}
    /\ chn.irq \in Virq \cup Pirq \cup {NULL} /\ chn.vcpu \in Vcpu /\ chn.xen \in BOOLEAN
  BY DEF Evtchn

\* What memset() leaves in get_free_port() is a FREE channel.
LEMMA BlankChan == Blank \in Evtchn /\ Blank.state = "FREE"
  BY NumberFacts DEF Blank, Evtchn, ECS

\* A channel that waits for a bind keeps everything but its state and its peer.
LEMMA UnboundChan ==
  \A chn, rd : chn \in Evtchn =>
    /\ rd \in Dom => Unbound(chn, rd) \in Evtchn
    /\ Unbound(chn, rd).state = "UNBOUND" /\ Unbound(chn, rd).rdom = rd
    /\ Unbound(chn, rd).xen = chn.xen
  BY Zenon DEF Unbound, Evtchn, ECS

\* A channel that is connected names its peer and keeps consumer_is_xen.
LEMMA InterdomainChan ==
  \A chn, rd, rp : chn \in Evtchn =>
    /\ rd \in Dom /\ rp \in Port => Interdomain(chn, rd, rp) \in Evtchn
    /\ Interdomain(chn, rd, rp).state = "INTERDOMAIN"
    /\ Interdomain(chn, rd, rp).rdom = rd /\ Interdomain(chn, rd, rp).rport = rp
    /\ Interdomain(chn, rd, rp).xen = chn.xen
<1> SUFFICES ASSUME NEW chn \in Evtchn, NEW rd, NEW rp
             PROVE  /\ rd \in Dom /\ rp \in Port => Interdomain(chn, rd, rp) \in Evtchn
                    /\ Interdomain(chn, rd, rp).state = "INTERDOMAIN"
                    /\ Interdomain(chn, rd, rp).rdom = rd /\ Interdomain(chn, rd, rp).rport = rp
                    /\ Interdomain(chn, rd, rp).xen = chn.xen
  OBVIOUS
<1>1. rd \in Dom /\ rp \in Port => Interdomain(chn, rd, rp) \in Evtchn
  BY Zenon DEF Interdomain, Evtchn, ECS
<1>2. Interdomain(chn, rd, rp).state = "INTERDOMAIN" /\ Interdomain(chn, rd, rp).xen = chn.xen
  BY DEF Interdomain, Evtchn
<1>3. Interdomain(chn, rd, rp).rdom = rd /\ Interdomain(chn, rd, rp).rport = rp
  BY DEF Interdomain, Evtchn
<1> QED  BY <1>1, <1>2, <1>3

\* A channel bound to a VIRQ is no longer FREE and is not interdomain.
LEMMA VirqChan ==
  \A chn, v, q : chn \in Evtchn =>
    /\ v \in Vcpu /\ q \in Virq => BoundVirq(chn, v, q) \in Evtchn
    /\ BoundVirq(chn, v, q).state = "VIRQ"
  BY Zenon DEF BoundVirq, Evtchn, ECS

\* A channel bound to a PIRQ is no longer FREE and is not interdomain.
LEMMA PirqChan ==
  \A chn, q : chn \in Evtchn =>
    /\ q \in Pirq => BoundPirq(chn, q) \in Evtchn
    /\ BoundPirq(chn, q).state = "PIRQ"
  BY Zenon DEF BoundPirq, Evtchn, ECS

\* A channel bound to an IPI is no longer FREE and is not interdomain.
LEMMA IpiChan ==
  \A chn, v : chn \in Evtchn =>
    /\ v \in Vcpu => BoundIpi(chn, v) \in Evtchn
    /\ BoundIpi(chn, v).state = "IPI"
  BY Zenon DEF BoundIpi, Evtchn, ECS

\* evtchn_bind_vcpu() leaves the link of a channel alone.
LEMMA NotifiesChan ==
  \A chn, v : chn \in Evtchn =>
    /\ v \in Vcpu => Notifies(chn, v) \in Evtchn
    /\ Notifies(chn, v).state = chn.state /\ Notifies(chn, v).rdom = chn.rdom
    /\ Notifies(chn, v).rport = chn.rport /\ Notifies(chn, v).xen = chn.xen
  BY DEF Notifies, Evtchn

\* Attaching a channel to Xen leaves its link alone.
LEMMA XenAttachedChan ==
  \A chn, v : chn \in Evtchn =>
    /\ v \in Vcpu => XenAttached(chn, v) \in Evtchn
    /\ XenAttached(chn, v).state = chn.state
  BY Zenon DEF XenAttached, Evtchn

\* Detaching a channel from Xen leaves its link alone.
LEMMA XenDetachedChan ==
  \A chn : chn \in Evtchn =>
    /\ XenDetached(chn) \in Evtchn
    /\ XenDetached(chn).state = chn.state /\ XenDetached(chn).rdom = chn.rdom
    /\ XenDetached(chn).rport = chn.rport /\ XenDetached(chn).xen = FALSE
  BY Zenon DEF XenDetached, Evtchn

\* The channel that __evtchn_close() leaves behind is FREE.
LEMMA FreedChan ==
  \A chn : chn \in Evtchn =>
    /\ Freed(chn) \in Evtchn /\ Freed(chn).state = "FREE" /\ Freed(chn).xen = chn.xen
  BY Zenon, NumberFacts DEF Freed, Evtchn, ECS

\* The locals of an operation have their types.
LEMMA FrameFields ==
  \A o \in Frame :
    /\ o.pc \in Pc /\ o.caller \in Caller /\ o.cur \in Dom \cup {NULL}
    /\ o.d1 \in Dom \cup {NULL} /\ o.d2 \in Dom \cup {NULL}
    /\ o.port1 \in Nat /\ o.port2 \in Port \cup {NULL}
  BY DEF Frame

\* A new frame has the locals it was made with.
LEMMA MkFrameFields ==
  \A pc, k, cur, a, i, b, j :
    LET o == MkFrame(pc, k, cur, a, i, b, j) IN
    /\ /\ pc \in Pc /\ k \in Caller /\ cur \in Dom \cup {NULL} /\ a \in Dom \cup {NULL}
       /\ i \in Nat /\ b \in Dom \cup {NULL} /\ j \in Port \cup {NULL}
       => o \in Frame
    /\ o.pc = pc /\ o.caller = k /\ o.cur = cur
    /\ o.d1 = a /\ o.port1 = i /\ o.d2 = b /\ o.port2 = j
  BY DEF MkFrame, Frame

\* A CPU outside the event channel code has no locals.
LEMMA IdleFields ==
  /\ Idle \in Frame /\ Idle.pc = "idle" /\ Idle.caller = "none" /\ Idle.cur = NULL
  /\ Idle.d1 = NULL /\ Idle.d2 = NULL
  BY NumberFacts DEF Idle, MkFrame, Frame, Pc, Caller

\* Going on to another step changes no local.
LEMMA GotoFields ==
  \A o, pc : o \in Frame =>
    LET n == Goto(o, pc) IN
    /\ pc \in Pc => n \in Frame
    /\ n.pc = pc /\ n.caller = o.caller /\ n.cur = o.cur /\ n.d1 = o.d1
    /\ n.port1 = o.port1 /\ n.d2 = o.d2 /\ n.port2 = o.port2
  BY DEF Goto, Frame

\* get_domain(d2) in __evtchn_close() sets d2 and changes no other local.
LEMMA GotoWithFields ==
  \A o, pc, rd : o \in Frame =>
    LET n == GotoWith(o, pc, rd) IN
    /\ pc \in Pc /\ rd \in Dom => n \in Frame
    /\ n.pc = pc /\ n.caller = o.caller /\ n.cur = o.cur /\ n.d1 = o.d1
    /\ n.port1 = o.port1 /\ n.d2 = rd
<1> SUFFICES ASSUME NEW o \in Frame, NEW pc, NEW rd
             PROVE  LET n == GotoWith(o, pc, rd) IN
                    /\ pc \in Pc /\ rd \in Dom => n \in Frame
                    /\ n.pc = pc /\ n.caller = o.caller /\ n.cur = o.cur /\ n.d1 = o.d1
                    /\ n.port1 = o.port1 /\ n.d2 = rd
  OBVIOUS
<1> DEFINE n == GotoWith(o, pc, rd)
<1>1. pc \in Pc /\ rd \in Dom => n \in Frame
  BY Zenon DEF GotoWith, Frame
<1>2. n.pc = pc /\ n.d2 = rd
  BY DEF GotoWith, Frame
<1>3. n.caller = o.caller /\ n.cur = o.cur /\ n.d1 = o.d1 /\ n.port1 = o.port1
  BY DEF GotoWith, Frame
<1> QED  BY <1>1, <1>2, <1>3

\* The next turn of the loops in evtchn_reset() and evtchn_destroy().
LEMMA NextPortFields ==
  \A o : o \in Frame =>
    LET n == NextPort(o) IN
    /\ n \in Frame
    /\ n.pc = "loop" /\ n.caller = o.caller /\ n.cur = o.cur /\ n.d1 = o.d1
    /\ n.port1 = o.port1 + 1 /\ n.d2 = NULL
<1> SUFFICES ASSUME NEW o \in Frame
             PROVE  LET n == NextPort(o) IN
                    /\ n \in Frame
                    /\ n.pc = "loop" /\ n.caller = o.caller /\ n.cur = o.cur /\ n.d1 = o.d1
                    /\ n.port1 = o.port1 + 1 /\ n.d2 = NULL
  OBVIOUS
<1> DEFINE n == NextPort(o)
<1>1. o.port1 + 1 \in Nat
  BY FrameFields
<1>2. n \in Frame
  <2> HIDE DEF NULL
  <2> QED  BY Zenon, <1>1 DEF NextPort, Frame, Pc
<1>3. n.pc = "loop" /\ n.port1 = o.port1 + 1
  BY DEF NextPort, Frame
<1>4. n.caller = o.caller /\ n.cur = o.cur /\ n.d1 = o.d1
  BY DEF NextPort, Frame
<1>5. n.d2 = NULL
  BY DEF NextPort, Frame
<1> QED  BY <1>2, <1>3, <1>4, <1>5

-----------------------------------------------------------------------------
(* The inductive invariant.                                                *)

Live(d, p) == evtchn[d][p].state \notin {"FREE", "RESERVED"}

Closing == {"close", "lock2", "backoff", "again", "virq_barrier"}

\* A port that is not FREE lies in an allocated bucket.
ValidPorts ==
  \A d \in Dom, p \in Port : evtchn[d][p].state # "FREE" => p < nr_ports[d]

\* What a CPU has established by the time it reaches each point of an operation.
FrameOK(c) ==
  LET o == op[c] IN
  /\ o.pc # "idle" => o.d1 \in Dom
  /\ o.pc \in Closing \cup {"send", "pirq_map", "pirq_bound", "xen_free"} => o.port1 \in Port
  /\ o.pc = "bind" =>
       /\ o.d2 \in Dom /\ o.port2 \in Port
       /\ evtchn_lock[IF o.d1 < o.d2 THEN o.d1 ELSE o.d2] = c
  /\ o.pc \in {"send", "lock2", "virq_barrier", "pirq_map", "pirq_bound"} =>
       evtchn_lock[o.d1] = c
  /\ o.pc = "send" => IsPair(o.d1, o.port1, o.d2, o.port2)
  /\ o.pc \in {"close", "loop", "xen_free", "destroy"} => o.d2 = NULL
  /\ o.pc = "destroy" => o.port1 = 0
  /\ o.pc \in {"destroy", "free_buckets"} => o.caller = "destroy"
  /\ o.pc = "lock2" =>
       /\ o.d2 \in Dom /\ o.d1 < o.d2
       /\ Chn1(c).state = "INTERDOMAIN" /\ Chn1(c).rdom = o.d2
  /\ o.pc \in {"backoff", "again"} => o.d2 \in Dom /\ o.d2 < o.d1
  /\ o.pc = "again" => evtchn_lock[o.d2] = c
  /\ o.pc = "virq_barrier" => Chn1(c).state = "VIRQ"
  /\ o.pc \in {"pirq_map", "pirq_bound"} =>
       /\ o.cur = o.d1 /\ is_dying[o.d1] = "alive"
       /\ Chn1(c).state = "FREE" /\ o.port1 < nr_ports[o.d1]
       /\ o.caller = "guest"

\* The locks a CPU can hold at each point.
Holds(c, d) ==
  LET o == op[c] IN
  \/ o.pc = "bind" /\ d = (IF o.d1 < o.d2 THEN o.d1 ELSE o.d2)
  \/ o.pc \in {"send", "lock2", "virq_barrier", "pirq_map", "pirq_bound"} /\ d = o.d1
  \/ o.pc \in {"again", "virq_barrier"} /\ d = o.d2

HeldOK == \A c \in Cpu, d \in Dom : evtchn_lock[d] = c => Holds(c, d)

\* evtchn_destroy() leaves no open port behind it, even when it had to drop the
\* lock of d1 and start over.
DestroyOK(c) ==
  LET o == op[c] IN
  o.caller = "destroy" =>
    /\ o.pc \in Closing \cup {"destroy", "loop", "free_buckets"}
    /\ is_dying[o.d1] = "dying"
    /\ o.pc \in Closing \cup {"loop"} => \A p \in Port : p < o.port1 => ~Live(o.d1, p)
    /\ o.pc = "free_buckets" => \A p \in Port : ~Live(o.d1, p)
    /\ o.pc \in Closing => ~Chn1(c).xen
    /\ o.pc \in {"backoff", "again"} /\ Live(o.d1, o.port1) =>
         Chn1(c).state \in {"UNBOUND", "INTERDOMAIN"} /\ Chn1(c).rdom = o.d2

Destroying(c, d) == op[c].caller = "destroy" /\ op[c].d1 = d

\* A dying domain has open ports only as long as evtchn_destroy() runs on it.
DeadOK ==
  \A d \in Dom : is_dying[d] # "alive" =>
    (\E c \in Cpu : Destroying(c, d)) \/ (\A p \in Port : ~Live(d, p))

RefsOK ==
  /\ \A d \in Dom : "self" \notin refs[d] => is_dying[d] = "dead"
  /\ \A c \in Cpu : op[c].pc \in {"lock2", "backoff", "again"} => c \in refs[op[c].d2]

IInv ==
  /\ TypeOK /\ PeerSymmetry /\ ValidPorts /\ HeldOK /\ DeadOK /\ RefsOK
  /\ \A c \in Cpu : FrameOK(c) /\ DestroyOK(c)

-----------------------------------------------------------------------------
(* A step of one CPU, c, preserves IInv if it leaves to the others what they *)
(* rely on, and to c what it will rely on.  A step that belongs to no CPU in *)
(* the middle of an operation has c = NoCpu.                               *)

\* Channel (d, p) keeps its state and its peer.
SameLink(d, p) ==
  /\ evtchn'[d][p].state = evtchn[d][p].state
  /\ evtchn'[d][p].rdom = evtchn[d][p].rdom
  /\ evtchn'[d][p].rport = evtchn[d][p].rport

\* What the CPUs other than c rely on.
OthersKeep(c) ==
  \A e \in Cpu : e # c =>
    /\ op'[e] = op[e]
    /\ \A d \in Dom :
         /\ (evtchn_lock'[d] = e) <=> (evtchn_lock[d] = e)
         /\ evtchn_lock[d] = e => /\ nr_ports[d] <= nr_ports'[d]
                                  /\ \A p \in Port : SameLink(d, p)
         /\ e \in refs[d] => e \in refs'[d]
         /\ op[e].cur = d /\ is_dying[d] = "alive" => is_dying'[d] = "alive"
         /\ Destroying(e, d) => is_dying'[d] = is_dying[d]

\* No port of a dying domain is opened, attached to Xen or bound to another domain.
DyingKeeps ==
  \A d \in Dom, p \in Port : is_dying[d] # "alive" =>
    /\ Live(d, p)' => Live(d, p)
    /\ Live(d, p)' /\ evtchn[d][p].state \in {"UNBOUND", "INTERDOMAIN"} =>
         /\ evtchn'[d][p].state \in {"UNBOUND", "INTERDOMAIN"}
         /\ evtchn'[d][p].rdom = evtchn[d][p].rdom
    /\ ~evtchn[d][p].xen => ~evtchn'[d][p].xen

\* is_dying and the initial reference only go one way.
DomainsKeep ==
  \A d \in Dom :
    /\ is_dying'[d] # "alive" => is_dying[d] # "alive" \/ \E e \in Cpu : Destroying(e, d)'
    /\ "self" \in refs[d] => "self" \in refs'[d] \/ is_dying'[d] = "dead"
    /\ is_dying[d] = "dead" => is_dying'[d] = "dead"
    /\ "self" \in refs'[d] => "self" \in refs[d]

\* What CPU c has after its step.
ActorOK(c) ==
  /\ FrameOK(c)'
  /\ DestroyOK(c)'
  /\ \A d \in Dom : evtchn_lock'[d] = c => Holds(c, d)'
  /\ op'[c].pc \in {"lock2", "backoff", "again"} => c \in refs'[op'[c].d2]
  /\ \A d \in Dom : Destroying(c, d) => Destroying(c, d)' \/ \A p \in Port : ~Live(d, p)'

\* The pairs of interdomain channels are not touched.
LinksKept ==
  \A d \in Dom, p \in Port :
    /\ (evtchn'[d][p].state = "INTERDOMAIN") <=> (evtchn[d][p].state = "INTERDOMAIN")
    /\ evtchn[d][p].state = "INTERDOMAIN" => SameLink(d, p)

\* PeerSymmetry survives a step that leaves the link of every interdomain channel alone.
LEMMA LinksKeptPeers == ASSUME PeerSymmetry, LinksKept PROVE PeerSymmetry'
<1> SUFFICES ASSUME NEW d \in Dom, NEW p \in Port, evtchn'[d][p].state = "INTERDOMAIN"
             PROVE  /\ evtchn'[d][p].rdom \in Dom /\ evtchn'[d][p].rport \in Port
                    /\ IsPair(evtchn[d][p].rdom, evtchn[d][p].rport, d, p)'
  BY DEF PeerSymmetry
<1>1. evtchn[d][p].state = "INTERDOMAIN" /\ SameLink(d, p)
  BY DEF LinksKept
<1>2. PICK rd \in Dom, rp \in Port :
        rd = evtchn[d][p].rdom /\ rp = evtchn[d][p].rport /\ IsPair(rd, rp, d, p)
  BY Zenon, <1>1 DEF PeerSymmetry
<1>3. evtchn'[rd][rp].state = "INTERDOMAIN" /\ SameLink(rd, rp)
  BY <1>2 DEF LinksKept, IsPair
<1>4. evtchn'[d][p].rdom = rd /\ evtchn'[d][p].rport = rp
  BY Zenon, <1>1, <1>2 DEF SameLink
<1>5. IsPair(rd, rp, d, p)'
  BY Zenon, <1>2, <1>3 DEF SameLink, IsPair
<1> QED  BY <1>4, <1>5

\* What a step leaves alone for the other CPUs is all that their frames rely on.
LEMMA OtherFrames ==
  ASSUME NEW c, OthersKeep(c), DyingKeeps, NEW e \in Cpu, e # c, FrameOK(e), DestroyOK(e),
         TypeOK, TypeOK', op[e] \in Frame
  PROVE  FrameOK(e)' /\ DestroyOK(e)'
<1>1. op'[e] = op[e]
  BY DEF OthersKeep
<1>2. FrameOK(e)'
  <2>1. ASSUME op[e].d1 \in Dom, evtchn_lock[op[e].d1] = e
        PROVE  /\ evtchn_lock'[op[e].d1] = e /\ nr_ports[op[e].d1] <= nr_ports'[op[e].d1]
               /\ op[e].port1 \in Port => SameLink(op[e].d1, op[e].port1)
    BY Zenon, <2>1 DEF OthersKeep
  <2>2. CASE op[e].pc \in {"pirq_map", "pirq_bound"}
    <3>1. /\ op[e].d1 \in Dom /\ op[e].port1 \in Port /\ evtchn_lock[op[e].d1] = e
          /\ op[e].cur = op[e].d1 /\ is_dying[op[e].d1] = "alive" /\ op[e].port1 < nr_ports[op[e].d1]
          /\ Chn1(e).state = "FREE" /\ op[e].caller = "guest"
      BY <2>2 DEF FrameOK, Closing
    <3>2. nr_ports[op[e].d1] \in Nat /\ nr_ports'[op[e].d1] \in Nat
      BY <3>1 DEF TypeOK
    <3>3. op[e].port1 < nr_ports'[op[e].d1]
      <4>1. nr_ports[op[e].d1] <= nr_ports'[op[e].d1]  BY <2>1, <3>1
      <4>2. op[e].port1 \in Nat  BY FrameFields
      <4> QED  BY <3>1, <3>2, <4>1, <4>2
    <3>4. is_dying'[op[e].d1] = "alive"
      BY <3>1 DEF OthersKeep
    <3> QED  BY Zenon, <1>1, <2>1, <2>2, <3>1, <3>3, <3>4 DEF FrameOK, Closing, Chn1, SameLink
  <2>3. CASE op[e].pc = "bind"
    BY SMTT(60), <1>1, <2>3 DEF OthersKeep, FrameOK, Closing
  <2>4. CASE op[e].pc \in {"send", "lock2", "virq_barrier"}
    BY Zenon, <1>1, <2>1, <2>4 DEF FrameOK, Closing, Chn1, SameLink, IsPair
  <2>5. CASE op[e].pc \in Pc \ {"pirq_map", "pirq_bound", "bind", "send", "lock2", "virq_barrier"}
    BY SMTT(60), <1>1, <2>5 DEF OthersKeep, FrameOK, Closing
  <2> QED  BY <2>2, <2>3, <2>4, <2>5, FrameFields
<1>3. DestroyOK(e)'
  <2> SUFFICES ASSUME op[e].caller = "destroy" PROVE DestroyOK(e)'
    BY <1>1 DEF DestroyOK
  <2>1. /\ op[e].pc \in Closing \cup {"destroy", "loop", "free_buckets"} /\ op[e].d1 \in Dom
        /\ is_dying[op[e].d1] = "dying"
        /\ op[e].pc \in Closing => op[e].port1 \in Port
    BY DEF DestroyOK, FrameOK, Closing
  <2>2. is_dying'[op[e].d1] = "dying"
    BY <2>1 DEF OthersKeep, Destroying
  <2>3. PICK d, p : d \in Dom /\ d = op[e].d1 /\ p = op[e].port1
    BY <2>1
  <2>4. \A i \in Port : Live(d, i)' => Live(d, i)
    BY <2>1, <2>3 DEF DyingKeeps
  <2>5. op[e].pc \in Closing /\ ~evtchn[d][p].xen => ~evtchn'[d][p].xen
    BY Zenon, <2>1, <2>3 DEF DyingKeeps
  <2>6. /\ op[e].pc \in {"backoff", "again"} /\ Live(d, p)'
        /\ evtchn[d][p].state \in {"UNBOUND", "INTERDOMAIN"}
        => /\ evtchn'[d][p].state \in {"UNBOUND", "INTERDOMAIN"}
           /\ evtchn'[d][p].rdom = evtchn[d][p].rdom
    BY <2>1, <2>3 DEF DyingKeeps, Closing
  <2> QED  BY Zenon, <1>1, <2>1, <2>2, <2>3, <2>4, <2>5, <2>6 DEF DestroyOK, Closing, Chn1
<1> QED  BY <1>2, <1>3

\* A step of CPU c preserves the invariant if it keeps the types and the pairs, leaves
\* the other CPUs what they rely on, and establishes what c itself relies on next.
LEMMA StepPreserves ==
  ASSUME NEW c, IInv, c \in Cpu => ActorOK(c), OthersKeep(c), DyingKeeps, DomainsKeep,
         TypeOK', PeerSymmetry', ValidPorts'
  PROVE  IInv'
<1>1. HeldOK'
  <2>1. HeldOK  BY DEF IInv
  <2> SUFFICES ASSUME NEW e \in Cpu, NEW d \in Dom, evtchn_lock'[d] = e, e # c
               PROVE  Holds(e, d)'
    BY DEF HeldOK, ActorOK
  <2>2. evtchn_lock[d] = e /\ op'[e] = op[e]
    BY DEF OthersKeep
  <2> QED  BY <2>1, <2>2 DEF HeldOK, Holds
<1>2. DeadOK'
  <2>1. DeadOK  BY DEF IInv
  <2> SUFFICES ASSUME NEW d \in Dom, is_dying'[d] # "alive", \A e \in Cpu : ~Destroying(e, d)',
                      NEW p \in Port
               PROVE  ~Live(d, p)'
    BY DEF DeadOK
  <2>2. is_dying[d] # "alive"
    BY DEF DomainsKeep
  <2>3. CASE \E e \in Cpu : Destroying(e, d)
    <3>1. PICK e \in Cpu : Destroying(e, d)  BY <2>3
    <3>2. e # c => Destroying(e, d)'  BY <3>1 DEF OthersKeep, Destroying
    <3> QED  BY <3>1, <3>2 DEF ActorOK
  <2>4. CASE \A i \in Port : ~Live(d, i)
    BY <2>2, <2>4 DEF DyingKeeps
  <2> QED  BY <2>1, <2>2, <2>3, <2>4 DEF DeadOK
<1>3. RefsOK'
  <2>1. RefsOK  BY DEF IInv
  <2>2. ASSUME NEW d \in Dom, "self" \notin refs'[d] PROVE is_dying'[d] = "dead"
    BY <2>1, <2>2 DEF RefsOK, DomainsKeep
  <2>3. ASSUME NEW e \in Cpu, op'[e].pc \in {"lock2", "backoff", "again"}, e # c
        PROVE  e \in refs'[op'[e].d2]
    BY <2>1, <2>3 DEF RefsOK, OthersKeep, IInv, FrameOK
  <2> QED  BY <2>2, <2>3 DEF RefsOK, ActorOK
<1>4. ASSUME NEW e \in Cpu PROVE FrameOK(e)' /\ DestroyOK(e)'
  <2>1. FrameOK(e) /\ DestroyOK(e) /\ op[e] \in Frame
    BY DEF IInv, TypeOK
  <2> QED  BY <2>1, OtherFrames DEF ActorOK, IInv
<1> QED  BY <1>1, <1>2, <1>3, <1>4 DEF IInv

=============================================================================
