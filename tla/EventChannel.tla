---------------------------- MODULE EventChannel ----------------------------
(***************************************************************************)
(* Event channels (xen/common/event_channel.c): how ports are allocated,   *)
(* bound, closed and signalled by CPUs that run hypercalls concurrently.   *)
(*                                                                         *)
(* Work done under a single evtchn_lock is one step.  Operations that take *)
(* a second lock, drop a lock, wait on a barrier, or use a channel that    *)
(* they do not hold the lock of, are split where another CPU can get in;   *)
(* op[c] is the stack frame of CPU c in the middle of such an operation.   *)
(* A call that fails without changing anything is not a step.              *)
(***************************************************************************)
EXTENDS Integers, FiniteSets

CONSTANTS
  Dom,                  \* domains; a number is also the address order of struct domain
  Priv,                 \* domains for which IS_PRIV_FOR() holds
  Hvm,                  \* domains whose vCPUs have a Xen-attached ioreq port
  Cpu,                  \* physical CPUs in the middle of a multi-step operation
  NoCpu,                \* owner of a free lock
  Vcpu,                 \* vCPU numbers of every domain, 0 among them
  Virq, GlobalVirq,     \* virtual interrupts; those for which virq_is_global()
  Pirq,                 \* physical interrupts, with irq_access_permitted()
  MAX_EVTCHNS,
  EVTCHNS_PER_BUCKET

NULL == -1

ASSUME EvtchnConstants ==
  /\ Dom \subseteq Nat
  /\ Priv \subseteq Dom
  /\ Hvm \subseteq Dom
  /\ NoCpu \notin Cpu /\ "self" \notin Cpu
  /\ Vcpu \subseteq Nat /\ 0 \in Vcpu
  /\ Virq \subseteq Nat
  /\ GlobalVirq \subseteq Virq
  /\ Pirq \subseteq Nat
  /\ MAX_EVTCHNS \in Nat \ {0}
  /\ EVTCHNS_PER_BUCKET \in 1..MAX_EVTCHNS
  /\ MAX_EVTCHNS % EVTCHNS_PER_BUCKET = 0

Port == 0 .. MAX_EVTCHNS - 1

ECS == {"FREE", "RESERVED", "UNBOUND", "INTERDOMAIN", "PIRQ", "VIRQ", "IPI"}

\* struct evtchn.  The union u is kept as rdom, rport and irq; a member that the
\* state does not give a meaning to is NULL.
Evtchn == [state : ECS, rdom : Dom \cup {NULL}, rport : Port \cup {NULL},
           irq : Virq \cup Pirq \cup {NULL}, vcpu : Vcpu, xen : BOOLEAN]

Blank == [state |-> "FREE", rdom |-> NULL, rport |-> NULL, irq |-> NULL,
          vcpu |-> 0, xen |-> FALSE]

\* The ways the code below changes a channel.
Unbound(chn, rdom)            == [chn EXCEPT !.state = "UNBOUND", !.rdom = rdom, !.rport = NULL]
Interdomain(chn, rdom, rport) == [chn EXCEPT !.state = "INTERDOMAIN", !.rdom = rdom, !.rport = rport]
BoundVirq(chn, v, q)          == [chn EXCEPT !.state = "VIRQ", !.vcpu = v, !.irq = q]
BoundPirq(chn, q)             == [chn EXCEPT !.state = "PIRQ", !.irq = q]
BoundIpi(chn, v)              == [chn EXCEPT !.state = "IPI", !.vcpu = v]
Notifies(chn, v)              == [chn EXCEPT !.vcpu = v]
XenAttached(chn, v)           == [chn EXCEPT !.xen = TRUE, !.vcpu = v]
XenDetached(chn)              == [chn EXCEPT !.xen = FALSE]
Freed(chn)                    == [chn EXCEPT !.state = "FREE", !.vcpu = 0, !.rdom = NULL,
                                             !.rport = NULL, !.irq = NULL]

Pc == {"idle", "bind", "pirq_map", "pirq_bound", "send", "close", "lock2",
       "backoff", "again", "virq_barrier", "loop", "destroy", "free_buckets",
       "xen_free"}

Caller == {"none", "guest", "notify", "xen", "reset", "destroy"}

\* Locals of the function CPU c is in: cur is current->domain; a close works on
\* (d1, port1) and its peer in d2; bind and send use d1 for ld, d2 for rd.
Frame == [pc : Pc, caller : Caller, cur : Dom \cup {NULL}, d1 : Dom \cup {NULL},
          port1 : Nat, d2 : Dom \cup {NULL}, port2 : Port \cup {NULL}]

MkFrame(pc, caller, cur, d1, port1, d2, port2) ==
  [pc |-> pc, caller |-> caller, cur |-> cur, d1 |-> d1, port1 |-> port1,
   d2 |-> d2, port2 |-> port2]

Idle == MkFrame("idle", "none", NULL, NULL, 0, NULL, 0)

Goto(o, pc)          == [o EXCEPT !.pc = pc]
GotoWith(o, pc, d2)  == [o EXCEPT !.pc = pc, !.d2 = d2]
NextPort(o)          == [o EXCEPT !.pc = "loop", !.port1 = o.port1 + 1, !.d2 = NULL]

VARIABLES
  evtchn,           \* d->evtchn[]: the channel of every port (FREE in an absent bucket)
  nr_ports,         \* ports of d that lie in an allocated bucket
  pending,          \* ports of d with their bit set in shared_info.evtchn_pending
  virq_to_evtchn,   \* v->virq_to_evtchn[], 0 when unbound
  virq_lock,        \* v->virq_lock: 0, or the port a sender holding it has read
  pirq_to_evtchn,   \* d->pirq_to_evtchn[], 0 when unbound
  irq_guest,        \* external: IRQs whose action->guest[] holds d (arch/x86/irq.c)
  xen_port,         \* v->arch.hvm_vcpu.xen_port, 0 when there is none
  is_dying,         \* d->is_dying
  refs,             \* who holds a reference on d: CPUs, and "self" for the initial one
  evtchn_lock,      \* owner of d->evtchn_lock
  op                \* frame of each CPU

chanVars == <<evtchn, nr_ports, pending>>
irqVars  == <<virq_to_evtchn, virq_lock, pirq_to_evtchn, irq_guest>>
domVars  == <<xen_port, is_dying>>
cpuVars  == <<refs, evtchn_lock, op>>
vars     == <<chanVars, irqVars, domVars, cpuVars>>

-----------------------------------------------------------------------------
port_is_valid(d, p) == p \in Port /\ p < nr_ports[d]

virq_is_global(q) == q \in GlobalVirq

\* Variant: no test of is_dying.
get_free_port_when_dying(d, p) ==
  /\ evtchn[d][p].state = "FREE"
  /\ \A q \in Port : q < p => evtchn[d][q].state # "FREE"

\* get_free_port() returns p: the lowest FREE port, in a new bucket if need be.
get_free_port(d, p) ==
  /\ is_dying[d] = "alive"
  /\ evtchn[d][p].state = "FREE"
  /\ \A q \in Port : q < p => evtchn[d][q].state # "FREE"

\* The bucket that get_free_port() allocates for p when p is not yet valid.
AddBucket(d, p) ==
  nr_ports' = [nr_ports EXCEPT ![d] = IF p < @ THEN @ ELSE @ + EVTCHNS_PER_BUCKET]

Unlocked(d) == evtchn_lock[d] = NoCpu

\* A domain is paused while it dies and while its Xen ports are exchanged.
Paused(d) == \/ is_dying[d] # "alive"
             \/ \E c \in Cpu : op[c].caller = "xen" /\ op[c].d1 = d

\* A vCPU of d can enter a hypercall.
Runs(d) == ~Paused(d)

\* domain_pause() returns: no vCPU of d is inside a hypercall.
Quiescent(d) == \A c \in Cpu : op[c].cur # d

\* rcu_lock_target_domain_by_id() succeeds.
Targets(cur, d) == (d = cur \/ cur \in Priv) /\ refs[d] # {}

Enter(c, f) == op[c] = Idle /\ op' = [op EXCEPT ![c] = f]

TypeOK ==
  /\ evtchn \in [Dom -> [Port -> Evtchn]]
  /\ nr_ports \in [Dom -> Nat]
  /\ pending \in [Dom -> SUBSET Port]
  /\ virq_to_evtchn \in [Dom -> [Vcpu -> [Virq -> Port]]]
  /\ virq_lock \in [Dom -> [Vcpu -> Port]]
  /\ pirq_to_evtchn \in [Dom -> [Pirq -> Port]]
  /\ irq_guest \in [Dom -> SUBSET Pirq]
  /\ xen_port \in [Dom -> [Vcpu -> Port]]
  /\ is_dying \in [Dom -> {"alive", "dying", "dead"}]
  /\ refs \in [Dom -> SUBSET (Cpu \cup {"self"})]
  /\ evtchn_lock \in [Dom -> Cpu \cup {NoCpu}]
  /\ op \in [Cpu -> Frame]

\* evtchn_init() on every domain: port 0 is taken and reserved.
Init ==
  /\ evtchn = [d \in Dom |-> [p \in Port |->
                 IF p = 0 THEN [Blank EXCEPT !.state = "RESERVED"] ELSE Blank]]
  /\ nr_ports = [d \in Dom |-> EVTCHNS_PER_BUCKET]
  /\ pending = [d \in Dom |-> {}]
  /\ virq_to_evtchn = [d \in Dom |-> [v \in Vcpu |-> [q \in Virq |-> 0]]]
  /\ virq_lock = [d \in Dom |-> [v \in Vcpu |-> 0]]
  /\ pirq_to_evtchn = [d \in Dom |-> [q \in Pirq |-> 0]]
  /\ irq_guest = [d \in Dom |-> {}]
  /\ xen_port = [d \in Dom |-> [v \in Vcpu |-> 0]]
  /\ is_dying = [d \in Dom |-> "alive"]
  /\ refs = [d \in Dom |-> {"self"}]
  /\ evtchn_lock = [d \in Dom |-> NoCpu]
  /\ op = [c \in Cpu |-> Idle]

-----------------------------------------------------------------------------
(* Allocation and binding.                                                 *)

\* The channel of a port just returned by get_free_port().
Allocate(d, p, chn) ==
  /\ get_free_port(d, p)
  /\ AddBucket(d, p)
  /\ evtchn' = [evtchn EXCEPT ![d][p] = chn]

evtchn_alloc_unbound(cur, d, rdom) ==
  /\ Runs(cur) /\ Targets(cur, d) /\ Unlocked(d)
  /\ \E p \in Port :
       Allocate(d, p, Unbound(evtchn[d][p], rdom))
  /\ UNCHANGED <<pending, irqVars, domVars, cpuVars>>

\* evtchn_bind_interdomain() takes the lock of the lower-addressed domain ...
evtchn_bind_interdomain(c, ld, rd, rport) ==
  LET first == IF ld < rd THEN ld ELSE rd IN
  /\ Enter(c, MkFrame("bind", "guest", ld, ld, 0, rd, rport))
  /\ Runs(ld) /\ refs[rd] # {} /\ Unlocked(first)
  /\ evtchn_lock' = [evtchn_lock EXCEPT ![first] = c]
  /\ UNCHANGED <<chanVars, irqVars, domVars, refs>>

\* The remote port is waiting for a bind from ld.
AwaitsBind(ld, rd, rport) ==
  /\ port_is_valid(rd, rport)
  /\ evtchn[rd][rport].state = "UNBOUND"
  /\ evtchn[rd][rport].rdom = ld

\* Leave the operation CPU c is in: drop its locks and references.
Leave(c, f) ==
  /\ evtchn_lock' = [d \in Dom |-> IF evtchn_lock[d] = c THEN NoCpu ELSE evtchn_lock[d]]
  /\ refs' = [d \in Dom |-> refs[d] \ {c}]
  /\ op' = [op EXCEPT ![c] = f]

\* ... then the other one, connects the two ports and signals the local one. There may be no
\* free port, or no memory for the bucket it would be in.
bind_interdomain_second(c) ==
  LET ld == op[c].d1
      rd == op[c].d2
      rport == op[c].port2
      second == IF ld < rd THEN rd ELSE ld
  IN
  /\ op[c].pc = "bind"
  /\ Unlocked(second) \/ ld = rd
  /\ \/ \E lport \in Port :
          /\ get_free_port(ld, lport)
          /\ AddBucket(ld, lport)
          /\ \/ /\ AwaitsBind(ld, rd, rport)
                /\ evtchn' = [evtchn EXCEPT
                     ![ld][lport] = Interdomain(@, rd, rport),
                     ![rd][rport] = Interdomain(@, ld, lport)]
                /\ pending' = [pending EXCEPT ![ld] = @ \cup {lport}]
             \/ /\ ~AwaitsBind(ld, rd, rport)
                /\ UNCHANGED <<evtchn, pending>>
     \/ /\ \A lport \in Port : get_free_port(ld, lport) => ~port_is_valid(ld, lport)
        /\ UNCHANGED chanVars
  /\ Leave(c, Idle)
  /\ UNCHANGED <<irqVars, domVars>>

evtchn_bind_virq(d, v, q) ==
  /\ Runs(d) /\ Unlocked(d)
  /\ virq_is_global(q) => v = 0
  /\ virq_to_evtchn[d][v][q] = 0
  /\ \E p \in Port :
       /\ Allocate(d, p, BoundVirq(evtchn[d][p], v, q))
       /\ virq_to_evtchn' = [virq_to_evtchn EXCEPT ![d][v][q] = p]
  /\ UNCHANGED <<pending, virq_lock, pirq_to_evtchn, irq_guest, domVars, cpuVars>>

evtchn_bind_ipi(d, v) ==
  /\ Runs(d) /\ Unlocked(d)
  /\ \E p \in Port : Allocate(d, p, BoundIpi(evtchn[d][p], v))
  /\ UNCHANGED <<pending, irqVars, domVars, cpuVars>>

\* evtchn_bind_pirq(): the port is entered in the table before the IRQ is bound,
evtchn_bind_pirq(c, d, q) ==
  /\ Runs(d) /\ Unlocked(d)
  /\ pirq_to_evtchn[d][q] = 0
  /\ \E p \in Port :
       /\ get_free_port(d, p)
       /\ AddBucket(d, p)
       /\ pirq_to_evtchn' = [pirq_to_evtchn EXCEPT ![d][q] = p]
       /\ Enter(c, MkFrame("pirq_map", "guest", d, d, p, NULL, 0))
  /\ evtchn_lock' = [evtchn_lock EXCEPT ![d] = c]
  /\ UNCHANGED <<evtchn, pending, virq_to_evtchn, virq_lock, irq_guest, domVars, refs>>

\* pirq_guest_bind() succeeds and interrupts start to arrive,
pirq_guest_bind(c, q) ==
  LET d == op[c].d1 IN
  /\ op[c].pc = "pirq_map" /\ pirq_to_evtchn[d][q] = op[c].port1
  /\ irq_guest' = [irq_guest EXCEPT ![d] = @ \cup {q}]
  /\ op' = [op EXCEPT ![c] = Goto(@, "pirq_bound")]
  /\ UNCHANGED <<chanVars, virq_to_evtchn, virq_lock, pirq_to_evtchn, domVars, refs, evtchn_lock>>

\* Variant: the entry is reset to NULL, which is not the mark of a free one.
pirq_guest_bind_fail_null(c, q) ==
  /\ op[c].pc = "pirq_map" /\ pirq_to_evtchn[op[c].d1][q] = op[c].port1
  /\ pirq_to_evtchn' = [pirq_to_evtchn EXCEPT ![op[c].d1][q] = NULL]
  /\ Leave(c, Idle)
  /\ UNCHANGED <<chanVars, virq_to_evtchn, virq_lock, irq_guest, domVars>>

\* or fails, and the table entry is taken back;
pirq_guest_bind_fail(c, q) ==
  LET d == op[c].d1 IN
  /\ op[c].pc = "pirq_map" /\ pirq_to_evtchn[d][q] = op[c].port1
  /\ pirq_to_evtchn' = [pirq_to_evtchn EXCEPT ![d][q] = 0]
  /\ Leave(c, Idle)
  /\ UNCHANGED <<chanVars, virq_to_evtchn, virq_lock, irq_guest, domVars>>

\* only then does the channel become ECS_PIRQ.
bind_pirq_finish(c, q) ==
  LET d == op[c].d1
      p == op[c].port1
  IN
  /\ op[c].pc = "pirq_bound" /\ pirq_to_evtchn[d][q] = p
  /\ evtchn' = [evtchn EXCEPT ![d][p] = BoundPirq(@, q)]
  /\ Leave(c, Idle)
  /\ UNCHANGED <<nr_ports, pending, irqVars, domVars>>

evtchn_bind_vcpu(d, p, v) ==
  LET chn == evtchn[d][p] IN
  /\ Runs(d) /\ Unlocked(d)
  /\ port_is_valid(d, p) /\ ~chn.xen
  /\ \/ chn.state = "VIRQ" /\ virq_is_global(chn.irq)
     \/ chn.state \in {"UNBOUND", "INTERDOMAIN", "PIRQ"}
  /\ evtchn' = [evtchn EXCEPT ![d][p] = Notifies(@, v)]
  /\ UNCHANGED <<nr_ports, pending, irqVars, domVars, cpuVars>>

-----------------------------------------------------------------------------
(* __evtchn_close().  pc "close" is the first pass of the loop at `again',  *)
(* pc "again" the second one, entered with the lock of d2 already held.    *)

Chn1(c) == evtchn[op[c].d1][op[c].port1]

\* spin_lock(&d1->evtchn_lock) succeeds.
LockD1(c) == op[c].pc \in {"close", "again"} /\ Unlocked(op[c].d1)

\* Variant: consumer_is_xen is not tested again on the second pass.
Closable_stale(c) ==
  /\ port_is_valid(op[c].d1, op[c].port1)
  /\ op[c].pc = "close" => ~Chn1(c).xen
  /\ Chn1(c).state \notin {"FREE", "RESERVED"}

\* The checks before the switch, and its ECS_FREE / ECS_RESERVED cases.
Closable(c) ==
  /\ port_is_valid(op[c].d1, op[c].port1)
  /\ ~Chn1(c).xen
  /\ Chn1(c).state \notin {"FREE", "RESERVED"}

\* Where __evtchn_close() returns to: the next iteration of a loop, or the guest.
Return(c) ==
  IF op[c].caller \in {"reset", "destroy"}
  THEN NextPort(op[c])
  ELSE Idle

\* Variant: the pending bit stays set.
FreeChannel_pending(c, chans) ==
  /\ evtchn' = [chans EXCEPT ![op[c].d1][op[c].port1] = Freed(@)]
  /\ Leave(c, Return(c))
  /\ UNCHANGED <<nr_ports, pending, domVars>>

\* The tail of __evtchn_close(): clear the pending bit, free channel (d1, port1).
FreeChannel(c, chans) ==
  LET d == op[c].d1
      p == op[c].port1
  IN
  /\ evtchn' = [chans EXCEPT ![d][p] = Freed(@)]
  /\ pending' = [pending EXCEPT ![d] = @ \ {p}]
  /\ Leave(c, Return(c))
  /\ UNCHANGED <<nr_ports, domVars>>

close_error(c) ==
  /\ LockD1(c)
  /\ \/ ~Closable(c)
     \/ /\ Chn1(c).state = "INTERDOMAIN"
        /\ op[c].d2 \notin {NULL, Chn1(c).rdom}
  /\ Leave(c, Return(c))
  /\ UNCHANGED <<chanVars, irqVars, domVars>>

close_unbound_ipi(c) ==
  /\ LockD1(c) /\ Closable(c) /\ Chn1(c).state \in {"UNBOUND", "IPI"}
  /\ FreeChannel(c, evtchn)
  /\ UNCHANGED irqVars

\* Variant: the IRQ stays bound to the domain.
close_pirq_bound(c) ==
  /\ LockD1(c) /\ Closable(c) /\ Chn1(c).state = "PIRQ"
  /\ pirq_to_evtchn' = [pirq_to_evtchn EXCEPT ![op[c].d1][Chn1(c).irq] = 0]
  /\ FreeChannel(c, evtchn)
  /\ UNCHANGED <<virq_to_evtchn, virq_lock, irq_guest>>

close_pirq(c) ==
  LET d == op[c].d1
      q == Chn1(c).irq
  IN
  /\ LockD1(c) /\ Closable(c) /\ Chn1(c).state = "PIRQ"
  /\ irq_guest' = [irq_guest EXCEPT ![d] = @ \ {q}]
  /\ pirq_to_evtchn' = [pirq_to_evtchn EXCEPT ![d][q] = 0]
  /\ FreeChannel(c, evtchn)
  /\ UNCHANGED <<virq_to_evtchn, virq_lock>>

\* The tables of all vCPUs without port p as the port of VIRQ q.
Unhooked(table, q, p) ==
  [v \in Vcpu |-> [table[v] EXCEPT ![q] = IF @ = p THEN 0 ELSE @]]

\* ECS_VIRQ: unhook the port, then wait for a sender that has already read it.
close_virq(c) ==
  LET d == op[c].d1
      q == Chn1(c).irq
  IN
  /\ LockD1(c) /\ Closable(c) /\ Chn1(c).state = "VIRQ"
  /\ virq_to_evtchn' = [virq_to_evtchn EXCEPT ![d] = Unhooked(@, q, op[c].port1)]
  /\ evtchn_lock' = [evtchn_lock EXCEPT ![d] = c]
  /\ op' = [op EXCEPT ![c] = Goto(@, "virq_barrier")]
  /\ UNCHANGED <<chanVars, virq_lock, pirq_to_evtchn, irq_guest, domVars, refs>>

\* The vCPU whose virq_to_evtchn[] a VIRQ channel was entered in.
VirqHome(chn) == IF virq_is_global(chn.irq) THEN 0 ELSE chn.vcpu

\* Variant: no wait for the sender.
close_virq_nobarrier(c) ==
  /\ op[c].pc = "virq_barrier"
  /\ FreeChannel(c, evtchn)
  /\ UNCHANGED irqVars

\* spin_barrier_irq(&v->virq_lock) returns.
close_virq_barrier(c) ==
  /\ op[c].pc = "virq_barrier"
  /\ virq_lock[op[c].d1][VirqHome(Chn1(c))] = 0
  /\ FreeChannel(c, evtchn)
  /\ UNCHANGED irqVars

\* Variant: the peer is left connected.
PeerUnbound_kept(c) == evtchn

\* The peer of (d1, port1) goes back to waiting for a bind from d1.
PeerUnbound(c) ==
  [evtchn EXCEPT ![Chn1(c).rdom][Chn1(c).rport] = Unbound(@, op[c].d1)]

\* ECS_INTERDOMAIN when no further lock is needed: d2 = d1, or a second pass.
close_interdomain(c) ==
  /\ LockD1(c) /\ Closable(c) /\ Chn1(c).state = "INTERDOMAIN"
  /\ IF op[c].d2 = NULL THEN Chn1(c).rdom = op[c].d1 ELSE Chn1(c).rdom = op[c].d2
  /\ FreeChannel(c, PeerUnbound(c))
  /\ UNCHANGED irqVars

\* Variant: the lock of d1 is kept whatever the address order.
close_get_domain_unordered(c) ==
  LET rd == Chn1(c).rdom IN
  /\ LockD1(c) /\ Closable(c) /\ Chn1(c).state = "INTERDOMAIN"
  /\ op[c].d2 = NULL /\ rd # op[c].d1
  /\ refs' = [refs EXCEPT ![rd] = @ \cup {c}]
  /\ op' = [op EXCEPT ![c] = GotoWith(@, "lock2", rd)]
  /\ evtchn_lock' = [evtchn_lock EXCEPT ![op[c].d1] = c]
  /\ UNCHANGED <<chanVars, irqVars, domVars>>

\* Variant: the lock of d1 is dropped in both orders, and not re-validated.
close_get_domain_unlocked(c) ==
  LET rd == Chn1(c).rdom IN
  /\ LockD1(c) /\ Closable(c) /\ Chn1(c).state = "INTERDOMAIN"
  /\ op[c].d2 = NULL /\ rd # op[c].d1
  /\ refs' = [refs EXCEPT ![rd] = @ \cup {c}]
  /\ op' = [op EXCEPT ![c] = GotoWith(@, "lock2", rd)]
  /\ UNCHANGED <<chanVars, irqVars, domVars, evtchn_lock>>

\* The first pass meets a peer in another domain: get_domain(d2).  In address
\* order the lock of d1 is kept, otherwise it is dropped to take that of d2 first.
close_get_domain(c) ==
  LET o == op[c]
      rd == Chn1(c).rdom
  IN
  /\ LockD1(c) /\ Closable(c) /\ Chn1(c).state = "INTERDOMAIN"
  /\ o.d2 = NULL /\ rd # o.d1
  /\ refs' = [refs EXCEPT ![rd] = @ \cup {c}]
  /\ \/ /\ o.d1 < rd
        /\ op' = [op EXCEPT ![c] = GotoWith(@, "lock2", rd)]
        /\ evtchn_lock' = [evtchn_lock EXCEPT ![o.d1] = c]
     \/ /\ o.d1 > rd
        /\ op' = [op EXCEPT ![c] = GotoWith(@, "backoff", rd)]
        /\ UNCHANGED evtchn_lock
  /\ UNCHANGED <<chanVars, irqVars, domVars>>

\* Variant: the peer is changed without its domain's lock.
close_lock_d2_unlocked(c) ==
  /\ op[c].pc = "lock2"
  /\ FreeChannel(c, PeerUnbound(c))
  /\ UNCHANGED irqVars

close_lock_d2(c) ==
  /\ op[c].pc = "lock2" /\ Unlocked(op[c].d2)
  /\ FreeChannel(c, PeerUnbound(c))
  /\ UNCHANGED irqVars

close_again(c) ==
  /\ op[c].pc = "backoff" /\ Unlocked(op[c].d2)
  /\ evtchn_lock' = [evtchn_lock EXCEPT ![op[c].d2] = c]
  /\ op' = [op EXCEPT ![c] = Goto(@, "again")]
  /\ UNCHANGED <<chanVars, irqVars, domVars, refs>>

evtchn_close(c, d, p) ==
  /\ Enter(c, MkFrame("close", "guest", d, d, p, NULL, 0))
  /\ Runs(d)
  /\ UNCHANGED <<chanVars, irqVars, domVars, refs, evtchn_lock>>

-----------------------------------------------------------------------------
(* Signalling.                                                             *)

SetPending(d, p) == pending' = [pending EXCEPT ![d] = @ \cup {p}]

\* evtchn_send() on an interdomain channel.  The local lock is held, the remote
\* one is not.  Called by a vCPU of ld, or (cur = NULL) by __domain_finalise_shutdown().
evtchn_send(c, cur, ld, lport) ==
  LET chn == evtchn[ld][lport] IN
  /\ Enter(c, MkFrame("send", "guest", cur, ld, lport, chn.rdom, chn.rport))
  /\ cur = NULL \/ (cur = ld /\ Runs(ld))
  /\ refs[ld] # {} /\ Unlocked(ld)
  /\ port_is_valid(ld, lport) /\ ~chn.xen
  /\ chn.state = "INTERDOMAIN"
  /\ evtchn_lock' = [evtchn_lock EXCEPT ![ld] = c]
  /\ UNCHANGED <<chanVars, irqVars, domVars, refs>>

\* notify_via_xen_event_channel() on the ioreq port of vCPU v of the current domain.
notify_via_xen_event_channel(c, ld, v) ==
  LET lport == xen_port[ld][v]
      chn == evtchn[ld][lport]
  IN
  /\ Enter(c, MkFrame("send", "notify", ld, ld, lport, chn.rdom, chn.rport))
  /\ Runs(ld) /\ lport # 0 /\ Unlocked(ld)
  /\ chn.state = "INTERDOMAIN"
  /\ evtchn_lock' = [evtchn_lock EXCEPT ![ld] = c]
  /\ UNCHANGED <<chanVars, irqVars, domVars, refs>>

\* The remote channel is looked at and its port signalled.  A Xen consumer that
\* evtchn_send() finds there is woken instead of getting a pending bit.
send_remote(c) ==
  LET rd == op[c].d2
      rport == op[c].port2
  IN
  /\ op[c].pc = "send"
  /\ IF op[c].caller = "guest" /\ evtchn[rd][rport].xen
     THEN UNCHANGED pending
     ELSE SetPending(rd, rport)
  /\ Leave(c, Idle)
  /\ UNCHANGED <<evtchn, nr_ports, irqVars, domVars>>

evtchn_send_ipi(ld, lport) ==
  /\ Runs(ld) /\ Unlocked(ld)
  /\ port_is_valid(ld, lport) /\ ~evtchn[ld][lport].xen
  /\ evtchn[ld][lport].state = "IPI"
  /\ SetPending(ld, lport)
  /\ UNCHANGED <<evtchn, nr_ports, irqVars, domVars, cpuVars>>

\* send_guest_vcpu_virq() and send_guest_global_virq() read the port under
\* virq_lock, with no evtchn_lock, ...
send_guest_virq(d, v, q) ==
  /\ virq_is_global(q) => v = 0
  /\ refs[d] # {} /\ virq_lock[d][v] = 0
  /\ virq_to_evtchn[d][v][q] # 0
  /\ virq_lock' = [virq_lock EXCEPT ![d][v] = virq_to_evtchn[d][v][q]]
  /\ UNCHANGED <<chanVars, virq_to_evtchn, pirq_to_evtchn, irq_guest, domVars, cpuVars>>

\* ... and signal it before they release that lock.
send_virq_finish(d, v) ==
  /\ virq_lock[d][v] # 0
  /\ SetPending(d, virq_lock[d][v])
  /\ virq_lock' = [virq_lock EXCEPT ![d][v] = 0]
  /\ UNCHANGED <<evtchn, nr_ports, virq_to_evtchn, pirq_to_evtchn, irq_guest, domVars, cpuVars>>

\* send_guest_pirq() runs under the descriptor lock that pirq_guest_unbind() takes.
send_guest_pirq(d, q) ==
  /\ q \in irq_guest[d]
  /\ SetPending(d, pirq_to_evtchn[d][q])
  /\ UNCHANGED <<evtchn, nr_ports, irqVars, domVars, cpuVars>>

\* external: a guest's event handler clears the bit of an event it has seen.
guest_clear_pending(d, p) ==
  /\ Runs(d) /\ p \in pending[d]
  /\ pending' = [pending EXCEPT ![d] = @ \ {p}]
  /\ UNCHANGED <<evtchn, nr_ports, irqVars, domVars, cpuVars>>

-----------------------------------------------------------------------------
(* Xen-attached channels: hvm_vcpu_initialise() and HVM_PARAM_DM_DOMAIN.   *)

XenChannel(d, p, v, rdom) ==
  XenAttached(Unbound(evtchn[d][p], rdom), v)

\* alloc_unbound_xen_event_channel() for a new vCPU.
hvm_vcpu_initialise(d, v) ==
  /\ d \in Hvm /\ xen_port[d][v] = 0 /\ Unlocked(d)
  /\ \E p \in Port, rdom \in Priv :
       /\ Allocate(d, p, XenChannel(d, p, v, rdom))
       /\ xen_port' = [xen_port EXCEPT ![d][v] = p]
  /\ UNCHANGED <<pending, irqVars, is_dying, cpuVars>>

\* Variant: the new port is not stored.
hvm_set_dm_domain_noxchg(c, cur, d, v) ==
  /\ Enter(c, MkFrame("xen_free", "xen", cur, d, xen_port[d][v], NULL, 0))
  /\ Runs(cur) /\ cur \in Priv /\ cur # d
  /\ d \in Hvm /\ refs[d] # {} /\ xen_port[d][v] # 0
  /\ Quiescent(d) /\ Unlocked(d)
  /\ \E p \in Port, rdom \in Priv : Allocate(d, p, XenChannel(d, p, v, rdom))
  /\ UNCHANGED <<pending, irqVars, xen_port, is_dying, refs, evtchn_lock>>

\* With d paused a new port replaces the old one, ...
hvm_set_dm_domain(c, cur, d, v) ==
  /\ Enter(c, MkFrame("xen_free", "xen", cur, d, xen_port[d][v], NULL, 0))
  /\ Runs(cur) /\ cur \in Priv /\ cur # d
  /\ d \in Hvm /\ refs[d] # {} /\ xen_port[d][v] # 0
  /\ Quiescent(d) /\ Unlocked(d)
  /\ \E p \in Port, rdom \in Priv :
       /\ Allocate(d, p, XenChannel(d, p, v, rdom))
       /\ xen_port' = [xen_port EXCEPT ![d][v] = p]
  /\ UNCHANGED <<pending, irqVars, is_dying, refs, evtchn_lock>>

\* ... which free_xen_event_channel() detaches and then closes.
free_xen_event_channel(c) ==
  LET d == op[c].d1 IN
  /\ op[c].pc = "xen_free" /\ Unlocked(d)
  /\ \/ /\ is_dying[d] # "alive"
        /\ op' = [op EXCEPT ![c] = Idle]
        /\ UNCHANGED evtchn
     \/ /\ is_dying[d] = "alive"
        /\ evtchn' = [evtchn EXCEPT ![d][op[c].port1] = XenDetached(@)]
        /\ op' = [op EXCEPT ![c] = Goto(@, "close")]
  /\ UNCHANGED <<nr_ports, pending, irqVars, domVars, refs, evtchn_lock>>

-----------------------------------------------------------------------------
(* evtchn_reset() and evtchn_destroy(): close every port of a domain.      *)

evtchn_reset(c, cur, d) ==
  /\ Enter(c, MkFrame("loop", "reset", cur, d, 0, NULL, 0))
  /\ Runs(cur) /\ Targets(cur, d)
  /\ UNCHANGED <<chanVars, irqVars, domVars, refs, evtchn_lock>>

\* Variant: the initial reference is put at once.
domain_kill_put(c, cur, d) ==
  /\ Enter(c, MkFrame("destroy", "destroy", cur, d, 0, NULL, 0))
  /\ Runs(cur) /\ cur \in Priv /\ cur # d
  /\ is_dying[d] = "alive" /\ Quiescent(d)
  /\ \A e \in Cpu : op[e].caller # "destroy"
  /\ is_dying' = [is_dying EXCEPT ![d] = "dying"]
  /\ refs' = [refs EXCEPT ![d] = @ \ {"self"}]
  /\ UNCHANGED <<chanVars, irqVars, xen_port, evtchn_lock>>

\* domain_kill() on a live domain; domctl_lock admits one at a time.
domain_kill(c, cur, d) ==
  /\ Enter(c, MkFrame("destroy", "destroy", cur, d, 0, NULL, 0))
  /\ Runs(cur) /\ cur \in Priv /\ cur # d
  /\ is_dying[d] = "alive" /\ Quiescent(d)
  /\ \A e \in Cpu : op[e].caller # "destroy"
  /\ is_dying' = [is_dying EXCEPT ![d] = "dying"]
  /\ UNCHANGED <<chanVars, irqVars, xen_port, refs, evtchn_lock>>

\* spin_barrier(&d->evtchn_lock)
evtchn_destroy(c) ==
  /\ op[c].pc = "destroy" /\ Unlocked(op[c].d1)
  /\ op' = [op EXCEPT ![c] = Goto(@, "loop")]
  /\ UNCHANGED <<chanVars, irqVars, domVars, refs, evtchn_lock>>

\* for ( i = 0; port_is_valid(d, i); i++ ), reading the bucket without a lock.
close_next_port(c) ==
  LET o == op[c] IN
  /\ o.pc = "loop" /\ port_is_valid(o.d1, o.port1)
  /\ op' = [op EXCEPT ![c] = Goto(@, "close")]
  /\ evtchn' = IF o.caller = "destroy"
               THEN [evtchn EXCEPT ![o.d1][o.port1] = XenDetached(@)] ELSE evtchn
  /\ UNCHANGED <<nr_ports, pending, irqVars, domVars, refs, evtchn_lock>>

close_last_port(c) ==
  LET o == op[c] IN
  /\ o.pc = "loop" /\ ~port_is_valid(o.d1, o.port1)
  /\ op' = [op EXCEPT ![c] = IF o.caller = "destroy"
                             THEN Goto(@, "free_buckets") ELSE Idle]
  /\ UNCHANGED <<chanVars, irqVars, domVars, refs, evtchn_lock>>

free_buckets(c) ==
  LET d == op[c].d1 IN
  /\ op[c].pc = "free_buckets" /\ Unlocked(d)
  /\ evtchn' = [evtchn EXCEPT ![d] = [p \in Port |-> Blank]]
  /\ nr_ports' = [nr_ports EXCEPT ![d] = 0]
  /\ op' = [op EXCEPT ![c] = Idle]
  /\ UNCHANGED <<pending, irqVars, domVars, refs, evtchn_lock>>

\* The rest of domain_kill(): resources are gone, the initial reference is put.
domain_dead(d) ==
  /\ is_dying[d] = "dying"
  /\ \A c \in Cpu : ~(op[c].caller = "destroy" /\ op[c].d1 = d)
  /\ is_dying' = [is_dying EXCEPT ![d] = "dead"]
  /\ refs' = [refs EXCEPT ![d] = @ \ {"self"}]
  /\ UNCHANGED <<chanVars, irqVars, xen_port, evtchn_lock, op>>

-----------------------------------------------------------------------------
Bind ==
  \/ \E cur, d, rdom \in Dom : evtchn_alloc_unbound(cur, d, rdom)
  \/ \E c \in Cpu, ld, rd \in Dom, p \in Port : evtchn_bind_interdomain(c, ld, rd, p)
  \/ \E c \in Cpu : bind_interdomain_second(c)
  \/ \E d \in Dom, v \in Vcpu, q \in Virq : evtchn_bind_virq(d, v, q)
  \/ \E d \in Dom, v \in Vcpu : evtchn_bind_ipi(d, v)
  \/ \E d \in Dom, p \in Port, v \in Vcpu : evtchn_bind_vcpu(d, p, v)
  \/ \E c \in Cpu, d \in Dom, q \in Pirq : evtchn_bind_pirq(c, d, q)
  \/ \E c \in Cpu, q \in Pirq : pirq_guest_bind(c, q)
  \/ \E c \in Cpu, q \in Pirq : pirq_guest_bind_fail(c, q)
  \/ \E c \in Cpu, q \in Pirq : bind_pirq_finish(c, q)

Close ==
  \/ \E c \in Cpu, d \in Dom, p \in Port : evtchn_close(c, d, p)
  \/ \E c \in Cpu : close_error(c)
  \/ \E c \in Cpu : close_unbound_ipi(c)
  \/ \E c \in Cpu : close_pirq(c)
  \/ \E c \in Cpu : close_virq(c)
  \/ \E c \in Cpu : close_virq_barrier(c)
  \/ \E c \in Cpu : close_interdomain(c)
  \/ \E c \in Cpu : close_get_domain(c)
  \/ \E c \in Cpu : close_lock_d2(c)
  \/ \E c \in Cpu : close_again(c)

Signal ==
  \/ \E c \in Cpu, cur \in Dom \cup {NULL}, ld \in Dom, p \in Port : evtchn_send(c, cur, ld, p)
  \/ \E c \in Cpu, ld \in Dom, v \in Vcpu : notify_via_xen_event_channel(c, ld, v)
  \/ \E c \in Cpu : send_remote(c)
  \/ \E ld \in Dom, p \in Port : evtchn_send_ipi(ld, p)
  \/ \E d \in Dom, v \in Vcpu, q \in Virq : send_guest_virq(d, v, q)
  \/ \E d \in Dom, v \in Vcpu : send_virq_finish(d, v)
  \/ \E d \in Dom, q \in Pirq : send_guest_pirq(d, q)
  \/ \E d \in Dom, p \in Port : guest_clear_pending(d, p)

Lifecycle ==
  \/ \E d \in Dom, v \in Vcpu : hvm_vcpu_initialise(d, v)
  \/ \E c \in Cpu, cur, d \in Dom, v \in Vcpu : hvm_set_dm_domain(c, cur, d, v)
  \/ \E c \in Cpu : free_xen_event_channel(c)
  \/ \E c \in Cpu, cur, d \in Dom : evtchn_reset(c, cur, d)
  \/ \E c \in Cpu, cur, d \in Dom : domain_kill(c, cur, d)
  \/ \E c \in Cpu : evtchn_destroy(c)
  \/ \E c \in Cpu : close_next_port(c)
  \/ \E c \in Cpu : close_last_port(c)
  \/ \E c \in Cpu : free_buckets(c)
  \/ \E d \in Dom : domain_dead(d)

Next == Bind \/ Close \/ Signal \/ Lifecycle

Spec == Init /\ [][Next]_vars

-----------------------------------------------------------------------------
(* Properties.                                                             *)

IsPair(d, p, rd, rp) ==
  /\ evtchn[d][p].state = "INTERDOMAIN"
  /\ evtchn[d][p].rdom = rd
  /\ evtchn[d][p].rport = rp

\* Interdomain channels come in pairs: the remote end named by an ECS_INTERDOMAIN
\* channel is itself ECS_INTERDOMAIN and names this end.  The BUG_ON()s on chn2 in
\* __evtchn_close() test part of it.
PeerSymmetry ==
  \A d \in Dom, p \in Port :
    LET chn == evtchn[d][p] IN
    chn.state = "INTERDOMAIN" =>
      /\ chn.rdom \in Dom /\ chn.rport \in Port
      /\ IsPair(chn.rdom, chn.rport, d, p)

\* While evtchn_send() or notify_via_xen_event_channel() holds only the lock of
\* the local domain, the remote channel whose port and bucket it dereferences
\* stays connected to the local one.
SendPeerStable ==
  \A c \in Cpu : op[c].pc = "send" =>
    /\ IsPair(op[c].d1, op[c].port1, op[c].d2, op[c].port2)
    /\ IsPair(op[c].d2, op[c].port2, op[c].d1, op[c].port1)
    /\ port_is_valid(op[c].d2, op[c].port2)

\* While __evtchn_close() waits for the lock of d2 with that of d1 held, the
\* channel it has looked at is still connected to d2, so that none of the
\* BUG_ON()s that follow can fire.
ClosePeerStable ==
  \A c \in Cpu : op[c].pc = "lock2" =>
    LET chn == Chn1(c) IN
    /\ chn.state = "INTERDOMAIN" /\ chn.rdom = op[c].d2
    /\ port_is_valid(op[c].d2, chn.rport)
    /\ IsPair(op[c].d2, chn.rport, op[c].d1, op[c].port1)

\* A domain that is the remote end of a channel still has a reference, so that
\* get_domain(d2) in __evtchn_close() cannot fail and reach BUG(); and a domain
\* whose lock a close holds, or waits for with d1 unlocked, has one too.
PeerReferenced ==
  /\ \A d \in Dom, p \in Port :
       evtchn[d][p].state = "INTERDOMAIN" => "self" \in refs[evtchn[d][p].rdom]
  /\ \A c \in Cpu : op[c].pc \in {"lock2", "backoff", "again"} => c \in refs[op[c].d2]

\* The locks CPU c holds and the one it is waiting for.
Waiting(c) ==
  LET o == op[c] IN
  CASE o.pc \in {"close", "again", "xen_free", "destroy", "free_buckets"} -> {o.d1}
    [] o.pc \in {"lock2", "backoff"} -> {o.d2}
    [] o.pc = "bind" /\ o.d1 # o.d2  -> {IF o.d1 < o.d2 THEN o.d2 ELSE o.d1}
    [] OTHER -> {}

\* A CPU that waits for an evtchn_lock holds only locks of domains at lower
\* addresses: bind and close, in whichever direction, cannot deadlock.
LockOrder ==
  \A c \in Cpu, held \in Dom : evtchn_lock[held] = c =>
    \A wanted \in Waiting(c) : held < wanted

\* A port is FREE with its pending bit set only while bind_pirq() is attaching it
\* to an interrupt that already arrives: a port is never handed out with a stale
\* event ("Clear pending event to avoid unexpected behavior on re-bind").
NoStalePending ==
  \A d \in Dom : \A p \in pending[d] :
    evtchn[d][p].state = "FREE" =>
      \E c \in Cpu : op[c].pc = "pirq_bound" /\ op[c].d1 = d /\ op[c].port1 = p

\* virq_to_evtchn[] and the VIRQ channels describe each other, so that each VIRQ
\* port is in one vCPU's table; a channel being closed has left the table. An IRQ
\* that can be delivered to a domain has a port: ASSERT(port != 0) in
\* send_guest_pirq(), which "should not be possible to race with __evtchn_close()".
IrqTables ==
  \A d \in Dom :
    /\ \A v \in Vcpu, q \in Virq :
         LET p == virq_to_evtchn[d][v][q] IN
         p # 0 => /\ evtchn[d][p].state = "VIRQ" /\ evtchn[d][p].irq = q
                  /\ VirqHome(evtchn[d][p]) = v
    /\ \A p \in Port : evtchn[d][p].state = "VIRQ" =>
         \/ virq_to_evtchn[d][VirqHome(evtchn[d][p])][evtchn[d][p].irq] = p
         \/ \E c \in Cpu : op[c].pc = "virq_barrier" /\ op[c].d1 = d /\ op[c].port1 = p
    /\ \A q \in irq_guest[d] :
         pirq_to_evtchn[d][q] # 0 /\ port_is_valid(d, pirq_to_evtchn[d][q])

\* A VIRQ sender signals, and looks up the vCPU of, a channel that is still bound
\* to a VIRQ and still allocated, although it holds no evtchn_lock.
VirqSendStable ==
  \A d \in Dom, v \in Vcpu :
    LET p == virq_lock[d][v] IN
    p # 0 => evtchn[d][p].state = "VIRQ" /\ port_is_valid(d, p)

\* The ioreq port of a live domain is Xen-attached: ASSERT(lchn->consumer_is_xen)
\* in notify_via_xen_event_channel(), BUG_ON(!chn->consumer_is_xen) in
\* free_xen_event_channel().
XenPortAttached ==
  /\ \A d \in Dom, v \in Vcpu :
       is_dying[d] = "alive" /\ xen_port[d][v] # 0 => evtchn[d][xen_port[d][v]].xen
  /\ \A c \in Cpu : op[c].pc = "xen_free" /\ is_dying[op[c].d1] = "alive" =>
       evtchn[op[c].d1][op[c].port1].xen

\* "Guest cannot close a Xen-attached event channel": no close frees a channel
\* that is Xen-attached, not even one re-allocated to Xen while the close had
\* dropped the lock.
XenChannelKept ==
  [][\A d \in Dom, p \in Port :
       evtchn[d][p].xen => evtchn'[d][p].state # "FREE" \/ is_dying[d] # "alive"]_vars

\* When evtchn_destroy() frees the buckets every channel in them has been closed,
\* and once they are gone nobody refers to the domain: no port of it, no peer, no
\* interrupt table entry.
DestroyedIsClean ==
  /\ \A c \in Cpu : op[c].pc = "free_buckets" =>
       \A p \in Port : evtchn[op[c].d1][p].state \in {"FREE", "RESERVED"}
  /\ \A d \in Dom : nr_ports[d] = 0 =>
       /\ irq_guest[d] = {}
       /\ \A v \in Vcpu, q \in Virq : virq_to_evtchn[d][v][q] = 0
       /\ \A e \in Dom, p \in Port :
            evtchn[e][p].state = "INTERDOMAIN" => evtchn[e][p].rdom # d

=============================================================================
