------------------------------ MODULE GuestIrq -------------------------------
(***************************************************************************)
(* Physical interrupts bound to guests (xen/arch/x86/irq.c): an interrupt  *)
(* is sent to every domain that shares it, and acknowledged in hardware    *)
(* when the last of them has finished with it.  How depends on the         *)
(* controller: not at all (NONE), by unmasking the line on any CPU         *)
(* (UNMASK), or by an EOI on the CPU that was interrupted (EOI), which     *)
(* keeps a stack of the interrupts it has to EOI in order of priority and  *)
(* is called by inter-processor interrupt.                                 *)
(*                                                                         *)
(* A step is what runs under one hold of desc->lock, with two exceptions   *)
(* that the properties need: "settle" in pirq_guest_unbind() still holds   *)
(* it, and flush_ready_eoi() takes it once per entry.  An irq number and   *)
(* its vector are one: no domain maps them differently.                    *)
(***************************************************************************)
EXTENDS Integers, Sequences, FiniteSets, SequencesExt

CONSTANTS
  Dom, Cpu,
  Vector,          \* numbers; a higher one has a higher priority
  Action,          \* the addresses xmalloc(irq_guest_action_t) can return
  Controllers,     \* the controllers the vectors may be wired to: [Vector -> AckTypes]
  WillShare        \* the values of BIND_PIRQ__WILL_SHARE that domains use for each type

AckTypes == {"NONE", "UNMASK", "EOI"}

ASSUME IrqConstants ==
  /\ Vector \subseteq Nat /\ Controllers \subseteq [Vector -> AckTypes]
  /\ Cardinality(Dom) <= 3
  /\ WillShare \in [AckTypes -> SUBSET BOOLEAN]

VARIABLES
  desc,            \* irq_desc[]: desc->action of a vector, or NULL, and its pirq_acktype()
  disabled,        \* vectors with IRQ_DISABLED
  act,             \* the memory of the actions
  pirq_to_evtchn,  \* <<domain, vector>>: the entry is not 0
  pirq_mask,       \* <<domain, vector>>: the bit is set
  evtchn_pending,  \* <<domain, vector>>: the event of the channel is pending
  pending_eoi,     \* the stack of each CPU
  eoi_timer,       \* vectors whose irq_guest_eoi_timer is set
  running,         \* vectors whose timer some CPU is running (timers.running)
  masked, irr,     \* hardware: masked lines; <<CPU, vector>> accepted by a local APIC
  op,              \* the hypercall each CPU is executing
  irqs,            \* what it executes with interrupts off: flush_ready_eoi(), an IPI
  call,            \* call_data of on_selected_cpus()
  unforeseen       \* history: what has happened that the code does not provide for

guestVars == <<pirq_to_evtchn, pirq_mask, evtchn_pending>>
hwVars == <<masked, irr>>
timerVars == <<eoi_timer, running>>
vars == <<desc, disabled, act, guestVars, pending_eoi, timerVars, hwVars, op, irqs, call, unforeseen>>

NULL == "NULL"
IRQ_MAX_GUESTS == 7
Slot == 0..(IRQ_MAX_GUESTS - 1)

ActionState ==
  [live : BOOLEAN, guest : [Slot -> Dom \cup {NULL}], nr_guests : 0..IRQ_MAX_GUESTS,
   in_flight : 0..255, shareable : BOOLEAN, cpu_eoi_map : SUBSET Cpu]

OpState ==
  [pc : {"idle", "bind", "settle", "unbind_call", "relock", "release_call",
         "reap", "xfree", "eoi", "eoi_flush", "eoi_call"},
   d : Dom \cup {NULL}, vec : Vector \cup {0}, act : Action \cup {NULL}, map : SUBSET Cpu]

Idle == [pc |-> "idle", d |-> NULL, vec |-> 0, act |-> NULL, map |-> {}]

On == [pc |-> "on", vec |-> 0, wait |-> FALSE]
NoCall == [from |-> NULL, vec |-> 0, todo |-> {}, left |-> {}, wait |-> FALSE]

Entry == [vector : Vector, ready : BOOLEAN]

\* "bind": a domain binds an interrupt while a vCPU of it acknowledges the same one and has
\* loaded desc->action.  "unbind": two domains unbind one interrupt at the same time.
\* "gap": a guest leaves the list that has two or more behind it.
Unforeseen == {"bind", "unbind", "gap"}

TypeOK ==
  /\ desc \in [Vector -> [action : Action \cup {NULL}, acktype : AckTypes]] /\ disabled \subseteq Vector
  /\ act \in [Action -> ActionState]
  /\ \A r \in {pirq_to_evtchn, pirq_mask, evtchn_pending} : r \subseteq Dom \X Vector
  /\ DOMAIN pending_eoi = Cpu
  /\ \A c \in Cpu : /\ pending_eoi[c] \in Seq(Entry)
                    /\ Len(pending_eoi[c]) <= Cardinality(Vector)
  /\ eoi_timer \subseteq Vector /\ running \subseteq Vector /\ masked \subseteq Vector /\ irr \subseteq Cpu \X Vector
  /\ op \in [Cpu -> OpState]
  /\ irqs \in [Cpu -> [pc : {"on", "ready", "flush"}, vec : Vector \cup {0}, wait : BOOLEAN]]
  /\ call \in [from : Cpu \cup {NULL}, vec : Vector \cup {0}, todo : SUBSET Cpu,
               left : SUBSET Cpu, wait : BOOLEAN]
  /\ unforeseen \subseteq Unforeseen

\* No interrupt is bound to a guest yet; the lines are masked.
Init ==
  /\ \E controller \in Controllers :
       desc = [v \in Vector |-> [action |-> NULL, acktype |-> controller[v]]]
  /\ disabled = Vector
  /\ act = [a \in Action |->
              [live |-> FALSE, guest |-> [i \in Slot |-> NULL], nr_guests |-> 0,
               in_flight |-> 0, shareable |-> FALSE, cpu_eoi_map |-> {}]]
  /\ pirq_to_evtchn = {} /\ pirq_mask = {} /\ evtchn_pending = {}
  /\ pending_eoi = [c \in Cpu |-> <<>>] /\ eoi_timer = {} /\ running = {}
  /\ masked = Vector /\ irr = {}
  /\ op = [c \in Cpu |-> Idle] /\ irqs = [c \in Cpu |-> On] /\ call = NoCall
  /\ unforeseen = {}

-----------------------------------------------------------------------------
\* desc->lock is free.
Unlocked(v) == \A c \in Cpu : ~(op[c].pc = "settle" /\ op[c].vec = v)

\* The stack of c has an entry for v: its local APIC has v in service.
OnStack(c, v) == \E i \in DOMAIN pending_eoi[c] : pending_eoi[c][i].vector = v

\* evtchn_lock of d is free: it is held through bind and unbind.
EvtchnUnlocked(d) ==
  \A c \in Cpu : op[c].d = d => op[c].pc \in {"idle", "eoi", "eoi_flush", "eoi_call"}

\* A CPU runs its hypercall only with interrupts on.
Running(c, pc) == op[c].pc = pc /\ irqs[c] = On

\* Interrupts reach c: it neither flushes nor holds desc->lock.
IrqsOn(c) == irqs[c] = On /\ op[c].pc # "settle"

\* The places of pirq_guest_unbind().
Unbinding == {"settle", "unbind_call", "relock", "release_call", "reap", "xfree"}

\* A CPU executes a hypercall of d on v, and is at pc.
Overlaps(d, v, pc) == \E c \in Cpu : op[c].pc = pc /\ op[c].d = d /\ op[c].vec = v
UnbindOverlaps(v) == \E c \in Cpu : op[c].vec = v /\ op[c].pc \in Unbinding
When(happens, what) == IF happens THEN {what} ELSE {}

Goto(c, pc) == op' = [op EXCEPT ![c].pc = pc]
Return(c) == op' = [op EXCEPT ![c] = Idle]

-----------------------------------------------------------------------------
(* The interrupt controllers.                                              *)

\* A device raises its line: an unmasked one reaches the local APIC of some CPU.
\* A level-triggered interrupt is not sent again before its EOI.
raise(c, v) ==
  /\ v \notin masked /\ \A e \in Cpu : <<e, v>> \notin irr /\ ~OnStack(e, v)
  /\ irr' = irr \cup {<<c, v>>}
  /\ UNCHANGED <<desc, disabled, act, guestVars, pending_eoi, timerVars, masked, op, irqs, call, unforeseen>>

\* The local APIC interrupts c with v, the highest and higher than what is in service.
Accepted(c, v) ==
  /\ IrqsOn(c) /\ <<c, v>> \in irr /\ Unlocked(v)
  /\ \A w \in Vector : <<c, w>> \in irr => w <= v
  /\ \A i \in DOMAIN pending_eoi[c] : pending_eoi[c][i].vector < v

\* desc->handler->end(): a level line is unmasked again unless disabled.  For an
\* EOI the end is that the entry leaves the stack.
MaskedAfterEnd(v) ==
  IF desc[v].acktype = "UNMASK" /\ v \notin disabled THEN masked \ {v} ELSE masked

-----------------------------------------------------------------------------
(* do_IRQ()                                                                *)

NrGuests(v) == IF desc[v].action = NULL THEN 0 ELSE act[desc[v].action].nr_guests

\* The domains an interrupt is sent to.
Guests(a) == {act[a].guest[i] : i \in 0..(act[a].nr_guests - 1)}

\* __do_IRQ_guest(): mark the interrupt in flight for every guest, and send the
\* event.  If all of them still had an edge-triggered one pending, the line is
\* disabled for a while.
__do_IRQ_guest(c, v) ==
  LET a == desc[v].action
      new == {d \in Guests(a) : <<d, v>> \notin pirq_mask}
      sent == Guests(a) \X {v}
      storm == desc[v].acktype = "NONE" /\ sent \subseteq evtchn_pending
  IN
  /\ Accepted(c, v) /\ NrGuests(v) # 0
  /\ irr' = irr \ {<<c, v>>}
  /\ IF desc[v].acktype = "NONE"
       THEN /\ evtchn_pending' = evtchn_pending \cup sent
            /\ UNCHANGED <<act, pirq_mask>>
       ELSE /\ pirq_mask' = pirq_mask \cup sent
            /\ act' = [act EXCEPT
                 ![a].in_flight = @ + Cardinality(new),
                 ![a].cpu_eoi_map = IF desc[v].acktype = "EOI" THEN @ \cup {c} ELSE @]
            /\ UNCHANGED evtchn_pending
  /\ pending_eoi' = IF desc[v].acktype = "EOI"
                     THEN [pending_eoi EXCEPT ![c] = Append(@, [vector |-> v, ready |-> FALSE])]
                     ELSE pending_eoi
  /\ masked' = IF desc[v].acktype = "UNMASK" \/ storm THEN masked \cup {v} ELSE masked
  /\ eoi_timer' = IF storm THEN eoi_timer \cup {v} ELSE eoi_timer
  /\ UNCHANGED <<desc, disabled, pirq_to_evtchn, running, op, irqs, call, unforeseen>>

\* An interrupt that slips through while its action is released, or after: it is
\* acknowledged and ended, and a level line that is disabled stays masked.
do_IRQ_unbound(c, v) ==
  /\ Accepted(c, v) /\ NrGuests(v) = 0
  /\ irr' = irr \ {<<c, v>>}
  /\ UNCHANGED <<desc, disabled, act, guestVars, pending_eoi, timerVars, masked, op, irqs, call, unforeseen>>

\* timer_softirq_action() on some CPU takes the timer off its heap and calls
\* irq_guest_eoi_timer_fn(), which has to wait for desc->lock.
timer_softirq_action(v) ==
  /\ v \in eoi_timer
  /\ eoi_timer' = eoi_timer \ {v} /\ running' = running \cup {v}
  /\ UNCHANGED <<desc, disabled, act, guestVars, pending_eoi, hwVars, op, irqs, call, unforeseen>>

irq_guest_eoi_timer_fn(v) ==
  /\ v \in running /\ Unlocked(v)
  /\ running' = running \ {v} /\ masked' = masked \ {v}
  /\ UNCHANGED <<desc, disabled, act, guestVars, pending_eoi, eoi_timer, irr, op, irqs, call, unforeseen>>

\* The guest handles the event.
clear_evtchn(d, v) ==
  /\ <<d, v>> \in evtchn_pending
  /\ evtchn_pending' = evtchn_pending \ {<<d, v>>}
  /\ UNCHANGED <<desc, disabled, act, pirq_to_evtchn, pirq_mask, pending_eoi, timerVars,
                 hwVars, op, irqs, call, unforeseen>>

-----------------------------------------------------------------------------
(* The EOI of an interrupt on the CPUs that took it.                       *)

\* __set_eoi_ready(): on this CPU, if it still has to EOI and nothing is in flight.
EoiReady(m, c, v) ==
  /\ desc[v].action # NULL /\ m[desc[v].action].in_flight = 0 /\ c \in m[desc[v].action].cpu_eoi_map

\* Variant: the entry on top is marked, whatever its vector.
MarkReady_top(s, v) == [i \in DOMAIN s |-> IF i = Len(s) THEN [s[i] EXCEPT !.ready = TRUE] ELSE s[i]]

MarkReady(s, v) ==
  [i \in DOMAIN s |-> IF s[i].vector = v THEN [s[i] EXCEPT !.ready = TRUE] ELSE s[i]]

__set_eoi_ready(m, c, v) ==
  IF EoiReady(m, c, v)
    THEN /\ act' = [m EXCEPT ![desc[v].action].cpu_eoi_map = @ \ {c}]
         /\ pending_eoi' = [pending_eoi EXCEPT ![c] = MarkReady(@, v)]
    ELSE act' = m /\ UNCHANGED pending_eoi

\* Variant: it counts as started but never as finished.
smp_call_function_interrupt_started(c) ==
  /\ IrqsOn(c) /\ c \in call.todo
  /\ irqs' = [irqs EXCEPT ![c] = [pc |-> "ready", vec |-> call.vec, wait |-> FALSE]]
  /\ call' = [call EXCEPT !.todo = @ \ {c}]
  /\ UNCHANGED <<desc, disabled, act, guestVars, pending_eoi, timerVars, hwVars, op, unforeseen>>

\* The IPI of on_selected_cpus(): a caller that does not wait goes on once it has
\* been taken everywhere.
smp_call_function_interrupt(c) ==
  /\ IrqsOn(c) /\ c \in call.todo
  /\ irqs' = [irqs EXCEPT ![c] = [pc |-> "ready", vec |-> call.vec, wait |-> call.wait]]
  /\ call' = [call EXCEPT !.todo = @ \ {c}]
  /\ UNCHANGED <<desc, disabled, act, guestVars, pending_eoi, timerVars, hwVars, op, unforeseen>>

set_eoi_ready(c) ==
  /\ irqs[c].pc = "ready" /\ Unlocked(irqs[c].vec)
  /\ __set_eoi_ready(act, c, irqs[c].vec)
  /\ irqs' = [irqs EXCEPT ![c].pc = "flush"]
  /\ UNCHANGED <<desc, disabled, guestVars, timerVars, hwVars, op, call, unforeseen>>

\* Variant: one entry is popped, whatever lies below it.
flush_ready_eoi_one(c) ==
  LET s == pending_eoi[c] IN
  /\ irqs[c].pc = "flush"
  /\ pending_eoi' = IF s # <<>> /\ Last(s).ready
                     THEN [pending_eoi EXCEPT ![c] = Front(s)] ELSE pending_eoi
  /\ irqs' = [irqs EXCEPT ![c] = On]
  /\ call' = IF irqs[c].wait THEN [call EXCEPT !.left = @ \ {c}] ELSE call
  /\ UNCHANGED <<desc, disabled, act, guestVars, timerVars, hwVars, op, unforeseen>>

\* Pop what is ready from the top of the stack; then interrupts are on again.
flush_ready_eoi(c) ==
  LET s == pending_eoi[c] IN
  /\ irqs[c].pc = "flush"
  /\ IF s # <<>> /\ Last(s).ready
       THEN /\ Unlocked(Last(s).vector)
            /\ pending_eoi' = [pending_eoi EXCEPT ![c] = Front(s)]
            /\ UNCHANGED <<irqs, call>>
       ELSE /\ irqs' = [irqs EXCEPT ![c] = On]
            /\ call' = IF irqs[c].wait THEN [call EXCEPT !.left = @ \ {c}] ELSE call
            /\ UNCHANGED pending_eoi
  /\ UNCHANGED <<desc, disabled, act, guestVars, timerVars, hwVars, op, unforeseen>>

\* Variant: the release of an action does not wait for the EOIs either.
on_selected_cpus_nowait(c) ==
  /\ irqs[c] = On /\ op[c].pc \in {"unbind_call", "release_call", "eoi_call"}
  /\ call = NoCall
  /\ call' = [from |-> c, vec |-> op[c].vec, todo |-> op[c].map, left |-> op[c].map,
              wait |-> FALSE]
  /\ UNCHANGED <<desc, disabled, act, guestVars, pending_eoi, timerVars, hwVars, op, irqs, unforeseen>>

\* on_selected_cpus(op[c].map, set_eoi_ready, desc): call_lock lets one call at a time in.
on_selected_cpus(c) ==
  /\ irqs[c] = On /\ op[c].pc \in {"unbind_call", "release_call", "eoi_call"}
  /\ call = NoCall
  /\ call' = [from |-> c, vec |-> op[c].vec, todo |-> op[c].map, left |-> op[c].map,
              wait |-> op[c].pc = "release_call"]
  /\ UNCHANGED <<desc, disabled, act, guestVars, pending_eoi, timerVars, hwVars, op, irqs, unforeseen>>

call_return(c) ==
  /\ irqs[c] = On /\ call.from = c /\ (IF call.wait THEN call.left ELSE call.todo) = {}
  /\ call' = NoCall
  /\ CASE op[c].pc = "unbind_call" -> Goto(c, "relock")
       [] op[c].pc = "release_call" -> Goto(c, "reap")
       [] op[c].pc = "eoi_call" -> Return(c)
  /\ UNCHANGED <<desc, disabled, act, guestVars, pending_eoi, timerVars, hwVars, irqs, unforeseen>>

-----------------------------------------------------------------------------
(* pirq_guest_eoi()                                                        *)

\* if ( test_and_clear_bit(irq, d->pirq_mask) ) --action->in_flight, which is a u8
InFlightAfter(k, a) ==
  IF k \in pirq_mask THEN (act[a].in_flight + 255) % 256 ELSE act[a].in_flight

\* __pirq_guest_eoi() reads desc->action before it takes the lock, for any interrupt.
pirq_guest_eoi(c, d, v) ==
  /\ Running(c, "idle")
  /\ op' = [op EXCEPT ![c] = [Idle EXCEPT !.pc = "eoi", !.d = d, !.vec = v, !.act = desc[v].action]]
  /\ unforeseen' = unforeseen \cup When(Overlaps(d, v, "bind"), "bind")
  /\ UNCHANGED <<desc, disabled, act, guestVars, pending_eoi, timerVars, hwVars, irqs, call>>

\* Then, with the lock: the last acknowledgement ends the interrupt here, or has it
\* ended on the CPUs that took it.  The bit is clear if the interrupt is not in flight or not
\* bound; through an action that was NULL the CPU faults, and goes no further.
__pirq_guest_eoi(c) ==
  LET o == op[c]
      k == <<o.d, o.vec>>
      left == InFlightAfter(k, o.act)
      m == [act EXCEPT ![o.act].in_flight = left]
      map == act[o.act].cpu_eoi_map
  IN
  /\ Running(c, "eoi") /\ Unlocked(o.vec)
  /\ \/ /\ k \notin pirq_mask
        /\ Return(c) /\ UNCHANGED <<act, pirq_mask, pending_eoi, masked, irqs>>
     \/ /\ k \in pirq_mask /\ o.act # NULL
        /\ pirq_mask' = pirq_mask \ {k}
        /\ \/ /\ left # 0
              /\ act' = m /\ Return(c) /\ UNCHANGED <<pending_eoi, masked, irqs>>
           \/ /\ left = 0 /\ desc[o.vec].acktype = "UNMASK"
              /\ masked' = MaskedAfterEnd(o.vec)
              /\ act' = m /\ Return(c) /\ UNCHANGED <<pending_eoi, irqs>>
           \/ /\ left = 0 /\ desc[o.vec].acktype = "EOI" /\ c \in map
              /\ __set_eoi_ready(m, c, o.vec)
              /\ irqs' = [irqs EXCEPT ![c] = [On EXCEPT !.pc = "flush"]]
              /\ op' = [op EXCEPT ![c].pc = "eoi_flush", ![c].map = map \ {c}]
              /\ UNCHANGED masked
           \/ /\ left = 0 /\ desc[o.vec].acktype = "EOI" /\ c \notin map
              /\ act' = m
              /\ op' = [op EXCEPT ![c].pc = "eoi_flush", ![c].map = map]
              /\ UNCHANGED <<pending_eoi, masked, irqs>>
  /\ UNCHANGED <<desc, disabled, pirq_to_evtchn, evtchn_pending, timerVars, irr, call, unforeseen>>

eoi_flushed(c) ==
  /\ Running(c, "eoi_flush")
  /\ IF op[c].map = {} THEN Return(c) ELSE Goto(c, "eoi_call")
  /\ UNCHANGED <<desc, disabled, act, guestVars, pending_eoi, timerVars, hwVars, irqs, call, unforeseen>>

-----------------------------------------------------------------------------
(* evtchn_bind_pirq(), pirq_guest_bind()                                   *)

evtchn_bind_pirq(c, d, v) ==
  /\ Running(c, "idle") /\ EvtchnUnlocked(d) /\ <<d, v>> \notin pirq_to_evtchn
  /\ pirq_to_evtchn' = pirq_to_evtchn \cup {<<d, v>>}
  /\ op' = [op EXCEPT ![c] = [Idle EXCEPT !.pc = "bind", !.d = d, !.vec = v]]
  /\ unforeseen' = unforeseen \cup When(Overlaps(d, v, "eoi"), "bind")
  /\ UNCHANGED <<desc, disabled, act, pirq_mask, evtchn_pending, pending_eoi, timerVars,
                 hwVars, irqs, call>>

\* The first guest: a new action, whose guest[] is not cleared, and an enabled line.
bind_first(c, will_share) ==
  LET v == op[c].vec IN
  /\ Running(c, "bind") /\ Unlocked(v) /\ desc[v].action = NULL
  /\ will_share \in WillShare[desc[v].acktype]
  /\ \E a \in Action :
       /\ ~act[a].live
       /\ desc' = [desc EXCEPT ![v].action = a]
       /\ act' = [act EXCEPT ![a] =
            [live |-> TRUE, guest |-> [@.guest EXCEPT ![0] = op[c].d], nr_guests |-> 1,
             in_flight |-> 0, shareable |-> will_share, cpu_eoi_map |-> {}]]
  /\ disabled' = disabled \ {v} /\ masked' = masked \ {v}
  /\ Return(c)
  /\ UNCHANGED <<guestVars, pending_eoi, timerVars, irr, irqs, call, unforeseen>>

\* Variant: the bind does not wait for a release under way.
bind_shared_released(c) ==
  LET v == op[c].vec
      a == desc[v].action
  IN
  /\ Running(c, "bind") /\ Unlocked(v) /\ a # NULL
  /\ act[a].shareable /\ act[a].nr_guests < IRQ_MAX_GUESTS
  /\ act' = [act EXCEPT ![a].guest[act[a].nr_guests] = op[c].d, ![a].nr_guests = @ + 1]
  /\ Return(c)
  /\ UNCHANGED <<desc, disabled, guestVars, pending_eoi, timerVars, hwVars, irqs, call, unforeseen>>

\* A further guest, unless the action is being released: then the bind tries again.
bind_shared(c) ==
  LET v == op[c].vec
      a == desc[v].action
  IN
  /\ Running(c, "bind") /\ Unlocked(v) /\ a # NULL
  /\ act[a].shareable /\ act[a].nr_guests \in 1..(IRQ_MAX_GUESTS - 1)
  /\ act' = [act EXCEPT ![a].guest[act[a].nr_guests] = op[c].d, ![a].nr_guests = @ + 1]
  /\ Return(c)
  /\ UNCHANGED <<desc, disabled, guestVars, pending_eoi, timerVars, hwVars, irqs, call, unforeseen>>

\* Out of memory, or the interrupt is not shared, or not with so many.
bind_fails(c, will_share) ==
  LET v == op[c].vec
      a == desc[v].action
  IN
  /\ Running(c, "bind") /\ Unlocked(v)
  /\ will_share \in WillShare[desc[v].acktype]
  /\ \/ a = NULL
     \/ a # NULL /\ (~will_share \/ ~act[a].shareable \/ act[a].nr_guests = IRQ_MAX_GUESTS)
  /\ pirq_to_evtchn' = pirq_to_evtchn \ {<<op[c].d, v>>}
  /\ Return(c)
  /\ UNCHANGED <<desc, disabled, act, pirq_mask, evtchn_pending, pending_eoi, timerVars,
                 hwVars, irqs, call, unforeseen>>

-----------------------------------------------------------------------------
(* pirq_guest_unbind(), called when the channel is closed                  *)

\* memmove(&guest[i], &guest[i+1], IRQ_MAX_GUESTS-i-1) moves that many bytes, not
\* entries: for i <= 2 the low bytes of one pointer, in which the addresses of
\* domains differ, and no second one.
MoveDown(g, i) == [g EXCEPT ![i] = g[i + 1]]

\* Variant: no CPU is told to EOI while other guests remain.
UnbindCalls_not(ends, v, nr) == FALSE

\* The CPUs that took the interrupt have to EOI it, and other guests remain.
UnbindCalls(ends, v, nr) == ends /\ desc[v].acktype = "EOI" /\ nr # 0

\* Take the domain off the list.  If it was the last to have the interrupt in
\* flight, the interrupt ends: at once, or on the CPUs that took it, for which
\* the lock is dropped.
pirq_guest_unbind(c, d, v) ==
  LET a == desc[v].action
      k == <<d, v>>
      i == CHOOSE j \in Slot : /\ act[a].guest[j] \in {d, NULL}
                              /\ \A l \in 0..(j - 1) : act[a].guest[l] \notin {d, NULL}
      left == InFlightAfter(k, a)
      ends == k \in pirq_mask /\ left = 0
      ipi == UnbindCalls(ends, v, act[a].nr_guests - 1)
  IN
  /\ Running(c, "idle") /\ EvtchnUnlocked(d) /\ k \in pirq_to_evtchn /\ Unlocked(v)
  /\ act' = [act EXCEPT ![a].guest = MoveDown(@, i), ![a].nr_guests = @ - 1,
                        ![a].in_flight = left]
  /\ pirq_mask' = pirq_mask \ {k}
  /\ masked' = IF ends THEN MaskedAfterEnd(v) ELSE masked
  /\ op' = [op EXCEPT ![c] =
       [pc |-> CASE ~ipi -> "settle"
                 [] ipi /\ act[a].cpu_eoi_map = {} -> "relock"
                 [] OTHER -> "unbind_call",
        d |-> d, vec |-> v, act |-> a, map |-> IF ipi THEN act[a].cpu_eoi_map ELSE {}]]
  /\ unforeseen' = unforeseen \cup When(UnbindOverlaps(v), "unbind")
                             \cup When(i + 2 < act[a].nr_guests, "gap")
  /\ UNCHANGED <<desc, disabled, pirq_to_evtchn, evtchn_pending, pending_eoi, timerVars,
                 irr, irqs, call>>

relock(c) ==
  /\ Running(c, "relock") /\ Unlocked(op[c].vec)
  /\ Goto(c, "settle")
  /\ UNCHANGED <<desc, disabled, act, guestVars, pending_eoi, timerVars, hwVars, irqs, call, unforeseen>>

\* desc->action = NULL, kill_timer(), which waits until the timer is not running
\* anywhere, and desc->handler->shutdown(): all with desc->lock held.
Release(v) ==
  /\ v \notin running
  /\ desc' = [desc EXCEPT ![v].action = NULL] /\ eoi_timer' = eoi_timer \ {v}
  /\ masked' = masked \cup {v}

\* What __evtchn_close() does next: the entry of the table and the pending bit go.
Closed(c) ==
  /\ pirq_to_evtchn' = pirq_to_evtchn \ {<<op[c].d, op[c].vec>>}
  /\ evtchn_pending' = evtchn_pending \ {<<op[c].d, op[c].vec>>}
  /\ Return(c)

\* Others still share the interrupt, or it is disabled and released, after the
\* CPUs that took it have been told to EOI.
settle(c) ==
  LET o == op[c] IN
  /\ o.pc = "settle"
  /\ IF act[o.act].nr_guests # 0
       THEN Closed(c) /\ UNCHANGED <<desc, disabled, eoi_timer, masked>>
       ELSE /\ disabled' = disabled \cup {o.vec}
            /\ IF act[o.act].cpu_eoi_map = {}
                 THEN Release(o.vec) /\ Goto(c, "xfree")
                 ELSE /\ op' = [op EXCEPT ![c].pc = "release_call",
                                          ![c].map = act[o.act].cpu_eoi_map]
                      /\ masked' = masked \cup {o.vec} /\ UNCHANGED <<desc, eoi_timer>>
            /\ UNCHANGED <<pirq_to_evtchn, evtchn_pending>>
  /\ UNCHANGED <<act, pirq_mask, pending_eoi, running, irr, irqs, call, unforeseen>>

reap(c) ==
  /\ Running(c, "reap") /\ Unlocked(op[c].vec)
  /\ Release(op[c].vec) /\ Goto(c, "xfree")
  /\ UNCHANGED <<disabled, act, guestVars, pending_eoi, running, irr, irqs, call, unforeseen>>

\* The action is freed, and its memory keeps its contents until it is used again.
unbind_return(c) ==
  /\ Running(c, "xfree")
  /\ act' = [act EXCEPT ![op[c].act].live = FALSE]
  /\ Closed(c)
  /\ UNCHANGED <<desc, disabled, pirq_mask, pending_eoi, timerVars, hwVars, irqs, call, unforeseen>>

-----------------------------------------------------------------------------
\* What a CPU goes on with that has begun a hypercall, or runs with interrupts off.
Hypercall(c) ==
  \/ call_return(c) \/ __pirq_guest_eoi(c) \/ eoi_flushed(c)
  \/ relock(c) \/ settle(c) \/ reap(c) \/ unbind_return(c)

Interrupted(c) == set_eoi_ready(c) \/ flush_ready_eoi(c)

Next ==
  \/ \E c \in Cpu :
       \/ Hypercall(c) \/ on_selected_cpus(c) \/ Interrupted(c) \/ smp_call_function_interrupt(c)
  \/ \E c \in Cpu, v \in Vector :
       raise(c, v) \/ __do_IRQ_guest(c, v) \/ do_IRQ_unbound(c, v)
  \/ \E c \in Cpu, d \in Dom, v \in Vector :
       pirq_guest_eoi(c, d, v) \/ evtchn_bind_pirq(c, d, v) \/ pirq_guest_unbind(c, d, v)
  \/ \E c \in Cpu, will_share \in BOOLEAN : bind_first(c, will_share) \/ bind_fails(c, will_share)
  \/ \E c \in Cpu : bind_shared(c)
  \/ \E v \in Vector : timer_softirq_action(v) \/ irq_guest_eoi_timer_fn(v)
  \/ \E d \in Dom, v \in Vector : clear_evtchn(d, v)

Spec == Init /\ [][Next]_vars

\* CPUs go on with what they have begun, however often they are interrupted; an IPI is
\* taken in the end, and so are desc->lock and call_lock by one that waits for them.
FairSpec ==
  /\ Spec
  /\ \A c \in Cpu : /\ SF_vars(Hypercall(c) \/ on_selected_cpus(c))
                    /\ SF_vars(Interrupted(c)) /\ SF_vars(smp_call_function_interrupt(c))
  /\ \A v \in Vector : WF_vars(irq_guest_eoi_timer_fn(v))

-----------------------------------------------------------------------------
(* Properties.                                                             *)

\* The condition of the properties: nothing has happened that the code does not provide for.
Foreseen == unforeseen = {}

\* As long as no guest has left the list that had two or more behind it, and no two have left at
\* a time, the list of guests is right, whoever comes and goes (pirq_guest_bind(),
\* pirq_guest_unbind()). A domain that an interrupt is sent to has a channel for it:
\* send_guest_pirq() asserts port != 0, relying on pirq_guest_unbind() to have taken the domain off
\* the list before the channel goes. A domain whose bind has returned is on the list, once, until
\* it unbinds.
GuestsAgree ==
  /\ TypeOK
  /\ Foreseen =>
       /\ \A v \in Vector : desc[v].action # NULL => Guests(desc[v].action) \X {v} \subseteq pirq_to_evtchn
       /\ \A d \in Dom, v \in Vector :
            <<d, v>> \in pirq_to_evtchn
              => \/ \E c \in Cpu : op[c].d = d /\ op[c].vec = v /\ op[c].pc \in Unbinding \cup {"bind"}
                 \/ /\ desc[v].action # NULL
                    /\ Cardinality({i \in 0..(act[desc[v].action].nr_guests - 1) :
                                      act[desc[v].action].guest[i] = d}) = 1

\* in_flight counts the guests whose pirq_mask bit is set, and only guests have it set: the
\* interrupt ends after exactly as many acknowledgements as were asked for.
InFlightCounts ==
  \A v \in Vector :
    LET waiting == {d \in Dom : <<d, v>> \in pirq_mask} IN
    IF desc[v].action = NULL THEN waiting = {}
    ELSE waiting \subseteq Guests(desc[v].action) /\ act[desc[v].action].in_flight = Cardinality(waiting)

\* As long as no bind has overlapped an acknowledgement of the same domain that had loaded
\* desc->action, nor two unbinds, acknowledgements are counted, also one that overlaps an unbind,
\* and the BUG_ON()s of pirq_guest_unbind() hold: the domain's bit stays clear while the lock was
\* dropped, nothing is in flight when the last guest has gone, and no CPU owes an EOI when the
\* action is released.
ReleaseIsSettled ==
  Foreseen =>
    /\ InFlightCounts
    /\ \A c \in Cpu :
         /\ op[c].pc = "settle" =>
              /\ <<op[c].d, op[c].vec>> \notin pirq_mask
              /\ act[op[c].act].nr_guests = 0 => act[op[c].act].in_flight = 0
         /\ op[c].pc = "reap" => act[op[c].act].cpu_eoi_map = {}

\* xfree() is called once for an action: "Not previously freed".
FreedOnce == \A c \in Cpu : op[c].pc = "xfree" => act[op[c].act].live

\* As long as the calls overlap as foreseen, cpu_eoi_map names exactly the CPUs that have an entry
\* for the interrupt which is not ready, and the entries of a stack are in order of priority (the
\* ASSERT()s of __set_eoi_ready() and __do_IRQ_guest()).
EoiMapExact ==
  Foreseen =>
    \A c \in Cpu :
      /\ \A i, j \in DOMAIN pending_eoi[c] :
           i < j => pending_eoi[c][i].vector < pending_eoi[c][j].vector
      /\ \A v \in Vector :
           (\E i \in DOMAIN pending_eoi[c] : pending_eoi[c][i] = [vector |-> v, ready |-> FALSE])
             <=> (desc[v].action # NULL /\ c \in act[desc[v].action].cpu_eoi_map)

\* Somebody is about to mark the entry of v on the stack of c.
EoiComing(c, v) ==
  \/ irqs[c].pc = "ready" /\ irqs[c].vec = v
  \/ call.vec = v /\ c \in call.todo
  \/ \E e \in Cpu :
       /\ op[e].vec = v
       /\ \/ call.from # e /\ c \in op[e].map
             /\ op[e].pc \in {"unbind_call", "release_call", "eoi_flush", "eoi_call"}
          \/ op[e].pc = "settle" /\ act[op[e].act].nr_guests = 0

\* As long as the calls overlap as foreseen, no interrupt is forgotten: when all guests have
\* acknowledged it, the line is open again, or the EOI is done or under way; a line closed against a
\* storm has its timer set. And the line of an interrupt that no guest has is masked, whatever timer
\* was set before (kill_timer() in pirq_guest_unbind()).
NoLostEoi ==
  Foreseen =>
    \A v \in Vector :
      /\ NrGuests(v) # 0 /\ act[desc[v].action].in_flight = 0 =>
           CASE desc[v].acktype = "NONE" -> v \in masked => v \in eoi_timer \cup running
             [] desc[v].acktype = "UNMASK" -> v \notin masked
             [] desc[v].acktype = "EOI" -> \A c \in act[desc[v].action].cpu_eoi_map : EoiComing(c, v)
      /\ desc[v].action = NULL => v \in masked

InFlight == \E v \in Vector : desc[v].action # NULL /\ act[desc[v].action].in_flight # 0

\* Some release holds desc->lock and waits in kill_timer() for the timer function, which waits for
\* the lock.
KillTimerStuck ==
  \E c \in Cpu : op[c].pc = "settle" /\ act[op[c].act].nr_guests = 0 /\ op[c].vec \in running

\* When the guests have acknowledged everything, the stack of every CPU empties, unless a new
\* interrupt comes, the calls overlap in an unforeseen way, or a CPU is stuck in kill_timer(): the
\* EOIs, which wait for each other in order of priority and for IPIs, all happen (flush_ready_eoi()).
EoiDone ==
  ~InFlight ~> \/ \A c \in Cpu : pending_eoi[c] = <<>>
               \/ InFlight \/ ~Foreseen \/ KillTimerStuck

\* pirq_guest_unbind() returns: the CPUs that it waits for do not wait for it, be they in
\* set_eoi_ready() or calling others to end another interrupt. The exceptions are those of EoiDone;
\* a CPU gets stuck in kill_timer() when it releases an edge-triggered interrupt whose throttling
\* timer has just expired.
UnbindReturns ==
  \A c \in Cpu : (op[c].pc \in Unbinding) ~> (op[c].pc = "idle" \/ ~Foreseen \/ KillTimerStuck)

====
