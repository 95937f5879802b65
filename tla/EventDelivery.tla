--------------------------- MODULE EventDelivery ---------------------------
(***************************************************************************)
(* How a pending event reaches a vCPU that runs, blocks or polls, in one   *)
(* paravirtual domain: evtchn_set_pending() and evtchn_unmask() of Xen     *)
(* against do_block(), do_poll() and the poll timer, and against the event *)
(* upcall of the guest (Mini-OS).  No lock is held in common: the parties  *)
(* meet only in the bits they set and test, so each access is one step.    *)
(*                                                                         *)
(* The plain stores of do_poll() may become visible after its later loads, *)
(* as x86 allows, for the polls in StoreBuffers; all other stores here     *)
(* are followed by a locked instruction before the next load that matters. *)
(***************************************************************************)
EXTENDS Integers, Sequences

CONSTANTS
  Vcpu,          \* vCPUs of the domain, numbered
  Cpu,           \* CPUs that run senders and timers for the domain
  Port,
  Word,          \* words of shared_info.evtchn_pending[]
  WordOf,        \* port / BITS_PER_GUEST_LONG(d)
  Notifies,      \* vCPUs that chn->notify_vcpu_id of a port may name
  StoreBuffers,  \* the polls whose stores may pass later loads
  Uses           \* what the guest does, see GuestUses

\* SCHEDOP_block, SCHEDOP_poll without and with a timeout, event upcalls, masking of ports.
GuestUses == {"block", "poll", "timeout", "upcall", "mask"}

ASSUME DeliveryConstants ==
  /\ Vcpu \subseteq Nat
  /\ Cpu \cap Vcpu = {}
  /\ WordOf \in [Port -> Word]
  /\ Notifies \in [Port -> SUBSET Vcpu]
  /\ StoreBuffers \subseteq {"poll", "timeout"}
  /\ Uses \subseteq GuestUses

Actor == Cpu \cup Vcpu

VARIABLES
  evtchn_pending, evtchn_mask,       \* bits of shared_info, as sets of ports
  pending_sel,                       \* vcpu_info.evtchn_pending_sel, a set of words
  upcall_pending, upcall_mask,       \* flags of vcpu_info
  blocked,                           \* _VPF_blocked in v->pause_flags
  v_polling, d_polling,              \* v->is_polling and d->is_polling
  poll_timer,                        \* v->poll_timer is active
  buffer,                            \* stores of v not yet visible, oldest first
  vcpu,                              \* what each vCPU is doing
  op                                 \* evtchn_set_pending(), unmask or timer in progress

bitVars  == <<evtchn_pending, evtchn_mask, pending_sel>>
upVars   == <<upcall_pending, upcall_mask>>
pollVars == <<v_polling, d_polling, poll_timer, buffer>>
vars     == <<bitVars, upVars, blocked, pollVars, vcpu, op>>

\* left: ports do_poll() has yet to test; polled: all of them; words: l1 of the
\* upcall; saved: upcall_mask to restore after it.
VcpuState ==
  [pc : {"guest", "upcall", "scan", "block", "poll", "test", "wait"},
   polled : SUBSET Port, left : SUBSET Port, timeout : BOOLEAN,
   words : SUBSET Word, saved : BOOLEAN]

Running == [pc |-> "guest", polled |-> {}, left |-> {}, timeout |-> FALSE,
            words |-> {}, saved |-> FALSE]

\* kind: which function; v: the vCPU to notify; scan: vCPUs still to look at;
\* poller: the one found polling.
OpState ==
  [pc : {"idle", "pending", "mask", "sel", "upcall", "kick", "d_polling",
         "clear", "scan", "poller", "unblock"},
   kind : {"none", "set", "unmask", "timer"},
   v : Vcpu, port : Port, scan : SUBSET Vcpu, poller : Vcpu]

Vcpu0 == CHOOSE v \in Vcpu : \A u \in Vcpu : v <= u
Port0 == CHOOSE p \in Port : TRUE

Idle == [pc |-> "idle", kind |-> "none", v |-> Vcpu0, port |-> Port0, scan |-> {},
         poller |-> Vcpu0]

TypeOK ==
  /\ evtchn_pending \subseteq Port /\ evtchn_mask \subseteq Port
  /\ pending_sel \in [Vcpu -> SUBSET Word]
  /\ upcall_pending \in [Vcpu -> BOOLEAN] /\ upcall_mask \in [Vcpu -> BOOLEAN]
  /\ blocked \in [Vcpu -> BOOLEAN]
  /\ v_polling \in [Vcpu -> BOOLEAN] /\ d_polling \in BOOLEAN
  /\ poll_timer \in [Vcpu -> BOOLEAN]
  /\ buffer \in [Vcpu -> {<<>>, <<"domain">>, <<"vcpu", "domain">>}]
  /\ vcpu \in [Vcpu -> VcpuState]
  /\ op \in [Actor -> OpState]

\* The domain has masked its ports (init_events()) and starts with upcalls masked.
Init ==
  /\ evtchn_pending = {} /\ evtchn_mask = Port
  /\ pending_sel = [v \in Vcpu |-> {}]
  /\ upcall_pending = [v \in Vcpu |-> FALSE]
  /\ upcall_mask = [v \in Vcpu |-> TRUE]
  /\ blocked = [v \in Vcpu |-> FALSE]
  /\ v_polling = [v \in Vcpu |-> FALSE] /\ d_polling = FALSE
  /\ poll_timer = [v \in Vcpu |-> FALSE]
  /\ buffer = [v \in Vcpu |-> <<>>]
  /\ vcpu = [v \in Vcpu |-> Running]
  /\ op = [a \in Actor |-> Idle]

-----------------------------------------------------------------------------
(* evtchn_set_pending(), and the part of it that evtchn_unmask() repeats.  *)

Step(a, pc) == op' = [op EXCEPT ![a].pc = pc]

\* vCPU v executes guest code.
InGuest(v) == vcpu[v].pc = "guest" /\ op[v] = Idle

\* test_and_set_bit(port, &evtchn_pending): nothing more to do if it was set.
evtchn_set_pending(c, v, p) ==
  /\ op[c] = Idle /\ v \in Notifies[p] /\ p \notin evtchn_pending
  /\ evtchn_pending' = evtchn_pending \cup {p}
  /\ op' = [op EXCEPT ![c] = [Idle EXCEPT !.pc = "mask", !.kind = "set", !.v = v, !.port = p]]
  /\ UNCHANGED <<evtchn_mask, pending_sel, upVars, blocked, pollVars, vcpu>>

\* !test_bit(port, &evtchn_mask)
test_mask(a) ==
  /\ op[a].pc = "mask"
  /\ Step(a, IF op[a].port \in evtchn_mask THEN "d_polling" ELSE "sel")
  /\ UNCHANGED <<bitVars, upVars, blocked, pollVars, vcpu>>

\* evtchn_unmask() called by vCPU u for a port that notifies v, or the guest's own
\* unmask_evtchn(), which notifies the vCPU it runs on and does not test the old mask.
evtchn_unmask(u, v, p) ==
  /\ InGuest(u) /\ "mask" \in Uses
  /\ (p \in evtchn_mask /\ v \in Notifies[p]) \/ v = u
  /\ evtchn_mask' = evtchn_mask \ {p}
  /\ op' = [op EXCEPT ![u] = [Idle EXCEPT !.pc = "pending", !.kind = "unmask", !.v = v, !.port = p]]
  /\ UNCHANGED <<evtchn_pending, pending_sel, upVars, blocked, pollVars, vcpu>>

\* Variant: an event that arrived while the port was masked is forgotten.
test_pending_edge(a) ==
  /\ op[a].pc = "pending"
  /\ op' = [op EXCEPT ![a] = Idle]
  /\ UNCHANGED <<bitVars, upVars, blocked, pollVars, vcpu>>

\* test_bit(port, &evtchn_pending)
test_pending(a) ==
  /\ op[a].pc = "pending"
  /\ \/ op[a].port \in evtchn_pending /\ Step(a, "sel")
     \/ op[a].port \notin evtchn_pending /\ op' = [op EXCEPT ![a] = Idle]
  /\ UNCHANGED <<bitVars, upVars, blocked, pollVars, vcpu>>

\* Back from the `if' of evtchn_set_pending(), or out of evtchn_unmask().
AfterMark(a) ==
  IF op[a].kind = "set" THEN [op[a] EXCEPT !.pc = "d_polling"] ELSE Idle

\* test_and_set_bit(port / BITS_PER_GUEST_LONG(d), &evtchn_pending_sel)
set_pending_sel(a) ==
  LET v == op[a].v
      w == WordOf[op[a].port]
  IN
  /\ op[a].pc = "sel"
  /\ op' = [op EXCEPT ![a] = IF w \in pending_sel[v] THEN AfterMark(a) ELSE [@ EXCEPT !.pc = "upcall"]]
  /\ pending_sel' = [pending_sel EXCEPT ![v] = @ \cup {w}]
  /\ UNCHANGED <<evtchn_pending, evtchn_mask, upVars, blocked, pollVars, vcpu>>

vcpu_mark_events_pending(a) ==
  LET v == op[a].v IN
  /\ op[a].pc = "upcall"
  /\ op' = [op EXCEPT ![a] = IF upcall_pending[v] THEN AfterMark(a) ELSE [@ EXCEPT !.pc = "kick"]]
  /\ upcall_pending' = [upcall_pending EXCEPT ![v] = TRUE]
  /\ UNCHANGED <<bitVars, upcall_mask, blocked, pollVars, vcpu>>

\* vcpu_kick() unblocks v; the interrupt that it sends to a running v only makes
\* v look at upcall_pending again.
vcpu_kick(a) ==
  /\ op[a].pc = "kick"
  /\ blocked' = [blocked EXCEPT ![op[a].v] = FALSE]
  /\ op' = [op EXCEPT ![a] = AfterMark(a)]
  /\ UNCHANGED <<bitVars, upVars, pollVars, vcpu>>

test_d_polling(a) ==
  /\ op[a].pc = "d_polling"
  /\ \/ d_polling /\ Step(a, "clear")
     \/ ~d_polling /\ op' = [op EXCEPT ![a] = Idle]
  /\ UNCHANGED <<bitVars, upVars, blocked, pollVars, vcpu>>

\* d->is_polling = 0; smp_mb();
clear_d_polling(a) ==
  /\ op[a].pc = "clear"
  /\ d_polling' = FALSE
  /\ op' = [op EXCEPT ![a].pc = "scan", ![a].scan = Vcpu]
  /\ UNCHANGED <<bitVars, upVars, blocked, v_polling, poll_timer, buffer, vcpu>>

\* The next vCPU of for_each_vcpu(): is it polling?
scan_vcpu(a) ==
  /\ op[a].pc = "scan"
  /\ \/ /\ op[a].scan = {}
        /\ op' = [op EXCEPT ![a] = Idle]
     \/ \E v \in op[a].scan :
          /\ \A u \in op[a].scan : v <= u
          /\ op' = [op EXCEPT ![a] = IF v_polling[v]
                THEN [@ EXCEPT !.scan = @ \ {v}, !.pc = "poller", !.poller = v]
                ELSE [@ EXCEPT !.scan = @ \ {v}]]
  /\ UNCHANGED <<bitVars, upVars, blocked, pollVars, vcpu>>

\* v->is_polling = 0
clear_v_polling(a) ==
  /\ op[a].pc = "poller"
  /\ v_polling' = [v_polling EXCEPT ![op[a].poller] = FALSE]
  /\ Step(a, "unblock")
  /\ UNCHANGED <<bitVars, upVars, blocked, d_polling, poll_timer, buffer, vcpu>>

vcpu_unblock(a) ==
  /\ op[a].pc = "unblock"
  /\ blocked' = [blocked EXCEPT ![op[a].poller] = FALSE]
  /\ op' = [op EXCEPT ![a] = IF op[a].kind = "timer" THEN Idle
                                 ELSE [@ EXCEPT !.pc = "scan", !.poller = Vcpu0]]
  /\ UNCHANGED <<bitVars, upVars, pollVars, vcpu>>

\* The timer of a poll expires, whether or not that poll is still going on.
poll_timer_fn(c, v) ==
  /\ op[c] = Idle /\ poll_timer[v]
  /\ poll_timer' = [poll_timer EXCEPT ![v] = FALSE]
  /\ op' = IF v_polling[v]
           THEN [op EXCEPT ![c] = [Idle EXCEPT !.pc = "poller", !.kind = "timer", !.poller = v]]
           ELSE op
  /\ UNCHANGED <<bitVars, upVars, blocked, v_polling, d_polling, buffer, vcpu>>

-----------------------------------------------------------------------------
(* do_block() and do_poll().                                               *)

\* Delivery is enabled and the vCPU marked blocked, then it looks for events.
do_block(v) ==
  /\ InGuest(v) /\ "block" \in Uses
  /\ upcall_mask' = [upcall_mask EXCEPT ![v] = FALSE]
  /\ blocked' = [blocked EXCEPT ![v] = TRUE]
  /\ vcpu' = [vcpu EXCEPT ![v] = [Running EXCEPT !.pc = "block"]]
  /\ UNCHANGED <<bitVars, upcall_pending, pollVars, op>>

local_events_need_delivery(v) == upcall_pending[v] /\ ~upcall_mask[v]

\* Variant: no second look for events.
block_check_none(v) ==
  /\ vcpu[v].pc = "block"
  /\ vcpu' = [vcpu EXCEPT ![v].pc = "wait"]
  /\ UNCHANGED <<bitVars, upVars, blocked, pollVars, op>>

block_check(v) ==
  /\ vcpu[v].pc = "block"
  /\ \/ /\ local_events_need_delivery(v)
        /\ blocked' = [blocked EXCEPT ![v] = FALSE]
        /\ vcpu' = [vcpu EXCEPT ![v] = Running]
     \/ /\ ~local_events_need_delivery(v)
        /\ vcpu' = [vcpu EXCEPT ![v].pc = "wait"]
        /\ UNCHANGED blocked
  /\ UNCHANGED <<bitVars, upVars, pollVars, op>>

PollKind(timeout) == IF timeout THEN "timeout" ELSE "poll"

\* The flags are set, or on their way to memory.
do_poll(v, ports, timeout) ==
  /\ InGuest(v) /\ PollKind(timeout) \in Uses
  /\ blocked' = [blocked EXCEPT ![v] = TRUE]
  /\ vcpu' = [vcpu EXCEPT ![v] = [Running EXCEPT !.pc = "poll", !.polled = ports,
                                                 !.left = ports, !.timeout = timeout]]
  /\ IF PollKind(timeout) \in StoreBuffers
     THEN /\ buffer' = [buffer EXCEPT ![v] = <<"vcpu", "domain">>]
          /\ UNCHANGED <<v_polling, d_polling>>
     ELSE /\ v_polling' = [v_polling EXCEPT ![v] = TRUE]
          /\ d_polling' = TRUE
          /\ UNCHANGED buffer
  /\ UNCHANGED <<bitVars, upVars, poll_timer, op>>

\* The oldest store in the buffer of v becomes visible.
drain(v) ==
  /\ buffer[v] # <<>>
  /\ buffer' = [buffer EXCEPT ![v] = Tail(@)]
  /\ \/ /\ Head(buffer[v]) = "vcpu"
        /\ v_polling' = [v_polling EXCEPT ![v] = TRUE]
        /\ UNCHANGED d_polling
     \/ /\ Head(buffer[v]) = "domain"
        /\ d_polling' = TRUE
        /\ UNCHANGED v_polling
  /\ UNCHANGED <<bitVars, upVars, blocked, poll_timer, vcpu, op>>

\* Variant: the flag of the domain is cleared too.
PollOut_domain(v) ==
  /\ buffer[v] = <<>>
  /\ v_polling' = [v_polling EXCEPT ![v] = FALSE]
  /\ d_polling' = FALSE
  /\ blocked' = [blocked EXCEPT ![v] = FALSE]
  /\ vcpu' = [vcpu EXCEPT ![v] = Running]
  /\ UNCHANGED <<poll_timer, buffer>>

\* out: the locked clear_bit() makes earlier stores visible first.
PollOut(v) ==
  /\ buffer[v] = <<>>
  /\ v_polling' = [v_polling EXCEPT ![v] = FALSE]
  /\ blocked' = [blocked EXCEPT ![v] = FALSE]
  /\ vcpu' = [vcpu EXCEPT ![v] = Running]
  /\ UNCHANGED <<d_polling, poll_timer, buffer>>

poll_events(v) ==
  /\ vcpu[v].pc = "poll"
  /\ \/ local_events_need_delivery(v) /\ PollOut(v)
     \/ /\ ~local_events_need_delivery(v)
        /\ vcpu' = [vcpu EXCEPT ![v].pc = "test"]
        /\ UNCHANGED <<blocked, pollVars>>
  /\ UNCHANGED <<bitVars, upVars, op>>

\* Variant: the timer is not set.
poll_ports_notimer(v) ==
  /\ vcpu[v].pc = "test"
  /\ \/ \E p \in vcpu[v].left :
          \/ p \in evtchn_pending /\ PollOut(v)
          \/ /\ p \notin evtchn_pending
             /\ vcpu' = [vcpu EXCEPT ![v].left = @ \ {p}]
             /\ UNCHANGED <<blocked, pollVars>>
     \/ /\ vcpu[v].left = {} /\ buffer[v] = <<>>
        /\ vcpu' = [vcpu EXCEPT ![v].pc = "wait"]
        /\ UNCHANGED <<blocked, pollVars>>
  /\ UNCHANGED <<bitVars, upVars, op>>

\* One turn of the loop over the ports, then set_timer() and SCHEDULE_SOFTIRQ.
poll_ports(v) ==
  /\ vcpu[v].pc = "test"
  /\ \/ \E p \in vcpu[v].left :
          \/ p \in evtchn_pending /\ PollOut(v)
          \/ /\ p \notin evtchn_pending
             /\ vcpu' = [vcpu EXCEPT ![v].left = @ \ {p}]
             /\ UNCHANGED <<blocked, pollVars>>
     \/ /\ vcpu[v].left = {} /\ buffer[v] = <<>>
        /\ vcpu' = [vcpu EXCEPT ![v].pc = "wait"]
        /\ poll_timer' = [poll_timer EXCEPT ![v] = @ \/ vcpu[v].timeout]
        /\ UNCHANGED <<blocked, v_polling, d_polling, buffer>>
  /\ UNCHANGED <<bitVars, upVars, op>>

\* The vCPU is scheduled again and returns to the guest.
resume(v) ==
  /\ vcpu[v].pc = "wait" /\ ~blocked[v]
  /\ vcpu' = [vcpu EXCEPT ![v] = Running]
  /\ UNCHANGED <<bitVars, upVars, blocked, pollVars, op>>

-----------------------------------------------------------------------------
(* The guest.                                                              *)

\* local_irq_disable(), local_irq_enable()
set_upcall_mask(v) ==
  /\ InGuest(v) /\ "upcall" \in Uses
  /\ upcall_mask' = [upcall_mask EXCEPT ![v] = ~@]
  /\ UNCHANGED <<bitVars, upcall_pending, blocked, pollVars, vcpu, op>>

mask_evtchn(v, p) ==
  /\ InGuest(v) /\ "mask" \in Uses /\ p \notin evtchn_mask
  /\ evtchn_mask' = evtchn_mask \cup {p}
  /\ UNCHANGED <<evtchn_pending, pending_sel, upVars, blocked, pollVars, vcpu, op>>

\* A guest that polls clears the events it polled for.
clear_evtchn(v, p) ==
  /\ InGuest(v) /\ Uses \cap {"poll", "timeout"} # {} /\ p \in evtchn_pending
  /\ evtchn_pending' = evtchn_pending \ {p}
  /\ UNCHANGED <<evtchn_mask, pending_sel, upVars, blocked, pollVars, vcpu, op>>

\* do_hypervisor_callback(), entered from Xen when delivery is enabled or by
\* force_evtchn_callback(): clear the master flag before taking the selector.
do_hypervisor_callback(v) ==
  /\ InGuest(v) /\ "upcall" \in Uses /\ upcall_pending[v]
  /\ upcall_pending' = [upcall_pending EXCEPT ![v] = FALSE]
  /\ upcall_mask' = [upcall_mask EXCEPT ![v] = TRUE]
  /\ vcpu' = [vcpu EXCEPT ![v] = [Running EXCEPT !.pc = "upcall", !.saved = upcall_mask[v]]]
  /\ UNCHANGED <<bitVars, blocked, pollVars, op>>

\* l1 = xchg(&vcpu_info->evtchn_pending_sel, 0)
take_pending_sel(v) ==
  /\ vcpu[v].pc = "upcall"
  /\ vcpu' = [vcpu EXCEPT ![v].pc = "scan", ![v].words = pending_sel[v]]
  /\ pending_sel' = [pending_sel EXCEPT ![v] = {}]
  /\ UNCHANGED <<evtchn_pending, evtchn_mask, upVars, blocked, pollVars, op>>

active_evtchns(w) == {p \in evtchn_pending \ evtchn_mask : WordOf[p] = w}

\* The events of a selected word are handled until none is active in it.
scan_word(v, w) ==
  /\ vcpu[v].pc = "scan" /\ w \in vcpu[v].words
  /\ \/ \E p \in active_evtchns(w) :
          /\ evtchn_pending' = evtchn_pending \ {p}
          /\ UNCHANGED vcpu
     \/ /\ active_evtchns(w) = {}
        /\ vcpu' = [vcpu EXCEPT ![v].words = @ \ {w}]
        /\ UNCHANGED evtchn_pending
  /\ UNCHANGED <<evtchn_mask, pending_sel, upVars, blocked, pollVars, op>>

callback_return(v) ==
  /\ vcpu[v].pc = "scan" /\ vcpu[v].words = {}
  /\ upcall_mask' = [upcall_mask EXCEPT ![v] = vcpu[v].saved]
  /\ vcpu' = [vcpu EXCEPT ![v] = Running]
  /\ UNCHANGED <<bitVars, upcall_pending, blocked, pollVars, op>>

-----------------------------------------------------------------------------
Signal(a) ==
  \/ test_mask(a) \/ test_pending(a) \/ set_pending_sel(a)
  \/ vcpu_mark_events_pending(a) \/ vcpu_kick(a)
  \/ test_d_polling(a) \/ clear_d_polling(a) \/ scan_vcpu(a)
  \/ clear_v_polling(a) \/ vcpu_unblock(a)

Sleep(v) ==
  \/ block_check(v) \/ drain(v) \/ poll_events(v) \/ poll_ports(v) \/ resume(v)

Upcall(v) ==
  \/ take_pending_sel(v) \/ callback_return(v)
  \/ \E w \in Word : scan_word(v, w)

Next ==
  \/ \E c \in Cpu, v \in Vcpu, p \in Port : evtchn_set_pending(c, v, p)
  \/ \E u, v \in Vcpu, p \in Port : evtchn_unmask(u, v, p)
  \/ \E a \in Actor : Signal(a)
  \/ \E c \in Cpu, v \in Vcpu : poll_timer_fn(c, v)
  \/ \E v \in Vcpu : do_block(v)
  \/ \E v \in Vcpu, ports \in SUBSET Port, timeout \in BOOLEAN : do_poll(v, ports, timeout)
  \/ \E v \in Vcpu : Sleep(v)
  \/ \E v \in Vcpu : set_upcall_mask(v)
  \/ \E v \in Vcpu, p \in Port : mask_evtchn(v, p)
  \/ \E v \in Vcpu, p \in Port : clear_evtchn(v, p)
  \/ \E v \in Vcpu : do_hypervisor_callback(v)
  \/ \E v \in Vcpu : Upcall(v)

\* CPUs in the hypervisor run on; a runnable vCPU is scheduled; timers expire.
Fairness ==
  /\ \A a \in Actor : WF_vars(Signal(a))
  /\ \A v \in Vcpu : WF_vars(Sleep(v)) /\ WF_vars(Upcall(v))
  /\ \A v \in Vcpu : WF_vars(\E c \in Cpu : poll_timer_fn(c, v))

Spec == Init /\ [][Next]_vars

FairSpec == Spec /\ Fairness

-----------------------------------------------------------------------------
Asleep(v) == vcpu[v].pc = "wait" /\ blocked[v]

\* Somebody is about to clear _VPF_blocked of v.
Waking(v) ==
  \E a \in Actor :
    \/ op[a].pc = "kick" /\ op[a].v = v
    \/ op[a].pc \in {"poller", "unblock"} /\ op[a].poller = v
    \/ v_polling[v] /\
         \/ op[a].kind = "set" /\ op[a].pc \in {"mask", "sel", "upcall", "kick", "d_polling"} /\ d_polling
         \/ op[a].pc = "clear"
         \/ op[a].pc \in {"scan", "poller", "unblock"} /\ v \in op[a].scan

\* "Check for events /after/ setting flags: avoids wakeup waiting race" in do_poll():
\* a vCPU sleeps in SCHEDOP_poll on a port that is pending only as long as somebody
\* is on the way to wake it.
NoLostPoll ==
  \A v \in Vcpu : Asleep(v) /\ vcpu[v].polled \cap evtchn_pending # {} => Waking(v)

\* "Check for events /after/ blocking: avoids wakeup waiting race" in do_block(): a
\* vCPU sleeps with an enabled upcall pending only until the sender has kicked it.
NoLostBlock ==
  \A v \in Vcpu : Asleep(v) /\ local_events_need_delivery(v) => Waking(v)

\* An event that is pending and unmasked is on its way to some vCPU: its sender has
\* yet to select its word, or the word is selected and the upcall flagged or being
\* flagged, or the upcall handler is about to look at it.
NoLostEvent ==
  /\ TypeOK
  /\ \A p \in evtchn_pending \ evtchn_mask :
       \/ \E a \in Actor : op[a].port = p /\ op[a].pc \in {"mask", "pending", "sel"}
       \/ \E v \in Vcpu :
            \/ vcpu[v].pc = "scan" /\ WordOf[p] \in vcpu[v].words
            \/ /\ WordOf[p] \in pending_sel[v]
               /\ \/ upcall_pending[v] \/ vcpu[v].pc = "upcall"
                  \/ \E a \in Actor : op[a].pc = "upcall" /\ op[a].v = v

\* A poll with a timeout, and one of whose ports some stay pending, return: nobody loses the wake-up
\* of a sender or of poll_timer_fn().
Due(v) == vcpu[v].timeout \/ vcpu[v].polled \cap evtchn_pending # {}
PollReturns == \A v \in Vcpu : Asleep(v) /\ Due(v) ~> vcpu[v].pc # "wait" \/ ~Due(v)

=============================================================================
