----------------------------- MODULE VcpuSched ------------------------------
(***************************************************************************)
(* How vCPUs are put to sleep, woken, moved between CPUs and switched:      *)
(* xen/common/schedule.c with the credit scheduler's run queues and the     *)
(* lazy context switch of x86.                                             *)
(*                                                                         *)
(* A step is one hold of a schedule lock, or one access to what no lock     *)
(* protects: the pause flags and counts, is_running, and the registers      *)
(* that a CPU still holds of a vCPU it has switched away from.             *)
(***************************************************************************)
EXTENDS Naturals, FiniteSets

CONSTANTS Cpu,          \* physical CPUs, all online
          Vcpu,         \* vCPUs of guests
          Dom0,         \* the vCPU that issues domctls; domctl_lock admits one at a time
          Idle,         \* the idle vCPU of a CPU
          NoCpu,        \* no CPU
          Affinities    \* the affinities that domctls ask for

ASSUME SchedConstants ==
  /\ IsFiniteSet(Cpu) /\ Dom0 \in Vcpu /\ Idle \notin Vcpu /\ NoCpu \notin Cpu
  /\ Affinities \subseteq (SUBSET Cpu) \ {{}}

VARIABLES
  curr,             \* schedule_data.curr of a CPU
  runq,             \* the vCPUs queued on a CPU; priorities are abstracted, so the order is too
  softirq,          \* SCHEDULE_SOFTIRQ is pending
  curr_vcpu,        \* the vCPU whose registers a CPU holds
  processor, is_running, runstate, cpu_affinity, affinity_locked,
  pause_flags,      \* _VPF_blocked, _VPF_down, _VPF_migrating
  pause_count,
  paused,           \* is_paused_by_controller
  continue_info,    \* the hypercall to be continued: on which CPU, and the affinity to restore
  op,               \* what a CPU executes
  marked_early      \* history: the vCPUs that were marked for migration while Requeued

cpuVars == <<curr, runq, softirq>>
moveVars == <<cpu_affinity, affinity_locked, continue_info>>
pauseVars == <<pause_flags, pause_count, paused>>
vars == <<cpuVars, curr_vcpu, processor, is_running, runstate, moveVars, pauseVars, op, marked_early>>

-----------------------------------------------------------------------------
(* The frame of a CPU: its place, the vCPU it works on, the CPU whose lock  *)
(* it is about to take (or that it waits for), an affinity, and what is to  *)
(* follow.                                                                 *)

Frame(pc, v, cpu, mask, then) == [pc |-> pc, v |-> v, cpu |-> cpu, mask |-> mask, then |-> then]
Guest == Frame("guest", Idle, NoCpu, {}, "guest")

\* vcpu_schedule_lock(): the processor is read, its lock taken, and the processor read again.
Locking(pc, v, mask, then) == Frame(pc, v, processor[v], mask, then)
Unlocked(c) == op[c].pc # "runstate"
LockFree(c) == Unlocked(op[c].cpu)
LockRight(c) == processor[op[c].v] = op[c].cpu
Retry(c) ==
  /\ op[c].pc \in {"sleep", "wake", "migrate", "affinity", "resched"}
  /\ LockFree(c) /\ ~LockRight(c)
  /\ op' = [op EXCEPT ![c].cpu = processor[op[c].v]]
  /\ UNCHANGED <<cpuVars, curr_vcpu, processor, is_running, runstate, moveVars, pauseVars, marked_early>>
Locked(c, pc) == op[c].pc = pc /\ LockFree(c) /\ LockRight(c)

Goto(c, frame) == op' = [op EXCEPT ![c] = frame]

vcpu_runnable(v) == pause_flags[v] = {} /\ pause_count[v] = 0
OnRunq(v) == \E c \in Cpu : v \in runq[c]
dirty_cpumask(v) == {c \in Cpu : curr_vcpu[c] = v}

\* current: set_current() comes late in context_switch().
BeforeSwitch(c) == op[c].pc \in {"runstate", "switch", "load"} \/ op[c].then = "load"
Current(c) == IF BeforeSwitch(c) THEN op[c].v ELSE curr[c]

\* v has been queued again although the CPU that ran it is not through with context_saved().
SwitchesOut(c, v) ==
  op[c].v = v /\ (BeforeSwitch(c) \/ op[c].pc \in {"saved", "test"} \/ (op[c].pc = "migrate" /\ op[c].then = "tail"))
Requeued(v) == OnRunq(v) /\ \E c \in Cpu : SwitchesOut(c, v)

\* schedule_tail(): a continued hypercall, or the guest.
Tail(v) ==
  IF v # Idle /\ continue_info[v].cpu # NoCpu THEN Frame("helper", v, NoCpu, {}, "guest") ELSE Guest
Return(c) == IF op[c].then = "tail" THEN Tail(curr[c]) ELSE Guest

NoInfo == [cpu |-> NoCpu, mask |-> {}]

\* Domain 0 has been started on one CPU; the others are created paused.
Init ==
  \E c0 \in Cpu :
    /\ curr = [c \in Cpu |-> Idle] /\ curr_vcpu = [c \in Cpu |-> Idle]
    /\ runq = [c \in Cpu |-> IF c = c0 THEN {Dom0} ELSE {}]
    /\ softirq = [c \in Cpu |-> c = c0]
    /\ processor = [v \in Vcpu |-> c0]
    /\ is_running = [v \in Vcpu |-> FALSE]
    /\ runstate = [v \in Vcpu |-> IF v = Dom0 THEN "runnable" ELSE "offline"]
    /\ cpu_affinity = [v \in Vcpu |-> Cpu]
    /\ affinity_locked = [v \in Vcpu |-> FALSE]
    /\ continue_info = [v \in Vcpu |-> NoInfo]
    /\ pause_flags = [v \in Vcpu |-> {}]
    /\ pause_count = [v \in Vcpu |-> IF v = Dom0 THEN 0 ELSE 1]
    /\ paused = [v \in Vcpu |-> v # Dom0]
    /\ op = [c \in Cpu |-> Guest]
    /\ marked_early = {}

-----------------------------------------------------------------------------
(* Sleeping and waking: the bodies under the schedule lock.                *)

\* Variant: the CPU that runs the vCPU is not told.
csched_vcpu_sleep_untold(v) ==
  /\ runq' = IF curr[processor[v]] = v THEN runq ELSE [c \in Cpu |-> runq[c] \ {v}]
  /\ UNCHANGED softirq

\* csched_vcpu_sleep()
csched_vcpu_sleep(v) ==
  IF curr[processor[v]] = v
  THEN softirq' = [softirq EXCEPT ![processor[v]] = TRUE] /\ UNCHANGED runq
  ELSE runq' = [c \in Cpu |-> runq[c] \ {v}] /\ UNCHANGED softirq

\* What follows vcpu_sleep_nosync() in its callers.
AfterSleep(c) ==
  CASE op[c].then = "sync" -> [op[c] EXCEPT !.pc = "sync"]
    [] op[c].then = "migrate" -> [op[c] EXCEPT !.pc = "migrate", !.cpu = processor[op[c].v], !.then = "guest"]
    [] OTHER -> Return(c)

vcpu_sleep_nosync(c) ==
  LET v == op[c].v IN
  /\ Locked(c, "sleep")
  /\ IF vcpu_runnable(v)
     THEN UNCHANGED <<runq, softirq, runstate>>
     ELSE /\ runstate' = [runstate EXCEPT ![v] = IF @ = "runnable" THEN "offline" ELSE @]
          /\ csched_vcpu_sleep(v)
  /\ Goto(c, AfterSleep(c))
  /\ UNCHANGED <<curr, curr_vcpu, processor, is_running, moveVars, pauseVars, marked_early>>

\* csched_vcpu_wake() with __runq_insert() and __runq_tickle(). An idle CPU is always told;
\* another one looks at its queue when its s_timer expires.
csched_vcpu_wake(v) ==
  LET cpu == processor[v] IN
  IF curr[cpu] = v \/ OnRunq(v)
  THEN UNCHANGED <<runq, softirq>>
  ELSE /\ runq' = [runq EXCEPT ![cpu] = @ \cup {v}]
       /\ softirq' = [softirq EXCEPT ![cpu] = @ \/ curr[cpu] = Idle]

vcpu_wake(c) ==
  LET v == op[c].v IN
  /\ Locked(c, "wake")
  /\ IF vcpu_runnable(v)
     THEN /\ runstate' = [runstate EXCEPT ![v] = IF @ \in {"blocked", "offline"} THEN "runnable" ELSE @]
          /\ csched_vcpu_wake(v)
     ELSE /\ runstate' = [runstate EXCEPT ![v] =
                IF @ = "blocked" /\ "blocked" \notin pause_flags[v] THEN "offline" ELSE @]
          /\ UNCHANGED <<runq, softirq>>
  /\ Goto(c, Return(c))
  /\ UNCHANGED <<curr, curr_vcpu, processor, is_running, moveVars, pauseVars, marked_early>>

-----------------------------------------------------------------------------
(* Moving.                                                                 *)

\* Variants: a running vCPU is moved; a moved vCPU is not woken.
vcpu_migrate_running(c) ==
  LET v == op[c].v IN
  /\ Locked(c, "migrate")
  /\ pause_flags' = [pause_flags EXCEPT ![v] = @ \ {"migrating"}]
  /\ \E cpu \in cpu_affinity[v] :
       /\ processor' = [processor EXCEPT ![v] = cpu]
       /\ Goto(c, [op[c] EXCEPT !.pc = "wake", !.cpu = cpu])
  /\ UNCHANGED <<cpuVars, curr_vcpu, is_running, runstate, moveVars, pause_count, paused, marked_early>>
vcpu_migrate_asleep(c) ==
  LET v == op[c].v IN
  /\ Locked(c, "migrate")
  /\ pause_flags' = [pause_flags EXCEPT ![v] = IF is_running[v] THEN @ ELSE @ \ {"migrating"}]
  /\ \E cpu \in cpu_affinity[v] :
       processor' = [processor EXCEPT ![v] = IF is_running[v] THEN @ ELSE cpu]
  /\ Goto(c, Return(c))
  /\ UNCHANGED <<cpuVars, curr_vcpu, is_running, runstate, moveVars, pause_count, paused, marked_early>>

\* vcpu_migrate(); csched_cpu_pick() chooses some CPU of the affinity.
vcpu_migrate(c) ==
  LET v == op[c].v IN
  /\ Locked(c, "migrate")
  /\ \/ /\ is_running[v] \/ "migrating" \notin pause_flags[v]
        /\ Goto(c, Return(c))
        /\ UNCHANGED <<processor, pause_flags>>
     \/ /\ ~is_running[v] /\ "migrating" \in pause_flags[v]
        /\ pause_flags' = [pause_flags EXCEPT ![v] = @ \ {"migrating"}]
        /\ \E cpu \in cpu_affinity[v] :
             /\ processor' = [processor EXCEPT ![v] = cpu]
             /\ Goto(c, [op[c] EXCEPT !.pc = "wake", !.cpu = cpu])
  /\ UNCHANGED <<cpuVars, curr_vcpu, is_running, runstate, moveVars, pause_count, paused, marked_early>>

\* The test of _VPF_migrating without the lock.
test_migrating(c) ==
  LET v == op[c].v IN
  /\ op[c].pc = "moved"
  /\ Goto(c, IF "migrating" \in pause_flags[v] THEN Locking("sleep", v, {}, "migrate") ELSE Guest)
  /\ UNCHANGED <<cpuVars, curr_vcpu, processor, is_running, runstate, moveVars, pauseVars, marked_early>>

\* vcpu_force_reschedule() up to the test
vcpu_force_reschedule(c) ==
  LET v == op[c].v IN
  /\ Locked(c, "resched")
  /\ pause_flags' = [pause_flags EXCEPT ![v] = IF is_running[v] THEN @ \cup {"migrating"} ELSE @]
  /\ Goto(c, [op[c] EXCEPT !.pc = "moved"])
  /\ UNCHANGED <<cpuVars, curr_vcpu, processor, is_running, runstate, moveVars, pause_count, paused, marked_early>>

\* Variant: a vCPU outside its new affinity is not marked.
__vcpu_set_affinity_unmarked(c) ==
  LET v == op[c].v
      kind == op[c].then IN
  /\ Locked(c, "affinity")
  /\ affinity_locked' = [affinity_locked EXCEPT ![v] = kind = "lock"]
  /\ cpu_affinity' = [cpu_affinity EXCEPT ![v] = op[c].mask]
  /\ continue_info' = IF kind = "lock" THEN [continue_info EXCEPT ![v].mask = cpu_affinity[v]]
                                       ELSE continue_info
  /\ Goto(c, Frame("moved", v, NoCpu, {}, "guest"))
  /\ UNCHANGED <<cpuVars, curr_vcpu, processor, is_running, runstate, pauseVars, marked_early>>

\* __vcpu_set_affinity(): set, lock (the old affinity is kept in continue_info) and unlock
__vcpu_set_affinity(c) ==
  LET v == op[c].v
      kind == op[c].then
      move == op[c].mask IN
  /\ Locked(c, "affinity")
  /\ IF affinity_locked[v] # (kind = "unlock")
     THEN /\ Goto(c, Guest)
          /\ continue_info' = IF kind = "lock" THEN [continue_info EXCEPT ![v] = NoInfo] ELSE continue_info
          /\ UNCHANGED <<cpu_affinity, affinity_locked, pause_flags, marked_early>>
     ELSE /\ affinity_locked' = [affinity_locked EXCEPT ![v] = kind = "lock"]
          /\ cpu_affinity' = [cpu_affinity EXCEPT ![v] = move]
          /\ continue_info' = IF kind = "lock" THEN [continue_info EXCEPT ![v].mask = cpu_affinity[v]]
                                               ELSE continue_info
          /\ pause_flags' = [pause_flags EXCEPT ![v] =
                               IF processor[v] \in move THEN @ ELSE @ \cup {"migrating"}]
          /\ marked_early' = IF processor[v] \notin move /\ Requeued(v) THEN marked_early \cup {v} ELSE marked_early
          /\ Goto(c, Frame("moved", v, NoCpu, {}, "guest"))
  /\ UNCHANGED <<cpuVars, curr_vcpu, processor, is_running, runstate, pause_count, paused>>

-----------------------------------------------------------------------------
(* schedule() and the context switch.                                      *)

\* Variant: work in a peer's switch tail is taken.
csched_schedule_tail(c) ==
  LET prev == curr[c]
      queue == runq[c] \cup (IF prev # Idle /\ vcpu_runnable(prev) THEN {prev} ELSE {})
      Run(next, rq, proc) ==
        /\ curr' = [curr EXCEPT ![c] = next]
        /\ runq' = rq /\ processor' = proc
        /\ Goto(c, IF next = prev THEN Tail(prev) ELSE Frame("runstate", prev, NoCpu, {}, "tail"))
  IN
  \/ \E next \in queue : Run(next, [runq EXCEPT ![c] = queue \ {next}], processor)
  \/ queue = {} /\ Run(Idle, runq, processor)
  \/ \E peer \in Cpu \ {c} : \E next \in runq[peer] :
       /\ Unlocked(peer) /\ curr[peer] # Idle /\ c \in cpu_affinity[next]
       /\ Run(next, [runq EXCEPT ![c] = queue, ![peer] = @ \ {next}], [processor EXCEPT ![next] = c])

\* do_softirq() calls schedule(), which takes the CPU's own lock and asks csched_schedule().
\* A vCPU of a busy peer is taken if the peer's lock is free.
csched_schedule(c) ==
  LET prev == curr[c]
      queue == runq[c] \cup (IF prev # Idle /\ vcpu_runnable(prev) THEN {prev} ELSE {})
      Run(next, rq, proc) ==
        /\ curr' = [curr EXCEPT ![c] = next]
        /\ runq' = rq /\ processor' = proc
        /\ Goto(c, IF next = prev THEN Tail(prev) ELSE Frame("runstate", prev, NoCpu, {}, "tail"))
  IN
  /\ \/ \E next \in queue : Run(next, [runq EXCEPT ![c] = queue \ {next}], processor)
     \/ queue = {} /\ Run(Idle, runq, processor)
     \/ \E peer \in Cpu \ {c} : \E next \in runq[peer] :
          /\ Unlocked(peer) /\ curr[peer] # Idle
          /\ ~is_running[next] /\ c \in cpu_affinity[next]
          /\ Run(next, [runq EXCEPT ![c] = queue, ![peer] = @ \ {next}], [processor EXCEPT ![next] = c])

schedule(c) ==
  /\ op[c].pc = "guest" /\ softirq[c]
  /\ softirq' = [softirq EXCEPT ![c] = FALSE]
  /\ csched_schedule(c)
  /\ UNCHANGED <<curr_vcpu, is_running, runstate, moveVars, pauseVars, marked_early>>

\* The rest of schedule() under the lock; the flags are read again.
DescheduledState(v) ==
  IF "blocked" \in pause_flags[v] THEN "blocked" ELSE IF vcpu_runnable(v) THEN "runnable" ELSE "offline"

vcpu_runstate_change(c) ==
  LET prev == op[c].v
      next == curr[c] IN
  /\ op[c].pc = "runstate"
  /\ runstate' = [v \in Vcpu |-> IF v = prev THEN DescheduledState(v)
                                 ELSE IF v = next THEN "running" ELSE runstate[v]]
  /\ is_running' = [v \in Vcpu |-> v = next \/ is_running[v]]
  /\ Goto(c, [op[c] EXCEPT !.pc = "switch"])
  /\ UNCHANGED <<cpuVars, curr_vcpu, processor, moveVars, pauseVars, marked_early>>

\* set_current() and __context_switch(), which is left out for the idle vCPU
SetCurrent(c) ==
  /\ curr_vcpu' = [curr_vcpu EXCEPT ![c] = IF curr[c] = Idle THEN @ ELSE curr[c]]
  /\ Goto(c, [op[c] EXCEPT !.pc = "saved", !.cpu = NoCpu, !.then = "tail"])

\* Variant: the other CPU is not asked.
context_switch_unasked(c) ==
  /\ op[c].pc = "switch"
  /\ SetCurrent(c)
  /\ UNCHANGED <<cpuVars, processor, is_running, runstate, moveVars, pauseVars, marked_early>>

\* context_switch(): another CPU may hold the registers of next; it is asked to save them.
context_switch(c) ==
  LET dirty_mask == dirty_cpumask(curr[c]) IN
  /\ op[c].pc = "switch"
  /\ IF curr[c] # Idle /\ c \notin dirty_mask /\ dirty_mask # {}
     THEN \E e \in dirty_mask : Goto(c, [op[c] EXCEPT !.pc = "flush", !.cpu = e, !.then = "load"])
          /\ UNCHANGED curr_vcpu
     ELSE SetCurrent(c)
  /\ UNCHANGED <<cpuVars, processor, is_running, runstate, moveVars, pauseVars, marked_early>>

load(c) ==
  /\ op[c].pc = "load"
  /\ SetCurrent(c)
  /\ UNCHANGED <<cpuVars, processor, is_running, runstate, moveVars, pauseVars, marked_early>>

\* context_saved()
context_saved(c) ==
  LET prev == op[c].v IN
  /\ op[c].pc = "saved"
  /\ is_running' = [v \in Vcpu |-> v # prev /\ is_running[v]]
  /\ Goto(c, IF prev = Idle THEN Return(c) ELSE [op[c] EXCEPT !.pc = "test"])
  /\ UNCHANGED <<cpuVars, curr_vcpu, processor, runstate, moveVars, pauseVars, marked_early>>

\* The test of _VPF_migrating. Variant: it is left out.
context_saved_untested(c) ==
  /\ op[c].pc = "test"
  /\ Goto(c, Return(c))
  /\ UNCHANGED <<cpuVars, curr_vcpu, processor, is_running, runstate, moveVars, pauseVars, marked_early>>
context_saved_test(c) ==
  LET prev == op[c].v IN
  /\ op[c].pc = "test"
  /\ Goto(c, IF "migrating" \in pause_flags[prev] THEN Locking("migrate", prev, {}, "tail") ELSE Return(c))
  /\ UNCHANGED <<cpuVars, curr_vcpu, processor, is_running, runstate, moveVars, pauseVars, marked_early>>

\* domain_pause_by_systemcontroller() after vcpu_sleep_sync()
PauseDone(c) ==
  LET v == op[c].v IN
  /\ paused' = [paused EXCEPT ![v] = TRUE]
  /\ pause_count' = [pause_count EXCEPT ![v] = IF paused[v] THEN @ - 1 ELSE @]
  /\ Goto(c, Guest)

\* smp_invalidate_interrupt() with __sync_lazy_execstate() on CPU e, for CPU c that waits in
\* flush_area_mask(). Interrupts are off under a schedule lock.
smp_invalidate_interrupt(e, c) ==
  /\ op[c].pc = "flush" /\ op[c].cpu = e /\ Unlocked(e)
  /\ curr_vcpu' = [curr_vcpu EXCEPT ![e] = Current(e)]
  /\ IF op[c].then = "load"
     THEN Goto(c, [op[c] EXCEPT !.pc = "load"]) /\ UNCHANGED <<pause_count, paused>>
     ELSE PauseDone(c)
  /\ UNCHANGED <<cpuVars, processor, is_running, runstate, moveVars, pause_flags, marked_early>>

-----------------------------------------------------------------------------
(* Hypercalls of the vCPU that runs on c, timers and events.               *)

\* A pending softirq is handled on the way back to the guest.
InGuest(c, v) == op[c].pc = "guest" /\ curr[c] = v /\ v # Idle /\ ~softirq[c]

\* domain_pause_by_systemcontroller() up to vcpu_sleep_sync()
domain_pause(c, v) ==
  /\ InGuest(c, Dom0) /\ v # Dom0
  /\ pause_count' = [pause_count EXCEPT ![v] = @ + 1]
  /\ Goto(c, Locking("sleep", v, {}, "sync"))
  /\ UNCHANGED <<cpuVars, curr_vcpu, processor, is_running, runstate, moveVars, pause_flags, paused, marked_early>>

\* Variant: the registers are left where they are.
vcpu_sleep_sync_lazy(c) ==
  /\ op[c].pc = "sync"
  /\ vcpu_runnable(op[c].v) \/ ~is_running[op[c].v]
  /\ PauseDone(c)
  /\ UNCHANGED <<cpuVars, curr_vcpu, processor, is_running, runstate, moveVars, pause_flags, marked_early>>

\* vcpu_sleep_sync(): wait for the vCPU, then sync_vcpu_execstate()
vcpu_sleep_sync(c) ==
  LET v == op[c].v
      mask == dirty_cpumask(v) \ {c} IN
  /\ op[c].pc = "sync"
  /\ vcpu_runnable(v) \/ ~is_running[v]
  /\ IF mask = {}
     THEN PauseDone(c)
     ELSE /\ \E e \in mask : Goto(c, [op[c] EXCEPT !.pc = "flush", !.cpu = e])
          /\ UNCHANGED <<pause_count, paused>>
  /\ UNCHANGED <<cpuVars, curr_vcpu, processor, is_running, runstate, moveVars, pause_flags, marked_early>>

\* domain_unpause_by_systemcontroller()
domain_unpause(c, v) ==
  /\ InGuest(c, Dom0) /\ v # Dom0 /\ paused[v]
  /\ paused' = [paused EXCEPT ![v] = FALSE]
  /\ pause_count' = [pause_count EXCEPT ![v] = @ - 1]
  /\ Goto(c, IF pause_count[v] = 1 THEN Locking("wake", v, {}, "guest") ELSE Guest)
  /\ UNCHANGED <<cpuVars, curr_vcpu, processor, is_running, runstate, moveVars, pause_flags, marked_early>>

\* XEN_DOMCTL_setvcpuaffinity
vcpu_set_affinity(c, v, mask) ==
  /\ InGuest(c, Dom0)
  /\ Goto(c, Locking("affinity", v, mask, "set"))
  /\ UNCHANGED <<cpuVars, curr_vcpu, processor, is_running, runstate, moveVars, pauseVars, marked_early>>

\* VCPUOP_set_periodic_timer, VCPUOP_stop_periodic_timer
set_periodic_timer(c, v) ==
  /\ InGuest(c, v)
  /\ Goto(c, Locking("resched", v, {}, "guest"))
  /\ UNCHANGED <<cpuVars, curr_vcpu, processor, is_running, runstate, moveVars, pauseVars, marked_early>>

\* continue_hypercall_on_cpu(), of platform operations
continue_hypercall_on_cpu(c, cpu) ==
  LET v == Dom0 IN
  /\ InGuest(c, v) /\ cpu # c
  /\ continue_info' = [continue_info EXCEPT ![v] = [cpu |-> cpu, mask |-> {cpu}]]
  /\ Goto(c, Locking("affinity", v, {cpu}, "lock"))
  /\ UNCHANGED <<cpuVars, curr_vcpu, processor, is_running, runstate, cpu_affinity, affinity_locked, pauseVars, marked_early>>

\* continue_hypercall_on_cpu_helper(): the function runs here, then the affinity is restored.
continue_hypercall_on_cpu_helper(c) ==
  LET v == op[c].v IN
  /\ op[c].pc = "helper"
  /\ continue_info' = [continue_info EXCEPT ![v] = NoInfo]
  /\ Goto(c, Locking("affinity", v, continue_info[v].mask, "unlock"))
  /\ UNCHANGED <<cpuVars, curr_vcpu, processor, is_running, runstate, cpu_affinity, affinity_locked, pauseVars, marked_early>>

\* do_block() that finds no event
do_block(c, v) ==
  /\ InGuest(c, v)
  /\ pause_flags' = [pause_flags EXCEPT ![v] = @ \cup {"blocked"}]
  /\ softirq' = [softirq EXCEPT ![c] = TRUE]
  /\ UNCHANGED <<curr, runq, curr_vcpu, processor, is_running, runstate, moveVars, pause_count, paused, op, marked_early>>

\* vcpu_unblock() from an interrupt, a timer or a guest that sends an event
vcpu_unblock(c, v) ==
  /\ op[c].pc = "guest" /\ "blocked" \in pause_flags[v]
  /\ pause_flags' = [pause_flags EXCEPT ![v] = @ \ {"blocked"}]
  /\ Goto(c, Locking("wake", v, {}, "guest"))
  /\ UNCHANGED <<cpuVars, curr_vcpu, processor, is_running, runstate, moveVars, pause_count, paused, marked_early>>

\* s_timer_fn()
s_timer_fn(c) ==
  /\ op[c].pc = "guest" /\ ~softirq[c]
  /\ softirq' = [softirq EXCEPT ![c] = TRUE]
  /\ UNCHANGED <<curr, runq, curr_vcpu, processor, is_running, runstate, moveVars, pauseVars, op, marked_early>>

\* csched_tick(): csched_vcpu_acct() finds a better CPU for the running vCPU
csched_tick(c) ==
  LET v == curr[c] IN
  /\ op[c].pc = "guest" /\ v # Idle /\ cpu_affinity[v] # {c}
  /\ pause_flags' = [pause_flags EXCEPT ![v] = @ \cup {"migrating"}]
  /\ softirq' = [softirq EXCEPT ![c] = TRUE]
  /\ UNCHANGED <<curr, runq, curr_vcpu, processor, is_running, runstate, moveVars, pause_count, paused, op, marked_early>>

-----------------------------------------------------------------------------

\* What a CPU does on its own once it has begun.
Continue(c) ==
  \/ vcpu_sleep_nosync(c) \/ vcpu_wake(c) \/ vcpu_migrate(c)
  \/ test_migrating(c) \/ vcpu_force_reschedule(c) \/ __vcpu_set_affinity(c)
  \/ schedule(c) \/ vcpu_runstate_change(c) \/ context_switch(c) \/ load(c)
  \/ context_saved(c) \/ context_saved_test(c)
  \/ vcpu_sleep_sync(c) \/ continue_hypercall_on_cpu_helper(c)

Next ==
  \/ \E c \in Cpu : Continue(c)
  \/ \E c \in Cpu : Retry(c)
  \/ \E e, c \in Cpu : smp_invalidate_interrupt(e, c)
  \/ \E c \in Cpu, v \in Vcpu : domain_pause(c, v)
  \/ \E c \in Cpu, v \in Vcpu : domain_unpause(c, v)
  \/ \E c \in Cpu, v \in Vcpu, mask \in Affinities : vcpu_set_affinity(c, v, mask)
  \/ \E c \in Cpu, v \in Vcpu : set_periodic_timer(c, v)
  \/ \E c, cpu \in Cpu : continue_hypercall_on_cpu(c, cpu)
  \/ \E c \in Cpu, v \in Vcpu : do_block(c, v)
  \/ \E c \in Cpu, v \in Vcpu : vcpu_unblock(c, v)
  \/ \E c \in Cpu : s_timer_fn(c)
  \/ \E c \in Cpu : csched_tick(c)

Spec == Init /\ [][Next]_vars

\* A CPU goes on with what it has begun: it gets a lock that is free, and still the right one,
\* again and again, and interrupts do not keep it from its pending softirq for ever. An IPI stays
\* pending while interrupts are off, and is delivered when they are on. Nothing is assumed of
\* guests, domctls, events and timers.
FairSpec ==
  /\ Spec
  /\ \A c \in Cpu : /\ SF_vars(Continue(c) \/ \E e \in Cpu : smp_invalidate_interrupt(e, c))
                    /\ SF_vars(schedule(c)) /\ WF_vars(Retry(c))

-----------------------------------------------------------------------------
(* Properties.                                                             *)

Place == {"guest", "sleep", "wake", "migrate", "affinity", "resched", "moved", "sync", "flush",
          "runstate", "switch", "load", "saved", "test", "helper"}
Then == {"guest", "tail", "sync", "migrate", "set", "lock", "unlock", "load"}

\* The variables have their types.
TypeOK ==
  /\ curr \in [Cpu -> Vcpu \cup {Idle}] /\ curr_vcpu \in [Cpu -> Vcpu \cup {Idle}]
  /\ runq \in [Cpu -> SUBSET Vcpu] /\ softirq \in [Cpu -> BOOLEAN]
  /\ processor \in [Vcpu -> Cpu] /\ is_running \in [Vcpu -> BOOLEAN]
  /\ runstate \in [Vcpu -> {"running", "runnable", "blocked", "offline"}]
  /\ cpu_affinity \in [Vcpu -> (SUBSET Cpu) \ {{}}]
  /\ affinity_locked \in [Vcpu -> BOOLEAN]
  /\ continue_info \in [Vcpu -> [cpu : Cpu \cup {NoCpu}, mask : SUBSET Cpu]]
  /\ pause_flags \in [Vcpu -> SUBSET {"blocked", "migrating"}]
  /\ pause_count \in [Vcpu -> 0..2] /\ paused \in [Vcpu -> BOOLEAN]
  /\ op \in [Cpu -> [pc : Place, v : Vcpu \cup {Idle}, cpu : Cpu \cup {NoCpu},
                     mask : SUBSET Cpu, then : Then]]
  /\ marked_early \subseteq Vcpu

\* The condition of the properties. context_saved() clears is_running and then moves the vCPU if
\* it is marked for migration. It expects the mark to be older: a vCPU that has been queued again
\* meanwhile, and is marked by a domctl then, is moved while it is queued.
MarkedInTime == marked_early = {}

\* As long as no domctl marks a vCPU that is queued again before context_saved() is through with it:
\* a queued vCPU is in one queue, that of its processor, whose lock is the one that
\* __runq_insert(), csched_vcpu_sleep() and csched_runq_steal() hold, and it is not the current vCPU
\* of that CPU (BUG_ON()s of __runq_insert()). A vCPU that a CPU runs, or is about to run, has that
\* CPU as its processor, so that its lock and the softirq that csched_vcpu_sleep() raises reach it
\* (ASSERT() of csched_vcpu_acct(), BUG_ON() of csched_load_balance()).
ProcessorOwns ==
  /\ TypeOK
  /\ MarkedInTime =>
       /\ \A c \in Cpu : \A v \in runq[c] : processor[v] = c /\ curr[c] # v
       /\ \A c \in Cpu : curr[c] # Idle => processor[curr[c]] = c

\* A tick finds that the current vCPU has the CPU as its processor: csched_vcpu_acct() has
\* ASSERT( current->processor == cpu ). It fails without MarkedInTime.
AcctAssert ==
  \A c \in Cpu : op[c].pc = "guest" /\ curr[c] # Idle => processor[curr[c]] = c

\* The CPUs that execute a vCPU or have not finished saving it.
Executes(c, v) == Current(c) = v \/ (op[c].pc = "saved" /\ op[c].v = v)

\* As long as vCPUs are marked in time: no vCPU is executed by two CPUs, from the moment one
\* selects it until the other has saved it, and while one executes it no other holds its registers.
\* At most one CPU holds registers of a vCPU, and a CPU that holds others than those of its current
\* vCPU is idle (ASSERT()s of context_switch() and __sync_lazy_execstate()).
OneCpu ==
  MarkedInTime =>
    /\ \A v \in Vcpu : \A c, e \in Cpu : c # e /\ Executes(c, v) =>
         ~Executes(e, v) /\ curr_vcpu[e] # v
    /\ \A c \in Cpu :
         /\ curr_vcpu[c] # Current(c) => Current(c) = Idle
         /\ \A e \in Cpu \ {c} : curr_vcpu[c] = curr_vcpu[e] => curr_vcpu[c] = Idle

\* As long as vCPUs are marked in time: when vcpu_pause() has returned, and until the pause is
\* undone, the vCPU is not running, is not queued, and no CPU holds its registers: its caller may
\* read and change its state.
PausedIsStill ==
  MarkedInTime =>
    \A v \in Vcpu : paused[v] =>
      /\ ~is_running[v] /\ ~OnRunq(v)
      /\ \A c \in Cpu : curr[c] # v /\ curr_vcpu[c] # v

\* A CPU is on the way to wake or to move v.
Handles(c, v) == op[c].v = v /\ op[c].pc \in {"wake", "migrate"}

\* As long as vCPUs are marked in time, a vCPU that may run does (vcpu_wake(), schedule()): it
\* is current or queued somewhere, or a CPU is about to queue it.
NoLostVcpu ==
  MarkedInTime =>
    \A v \in Vcpu : vcpu_runnable(v) =>
      OnRunq(v) \/ (\E c \in Cpu : curr[c] = v \/ Handles(c, v))

\* As long as vCPUs are marked in time: a vCPU runs outside its affinity only while it is
\* marked for migration (__vcpu_set_affinity()), and a hypercall continued with
\* continue_hypercall_on_cpu() runs on the CPU it named.
AffinityHonoured ==
  MarkedInTime =>
    \A c \in Cpu :
      /\ curr[c] # Idle => c \in cpu_affinity[curr[c]] \/ "migrating" \in pause_flags[curr[c]]
      /\ op[c].pc = "helper" => continue_info[op[c].v].cpu = c

\* As long as vCPUs are marked in time: when schedule() leaves prev for next, prev is accounted
\* as running and next is neither accounted as running nor still being saved by another CPU (its
\* three ASSERT()s).
SwitchAsserts ==
  MarkedInTime =>
    \A c \in Cpu : op[c].pc = "runstate" =>
      /\ op[c].v # Idle => runstate[op[c].v] = "running"
      /\ curr[c] # Idle => runstate[curr[c]] # "running" /\ ~is_running[curr[c]]

\* vcpu_sleep_sync() returns, unless a vCPU is marked too early: the vCPU it waits for is
\* descheduled by its CPU, and the CPU that still holds its registers answers the flush.
PauseReturns ==
  LET Waiting(c) == op[c].pc \in {"sync", "flush"} /\ op[c].then = "sync"
  IN (\E c \in Cpu : Waiting(c)) ~> ((\A c \in Cpu : ~Waiting(c)) \/ ~MarkedInTime)

\* A vCPU marked for migration is moved, whoever marked it (vcpu_migrate()), unless a vCPU
\* is marked too early.
MigrationHappens ==
  \A v \in Vcpu :
    "migrating" \in pause_flags[v] ~> ("migrating" \notin pause_flags[v] \/ ~MarkedInTime)

=============================================================================
