# A verification of Xen 3.3.1's concurrent core

TLA+ models of the parts of Xen in which several CPUs work on shared state without
one lock around everything, and of one service built over shared memory, model-checked
with TLC and, for event channels, RCU and the life of domains, proved with TLAPS. Every
definition is a translation of the source under `src/`; the file `PROJECT.json` says which
lines each one stands for.

## The system and its parts

Xen runs domains (guests) whose virtual CPUs (vCPUs) are scheduled on physical CPUs.
Hypercalls, interrupts, timers and softirqs enter the hypervisor on any CPU at any
time. These are the parts that hold state of their own:

| part | source | state and operations | hard behaviour | module |
|---|---|---|---|---|
| event channels | `xen/common/event_channel.c` | ports of a domain in buckets; alloc, bind (interdomain, VIRQ, IPI, PIRQ), close, send, reset, destroy, Xen-attached ports | two domains' locks in address order; close drops its lock and retries; VIRQ and PIRQ delivery take no `evtchn_lock`; domain death | EventChannel |
| event delivery | `event_channel.c`, `schedule.c`, `arch/x86/domain.c`, guest | pending, mask, selector and upcall bits; block, poll, timeout, kick | lock-free bit protocols; wakeup races; store buffers | EventDelivery |
| guest interrupts | `arch/x86/irq.c` | `irq_guest_action_t`, `pirq_mask`, per-CPU pending-EOI stacks | acknowledgement across CPUs, unbinding with interrupts in flight | GuestIrq |
| vCPU scheduling | `schedule.c`, `sched_credit.c`, `arch/x86/domain.c` | pause flags, runstate, `is_running`, processor; sleep, wake, migrate, schedule, context switch | the lock moves with the vCPU; `is_running` against `_VPF_migrating`; registers left behind on a CPU | VcpuSched |
| RCU | `rcupdate.c` | batches, quiescent states, callbacks | batch numbers read without the lock and wrapping | Rcu |
| domain life | `domain.c`, `domctl.c` | domain list, `refcnt`, `is_dying`, target | readers against destruction | DomainLife |
| I/O rings | `include/public/io/ring.h` | producer/consumer indices, event thresholds | notification hold-off, index wrap | FsRing |
| file system driver | `extras/mini-os/fs-front.c`, `tools/fs-back/` | threads, identifiers, requests, transfers | answers out of order, sleeping and waking | FsRing |
| page references, grant tables | `arch/x86/mm.c`, `grant_table.c` | counts; shared, active and maptrack entries | cmpxchg loops, the granter writes at the same time | none |
| HVM I/O requests | `arch/x86/hvm/` | `ioreq` state, Xen-attached port | handshake with the device model | none |
| timers, softirqs, stop_machine, allocator, range sets | `xen/common/` | heaps and lists per CPU | callbacks against cancel and migration | none |
| paging, HVM devices, VMX/SVM, emulation, IOMMU, drivers, XSM, ia64, most tools | | | hardware, data dependent, or input and output | none |

`PROJECT.json` lists all components with their status, and under `hazards` what can go
wrong where.

How they interact: an event channel connects two ports; `evtchn_send()` finds the peer
and marks its port pending (`evtchn_set_pending()`), which sets the bits a guest sees
and wakes a vCPU that is blocked or polling; interrupts bound to guests come through
`send_guest_pirq()`; killing a domain destroys its channels while others use them, and its
structure is freed by an RCU callback when the last reference is gone. Waking a vCPU queues
it on a CPU, which may still hold another vCPU's registers. A ring needs an event channel to
say that something is in it.

## Modules

| module | models |
|---|---|
| `EventChannel` | `event_channel.c` with the parts of `domain_kill()`, `pirq_guest_bind/unbind()` and HVM port exchange it depends on |
| `MCEventChannel`, two `.cfg` | instances for TLC |
| `EventChannelInv` | the inductive invariant, and that it follows for a step from what the step leaves alone |
| `EventChannelSteps` | the steps of bind, send, VIRQ, PIRQ, destroy |
| `EventChannelCloses` | the steps of close and the Xen-attached ports |
| `EventChannelProofs` | the theorems |
| `EventDelivery` | `evtchn_set_pending()`, `evtchn_unmask()`, `do_block()`, `do_poll()`, `poll_timer_fn()` and a guest |
| `MCEventDelivery`, three `.cfg` | instances for TLC |
| `GuestIrq` | `irq.c`'s interrupts bound to guests, with `on_selected_cpus()` |
| `MCGuestIrq`, three `.cfg` | instances for TLC |
| `VcpuSched` | `schedule.c` over the run queues of `sched_credit.c`, with `context_switch()` and `sync_vcpu_execstate()` |
| `MCVcpuSched`, one `.cfg` | an instance for TLC |
| `GracePeriod` | what RCU promises: the abstract specification |
| `Rcu` | `rcupdate.c` |
| `DomainLife` | the life of `struct domain`, over `Rcu` |
| `MCDomainLife`, one `.cfg` | an instance for TLC |
| `RcuProofs` | the theorems about `Rcu`, among them that it implements `GracePeriod` |
| `DomainLifeInv` | the inductive invariant of `DomainLife`, counting, and the steps that take and drop references |
| `DomainLifeSteps` | the steps of destruction, of the callback and of domctls |
| `DomainLifeProofs` | the theorems about `DomainLife` |
| `FileService` | what a file operation promises its caller: the abstract specification |
| `FsRing` | the file system front end of Mini-OS, its back end, and the ring between them |
| `MCFsRing`, two `.cfg` | instances for TLC |

### EventChannel

*State.* `evtchn[d][p]` is the `struct evtchn` of a port (state, remote domain and
port, vCPU to notify, IRQ number, `consumer_is_xen`), `nr_ports[d]` the number of
ports in allocated buckets, `pending[d]` the ports whose bit is set; `virq_to_evtchn`,
`pirq_to_evtchn` and `irq_guest` are the tables the interrupt paths read, `virq_lock` a
VIRQ sender that has read its table; `xen_port` is the ioreq port of a vCPU; `is_dying`
and `refs` (who holds a reference) belong to the domain; `evtchn_lock[d]` is the holder of
the lock (spin barriers wait for it to be free); `op[c]` is what CPU `c` is executing: a program counter and the local
variables that live across steps. What runs under one lock is one step. Each window in
which the code holds no lock, or reads something the lock does not protect, is a
boundary between steps.

*Actions.* They carry the names of the functions and are grouped as in the file:
allocation and binding; `__evtchn_close()` as the steps up to the lock of the peer,
the retry, and the body; send; the VIRQ and PIRQ paths, which read the table and then
signal; Xen-attached ports; reset, kill and destroy.

*Abstractions.* Ports of one domain are numbers below `MAX_EVTCHNS`; buckets hold
`EVTCHNS_PER_BUCKET` of them. XSM is off (its default), memory allocation may fail.
Copying arguments from and to the guest is left out.

### EventDelivery

*State.* `evtchn_pending` and `evtchn_mask` are the shared bit maps, `pending_sel`,
`upcall_pending`, `upcall_mask` the fields of `vcpu_info`; `blocked` is `_VPF_blocked`;
`v_polling`, `d_polling`, `poll_timer` the polling state. `buffer[v]` holds the stores
of `do_poll()` that other CPUs do not see yet: on x86 a store waits in a buffer while
later loads are done, and an atomic instruction or `mb()` drains it. `StoreBuffers`
says for which polls, those with and those without a timeout, stores may wait like this; for
the others they are visible at once.

*Actions.* One per access to shared memory; only the three flags with which `do_poll()` begins
are set in one step, where they do not wait in a buffer: it has looked at no port yet. `op[a]` is a sender, an unmask or the timer
in progress on actor `a` (a CPU, or a vCPU in a hypercall), `vcpu[v]` where the vCPU is.
The guest side is Mini-OS: `do_hypervisor_callback()` and its helpers. `Uses` chooses
which of the facilities the guest uses, so that an instance can concentrate on one.

### GuestIrq

*State.* `desc[v]` is what `irq_desc[]` has of a vector, `desc->action` and how its controller is
acknowledged, `act[a]` the memory of an action
(`irq_guest_action_t`), which keeps its contents after `xfree()` until it is allocated
again. `pirq_mask`, `pirq_to_evtchn` and `evtchn_pending` are the bits and entries of the
domains, `pending_eoi[c]` the stack of a CPU, `eoi_timer` and `running` the throttling
timers that are set and that are executing. `irr` and `masked` belong to the hardware.
`op[c]` is the hypercall a CPU executes, `irqs[c]` what it does with interrupts off on top
of it, `call` the one `call_data` that `call_lock` protects.

*Actions.* A step is one hold of `desc->lock`. `pirq_guest_unbind()` has four: taking the
domain off the list; settling, which still holds the lock, because the IPIs and the timer
function that wait for the lock matter; the call of other CPUs with the lock dropped; and
the release. `__pirq_guest_eoi()` has a step of its own for the load of `desc->action`
before the lock. `raise` and `Accepted` are the interrupt controllers (external): a line
that is masked or not EOIed sends nothing, and a CPU takes only a higher priority than it
has in service.

*Abstractions.* `Controllers` are the assignments of acknowledgement types to vectors from
which the initial state chooses one; it is what `pirq_acktype()` returns. The pirq of a
domain and its vector are identified.

*Conditions.* Any operations may overlap, and `memmove()` is modelled with the count it has. The
history variable `unforeseen` notes three things that the code does not provide for (Findings):
a domain acknowledges an interrupt while it binds it (`"bind"`), two domains unbind it at the same
time (`"unbind"`), a guest leaves the list that has two or more behind it (`"gap"`). The properties
say what holds as long as none has happened (`Foreseen`). The liveness properties have a second
exception, `KillTimerStuck`: the release of an action waits in `kill_timer()`, with
`desc->lock`, for the timer function that waits for the lock.

### VcpuSched

*State.* Of a CPU: `curr` (`schedule_data.curr`), `runq`, the pending `softirq`, and
`curr_vcpu`, the vCPU whose registers are in the machine. Of a vCPU: `processor`, `is_running`,
`runstate`, `cpu_affinity`, `pause_flags`, `pause_count`, and `continue_info` of a hypercall
that goes on elsewhere. `op[c]` is the frame of a CPU; its field `cpu` is the CPU whose lock
it is about to take, read before the lock and compared after it (`Retry`).

*Actions.* One per hold of a schedule lock, and one per access to what the lock does not
protect. `schedule()` is split in three: the choice and the run state, both under the lock,
because the pause flags change between them, and the switch without it. A switch to the idle
vCPU leaves the registers where they are; `smp_invalidate_interrupt()` saves them later, for
another CPU that needs them or for `vcpu_sleep_sync()`.

*Abstractions.* Credits and priorities are a choice of any queued vCPU. A domain has one vCPU.

*Condition.* `XEN_DOMCTL_setvcpuaffinity` comes at any time. The history variable `marked_early`
has the vCPUs that it has marked for migration while they were queued again, although the
CPU that ran them last was not through with `context_saved()` (`Requeued`). The properties say what
holds as long as there is none (`MarkedInTime`); the reason is under Findings.

### Rcu, GracePeriod and DomainLife

*State.* `Rcu` has `rcu_ctrlblk` (`cur`, `completed`, `next_pending`, `cpumask`, its lock), the
`rcu_data` of each CPU, where a CPU is in the softirq, and which CPUs are in a read-side section.
`waits[h]` is a history variable: the sections that were executing when `h` was queued. Batch
numbers are taken modulo `Period`, as `long` is modulo a power of two, and start at `First`.
`DomainLife` adds the domain list, reference counts and the states of `domain_kill()`; a domain
structure is the `rcu_head` inside it.

*Actions.* In `Rcu` one per access to `rcu_ctrlblk` by the softirq: `__rcu_process_callbacks()`
reads `completed`, `cur` and `next_pending` without the lock. `DomainLife` composes them: its
operations are the read-side sections and the calls of `call_rcu()`, and
`complete_domain_destroy()` is a callback, which may call `call_rcu()` in turn through
`put_domain()` of the target. `domain_kill()` is a step of its own for each call of
`domain_relinquish_resources()` that asks to be called again.

*Abstractions.* Callback lists are sets. The urgent path for ten thousand callbacks and CPUs
that come and go are left out.

### FsRing and FileService

*State.* The shared page with its indices (modulo `Period`, as `RING_IDX` is modulo 2^32) and
entries; the private halves of both ends; the semaphore, the list of free identifiers and the
requests of `struct fs_import`; the threads of Mini-OS, which run until they call `schedule()`;
the event handler, which interrupts them; the loop of the back end; and the pending bits of the
event channel. `served` and `ret` are history: how often a call has been executed, and whose
answer it got.

*Actions.* One per access to the shared page. A thread's operation is one step up to its commit
(no other thread runs in between), then the commit, the notification, and the answer. The
handler and the back end load the other end's index, consume entries one by one, make their
final check (a look, the store of `rsp_event`, a second look: three steps), and push and notify
in two steps. `req_event`, which nobody reads, is left out. `dispatch_now` and `dispatch_aio` are the
operations that are executed at once and those that finish later, in any order.

*Abstractions.* Buffers and their grants are left out, so that an operation does not block
between reservation and commit. A request is its identifier and its caller.

## Runs

| run | instance | shows |
|---|---|---|
| `evtchn_destroy` | 2 domains (one privileged, one HVM), 2 CPUs, 2 usable ports each; binds, closes, sends, kill, reset and exchange of the HVM port | peers stay symmetric and are referenced; sender and closer find the peer they saw; waits for locks are in order; a destroyed domain has no live port; Xen's ports stay Xen's |
| `evtchn_irq` | 2 domains, 2 vCPUs, 2 VIRQs, 1 PIRQ, 1 CPU; interrupts against bind and close | tables and ports agree; no event on a port it was not sent to |
| `delivery_poll` | 2 vCPUs, 2 CPUs, 1 port, stores visible at once | no poller sleeps on a pending port with nobody about to wake it |
| `delivery_buffers` | 1 vCPU, 2 CPUs; upcalls, blocking, polling and masking; store buffers for polls with a timeout; fairness | a pending, unmasked event has an upcall coming; a blocked vCPU has no enabled upcall pending; a poll that has a timeout, or whose port stays pending, returns |
| `delivery_race` | 1 vCPU, 1 CPU, polls, with store buffers | **violated**: see Findings |
| `irq_eoi` | 3 domains, 2 CPUs, 1 vector of each type | as long as `Foreseen`: guests, counts and the release of the action agree; no line stays closed, none is open without a guest |
| `irq_done` | 1 domain, 2 CPUs, 2 vectors: both EOI, or one UNMASK and one NONE; fairness | as long as `Foreseen`: stacks and owed EOIs agree; but for `KillTimerStuck`, the stacks empty once everything is acknowledged, and an unbind returns |
| `irq_unbinds` | 2 domains, 2 CPUs, 1 EOI vector, two unbinds overlap | **violated**: see Findings |
| `sched_pause` | 2 CPUs, 2 vCPUs, fairness | as long as `MarkedInTime`: a vCPU is queued or current in one place and by its processor; one CPU at a time holds its registers when it runs; a paused vCPU is still and saved; none that can run is forgotten; affinities are honoured; assertions of the switch hold; pauses return and migrations happen |
| `domain_free` | 2 CPUs, 2 structures, 3 domains over time, 4 batch numbers starting at the last, fairness | nobody uses a freed domain; references are counted; a domain that loses its last reference is dying, leaves the list before its callback is queued, and is queued once; `Rcu` implements `GracePeriod`; an unreferenced domain is freed |
| `fs_calls` | 2 threads, 2 entries, 4 index values, fairness | indices stay in order although they wrap; each call is in one place; nobody sleeps over a message; `FsRing` implements `FileService`; every call returns |
| `fs_ids` | 3 threads, 2 entries | **violated**: see Findings |

*Bounds.* Every lock window of EventChannel has two parties, so two CPUs reach every
pair of interleaved hypercalls. `evtchn_irq` has one, and the other party is an interrupt,
which needs no CPU of the model. Ports are few, so that exhaustion
occurs; in `evtchn_irq` they fill two buckets. `MaxPending` bounds the pending bits that are
set at the same time; `evtchn_destroy`, whose properties do not mention them, identifies
states that differ in nothing else (`ButPending`). `MaxUsed` lets three of its four ports be
in use at once: an interdomain pair and the port that replaces one of it. `MaxPlain` lets the
domain without a device model have one of them: the exchange and the replacement happen at the
other. In EventDelivery one port and two vCPUs give a
poller that is waiting, a poller that is starting and two senders, the case for which
`d->is_polling` and `v->is_polling` exist. A second word of ports would only repeat the
selector. `delivery_buffers` has store buffers only for polls with a timeout: without one the
lost wakeup of `delivery_race` keeps a poll from returning.

In GuestIrq two CPUs are one that acknowledges and one that owes the EOI: a
level interrupt is not sent again before its EOI, so no more than one owes it. Three domains
share, the least for which the list can be closed up wrongly; two actions let one be bound while
the other is being released. Two vectors nest, and a freed action is used again. `WillShare`
leaves out the binds that do not share where they only add failures. `Foreseen`, which once FALSE
stays so, is a state constraint of both runs; the properties name it too, because TLC also checks
the first state outside. In `irq_eoi` no bind overlaps an acknowledgement
(`BindsApart`). For the sake of the liveness check, in `irq_done` a bind overlaps no hypercall
(`BindsAlone`), a guest acknowledges what is in flight or being unbound (`AcksInFlight`), and
`xmalloc()` chooses the same memory each time (`OneAddress`). Without these bounds the invariants
hold as well, for 3 domains and 1 vector and for 2 domains and 2 vectors, in instances too large
to be kept as runs.

In VcpuSched two CPUs are the one a vCPU leaves and the one it comes to. With two vCPUs one is
always there to displace the other, to leave its registers behind, and to be stolen. The
affinities are one CPU and both. `MarkedInTime` is a state constraint as `Foreseen` is. In DomainLife two structures are a domain and its target, and
`MaxLives` of three makes one of them be used again. `MaxKept` is one reference that outlives
its operation. Four batch numbers are the least for which `rcu_batch_before()` can tell an
earlier number from a later one; `RcuProofs` shows that four suffice. In FsRing two entries are
enough for answers in the wrong order, for a full ring and for indices that wrap within a few
calls. With two threads no one waits in `down()`; with a third one does, and the identifiers run
out (`fs_ids`).

*Deadlock* is checked for EventChannel, VcpuSched, FsRing and `irq_unbinds`. `irq_eoi`
and `irq_done` leave it out because the code can deadlock there (Findings); in `irq_done` any other
stop is a violation of its liveness properties. EventDelivery's runs leave it unchecked: a guest that
masks everything and sleeps has stopped. In `domain_free` the bound on creations lets every
domain end.

*Fairness* in `delivery_buffers`: a CPU inside a hypervisor function goes on, a vCPU
that is runnable is scheduled, a guest ends an upcall it has begun, a timer that was set
expires. Otherwise guests need not do anything, and no sender has to send. In `irq_done`: a CPU goes on with a hypercall it
has begun, an IPI is taken in the end although the CPU may have interrupts off from time
to time, and a CPU that waits for `desc->lock` or `call_lock` gets it although others take
it in between; spin locks of this version are not queued, so this assumes hardware that
does not starve a CPU. Interrupts leave a CPU some time for what they interrupt.
`sched_pause` assumes the same of schedule locks and IPIs, and that a pending softirq is
handled although interrupts come in between; guests, domctls, events and timers need not
happen. `domain_free`: a CPU ends the operation it has begun, and its softirq gets its turn,
strongly, because operations come in between. `fs_calls`: Mini-OS runs its threads and its
handler, the back end runs, a thread that runs goes on or waits, and transfers that the host has accepted finish.

## Proofs

The theorems of `EventChannelProofs` hold for every number of domains, CPUs, vCPUs,
VIRQs, PIRQs and ports allowed by `EvtchnConstants`: domains, vCPUs, VIRQs and PIRQs are
sets of naturals, finite or not, vCPU 0 exists, and the ports fill whole buckets.

| theorem | property |
|---|---|
| `TypeCorrect` | `TypeOK` |
| `PeersAreSymmetric` | `PeerSymmetry` |
| `SendSeesItsPeer` | `SendPeerStable` |
| `CloseSeesItsPeer` | `ClosePeerStable` |
| `LocksAreOrdered` | `LockOrder` |
| `PeersAreReferenced` | `PeerReferenced` |

None of these is inductive. The strengthening `IInv` adds, for each CPU in the middle of
an operation, what that CPU relies on: the locks it holds (`HeldOK`), what it has
established about its channels and may assume after the next lock (`FrameOK`), that a
domain whose channels are being destroyed gains no new live port (`DestroyOK`, `DeadOK`),
and that a domain named by a channel keeps its reference (`RefsOK`). `StepPreserves` is
the frame argument: a step of one CPU preserves `IInv` if it leaves the others what they
rely on (`OthersKeep`, `DyingKeeps`, `DomainsKeep`) and establishes `ActorOK` for the CPU
that takes it. Then there is one lemma per action, `InvNext` collects them, and the
theorems follow from `Invariance`.

`RcuProofs` shows for every finite set of CPUs, every set of heads, every `Period` of at least
four and every first number that `rcupdate.c`, used by anybody who queues no head that is already
queued (`RcuSpec`), implements `GracePeriod` (`RcuKeepsPromise`). The promise is that a callback finds `waits[h]` empty, which is not inductive:
`RcuInv` says where a callback that still waits for a reader is. It is in `nxtlist`, or in
`curlist` with the number of a batch that has not begun, or in that of the current batch while
the reader's CPU is still in `cpumask` (`GraceInv`); with it go which numbers a CPU can have
taken (`BatchInv`) and that no head is in two lists (`ListInv`). `BatchBefore` is the lemma about
wrapping: for the numbers that can meet, `rcu_batch_before()` is the order of the batches.

`DomainLifeProofs` shows the safety properties of `domain_free` for every finite set of CPUs and
of domain structures and every bound on references and creations:

| theorem | property |
|---|---|
| `NothingDangles` | `NoDangling` |
| `ReferencesCounted` | `RefsCounted` |
| `OrderOfDestruction` | `DestroyedInOrder` |
| `DomainsKeepPromise` | `GracePeriodSpec` |

The invariant is `DomainInv`. `CountInv` says that `refcnt` is the number of holders, also of a
structure that is not allocated, so that whoever holds a reference has a structure that is
allocated and whose callback is not queued. `OpInv` is what makes a pointer without a reference
safe: a CPU that uses a domain is in a section, and if the domain's callback is queued, the
callback waits for it; `DestroyInv` says that one CPU destroys a domain, and that what is queued is
off the list, so that no new user comes. Of RCU the steps use only what `RcuProofs` shows of
`GracePeriod`'s actions (`CallRefines`, `InvokeRefines`): a callback that is invoked finds
`waits` empty, hence no user. `CountStep` reduces the cardinalities of the holders to what one
step adds and takes away (`Balanced`). `DomainsKeepPromise` then needs that `domain_destroy()`
never queues a structure that is queued, which `DestroyInv` has, and `RcuKeepsPromise`.

Only model-checked: the interrupt tables (`IrqTables`, `NoStalePending`,
`VirqSendStable`), the Xen-attached ports, `DestroyedIsClean`, and all
of EventDelivery, GuestIrq, VcpuSched and FsRing. Liveness under fairness (`Freed` among it) is
outside what the prover does.

## Findings

* `delivery_race`: `do_poll()` sets its flags and then checks the ports "/after/ setting
  flags", but separates the two with `smp_wmb()`, which on x86 orders nothing. The check
  may be done before the flags are visible, and the wakeup is lost. `do_block()` is not
  affected, because it sets its flag with an atomic instruction (`delivery_buffers`).
* `irq_unbinds`: `pirq_guest_unbind()` drops `desc->lock` after lowering `nr_guests`; if the
  other guest unbinds meanwhile, both release and free the action.
* `fs_ids`: `get_id_from_freelist()` relies on `reserve_fsif_request()` "to protect from
  depletion", but the handler raises the semaphore when the response arrives, before its thread
  has run and returned the identifier. With more threads than entries, a thread gets an
  identifier that is in use.

Four more things are the conditions of the properties. Without them:

* `GuestsAgree` fails when a guest leaves that has two behind it (`"gap"`). `pirq_guest_unbind()` closes up `guest[]`
  with a `memmove()` of a number of bytes where it means entries; of three guests one is lost
  from the list and another listed twice, and a domain that has unbound is sent the interrupt.
* `ReleaseIsSettled` fails when a domain acknowledges while it binds (`"bind"`).
  `__pirq_guest_eoi()` loads `desc->action` before it takes the lock; if the domain unbinds and binds again in between,
  the count of the new action is never lowered and the next unbind runs into its `BUG_ON()`.
* `UnbindReturns` fails for a vector of type NONE (`KillTimerStuck`). `pirq_guest_unbind()` calls
  `kill_timer()` holding `desc->lock`, and waits for `irq_guest_eoi_timer_fn()`, which waits for
  the lock.
* `ProcessorOwns`, and with it `OneCpu` and others, fails when a vCPU is marked early.
  `context_saved()` clears `is_running` and then tests `_VPF_migrating`; if the vCPU has been woken
  and queued, and marked by a change of its affinity, in between, `vcpu_migrate()` moves a vCPU that
  is in the queue of its old CPU, or that a CPU has chosen to run. `csched_vcpu_acct()` then
  finds that `current->processor` is another CPU (`AcctAssert`).

## Not modelled

* Page references and grant tables. Mapping a grant holds page references that the MMU counts,
  and the MMU's types depend on the contents of page tables; a model of one without the other
  would leave out what makes `grant_table.c` hard.
* Timers, softirqs and tasklets, `stop_machine`, HVM I/O requests. Each is a protocol of a few
  steps that the modules here use as an environment (timers in EventDelivery and GuestIrq,
  softirqs in Rcu and VcpuSched, the ioreq port in EventChannel).
* Range sets, the page allocator, the policy of the schedulers, memory reservation: sequential
  structures under one lock.
* xenstore, libxc, xend and the other back ends: processes with file and network input and
  output; the connection of the file system ends through xenstore is left out for that reason.
* In modules that are there: buffers and grants of the file system front end; VCPUOP_up and
  down, shutdown and the timers of a vCPU; parking of capped vCPUs; HVM delivery of events;
  CPU hotplug everywhere.
* Paging, HVM devices and the processor's virtualization, instruction emulation, IOMMU,
  drivers, XSM, ia64: hardware programming, or dependent on the contents of whole pages.

The components list of `PROJECT.json` gives the reason for each.
