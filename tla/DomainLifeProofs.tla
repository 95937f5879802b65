------------------------- MODULE DomainLifeProofs --------------------------
(***************************************************************************)
(* Nobody uses a domain that has been freed, for any number of CPUs and     *)
(* domains. Of RCU the proof uses only what GracePeriod promises.          *)
(***************************************************************************)
EXTENDS DomainLifeSteps

-----------------------------------------------------------------------------
(* The theorems.                                                           *)

\* There are no domains at first, and nothing to count.
LEMMA DomainInitInv == Init => RcuInv /\ DomainInv
<1> SUFFICES ASSUME Init PROVE RcuInv /\ DomainInv
  OBVIOUS
<1>1. RcuInv /\ queued = {}
  BY InitInv DEF Init, RcuInit, queued
<1>2. DomainType
  BY DomainConstants DEF Init, DomainType, NoOp, Steps, DOMAIN_DESTROYED
<1>3. CountInv
  <2>1. ASSUME NEW d \in Head PROVE Holders(d) = 0
    <3>1. Targets(d) = {} /\ Putters(d) = {}
      BY DEF Init, Targets, Putters, NoOp
    <3>2. Cardinality(Targets(d)) = 0 /\ Cardinality(Putters(d)) = 0
      BY <3>1, FS_EmptySet
    <3> QED BY <3>2 DEF Init, Holders
  <2> QED BY <2>1 DEF Init, CountInv
<1> QED BY <1>1, <1>2, <1>3 DEF Init, DomainInv, OpInv, DestroyInv, Uses, NoOp

\* A step of a softirq changes nothing that domains rely on.
LEMMA SoftirqInv ==
  ASSUME RcuInv, DomainInv, UNCHANGED <<reading, waits>>, queued' = queued, UNCHANGED <<domainVars, op>>
  PROVE DomainInv'
<1>1. DomainType'
  BY DEF DomainInv, DomainType, domainVars
<1>2. CountInv'
  BY DEF DomainInv, CountInv, Holders, Targets, Putters, domainVars
<1>3. OpInv' /\ DestroyInv'
  BY DEF DomainInv, OpInv, DestroyInv, Uses, domainVars
<1> QED BY <1>1, <1>2, <1>3 DEF DomainInv

\* To RCU, every step is one of a user that queues what is not queued, or of a softirq.
LEMMA StepUsesRcu == RcuInv /\ DomainInv /\ [Next]_vars => [RcuNext]_rcuVars
<1> SUFFICES ASSUME RcuInv, DomainInv, [Next]_vars PROVE [RcuNext]_rcuVars
  OBVIOUS
<1>1. ASSUME NEW c \in Cpu, call(c) PROVE RcuNext
  <2>1. op[c].d \in Head /\ op[c].d \notin queued
    BY <1>1 DEF call, DomainInv, DomainType, DestroyInv
  <2> QED BY <1>1, <2>1 DEF call, RcuNext
<1>2. ASSUME NEW c \in Cpu, Operation(c) PROVE [RcuNext]_rcuVars
  BY <1>1, <1>2 DEF Operation, RcuNext, rcu_unlock_domain, put_domain, domain_destroy, unlink, relinquished,
                    complete_domain_destroy
<1>3. CASE UNCHANGED vars
  BY <1>3 DEF vars
<1>4. CASE \E c \in Cpu, d \in Head :
             domain_create(c, d) \/ rcu_lock_domain_by_id(c, d) \/ drop(c, d) \/ set_target(c, d)
  BY <1>4 DEF domain_create, rcu_lock_domain_by_id, drop, set_target, RcuNext
<1>5. CASE \E c \in Cpu : get_domain(c) \/ domain_kill(c) \/ (Softirq(c) /\ UNCHANGED <<domainVars, op>>)
  BY <1>5 DEF get_domain, domain_kill, RcuNext
<1> QED BY <1>2, <1>3, <1>4, <1>5 DEF Next

\* Every step keeps the invariant.
LEMMA DomainStepInv == RcuInv /\ DomainInv /\ [Next]_vars => RcuInv' /\ DomainInv'
<1> SUFFICES ASSUME RcuInv, DomainInv, [Next]_vars PROVE RcuInv' /\ DomainInv'
  OBVIOUS
<1>1. RcuInv'
  BY StepUsesRcu, StepInv
<1>2. CASE UNCHANGED vars
  <2>1. UNCHANGED rcuVars /\ UNCHANGED <<domainVars, op>>
    BY <1>2 DEF vars
  <2>2. UNCHANGED <<reading, waits>> /\ queued' = queued
    BY <2>1, RcuKept
  <2> QED BY <1>1, <2>1, <2>2, SoftirqInv
<1>3. ASSUME NEW c \in Cpu, Softirq(c), UNCHANGED <<domainVars, op>> PROVE DomainInv'
  BY <1>3, SoftirqKeeps, SoftirqInv
<1>4. ASSUME NEW c \in Cpu, Operation(c) PROVE DomainInv'
  BY <1>4, UnlockInv, PutInv, DestroyingInv, UnlinkInv, QueueInv, RelinquishedInv, FreeInv DEF Operation
<1> QED BY <1>1, <1>2, <1>3, <1>4, CreateInv, LookUpInv, GetInv, DropInv, KillInv, SetTargetInv DEF Next

\* For any number of CPUs, domains, references and batch numbers: domains are counted, and are
\* waited for before complete_domain_destroy() frees them.
THEOREM DomainSafe == Spec => [](RcuInv /\ DomainInv)
BY DomainInitInv, DomainStepInv, PTL DEF Spec

\* Nobody has a pointer to a domain that complete_domain_destroy() has freed.
THEOREM NothingDangles == Spec => []NoDangling
<1>1. RcuInv /\ DomainInv => NoDangling
  <2> SUFFICES ASSUME RcuInv, DomainInv PROVE NoDangling
    OBVIOUS
  <2>1. \A c \in Cpu : op[c].at \notin {"none", "end"} => op[c].d \in allocated
    BY DEF DomainInv, DomainType, OpInv, Uses
  <2>2. \A d \in Head : refcnt[d] \notin {DOMAIN_DESTROYED, 0} => d \in allocated
    BY DEF DomainInv, CountInv
  <2>3. \A d \in Head : kept[d] > 0 => d \in allocated
    <3>1. \A d \in Head : kept[d] > 0 => kept[d] # 0
      BY DEF DomainInv, DomainType
    <3> QED BY <2>2, <3>1, CountMeans DEF DomainInv
  <2>4. \A d \in allocated : target[d] \in allocated \cup {None}
    BY <2>2, CountMeans DEF DomainInv, DomainType
  <2> QED BY <2>1, <2>3, <2>4 DEF NoDangling, DomainInv, DestroyInv
<1> QED BY <1>1, DomainSafe, PTL

\* The reference count that get_domain() and put_domain() keep is the number of the holders, and
\* the variables have their types.
THEOREM ReferencesCounted == Spec => []RefsCounted
<1>1. RcuInv /\ DomainInv => RefsCounted
  <2> SUFFICES ASSUME RcuInv, DomainInv PROVE RefsCounted
    OBVIOUS
  <2>1. kept \in [Head -> 0..MaxKept] /\ lives \in 0..MaxLives
    BY DomainConstants DEF DomainInv, DomainType
  <2>2. TypeOK
    BY <2>1 DEF TypeOK, RcuInv, DomainInv, DomainType, Steps
  <2> QED BY <2>2 DEF RefsCounted, DomainInv, DomainType, CountInv, Referenced
<1> QED BY <1>1, DomainSafe, PTL

\* domain_destroy() finds a dying domain, takes it off the list before it queues its callback, and
\* queues it once.
THEOREM OrderOfDestruction == Spec => []DestroyedInOrder
<1>1. RcuInv /\ DomainInv => DestroyedInOrder
  BY DEF DestroyedInOrder, DomainInv, DomainType, OpInv, DestroyInv, Referenced
<1> QED BY <1>1, DomainSafe, PTL

\* The hypervisor's use of call_rcu() for domains is one for which RCU keeps its promise.
THEOREM DomainsKeepPromise == Spec => GracePeriodSpec
<1>1. Init => RcuInit
  BY DEF Init
<1>2. Spec => RcuSpec
  BY <1>1, DomainSafe, StepUsesRcu, PTL DEF Spec, RcuSpec
<1> QED BY <1>2, RcuKeepsPromise, PTL

=============================================================================
