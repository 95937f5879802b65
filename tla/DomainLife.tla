----------------------------- MODULE DomainLife -----------------------------
(***************************************************************************)
(* The life of struct domain: creation, look-up, references, domain_kill(), *)
(* domain_destroy() and the RCU callback that frees it (xen/common/domain.c *)
(* and domctl.c), composed with the implementation of RCU.                 *)
(*                                                                         *)
(* A structure is the head that its own callback is queued with.           *)
(***************************************************************************)
EXTENDS Rcu

CONSTANTS
  MaxKept,   \* bound: references to a domain that outlive the operation that took them
  MaxLives   \* bound: the domains that are created

ASSUME DomainConstants ==
  IsFiniteSet(Head) /\ None \notin Head /\ MaxKept \in Nat /\ MaxLives \in Nat

VARIABLES
  allocated,   \* the domain structures in use
  listed,      \* those in domain_list and domain_hash
  refcnt,      \* a number, or DOMAIN_DESTROYED
  is_dying,
  target,      \* the domain that a stub domain serves
  kept,        \* history: the references held by pages, event channels, grants...
  lives,       \* history: the domains created
  op           \* the operation of a CPU: its place and its domain

domainVars == <<allocated, listed, refcnt, is_dying, target, kept, lives>>
vars == <<rcuVars, domainVars, op>>

DOMAIN_DESTROYED == -1
NoOp == [at |-> "none", d |-> None]
At(c, place1, d) == op' = [op EXCEPT ![c] = [at |-> place1, d |-> d]]

\* domctl_lock admits one operation of these at a time.
NoDomctl == \A c \in Cpu : op[c].at # "kill"

Init ==
  /\ RcuInit
  /\ allocated = {} /\ listed = {}
  /\ refcnt = [d \in Head |-> DOMAIN_DESTROYED] /\ is_dying = [d \in Head |-> "dead"]
  /\ target = [d \in Head |-> None] /\ kept = [d \in Head |-> 0]
  /\ lives = 0 /\ op = [c \in Cpu |-> NoOp]

\* domain_create(), in the end
domain_create(c, d) ==
  /\ op[c] = NoOp /\ c \notin reading /\ place[c] = "out" /\ NoDomctl
  /\ d \notin allocated /\ lives < MaxLives
  /\ lives' = lives + 1
  /\ allocated' = allocated \cup {d} /\ listed' = listed \cup {d}
  /\ refcnt' = [refcnt EXCEPT ![d] = 1] /\ is_dying' = [is_dying EXCEPT ![d] = "alive"]
  /\ target' = [target EXCEPT ![d] = None]
  /\ UNCHANGED <<rcuVars, kept, op>>

-----------------------------------------------------------------------------
(* References.                                                             *)

rcu_lock_domain_by_id(c, d) ==
  /\ op[c] = NoOp /\ d \in listed
  /\ rcu_read_lock(c)
  /\ At(c, "locked", d)
  /\ UNCHANGED domainVars

\* The end of an operation: rcu_unlock_domain() where there is something to unlock.
rcu_unlock_domain(c) ==
  /\ op[c].at \in {"locked", "end"}
  /\ rcu_read_unlock(c)
  /\ op' = [op EXCEPT ![c] = NoOp]
  /\ UNCHANGED domainVars

Referenced(d) == refcnt[d] # DOMAIN_DESTROYED

\* get_domain() of a domain that was looked up, and whose reference is kept; a reference count
\* that has fallen to zero can rise again.
get_domain(c) ==
  LET d == op[c].d IN
  /\ op[c].at = "locked" /\ Referenced(d) /\ kept[d] < MaxKept
  /\ refcnt' = [refcnt EXCEPT ![d] = @ + 1]
  /\ kept' = [kept EXCEPT ![d] = @ + 1]
  /\ At(c, "end", d)
  /\ UNCHANGED <<rcuVars, allocated, listed, is_dying, target, lives>>

\* The operation that ends with put_domain() of a reference that was kept.
drop(c, d) ==
  /\ op[c] = NoOp /\ kept[d] > 0
  /\ rcu_read_lock(c)
  /\ kept' = [kept EXCEPT ![d] = @ - 1]
  /\ At(c, "put", d)
  /\ UNCHANGED <<allocated, listed, refcnt, is_dying, target, lives>>

put_domain(c) ==
  LET d == op[c].d IN
  /\ op[c].at = "put"
  /\ refcnt' = [refcnt EXCEPT ![d] = @ - 1]
  /\ At(c, IF refcnt[d] = 1 THEN "destroy" ELSE "end", d)
  /\ UNCHANGED <<rcuVars, allocated, listed, is_dying, target, kept, lives>>

-----------------------------------------------------------------------------
(* domain_destroy(): only the one that swaps zero for DOMAIN_DESTROYED goes *)
(* on.                                                                     *)

\* Variant: whoever finds the domain unreferenced or destroyed goes on.
domain_destroy_again(c) ==
  /\ op[c].at = "destroy"
  /\ refcnt' = [refcnt EXCEPT ![op[c].d] = IF @ <= 0 THEN DOMAIN_DESTROYED ELSE @]
  /\ At(c, IF refcnt[op[c].d] <= 0 THEN "unlink" ELSE "end", op[c].d)
  /\ UNCHANGED <<rcuVars, allocated, listed, is_dying, target, kept, lives>>

domain_destroy(c) ==
  LET d == op[c].d IN
  /\ op[c].at = "destroy"
  /\ refcnt' = [refcnt EXCEPT ![d] = IF @ = 0 THEN DOMAIN_DESTROYED ELSE @]
  /\ At(c, IF refcnt[d] = 0 THEN "unlink" ELSE "end", d)
  /\ UNCHANGED <<rcuVars, allocated, listed, is_dying, target, kept, lives>>

unlink(c) ==
  LET d == op[c].d IN
  /\ op[c].at = "unlink"
  /\ listed' = listed \ {d}
  /\ At(c, "call", d)
  /\ UNCHANGED <<rcuVars, allocated, refcnt, is_dying, target, kept, lives>>

\* Variant: the domain is freed at once.
call_none(c) ==
  /\ op[c].at = "call"
  /\ allocated' = allocated \ {op[c].d}
  /\ At(c, "end", op[c].d)
  /\ UNCHANGED <<rcuVars, listed, refcnt, is_dying, target, kept, lives>>

call(c) ==
  LET d == op[c].d IN
  /\ op[c].at = "call"
  /\ call_rcu(c, d)
  /\ At(c, "end", d)
  /\ UNCHANGED domainVars

\* complete_domain_destroy(), with put_domain(d->target)
complete_domain_destroy(c, d) ==
  /\ invoke(c, d)
  /\ allocated' = allocated \ {d}
  /\ IF target[d] = None THEN At(c, "end", d) ELSE At(c, "put", target[d])
  /\ target' = [target EXCEPT ![d] = None]
  /\ UNCHANGED <<listed, refcnt, is_dying, kept, lives>>

-----------------------------------------------------------------------------
(* Domctls.                                                                *)

\* domain_kill() until domain_relinquish_resources()
domain_kill(c) ==
  LET d == op[c].d IN
  /\ op[c].at = "locked" /\ NoDomctl
  /\ IF is_dying[d] = "dead"
     THEN At(c, "end", d) /\ UNCHANGED is_dying
     ELSE At(c, "kill", d) /\ is_dying' = [is_dying EXCEPT ![d] = "dying"]
  /\ UNCHANGED <<rcuVars, allocated, listed, refcnt, target, kept, lives>>

\* It is preempted, to be called again, or it drops the reference of the creation.
relinquished(c) ==
  LET d == op[c].d IN
  /\ op[c].at = "kill"
  /\ \/ At(c, "end", d) /\ UNCHANGED is_dying
     \/ At(c, "put", d) /\ is_dying' = [is_dying EXCEPT ![d] = "dead"]
  /\ UNCHANGED <<rcuVars, allocated, listed, refcnt, target, kept, lives>>

\* Variant: the reference to an unwanted target is kept.
set_target_kept(c, e) ==
  LET d == op[c].d IN
  /\ op[c].at = "locked" /\ NoDomctl
  /\ e \in listed /\ Referenced(e)
  /\ refcnt' = [refcnt EXCEPT ![e] = @ + 1]
  /\ At(c, "end", d)
  /\ target' = [target EXCEPT ![d] = IF d = e \/ @ # None THEN @ ELSE e]
  /\ UNCHANGED <<rcuVars, allocated, listed, is_dying, kept, lives>>

\* XEN_DOMCTL_set_target: get_domain_by_id() of the target, and put_domain() if it is not wanted.
set_target(c, e) ==
  LET d == op[c].d IN
  /\ op[c].at = "locked" /\ NoDomctl
  /\ e \in listed /\ Referenced(e)
  /\ refcnt' = [refcnt EXCEPT ![e] = @ + 1]
  /\ IF d = e \/ target[d] # None
     THEN At(c, "put", e) /\ UNCHANGED target
     ELSE At(c, "end", d) /\ target' = [target EXCEPT ![d] = e]
  /\ UNCHANGED <<rcuVars, allocated, listed, is_dying, kept, lives>>

-----------------------------------------------------------------------------

Operation(c) ==
  \/ rcu_unlock_domain(c) \/ put_domain(c) \/ domain_destroy(c) \/ unlink(c) \/ call(c)
  \/ relinquished(c) \/ \E d \in Head : complete_domain_destroy(c, d)

Next ==
  \/ \E c \in Cpu, d \in Head : domain_create(c, d)
  \/ \E c \in Cpu, d \in Head : rcu_lock_domain_by_id(c, d)
  \/ \E c \in Cpu : get_domain(c)
  \/ \E c \in Cpu, d \in Head : drop(c, d)
  \/ \E c \in Cpu : domain_kill(c)
  \/ \E c \in Cpu, d \in Head : set_target(c, d)
  \/ \E c \in Cpu : Operation(c)
  \/ \E c \in Cpu : Softirq(c) /\ UNCHANGED <<domainVars, op>>

Spec == Init /\ [][Next]_vars

\* A CPU finishes the operation it has begun and gets rcu_ctrlblk.lock; between its operations it
\* passes through do_softirq(), at the latest with the tick that every CPU sets for itself.
FairSpec ==
  /\ Spec
  /\ \A c \in Cpu : WF_vars(Operation(c)) /\ SF_vars(Softirq(c) /\ UNCHANGED <<domainVars, op>>)

-----------------------------------------------------------------------------
(* Properties.                                                             *)

\* The variables have their types.
TypeOK ==
  /\ RcuTypeOK
  /\ allocated \in SUBSET Head /\ listed \in SUBSET Head
  /\ refcnt \in [Head -> Int]
  /\ is_dying \in [Head -> {"alive", "dying", "dead"}]
  /\ target \in [Head -> Head \cup {None}] /\ kept \in [Head -> 0..MaxKept]
  /\ lives \in 0..MaxLives
  /\ op \in [Cpu -> [at : {"none", "locked", "end", "put", "destroy", "unlink", "call", "kill"},
                     d : Head \cup {None}]]

\* Nobody has a pointer to a domain that has been freed: not a CPU that looked it up or is in
\* put_domain() or domain_destroy(), not a holder of a reference, not the domain it is the target
\* of, and not the list.
NoDangling ==
  /\ \A c \in Cpu : op[c].at \notin {"none", "end"} => op[c].d \in allocated
  /\ \A d \in Head : kept[d] > 0 => d \in allocated
  /\ \A d \in allocated : target[d] \in allocated \cup {None}
  /\ listed \subseteq allocated

\* The references are counted: the one of the creation, which domain_kill() drops, those kept,
\* those of targets, and those that a CPU is about to drop. A destroyed domain has none left.
Targets(d) == {e \in allocated : target[e] = d}
Putters(d) == {c \in Cpu : op[c].at = "put" /\ op[c].d = d}
Holders(d) ==
  (IF is_dying[d] = "dead" THEN 0 ELSE 1) + kept[d] + Cardinality(Targets(d)) + Cardinality(Putters(d))

RefsCounted ==
  /\ TypeOK
  /\ \A d \in allocated : (IF Referenced(d) THEN refcnt[d] ELSE 0) = Holders(d)

\* A domain that loses its last reference is dying (BUG_ON() of domain_destroy()); it leaves the
\* list before its callback is queued, and its callback is queued at most once.
DestroyedInOrder ==
  /\ \A c \in Cpu : op[c].at = "destroy" => is_dying[op[c].d] # "alive"
  /\ \A d \in queued : d \in allocated /\ d \notin listed /\ ~Referenced(d)
  /\ \A c \in Cpu : op[c].at \in {"unlink", "call"} =>
       op[c].d \notin queued /\ \A e \in Cpu \ {c} : op[e].d = op[c].d => op[e].at \notin {"unlink", "call"}

\* A domain without references is freed: every CPU passes through the grace period, although new
\* batches are registered while one is under way.
Freed ==
  \A d \in Head : (d \in allocated /\ ~Referenced(d)) ~> d \notin allocated
=============================================================================
