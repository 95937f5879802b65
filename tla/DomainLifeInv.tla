--------------------------- MODULE DomainLifeInv ---------------------------
(***************************************************************************)
(* The inductive invariant of the lives of domains, how holders are         *)
(* counted, and the steps that take and drop references.                   *)
(***************************************************************************)
EXTENDS DomainLife, RcuProofs, FiniteSetTheorems

-----------------------------------------------------------------------------
(* The inductive invariant.                                                *)

Steps == {"none", "locked", "end", "put", "destroy", "unlink", "call", "kill"}

DomainType ==
  /\ allocated \in SUBSET Head /\ listed \in SUBSET Head
  /\ refcnt \in [Head -> Int] /\ is_dying \in [Head -> {"alive", "dying", "dead"}]
  /\ target \in [Head -> Head \cup {None}] /\ kept \in [Head -> Nat]
  /\ lives \in Nat /\ lives <= MaxLives /\ \A d \in Head : kept[d] <= MaxKept
  /\ op \in [Cpu -> [at : Steps, d : Head \cup {None}]]
  /\ \A c \in Cpu : op[c].at # "none" => op[c].d \in Head

\* References are counted, and what is not allocated has none.
CountInv ==
  /\ \A d \in Head : Holders(d) = IF refcnt[d] = DOMAIN_DESTROYED THEN 0 ELSE refcnt[d]
  /\ \A d \in Head \ allocated : refcnt[d] = DOMAIN_DESTROYED

\* The domain that an operation works on.
Uses(c, d) == op[c].at \notin {"none", "end"} /\ op[c].d = d

\* What an operation relies on.
OpInv ==
  /\ \A c \in Cpu : op[c].at # "none" => c \in reading
  /\ \A c \in Cpu, d \in Head : Uses(c, d) => d \in allocated /\ (d \in queued => c \in waits[d])
  /\ \A c \in Cpu : op[c].at = "destroy" => is_dying[op[c].d] = "dead"
  /\ \A c \in Cpu : op[c].at = "kill" => is_dying[op[c].d] = "dying"
  /\ \A c, e \in Cpu : op[c].at = "kill" /\ op[e].at = "kill" => c = e

\* Destruction: one CPU, once, and off the list before the callback is queued.
DestroyInv ==
  /\ \A c \in Cpu : op[c].at \in {"unlink", "call"} =>
       refcnt[op[c].d] = DOMAIN_DESTROYED /\ op[c].d \notin queued
  /\ \A c, e \in Cpu : op[c].at \in {"unlink", "call"} /\ op[e].at \in {"unlink", "call"}
                         /\ op[c].d = op[e].d => c = e
  /\ \A c \in Cpu : op[c].at = "call" => op[c].d \notin listed
  /\ \A d \in queued : d \in allocated \ listed /\ refcnt[d] = DOMAIN_DESTROYED
  /\ listed \subseteq allocated

DomainInv == DomainType /\ CountInv /\ OpInv /\ DestroyInv

-----------------------------------------------------------------------------
(* Counting.                                                               *)

\* The holders of a kind are finitely many.
LEMMA HoldersType ==
  ASSUME DomainType, NEW d \in Head
  PROVE /\ IsFiniteSet(Targets(d)) /\ Cardinality(Targets(d)) \in Nat
        /\ IsFiniteSet(Putters(d)) /\ Cardinality(Putters(d)) \in Nat
        /\ Holders(d) \in Nat
<1>1. IsFiniteSet(Targets(d)) /\ Cardinality(Targets(d)) \in Nat
  BY FS_Subset, FS_CardinalityType, DomainConstants DEF Targets, DomainType
<1>2. IsFiniteSet(Putters(d)) /\ Cardinality(Putters(d)) \in Nat
  BY FS_Subset, FS_CardinalityType, RcuConstants DEF Putters
<1> QED BY <1>1, <1>2 DEF Holders, DomainType

\* A CPU that is about to drop a reference counts for one.
Putting(c, d) == IF op[c].at = "put" /\ op[c].d = d THEN 1 ELSE 0

\* In a step of CPU c, of the CPUs that are about to drop a reference only c can change.
LEMMA PuttersStep ==
  ASSUME DomainType, DomainType', NEW c \in Cpu, \A e \in Cpu \ {c} : op'[e] = op[e], NEW d \in Head
  PROVE Cardinality(Putters(d))' = Cardinality(Putters(d)) + Putting(c, d)' - Putting(c, d)
<1>1. IsFiniteSet(Putters(d)) /\ Cardinality(Putters(d)) \in Nat
  BY HoldersType
<1> c \in Putters(d) <=> Putting(c, d) = 1
  BY DEF Putters, Putting, DomainType
<1> Putting(c, d) \in {0, 1}
  BY DEF Putting
<1>2. CASE Putting(c, d)' = 1
  <2>1. Putters(d)' = Putters(d) \cup {c}
    BY <1>2 DEF Putters, Putting
  <2>2. Cardinality(Putters(d) \cup {c}) =
          IF c \in Putters(d) THEN Cardinality(Putters(d)) ELSE Cardinality(Putters(d)) + 1
    BY <1>1, FS_AddElement
  <2> QED BY <1>1, <1>2, <2>1, <2>2
<1>3. CASE Putting(c, d)' = 0
  <2>1. Putters(d)' = Putters(d) \ {c}
    BY <1>3 DEF Putters, Putting
  <2>2. Cardinality(Putters(d) \ {c}) =
          IF c \in Putters(d) THEN Cardinality(Putters(d)) - 1 ELSE Cardinality(Putters(d))
    BY <1>1, FS_RemoveElement
  <2> QED BY <1>1, <1>3, <2>1, <2>2
<1> QED BY <1>2, <1>3 DEF Putting

\* A domain that has a target counts for one.
Aiming(e, d) == IF e \in allocated /\ target[e] = d THEN 1 ELSE 0

\* In a step that changes the target of e at most, only e can start or cease to count.
LEMMA TargetsStep ==
  ASSUME DomainType, DomainType', NEW e \in Head, NEW d \in Head,
         \A x \in Head \ {e} : (x \in allocated' <=> x \in allocated) /\ target'[x] = target[x]
  PROVE Cardinality(Targets(d))' = Cardinality(Targets(d)) + Aiming(e, d)' - Aiming(e, d)
<1>1. IsFiniteSet(Targets(d)) /\ Cardinality(Targets(d)) \in Nat
  BY HoldersType
<1> e \in Targets(d) <=> Aiming(e, d) = 1
  BY DEF Targets, Aiming, DomainType
<1> Aiming(e, d) \in {0, 1}
  BY DEF Aiming
<1>2. CASE Aiming(e, d)' = 1
  <2>1. Targets(d)' = Targets(d) \cup {e}
    BY <1>2 DEF Targets, Aiming, DomainType
  <2>2. Cardinality(Targets(d) \cup {e}) =
          IF e \in Targets(d) THEN Cardinality(Targets(d)) ELSE Cardinality(Targets(d)) + 1
    BY <1>1, FS_AddElement
  <2> QED BY <1>1, <1>2, <2>1, <2>2
<1>3. CASE Aiming(e, d)' = 0
  <2>1. Targets(d)' = Targets(d) \ {e}
    BY <1>3 DEF Targets, Aiming, DomainType
  <2>2. Cardinality(Targets(d) \ {e}) =
          IF e \in Targets(d) THEN Cardinality(Targets(d)) - 1 ELSE Cardinality(Targets(d))
    BY <1>1, FS_RemoveElement
  <2> QED BY <1>1, <1>3, <2>1, <2>2
<1> QED BY <1>2, <1>3 DEF Aiming

\* The reference of the creation, and the number in refcnt.
Created(d) == IF is_dying[d] = "dead" THEN 0 ELSE 1
Value(d) == IF refcnt[d] = DOMAIN_DESTROYED THEN 0 ELSE refcnt[d]

\* What a step adds to the count and to the holders.
Balanced(c, e, x) ==
  Value(x)' + Created(x) + kept[x] + Putting(c, x) + Aiming(e, x) =
  Value(x) + Created(x)' + kept'[x] + Putting(c, x)' + Aiming(e, x)'

\* All of these are numbers.
LEMMA CountTypes ==
  ASSUME DomainType, NEW c \in Cpu, NEW e \in Head, NEW x \in Head
  PROVE /\ Value(x) \in Int /\ Created(x) \in Int /\ kept[x] \in Int
        /\ Putting(c, x) \in Int /\ Aiming(e, x) \in Int
BY DEF DomainType, Value, Created, Putting, Aiming, DOMAIN_DESTROYED

\* Together: the references stay counted in a step of CPU c that changes the target of e at most.
LEMMA CountStep ==
  ASSUME DomainType, DomainType', CountInv, NEW c \in Cpu, NEW e \in Head,
         \A x \in Cpu \ {c} : op'[x] = op[x],
         \A x \in Head \ {e} : (x \in allocated' <=> x \in allocated) /\ target'[x] = target[x],
         \A x \in Head : Balanced(c, e, x),
         \A x \in Head \ allocated' : refcnt'[x] = DOMAIN_DESTROYED
  PROVE CountInv'
<1>1. ASSUME NEW x \in Head PROVE Holders(x)' = Value(x)'
  <2>1. Cardinality(Putters(x)) \in Nat /\ Cardinality(Targets(x)) \in Nat
    BY HoldersType
  <2>2. Cardinality(Putters(x))' = Cardinality(Putters(x)) + Putting(c, x)' - Putting(c, x)
    BY PuttersStep
  <2>3. Cardinality(Targets(x))' = Cardinality(Targets(x)) + Aiming(e, x)' - Aiming(e, x)
    BY TargetsStep
  <2>4. kept[x] \in Nat /\ kept'[x] \in Nat /\ Value(x) \in Int /\ Value(x)' \in Int
    BY DEF DomainType, Value, DOMAIN_DESTROYED
  <2>5. /\ Putting(c, x) \in Int /\ Putting(c, x)' \in Int /\ Aiming(e, x) \in Int /\ Aiming(e, x)' \in Int
        /\ Created(x) \in Int /\ Created(x)' \in Int
    BY DEF Putting, Aiming, Created
  <2>6. Holders(x) = Created(x) + kept[x] + Cardinality(Targets(x)) + Cardinality(Putters(x))
    BY DEF Holders, Created
  <2>7. Holders(x)' = Created(x)' + kept'[x] + Cardinality(Targets(x))' + Cardinality(Putters(x))'
    BY DEF Holders, Created
  <2>8. Holders(x) = Value(x)
    BY DEF CountInv, Value
  <2>9. Balanced(c, e, x)
    OBVIOUS
  <2>10. Value(x)' + Created(x) + kept[x] + Putting(c, x) + Aiming(e, x) =
         Value(x) + Created(x)' + kept'[x] + Putting(c, x)' + Aiming(e, x)'
    BY <2>9 DEF Balanced
  <2> QED BY <2>1, <2>2, <2>3, <2>4, <2>5, <2>6, <2>7, <2>8, <2>10
<1> QED BY <1>1 DEF CountInv, Value

\* What the count says of a domain.
LEMMA CountMeans ==
  ASSUME DomainType, CountInv, NEW d \in Head
  PROVE /\ refcnt[d] # DOMAIN_DESTROYED => refcnt[d] \in Nat
        /\ refcnt[d] \in {DOMAIN_DESTROYED, 0} =>
             /\ is_dying[d] = "dead" /\ kept[d] = 0
             /\ \A c \in Cpu : ~(op[c].at = "put" /\ op[c].d = d)
             /\ \A e \in allocated : target[e] # d
        /\ \A c \in Cpu : op[c].at = "put" /\ op[c].d = d /\ refcnt[d] = 1 => is_dying[d] = "dead"
<1>1. /\ IsFiniteSet(Targets(d)) /\ Cardinality(Targets(d)) \in Nat
      /\ IsFiniteSet(Putters(d)) /\ Cardinality(Putters(d)) \in Nat
      /\ Holders(d) \in Nat
  BY HoldersType
<1>2. refcnt[d] # DOMAIN_DESTROYED => refcnt[d] = Holders(d)
  BY DEF CountInv
<1>3. ASSUME refcnt[d] \in {DOMAIN_DESTROYED, 0}
      PROVE is_dying[d] = "dead" /\ kept[d] = 0 /\ Cardinality(Targets(d)) = 0 /\ Cardinality(Putters(d)) = 0
  <2>1. Holders(d) = 0
    BY <1>3 DEF CountInv
  <2>2. kept[d] \in Nat
    BY DEF DomainType
  <2> QED BY <1>1, <2>1, <2>2 DEF Holders
<1>4. ASSUME refcnt[d] \in {DOMAIN_DESTROYED, 0}
      PROVE Targets(d) = {} /\ Putters(d) = {}
  BY <1>1, <1>3, <1>4, FS_EmptySet
<1>5. ASSUME NEW c \in Cpu, op[c].at = "put", op[c].d = d, refcnt[d] = 1
      PROVE is_dying[d] = "dead"
  <2>1. Cardinality(Putters(d)) # 0
    BY <1>1, <1>5, FS_EmptySet DEF Putters
  <2>2. Holders(d) = 1 /\ kept[d] \in Nat
    BY <1>5 DEF CountInv, DOMAIN_DESTROYED, DomainType
  <2> QED BY <1>1, <2>1, <2>2 DEF Holders
<1> QED BY <1>1, <1>2, <1>3, <1>4, <1>5 DEF Targets, Putters

-----------------------------------------------------------------------------
(* The steps.                                                              *)

\* Steps that leave RCU alone.
LEMMA RcuKept == UNCHANGED rcuVars => UNCHANGED <<reading, waits>> /\ queued' = queued
BY DEF rcuVars, listVars, queued

\* A CPU without an operation.
LEMMA NoOpMeans == NoOp.at = "none"
BY DEF NoOp

\* A CPU moves on in its operation.
LEMMA AtMeans ==
  ASSUME DomainType, NEW c \in Cpu, NEW p, NEW z, At(c, p, z)
  PROVE op'[c].at = p /\ op'[c].d = z /\ \A x \in Cpu \ {c} : op'[x] = op[x]
BY DEF At, DomainType

\* CPU c moves on, and begins no destruction: what is destroyed stays so.
LEMMA DestroyKept ==
  ASSUME DomainInv, NEW c \in Cpu, \A x \in Cpu \ {c} : op'[x] = op[x], op'[c].at \notin {"unlink", "call"},
         queued' = queued, listed' = listed, allocated' = allocated,
         \A x \in Head : refcnt[x] = DOMAIN_DESTROYED => refcnt'[x] = DOMAIN_DESTROYED
  PROVE DestroyInv'
<1>1. \A x \in Cpu : op'[x].at \in {"unlink", "call"} => op'[x] = op[x] /\ op[x].d \in Head
  BY DEF DomainInv, DomainType
<1>2. queued \subseteq Head
  BY DEF DomainInv, DomainType, DestroyInv
<1> QED BY <1>1, <1>2 DEF DomainInv, DestroyInv

\* CPU c moves on in its section: operations rely on the same, and c on what it finds.
LEMMA OpKept ==
  ASSUME DomainInv, NEW c \in Cpu, op[c].at # "none", \A x \in Cpu \ {c} : op'[x] = op[x],
         UNCHANGED <<reading, waits>>, queued' = queued, allocated' = allocated,
         \A y \in Head : Uses(c, y)' => Uses(c, y) \/ (y \in allocated /\ y \notin queued),
         \A y \in Head : is_dying[y] = "dead" => is_dying'[y] = "dead",
         \A x \in Cpu \ {c} : op[x].at = "kill" => is_dying'[op[x].d] = "dying" /\ op'[c].at # "kill",
         op'[c].at = "destroy" => is_dying'[op'[c].d] = "dead",
         op'[c].at = "kill" => is_dying'[op'[c].d] = "dying"
  PROVE OpInv'
<1>1. \A x \in Cpu : op'[x].at # "none" => x \in reading'
  BY DEF DomainInv, OpInv
<1>2. ASSUME NEW x \in Cpu, NEW y \in Head, Uses(x, y)'
      PROVE y \in allocated' /\ (y \in queued' => x \in waits'[y])
  <2>1. Uses(x, y) \/ (y \in allocated /\ y \notin queued)
    <3>1. CASE x = c
      BY <1>2, <3>1
    <3>2. CASE x # c
      BY <1>2, <3>2 DEF Uses
    <3> QED BY <3>1, <3>2
  <2> QED BY <2>1 DEF DomainInv, OpInv
<1>3. \A x \in Cpu \ {c} : op[x].at = "destroy" => is_dying'[op[x].d] = "dead"
  BY DEF DomainInv, DomainType, OpInv
<1>4. \A x, y \in Cpu : op'[x].at = "kill" /\ op'[y].at = "kill" => x = y
  BY DEF DomainInv, OpInv
<1> QED BY <1>1, <1>2, <1>3, <1>4 DEF OpInv

\* A domain is created: nobody has anything to do with the structure.
LEMMA CreateInv ==
  ASSUME RcuInv, DomainInv, NEW c \in Cpu, NEW d \in Head, domain_create(c, d)
  PROVE DomainInv'
<1> USE DEF DomainInv
<1>1. UNCHANGED <<reading, waits>> /\ queued' = queued
  BY RcuKept DEF domain_create
<1>2. DomainType'
  <2>1. lives' \in Nat /\ lives' <= MaxLives /\ refcnt' \in [Head -> Int]
    BY DomainConstants DEF domain_create, DomainType
  <2> QED BY <2>1 DEF domain_create, DomainType
<1>3. /\ d \notin allocated /\ op' = op /\ kept' = kept
      /\ allocated' = allocated \cup {d} /\ listed' = listed \cup {d}
      /\ refcnt'[d] = 1 /\ is_dying'[d] = "alive" /\ target'[d] = None
      /\ \A x \in Head \ {d} : refcnt'[x] = refcnt[x] /\ is_dying'[x] = is_dying[x] /\ target'[x] = target[x]
  BY DEF domain_create, DomainType
<1>4. CountInv'
  <2>1. ASSUME NEW x \in Head
        PROVE Balanced(c, d, x)
    <3> SUFFICES Value(x)' + Created(x) + kept[x] + Putting(c, x) + Aiming(d, x) =
                 Value(x) + Created(x)' + kept'[x] + Putting(c, x)' + Aiming(d, x)'
      BY DEF Balanced
    <3>1. /\ Value(x) \in Int /\ Created(x) \in Int /\ kept[x] \in Int
          /\ Putting(c, x) \in Int /\ Aiming(d, x) \in Int
      BY CountTypes
    <3>2. Aiming(d, x) = 0 /\ Aiming(d, x)' = 0
      BY <1>3, DomainConstants DEF Aiming
    <3>3. kept'[x] = kept[x] /\ Putting(c, x)' = Putting(c, x)
      BY <1>3 DEF Putting
    <3>4. x # d => Value(x)' = Value(x) /\ Created(x)' = Created(x)
      BY <1>3 DEF Value, Created
    <3>5. x = d => Value(x) = 0 /\ Created(x) = 0
      BY <1>3, CountMeans DEF CountInv, Value, Created
    <3>6. x = d => Value(x)' = 1 /\ Created(x)' = 1
      BY <1>3 DEF Value, Created, DOMAIN_DESTROYED
    <3> QED BY <3>1, <3>2, <3>3, <3>4, <3>5, <3>6
  <2>2. \A x \in Head \ allocated' : refcnt'[x] = DOMAIN_DESTROYED
    BY <1>3 DEF CountInv
  <2>3. /\ \A x \in Cpu \ {c} : op'[x] = op[x]
        /\ \A x \in Head \ {d} : (x \in allocated' <=> x \in allocated) /\ target'[x] = target[x]
    BY <1>3
  <2> QED BY <1>2, <2>1, <2>2, <2>3, CountStep
<1>5. OpInv'
  <2>1. \A x \in Cpu : op[x].at \notin {"none", "end"} => op[x].d \in Head \ {d}
    BY <1>3 DEF OpInv, Uses, DomainType
  <2>2. ASSUME NEW x \in Cpu, NEW y \in Head, Uses(x, y)'
        PROVE y \in allocated' /\ (y \in queued' => x \in waits'[y])
    <3>1. Uses(x, y)
      BY <1>3, <2>2 DEF Uses
    <3> QED BY <1>1, <1>3, <3>1 DEF OpInv
  <2>3. \A x \in Cpu : op[x].at \in {"destroy", "kill"} => is_dying'[op[x].d] = is_dying[op[x].d]
    BY <1>3, <2>1
  <2> QED BY SMTT(30), <1>1, <1>3, <2>2, <2>3 DEF OpInv
<1>6. DestroyInv'
  <2>1. \A x \in Cpu : op[x].at \in {"unlink", "call"} => op[x].d \in Head \ {d}
    BY <1>3 DEF OpInv, Uses, DomainType
  <2>2. \A y \in queued : y \in Head \ {d}
    BY <1>3 DEF DestroyInv, DomainType
  <2> QED BY SMTT(30), <1>1, <1>3, <2>1, <2>2 DEF DestroyInv
<1> QED BY <1>2, <1>4, <1>5, <1>6

\* A domain is looked up: what is on the list is not being freed.
LEMMA LookUpInv ==
  ASSUME RcuInv, DomainInv, NEW c \in Cpu, NEW d \in Head, rcu_lock_domain_by_id(c, d)
  PROVE DomainInv'
<1> USE DEF DomainInv
<1>1. reading' = reading \cup {c} /\ UNCHANGED waits /\ queued' = queued
  BY ReadLockRefines DEF rcu_lock_domain_by_id, Promise!rcu_read_lock, rcu_read_lock
<1>2. DomainType'
  BY DEF rcu_lock_domain_by_id, At, domainVars, DomainType, Steps, NoOp, DOMAIN_DESTROYED
<1>3. /\ d \in listed /\ op[c].at = "none"
      /\ op'[c].at = "locked" /\ op'[c].d = d /\ \A x \in Cpu \ {c} : op'[x] = op[x]
      /\ UNCHANGED <<allocated, listed, refcnt, is_dying, target, kept>>
  BY AtMeans DEF rcu_lock_domain_by_id, NoOp, domainVars
<1>4. CountInv'
  <2>1. ASSUME NEW x \in Head
        PROVE Balanced(c, d, x)
    <3> SUFFICES Value(x)' + Created(x) + kept[x] + Putting(c, x) + Aiming(d, x) =
                 Value(x) + Created(x)' + kept'[x] + Putting(c, x)' + Aiming(d, x)'
      BY DEF Balanced
    <3>1. /\ Value(x) \in Int /\ Created(x) \in Int /\ kept[x] \in Int
          /\ Putting(c, x) \in Int /\ Aiming(d, x) \in Int
      BY CountTypes
    <3>2. Value(x)' = Value(x) /\ Created(x)' = Created(x) /\ kept'[x] = kept[x] /\ Aiming(d, x)' = Aiming(d, x)
      BY <1>3 DEF Value, Created, Aiming
    <3>3. Putting(c, x) = 0 /\ Putting(c, x)' = 0
      BY <1>3 DEF Putting
    <3> QED BY <3>1, <3>2, <3>3
  <2>2. \A x \in Head \ allocated' : refcnt'[x] = DOMAIN_DESTROYED
    BY <1>3 DEF CountInv
  <2>3. /\ \A x \in Cpu \ {c} : op'[x] = op[x]
        /\ \A x \in Head \ {d} : (x \in allocated' <=> x \in allocated) /\ target'[x] = target[x]
    BY <1>3
  <2> QED BY <1>2, <2>1, <2>2, <2>3, CountStep
<1>5. OpInv'
  <2>1. d \in allocated /\ d \notin queued
    BY <1>3 DEF DestroyInv
  <2>2. \A x \in Cpu : op'[x].at # "none" => x \in reading'
    BY <1>1, <1>3 DEF OpInv
  <2>3. ASSUME NEW x \in Cpu, NEW y \in Head, Uses(x, y)'
        PROVE y \in allocated' /\ (y \in queued' => x \in waits'[y])
    <3>1. CASE x = c
      <4>1. y = d
        BY <1>3, <2>3, <3>1 DEF Uses
      <4> QED BY <1>1, <1>3, <2>1, <4>1
    <3>2. CASE x # c
      <4>1. Uses(x, y)
        BY <1>3, <2>3, <3>2 DEF Uses
      <4> QED BY <1>1, <1>3, <4>1 DEF OpInv
    <3> QED BY <3>1, <3>2
  <2>4. is_dying' = is_dying /\ \A x \in Cpu : op'[x].at \in {"destroy", "kill"} => op'[x] = op[x]
    BY <1>3
  <2> QED BY <2>2, <2>3, <2>4 DEF OpInv
<1>6. DestroyInv'
  BY <1>1, <1>3, DestroyKept
<1> QED BY <1>2, <1>4, <1>5, <1>6

\* An operation ends.
LEMMA UnlockInv ==
  ASSUME RcuInv, DomainInv, NEW c \in Cpu, rcu_unlock_domain(c)
  PROVE DomainInv'
<1> USE DEF DomainInv
<1>d. PICK d \in Head : d = op[c].d
  BY DEF rcu_unlock_domain, DomainType
<1>1. reading' = reading \ {c} /\ waits' = [h \in Head |-> waits[h] \ {c}] /\ queued' = queued
  BY <1>d, ReadUnlockRefines DEF rcu_unlock_domain, Promise!rcu_read_unlock
<1>2. DomainType'
  BY <1>d DEF rcu_unlock_domain, At, domainVars, DomainType, Steps, NoOp, DOMAIN_DESTROYED
<1>3. /\ op[c].at \in {"locked", "end"} /\ op'[c].at = "none" /\ \A x \in Cpu \ {c} : op'[x] = op[x]
      /\ UNCHANGED <<allocated, listed, refcnt, is_dying, target, kept>>
  BY <1>d DEF rcu_unlock_domain, DomainType, NoOp, domainVars
<1>4. CountInv'
  <2>1. ASSUME NEW x \in Head
        PROVE Balanced(c, d, x)
    <3> SUFFICES Value(x)' + Created(x) + kept[x] + Putting(c, x) + Aiming(d, x) =
                 Value(x) + Created(x)' + kept'[x] + Putting(c, x)' + Aiming(d, x)'
      BY DEF Balanced
    <3>1. /\ Value(x) \in Int /\ Created(x) \in Int /\ kept[x] \in Int
          /\ Putting(c, x) \in Int /\ Aiming(d, x) \in Int
      BY CountTypes
    <3>2. Value(x)' = Value(x) /\ Created(x)' = Created(x) /\ kept'[x] = kept[x] /\ Aiming(d, x)' = Aiming(d, x)
      BY <1>3 DEF Value, Created, Aiming
    <3>3. Putting(c, x) = 0 /\ Putting(c, x)' = 0
      BY <1>3 DEF Putting
    <3> QED BY <3>1, <3>2, <3>3
  <2>2. \A x \in Head \ allocated' : refcnt'[x] = DOMAIN_DESTROYED
    BY <1>3 DEF CountInv
  <2>3. /\ \A x \in Cpu \ {c} : op'[x] = op[x]
        /\ \A x \in Head \ {d} : (x \in allocated' <=> x \in allocated) /\ target'[x] = target[x]
    BY <1>d, <1>3
  <2> QED BY <1>2, <2>1, <2>2, <2>3, CountStep
<1>5. OpInv'
  <2>1. \A x \in Cpu : op'[x].at # "none" => x \in reading'
    BY <1>1, <1>3 DEF OpInv
  <2>2. ASSUME NEW x \in Cpu, NEW y \in Head, Uses(x, y)'
        PROVE y \in allocated' /\ (y \in queued' => x \in waits'[y])
    <3>1. x # c /\ Uses(x, y)
      BY <1>3, <2>2 DEF Uses
    <3> QED BY <1>1, <1>3, <3>1 DEF OpInv
  <2>3. is_dying' = is_dying /\ \A x \in Cpu : op'[x].at \in {"destroy", "kill"} => op'[x] = op[x]
    BY <1>3
  <2> QED BY SMTT(30), <2>1, <2>2, <2>3 DEF OpInv
<1>6. DestroyInv'
  BY <1>1, <1>3, DestroyKept
<1> QED BY <1>2, <1>4, <1>5, <1>6

\* A reference is taken.
LEMMA GetInv ==
  ASSUME RcuInv, DomainInv, NEW c \in Cpu, get_domain(c)
  PROVE DomainInv'
<1> USE DEF DomainInv
<1>d. PICK d \in Head : d = op[c].d
  BY DEF get_domain, DomainType
<1>1. UNCHANGED <<reading, waits>> /\ queued' = queued
  BY <1>d, RcuKept DEF get_domain
<1>2. DomainType'
  <2>1. kept' \in [Head -> Nat] /\ \A x \in Head : kept'[x] <= MaxKept
    BY <1>d, DomainConstants DEF get_domain, DomainType
  <2>2. refcnt' \in [Head -> Int]
    BY <1>d DEF get_domain, DomainType
  <2> QED BY <1>d, <2>1, <2>2 DEF get_domain, At, DomainType, Steps
<1>3. /\ op[c].at = "locked" /\ refcnt[d] # DOMAIN_DESTROYED
      /\ op'[c].at = "end" /\ op'[c].d = d /\ \A x \in Cpu \ {c} : op'[x] = op[x]
      /\ refcnt'[d] = refcnt[d] + 1 /\ kept'[d] = kept[d] + 1
      /\ \A x \in Head \ {d} : refcnt'[x] = refcnt[x] /\ kept'[x] = kept[x]
      /\ UNCHANGED <<allocated, listed, is_dying, target>>
  <2>1. op'[c].at = "end" /\ op'[c].d = d /\ \A x \in Cpu \ {c} : op'[x] = op[x]
    BY <1>d, AtMeans DEF get_domain
  <2>2. /\ refcnt'[d] = refcnt[d] + 1 /\ kept'[d] = kept[d] + 1
        /\ \A x \in Head \ {d} : refcnt'[x] = refcnt[x] /\ kept'[x] = kept[x]
    BY <1>d DEF get_domain, DomainType
  <2> QED BY <1>d, <2>1, <2>2 DEF get_domain, Referenced
<1>4. CountInv'
  <2>1. ASSUME NEW x \in Head
        PROVE Balanced(c, d, x)
    <3> SUFFICES Value(x)' + Created(x) + kept[x] + Putting(c, x) + Aiming(d, x) =
                 Value(x) + Created(x)' + kept'[x] + Putting(c, x)' + Aiming(d, x)'
      BY DEF Balanced
    <3>1. /\ Value(x) \in Int /\ Created(x) \in Int /\ kept[x] \in Int
          /\ Putting(c, x) \in Int /\ Aiming(d, x) \in Int
      BY CountTypes
    <3>2. Created(x)' = Created(x) /\ Aiming(d, x)' = Aiming(d, x)
      BY <1>3 DEF Created, Aiming
    <3>3. Putting(c, x) = 0 /\ Putting(c, x)' = 0
      BY <1>3 DEF Putting
    <3>4. x # d => Value(x)' = Value(x) /\ kept'[x] = kept[x]
      BY <1>3 DEF Value
    <3>5. x = d => Value(x)' = Value(x) + 1 /\ kept'[x] = kept[x] + 1
      BY SMTT(30), <1>3, CountMeans DEF Value, DOMAIN_DESTROYED
    <3> QED BY SMTT(30), <3>1, <3>2, <3>3, <3>4, <3>5
  <2>2. \A x \in Head \ allocated' : refcnt'[x] = DOMAIN_DESTROYED
    BY <1>3 DEF CountInv
  <2>3. /\ \A x \in Cpu \ {c} : op'[x] = op[x]
        /\ \A x \in Head \ {d} : (x \in allocated' <=> x \in allocated) /\ target'[x] = target[x]
    BY <1>d, <1>3
  <2> QED BY <1>2, <2>1, <2>2, <2>3, CountStep
<1>5. OpInv'
  <2>1. \A y \in Head : Uses(c, y)' => Uses(c, y) \/ (y \in allocated /\ y \notin queued)
    BY <1>3 DEF Uses
  <2>2. \A y \in Head : is_dying[y] = "dead" => is_dying'[y] = "dead"
    BY <1>3
  <2>3. \A x \in Cpu \ {c} : op[x].at = "kill" => is_dying'[op[x].d] = "dying" /\ op'[c].at # "kill"
    BY <1>3 DEF OpInv
  <2>4. /\ op'[c].at = "destroy" => is_dying'[op'[c].d] = "dead"
        /\ op'[c].at = "kill" => is_dying'[op'[c].d] = "dying"
    BY <1>3
  <2> QED BY <1>1, <1>3, <2>1, <2>2, <2>3, <2>4, OpKept
<1>6. DestroyInv'
  <2>1. \A x \in Head : refcnt[x] = DOMAIN_DESTROYED => refcnt'[x] = DOMAIN_DESTROYED
    BY <1>3
  <2> QED BY <1>1, <1>3, <2>1, DestroyKept
<1> QED BY <1>2, <1>4, <1>5, <1>6

\* A kept reference is about to be dropped: the domain is referenced.
LEMMA DropInv ==
  ASSUME RcuInv, DomainInv, NEW c \in Cpu, NEW d \in Head, drop(c, d)
  PROVE DomainInv'
<1> USE DEF DomainInv
<1>1. reading' = reading \cup {c} /\ UNCHANGED waits /\ queued' = queued
  BY ReadLockRefines DEF drop, Promise!rcu_read_lock, rcu_read_lock
<1>2. DomainType'
  <2>1. kept' \in [Head -> Nat] /\ \A x \in Head : kept'[x] <= MaxKept
    BY DomainConstants DEF drop, DomainType
  <2> QED BY <2>1 DEF drop, At, DomainType, Steps
<1>3. /\ op[c].at = "none" /\ kept[d] # 0
      /\ op'[c].at = "put" /\ op'[c].d = d /\ \A x \in Cpu \ {c} : op'[x] = op[x]
      /\ kept'[d] = kept[d] - 1 /\ \A x \in Head \ {d} : kept'[x] = kept[x]
      /\ UNCHANGED <<allocated, listed, refcnt, is_dying, target>>
  <2>1. op'[c].at = "put" /\ op'[c].d = d /\ \A x \in Cpu \ {c} : op'[x] = op[x]
    BY AtMeans DEF drop
  <2>2. kept[d] # 0 /\ kept'[d] = kept[d] - 1 /\ \A x \in Head \ {d} : kept'[x] = kept[x]
    BY DEF drop, DomainType
  <2>3. op[c] = NoOp /\ NoOp.at = "none"
    BY NoOpMeans DEF drop
  <2>4. op[c].at = "none"
    BY <2>3
  <2>5. UNCHANGED <<allocated, listed, refcnt, is_dying, target>>
    BY DEF drop
  <2> QED BY <2>1, <2>2, <2>4, <2>5
<1>4. CountInv'
  <2>1. ASSUME NEW x \in Head
        PROVE Balanced(c, d, x)
    <3> SUFFICES Value(x)' + Created(x) + kept[x] + Putting(c, x) + Aiming(d, x) =
                 Value(x) + Created(x)' + kept'[x] + Putting(c, x)' + Aiming(d, x)'
      BY DEF Balanced
    <3>1. /\ Value(x) \in Int /\ Created(x) \in Int /\ kept[x] \in Int
          /\ Putting(c, x) \in Int /\ Aiming(d, x) \in Int
      BY CountTypes
    <3>2. Value(x)' = Value(x) /\ Created(x)' = Created(x) /\ Aiming(d, x)' = Aiming(d, x)
      BY <1>3 DEF Value, Created, Aiming
    <3>3. Putting(c, x) = 0 /\ Putting(c, x)' = IF x = d THEN 1 ELSE 0
      BY <1>3 DEF Putting
    <3>4. CASE x = d
      <4>1. kept'[x] = kept[x] - 1 /\ Putting(c, x) = 0 /\ Putting(c, x)' = 1
        BY <1>3, <3>3, <3>4
      <4>2. Value(x) + Created(x) + kept[x] + 0 + Aiming(d, x) =
            Value(x) + Created(x) + (kept[x] - 1) + 1 + Aiming(d, x)
        BY <3>1
      <4> QED BY Zenon, <3>2, <4>1, <4>2
    <3>5. CASE x # d
      <4>1. kept'[x] = kept[x] /\ Putting(c, x)' = 0
        BY <1>3, <3>3, <3>5
      <4> QED BY <3>1, <3>2, <3>3, <4>1
    <3> QED BY <3>4, <3>5
  <2>2. \A x \in Head \ allocated' : refcnt'[x] = DOMAIN_DESTROYED
    BY <1>3 DEF CountInv
  <2>3. /\ \A x \in Cpu \ {c} : op'[x] = op[x]
        /\ \A x \in Head \ {d} : (x \in allocated' <=> x \in allocated) /\ target'[x] = target[x]
    BY <1>3
  <2> QED BY <1>2, <2>1, <2>2, <2>3, CountStep
<1>5. OpInv'
  <2>1. refcnt[d] \notin {DOMAIN_DESTROYED, 0}
    BY <1>3, CountMeans
  <2>2. d \in allocated /\ d \notin queued
    BY <2>1 DEF CountInv, DestroyInv
  <2>3. \A x \in Cpu : op'[x].at # "none" => x \in reading'
    BY <1>1, <1>3 DEF OpInv
  <2>4. ASSUME NEW x \in Cpu, NEW y \in Head, Uses(x, y)'
        PROVE y \in allocated' /\ (y \in queued' => x \in waits'[y])
    <3>1. CASE x = c
      <4>1. y = d
        BY <1>3, <2>4, <3>1 DEF Uses
      <4> QED BY <1>1, <1>3, <2>2, <4>1
    <3>2. CASE x # c
      <4>1. Uses(x, y)
        BY <1>3, <2>4, <3>2 DEF Uses
      <4> QED BY <1>1, <1>3, <4>1 DEF OpInv
    <3> QED BY <3>1, <3>2
  <2>5. is_dying' = is_dying /\ \A x \in Cpu : op'[x].at \in {"destroy", "kill"} => op'[x] = op[x]
    BY <1>3
  <2> QED BY <2>3, <2>4, <2>5 DEF OpInv
<1>6. DestroyInv'
  BY <1>1, <1>3, DestroyKept
<1> QED BY <1>2, <1>4, <1>5, <1>6

\* A reference is dropped; with the last one the domain is dead.
LEMMA PutInv ==
  ASSUME RcuInv, DomainInv, NEW c \in Cpu, put_domain(c)
  PROVE DomainInv'
<1> USE DEF DomainInv
<1>d. PICK d \in Head : d = op[c].d
  BY DEF put_domain, DomainType
<1>1. UNCHANGED <<reading, waits>> /\ queued' = queued
  BY <1>d, RcuKept DEF put_domain
<1>2. DomainType'
  BY SMTT(30), <1>d DEF put_domain, At, domainVars, DomainType, Steps, NoOp, DOMAIN_DESTROYED
<1>3. /\ op[c].at = "put" /\ op'[c].d = d /\ \A x \in Cpu \ {c} : op'[x] = op[x]
      /\ op'[c].at \in {"destroy", "end"} /\ (op'[c].at = "destroy" => refcnt[d] = 1)
      /\ refcnt'[d] = refcnt[d] - 1 /\ \A x \in Head \ {d} : refcnt'[x] = refcnt[x]
      /\ UNCHANGED <<allocated, listed, is_dying, target, kept>>
  <2>0. At(c, IF refcnt[d] = 1 THEN "destroy" ELSE "end", d)
    BY <1>d DEF put_domain
  <2>1. /\ op'[c].at = (IF refcnt[d] = 1 THEN "destroy" ELSE "end") /\ op'[c].d = d
        /\ \A x \in Cpu \ {c} : op'[x] = op[x]
    BY <2>0, AtMeans
  <2> QED BY <1>d, <2>1 DEF put_domain, DomainType
<1>4. CountInv'
  <2>1. ASSUME NEW x \in Head
        PROVE Balanced(c, d, x)
    <3> SUFFICES Value(x)' + Created(x) + kept[x] + Putting(c, x) + Aiming(d, x) =
                 Value(x) + Created(x)' + kept'[x] + Putting(c, x)' + Aiming(d, x)'
      BY DEF Balanced
    <3>1. /\ Value(x) \in Int /\ Created(x) \in Int /\ kept[x] \in Int
          /\ Putting(c, x) \in Int /\ Aiming(d, x) \in Int
      BY CountTypes
    <3>2. kept'[x] = kept[x] /\ Created(x)' = Created(x) /\ Aiming(d, x)' = Aiming(d, x)
      BY <1>3 DEF Created, Aiming
    <3>3. Putting(c, x)' = 0 /\ Putting(c, x) = IF x = d THEN 1 ELSE 0
      BY <1>d, <1>3 DEF Putting
    <3>4. x # d => Value(x)' = Value(x)
      BY <1>3 DEF Value
    <3>5. x = d => Value(x)' = Value(x) - 1
      BY SMTT(30), <1>d, <1>3, CountMeans DEF Value, DOMAIN_DESTROYED
    <3> QED BY SMTT(30), <3>1, <3>2, <3>3, <3>4, <3>5
  <2>2. \A x \in Head \ allocated' : refcnt'[x] = DOMAIN_DESTROYED
    <3>1. d \in allocated
      BY <1>d, <1>3 DEF OpInv, Uses
    <3> QED BY <1>3, <3>1 DEF CountInv
  <2>3. /\ \A x \in Cpu \ {c} : op'[x] = op[x]
        /\ \A x \in Head \ {d} : (x \in allocated' <=> x \in allocated) /\ target'[x] = target[x]
    BY <1>d, <1>3
  <2> QED BY <1>2, <2>1, <2>2, <2>3, CountStep
<1>5. OpInv'
  <2>1. \A y \in Head : Uses(c, y)' => Uses(c, y) \/ (y \in allocated /\ y \notin queued)
    BY <1>d, <1>3 DEF Uses
  <2>2. \A y \in Head : is_dying[y] = "dead" => is_dying'[y] = "dead"
    BY <1>3
  <2>3. \A x \in Cpu \ {c} : op[x].at = "kill" => is_dying'[op[x].d] = "dying" /\ op'[c].at # "kill"
    BY <1>3 DEF OpInv
  <2>4. /\ op'[c].at = "destroy" => is_dying'[op'[c].d] = "dead"
        /\ op'[c].at = "kill" => is_dying'[op'[c].d] = "dying"
    BY <1>d, <1>3, CountMeans
  <2> QED BY <1>1, <1>3, <2>1, <2>2, <2>3, <2>4, OpKept
<1>6. DestroyInv'
  <2>1. \A x \in Head : refcnt[x] = DOMAIN_DESTROYED => refcnt'[x] = DOMAIN_DESTROYED
    BY <1>d, <1>3, CountMeans
  <2> QED BY <1>1, <1>3, <2>1, DestroyKept
<1> QED BY <1>2, <1>4, <1>5, <1>6

=============================================================================
