-------------------------- MODULE DomainLifeSteps --------------------------
(***************************************************************************)
(* The steps of domain_destroy(), of the callback and of domctls keep the   *)
(* invariant of the lives of domains.                                      *)
(***************************************************************************)
EXTENDS DomainLifeInv

\* One CPU swaps zero for DOMAIN_DESTROYED.
LEMMA DestroyingInv ==
  ASSUME RcuInv, DomainInv, NEW c \in Cpu, domain_destroy(c)
  PROVE DomainInv'
<1> USE DEF DomainInv
<1>d. PICK d \in Head : d = op[c].d
  BY DEF domain_destroy, DomainType
<1>1. UNCHANGED <<reading, waits>> /\ queued' = queued
  BY <1>d, RcuKept DEF domain_destroy
<1>2. DomainType'
  BY <1>d DEF domain_destroy, At, domainVars, DomainType, Steps, NoOp, DOMAIN_DESTROYED
<1>3. /\ op[c].at = "destroy" /\ op'[c].d = d /\ \A x \in Cpu \ {c} : op'[x] = op[x]
      /\ op'[c].at \in {"unlink", "end"} /\ (op'[c].at = "end" => refcnt'[d] = refcnt[d])
      /\ op'[c].at = "unlink" => refcnt[d] = 0 /\ refcnt'[d] = DOMAIN_DESTROYED
      /\ \A x \in Head \ {d} : refcnt'[x] = refcnt[x]
      /\ UNCHANGED <<allocated, listed, is_dying, target, kept>>
  BY <1>d, AtMeans DEF domain_destroy, DomainType, NoOp, NoDomctl, Referenced, domainVars
<1>4. CountInv'
  <2>1. ASSUME NEW x \in Head
        PROVE Balanced(c, d, x)
    <3> SUFFICES Value(x)' + Created(x) + kept[x] + Putting(c, x) + Aiming(d, x) =
                 Value(x) + Created(x)' + kept'[x] + Putting(c, x)' + Aiming(d, x)'
      BY DEF Balanced
    <3>1. /\ Value(x) \in Int /\ Created(x) \in Int /\ kept[x] \in Int
          /\ Putting(c, x) \in Int /\ Aiming(d, x) \in Int
      BY CountTypes
    <3>2. Created(x)' = Created(x) /\ kept'[x] = kept[x] /\ Aiming(d, x)' = Aiming(d, x)
      BY <1>3 DEF Created, Aiming
    <3>3. Value(x)' = Value(x)
      BY <1>3 DEF Value, DOMAIN_DESTROYED
    <3>4. Putting(c, x) = 0 /\ Putting(c, x)' = 0
      BY <1>3 DEF Putting
    <3> QED BY <3>1, <3>2, <3>3, <3>4
  <2>2. \A x \in Head \ allocated' : refcnt'[x] = DOMAIN_DESTROYED
    <3>1. d \in allocated
      BY <1>d, <1>3 DEF OpInv, Uses
    <3> QED BY <1>3, <3>1 DEF CountInv
  <2>3. /\ \A x \in Cpu \ {c} : op'[x] = op[x]
        /\ \A x \in Head \ {d} : (x \in allocated' <=> x \in allocated) /\ target'[x] = target[x]
    BY <1>d, <1>3
  <2> QED BY <1>2, <2>1, <2>2, <2>3, CountStep
<1>5. OpInv'
  <2>1. \A y \in Head : Uses(c, y)' => Uses(c, y) \/ (y \in allocated /\ y \notin queued)
    BY <1>d, <1>3 DEF Uses
  <2>2. \A y \in Head : is_dying[y] = "dead" => is_dying'[y] = "dead"
    BY <1>3
  <2>3. \A x \in Cpu \ {c} : op[x].at = "kill" => is_dying'[op[x].d] = "dying" /\ op'[c].at # "kill"
    BY <1>3 DEF OpInv
  <2>4. /\ op'[c].at = "destroy" => is_dying'[op'[c].d] = "dead"
        /\ op'[c].at = "kill" => is_dying'[op'[c].d] = "dying"
    BY <1>3
  <2> QED BY <1>1, <1>3, <2>1, <2>2, <2>3, <2>4, OpKept
<1>6. DestroyInv'
  BY <1>d, <1>1, <1>3 DEF DestroyInv, OpInv, Uses, DomainType, DOMAIN_DESTROYED
<1> QED BY <1>2, <1>4, <1>5, <1>6

\* The domain leaves the list.
LEMMA UnlinkInv ==
  ASSUME RcuInv, DomainInv, NEW c \in Cpu, unlink(c)
  PROVE DomainInv'
<1> USE DEF DomainInv
<1>d. PICK d \in Head : d = op[c].d
  BY DEF unlink, DomainType
<1>1. UNCHANGED <<reading, waits>> /\ queued' = queued
  BY <1>d, RcuKept DEF unlink
<1>2. DomainType'
  BY <1>d DEF unlink, At, domainVars, DomainType, Steps, NoOp, DOMAIN_DESTROYED
<1>3. /\ op[c].at = "unlink" /\ op'[c].at = "call" /\ op'[c].d = d /\ \A x \in Cpu \ {c} : op'[x] = op[x]
      /\ listed' = listed \ {d}
      /\ UNCHANGED <<allocated, refcnt, is_dying, target, kept>>
  BY <1>d, AtMeans DEF unlink, DomainType, NoOp, NoDomctl, Referenced, domainVars
<1>4. CountInv'
  <2>1. ASSUME NEW x \in Head
        PROVE Balanced(c, d, x)
    <3> SUFFICES Value(x)' + Created(x) + kept[x] + Putting(c, x) + Aiming(d, x) =
                 Value(x) + Created(x)' + kept'[x] + Putting(c, x)' + Aiming(d, x)'
      BY DEF Balanced
    <3>1. /\ Value(x) \in Int /\ Created(x) \in Int /\ kept[x] \in Int
          /\ Putting(c, x) \in Int /\ Aiming(d, x) \in Int
      BY CountTypes
    <3>2. Value(x)' = Value(x) /\ Created(x)' = Created(x) /\ kept'[x] = kept[x] /\ Aiming(d, x)' = Aiming(d, x)
      BY <1>3 DEF Value, Created, Aiming
    <3>3. Putting(c, x) = 0 /\ Putting(c, x)' = 0
      BY <1>3 DEF Putting
    <3> QED BY <3>1, <3>2, <3>3
  <2>2. \A x \in Head \ allocated' : refcnt'[x] = DOMAIN_DESTROYED
    BY <1>3 DEF CountInv
  <2>3. /\ \A x \in Cpu \ {c} : op'[x] = op[x]
        /\ \A x \in Head \ {d} : (x \in allocated' <=> x \in allocated) /\ target'[x] = target[x]
    BY <1>d, <1>3
  <2> QED BY <1>2, <2>1, <2>2, <2>3, CountStep
<1>5. OpInv'
  <2>1. \A y \in Head : Uses(c, y)' => Uses(c, y) \/ (y \in allocated /\ y \notin queued)
    BY <1>d, <1>3 DEF Uses
  <2>2. \A y \in Head : is_dying[y] = "dead" => is_dying'[y] = "dead"
    BY <1>3
  <2>3. \A x \in Cpu \ {c} : op[x].at = "kill" => is_dying'[op[x].d] = "dying" /\ op'[c].at # "kill"
    BY <1>3 DEF OpInv
  <2>4. /\ op'[c].at = "destroy" => is_dying'[op'[c].d] = "dead"
        /\ op'[c].at = "kill" => is_dying'[op'[c].d] = "dying"
    BY <1>3
  <2> QED BY <1>1, <1>3, <2>1, <2>2, <2>3, <2>4, OpKept
<1>6. DestroyInv'
  BY <1>d, <1>1, <1>3 DEF DestroyInv, OpInv, Uses, DomainType, DOMAIN_DESTROYED
<1> QED BY <1>2, <1>4, <1>5, <1>6

\* The callback is queued: whoever still uses the domain is waited for.
LEMMA QueueInv ==
  ASSUME RcuInv, DomainInv, NEW c \in Cpu, call(c)
  PROVE DomainInv'
<1> USE DEF DomainInv
<1>d. PICK d \in Head : d = op[c].d
  BY DEF call, DomainType
<1>1. UNCHANGED reading /\ waits' = [waits EXCEPT ![d] = reading] /\ queued' = queued \cup {d}
  BY <1>d, CallRefines DEF call, Promise!call_rcu, DomainType, OpInv, DestroyInv
<1>2. DomainType'
  BY <1>d DEF call, At, domainVars, DomainType, Steps, NoOp, DOMAIN_DESTROYED
<1>3. /\ op[c].at = "call" /\ op'[c].at = "end" /\ op'[c].d = d /\ \A x \in Cpu \ {c} : op'[x] = op[x]
      /\ UNCHANGED <<allocated, listed, refcnt, is_dying, target, kept>>
  BY <1>d, AtMeans DEF call, DomainType, NoOp, NoDomctl, Referenced, domainVars
<1>4. CountInv'
  <2>1. ASSUME NEW x \in Head
        PROVE Balanced(c, d, x)
    <3> SUFFICES Value(x)' + Created(x) + kept[x] + Putting(c, x) + Aiming(d, x) =
                 Value(x) + Created(x)' + kept'[x] + Putting(c, x)' + Aiming(d, x)'
      BY DEF Balanced
    <3>1. /\ Value(x) \in Int /\ Created(x) \in Int /\ kept[x] \in Int
          /\ Putting(c, x) \in Int /\ Aiming(d, x) \in Int
      BY CountTypes
    <3>2. Value(x)' = Value(x) /\ Created(x)' = Created(x) /\ kept'[x] = kept[x] /\ Aiming(d, x)' = Aiming(d, x)
      BY <1>3 DEF Value, Created, Aiming
    <3>3. Putting(c, x) = 0 /\ Putting(c, x)' = 0
      BY <1>3 DEF Putting
    <3> QED BY <3>1, <3>2, <3>3
  <2>2. \A x \in Head \ allocated' : refcnt'[x] = DOMAIN_DESTROYED
    BY <1>3 DEF CountInv
  <2>3. /\ \A x \in Cpu \ {c} : op'[x] = op[x]
        /\ \A x \in Head \ {d} : (x \in allocated' <=> x \in allocated) /\ target'[x] = target[x]
    BY <1>d, <1>3
  <2> QED BY <1>2, <2>1, <2>2, <2>3, CountStep
<1>5. OpInv'
  <2>1. \A x \in Cpu : op'[x].at # "none" => x \in reading'
    BY <1>d, <1>1, <1>3 DEF OpInv
  <2>2. \A x \in Cpu, y \in Head : Uses(x, y)' => y \in allocated' /\ (y \in queued' => x \in waits'[y])
    <3>1. waits \in [Head -> SUBSET Cpu]
      BY DEF RcuInv, RcuTypeOK
    <3>2. ASSUME NEW x \in Cpu, NEW y \in Head, Uses(x, y)' PROVE Uses(x, y)
      BY <1>3, <3>2 DEF Uses
    <3>3. ASSUME NEW x \in Cpu, Uses(x, d) PROVE x \in waits'[d]
      BY <1>1, <3>1, <3>3 DEF Uses, OpInv
    <3>4. \A y \in Head \ {d} : waits'[y] = waits[y] /\ (y \in queued' <=> y \in queued)
      BY <1>1, <3>1
    <3> QED BY <1>3, <3>2, <3>3, <3>4 DEF OpInv
  <2>3. is_dying' = is_dying /\ \A x \in Cpu : op'[x].at \in {"destroy", "kill"} => op'[x] = op[x]
    BY <1>3
  <2> QED BY <2>1, <2>2, <2>3 DEF OpInv
<1>6. DestroyInv'
  <2>1. \A x \in Cpu : op'[x].at \in {"unlink", "call"} => op'[x] = op[x] /\ op[x].d # d
    BY <1>d, <1>3 DEF DestroyInv
  <2>2. d \in allocated \ listed /\ refcnt[d] = DOMAIN_DESTROYED
    BY <1>d, <1>3 DEF DestroyInv, OpInv, Uses
  <2> QED BY <1>1, <1>3, <2>1, <2>2 DEF DestroyInv
<1> QED BY <1>2, <1>4, <1>5, <1>6

\* The domain is freed: nobody uses it.
LEMMA FreeInv ==
  ASSUME RcuInv, DomainInv, NEW c \in Cpu, NEW d \in Head, complete_domain_destroy(c, d)
  PROVE DomainInv'
<1> USE DEF DomainInv
<1>1. /\ c \notin reading /\ reading' = reading \cup {c} /\ UNCHANGED waits
      /\ d \in queued /\ waits[d] = {} /\ queued' = queued \ {d}
  BY InvokeRefines DEF complete_domain_destroy, Promise!invoke
<1>2. DomainType'
  BY DEF complete_domain_destroy, At, domainVars, DomainType, Steps, NoOp, DOMAIN_DESTROYED
<1>3. /\ op'[c].at \in {"end", "put"} /\ (op'[c].at = "end" => target[d] = None /\ op'[c].d = d)
      /\ op'[c].at = "put" => target[d] \in Head /\ op'[c].d = target[d]
      /\ \A x \in Cpu \ {c} : op'[x] = op[x]
      /\ allocated' = allocated \ {d} /\ target'[d] = None /\ \A x \in Head \ {d} : target'[x] = target[x]
      /\ UNCHANGED <<listed, refcnt, is_dying, kept>>
  BY SMTT(30), AtMeans DEF complete_domain_destroy, DomainType, NoOp, NoDomctl, Referenced, domainVars
<1>4. CountInv'
  <2>1. ASSUME NEW x \in Head
        PROVE Balanced(c, d, x)
    <3> SUFFICES Value(x)' + Created(x) + kept[x] + Putting(c, x) + Aiming(d, x) =
                 Value(x) + Created(x)' + kept'[x] + Putting(c, x)' + Aiming(d, x)'
      BY DEF Balanced
    <3>1. /\ Value(x) \in Int /\ Created(x) \in Int /\ kept[x] \in Int
          /\ Putting(c, x) \in Int /\ Aiming(d, x) \in Int
      BY CountTypes
    <3>2. kept'[x] = kept[x] /\ Created(x)' = Created(x) /\ Value(x)' = Value(x)
      BY <1>3 DEF Created, Value
    <3>3. Putting(c, x) = 0 /\ Aiming(d, x)' = 0
      BY <1>1, <1>3, DomainConstants DEF Putting, Aiming, OpInv
    <3>4. Putting(c, x)' = Aiming(d, x)
      BY <1>1, <1>3, DomainConstants DEF Putting, Aiming, DestroyInv
    <3> QED BY <3>1, <3>2, <3>3, <3>4
  <2>2. \A x \in Head \ allocated' : refcnt'[x] = DOMAIN_DESTROYED
    BY <1>1, <1>3 DEF CountInv, DestroyInv
  <2>3. /\ \A x \in Cpu \ {c} : op'[x] = op[x]
        /\ \A x \in Head \ {d} : (x \in allocated' <=> x \in allocated) /\ target'[x] = target[x]
    BY <1>3
  <2> QED BY <1>2, <2>1, <2>2, <2>3, CountStep
<1>5. OpInv'
  <2>1. op[c].at = "none"
    BY <1>1 DEF OpInv
  <2>2. d \in allocated /\ refcnt[d] = DOMAIN_DESTROYED
    BY <1>1 DEF DestroyInv
  <2>3. op'[c].at = "put" => op'[c].d \in allocated \ {d} /\ op'[c].d \notin queued
    <3>1. op'[c].at = "put" => refcnt[target[d]] \notin {DOMAIN_DESTROYED, 0}
      BY <1>3, <2>2, CountMeans
    <3> QED BY <1>3, <2>2, <3>1 DEF CountInv, DestroyInv
  <2>4. \A x \in Cpu : op'[x].at # "none" => x \in reading'
    BY <1>1, <1>3 DEF OpInv
  <2>5. ASSUME NEW x \in Cpu \ {c}, NEW y \in Head, Uses(x, y)
        PROVE y \in allocated' /\ (y \in queued' => x \in waits'[y])
    BY <1>1, <1>3, <2>5 DEF OpInv
  <2>6. ASSUME NEW x \in Cpu, NEW y \in Head, Uses(x, y)'
        PROVE y \in allocated' /\ (y \in queued' => x \in waits'[y])
    <3>1. CASE x = c
      <4>1. op'[c].at = "put" /\ y = op'[c].d
        BY <1>3, <2>6, <3>1 DEF Uses
      <4> QED BY <1>1, <1>3, <2>3, <4>1
    <3>2. CASE x # c
      <4>1. Uses(x, y)
        BY <1>3, <2>6, <3>2 DEF Uses
      <4> QED BY <2>5, <3>2, <4>1
    <3> QED BY <3>1, <3>2
  <2>7. is_dying' = is_dying /\ \A x \in Cpu : op'[x].at \in {"destroy", "kill"} => op'[x] = op[x]
    BY <1>3
  <2> QED BY <2>4, <2>6, <2>7 DEF OpInv
<1>6. DestroyInv'
  <2>1. \A x \in Cpu : op'[x].at \in {"unlink", "call"} => op'[x] = op[x]
    BY <1>3
  <2>2. d \notin listed
    BY <1>1 DEF DestroyInv
  <2> QED BY <1>1, <1>3, <2>1, <2>2 DEF DestroyInv
<1> QED BY <1>2, <1>4, <1>5, <1>6

\* A domain is killed, by one CPU at a time.
LEMMA KillInv ==
  ASSUME RcuInv, DomainInv, NEW c \in Cpu, domain_kill(c)
  PROVE DomainInv'
<1> USE DEF DomainInv
<1>d. PICK d \in Head : d = op[c].d
  BY DEF domain_kill, DomainType
<1>1. UNCHANGED <<reading, waits>> /\ queued' = queued
  BY <1>d, RcuKept DEF domain_kill
<1>2. DomainType'
  BY <1>d DEF domain_kill, At, domainVars, DomainType, Steps, NoOp, DOMAIN_DESTROYED
<1>3. /\ op[c].at = "locked" /\ op'[c].d = d /\ \A x \in Cpu \ {c} : op'[x] = op[x] /\ op[x].at # "kill"
      /\ op'[c].at \in {"end", "kill"} /\ (op'[c].at = "end" => is_dying'[d] = is_dying[d])
      /\ op'[c].at = "kill" => is_dying[d] # "dead" /\ is_dying'[d] = "dying"
      /\ \A x \in Head \ {d} : is_dying'[x] = is_dying[x]
      /\ UNCHANGED <<allocated, listed, refcnt, target, kept>>
  <2>1. CASE At(c, "end", d) /\ UNCHANGED is_dying
    <3>1. op'[c].at = "end" /\ op'[c].d = d /\ \A x \in Cpu \ {c} : op'[x] = op[x]
      BY <2>1, AtMeans
    <3> QED BY <1>d, <2>1, <3>1 DEF domain_kill, NoDomctl
  <2>2. CASE At(c, "kill", d) /\ is_dying[d] # "dead" /\ is_dying' = [is_dying EXCEPT ![d] = "dying"]
    <3>1. op'[c].at = "kill" /\ op'[c].d = d /\ \A x \in Cpu \ {c} : op'[x] = op[x]
      BY <2>2, AtMeans
    <3> QED BY <1>d, <2>2, <3>1 DEF domain_kill, NoDomctl, DomainType
  <2> QED BY <1>d, <2>1, <2>2 DEF domain_kill
<1>4. CountInv'
  <2>1. ASSUME NEW x \in Head
        PROVE Balanced(c, d, x)
    <3> SUFFICES Value(x)' + Created(x) + kept[x] + Putting(c, x) + Aiming(d, x) =
                 Value(x) + Created(x)' + kept'[x] + Putting(c, x)' + Aiming(d, x)'
      BY DEF Balanced
    <3>1. /\ Value(x) \in Int /\ Created(x) \in Int /\ kept[x] \in Int
          /\ Putting(c, x) \in Int /\ Aiming(d, x) \in Int
      BY CountTypes
    <3>2. Value(x)' = Value(x) /\ kept'[x] = kept[x] /\ Aiming(d, x)' = Aiming(d, x)
      BY <1>3 DEF Value, Aiming
    <3>3. Created(x)' = Created(x)
      BY <1>3 DEF Created
    <3>4. Putting(c, x) = 0 /\ Putting(c, x)' = 0
      BY <1>3 DEF Putting
    <3> QED BY <3>1, <3>2, <3>3, <3>4
  <2>2. \A x \in Head \ allocated' : refcnt'[x] = DOMAIN_DESTROYED
    BY <1>3 DEF CountInv
  <2>3. /\ \A x \in Cpu \ {c} : op'[x] = op[x]
        /\ \A x \in Head \ {d} : (x \in allocated' <=> x \in allocated) /\ target'[x] = target[x]
    BY <1>d, <1>3
  <2> QED BY <1>2, <2>1, <2>2, <2>3, CountStep
<1>5. OpInv'
  <2>1. \A y \in Head : Uses(c, y)' => Uses(c, y) \/ (y \in allocated /\ y \notin queued)
    BY <1>d, <1>3 DEF Uses
  <2>2. \A y \in Head : is_dying[y] = "dead" => is_dying'[y] = "dead"
    BY <1>3
  <2>3. \A x \in Cpu \ {c} : op[x].at = "kill" => is_dying'[op[x].d] = "dying" /\ op'[c].at # "kill"
    BY <1>3
  <2>4. /\ op'[c].at = "destroy" => is_dying'[op'[c].d] = "dead"
        /\ op'[c].at = "kill" => is_dying'[op'[c].d] = "dying"
    BY <1>3
  <2> QED BY <1>1, <1>3, <2>1, <2>2, <2>3, <2>4, OpKept
<1>6. DestroyInv'
  BY <1>1, <1>3, DestroyKept
<1> QED BY <1>2, <1>4, <1>5, <1>6

\* Killing ends, or is to go on later.
LEMMA RelinquishedInv ==
  ASSUME RcuInv, DomainInv, NEW c \in Cpu, relinquished(c)
  PROVE DomainInv'
<1> USE DEF DomainInv
<1>d. PICK d \in Head : d = op[c].d
  BY DEF relinquished, DomainType
<1>1. UNCHANGED <<reading, waits>> /\ queued' = queued
  BY <1>d, RcuKept DEF relinquished
<1>2. DomainType'
  BY <1>d DEF relinquished, At, domainVars, DomainType, Steps, NoOp, DOMAIN_DESTROYED
<1>3. /\ op[c].at = "kill" /\ op'[c].d = d /\ \A x \in Cpu \ {c} : op'[x] = op[x]
      /\ op'[c].at \in {"end", "put"} /\ (op'[c].at = "end" => is_dying'[d] = is_dying[d])
      /\ op'[c].at = "put" => is_dying'[d] = "dead"
      /\ \A x \in Head \ {d} : is_dying'[x] = is_dying[x]
      /\ UNCHANGED <<allocated, listed, refcnt, target, kept>>
  <2>1. CASE At(c, "end", d) /\ UNCHANGED is_dying
    BY <1>d, <2>1, AtMeans DEF relinquished
  <2>2. CASE At(c, "put", d) /\ is_dying' = [is_dying EXCEPT ![d] = "dead"]
    <3>1. op'[c].at = "put" /\ op'[c].d = d /\ \A x \in Cpu \ {c} : op'[x] = op[x]
      BY <2>2, AtMeans
    <3> QED BY <1>d, <2>2, <3>1 DEF relinquished, DomainType
  <2> QED BY <1>d, <2>1, <2>2 DEF relinquished
<1>4. CountInv'
  <2>1. ASSUME NEW x \in Head
        PROVE Balanced(c, d, x)
    <3> SUFFICES Value(x)' + Created(x) + kept[x] + Putting(c, x) + Aiming(d, x) =
                 Value(x) + Created(x)' + kept'[x] + Putting(c, x)' + Aiming(d, x)'
      BY DEF Balanced
    <3>1. /\ Value(x) \in Int /\ Created(x) \in Int /\ kept[x] \in Int
          /\ Putting(c, x) \in Int /\ Aiming(d, x) \in Int
      BY CountTypes
    <3>2. Value(x)' = Value(x) /\ kept'[x] = kept[x] /\ Aiming(d, x)' = Aiming(d, x)
      BY <1>3 DEF Value, Aiming
    <3>3. is_dying[d] = "dying"
      BY <1>d, <1>3 DEF OpInv
    <3>4. Created(x)' = IF x = d /\ op'[c].at = "put" THEN Created(x) - 1 ELSE Created(x)
      BY <1>3, <3>3 DEF Created
    <3>5. Putting(c, x) = 0 /\ Putting(c, x)' = IF x = d /\ op'[c].at = "put" THEN 1 ELSE 0
      BY <1>3 DEF Putting
    <3> QED BY <3>1, <3>2, <3>3, <3>4, <3>5
  <2>2. \A x \in Head \ allocated' : refcnt'[x] = DOMAIN_DESTROYED
    BY <1>3 DEF CountInv
  <2>3. /\ \A x \in Cpu \ {c} : op'[x] = op[x]
        /\ \A x \in Head \ {d} : (x \in allocated' <=> x \in allocated) /\ target'[x] = target[x]
    BY <1>d, <1>3
  <2> QED BY <1>2, <2>1, <2>2, <2>3, CountStep
<1>5. OpInv'
  <2>1. \A y \in Head : Uses(c, y)' => Uses(c, y) \/ (y \in allocated /\ y \notin queued)
    BY <1>d, <1>3 DEF Uses
  <2>2. \A y \in Head : is_dying[y] = "dead" => is_dying'[y] = "dead"
    BY <1>3
  <2>3. \A x \in Cpu \ {c} : op[x].at = "kill" => is_dying'[op[x].d] = "dying" /\ op'[c].at # "kill"
    BY <1>3 DEF OpInv
  <2>4. /\ op'[c].at = "destroy" => is_dying'[op'[c].d] = "dead"
        /\ op'[c].at = "kill" => is_dying'[op'[c].d] = "dying"
    BY <1>3
  <2> QED BY <1>1, <1>3, <2>1, <2>2, <2>3, <2>4, OpKept
<1>6. DestroyInv'
  BY <1>1, <1>3, DestroyKept
<1> QED BY <1>2, <1>4, <1>5, <1>6

\* A domain becomes a target, or the reference to it is about to be dropped again.
LEMMA SetTargetInv ==
  ASSUME RcuInv, DomainInv, NEW c \in Cpu, NEW e \in Head, set_target(c, e)
  PROVE DomainInv'
<1> USE DEF DomainInv
<1>d. PICK d \in Head : d = op[c].d
  BY DEF set_target, DomainType
<1>1. UNCHANGED <<reading, waits>> /\ queued' = queued
  BY <1>d, RcuKept DEF set_target
<1>2. DomainType'
  <2>1. refcnt' \in [Head -> Int]
    BY DEF set_target, DomainType
  <2>2. CASE At(c, "put", e) /\ UNCHANGED target
    BY <2>1, <2>2 DEF set_target, At, DomainType, Steps
  <2>3. CASE At(c, "end", d) /\ target' = [target EXCEPT ![d] = e]
    BY <2>1, <2>3 DEF set_target, At, DomainType, Steps
  <2> QED BY <1>d, <2>2, <2>3 DEF set_target
<1>3. /\ op[c].at = "locked" /\ e \in listed /\ refcnt[e] # DOMAIN_DESTROYED /\ \A x \in Cpu \ {c} : op'[x] = op[x]
      /\ op'[c].at \in {"put", "end"}
      /\ op'[c].at = "put" => op'[c].d = e /\ target'[d] = target[d]
      /\ op'[c].at = "end" => op'[c].d = d /\ d # e /\ target[d] = None /\ target'[d] = e
      /\ \A x \in Head \ {d} : target'[x] = target[x]
      /\ refcnt'[e] = refcnt[e] + 1 /\ \A x \in Head \ {e} : refcnt'[x] = refcnt[x]
      /\ UNCHANGED <<allocated, listed, is_dying, kept>>
  <2>1. refcnt'[e] = refcnt[e] + 1 /\ \A x \in Head \ {e} : refcnt'[x] = refcnt[x]
    BY DEF set_target, DomainType
  <2>2. CASE At(c, "put", e) /\ UNCHANGED target
    <3>1. op'[c].at = "put" /\ op'[c].d = e /\ \A x \in Cpu \ {c} : op'[x] = op[x]
      BY <2>2, AtMeans
    <3> QED BY <2>1, <2>2, <3>1 DEF set_target, Referenced
  <2>3. CASE At(c, "end", d) /\ d # e /\ target[d] = None /\ target' = [target EXCEPT ![d] = e]
    <3>1. op'[c].at = "end" /\ op'[c].d = d /\ \A x \in Cpu \ {c} : op'[x] = op[x]
      BY <2>3, AtMeans
    <3> QED BY <2>1, <2>3, <3>1 DEF set_target, Referenced, DomainType
  <2> QED BY <1>d, <2>2, <2>3 DEF set_target
<1>4. CountInv'
  <2>1. ASSUME NEW x \in Head
        PROVE Balanced(c, d, x)
    <3> SUFFICES Value(x)' + Created(x) + kept[x] + Putting(c, x) + Aiming(d, x) =
                 Value(x) + Created(x)' + kept'[x] + Putting(c, x)' + Aiming(d, x)'
      BY DEF Balanced
    <3>1. /\ Value(x) \in Int /\ Created(x) \in Int /\ kept[x] \in Int
          /\ Putting(c, x) \in Int /\ Aiming(d, x) \in Int
      BY CountTypes
    <3>2. kept'[x] = kept[x] /\ Created(x)' = Created(x) /\ Putting(c, x) = 0
      BY <1>3 DEF Created, Putting
    <3>3. x # e => Value(x)' = Value(x)
      BY <1>3 DEF Value
    <3>4. x = e => Value(x)' = Value(x) + 1
      <4>1. refcnt[e] \in Nat
        BY <1>3, CountMeans
      <4> QED BY SMTT(30), <1>3, <4>1 DEF Value, DOMAIN_DESTROYED
    <3>5. CASE op'[c].at = "put"
      <4>1. Aiming(d, x)' = Aiming(d, x) /\ Putting(c, x)' = IF x = e THEN 1 ELSE 0
        BY <1>3, <3>5 DEF Aiming, Putting
      <4> QED BY SMTT(30), <3>1, <3>2, <3>3, <3>4, <4>1
    <3>6. CASE op'[c].at = "end"
      <4>1. Putting(c, x)' = 0 /\ Aiming(d, x) = 0 /\ Aiming(d, x)' = IF x = e THEN 1 ELSE 0
        <5>1. d \in allocated
          BY <1>d, <1>3 DEF OpInv, Uses
        <5> QED BY <1>3, <3>6, <5>1, DomainConstants DEF Aiming, Putting
      <4> QED BY SMTT(30), <3>1, <3>2, <3>3, <3>4, <4>1
    <3> QED BY <1>3, <3>5, <3>6
  <2>2. \A x \in Head \ allocated' : refcnt'[x] = DOMAIN_DESTROYED
    BY <1>3 DEF CountInv
  <2>3. /\ \A x \in Cpu \ {c} : op'[x] = op[x]
        /\ \A x \in Head \ {d} : (x \in allocated' <=> x \in allocated) /\ target'[x] = target[x]
    BY <1>d, <1>3
  <2> QED BY <1>2, <2>1, <2>2, <2>3, CountStep
<1>5. OpInv'
  <2>1. \A y \in Head : Uses(c, y)' => Uses(c, y) \/ (y \in allocated /\ y \notin queued)
    BY <1>3 DEF Uses, DestroyInv
  <2>2. \A y \in Head : is_dying[y] = "dead" => is_dying'[y] = "dead"
    BY <1>3
  <2>3. \A x \in Cpu \ {c} : op[x].at = "kill" => is_dying'[op[x].d] = "dying" /\ op'[c].at # "kill"
    BY <1>3 DEF OpInv
  <2>4. /\ op'[c].at = "destroy" => is_dying'[op'[c].d] = "dead"
        /\ op'[c].at = "kill" => is_dying'[op'[c].d] = "dying"
    BY <1>3
  <2> QED BY <1>1, <1>3, <2>1, <2>2, <2>3, <2>4, OpKept
<1>6. DestroyInv'
  <2>1. \A x \in Head : refcnt[x] = DOMAIN_DESTROYED => refcnt'[x] = DOMAIN_DESTROYED
    BY <1>3
  <2> QED BY <1>1, <1>3, <2>1, DestroyKept
<1> QED BY <1>2, <1>4, <1>5, <1>6

=============================================================================
