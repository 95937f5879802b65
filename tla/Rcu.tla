-------------------------------- MODULE Rcu ---------------------------------
(***************************************************************************)
(* Read-copy update: xen/common/rcupdate.c, run from do_softirq().          *)
(*                                                                         *)
(* rcu_read_lock() and rcu_read_unlock() generate no code. What they rely   *)
(* on is that a CPU which has begun an operation does not come back to      *)
(* do_softirq() before it has finished it. The lists of callbacks are sets: *)
(* nothing depends on their order.                                         *)
(***************************************************************************)
EXTENDS Integers, FiniteSets

CONSTANTS Cpu,      \* physical CPUs, all online
          Head,     \* struct rcu_head
          Period,   \* batch numbers are of type long: they wrap at this number
          First,    \* the first batch number, chosen so that they soon do
          blimit,   \* callbacks invoked in one softirq
          None

ASSUME RcuConstants ==
  /\ IsFiniteSet(Cpu) /\ None \notin Cpu /\ Cpu # {}
  /\ Period \in Nat /\ Period >= 4 /\ First \in 0..(Period - 1)
  /\ blimit \in Nat \ {0}

VARIABLES
  cur, completed, next_pending, cpumask,   \* rcu_ctrlblk
  lock,                                    \* the holder of rcu_ctrlblk.lock
  quiescbatch, qs_pending, batch, nxtlist, curlist, donelist,   \* rcu_data of a CPU
  place,       \* where a CPU is in __rcu_process_callbacks()
  count,       \* the callbacks it has invoked in rcu_do_batch()
  reading,     \* the CPUs in a read-side critical section or in a callback
  waits        \* history: the sections that were executing when a callback was queued

ctrlVars == <<cur, completed, next_pending, cpumask, lock>>
listVars == <<nxtlist, curlist, donelist>>
rcuVars == <<ctrlVars, quiescbatch, qs_pending, batch, listVars, place, count, reading, waits>>

-----------------------------------------------------------------------------

NextBatch(b) == IF b = Period - 1 THEN 0 ELSE b + 1

\* rcu_batch_before(): the difference of two longs is negative.
Difference(a, b) == IF a >= b THEN a - b ELSE a - b + Period
rcu_batch_before(a, b) == 2 * Difference(a, b) >= Period

queued == UNION {nxtlist[c] \cup curlist[c] \cup donelist[c] : c \in Cpu}

RcuInit ==
  /\ cur = First /\ completed = First /\ next_pending = FALSE /\ cpumask = {} /\ lock = None
  /\ quiescbatch = [c \in Cpu |-> completed] /\ qs_pending = [c \in Cpu |-> FALSE]
  /\ batch = [c \in Cpu |-> 0]
  /\ nxtlist = [c \in Cpu |-> {}] /\ curlist = [c \in Cpu |-> {}] /\ donelist = [c \in Cpu |-> {}]
  /\ place = [c \in Cpu |-> "out"] /\ count = [c \in Cpu |-> 0]
  /\ reading = {} /\ waits = [h \in Head |-> {}]

Goto(c, p) == place' = [place EXCEPT ![c] = p]

-----------------------------------------------------------------------------
(* Users.                                                                  *)

rcu_read_lock(c) ==
  /\ c \notin reading /\ place[c] = "out"
  /\ reading' = reading \cup {c}
  /\ UNCHANGED <<ctrlVars, quiescbatch, qs_pending, batch, listVars, place, count, waits>>

rcu_read_unlock(c) ==
  /\ c \in reading
  /\ reading' = reading \ {c}
  /\ waits' = [h \in Head |-> waits[h] \ {c}]
  /\ UNCHANGED <<ctrlVars, quiescbatch, qs_pending, batch, listVars, place, count>>

call_rcu(c, h) ==
  /\ c \in reading
  /\ nxtlist' = [nxtlist EXCEPT ![c] = @ \cup {h}]
  /\ waits' = [waits EXCEPT ![h] = reading]
  /\ UNCHANGED <<ctrlVars, quiescbatch, qs_pending, batch, curlist, donelist, place, count, reading>>

-----------------------------------------------------------------------------
(* The softirq.                                                            *)

\* __rcu_pending(), asked by do_softirq()
rcu_pending(c) ==
  \/ curlist[c] # {} /\ ~rcu_batch_before(completed, batch[c])
  \/ curlist[c] = {} /\ nxtlist[c] # {}
  \/ donelist[c] # {}
  \/ quiescbatch[c] # cur \/ qs_pending[c]

\* __rcu_process_callbacks(): a completed batch is done, new callbacks become the current batch.
rcu_process_callbacks(c) ==
  LET over == curlist[c] # {} /\ ~rcu_batch_before(completed, batch[c])
      take == nxtlist[c] # {} /\ (over \/ curlist[c] = {}) IN
  /\ place[c] = "out" /\ c \notin reading /\ rcu_pending(c)
  /\ donelist' = [donelist EXCEPT ![c] = IF over THEN @ \cup curlist[c] ELSE @]
  /\ curlist' = [curlist EXCEPT ![c] = IF take THEN nxtlist[c] ELSE IF over THEN {} ELSE @]
  /\ nxtlist' = [nxtlist EXCEPT ![c] = IF take THEN {} ELSE @]
  /\ Goto(c, IF take THEN "batch" ELSE "check")
  /\ UNCHANGED <<ctrlVars, quiescbatch, qs_pending, batch, count, reading, waits>>

\* The batch number is determined, then next_pending is read, both without the lock.
take_batch(c) ==
  /\ place[c] = "batch"
  /\ batch' = [batch EXCEPT ![c] = NextBatch(cur)]
  /\ Goto(c, "pending")
  /\ UNCHANGED <<ctrlVars, quiescbatch, qs_pending, listVars, count, reading, waits>>

test_next_pending(c) ==
  /\ place[c] = "pending"
  /\ Goto(c, IF next_pending THEN "check" ELSE "register")
  /\ UNCHANGED <<ctrlVars, quiescbatch, qs_pending, batch, listVars, count, reading, waits>>

register(c) ==
  /\ place[c] = "register" /\ lock = None
  /\ lock' = c /\ next_pending' = TRUE
  /\ Goto(c, "start")
  /\ UNCHANGED <<cur, completed, cpumask, quiescbatch, qs_pending, batch, listVars, count, reading, waits>>

\* rcu_start_batch(): next_pending is cleared before cur is advanced, which others see.
\* It is called to register a batch, and by cpu_quiet() when one is completed.
AfterStart == [start |-> "check", advance |-> "check", restart |-> "do", readvance |-> "do"]

rcu_start_batch(c) ==
  /\ place[c] \in {"start", "restart"}
  /\ IF next_pending /\ completed = cur
     THEN /\ next_pending' = FALSE /\ UNCHANGED lock
          /\ Goto(c, IF place[c] = "start" THEN "advance" ELSE "readvance")
     ELSE /\ lock' = None /\ UNCHANGED next_pending
          /\ Goto(c, AfterStart[place[c]])
  /\ UNCHANGED <<cur, completed, cpumask, quiescbatch, qs_pending, batch, listVars, count, reading, waits>>

advance(c) ==
  /\ place[c] \in {"advance", "readvance"}
  /\ cur' = NextBatch(cur) /\ cpumask' = Cpu
  /\ lock' = None
  /\ Goto(c, AfterStart[place[c]])
  /\ UNCHANGED <<completed, next_pending, quiescbatch, qs_pending, batch, listVars, count, reading, waits>>

\* rcu_check_quiescent_state() up to the lock: a new batch is only noticed.
rcu_check_quiescent_state(c) ==
  /\ place[c] = "check"
  /\ quiescbatch' = [quiescbatch EXCEPT ![c] = cur]
  /\ qs_pending' = [qs_pending EXCEPT ![c] = quiescbatch[c] # cur]
  /\ Goto(c, IF quiescbatch[c] = cur /\ qs_pending[c] THEN "quiet" ELSE "do")
  /\ UNCHANGED <<ctrlVars, batch, listVars, count, reading, waits>>

\* Variant: the batch that waits for the completed one is not started.
cpu_quiet_last(c) ==
  LET last == quiescbatch[c] = cur /\ cpumask \subseteq {c} IN
  /\ place[c] = "quiet" /\ lock = None
  /\ cpumask' = IF quiescbatch[c] = cur THEN cpumask \ {c} ELSE cpumask
  /\ completed' = IF last THEN cur ELSE completed
  /\ Goto(c, "do")
  /\ UNCHANGED <<cur, next_pending, lock, quiescbatch, qs_pending, batch, listVars, count, reading, waits>>

\* ... and under the lock, with cpu_quiet()
cpu_quiet(c) ==
  LET last == quiescbatch[c] = cur /\ cpumask \subseteq {c} IN
  /\ place[c] = "quiet" /\ lock = None
  /\ cpumask' = IF quiescbatch[c] = cur THEN cpumask \ {c} ELSE cpumask
  /\ completed' = IF last THEN cur ELSE completed
  /\ lock' = IF last THEN c ELSE None
  /\ Goto(c, IF last THEN "restart" ELSE "do")
  /\ UNCHANGED <<cur, next_pending, quiescbatch, qs_pending, batch, listVars, count, reading, waits>>

\* rcu_do_batch(): the callbacks one by one, and out.
invoke(c, h) ==
  /\ place[c] = "do" /\ c \notin reading
  /\ h \in donelist[c] /\ count[c] < blimit
  /\ donelist' = [donelist EXCEPT ![c] = @ \ {h}]
  /\ count' = [count EXCEPT ![c] = @ + 1]
  /\ reading' = reading \cup {c}
  /\ UNCHANGED <<ctrlVars, quiescbatch, qs_pending, batch, nxtlist, curlist, place, waits>>

\* Variant: what is beyond blimit is forgotten.
rcu_do_batch_end_lost(c) ==
  /\ place[c] = "do" /\ c \notin reading
  /\ donelist[c] = {} \/ count[c] = blimit
  /\ donelist' = [donelist EXCEPT ![c] = {}]
  /\ count' = [count EXCEPT ![c] = 0]
  /\ Goto(c, "out")
  /\ UNCHANGED <<ctrlVars, quiescbatch, qs_pending, batch, nxtlist, curlist, reading, waits>>

rcu_do_batch_end(c) ==
  /\ place[c] = "do" /\ c \notin reading
  /\ donelist[c] = {} \/ count[c] = blimit
  /\ count' = [count EXCEPT ![c] = 0]
  /\ Goto(c, "out")
  /\ UNCHANGED <<ctrlVars, quiescbatch, qs_pending, batch, listVars, reading, waits>>

\* The softirq, but for the callbacks themselves.
Softirq(c) ==
  \/ rcu_process_callbacks(c) \/ take_batch(c) \/ test_next_pending(c) \/ register(c)
  \/ rcu_start_batch(c) \/ advance(c) \/ rcu_check_quiescent_state(c) \/ cpu_quiet(c)
  \/ rcu_do_batch_end(c)

\* Users queue a head that is not queued.
RcuNext ==
  \/ \E c \in Cpu : rcu_read_lock(c)
  \/ \E c \in Cpu : rcu_read_unlock(c)
  \/ \E c \in Cpu, h \in Head : h \notin queued /\ call_rcu(c, h)
  \/ \E c \in Cpu, h \in Head : invoke(c, h)
  \/ \E c \in Cpu : Softirq(c)

RcuSpec == RcuInit /\ [][RcuNext]_rcuVars

-----------------------------------------------------------------------------
(* Properties.                                                             *)

Places == {"out", "batch", "pending", "register", "start", "advance", "check",
           "quiet", "restart", "readvance", "do"}

\* The variables have their types.
RcuTypeOK ==
  /\ cur \in 0..(Period - 1) /\ completed \in 0..(Period - 1)
  /\ next_pending \in BOOLEAN /\ cpumask \in SUBSET Cpu /\ lock \in Cpu \cup {None}
  /\ quiescbatch \in [Cpu -> 0..(Period - 1)] /\ batch \in [Cpu -> 0..(Period - 1)]
  /\ qs_pending \in [Cpu -> BOOLEAN]
  /\ nxtlist \in [Cpu -> SUBSET Head] /\ curlist \in [Cpu -> SUBSET Head]
  /\ donelist \in [Cpu -> SUBSET Head]
  /\ place \in [Cpu -> Places] /\ count \in [Cpu -> 0..blimit]
  /\ reading \in SUBSET Cpu /\ waits \in [Head -> SUBSET Cpu]

\* rcupdate.c keeps the promise made to its users: no callback is invoked before the sections
\* that were executing when it was queued have ended.
Promise == INSTANCE GracePeriod
GracePeriodSpec == Promise!Spec

=============================================================================
