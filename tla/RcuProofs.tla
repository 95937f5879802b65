------------------------------ MODULE RcuProofs -----------------------------
(***************************************************************************)
(* RCU keeps its promise: RcuSpec implements GracePeriod, for any number of *)
(* CPUs, callbacks and batch numbers.                                      *)
(***************************************************************************)
EXTENDS Rcu, TLAPS

-----------------------------------------------------------------------------
(* The inductive invariant.                                                *)

\* Who holds the lock, and what holds under it.
LockInv ==
  /\ \A c \in Cpu : place[c] \in {"start", "restart", "advance", "readvance"} => lock = c
  /\ \A c \in Cpu : place[c] \in {"advance", "readvance"} => completed = cur

\* A batch is under way, or the last one is completed.
BatchInv == completed = cur \/ cur = NextBatch(completed)

\* A CPU that reads is not about to report a quiescent state.
ReadInv ==
  /\ \A c \in reading : place[c] \in {"out", "do"}
  /\ \A h \in Head : waits[h] \subseteq reading

\* A callback is in one list of one CPU.
ListInv ==
  \A h \in Head, c \in Cpu :
    /\ h \in nxtlist[c] => h \notin curlist[c] /\ h \notin donelist[c]
    /\ h \in curlist[c] => h \notin donelist[c]
    /\ \A e \in Cpu : c # e /\ h \in nxtlist[c] \cup curlist[c] \cup donelist[c] =>
         h \notin nxtlist[e] \cup curlist[e] \cup donelist[e]

\* The batch of a callback that waits for a reader has not begun, or the reader's CPU is still
\* expected to report; a callback that is done waits for nobody.
GraceInv ==
  /\ \A c, e \in Cpu : \A h \in curlist[c] : place[c] # "batch" /\ e \in waits[h] =>
       \/ batch[c] = NextBatch(cur)
       \/ batch[c] = cur /\ completed # cur /\ e \in cpumask
  /\ \A c \in Cpu : \A h \in donelist[c] : waits[h] = {}

RcuInv == RcuTypeOK /\ LockInv /\ BatchInv /\ ReadInv /\ ListInv /\ GraceInv

-----------------------------------------------------------------------------
(* Batch numbers.                                                          *)

\* The successor of a batch number is another batch number.
LEMMA NextBatchType ==
  ASSUME NEW b \in 0..(Period - 1)
  PROVE NextBatch(b) \in 0..(Period - 1) /\ NextBatch(b) # b
BY RcuConstants DEF NextBatch

\* rcu_batch_before() is right for the numbers that are compared while somebody is waited for.
LEMMA BatchBefore ==
  ASSUME NEW b \in 0..(Period - 1), NEW n \in 0..(Period - 1),
         \/ b = NextBatch(n)
         \/ b = NextBatch(NextBatch(n))
  PROVE rcu_batch_before(n, b)
BY RcuConstants DEF NextBatch, rcu_batch_before, Difference

\* What queued is.
LEMMA QueuedDef ==
  \A h : h \in queued <=> \E c \in Cpu : h \in nxtlist[c] \cup curlist[c] \cup donelist[c]
BY DEF queued

\* The same, after a step.
LEMMA QueuedDefNext ==
  \A h : h \in queued' <=> \E c \in Cpu : h \in nxtlist'[c] \cup curlist'[c] \cup donelist'[c]
BY DEF queued

-----------------------------------------------------------------------------
(* The steps of users.                                                     *)

\* The initial state satisfies the invariant.
LEMMA InitInv == RcuInit => RcuInv
<1> SUFFICES ASSUME RcuInit PROVE RcuInv
  OBVIOUS
<1> USE RcuConstants DEF RcuInit
<1>0. 0 \in 0..(Period - 1) /\ First \in 0..(Period - 1) /\ 0 \in 0..blimit
  OBVIOUS
<1>1. RcuTypeOK
  <2>1. /\ cur \in 0..(Period - 1) /\ completed \in 0..(Period - 1)
        /\ next_pending \in BOOLEAN /\ cpumask \in SUBSET Cpu /\ lock \in Cpu \cup {None}
    BY <1>0
  <2>2. /\ quiescbatch \in [Cpu -> 0..(Period - 1)] /\ batch \in [Cpu -> 0..(Period - 1)]
        /\ qs_pending \in [Cpu -> BOOLEAN]
    BY <1>0
  <2>3. /\ nxtlist \in [Cpu -> SUBSET Head] /\ curlist \in [Cpu -> SUBSET Head]
        /\ donelist \in [Cpu -> SUBSET Head]
        /\ reading \in SUBSET Cpu /\ waits \in [Head -> SUBSET Cpu]
    OBVIOUS
  <2>4. place \in [Cpu -> Places] /\ count \in [Cpu -> 0..blimit]
    BY <1>0 DEF Places
  <2> QED BY <2>1, <2>2, <2>3, <2>4 DEF RcuTypeOK
<1>2. LockInv /\ BatchInv /\ ReadInv
  BY DEF LockInv, BatchInv, ReadInv
<1>3. ListInv /\ GraceInv
  BY DEF ListInv, GraceInv
<1> QED BY <1>1, <1>2, <1>3 DEF RcuInv

\* Steps that change none of the variables.
LEMMA StutterInv == RcuInv /\ UNCHANGED rcuVars => RcuInv'
BY DEF RcuInv, RcuTypeOK, LockInv, BatchInv, ReadInv, ListInv, GraceInv, rcuVars, ctrlVars, listVars

\* Entering a section.
LEMMA ReadLockInv ==
  ASSUME RcuInv, NEW c \in Cpu, rcu_read_lock(c)
  PROVE RcuInv'
BY DEF rcu_read_lock, RcuInv, RcuTypeOK, LockInv, BatchInv, ReadInv, ListInv, GraceInv, ctrlVars, listVars

\* Leaving a section: fewer CPUs are waited for.
LEMMA ReadUnlockInv ==
  ASSUME RcuInv, NEW c \in Cpu, rcu_read_unlock(c)
  PROVE RcuInv'
<1> USE DEF rcu_read_unlock, RcuInv, ctrlVars, listVars
<1>1. RcuTypeOK' /\ LockInv' /\ BatchInv' /\ ListInv'
  BY DEF RcuTypeOK, LockInv, BatchInv, ListInv
<1>2. ReadInv'
  BY DEF RcuTypeOK, ReadInv
<1>3. GraceInv'
  BY DEF RcuTypeOK, GraceInv
<1> QED BY <1>1, <1>2, <1>3

\* Queueing a callback: it is in no other list.
LEMMA CallInv ==
  ASSUME RcuInv, NEW c \in Cpu, NEW h \in Head, h \notin queued, call_rcu(c, h)
  PROVE RcuInv'
<1> USE DEF call_rcu, RcuInv, ctrlVars
<1>0. \A e \in Cpu : h \notin nxtlist[e] /\ h \notin curlist[e] /\ h \notin donelist[e]
  BY QueuedDef
<1>1. RcuTypeOK' /\ LockInv' /\ BatchInv'
  BY DEF RcuTypeOK, LockInv, BatchInv
<1>2. ReadInv'
  BY DEF RcuTypeOK, ReadInv
<1>3. ListInv'
  BY <1>0 DEF RcuTypeOK, ListInv
<1>4. GraceInv'
  BY <1>0 DEF RcuTypeOK, GraceInv
<1> QED BY <1>1, <1>2, <1>3, <1>4

\* Invoking a callback: the CPU is in it, and it waited for nobody.
LEMMA InvokeInv ==
  ASSUME RcuInv, NEW c \in Cpu, NEW h \in Head, invoke(c, h)
  PROVE RcuInv' /\ waits[h] = {}
<1> USE DEF invoke, RcuInv, ctrlVars
<1>0. waits[h] = {}
  BY DEF GraceInv
<1>1. RcuTypeOK' /\ LockInv' /\ BatchInv'
  BY RcuConstants DEF RcuTypeOK, LockInv, BatchInv
<1>2. ReadInv'
  BY DEF RcuTypeOK, ReadInv
<1>3. ListInv'
  BY DEF RcuTypeOK, ListInv
<1>4. GraceInv'
  BY DEF RcuTypeOK, GraceInv
<1> QED BY <1>0, <1>1, <1>2, <1>3, <1>4

-----------------------------------------------------------------------------
(* The steps of the softirq.                                               *)

\* A batch that a reader is waited for in is not over.
LEMMA NotOver ==
  ASSUME RcuInv, NEW c \in Cpu, place[c] # "batch", NEW h \in curlist[c], NEW e \in waits[h]
  PROVE rcu_batch_before(completed, batch[c])
<1> USE DEF RcuInv
<1>1. h \in Head /\ e \in Cpu
  BY DEF RcuTypeOK
<1>2. batch[c] = NextBatch(cur) \/ (batch[c] = cur /\ completed # cur)
  BY <1>1 DEF GraceInv
<1>3. batch[c] = NextBatch(completed) \/ batch[c] = NextBatch(NextBatch(completed))
  BY <1>2 DEF BatchInv
<1> QED BY <1>3, BatchBefore DEF RcuTypeOK

\* Moving the lists: what is done waits for nobody, what is new has no batch yet.
LEMMA ProcessInv ==
  ASSUME RcuInv, NEW c \in Cpu, rcu_process_callbacks(c)
  PROVE RcuInv'
<1> DEFINE over == curlist[c] # {} /\ ~rcu_batch_before(completed, batch[c])
           take == nxtlist[c] # {} /\ (over \/ curlist[c] = {})
<1> USE DEF RcuInv, ctrlVars
<1>a. /\ place[c] = "out" /\ c \notin reading
      /\ donelist' = [donelist EXCEPT ![c] = IF over THEN @ \cup curlist[c] ELSE @]
      /\ curlist' = [curlist EXCEPT ![c] = IF take THEN nxtlist[c] ELSE IF over THEN {} ELSE @]
      /\ nxtlist' = [nxtlist EXCEPT ![c] = IF take THEN {} ELSE @]
      /\ place' = [place EXCEPT ![c] = IF take THEN "batch" ELSE "check"]
      /\ UNCHANGED <<ctrlVars, quiescbatch, qs_pending, batch, count, reading, waits>>
  BY DEF rcu_process_callbacks, Goto
<1>b. over => \A h \in curlist[c] : waits[h] = {}
  BY <1>a, NotOver
<1>c. over \in BOOLEAN /\ take \in BOOLEAN
  OBVIOUS
<1> HIDE DEF over
<1>1. RcuTypeOK'
  BY <1>a DEF RcuTypeOK, Places
<1>2. LockInv' /\ BatchInv'
  BY <1>a DEF RcuTypeOK, LockInv, BatchInv
<1>3. ReadInv'
  BY <1>a DEF RcuTypeOK, ReadInv
<1>4. ListInv'
  <2> HIDE DEF take
  <2> DEFINE d1(e) == donelist[e] \cup (IF e = c /\ over THEN curlist[c] ELSE {})
  <2>1. \A e \in Cpu : e # c => nxtlist'[e] = nxtlist[e] /\ curlist'[e] = curlist[e] /\ donelist'[e] = donelist[e]
    BY <1>a DEF RcuTypeOK
  <2>2. take /\ over => nxtlist'[c] = {} /\ curlist'[c] = nxtlist[c] /\ donelist'[c] = donelist[c] \cup curlist[c]
    BY <1>a DEF RcuTypeOK
  <2>3. take /\ ~over => nxtlist'[c] = {} /\ curlist'[c] = nxtlist[c] /\ donelist'[c] = donelist[c] /\ curlist[c] = {}
    BY <1>a DEF RcuTypeOK, take
  <2>4. ~take /\ over => nxtlist'[c] = nxtlist[c] /\ curlist'[c] = {} /\ donelist'[c] = donelist[c] \cup curlist[c]
    BY <1>a DEF RcuTypeOK
  <2>5. ~take /\ ~over => nxtlist'[c] = nxtlist[c] /\ curlist'[c] = curlist[c] /\ donelist'[c] = donelist[c]
    BY <1>a DEF RcuTypeOK
  <2>6. CASE take /\ over
    BY <2>1, <2>2, <2>6 DEF ListInv
  <2>7. CASE take /\ ~over
    BY <2>1, <2>3, <2>7 DEF ListInv
  <2>8. CASE ~take /\ over
    BY <2>1, <2>4, <2>8 DEF ListInv
  <2>9. CASE ~take /\ ~over
    BY <2>1, <2>5, <2>9 DEF ListInv
  <2> QED BY <2>6, <2>7, <2>8, <2>9, <1>c
<1>5. GraceInv'
  BY <1>a, <1>b DEF RcuTypeOK, GraceInv
<1> QED BY <1>1, <1>2, <1>3, <1>4, <1>5

\* The batch number taken is that of a batch that has not begun.
LEMMA TakeBatchInv ==
  ASSUME RcuInv, NEW c \in Cpu, take_batch(c)
  PROVE RcuInv'
<1> USE DEF take_batch, Goto, RcuInv, ctrlVars, listVars
<1>1. RcuTypeOK'
  BY NextBatchType DEF RcuTypeOK, Places
<1>2. LockInv' /\ BatchInv' /\ ReadInv' /\ ListInv'
  BY DEF RcuTypeOK, LockInv, BatchInv, ReadInv, ListInv
<1>3. GraceInv'
  BY DEF RcuTypeOK, GraceInv
<1> QED BY <1>1, <1>2, <1>3

\* Looking at next_pending, and registering the batch.
LEMMA RegisterInv ==
  ASSUME RcuInv, NEW c \in Cpu, test_next_pending(c) \/ register(c)
  PROVE RcuInv'
<1> USE DEF test_next_pending, register, Goto, RcuInv, ctrlVars, listVars
<1>1. RcuTypeOK'
  BY DEF RcuTypeOK, Places
<1>2. LockInv'
  BY RcuConstants DEF RcuTypeOK, LockInv
<1>3. BatchInv' /\ ReadInv' /\ ListInv'
  BY DEF RcuTypeOK, BatchInv, ReadInv, ListInv
<1>4. GraceInv'
  BY DEF RcuTypeOK, GraceInv
<1> QED BY <1>1, <1>2, <1>3, <1>4

\* The test whether a batch can be started.
LEMMA StartInv ==
  ASSUME RcuInv, NEW c \in Cpu, rcu_start_batch(c)
  PROVE RcuInv'
<1> USE DEF rcu_start_batch, AfterStart, Goto, RcuInv, ctrlVars, listVars
<1>0. /\ \E p \in {"advance", "readvance", "check", "do"} : place' = [place EXCEPT ![c] = p]
      /\ next_pending' \in {next_pending, FALSE} /\ lock' \in {lock, None}
  <2>1. CASE next_pending /\ completed = cur
    BY <2>1
  <2>2. CASE ~(next_pending /\ completed = cur)
    <3>1. lock' = None /\ UNCHANGED next_pending /\ place' = [place EXCEPT ![c] = AfterStart[place[c]]]
      BY <2>2
    <3>2. place[c] \in {"start", "restart"}
      OBVIOUS
    <3>3. AfterStart["start"] = "check" /\ AfterStart["restart"] = "do"
      OBVIOUS
    <3>4. AfterStart[place[c]] \in {"check", "do"}
      BY <3>2, <3>3
    <3> HIDE DEF rcu_start_batch, AfterStart, RcuInv
    <3> QED BY <3>1, <3>4
  <2> QED BY <2>1, <2>2
<1>1. RcuTypeOK'
  BY <1>0 DEF RcuTypeOK, Places
<1>2. LockInv'
  BY RcuConstants DEF RcuTypeOK, LockInv
<1>3. BatchInv' /\ ReadInv' /\ ListInv'
  BY DEF RcuTypeOK, BatchInv, ReadInv, ListInv
<1>4. GraceInv'
  BY DEF RcuTypeOK, GraceInv
<1> QED BY <1>1, <1>2, <1>3, <1>4

\* A batch begins: all CPUs, those that are waited for included, are expected to report.
LEMMA AdvanceInv ==
  ASSUME RcuInv, NEW c \in Cpu, advance(c)
  PROVE RcuInv'
<1> USE DEF advance, AfterStart, Goto, RcuInv, ctrlVars, listVars
<1>0. completed = cur /\ lock = c
  BY DEF LockInv
<1>1. RcuTypeOK'
  BY NextBatchType DEF RcuTypeOK, Places
<1>2. LockInv'
  BY <1>0 DEF RcuTypeOK, LockInv
<1>3. BatchInv'
  BY <1>0 DEF BatchInv
<1>4. ReadInv' /\ ListInv'
  BY DEF RcuTypeOK, ReadInv, ListInv
<1>5. GraceInv'
  <2>1. completed' # cur'
    BY <1>0, NextBatchType DEF RcuTypeOK
  <2>2. ASSUME NEW d \in Cpu, NEW e \in Cpu, NEW h \in curlist'[d], place'[d] # "batch", e \in waits'[h]
        PROVE batch'[d] = cur' /\ e \in cpumask'
    <3>1. place[d] # "batch"
      BY <2>2 DEF RcuTypeOK
    <3>2. batch[d] = NextBatch(cur) \/ (batch[d] = cur /\ completed # cur)
      BY <2>2, <3>1 DEF GraceInv
    <3> QED BY <3>2, <1>0
  <2>3. \A d \in Cpu : \A h \in donelist'[d] : waits'[h] = {}
    BY DEF GraceInv
  <2> QED BY <2>1, <2>2, <2>3 DEF GraceInv
<1> QED BY <1>1, <1>2, <1>3, <1>4, <1>5

\* Noticing a batch.
LEMMA CheckInv ==
  ASSUME RcuInv, NEW c \in Cpu, rcu_check_quiescent_state(c)
  PROVE RcuInv'
<1> USE DEF rcu_check_quiescent_state, Goto, RcuInv, ctrlVars, listVars
<1>1. RcuTypeOK'
  BY DEF RcuTypeOK, Places
<1>2. LockInv' /\ BatchInv' /\ ReadInv' /\ ListInv'
  BY DEF RcuTypeOK, LockInv, BatchInv, ReadInv, ListInv
<1>3. GraceInv'
  BY DEF RcuTypeOK, GraceInv
<1> QED BY <1>1, <1>2, <1>3

\* Reporting: the CPU does not read, so nobody waits for it; and while somebody waits for another
\* CPU in this batch, the batch is not completed.
LEMMA QuietInv ==
  ASSUME RcuInv, NEW c \in Cpu, cpu_quiet(c)
  PROVE RcuInv'
<1> USE DEF cpu_quiet, Goto, RcuInv, listVars
<1>1. RcuTypeOK'
  BY DEF RcuTypeOK, Places
<1>2. LockInv'
  BY RcuConstants DEF RcuTypeOK, LockInv
<1>3. BatchInv' /\ ReadInv' /\ ListInv'
  BY DEF RcuTypeOK, BatchInv, ReadInv, ListInv
<1>4. GraceInv'
  <2>1. ASSUME NEW d \in Cpu, NEW e \in Cpu, NEW h \in curlist'[d], place'[d] # "batch", e \in waits'[h]
        PROVE \/ batch'[d] = NextBatch(cur')
              \/ batch'[d] = cur' /\ completed' # cur' /\ e \in cpumask'
    <3>1. place[d] # "batch" /\ h \in Head /\ h \in curlist[d] /\ e \in waits[h]
      BY <2>1 DEF RcuTypeOK
    <3>2. e # c
      BY <3>1 DEF ReadInv
    <3>3. \/ batch[d] = NextBatch(cur)
          \/ batch[d] = cur /\ completed # cur /\ e \in cpumask
      BY <3>1 DEF GraceInv
    <3> QED BY <3>2, <3>3
  <2>2. \A d \in Cpu : \A h \in donelist'[d] : waits'[h] = {}
    BY DEF GraceInv
  <2> QED BY <2>1, <2>2 DEF GraceInv
<1> QED BY <1>1, <1>2, <1>3, <1>4

\* Leaving the softirq.
LEMMA EndInv ==
  ASSUME RcuInv, NEW c \in Cpu, rcu_do_batch_end(c)
  PROVE RcuInv'
<1> USE DEF rcu_do_batch_end, Goto, RcuInv, ctrlVars, listVars
<1>1. RcuTypeOK'
  BY RcuConstants DEF RcuTypeOK, Places
<1>2. LockInv' /\ BatchInv' /\ ReadInv' /\ ListInv'
  BY DEF RcuTypeOK, LockInv, BatchInv, ReadInv, ListInv
<1>3. GraceInv'
  BY DEF RcuTypeOK, GraceInv
<1> QED BY <1>1, <1>2, <1>3

\* Every step preserves the invariant.
LEMMA StepInv == RcuInv /\ [RcuNext]_rcuVars => RcuInv'
<1> SUFFICES ASSUME RcuInv, [RcuNext]_rcuVars PROVE RcuInv'
  OBVIOUS
<1>1. CASE \E c \in Cpu : rcu_read_lock(c)
  BY <1>1, ReadLockInv
<1>2. CASE \E c \in Cpu : rcu_read_unlock(c)
  BY <1>2, ReadUnlockInv
<1>3. CASE \E c \in Cpu, h \in Head : h \notin queued /\ call_rcu(c, h)
  BY <1>3, CallInv
<1>4. CASE \E c \in Cpu, h \in Head : invoke(c, h)
  BY <1>4, InvokeInv
<1>5. ASSUME NEW c \in Cpu, Softirq(c) PROVE RcuInv'
  BY <1>5, ProcessInv, TakeBatchInv, RegisterInv, StartInv, AdvanceInv, CheckInv, QuietInv, EndInv
     DEF Softirq
<1>6. CASE UNCHANGED rcuVars
  BY <1>6, StutterInv
<1> QED BY <1>1, <1>2, <1>3, <1>4, <1>5, <1>6 DEF RcuNext

\* RcuInv holds in every reachable state.
THEOREM RcuSafe == RcuSpec => []RcuInv
BY InitInv, StepInv, PTL DEF RcuSpec

-----------------------------------------------------------------------------
(* The refinement.                                                         *)

\* The softirq moves callbacks between lists of a CPU and loses none.
LEMMA SoftirqKeeps ==
  ASSUME RcuInv, NEW c \in Cpu, Softirq(c)
  PROVE UNCHANGED <<reading, waits>> /\ queued' = queued
<1> USE DEF RcuInv, ctrlVars, listVars
<1>1. CASE rcu_process_callbacks(c)
  <2>1. UNCHANGED <<reading, waits>>
    BY <1>1 DEF rcu_process_callbacks
  <2>2. \A e \in Cpu : nxtlist'[e] \cup curlist'[e] \cup donelist'[e] =
                       nxtlist[e] \cup curlist[e] \cup donelist[e]
    <3> DEFINE over == curlist[c] # {} /\ ~rcu_batch_before(completed, batch[c])
    <3>1. PICK o \in BOOLEAN : o = over
      OBVIOUS
    <3>2. /\ donelist' = [donelist EXCEPT ![c] = IF o THEN @ \cup curlist[c] ELSE @]
          /\ curlist' = [curlist EXCEPT ![c] = IF nxtlist[c] # {} /\ (o \/ curlist[c] = {}) THEN nxtlist[c]
                                               ELSE IF o THEN {} ELSE @]
          /\ nxtlist' = [nxtlist EXCEPT ![c] = IF nxtlist[c] # {} /\ (o \/ curlist[c] = {}) THEN {} ELSE @]
      BY <1>1, <3>1 DEF rcu_process_callbacks
    <3> QED BY <3>2 DEF RcuTypeOK
  <2> QED BY <2>1, <2>2, QueuedDef, QueuedDefNext
<1>2. CASE ~rcu_process_callbacks(c)
  <2>1. UNCHANGED <<reading, waits, nxtlist, curlist, donelist>>
    BY <1>2 DEF Softirq, take_batch, test_next_pending, register, rcu_start_batch, advance,
                rcu_check_quiescent_state, cpu_quiet, rcu_do_batch_end
  <2> QED BY <2>1 DEF queued
<1> QED BY <1>1, <1>2

\* Entering a section is what the promise says it is.
LEMMA ReadLockRefines ==
  ASSUME NEW c \in Cpu, rcu_read_lock(c)
  PROVE Promise!rcu_read_lock(c)
BY DEF rcu_read_lock, Promise!rcu_read_lock, queued, listVars

\* So is leaving one.
LEMMA ReadUnlockRefines ==
  ASSUME NEW c \in Cpu, rcu_read_unlock(c)
  PROVE Promise!rcu_read_unlock(c)
BY DEF rcu_read_unlock, Promise!rcu_read_unlock, queued, listVars

\* call_rcu() queues the head, for the sections that are executing.
LEMMA CallRefines ==
  ASSUME RcuInv, NEW c \in Cpu, NEW h \in Head, h \notin queued, call_rcu(c, h)
  PROVE Promise!call_rcu(h)
<1>1. queued' = queued \cup {h}
  BY QueuedDef, QueuedDefNext DEF call_rcu, RcuInv, RcuTypeOK, listVars
<1> QED BY <1>1 DEF call_rcu, Promise!call_rcu

\* rcu_do_batch() invokes a callback that nobody is waited for, and forgets it.
LEMMA InvokeRefines ==
  ASSUME RcuInv, NEW c \in Cpu, NEW h \in Head, invoke(c, h)
  PROVE Promise!invoke(c, h)
<1>1. h \in queued /\ waits[h] = {}
  BY InvokeInv, QueuedDef DEF invoke
<1>2. \A d \in Cpu : h \notin nxtlist[d] /\ h \notin curlist[d] /\ (d # c => h \notin donelist[d])
  BY DEF invoke, RcuInv, ListInv
<1>3. queued' = queued \ {h}
  BY <1>2, QueuedDef, QueuedDefNext DEF invoke, RcuInv, RcuTypeOK
<1> QED BY <1>1, <1>3 DEF invoke, Promise!invoke

\* Every step of rcupdate.c is a step of GracePeriod, or changes nothing of it.
LEMMA StepRefines == RcuInv /\ [RcuNext]_rcuVars => [Promise!Next]_(Promise!vars)
<1> SUFFICES ASSUME RcuInv, [RcuNext]_rcuVars PROVE [Promise!Next]_(Promise!vars)
  OBVIOUS
<1>1. ASSUME NEW c \in Cpu, Softirq(c) PROVE UNCHANGED Promise!vars
  BY <1>1, SoftirqKeeps DEF Promise!vars
<1>2. CASE UNCHANGED rcuVars
  BY <1>2 DEF rcuVars, listVars, Promise!vars, queued
<1> QED BY <1>1, <1>2, ReadLockRefines, ReadUnlockRefines, CallRefines, InvokeRefines DEF RcuNext, Promise!Next

\* For any number of CPUs, heads and batch numbers (at least four), and with numbers that wrap, no
\* callback of call_rcu() is invoked before every section that was executing when it was queued has ended.
THEOREM RcuKeepsPromise == RcuSpec => GracePeriodSpec
<1>1. RcuInit => Promise!Init
  BY DEF RcuInit, Promise!Init, queued
<1> QED BY <1>1, RcuSafe, StepRefines, PTL DEF RcuSpec, GracePeriodSpec, Promise!Spec

=============================================================================
