---------------------------- MODULE GracePeriod -----------------------------
(***************************************************************************)
(* What RCU promises its users, as the comments on call_rcu() and           *)
(* rcu_read_lock() in xen/common/rcupdate.c and xen/include/xen/rcupdate.h  *)
(* put it: a callback is invoked after all read-side critical sections that *)
(* were executing when it was queued have completed.                       *)
(***************************************************************************)

CONSTANTS Cpu,   \* physical CPUs
          Head   \* struct rcu_head: what callbacks are queued for

VARIABLES
  reading,   \* the CPUs in a read-side critical section or in a callback
  queued,    \* the heads whose callback has not been invoked
  waits      \* for a queued head, the CPUs whose section it has to wait for

vars == <<reading, queued, waits>>

Init ==
  /\ reading = {} /\ queued = {}
  /\ waits = [h \in Head |-> {}]

rcu_read_lock(c) ==
  /\ c \notin reading
  /\ reading' = reading \cup {c}
  /\ UNCHANGED <<queued, waits>>

rcu_read_unlock(c) ==
  /\ c \in reading
  /\ reading' = reading \ {c}
  /\ waits' = [h \in Head |-> waits[h] \ {c}]
  /\ UNCHANGED queued

call_rcu(h) ==
  /\ h \notin queued
  /\ queued' = queued \cup {h}
  /\ waits' = [waits EXCEPT ![h] = reading]
  /\ UNCHANGED reading

\* A callback runs on some CPU, which may read in it.
invoke(c, h) ==
  /\ h \in queued /\ waits[h] = {} /\ c \notin reading
  /\ queued' = queued \ {h}
  /\ reading' = reading \cup {c}
  /\ UNCHANGED waits

Next ==
  \/ \E c \in Cpu : rcu_read_lock(c)
  \/ \E c \in Cpu : rcu_read_unlock(c)
  \/ \E h \in Head : call_rcu(h)
  \/ \E c \in Cpu, h \in Head : invoke(c, h)

Spec == Init /\ [][Next]_vars
=============================================================================
