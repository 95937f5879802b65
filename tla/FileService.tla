---------------------------- MODULE FileService -----------------------------
(***************************************************************************)
(* What the operations of extras/mini-os/fs-front.c promise the threads     *)
(* that call them: an operation is executed once, on the other side, and    *)
(* returns what that execution computed.                                   *)
(***************************************************************************)

CONSTANTS Thread

VARIABLES
  calling,    \* the threads in an operation
  executed,   \* how often the operation of a thread has been executed
  ret         \* what the last operation of a thread returned: whose it was

vars == <<calling, executed, ret>>

Init ==
  /\ calling = {} /\ executed = [t \in Thread |-> 0]
  /\ ret = [t \in Thread |-> t]

Call(t) ==
  /\ t \notin calling
  /\ calling' = calling \cup {t}
  /\ UNCHANGED <<executed, ret>>

\* The operations of some threads, at once
Execute(s) ==
  /\ \A t \in s : t \in calling /\ executed[t] = 0
  /\ executed' = [t \in Thread |-> IF t \in s THEN 1 ELSE executed[t]]
  /\ UNCHANGED <<calling, ret>>

Return(t) ==
  /\ executed[t] = 1
  /\ calling' = calling \ {t} /\ executed' = [executed EXCEPT ![t] = 0]
  /\ ret' = [ret EXCEPT ![t] = t]

Next ==
  \/ \E t \in Thread : Call(t) \/ Return(t)
  \/ \E s \in SUBSET Thread : Execute(s)

Spec == Init /\ [][Next]_vars
=============================================================================
