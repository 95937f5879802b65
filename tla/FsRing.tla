------------------------------- MODULE FsRing -------------------------------
(***************************************************************************)
(* File operations over a shared ring: the front end of Mini-OS             *)
(* (extras/mini-os/fs-front.c), the back end (tools/fs-back/fs-backend.c    *)
(* and fs-ops.c) and the macros of xen/include/public/io/ring.h.           *)
(*                                                                         *)
(* Mini-OS has one vCPU and threads that run until they call schedule();    *)
(* the event handler interrupts them. The back end is another domain's      *)
(* process and runs beside them. Buffers and their grants are left out.     *)
(*                                                                         *)
(* What is dead in the program is forgotten: consumed entries of the ring,  *)
(* answers that have been read, locals out of scope.                       *)
(***************************************************************************)
EXTENDS Integers, Sequences, FiniteSets

CONSTANTS
  Thread,   \* threads of Mini-OS that use the file system
  Size,     \* entries of the ring, a power of two
  Period,   \* values of RING_IDX: a power of two, larger than Size
  None

ASSUME RingConstants ==
  /\ Size \in Nat \ {0} /\ Period \in Nat /\ Period % Size = 0 /\ Period >= 2 * Size
  /\ IsFiniteSet(Thread) /\ None \notin Thread

VARIABLES
  req_prod, rsp_prod, rsp_event, ring,   \* the shared page
  req_prod_pvt, rsp_cons,                \* the private half of the front end
  reqs_sem, freelist, requests,          \* struct fs_import
  list, runnable, current,               \* the threads: order, flags, who runs
  at, id,                                \* where a thread is, and its priv_req_id
  handler, cons, rp,                     \* where fsfront_handler() is, its locals
  req_cons, rsp_prod_pvt,                \* the private half of the back end
  active, back_list, done,               \* struct fs_mount; the transfers that are over
  back, back_rp, old,                    \* where handle_mount() is, its locals
  to_front, to_back,                     \* the event channel, pending at either end
  served, ret                            \* history: calls executed, values returned

shared == <<req_prod, rsp_prod, rsp_event, ring>>
frontVars == <<req_prod_pvt, rsp_cons, reqs_sem, freelist, requests>>
threadVars == <<list, runnable, current, at, id, ret>>
handlerVars == <<handler, cons, rp>>
backVars == <<req_cons, rsp_prod_pvt, active, back_list, done, back, back_rp, old, served>>
vars == <<shared, frontVars, threadVars, handlerVars, backVars, to_front, to_back>>

Id == 0..(Size - 1)

Add(i, n) == (i + n) % Period

Minus(i, j) == (i - j) % Period
Slot(i) == i % Size

-----------------------------------------------------------------------------
(* The lists of free identifiers, at both ends: a list that has been used   *)
(* up gives out identifier 0 again.                                        *)

Freelist0 == [i \in 0..Size |-> IF i = 0 THEN Size - 1 ELSE IF i = 1 THEN 0 ELSE i - 2]
add_id_to_freelist(fl, i) == [fl EXCEPT ![i + 1] = fl[0], ![0] = i]
get_id_from_freelist(fl) == [fl EXCEPT ![0] = fl[fl[0] + 1]]

NoEntry == [id |-> 0, caller |-> None]
NoRequest == [thread |-> None, shadow_rsp |-> None]

Init ==
  /\ req_prod = 0 /\ rsp_prod = 0 /\ rsp_event = 1 /\ ring = [s \in Id |-> NoEntry]
  /\ req_prod_pvt = 0 /\ rsp_cons = 0
  /\ reqs_sem = Size /\ freelist = Freelist0
  /\ requests = [i \in Id |-> NoRequest]
  /\ list \in {s \in [1..Cardinality(Thread) -> Thread] : {s[i] : i \in DOMAIN s} = Thread}
  /\ runnable = {} /\ current = None
  /\ at = [t \in Thread |-> "away"] /\ id = [t \in Thread |-> None]
  /\ handler = "out" /\ cons = 0 /\ rp = 0
  /\ req_cons = 0 /\ rsp_prod_pvt = 0
  /\ active = [i \in Id |-> NoEntry] /\ back_list = Freelist0 /\ done = {}
  /\ back = "wait" /\ back_rp = 0 /\ old = 0
  /\ to_front = FALSE /\ to_back = FALSE
  /\ served = [t \in Thread |-> 0] /\ ret = [t \in Thread |-> t]

-----------------------------------------------------------------------------
(* The threads.                                                            *)

\* schedule(): the first of the list that is runnable, which goes to its end.
schedule ==
  /\ current = None /\ handler = "out"
  /\ \E i \in DOMAIN list :
       /\ list[i] \in runnable /\ \A j \in 1..(i - 1) : list[j] \notin runnable
       /\ current' = list[i]
       /\ list' = SubSeq(list, 1, i - 1) \o SubSeq(list, i + 1, Len(list)) \o <<list[i]>>
  /\ UNCHANGED <<shared, frontVars, runnable, at, id, ret, handlerVars, backVars, to_front, to_back>>

\* Variant: block() leaves the time of an earlier msleep() in wakeup_time.
wakes_late(t) ==
  /\ at[t] \in {"away", "answer"} /\ t \notin runnable
  /\ runnable' = runnable \cup {t}
  /\ UNCHANGED <<shared, frontVars, list, current, at, id, ret, handlerVars, backVars, to_front, to_back>>

\* Something else that a thread was waiting for, or the end of msleep()
wakes(t) ==
  /\ at[t] = "away" /\ t \notin runnable
  /\ runnable' = runnable \cup {t}
  /\ UNCHANGED <<shared, frontVars, list, current, at, id, ret, handlerVars, backVars, to_front, to_back>>

Running(t) == current = t /\ handler = "out"

\* A thread waits for something else.
leaves(t) ==
  /\ Running(t) /\ at[t] = "away"
  /\ runnable' = runnable \ {t} /\ current' = None
  /\ UNCHANGED <<shared, frontVars, list, at, id, ret, handlerVars, backVars, to_front, to_back>>

\* reserve_fsif_request(), once down() has found the semaphore free
reserve_fsif_request ==
  /\ reqs_sem' = reqs_sem - 1
  /\ req_prod_pvt' = Add(req_prod_pvt, 1)

\* An operation until it commits its request: down(&import->reqs_sem), in which it may block and try
\* again when it is woken, the entry, get_id_from_freelist(), the request, and block()
call(t) ==
  LET i == freelist[0] IN
  /\ Running(t) /\ at[t] \in {"away", "down"}
  /\ runnable' = runnable \ {t}
  /\ IF reqs_sem > 0
     THEN /\ reserve_fsif_request
          /\ freelist' = get_id_from_freelist(freelist) /\ id' = [id EXCEPT ![t] = i]
          /\ requests' = [requests EXCEPT ![i].thread = t]
          /\ ring' = [ring EXCEPT ![Slot(req_prod_pvt)] = [id |-> i, caller |-> t]]
          /\ at' = [at EXCEPT ![t] = "commit"] /\ UNCHANGED current
     ELSE /\ at' = [at EXCEPT ![t] = "down"] /\ current' = None
          /\ UNCHANGED <<reqs_sem, req_prod_pvt, freelist, id, requests, ring>>
  /\ UNCHANGED <<req_prod, rsp_prod, rsp_event, rsp_cons, list, ret, handlerVars, backVars, to_front, to_back>>

\* commit_fsif_request(): no other thread has run since the entry was reserved.
commit(t) ==
  /\ Running(t) /\ at[t] = "commit" /\ req_prod = Minus(req_prod_pvt, 1)
  /\ req_prod' = Add(req_prod, 1)
  /\ at' = [at EXCEPT ![t] = "notify"]
  /\ UNCHANGED <<rsp_prod, rsp_event, ring, frontVars, list, runnable, current, id, ret, handlerVars, backVars,
                 to_front, to_back>>

\* Variant: the thread is blocked after its request is committed.
notify_block(t) ==
  /\ Running(t) /\ at[t] = "notify"
  /\ to_back' = TRUE
  /\ at' = [at EXCEPT ![t] = "answer"] /\ current' = None /\ runnable' = runnable \ {t}
  /\ UNCHANGED <<shared, frontVars, list, id, ret, handlerVars, backVars, to_front>>

\* notify_remote_via_evtchn() in it, and schedule()
notify(t) ==
  /\ Running(t) /\ at[t] = "notify"
  /\ to_back' = TRUE
  /\ at' = [at EXCEPT ![t] = "answer"] /\ current' = None
  /\ UNCHANGED <<shared, frontVars, list, runnable, id, ret, handlerVars, backVars, to_front>>

\* The response is read, and the identifier is free.
finish(t) ==
  /\ Running(t) /\ at[t] = "answer"
  /\ ret' = [ret EXCEPT ![t] = requests[id[t]].shadow_rsp]
  /\ served' = [served EXCEPT ![t] = 0]
  /\ freelist' = add_id_to_freelist(freelist, id[t])
  /\ requests' = [requests EXCEPT ![id[t]] = NoRequest]
  /\ id' = [id EXCEPT ![t] = None] /\ at' = [at EXCEPT ![t] = "away"]
  /\ UNCHANGED <<shared, req_prod_pvt, rsp_cons, reqs_sem, list, runnable, current, handlerVars,
                 req_cons, rsp_prod_pvt, active, back_list, done, back, back_rp, old, to_front, to_back>>

-----------------------------------------------------------------------------
(* fsfront_handler().                                                      *)

do_event ==
  /\ handler = "out" /\ to_front
  /\ to_front' = FALSE /\ handler' = "moretodo"
  /\ UNCHANGED <<shared, frontVars, threadVars, cons, rp, backVars, to_back>>

moretodo ==
  /\ handler = "moretodo"
  /\ rp' = rsp_prod /\ cons' = rsp_cons
  /\ handler' = "loop"
  /\ UNCHANGED <<shared, frontVars, threadVars, backVars, to_front, to_back>>

\* Those that up() wakes: the threads in down()
Waiters == {t \in Thread : at[t] = "down"}

\* One response, with wake() of its thread and up(&import->reqs_sem)
response ==
  LET rsp == ring[Slot(cons)] IN
  /\ handler = "loop" /\ cons # rp
  /\ requests' = [requests EXCEPT ![rsp.id].shadow_rsp = rsp.caller]
  /\ runnable' = runnable \cup {requests[rsp.id].thread} \cup Waiters
  /\ cons' = Add(cons, 1) /\ reqs_sem' = reqs_sem + 1
  /\ ring' = [ring EXCEPT ![Slot(cons)] = NoEntry]
  /\ UNCHANGED <<req_prod, rsp_prod, rsp_event, req_prod_pvt, rsp_cons, freelist, list, current, at, id, ret, handler, rp, backVars,
                 to_front, to_back>>

\* Variant: what has been pushed meanwhile counts as consumed.
final_check_newest ==
  /\ handler = "loop" /\ cons = rp
  /\ rsp_cons' = rsp_prod /\ cons' = 0 /\ rp' = 0
  /\ handler' = IF rsp_prod # rp THEN "moretodo" ELSE "event"
  /\ UNCHANGED <<shared, req_prod_pvt, reqs_sem, freelist, requests, threadVars, backVars, to_front, to_back>>

\* RING_FINAL_CHECK_FOR_RESPONSES(): it looks for more responses ...
final_check ==
  /\ handler = "loop" /\ cons = rp
  /\ rsp_cons' = rp /\ cons' = 0 /\ rp' = 0
  /\ handler' = IF rsp_prod # rp THEN "moretodo" ELSE "event"
  /\ UNCHANGED <<shared, req_prod_pvt, reqs_sem, freelist, requests, threadVars, backVars, to_front, to_back>>

\* ... asks to be notified of the next one ...
ask_event ==
  /\ handler = "event"
  /\ rsp_event' = Add(rsp_cons, 1) /\ handler' = "recheck"
  /\ UNCHANGED <<req_prod, rsp_prod, ring, frontVars, threadVars, cons, rp, backVars, to_front, to_back>>

\* Variant: one look is enough.
recheck_never ==
  /\ handler = "recheck"
  /\ handler' = "out"
  /\ UNCHANGED <<shared, frontVars, threadVars, cons, rp, backVars, to_front, to_back>>

\* ... and looks again.
recheck ==
  /\ handler = "recheck"
  /\ handler' = IF rsp_prod # rsp_cons THEN "moretodo" ELSE "out"
  /\ UNCHANGED <<shared, frontVars, threadVars, cons, rp, backVars, to_front, to_back>>

-----------------------------------------------------------------------------
(* The back end.                                                           *)

\* The host finishes a transfer.
aio_completes(i) ==
  /\ active[i] # NoEntry /\ i \notin done
  /\ done' = done \cup {i}
  /\ UNCHANGED <<shared, frontVars, threadVars, handlerVars, req_cons, rsp_prod_pvt, active, back_list, back,
                 back_rp, old, served, to_front, to_back>>

\* The responses of the transfers in s, in the order of the list of handle_aio_events()
Ordered(s) == CHOOSE q \in [1..Cardinality(s) -> s] : \A i, j \in DOMAIN q : i < j => q[i] < q[j]

respond(s) ==
  LET q == Ordered(s) n == Cardinality(s) IN
  /\ ring' = [x \in Id |-> IF \E k \in 1..n : Slot(Add(rsp_prod_pvt, k - 1)) = x
                           THEN active[q[CHOOSE k \in 1..n : Slot(Add(rsp_prod_pvt, k - 1)) = x]]
                           ELSE ring[x]]
  /\ rsp_prod_pvt' = Add(rsp_prod_pvt, n)
  /\ active' = [i \in Id |-> IF i \in s THEN NoEntry ELSE active[i]]
  /\ back_list' = LET f[k \in 0..n] == IF k = 0 THEN back_list ELSE add_id_to_freelist(f[k - 1], q[k]) IN f[n]

\* handle_aio_events(): it ends with an event, or pushes responses and waits again.
handle_aio_events ==
  /\ back = "wait" /\ (done # {} \/ to_back)
  /\ respond(done)
  /\ served' = [t \in Thread |-> served[t] + Cardinality({i \in done : active[i].caller = t})]
  /\ done' = {}
  /\ back' = IF to_back THEN "moretodo" ELSE "push"
  /\ to_back' = FALSE
  /\ UNCHANGED <<req_prod, rsp_prod, rsp_event, frontVars, threadVars, handlerVars, req_cons, back_rp, old, to_front>>

back_moretodo ==
  /\ back = "moretodo"
  /\ back_rp' = req_prod /\ back' = "loop"
  /\ UNCHANGED <<shared, frontVars, threadVars, handlerVars, req_cons, rsp_prod_pvt, active, back_list, done, old,
                 served, to_front, to_back>>

\* The operations that are executed at once, such as dispatch_file_open()
dispatch_now ==
  LET req == ring[Slot(req_cons)] IN
  /\ back = "loop" /\ req_cons # back_rp
  /\ req_cons' = Add(req_cons, 1)
  /\ ring' = [ring EXCEPT ![Slot(req_cons)] = NoEntry, ![Slot(rsp_prod_pvt)] = req]
  /\ rsp_prod_pvt' = Add(rsp_prod_pvt, 1)
  /\ served' = [served EXCEPT ![req.caller] = @ + 1]
  /\ UNCHANGED <<req_prod, rsp_prod, rsp_event, frontVars, threadVars, handlerVars, active, back_list, done, back,
                 back_rp, old, to_front, to_back>>

\* Variant: the entry of the response is taken when the transfer begins.
dispatch_aio_early ==
  /\ back = "loop" /\ req_cons # back_rp
  /\ active' = [active EXCEPT ![back_list[0]] = ring[Slot(req_cons)]]
  /\ back_list' = get_id_from_freelist(back_list)
  /\ ring' = [ring EXCEPT ![Slot(req_cons)] = NoEntry]
  /\ req_cons' = Add(req_cons, 1) /\ rsp_prod_pvt' = Add(rsp_prod_pvt, 1)
  /\ UNCHANGED <<req_prod, rsp_prod, rsp_event, frontVars, threadVars, handlerVars, done, back, back_rp, old, served,
                 to_front, to_back>>

\* dispatch_file_read() and dispatch_file_write() begin a transfer.
dispatch_aio ==
  /\ back = "loop" /\ req_cons # back_rp
  /\ active' = [active EXCEPT ![back_list[0]] = ring[Slot(req_cons)]]
  /\ back_list' = get_id_from_freelist(back_list)
  /\ ring' = [ring EXCEPT ![Slot(req_cons)] = NoEntry]
  /\ req_cons' = Add(req_cons, 1)
  /\ UNCHANGED <<req_prod, rsp_prod, rsp_event, frontVars, threadVars, handlerVars, rsp_prod_pvt, done, back, back_rp, old, served,
                 to_front, to_back>>

\* RING_HAS_UNCONSUMED_REQUESTS()
Unconsumed ==
  LET req == Minus(req_prod, req_cons)
      rsp == (Size - Minus(req_cons, rsp_prod_pvt)) % Period IN
  IF req < rsp THEN req ELSE rsp

\* RING_FINAL_CHECK_FOR_REQUESTS(): it looks for more requests ...
back_check ==
  /\ back = "loop" /\ req_cons = back_rp
  /\ back' = IF Unconsumed # 0 THEN "moretodo" ELSE "recheck"
  /\ back_rp' = 0
  /\ UNCHANGED <<shared, frontVars, threadVars, handlerVars, req_cons, rsp_prod_pvt, active, back_list, done,
                 old, served, to_front, to_back>>

\* ... and again; nobody looks at the req_event it sets, since every request is notified.
back_recheck ==
  /\ back = "recheck"
  /\ back' = IF Unconsumed # 0 THEN "moretodo" ELSE "push"
  /\ UNCHANGED <<shared, frontVars, threadVars, handlerVars, req_cons, rsp_prod_pvt, active, back_list, done,
                 back_rp, old, served, to_front, to_back>>

\* RING_PUSH_RESPONSES_AND_CHECK_NOTIFY(): the responses are pushed ...
push ==
  /\ back = "push"
  /\ old' = rsp_prod /\ rsp_prod' = rsp_prod_pvt
  /\ back' = "notify"
  /\ UNCHANGED <<req_prod, rsp_event, ring, frontVars, threadVars, handlerVars, req_cons, rsp_prod_pvt, active,
                 back_list, done, back_rp, served, to_front, to_back>>

\* ... and the front end is notified if it asked for one of them.
Notify(new, before, event) == Minus(new, event) < Minus(new, before)

back_notify ==
  /\ back = "notify"
  /\ to_front' = (to_front \/ Notify(rsp_prod, old, rsp_event))
  /\ back' = "wait" /\ old' = 0
  /\ UNCHANGED <<shared, frontVars, threadVars, handlerVars, req_cons, rsp_prod_pvt, active, back_list, done,
                 back_rp, served, to_back>>

-----------------------------------------------------------------------------

ThreadStep(t) == call(t) \/ commit(t) \/ notify(t) \/ finish(t)
HandlerStep == do_event \/ moretodo \/ response \/ final_check \/ ask_event \/ recheck
BackStep ==
  \/ handle_aio_events \/ back_moretodo \/ dispatch_now \/ dispatch_aio
  \/ back_check \/ back_recheck \/ push \/ back_notify

Next ==
  \/ schedule
  \/ \E t \in Thread : wakes(t) \/ leaves(t) \/ ThreadStep(t)
  \/ HandlerStep \/ BackStep
  \/ \E i \in Id : aio_completes(i)

Spec == Init /\ [][Next]_vars

\* The running thread, the interrupt, the scheduler and the back end go on; transfers finish.
FairSpec ==
  /\ Spec
  /\ WF_vars(schedule) /\ WF_vars(HandlerStep) /\ WF_vars(BackStep)
  /\ \A t \in Thread : WF_vars(leaves(t) \/ ThreadStep(t))
  /\ \A i \in Id : WF_vars(aio_completes(i))

-----------------------------------------------------------------------------
(* Properties.                                                             *)

Entry == [id : Id, caller : Thread \cup {None}]
Idx == 0..(Period - 1)

\* The variables have their types.
TypeOK ==
  /\ {req_prod, rsp_prod, rsp_event, req_prod_pvt, rsp_cons, cons, rp, req_cons, rsp_prod_pvt, back_rp, old}
       \subseteq Idx
  /\ ring \in [Id -> Entry] /\ active \in [Id -> Entry] /\ done \subseteq Id
  /\ reqs_sem \in 0..Size
  /\ freelist \in [0..Size -> Id] /\ back_list \in [0..Size -> Id]
  /\ requests \in [Id -> [thread : Thread \cup {None}, shadow_rsp : Thread \cup {None}]]
  /\ runnable \subseteq Thread /\ current \in Thread \cup {None}
  /\ at \in [Thread -> {"away", "down", "commit", "notify", "answer"}]
  /\ id \in [Thread -> Id \cup {None}]
  /\ handler \in {"out", "moretodo", "loop", "event", "recheck"}
  /\ back \in {"wait", "moretodo", "loop", "recheck", "push", "notify"}
  /\ to_front \in BOOLEAN /\ to_back \in BOOLEAN
  /\ served \in [Thread -> 0..1] /\ ret \in [Thread -> Thread \cup {None}]

\* The indices follow each other around the ring, at most Size apart, although they wrap: no request
\* is overwritten by a response before it is consumed, and no response by a request. A thread that
\* got the semaphore finds a free entry: ASSERT() of reserve_fsif_request().
IndexOrder ==
  /\ TypeOK
  /\ Minus(rsp_prod, rsp_cons) + Minus(rsp_prod_pvt, rsp_prod) + Minus(req_cons, rsp_prod_pvt)
     + Minus(req_prod, req_cons) + Minus(req_prod_pvt, req_prod) <= Size
  /\ \A t \in Thread : Running(t) /\ at[t] \in {"away", "down"} /\ reqs_sem > 0 => Minus(req_prod_pvt, rsp_cons) # Size

\* What is in the ring between two indices
Between(i, j) == {ring[Slot(Add(i, n))].caller : n \in 0..(Minus(j, i) - 1)}

\* The operation of a thread that waits for its answer is in one place: a request in the ring, a
\* transfer, a response in the ring, or the answer that the thread will find.
OneCopy ==
  \A t \in Thread : at[t] \in {"notify", "answer"} =>
    Cardinality({p \in 1..4 :
      \/ p = 1 /\ t \in Between(req_cons, req_prod)
      \/ p = 2 /\ \E i \in Id : active[i].caller = t
      \/ p = 3 /\ t \in Between(IF handler = "loop" THEN cons ELSE rsp_cons, rsp_prod_pvt)
      \/ p = 4 /\ requests[id[t]].shadow_rsp = t}) = 1

\* Nobody sleeps over a message: requests that the back end has not consumed, and responses that
\* the front end has not, are covered by an event, or somebody is about to look or to notify.
NoMissedEvent ==
  /\ req_prod # req_cons =>
       to_back \/ back \in {"moretodo", "loop", "recheck"} \/ \E t \in Thread : at[t] = "notify"
  /\ rsp_prod # rsp_cons =>
       to_front \/ handler # "out" \/ (back = "notify" /\ Notify(rsp_prod, old, rsp_event))

\* Each operation is executed once by the back end and returns what that execution computed.
Service == INSTANCE FileService WITH calling <- {t \in Thread : at[t] # "away"}, executed <- served
ServiceSpec == Service!Spec

\* An operation returns: no request, response or wake-up is lost.
Returns == \A t \in Thread : at[t] # "away" ~> at[t] = "away"

\* get_id_from_freelist(): "always call reserve_fsif_request(import) before this, to protect from
\* depletion"; no identifier is given to two threads.
NoDepletion ==
  \A t, u \in Thread : t # u /\ id[t] # None => id[t] # id[u]

=============================================================================
