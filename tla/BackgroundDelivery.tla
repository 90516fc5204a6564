------------------------- MODULE BackgroundDelivery -------------------------
(***************************************************************************)
(* The bounded pool of daemon threads of src/background_delivery.py.       *)
(* Callers submit notifications and shut the pool down; workers take them  *)
(* off the queue and run them.  submit and the first half of shutdown run  *)
(* under self._lock, the workers and the done callbacks of the futures do  *)
(* not, so each access of theirs to the queue, the counter and the         *)
(* semaphore is a step of its own.                                         *)
(*                                                                         *)
(* A future is identified with its notification: submit makes a new one    *)
(* each time.  The throttled overflow message is left out.                 *)
(***************************************************************************)
EXTENDS Integers, Sequences, FiniteSets

CONSTANTS
    Callers,        \* threads that submit and shut down
    Workers,        \* identities of the worker threads: max_workers of them
    Jobs,           \* the notifications
    Capacity,       \* max_pending
    MaxShutdowns,   \* bound: calls of shutdown
    None            \* Python's None: no job, and the sentinel in the queue

ASSUME PoolAssumption ==
    /\ IsFiniteSet(Callers)
    /\ IsFiniteSet(Workers) /\ Workers # {}
    /\ IsFiniteSet(Jobs)
    /\ Callers \intersect Workers = {}
    /\ Capacity \in Nat \ {0}
    /\ MaxShutdowns \in Nat
    /\ None \notin Jobs \union Callers

VARIABLES
    jobs,         \* self._jobs
    threads,      \* self._threads
    shutdown,     \* self._shutdown
    lock,         \* the holder of self._lock
    slots,        \* the value of the semaphore self._slots
    pending,      \* self._pending
    future,       \* the state of each notification's future
    pc,           \* where each thread is
    job,          \* the local job or future of each thread
    stop,         \* the arguments of a caller's shutdown, and if it signals
    cancelled,    \* the local list "cancelled" of a shutdown
    shutdowns     \* how many calls of shutdown there were

vars == <<jobs, threads, shutdown, lock, slots, pending, future, pc, job,
          stop, cancelled, shutdowns>>

AllThreads == Callers \union Workers

Init ==
    /\ jobs = <<>>
    /\ threads = {}
    /\ shutdown = FALSE
    /\ lock = None
    /\ slots = Capacity
    /\ pending = 0
    /\ future = [j \in Jobs |-> "new"]
    /\ pc = [t \in AllThreads |-> IF t \in Callers THEN "idle" ELSE "off"]
    /\ job = [t \in AllThreads |-> None]
    /\ stop = [c \in Callers |-> [cancel |-> FALSE, wait |-> FALSE, signal |-> FALSE]]
    /\ cancelled = [c \in Callers |-> <<>>]
    /\ shutdowns = 0

Goto(t, l) == pc' = [pc EXCEPT ![t] = l]

Become(j, s) == future' = [future EXCEPT ![j] = s]

-----------------------------------------------------------------------------
(* submit, under self._lock *)

\* MUTANT of Reserve: the shutdown flag is not tested.
ReserveAfterShutdown(c, j) ==
    /\ pc[c] = "idle" /\ lock = None /\ future[j] = "new" /\ slots > 0
    /\ lock' = c /\ slots' = slots - 1
    /\ job' = [job EXCEPT ![c] = j]
    /\ Become(j, "pending") /\ Goto(c, "count")
    /\ UNCHANGED <<jobs, threads, shutdown, pending, stop, cancelled, shutdowns>>

\* The pool is open and a slot is free: it is taken and a Future made.
Reserve(c, j) ==
    /\ pc[c] = "idle"
    /\ lock = None
    /\ future[j] = "new"
    /\ ~shutdown
    /\ slots > 0
    /\ lock' = c
    /\ slots' = slots - 1
    /\ job' = [job EXCEPT ![c] = j]
    /\ Become(j, "pending")
    /\ Goto(c, "count")
    /\ UNCHANGED <<jobs, threads, shutdown, pending, stop, cancelled, shutdowns>>

\* The pool is shut down (submit raises) or full (it returns None).
Refuse(c, j) ==
    /\ pc[c] = "idle"
    /\ lock = None
    /\ future[j] = "new"
    /\ shutdown \/ slots = 0
    /\ Become(j, "refused")
    /\ UNCHANGED <<jobs, threads, shutdown, lock, slots, pending, pc, job,
                   stop, cancelled, shutdowns>>

Count(c) ==
    /\ pc[c] = "count"
    /\ pending' = pending + 1
    /\ Goto(c, IF Cardinality(threads) < Cardinality(Workers) THEN "start" ELSE "put")
    /\ UNCHANGED <<jobs, threads, shutdown, lock, slots, future, job,
                   stop, cancelled, shutdowns>>

\* One more worker as long as there are fewer than max_workers.
StartThread(c) ==
    /\ pc[c] = "start"
    /\ \E w \in Workers \ threads :
         /\ threads' = threads \union {w}
         /\ pc' = [pc EXCEPT ![c] = "put", ![w] = "get"]
    /\ UNCHANGED <<jobs, shutdown, lock, slots, pending, future, job,
                   stop, cancelled, shutdowns>>

\* The thread cannot be started: the future is cancelled, whose callback gives
\* the slot back under self._lock, and submit raises.
StartFails(c) ==
    /\ pc[c] = "start"
    /\ Become(job[c], "refused")
    /\ Goto(c, "uncount")
    /\ UNCHANGED <<jobs, threads, shutdown, lock, slots, pending, job,
                   stop, cancelled, shutdowns>>

Put(c) ==
    /\ pc[c] = "put"
    /\ jobs' = Append(jobs, job[c])
    /\ lock' = None
    /\ job' = [job EXCEPT ![c] = None]
    /\ Goto(c, "idle")
    /\ UNCHANGED <<threads, shutdown, slots, pending, future, stop, cancelled, shutdowns>>

Submit(c) ==
    \/ \E j \in Jobs : Reserve(c, j) \/ Refuse(c, j)
    \/ Count(c) \/ StartThread(c) \/ StartFails(c) \/ Put(c)

-----------------------------------------------------------------------------
(* _release_slot: the done callback of every future, run by whoever settled it *)

Uncount(t) ==
    /\ pc[t] = "uncount"
    /\ pending' = pending - 1
    /\ Goto(t, "unslot")
    /\ UNCHANGED <<jobs, threads, shutdown, lock, slots, future, job,
                   stop, cancelled, shutdowns>>

\* A worker goes on to its next job, a shutdown to the next future it cancels,
\* a submit that failed to start a thread raises and leaves self._lock.
Unslot(t) ==
    /\ pc[t] = "unslot"
    /\ slots' = slots + 1
    /\ Goto(t, IF t \in Workers THEN "get" ELSE IF lock = t THEN "idle" ELSE "cancel")
    /\ lock' = IF lock = t THEN None ELSE lock
    /\ job' = [job EXCEPT ![t] = None]
    /\ UNCHANGED <<jobs, threads, shutdown, pending, future, stop, cancelled, shutdowns>>

ReleaseSlot(t) == Uncount(t) \/ Unslot(t)

-----------------------------------------------------------------------------
(* _run: the workers *)

\* The worker takes the head of the queue; the sentinel ends it.
Get(w) ==
    /\ pc[w] = "get"
    /\ jobs # <<>>
    /\ jobs' = Tail(jobs)
    /\ IF Head(jobs) = None
       THEN Goto(w, "exited") /\ UNCHANGED job
       ELSE Goto(w, "got") /\ job' = [job EXCEPT ![w] = Head(jobs)]
    /\ UNCHANGED <<threads, shutdown, lock, slots, pending, future,
                   stop, cancelled, shutdowns>>

\* set_running_or_notify_cancel, and the function starts.
Run(w) ==
    /\ pc[w] = "got"
    /\ IF future[job[w]] = "pending"
       THEN Become(job[w], "running") /\ Goto(w, "running") /\ UNCHANGED job
       ELSE Goto(w, "get") /\ job' = [job EXCEPT ![w] = None] /\ UNCHANGED future
    /\ UNCHANGED <<jobs, threads, shutdown, lock, slots, pending,
                   stop, cancelled, shutdowns>>

\* The function returns or raises: set_result or set_exception, then the callback.
Finish(w) ==
    /\ pc[w] = "running"
    /\ Become(job[w], "finished")
    /\ Goto(w, "uncount")
    /\ UNCHANGED <<jobs, threads, shutdown, lock, slots, pending, job,
                   stop, cancelled, shutdowns>>

-----------------------------------------------------------------------------
(* shutdown *)

\* shutdown(wait, cancel_futures) takes the lock and sets the flag.
Shutdown(c, wait, cancel) ==
    /\ pc[c] = "idle"
    /\ lock = None
    /\ shutdowns < MaxShutdowns
    /\ shutdowns' = shutdowns + 1
    /\ lock' = c
    /\ shutdown' = TRUE
    /\ stop' = [stop EXCEPT ![c] = [cancel |-> cancel, wait |-> wait,
                                    signal |-> ~shutdown \/ cancel]]
    /\ Goto(c, IF cancel THEN "drain" ELSE "signal")
    /\ UNCHANGED <<jobs, threads, slots, pending, future, job, cancelled>>

\* get_nowait until the queue is empty; a sentinel is thrown away.
Drain(c) ==
    /\ pc[c] = "drain"
    /\ IF jobs = <<>>
       THEN Goto(c, "signal") /\ UNCHANGED <<jobs, cancelled>>
       ELSE /\ jobs' = Tail(jobs)
            /\ cancelled' = IF Head(jobs) = None THEN cancelled
                            ELSE [cancelled EXCEPT ![c] = Append(@, Head(jobs))]
            /\ UNCHANGED pc
    /\ UNCHANGED <<threads, shutdown, lock, slots, pending, future, job, stop, shutdowns>>

Sentinels == [i \in 1..Cardinality(threads) |-> None]

\* MUTANT of Signal: the sentinels overtake the jobs.
SignalFirst(c) ==
    /\ pc[c] = "signal" /\ jobs' = IF stop[c].signal THEN Sentinels \o jobs ELSE jobs
    /\ lock' = None /\ Goto(c, "cancel")
    /\ UNCHANGED <<threads, shutdown, slots, pending, future, job, stop, cancelled, shutdowns>>

\* MUTANT of Signal: a second shutdown does not replace the sentinels it drained.
SignalOnce(c) ==
    /\ pc[c] = "signal" /\ jobs' = IF shutdowns = 1 THEN jobs \o Sentinels ELSE jobs
    /\ lock' = None /\ Goto(c, "cancel")
    /\ UNCHANGED <<threads, shutdown, slots, pending, future, job, stop, cancelled, shutdowns>>

\* One sentinel for every worker, unless an earlier shutdown put them already
\* and this one drained nothing; the lock is left.
Signal(c) ==
    /\ pc[c] = "signal"
    /\ jobs' = IF stop[c].signal THEN jobs \o Sentinels ELSE jobs
    /\ lock' = None
    /\ Goto(c, "cancel")
    /\ UNCHANGED <<threads, shutdown, slots, pending, future, job,
                   stop, cancelled, shutdowns>>

\* MUTANT of CancelOne: the drained jobs are dropped without cancelling them.
CancelOneDrops(c) ==
    /\ pc[c] = "cancel" /\ cancelled[c] # <<>>
    /\ cancelled' = [cancelled EXCEPT ![c] = Tail(@)]
    /\ Become(Head(cancelled[c]), "cancelled")
    /\ UNCHANGED <<jobs, threads, shutdown, lock, slots, pending, pc, job, stop, shutdowns>>

\* Outside the lock the drained futures are cancelled, with their callbacks.
CancelOne(c) ==
    /\ pc[c] = "cancel"
    /\ cancelled[c] # <<>>
    /\ cancelled' = [cancelled EXCEPT ![c] = Tail(@)]
    /\ job' = [job EXCEPT ![c] = Head(cancelled[c])]
    /\ Become(Head(cancelled[c]), "cancelled")
    /\ Goto(c, "uncount")
    /\ UNCHANGED <<jobs, threads, shutdown, lock, slots, pending, stop, shutdowns>>

\* MUTANT of Joined: the workers are always waited for.
JoinedAlways(c) == \A w \in threads : pc[w] = "exited"

\* if wait: thread.join() for every worker.
Joined(c) == stop[c].wait => \A w \in threads : pc[w] = "exited"

ShutdownEnd(c) ==
    /\ pc[c] = "cancel"
    /\ cancelled[c] = <<>>
    /\ Joined(c)
    /\ Goto(c, "idle")
    /\ UNCHANGED <<jobs, threads, shutdown, lock, slots, pending, future, job,
                   stop, cancelled, shutdowns>>

ShuttingDown(c) == Drain(c) \/ Signal(c) \/ CancelOne(c) \/ ShutdownEnd(c)

-----------------------------------------------------------------------------
Caller(c) ==
    \/ Submit(c)
    \/ \E wait, cancel \in BOOLEAN : Shutdown(c, wait, cancel)
    \/ ShuttingDown(c)
    \/ ReleaseSlot(c)

Worker(w) == Get(w) \/ Run(w) \/ Finish(w) \/ ReleaseSlot(w)

Next == (\E c \in Callers : Caller(c)) \/ (\E w \in Workers : Worker(w))

Spec == Init /\ [][Next]_vars

\* A call that has begun and a worker that can go on do so.  Nothing is
\* assumed of Reserve, Refuse and Shutdown (nobody has to call) and of Finish:
\* a network send may stall for good.
Fairness ==
    /\ \A c \in Callers : WF_vars(Count(c) \/ StartThread(c) \/ StartFails(c) \/ Put(c)
                                  \/ ShuttingDown(c) \/ ReleaseSlot(c))
    /\ \A w \in Workers : WF_vars(Get(w) \/ Run(w) \/ ReleaseSlot(w))

FairSpec == Spec /\ Fairness

-----------------------------------------------------------------------------
(* Properties *)

\* Every variable has its type; the semaphore never exceeds max_pending (a
\* BoundedSemaphore raises) and pending() stays within 0..capacity.
TypeOK ==
    /\ jobs \in Seq(Jobs \union {None})
    /\ threads \subseteq Workers
    /\ shutdown \in BOOLEAN
    /\ lock \in Callers \union {None}
    /\ slots \in 0..Capacity
    /\ pending \in 0..Capacity
    /\ future \in [Jobs -> {"new", "refused", "pending", "running", "finished", "cancelled"}]
    /\ pc \in [AllThreads -> {"idle", "count", "start", "put", "uncount", "unslot", "drain",
                              "signal", "cancel", "off", "get", "got", "running", "exited"}]
    /\ job \in [AllThreads -> Jobs \union {None}]
    /\ stop \in [Callers -> [cancel: BOOLEAN, wait: BOOLEAN, signal: BOOLEAN]]
    /\ cancelled \in [Callers -> Seq(Jobs)]
    /\ shutdowns \in 0..MaxShutdowns

Unsettled == {j \in Jobs : future[j] \in {"pending", "running"}}
Settling == {t \in AllThreads : pc[t] \in {"uncount", "unslot"}}

\* A slot is taken by each unsettled future and by each thread inside the
\* callback of a settled one, and by nothing else: whatever mixes success,
\* exceptions, cancellation and failed thread starts, no slot is lost and none
\* is given back twice.  pending() lags by the threads in between.
SlotsConserved ==
    /\ slots + Cardinality(Unsettled) + Cardinality(Settling) = Capacity
    /\ pending = Capacity - slots - Cardinality({t \in AllThreads : pc[t] \in {"count", "unslot"}})

\* A future still in the hands of submit is not accepted yet.
InSubmit(j) == \E c \in Callers : job[c] = j /\ pc[c] \in {"count", "start", "put"}

Delivery == INSTANCE BoundedDelivery WITH
    status <- [j \in Jobs |-> IF InSubmit(j) THEN "new" ELSE future[j]],
    open <- ~shutdown

\* The pool implements the bounded delivery it promises: at most max_pending
\* outstanding, each accepted notification runs at most once, cancelled ones
\* never run and only a shutdown cancels.
Contract == Delivery!Spec

\* The functions the workers run all return sooner or later.
SendsEnd == \A w \in Workers : []<>(pc[w] # "running")

\* If the sends end, an accepted notification is delivered or cancelled, a
\* shutdown that does not cancel included: the sentinels are behind the jobs.
AcceptedSettles ==
    SendsEnd => \A j \in Jobs : (future[j] = "pending") ~> (future[j] \notin {"pending", "running"})

\* If the sends end, every worker leaves after a shutdown, also when a second
\* one drains the sentinels of the first.
WorkersExit ==
    SendsEnd => (shutdown ~> \A w \in threads : pc[w] = "exited")

\* shutdown(wait=False) returns even if a send stalls for good: "workers are
\* owned daemon threads", so they are no exit dependency.
ShutdownReturns ==
    \A c \in Callers : (pc[c] \in {"drain", "signal", "cancel"} /\ ~stop[c].wait) ~> (pc[c] = "idle")
=============================================================================
