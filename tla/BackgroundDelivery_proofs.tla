--------------------- MODULE BackgroundDelivery_proofs ---------------------
(***************************************************************************)
(* Proofs about BackgroundDelivery, for any numbers of callers, workers,   *)
(* notifications and slots: its types, the conservation of the slots, and  *)
(* that it implements BoundedDelivery.                                     *)
(*                                                                         *)
(* The inductive invariant says where a notification is: with the submit   *)
(* that makes it, once in the queue, with one worker, or once in the list  *)
(* of one shutdown that cancels it.  A second place would let it run twice *)
(* or be cancelled while it runs.                                          *)
(***************************************************************************)
EXTENDS BackgroundDelivery, FiniteSetTheorems, TLAPS

Statuses == {"new", "refused", "pending", "running", "finished", "cancelled"}

CallerPlaces == {"idle", "count", "start", "put", "uncount", "unslot", "drain", "signal", "cancel"}

WorkerPlaces == {"off", "get", "got", "running", "uncount", "unslot", "exited"}

\* TypeOK without the upper bounds, which follow from SlotsConserved.
Types ==
    /\ jobs \in Seq(Jobs \union {None})
    /\ threads \subseteq Workers
    /\ shutdown \in BOOLEAN
    /\ lock \in Callers \union {None}
    /\ slots \in Nat
    /\ pending \in Int
    /\ future \in [Jobs -> Statuses]
    /\ pc \in [AllThreads -> CallerPlaces \union WorkerPlaces]
    /\ job \in [AllThreads -> Jobs \union {None}]
    /\ stop \in [Callers -> [cancel: BOOLEAN, wait: BOOLEAN, signal: BOOLEAN]]
    /\ cancelled \in [Callers -> Seq(Jobs)]
    /\ shutdowns \in 0..MaxShutdowns

\* Where a caller holds self._lock for sure, and where a notification is in hand.
Locked == {"count", "start", "put", "drain", "signal"}
Making == {"count", "start", "put"}
Handling == Making \union {"got", "running"}

\* Who is where, who holds the lock, and what follows of the flag.
Control ==
    /\ \A c \in Callers : pc[c] \in CallerPlaces
    /\ \A w \in Workers : pc[w] \in WorkerPlaces
    /\ \A w \in Workers \ threads : pc[w] = "off"
    /\ \A c \in Callers : pc[c] \in Locked => lock = c
    /\ \A c \in Callers : pc[c] \in Making => ~shutdown
    /\ \A c \in Callers : pc[c] = "drain" \/ cancelled[c] # <<>> => shutdown

Has(s, x) == \E i \in 1..Len(s) : s[i] = x

\* No notification is twice in the sequence; the sentinel may be.
Once(s) == \A i, k \in 1..Len(s) : s[i] = s[k] /\ s[i] # None => i = k

InHand(t, j) == pc[t] \in Handling /\ job[t] = j

\* A notification is in one place at most, and its future fits the place.
OnePlace(j) ==
    /\ \A t, u \in AllThreads : InHand(t, j) /\ InHand(u, j) => t = u
    /\ \A t \in AllThreads : InHand(t, j) =>
         /\ ~Has(jobs, j)
         /\ \A c \in Callers : ~Has(cancelled[c], j)
         /\ future[j] = IF pc[t] = "running" THEN "running" ELSE "pending"
    /\ Has(jobs, j) => future[j] = "pending" /\ \A c \in Callers : ~Has(cancelled[c], j)
    /\ \A c \in Callers : Has(cancelled[c], j) => future[j] = "pending"
    /\ \A c, d \in Callers : Has(cancelled[c], j) /\ Has(cancelled[d], j) => c = d

Places ==
    /\ \A t \in AllThreads : pc[t] \in Handling => job[t] \in Jobs
    /\ Once(jobs)
    /\ \A c \in Callers : Once(cancelled[c])
    /\ \A j \in Jobs : OnePlace(j)

IInv == Types /\ Control /\ Places /\ SlotsConserved

-----------------------------------------------------------------------------
(* Sequences without repetition *)

\* What a queue or list holds after its head is taken: the rest, without the
\* head if that was in it once.
LEMMA TailHas ==
    ASSUME NEW S, NEW s \in Seq(S), s # <<>>
    PROVE  /\ Head(s) \in S
           /\ Tail(s) \in Seq(S)
           /\ Has(s, Head(s))
           /\ \A x : Has(Tail(s), x) => Has(s, x)
           /\ Once(s) => Once(Tail(s))
           /\ Once(s) /\ Head(s) # None => ~Has(Tail(s), Head(s))
<1>1. Len(s) \in Nat /\ Len(s) > 0 /\ Head(s) = s[1] /\ s[1] \in S
    OBVIOUS
<1>2. /\ Tail(s) \in Seq(S)
      /\ Len(Tail(s)) = Len(s) - 1
      /\ \A i \in 1..Len(Tail(s)) : i + 1 \in 1..Len(s) /\ Tail(s)[i] = s[i + 1]
    BY <1>1
<1>3. Has(s, Head(s))
    BY <1>1 DEF Has
<1>4. ASSUME NEW x, Has(Tail(s), x)
      PROVE  Has(s, x)
    <2>1. PICK i \in 1..Len(Tail(s)) : Tail(s)[i] = x
        BY <1>4 DEF Has
    <2> QED
        BY <2>1, <1>2 DEF Has
<1>5. ASSUME Once(s)
      PROVE  Once(Tail(s))
    <2> SUFFICES ASSUME NEW i \in 1..Len(Tail(s)), NEW k \in 1..Len(Tail(s)),
                        Tail(s)[i] = Tail(s)[k], Tail(s)[i] # None
                 PROVE  i = k
        BY DEF Once
    <2>1. i + 1 \in 1..Len(s) /\ k + 1 \in 1..Len(s) /\ s[i + 1] = s[k + 1] /\ s[i + 1] # None
        BY <1>2
    <2>2. i + 1 = k + 1
        BY <2>1, <1>5 DEF Once
    <2> QED
        BY <2>2, <1>1, <1>2
<1>6. ASSUME Once(s), Head(s) # None, Has(Tail(s), Head(s))
      PROVE  FALSE
    <2>1. PICK i \in 1..Len(Tail(s)) : Tail(s)[i] = Head(s)
        BY <1>6 DEF Has
    <2>2. i + 1 \in 1..Len(s) /\ 1 \in 1..Len(s) /\ s[i + 1] = s[1] /\ s[1] # None
        BY <2>1, <1>1, <1>2, <1>6
    <2>3. i + 1 = 1
        BY <2>2, <1>6 DEF Once
    <2> QED
        BY <2>3, <1>1, <1>2
<1> QED
    BY <1>1, <1>2, <1>3, <1>4, <1>5, <1>6

\* What a queue or list holds after one more is put at its end.
LEMMA AppendHas ==
    ASSUME NEW S, NEW s \in Seq(S), NEW y \in S
    PROVE  /\ Append(s, y) \in Seq(S)
           /\ \A x : Has(Append(s, y), x) <=> Has(s, x) \/ x = y
           /\ Once(s) /\ ~Has(s, y) => Once(Append(s, y))
<1>1. /\ Append(s, y) \in Seq(S)
      /\ Len(s) \in Nat
      /\ Len(Append(s, y)) = Len(s) + 1
      /\ Append(s, y)[Len(s) + 1] = y
      /\ \A i \in 1..Len(s) : Append(s, y)[i] = s[i]
    OBVIOUS
<1>2. \A x : Has(Append(s, y), x) => Has(s, x) \/ x = y
    <2> SUFFICES ASSUME NEW x, Has(Append(s, y), x), x # y
                 PROVE  Has(s, x)
        OBVIOUS
    <2>1. PICK i \in 1..Len(s) + 1 : Append(s, y)[i] = x
        BY <1>1 DEF Has
    <2>2. i \in 1..Len(s)
        BY <2>1, <1>1
    <2> QED
        BY <2>1, <2>2, <1>1 DEF Has
<1>3. \A x : Has(s, x) => Has(Append(s, y), x)
    <2> SUFFICES ASSUME NEW x, NEW i \in 1..Len(s), s[i] = x
                 PROVE  Has(Append(s, y), x)
        BY DEF Has
    <2>1. i \in 1..Len(Append(s, y)) /\ Append(s, y)[i] = x
        BY <1>1
    <2> QED
        BY <2>1 DEF Has
<1>4. Has(Append(s, y), y)
    <2>1. Len(s) + 1 \in 1..Len(Append(s, y))
        BY <1>1
    <2> QED
        BY <2>1, <1>1 DEF Has
<1>5. ASSUME Once(s), ~Has(s, y)
      PROVE  Once(Append(s, y))
    <2> DEFINE a == Append(s, y)
    <2> SUFFICES ASSUME NEW i \in 1..Len(s) + 1, NEW k \in 1..Len(s) + 1,
                        a[i] = a[k], a[i] # None
                 PROVE  i = k
        BY <1>1 DEF Once
    <2>1. CASE i \in 1..Len(s) /\ k \in 1..Len(s)
        BY <2>1, <1>1, <1>5 DEF Once
    <2>2. CASE i = Len(s) + 1 /\ k = Len(s) + 1
        BY <2>2
    <2>3. CASE i \in 1..Len(s) /\ k = Len(s) + 1
        BY <2>3, <1>1, <1>5 DEF Has
    <2>4. CASE i = Len(s) + 1 /\ k \in 1..Len(s)
        BY <2>4, <1>1, <1>5 DEF Has
    <2> QED
        BY <2>1, <2>2, <2>3, <2>4, <1>1
<1> QED
    BY <1>1, <1>2, <1>3, <1>4, <1>5

\* Sentinels behind the queue add no notification.
LEMMA SentinelsHas ==
    ASSUME NEW s \in Seq(Jobs \union {None}), NEW n \in Nat
    PROVE  LET a == s \o [i \in 1..n |-> None]
           IN  /\ a \in Seq(Jobs \union {None})
               /\ \A j \in Jobs : Has(a, j) <=> Has(s, j)
               /\ Once(s) => Once(a)
<1> DEFINE z == [i \in 1..n |-> None]
           a == s \o z
<1>1. z \in Seq(Jobs \union {None}) /\ Len(z) = n /\ \A i \in 1..n : z[i] = None
    OBVIOUS
<1>2. /\ a \in Seq(Jobs \union {None})
      /\ Len(s) \in Nat
      /\ Len(a) = Len(s) + n
      /\ \A i \in 1..Len(a) : a[i] = IF i <= Len(s) THEN s[i] ELSE z[i - Len(s)]
    BY <1>1
<1> HIDE DEF z, a
<1>3. \A i \in 1..Len(a) : a[i] = IF i \in 1..Len(s) THEN s[i] ELSE None
    BY <1>1, <1>2
<1>4. \A i \in 1..Len(s) : i \in 1..Len(a) /\ a[i] = s[i]
    BY <1>2
<1>5. \A j \in Jobs : Has(a, j) <=> Has(s, j)
    BY <1>3, <1>4, PoolAssumption DEF Has
<1>6. Once(s) => Once(a)
    BY <1>3 DEF Once
<1> QED
    BY <1>2, <1>5, <1>6 DEF a, z
-----------------------------------------------------------------------------
(* Types and control *)

\* The types are kept by every step.
LEMMA TypesStep ==
    ASSUME Types, Control, [Next]_vars
    PROVE  Types'
<1>1. ASSUME NEW c \in Callers, NEW j \in Jobs, Reserve(c, j)
      PROVE  Types'
    BY <1>1 DEF Types, Reserve, Goto, Become, AllThreads, Statuses, CallerPlaces
<1>2. ASSUME NEW c \in Callers, NEW j \in Jobs, Refuse(c, j)
      PROVE  Types'
    BY <1>2 DEF Types, Refuse, Become, Statuses
<1>3. ASSUME NEW c \in Callers, Count(c)
      PROVE  Types'
    BY <1>3 DEF Types, Count, Goto, AllThreads, CallerPlaces
<1>4. ASSUME NEW c \in Callers, StartThread(c)
      PROVE  Types'
    BY <1>4 DEF Types, StartThread, CallerPlaces, WorkerPlaces
<1>5. ASSUME NEW c \in Callers, StartFails(c)
      PROVE  Types'
    BY <1>5 DEF Types, StartFails, Goto, Become, Statuses, WorkerPlaces
<1>6. ASSUME NEW c \in Callers, Put(c)
      PROVE  Types'
    BY <1>6, AppendHas DEF Types, Put, Goto, AllThreads, CallerPlaces
<1>7. ASSUME NEW c \in Callers, NEW wait \in BOOLEAN, NEW cancel \in BOOLEAN, Shutdown(c, wait, cancel)
      PROVE  Types'
    BY <1>7, PoolAssumption DEF Types, Shutdown, Goto, AllThreads, CallerPlaces
<1>8. ASSUME NEW c \in Callers, Drain(c)
      PROVE  Types'
    <2>1. CASE jobs = <<>>
        BY <1>8, <2>1 DEF Types, Drain, Goto, CallerPlaces
    <2>2. CASE jobs # <<>>
        <3>1. Tail(jobs) \in Seq(Jobs \union {None}) /\ Head(jobs) \in Jobs \union {None}
            BY <2>2, TailHas DEF Types
        <3>2. /\ jobs' = Tail(jobs)
              /\ cancelled' = IF Head(jobs) = None THEN cancelled
                              ELSE [cancelled EXCEPT ![c] = Append(@, Head(jobs))]
            BY <1>8, <2>2 DEF Drain
        <3>3. cancelled' \in [Callers -> Seq(Jobs)]
            <4>1. cancelled \in [Callers -> Seq(Jobs)] /\ cancelled[c] \in Seq(Jobs)
                BY DEF Types
            <4>2. Head(jobs) # None => Append(cancelled[c], Head(jobs)) \in Seq(Jobs)
                BY <3>1, <4>1, AppendHas
            <4> QED
                BY <3>2, <4>1, <4>2
        <3> QED
            BY <1>8, <2>2, <3>1, <3>2, <3>3 DEF Types, Drain
    <2> QED
        BY <2>1, <2>2
<1>9. ASSUME NEW c \in Callers, Signal(c)
      PROVE  Types'
    <2>1. Cardinality(threads) \in Nat
        BY PoolAssumption, FS_Subset, FS_CardinalityType DEF Types
    <2>2. jobs' \in Seq(Jobs \union {None})
        BY <1>9, <2>1, SentinelsHas DEF Types, Signal, Sentinels
    <2> QED
        BY <1>9, <2>2 DEF Types, Signal, Goto, CallerPlaces
<1>10. ASSUME NEW c \in Callers, CancelOne(c)
      PROVE  Types'
    <2>1. cancelled[c] \in Seq(Jobs)
        BY DEF Types
    <2>2. Tail(cancelled[c]) \in Seq(Jobs) /\ Head(cancelled[c]) \in Jobs
        BY <1>10, <2>1, TailHas DEF CancelOne
    <2> QED
        BY <1>10, <2>2 DEF Types, CancelOne, Goto, Become, Statuses, WorkerPlaces
<1>11. ASSUME NEW c \in Callers, ShutdownEnd(c)
      PROVE  Types'
    BY <1>11 DEF Types, ShutdownEnd, Goto, CallerPlaces
<1>12. ASSUME NEW w \in Workers, Get(w)
      PROVE  Types'
    <2>1. jobs' \in Seq(Jobs \union {None}) /\ Head(jobs) \in Jobs \union {None}
        BY <1>12, TailHas DEF Types, Get
    <2> QED
        BY <1>12, <2>1 DEF Types, Get, Goto, WorkerPlaces
<1>13. ASSUME NEW w \in Workers, Run(w)
      PROVE  Types'
    <2>1. CASE future[job[w]] = "pending"
        BY <1>13, <2>1 DEF Types, Run, Goto, Become, Statuses, WorkerPlaces
    <2>2. CASE future[job[w]] # "pending"
        BY <1>13, <2>2 DEF Types, Run, Goto, AllThreads, WorkerPlaces
    <2> QED
        BY <2>1, <2>2
<1>14. ASSUME NEW w \in Workers, Finish(w)
      PROVE  Types'
    BY <1>14 DEF Types, Finish, Goto, Become, Statuses, WorkerPlaces
<1>15. ASSUME NEW t \in AllThreads, Uncount(t)
      PROVE  Types'
    BY <1>15 DEF Types, Uncount, Goto, WorkerPlaces
<1>16. ASSUME NEW t \in AllThreads, Unslot(t)
      PROVE  Types'
    BY <1>16 DEF Types, Unslot, Goto, CallerPlaces, WorkerPlaces
<1>17. CASE UNCHANGED vars
    BY <1>17 DEF vars, Types
<1> QED
    BY <1>1, <1>2, <1>3, <1>4, <1>5, <1>6, <1>7, <1>8, <1>9,
       <1>10, <1>11, <1>12, <1>13, <1>14, <1>15, <1>16, <1>17
    DEF Next, Caller, Worker, Submit, ShuttingDown, ReleaseSlot, AllThreads

\* Who is where and who holds the lock is kept by every step.
LEMMA ControlStep ==
    ASSUME Types, Control, [Next]_vars
    PROVE  Control'
<1>1. ASSUME NEW c \in Callers, NEW j \in Jobs, Reserve(c, j)
      PROVE  Control'
    BY <1>1, PoolAssumption DEF Control, Reserve, Goto, CallerPlaces
<1>2. ASSUME NEW c \in Callers, NEW j \in Jobs, Refuse(c, j)
      PROVE  Control'
    BY <1>2 DEF Control, Refuse
<1>3. ASSUME NEW c \in Callers, Count(c)
      PROVE  Control'
    BY <1>3, PoolAssumption DEF Control, Count, Goto, CallerPlaces, Locked, Making
<1>4. ASSUME NEW c \in Callers, StartThread(c)
      PROVE  Control'
    BY <1>4 DEF Types, Control, StartThread, AllThreads, CallerPlaces, WorkerPlaces, Locked, Making
<1>5. ASSUME NEW c \in Callers, StartFails(c)
      PROVE  Control'
    BY <1>5, PoolAssumption DEF Control, StartFails, Goto, CallerPlaces, Locked, Making
<1>6. ASSUME NEW c \in Callers, Put(c)
      PROVE  Control'
    BY <1>6, PoolAssumption DEF Types, Control, Put, Goto, AllThreads, CallerPlaces, Locked, Making
<1>7. ASSUME NEW c \in Callers, NEW wait \in BOOLEAN, NEW cancel \in BOOLEAN, Shutdown(c, wait, cancel)
      PROVE  Control'
    BY <1>7, PoolAssumption DEF Control, Shutdown, Goto, CallerPlaces, Locked, Making
<1>8. ASSUME NEW c \in Callers, Drain(c)
      PROVE  Control'
    BY <1>8, PoolAssumption
    DEF Types, Control, Drain, Goto, AllThreads, CallerPlaces, Locked, Making
<1>9. ASSUME NEW c \in Callers, Signal(c)
      PROVE  Control'
    BY <1>9, PoolAssumption
    DEF Types, Control, Signal, Goto, AllThreads, CallerPlaces, Locked, Making
<1>10. ASSUME NEW c \in Callers, CancelOne(c)
      PROVE  Control'
    BY <1>10, PoolAssumption DEF Control, CancelOne, Goto, CallerPlaces, Locked, Making
<1>11. ASSUME NEW c \in Callers, ShutdownEnd(c)
      PROVE  Control'
    BY <1>11, PoolAssumption DEF Control, ShutdownEnd, Goto, CallerPlaces, Locked, Making
<1>12. ASSUME NEW w \in Workers, Get(w)
      PROVE  Control'
    BY <1>12 DEF Types, Control, Get, Goto, AllThreads, CallerPlaces, WorkerPlaces
<1>13. ASSUME NEW w \in Workers, Run(w)
      PROVE  Control'
    BY <1>13 DEF Types, Control, Run, Goto, AllThreads, CallerPlaces, WorkerPlaces, Locked, Making
<1>14. ASSUME NEW w \in Workers, Finish(w)
      PROVE  Control'
    BY <1>14, PoolAssumption DEF Control, Finish, Goto, WorkerPlaces
<1>15. ASSUME NEW t \in AllThreads, Uncount(t)
      PROVE  Control'
    BY <1>15 DEF Control, Uncount, Goto, CallerPlaces, WorkerPlaces, Locked, Making
<1>16. ASSUME NEW t \in AllThreads, Unslot(t)
      PROVE  Control'
    BY <1>16, PoolAssumption DEF Control, Unslot, Goto, CallerPlaces, WorkerPlaces, Locked, Making
<1>17. CASE UNCHANGED vars
    BY <1>17 DEF vars, Control
<1> QED
    BY <1>1, <1>2, <1>3, <1>4, <1>5, <1>6, <1>7, <1>8, <1>9,
       <1>10, <1>11, <1>12, <1>13, <1>14, <1>15, <1>16, <1>17
    DEF Next, Caller, Worker, Submit, ShuttingDown, ReleaseSlot, AllThreads
-----------------------------------------------------------------------------
(* Places *)

\* Every step keeps each notification in one place at most.
LEMMA PlacesStep ==
    ASSUME Types, Control, Places, [Next]_vars
    PROVE  Places'
<1>1. ASSUME NEW c \in Callers, NEW j \in Jobs, Reserve(c, j)
      PROVE  Places'
    BY <1>1 DEF Types, Places, OnePlace, InHand, Reserve, Goto, Become
<1>2. ASSUME NEW c \in Callers, NEW j \in Jobs, Refuse(c, j)
      PROVE  Places'
    BY <1>2 DEF Places, OnePlace, InHand, Refuse, Become
<1>3. ASSUME NEW c \in Callers, Count(c)
      PROVE  Places'
    BY <1>3 DEF Places, OnePlace, InHand, Count, Goto, Making, Handling
<1>4. ASSUME NEW c \in Callers, StartThread(c)
      PROVE  Places'
    <2>1. \A t \in AllThreads : /\ pc'[t] \in Handling <=> pc[t] \in Handling
                                /\ pc'[t] = "running" <=> pc[t] = "running"
        BY <1>4 DEF Types, Control, StartThread, AllThreads, Making, Handling
    <2>2. UNCHANGED <<jobs, future, job, cancelled>>
        BY <1>4 DEF StartThread
    <2> QED
        BY <2>1, <2>2 DEF Places, OnePlace, InHand
<1>5. ASSUME NEW c \in Callers, StartFails(c)
      PROVE  Places'
    BY <1>5
    DEF Types, Places, OnePlace, InHand, StartFails, Goto, Become, AllThreads, Making, Handling
<1>6. ASSUME NEW c \in Callers, Put(c)
      PROVE  Places'
    <2>1. job[c] \in Jobs /\ ~Has(jobs, job[c])
        BY <1>6 DEF Places, OnePlace, InHand, Put, Making, Handling, AllThreads
    <2>2. Once(jobs') /\ \A x : Has(jobs', x) <=> Has(jobs, x) \/ x = job[c]
        BY <1>6, <2>1, AppendHas DEF Types, Places, Put
    <2> QED
        BY <1>6, <2>1, <2>2
        DEF Types, Places, OnePlace, InHand, Put, Goto, AllThreads, Making, Handling
<1>7. ASSUME NEW c \in Callers, NEW wait \in BOOLEAN, NEW cancel \in BOOLEAN, Shutdown(c, wait, cancel)
      PROVE  Places'
    BY <1>7 DEF Places, OnePlace, InHand, Shutdown, Goto, Making, Handling
<1>8. ASSUME NEW c \in Callers, Drain(c)
      PROVE  Places'
    <2>1. CASE jobs = <<>>
        BY <1>8, <2>1 DEF Types, Control, Places, OnePlace, InHand, Drain, Goto, Making, Handling
    <2>2. CASE jobs # <<>>
        <3>1. /\ Head(jobs) \in Jobs \union {None}
              /\ Has(jobs, Head(jobs))
              /\ \A x : Has(jobs', x) => Has(jobs, x)
            BY <1>8, <2>2, TailHas DEF Types, Drain
        <3>2. Once(jobs') /\ (Head(jobs) # None => ~Has(jobs', Head(jobs)))
            BY <1>8, <2>2, TailHas DEF Types, Places, Drain
        <3>3. CASE Head(jobs) = None
            BY <1>8, <2>2, <3>1, <3>2, <3>3 DEF Places, OnePlace, InHand, Drain
        <3>4. CASE Head(jobs) # None
            <4> DEFINE h == Head(jobs)
                       l == Append(cancelled[c], h)
            <4>1. h \in Jobs /\ ~Has(cancelled[c], h)
                BY <3>1, <3>4 DEF Places, OnePlace
            <4>2. cancelled[c] \in Seq(Jobs) /\ Once(cancelled[c])
                BY DEF Types, Places
            <4>3. Once(l) /\ \A x : Has(l, x) <=> Has(cancelled[c], x) \/ x = h
                BY <4>1, <4>2, AppendHas
            <4>4. cancelled' = [cancelled EXCEPT ![c] = l]
                BY <1>8, <2>2, <3>4 DEF Drain
            <4>5. Has(jobs, h) /\ ~Has(jobs', h)
                BY <3>1, <3>2, <3>4
            <4> HIDE DEF h, l
            <4> QED
                BY <1>8, <2>2, <3>1, <3>2, <4>1, <4>3, <4>4, <4>5
                DEF Places, OnePlace, InHand, Drain
        <3> QED
            BY <3>3, <3>4
    <2> QED
        BY <2>1, <2>2
<1>9. ASSUME NEW c \in Callers, Signal(c)
      PROVE  Places'
    <2>1. Cardinality(threads) \in Nat
        BY PoolAssumption, FS_Subset, FS_CardinalityType DEF Types
    <2>2. Once(jobs') /\ \A j \in Jobs : Has(jobs', j) <=> Has(jobs, j)
        BY <1>9, <2>1, SentinelsHas DEF Types, Places, Signal, Sentinels
    <2> QED
        BY <1>9, <2>2 DEF Places, OnePlace, InHand, Signal, Goto, Making, Handling
<1>10. ASSUME NEW c \in Callers, CancelOne(c)
      PROVE  Places'
    <2> DEFINE h == Head(cancelled[c])
               l == Tail(cancelled[c])
    <2>1. cancelled[c] \in Seq(Jobs) /\ cancelled[c] # <<>> /\ Once(cancelled[c])
        BY <1>10 DEF Types, Places, CancelOne
    <2>2. h \in Jobs /\ h # None /\ Has(cancelled[c], h) /\ Once(l)
        BY <2>1, TailHas, PoolAssumption
    <2>3. ~Has(l, h) /\ \A x : Has(l, x) => Has(cancelled[c], x)
        BY <2>1, <2>2, TailHas
    <2>4. cancelled' = [cancelled EXCEPT ![c] = l]
        BY <1>10 DEF CancelOne
    <2>5. /\ pc[c] = "cancel" /\ pc' = [pc EXCEPT ![c] = "uncount"]
          /\ future' = [future EXCEPT ![h] = "cancelled"]
          /\ \A t \in AllThreads \ {c} : job'[t] = job[t]
          /\ jobs' = jobs
        BY <1>10 DEF CancelOne, Goto, Become, Types
    <2> HIDE DEF h, l
    <2> QED
        BY <2>2, <2>3, <2>4, <2>5 DEF Types, Places, OnePlace, InHand, Making, Handling

<1>11. ASSUME NEW c \in Callers, ShutdownEnd(c)
      PROVE  Places'
    BY <1>11 DEF Places, OnePlace, InHand, ShutdownEnd, Goto, Making, Handling
<1>12. ASSUME NEW w \in Workers, Get(w)
      PROVE  Places'
    <2>1. Head(jobs) \in Jobs \union {None} /\ Has(jobs, Head(jobs)) /\ Once(jobs')
        BY <1>12, TailHas DEF Types, Places, Get
    <2>2. \A x : Has(jobs', x) => Has(jobs, x)
        BY <1>12, TailHas DEF Types, Get
    <2>3. Head(jobs) # None => ~Has(jobs', Head(jobs))
        BY <1>12, TailHas DEF Types, Places, Get
    <2>4. CASE Head(jobs) = None
        BY <1>12, <2>1, <2>2, <2>4
        DEF Types, Places, OnePlace, InHand, Get, Goto, AllThreads, Making, Handling
    <2>5. CASE Head(jobs) # None
        <3> DEFINE h == Head(jobs)
        <3>1. h \in Jobs /\ Has(jobs, h) /\ ~Has(jobs', h)
            BY <2>1, <2>3, <2>5
        <3>2. pc[w] = "get" /\ pc' = [pc EXCEPT ![w] = "got"] /\ job' = [job EXCEPT ![w] = h]
            BY <1>12, <2>5 DEF Get, Goto
        <3>3. UNCHANGED <<future, cancelled>>
            BY <1>12 DEF Get
        <3> HIDE DEF h
        <3> QED
            BY <2>1, <2>2, <3>1, <3>2, <3>3 DEF Types, Places, OnePlace, InHand
    <2> QED
        BY <2>4, <2>5

<1>13. ASSUME NEW w \in Workers, Run(w)
      PROVE  Places'
    BY <1>13 DEF Types, Places, OnePlace, InHand, Run, Goto, Become, AllThreads, Making, Handling
<1>14. ASSUME NEW w \in Workers, Finish(w)
      PROVE  Places'
    BY <1>14 DEF Types, Places, OnePlace, InHand, Finish, Goto, Become, AllThreads, Making, Handling
<1>15. ASSUME NEW t \in AllThreads, Uncount(t)
      PROVE  Places'
    BY <1>15 DEF Places, OnePlace, InHand, Uncount, Goto, Making, Handling
<1>16. ASSUME NEW t \in AllThreads, Unslot(t)
      PROVE  Places'
    BY <1>16 DEF Places, OnePlace, InHand, Unslot, Goto, Making, Handling
<1>17. CASE UNCHANGED vars
    BY <1>17 DEF vars, Places, OnePlace, InHand
<1> QED
    BY <1>1, <1>2, <1>3, <1>4, <1>5, <1>6, <1>7, <1>8, <1>9,
       <1>10, <1>11, <1>12, <1>13, <1>14, <1>15, <1>16, <1>17
    DEF Next, Caller, Worker, Submit, ShuttingDown, ReleaseSlot, AllThreads
-----------------------------------------------------------------------------
(* Slots *)

\* The threads by which pending() and the semaphore differ.
Lagging == {t \in AllThreads : pc[t] \in {"count", "unslot"}}

\* The sets that are counted are finite.
LEMMA CountsAreFinite ==
    /\ IsFiniteSet(Unsettled) /\ Cardinality(Unsettled) \in Nat
    /\ IsFiniteSet(Settling) /\ Cardinality(Settling) \in Nat
    /\ IsFiniteSet(Lagging) /\ Cardinality(Lagging) \in Nat
<1>1. IsFiniteSet(Jobs) /\ IsFiniteSet(AllThreads)
    BY PoolAssumption, FS_Union DEF AllThreads
<1>2. Unsettled \subseteq Jobs /\ Settling \subseteq AllThreads /\ Lagging \subseteq AllThreads
    BY DEF Unsettled, Settling, Lagging
<1> QED
    BY <1>1, <1>2, FS_Subset, FS_CardinalityType

\* No step loses a slot or gives one back twice.
LEMMA SlotsStep ==
    ASSUME Types, Control, Places, SlotsConserved, [Next]_vars
    PROVE  SlotsConserved'
<1> DEFINE Conserved == /\ slots + Cardinality(Unsettled) + Cardinality(Settling) = Capacity
                        /\ pending = Capacity - slots - Cardinality(Lagging)
<1> SUFFICES Conserved'
    BY DEF SlotsConserved, Lagging
<1>0. Conserved
    BY DEF SlotsConserved, Lagging
<1>1. ASSUME NEW c \in Callers, NEW j \in Jobs, Reserve(c, j)
      PROVE  Conserved'
    <2>1. /\ Unsettled' = Unsettled \union {j}
          /\ j \notin Unsettled
          /\ Settling' = Settling
          /\ Lagging' = Lagging \union {c}
          /\ c \notin Lagging
        BY <1>1 DEF Types, Reserve, Goto, Become, Unsettled, Settling, Lagging, AllThreads
    <2>2. Cardinality(Unsettled') = Cardinality(Unsettled) + 1
        BY <2>1, CountsAreFinite, FS_AddElement
    <2>3. Cardinality(Lagging') = Cardinality(Lagging) + 1
        BY <2>1, CountsAreFinite, FS_AddElement
    <2> QED
        BY <1>1, <2>1, <2>2, <2>3, <1>0, CountsAreFinite DEF Types, Reserve
<1>2. ASSUME NEW c \in Callers, NEW j \in Jobs, Refuse(c, j)
      PROVE  Conserved'
    <2>1. /\ Unsettled' = Unsettled
          /\ Settling' = Settling
          /\ Lagging' = Lagging
        BY <1>2 DEF Refuse, Become, Unsettled, Settling, Lagging
    <2> QED
        BY <1>2, <2>1, <1>0 DEF Refuse
<1>3. ASSUME NEW c \in Callers, Count(c)
      PROVE  Conserved'
    <2>1. /\ Unsettled' = Unsettled
          /\ Settling' = Settling
          /\ Lagging' = Lagging \ {c}
          /\ c \in Lagging
        BY <1>3 DEF Types, Count, Goto, Unsettled, Settling, Lagging, AllThreads
    <2>2. Cardinality(Lagging') = Cardinality(Lagging) - 1
        BY <2>1, CountsAreFinite, FS_RemoveElement
    <2> QED
        BY <1>3, <2>1, <2>2, <1>0, CountsAreFinite DEF Types, Count
<1>4. ASSUME NEW c \in Callers, StartThread(c)
      PROVE  Conserved'
    <2>1. /\ Unsettled' = Unsettled
          /\ Settling' = Settling
          /\ Lagging' = Lagging
        BY <1>4 DEF Types, Control, StartThread, Unsettled, Settling, Lagging
    <2> QED
        BY <1>4, <2>1, <1>0 DEF StartThread
<1>5. ASSUME NEW c \in Callers, StartFails(c)
      PROVE  Conserved'
    <2>1. /\ Unsettled' = Unsettled \ {job[c]}
          /\ job[c] \in Unsettled
          /\ Settling' = Settling \union {c}
          /\ c \notin Settling
          /\ Lagging' = Lagging
        BY <1>5
        DEF Types, Places, OnePlace, InHand, StartFails, Goto, Become, Unsettled, Settling, Lagging,
            AllThreads, Making, Handling
    <2>2. Cardinality(Unsettled') = Cardinality(Unsettled) - 1
        BY <2>1, CountsAreFinite, FS_RemoveElement
    <2>3. Cardinality(Settling') = Cardinality(Settling) + 1
        BY <2>1, CountsAreFinite, FS_AddElement
    <2> QED
        BY <1>5, <2>1, <2>2, <2>3, <1>0, CountsAreFinite DEF Types, StartFails
<1>6. ASSUME NEW c \in Callers, Put(c)
      PROVE  Conserved'
    <2>1. /\ Unsettled' = Unsettled
          /\ Settling' = Settling
          /\ Lagging' = Lagging
        BY <1>6 DEF Put, Goto, Unsettled, Settling, Lagging
    <2> QED
        BY <1>6, <2>1, <1>0 DEF Put
<1>7. ASSUME NEW c \in Callers, NEW wait \in BOOLEAN, NEW cancel \in BOOLEAN, Shutdown(c, wait, cancel)
      PROVE  Conserved'
    <2>1. /\ Unsettled' = Unsettled
          /\ Settling' = Settling
          /\ Lagging' = Lagging
        BY <1>7 DEF Shutdown, Goto, Unsettled, Settling, Lagging
    <2> QED
        BY <1>7, <2>1, <1>0 DEF Shutdown
<1>8. ASSUME NEW c \in Callers, Drain(c)
      PROVE  Conserved'
    <2>1. /\ Unsettled' = Unsettled
          /\ Settling' = Settling
          /\ Lagging' = Lagging
        BY <1>8 DEF Types, Drain, Goto, Unsettled, Settling, Lagging
    <2> QED
        BY <1>8, <2>1, <1>0 DEF Drain
<1>9. ASSUME NEW c \in Callers, Signal(c)
      PROVE  Conserved'
    <2>1. /\ Unsettled' = Unsettled
          /\ Settling' = Settling
          /\ Lagging' = Lagging
        BY <1>9 DEF Signal, Goto, Unsettled, Settling, Lagging
    <2> QED
        BY <1>9, <2>1, <1>0 DEF Signal
<1>10. ASSUME NEW c \in Callers, CancelOne(c)
      PROVE  Conserved'
    <2> DEFINE h == Head(cancelled[c])
    <2>0. h \in Jobs /\ future[h] = "pending"
        BY <1>10, TailHas DEF Types, Places, OnePlace, CancelOne
    <2>1. /\ Unsettled' = Unsettled \ {h}
          /\ h \in Unsettled
          /\ Settling' = Settling \union {c}
          /\ c \notin Settling
          /\ Lagging' = Lagging
        BY <1>10, <2>0 DEF Types, CancelOne, Goto, Become, Unsettled, Settling, Lagging, AllThreads
    <2>2. Cardinality(Unsettled') = Cardinality(Unsettled) - 1
        BY <2>1, CountsAreFinite, FS_RemoveElement
    <2>3. Cardinality(Settling') = Cardinality(Settling) + 1
        BY <2>1, CountsAreFinite, FS_AddElement
    <2> QED
        BY <1>10, <2>1, <2>2, <2>3, <1>0, CountsAreFinite DEF Types, CancelOne
<1>11. ASSUME NEW c \in Callers, ShutdownEnd(c)
      PROVE  Conserved'
    <2>1. /\ Unsettled' = Unsettled
          /\ Settling' = Settling
          /\ Lagging' = Lagging
        BY <1>11 DEF ShutdownEnd, Goto, Unsettled, Settling, Lagging
    <2> QED
        BY <1>11, <2>1, <1>0 DEF ShutdownEnd
<1>12. ASSUME NEW w \in Workers, Get(w)
      PROVE  Conserved'
    <2>1. /\ Unsettled' = Unsettled
          /\ Settling' = Settling
          /\ Lagging' = Lagging
        BY <1>12 DEF Types, Get, Goto, Unsettled, Settling, Lagging
    <2> QED
        BY <1>12, <2>1, <1>0 DEF Get
<1>13. ASSUME NEW w \in Workers, Run(w)
      PROVE  Conserved'
    <2>1. /\ Unsettled' = Unsettled
          /\ Settling' = Settling
          /\ Lagging' = Lagging
        BY <1>13 DEF Types, Run, Goto, Become, Unsettled, Settling, Lagging
    <2> QED
        BY <1>13, <2>1, <1>0 DEF Run
<1>14. ASSUME NEW w \in Workers, Finish(w)
      PROVE  Conserved'
    <2>1. /\ Unsettled' = Unsettled \ {job[w]}
          /\ job[w] \in Unsettled
          /\ Settling' = Settling \union {w}
          /\ w \notin Settling
          /\ Lagging' = Lagging
        BY <1>14
        DEF Types, Places, OnePlace, InHand, Finish, Goto, Become, Unsettled, Settling, Lagging,
            AllThreads, Making, Handling
    <2>2. Cardinality(Unsettled') = Cardinality(Unsettled) - 1
        BY <2>1, CountsAreFinite, FS_RemoveElement
    <2>3. Cardinality(Settling') = Cardinality(Settling) + 1
        BY <2>1, CountsAreFinite, FS_AddElement
    <2> QED
        BY <1>14, <2>1, <2>2, <2>3, <1>0, CountsAreFinite DEF Types, Finish
<1>15. ASSUME NEW t \in AllThreads, Uncount(t)
      PROVE  Conserved'
    <2>1. /\ Unsettled' = Unsettled
          /\ Settling' = Settling
          /\ Lagging' = Lagging \union {t}
          /\ t \notin Lagging
        BY <1>15 DEF Types, Uncount, Goto, Unsettled, Settling, Lagging
    <2>2. Cardinality(Lagging') = Cardinality(Lagging) + 1
        BY <2>1, CountsAreFinite, FS_AddElement
    <2> QED
        BY <1>15, <2>1, <2>2, <1>0, CountsAreFinite DEF Types, Uncount
<1>16. ASSUME NEW t \in AllThreads, Unslot(t)
      PROVE  Conserved'
    <2>1. /\ Unsettled' = Unsettled
          /\ Settling' = Settling \ {t}
          /\ t \in Settling
          /\ Lagging' = Lagging \ {t}
          /\ t \in Lagging
        BY <1>16 DEF Types, Unslot, Goto, Unsettled, Settling, Lagging
    <2>2. Cardinality(Settling') = Cardinality(Settling) - 1
        BY <2>1, CountsAreFinite, FS_RemoveElement
    <2>3. Cardinality(Lagging') = Cardinality(Lagging) - 1
        BY <2>1, CountsAreFinite, FS_RemoveElement
    <2> QED
        BY <1>16, <2>1, <2>2, <2>3, <1>0, CountsAreFinite DEF Types, Unslot
<1>17. CASE UNCHANGED vars
    BY <1>17, <1>0 DEF vars, Unsettled, Settling, Lagging
<1> QED
    BY <1>1, <1>2, <1>3, <1>4, <1>5, <1>6, <1>7, <1>8, <1>9,
       <1>10, <1>11, <1>12, <1>13, <1>14, <1>15, <1>16, <1>17
    DEF Next, Caller, Worker, Submit, ShuttingDown, ReleaseSlot, AllThreads
-----------------------------------------------------------------------------
(* Theorems *)

\* The invariant holds at the start.
LEMMA InitInvariant == Init => IInv
<1> SUFFICES ASSUME Init
             PROVE  IInv
    OBVIOUS
<1>1. Types
    <2>1. jobs \in Seq(Jobs \union {None}) /\ cancelled \in [Callers -> Seq(Jobs)]
        BY DEF Init
    <2>2. /\ future \in [Jobs -> Statuses]
          /\ pc \in [AllThreads -> CallerPlaces \union WorkerPlaces]
          /\ job \in [AllThreads -> Jobs \union {None}]
        BY DEF Init, Statuses, CallerPlaces, WorkerPlaces
    <2>3. stop \in [Callers -> [cancel: BOOLEAN, wait: BOOLEAN, signal: BOOLEAN]]
        BY DEF Init
    <2>4. threads \subseteq Workers /\ shutdown \in BOOLEAN /\ lock \in Callers \union {None}
        BY DEF Init
    <2>5. slots = Capacity /\ pending = 0 /\ shutdowns = 0
        BY DEF Init
    <2>6. slots \in Nat /\ pending \in Int /\ shutdowns \in 0..MaxShutdowns
        BY <2>5, PoolAssumption
    <2> QED
        BY <2>1, <2>2, <2>3, <2>4, <2>6 DEF Types
<1>2. Control
    BY PoolAssumption DEF Init, Control, AllThreads, Locked, CallerPlaces, WorkerPlaces
<1>3. Places
    BY DEF Init, Places, OnePlace, InHand, Has, Once, Making, Handling
<1>4. SlotsConserved
    <2>1. /\ Unsettled = {} /\ Settling = {}
          /\ {t \in AllThreads : pc[t] \in {"count", "unslot"}} = {}
        BY DEF Init, Unsettled, Settling
    <2>2. slots = Capacity /\ pending = 0
        BY DEF Init
    <2>3. /\ Cardinality(Unsettled) = 0 /\ Cardinality(Settling) = 0
          /\ Cardinality({t \in AllThreads : pc[t] \in {"count", "unslot"}}) = 0
        BY <2>1, FS_EmptySet
    <2>4. Capacity \in Int
        BY PoolAssumption
    <2> QED
        BY <2>2, <2>3, <2>4 DEF SlotsConserved
<1> QED
    BY <1>1, <1>2, <1>3, <1>4 DEF IInv

\* The upper bounds of the types: a thread that has taken its slot and not yet
\* counted it has an unsettled notification, so pending() is never negative.
LEMMA TypesAreBounded == IInv => TypeOK
<1> SUFFICES ASSUME IInv
             PROVE  TypeOK
    OBVIOUS
<1>1. Cardinality(Lagging) <= Cardinality(Unsettled) + Cardinality(Settling)
    <2>1. CASE \E t \in AllThreads : pc[t] = "count"
        <3>1. PICK c \in AllThreads : pc[c] = "count"
            BY <2>1
        <3>2. job[c] \in Unsettled
            BY <3>1 DEF IInv, Places, OnePlace, InHand, Unsettled, Making, Handling
        <3>3. Cardinality(Unsettled) # 0
            BY <3>2, CountsAreFinite, FS_EmptySet
        <3>4. Lagging \ {c} \subseteq Settling
            BY <3>1 DEF IInv, Control, AllThreads, Locked, WorkerPlaces, Lagging, Settling
        <3>5. Cardinality(Lagging \ {c}) = Cardinality(Lagging) - 1
            BY <3>1, CountsAreFinite, FS_RemoveElement DEF Lagging
        <3>6. Cardinality(Lagging \ {c}) <= Cardinality(Settling)
            BY <3>4, CountsAreFinite, FS_Subset
        <3> QED
            BY <3>3, <3>5, <3>6, CountsAreFinite
    <2>2. CASE ~\E t \in AllThreads : pc[t] = "count"
        <3>1. Lagging \subseteq Settling
            BY <2>2 DEF Lagging, Settling
        <3>2. Cardinality(Lagging) <= Cardinality(Settling)
            BY <3>1, CountsAreFinite, FS_Subset
        <3> QED
            BY <3>2, CountsAreFinite
    <2> QED
        BY <2>1, <2>2
<1>2. /\ slots + Cardinality(Unsettled) + Cardinality(Settling) = Capacity
      /\ pending = Capacity - slots - Cardinality(Lagging)
    BY DEF IInv, SlotsConserved, Lagging
<1>3. slots \in 0..Capacity /\ pending \in 0..Capacity
    BY <1>1, <1>2, CountsAreFinite, PoolAssumption DEF IInv, Types
<1> QED
    BY <1>3 DEF IInv, Types, TypeOK, Statuses, CallerPlaces, WorkerPlaces

\* The inductive invariant holds in every reachable state of the pool.
THEOREM Invariant == Spec => []IInv
<1>1. IInv /\ [Next]_vars => IInv'
    BY TypesStep, ControlStep, PlacesStep, SlotsStep DEF IInv
<1> QED
    BY <1>1, InitInvariant, PTL DEF Spec

\* Type correctness: the semaphore of submit and _release_slot never exceeds
\* max_pending and pending() stays within 0..capacity.
THEOREM TypeCorrect == Spec => []TypeOK
BY Invariant, TypesAreBounded, PTL

\* No slot is lost or returned twice, whatever the threads, the failures to
\* start one and the cancellations.
THEOREM SlotSafety == Spec => []SlotsConserved
<1>1. IInv => SlotsConserved
    BY DEF IInv
<1> QED
    BY <1>1, Invariant, PTL

-----------------------------------------------------------------------------
(* Refinement of BoundedDelivery *)

\* What BoundedDelivery calls the status of the notifications.
Status == [j \in Jobs |-> IF InSubmit(j) THEN "new" ELSE future[j]]

\* The pool starts as BoundedDelivery does.
LEMMA ContractInit == Init => Delivery!Init
BY DEF Init, Delivery!Init, InSubmit, AllThreads

\* Every step of the pool is one of BoundedDelivery or leaves its variables
\* alone: submit accepts with the put, refuses where it refuses or fails, a
\* worker starts and finishes, a shutdown closes and then cancels.
LEMMA ContractStep ==
    ASSUME IInv, [Next]_vars
    PROVE  [Delivery!Next]_(Delivery!vars)
<1> USE DEF IInv
<1>1. ASSUME NEW c \in Callers, NEW j \in Jobs, Reserve(c, j)
      PROVE  [Delivery!Next]_(Delivery!vars)
    <2>1. Status' = Status /\ shutdown' = shutdown
        BY <1>1 DEF Types, Reserve, Goto, Become, AllThreads, InSubmit, Status
    <2> QED
        BY <2>1 DEF Delivery!vars, Status
<1>2. ASSUME NEW c \in Callers, NEW j \in Jobs, Refuse(c, j)
      PROVE  [Delivery!Next]_(Delivery!vars)
    <2>1. \A k \in Jobs : InSubmit(k)' <=> InSubmit(k)
        BY <1>2 DEF Refuse, InSubmit
    <2>2. ~InSubmit(j)
        BY <1>2 DEF Places, OnePlace, InHand, InSubmit, Refuse, AllThreads, Making, Handling
    <2>3. /\ Status[j] = "new" /\ Status' = [Status EXCEPT ![j] = "refused"]
          /\ shutdown' = shutdown
        BY <1>2, <2>1, <2>2 DEF Types, Refuse, Become, Status
    <2> QED
        BY <2>3 DEF Delivery!Next, Delivery!Refuse, Delivery!Become, Status
<1>3. ASSUME NEW c \in Callers, Count(c)
      PROVE  [Delivery!Next]_(Delivery!vars)
    <2>1. Status' = Status /\ shutdown' = shutdown
        BY <1>3 DEF Count, Goto, InSubmit, Status
    <2> QED
        BY <2>1 DEF Delivery!vars, Status
<1>4. ASSUME NEW c \in Callers, StartThread(c)
      PROVE  [Delivery!Next]_(Delivery!vars)
    <2>1. Status' = Status /\ shutdown' = shutdown
        BY <1>4, PoolAssumption DEF Types, StartThread, AllThreads, Locked, InSubmit, Status
    <2> QED
        BY <2>1 DEF Delivery!vars, Status
<1>5. ASSUME NEW c \in Callers, StartFails(c)
      PROVE  [Delivery!Next]_(Delivery!vars)
    <2>1. job[c] \in Jobs /\ InSubmit(job[c])
        BY <1>5 DEF Places, InSubmit, StartFails, AllThreads, Making, Handling
    <2>2. \A k \in Jobs : InSubmit(k)' <=> InSubmit(k) /\ k # job[c]
        BY <1>5
        DEF Types, Places, OnePlace, InHand, InSubmit, StartFails, Goto, AllThreads, Making, Handling
    <2>3. /\ Status[job[c]] = "new" /\ Status' = [Status EXCEPT ![job[c]] = "refused"]
          /\ shutdown' = shutdown
        BY <1>5, <2>1, <2>2 DEF Types, StartFails, Become, Status
    <2> QED
        BY <2>1, <2>3 DEF Delivery!Next, Delivery!Refuse, Delivery!Become, Status
<1>6. ASSUME NEW c \in Callers, Put(c)
      PROVE  [Delivery!Next]_(Delivery!vars)
    <2>1. job[c] \in Jobs /\ future[job[c]] = "pending" /\ InSubmit(job[c])
        BY <1>6 DEF Places, OnePlace, InHand, InSubmit, Put, AllThreads, Making, Handling
    <2>2. Status[job[c]] = "new" /\ Status' = [Status EXCEPT ![job[c]] = "pending"]
        BY <1>6, <2>1 DEF Types, Control, Put, Goto, AllThreads, Locked, InSubmit, Status
    <2>3. ~shutdown /\ shutdown' = shutdown
        BY <1>6 DEF Control, Put, Making
    <2>4. Delivery!Outstanding \subseteq Unsettled \ {job[c]}
        BY <2>1 DEF Delivery!Outstanding, Unsettled
    <2>5. Cardinality(Unsettled \ {job[c]}) < Capacity /\ IsFiniteSet(Unsettled \ {job[c]})
        <3>1. job[c] \in Unsettled
            BY <2>1 DEF Unsettled
        <3>2. /\ IsFiniteSet(Unsettled \ {job[c]})
              /\ Cardinality(Unsettled \ {job[c]}) = Cardinality(Unsettled) - 1
            BY <3>1, CountsAreFinite, FS_RemoveElement
        <3>3. Cardinality(Unsettled) <= Capacity
            BY CountsAreFinite, PoolAssumption DEF SlotsConserved, Types
        <3> QED
            BY <3>2, <3>3, CountsAreFinite, PoolAssumption
    <2>6. Cardinality(Delivery!Outstanding) < Capacity
        <3>1. Cardinality(Delivery!Outstanding) <= Cardinality(Unsettled \ {job[c]})
            BY <2>4, <2>5, FS_Subset
        <3>2. Cardinality(Delivery!Outstanding) \in Nat /\ Cardinality(Unsettled \ {job[c]}) \in Nat
            BY <2>4, <2>5, FS_Subset, FS_CardinalityType
        <3> QED
            BY <3>1, <3>2, <2>5, PoolAssumption
    <2>7. PICK j \in Jobs : j = job[c]
        BY <2>1
    <2>8. Delivery!Become(j, "new", "pending") /\ ~shutdown /\ UNCHANGED ~shutdown
        BY <2>2, <2>3, <2>7 DEF Delivery!Become, Status
    <2>9. Delivery!Cardinality(Delivery!Outstanding) = Cardinality(Delivery!Outstanding)
        BY Zenon DEF Delivery!Cardinality, Cardinality
    <2>10. Delivery!Accept(j)
        BY <2>6, <2>8, <2>9 DEF Delivery!Accept
    <2> QED
        BY <2>10 DEF Delivery!Next
<1>7. ASSUME NEW c \in Callers, NEW wait \in BOOLEAN, NEW cancel \in BOOLEAN, Shutdown(c, wait, cancel)
      PROVE  [Delivery!Next]_(Delivery!vars)
    <2>1. Status' = Status /\ shutdown' = TRUE
        BY <1>7 DEF Shutdown, Goto, InSubmit, Status
    <2> QED
        BY <2>1 DEF Delivery!Next, Delivery!Close, Status
<1>8. ASSUME NEW c \in Callers, Drain(c)
      PROVE  [Delivery!Next]_(Delivery!vars)
    <2>1. Status' = Status /\ shutdown' = shutdown
        BY <1>8 DEF Types, Drain, Goto, AllThreads, InSubmit, Status
    <2> QED
        BY <2>1 DEF Delivery!vars, Status
<1>9. ASSUME NEW c \in Callers, Signal(c)
      PROVE  [Delivery!Next]_(Delivery!vars)
    <2>1. Status' = Status /\ shutdown' = shutdown
        BY <1>9 DEF Signal, Goto, InSubmit, Status
    <2> QED
        BY <2>1 DEF Delivery!vars, Status
<1>10. ASSUME NEW c \in Callers, CancelOne(c)
      PROVE  [Delivery!Next]_(Delivery!vars)
    <2> DEFINE h == Head(cancelled[c])
    <2>1. h \in Jobs /\ Has(cancelled[c], h)
        BY <1>10, TailHas DEF Types, CancelOne
    <2>2. future[h] = "pending" /\ ~InSubmit(h) /\ shutdown
        BY <1>10, <2>1 DEF Control, Places, OnePlace, InSubmit, CancelOne, Making, Handling
    <2>3. Status[h] = "pending" /\ Status' = [Status EXCEPT ![h] = "cancelled"] /\ shutdown' = shutdown
        BY <1>10, <2>1, <2>2 DEF Types, CancelOne, Goto, Become, AllThreads, InSubmit, Status
    <2> QED
        BY <2>1, <2>2, <2>3 DEF Delivery!Next, Delivery!Cancel, Delivery!Become, Status
<1>11. ASSUME NEW c \in Callers, ShutdownEnd(c)
      PROVE  [Delivery!Next]_(Delivery!vars)
    <2>1. Status' = Status /\ shutdown' = shutdown
        BY <1>11 DEF ShutdownEnd, Goto, InSubmit, Status
    <2> QED
        BY <2>1 DEF Delivery!vars, Status
<1>12. ASSUME NEW w \in Workers, Get(w)
      PROVE  [Delivery!Next]_(Delivery!vars)
    <2>1. \A d \in Callers : pc'[d] = pc[d] /\ job'[d] = job[d]
        BY <1>12, PoolAssumption DEF Types, Get, Goto, AllThreads
    <2>2. \A j \in Jobs : InSubmit(j)' <=> InSubmit(j)
        BY <2>1 DEF InSubmit
    <2>3. Status' = Status /\ shutdown' = shutdown
        BY <1>12, <2>2 DEF Get, Status
    <2> QED
        BY <2>3 DEF Delivery!vars, Status
<1>13. ASSUME NEW w \in Workers, Run(w)
      PROVE  [Delivery!Next]_(Delivery!vars)
    <2>1. \A d \in Callers : pc'[d] = pc[d] /\ job'[d] = job[d]
        BY <1>13, PoolAssumption DEF Types, Run, Goto, AllThreads
    <2>2. \A j \in Jobs : InSubmit(j)' <=> InSubmit(j)
        BY <2>1 DEF InSubmit
    <2>3. CASE future[job[w]] = "pending"
        <3>1. job[w] \in Jobs /\ ~InSubmit(job[w])
            BY <1>13 DEF Places, OnePlace, InHand, InSubmit, Run, AllThreads, Making, Handling
        <3>2. /\ Status[job[w]] = "pending" /\ Status' = [Status EXCEPT ![job[w]] = "running"]
              /\ shutdown' = shutdown
            BY <1>13, <2>2, <2>3, <3>1 DEF Types, Run, Become, Status
        <3> QED
            BY <3>1, <3>2 DEF Delivery!Next, Delivery!Start, Delivery!Become, Status
    <2>4. CASE future[job[w]] # "pending"
        BY <1>13, <2>2, <2>4 DEF Run, Delivery!vars
    <2> QED
        BY <2>3, <2>4
<1>14. ASSUME NEW w \in Workers, Finish(w)
      PROVE  [Delivery!Next]_(Delivery!vars)
    <2>1. \A d \in Callers : pc'[d] = pc[d] /\ job'[d] = job[d]
        BY <1>14, PoolAssumption DEF Types, Finish, Goto, AllThreads
    <2>2. \A j \in Jobs : InSubmit(j)' <=> InSubmit(j)
        BY <2>1 DEF InSubmit
    <2>3. job[w] \in Jobs /\ future[job[w]] = "running" /\ ~InSubmit(job[w])
        BY <1>14 DEF Places, OnePlace, InHand, InSubmit, Finish, AllThreads, Making, Handling
    <2>4. /\ Status[job[w]] = "running" /\ Status' = [Status EXCEPT ![job[w]] = "finished"]
          /\ shutdown' = shutdown
        BY <1>14, <2>2, <2>3 DEF Types, Finish, Become, Status
    <2> QED
        BY <2>3, <2>4 DEF Delivery!Next, Delivery!Finish, Delivery!Become, Status
<1>15. ASSUME NEW t \in AllThreads, Uncount(t)
      PROVE  [Delivery!Next]_(Delivery!vars)
    <2>1. Status' = Status /\ shutdown' = shutdown
        BY <1>15 DEF Uncount, Goto, InSubmit, Status
    <2> QED
        BY <2>1 DEF Delivery!vars, Status
<1>16. ASSUME NEW t \in AllThreads, Unslot(t)
      PROVE  [Delivery!Next]_(Delivery!vars)
    <2>1. Status' = Status /\ shutdown' = shutdown
        BY <1>16 DEF Unslot, Goto, InSubmit, Status
    <2> QED
        BY <2>1 DEF Delivery!vars, Status
<1>17. CASE UNCHANGED vars
    BY <1>17 DEF vars, Delivery!vars, InSubmit
<1> QED
    BY <1>1, <1>2, <1>3, <1>4, <1>5, <1>6, <1>7, <1>8, <1>9,
       <1>10, <1>11, <1>12, <1>13, <1>14, <1>15, <1>16, <1>17
    DEF Next, Caller, Worker, Submit, ShuttingDown, ReleaseSlot, AllThreads

\* The pool implements the bounded delivery it promises, for any capacity and
\* any numbers of callers, workers and notifications.
THEOREM Refinement == Spec => Contract
<1> QED
    BY ContractInit, ContractStep, Invariant, PTL DEF Spec, Contract, Delivery!Spec
=============================================================================
