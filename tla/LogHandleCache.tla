--------------------------- MODULE LogHandleCache ---------------------------
(***************************************************************************)
(* The bounded cache of leased log handles of src/log_handle_cache.py.     *)
(* Reader threads borrow the handle of a log file, use it outside the      *)
(* cache lock and give it back; other threads retire the handles of an     *)
(* account, evict an idle one, or close the cache for good.                *)
(*                                                                         *)
(* A block under "with self._condition" is one action.  Everything the     *)
(* code does outside it (the opener, the body of the with statement, the   *)
(* close call of a handle, entry.lock) is a program counter of its own, so *)
(* every other thread may run in between.  An _Entry object is an element  *)
(* of Entries; once disposed and no longer referenced it is garbage and    *)
(* its identity is used again.  The recency order of the OrderedDict is    *)
(* abstracted: any idle entry may be the victim of an eviction.            *)
(***************************************************************************)
EXTENDS Integers, FiniteSets

CONSTANTS
    Threads,    \* the threads that call the cache
    Users,      \* the accounts
    Keys,       \* (uid, generation, path) of a log file
    Owner,      \* the account of a key: entry.key[0]
    Entries,    \* identities of _Entry objects
    Capacity,   \* the most handles the cache may hold
    None        \* Python's None

ASSUME CacheAssumption ==
    /\ IsFiniteSet(Threads)
    /\ IsFiniteSet(Entries)
    /\ Capacity \in Nat \ {0}
    /\ Owner \in [Keys -> Users]
    /\ None \notin Threads \union Keys \union Entries

VARIABLES
    entries,       \* self._entries: the entry a key is mapped to
    entry,         \* the fields of each _Entry
    lock,          \* the holder of entry.lock
    allocated,     \* self._allocated
    closed,        \* self._closed
    openHandles,   \* self._stats['open_handles']
    pc,            \* where each thread is
    want,          \* the key a thread borrows
    cur,           \* the entry a thread works on
    taken,         \* the local "handle" of _dispose is not None
    todo,          \* the entries a thread still passes to _dispose
    again          \* _dispose or _release returns into a retry loop

vars == <<entries, entry, lock, allocated, closed, openHandles,
          pc, want, cur, taken, todo, again>>
threadVars == <<pc, want, cur, taken, todo, again>>

PCs == {"idle", "acquire", "waiting", "lock", "opening", "opened", "check",
        "using", "failing", "unlock", "release", "dispose", "closing"}

EntryRecord == [key: Keys \union {None}, handle: BOOLEAN, users: Nat,
                retired: BOOLEAN, disposed: BOOLEAN]

Garbage == [key |-> None, handle |-> FALSE, users |-> 0,
            retired |-> TRUE, disposed |-> TRUE]

Init ==
    /\ entries = [k \in Keys |-> None]
    /\ entry = [e \in Entries |-> Garbage]
    /\ lock = [e \in Entries |-> None]
    /\ allocated = 0
    /\ closed = FALSE
    /\ openHandles = 0
    /\ pc = [t \in Threads |-> "idle"]
    /\ want = [t \in Threads |-> None]
    /\ cur = [t \in Threads |-> None]
    /\ taken = [t \in Threads |-> FALSE]
    /\ todo = [t \in Threads |-> {}]
    /\ again = [t \in Threads |-> FALSE]

-----------------------------------------------------------------------------
(* Helpers *)

\* An identity no live entry and no thread refers to: a new _Entry may take it.
Unused(e) ==
    /\ entry[e].disposed
    /\ \A t \in Threads : cur[t] # e /\ e \notin todo[t]

\* MUTANT of Mapped: entries in use are passed over.
MappedIdle(ks) == {e \in {entries[k] : k \in ks} \ {None} : entry[e].users = 0}

\* The entries the dictionary holds for the keys of a set.
Mapped(ks) == {entries[k] : k \in ks} \ {None}

\* An entry that may be evicted: mapped and without users.
Idle(e) == e \in Mapped(Keys) /\ entry[e].users = 0

Goto(t, l) == pc' = [pc EXCEPT ![t] = l]

\* MUTANT of NotifyAll: the sleepers are not woken.
NotifyNobody(t, l) == Goto(t, l)

\* self._condition.notify_all(), with thread t going to label l.
NotifyAll(t, l) ==
    pc' = [s \in Threads |-> IF s = t THEN l
                             ELSE IF pc[s] = "waiting" THEN "acquire" ELSE pc[s]]

\* Where a thread goes when the entries of todo are all dealt with.
Return(t) == IF again[t] THEN "acquire" ELSE "idle"

\* _retire_locked for every entry of a set: marked and taken out of the map.
RetireLocked(es) ==
    /\ entry' = [e \in Entries |-> IF e \in es THEN [entry[e] EXCEPT !.retired = TRUE]
                                   ELSE entry[e]]
    /\ entries' = [k \in Keys |-> IF entries[k] \in es THEN None ELSE entries[k]]

-----------------------------------------------------------------------------
(* borrow and _acquire *)

\* A reader calls borrow(key, opener).
Borrow(t, k) ==
    /\ pc[t] = "idle"
    /\ Goto(t, "acquire")
    /\ want' = [want EXCEPT ![t] = k]
    /\ again' = [again EXCEPT ![t] = FALSE]
    /\ UNCHANGED <<entries, entry, lock, allocated, closed, openHandles, cur, taken, todo>>

\* _acquire on a closed cache raises; nothing is held yet.
AcquireClosed(t) ==
    /\ pc[t] = "acquire"
    /\ closed
    /\ Goto(t, "idle")
    /\ UNCHANGED <<entries, entry, lock, allocated, closed, openHandles,
                   want, cur, taken, todo, again>>

\* _acquire finds the key in the map: one more user of the same entry.
AcquireHit(t) ==
    /\ pc[t] = "acquire"
    /\ ~closed
    /\ entries[want[t]] # None
    /\ LET e == entries[want[t]] IN
       /\ entry' = [entry EXCEPT ![e].users = @ + 1]
       /\ cur' = [cur EXCEPT ![t] = e]
    /\ Goto(t, "lock")
    /\ UNCHANGED <<entries, lock, allocated, closed, openHandles, want, taken, todo, again>>

\* MUTANT of AcquireNew: the capacity test is off by one.
AcquireNewOffByOne(t) ==
    /\ pc[t] = "acquire"
    /\ ~closed
    /\ entries[want[t]] = None
    /\ allocated <= Capacity
    /\ \E e \in Entries :
        /\ Unused(e)
        /\ entry' = [entry EXCEPT ![e] = [key |-> want[t], handle |-> FALSE, users |-> 1,
                                          retired |-> FALSE, disposed |-> FALSE]]
        /\ entries' = [entries EXCEPT ![want[t]] = e]
        /\ cur' = [cur EXCEPT ![t] = e]
    /\ allocated' = allocated + 1
    /\ Goto(t, "lock")
    /\ UNCHANGED <<lock, closed, openHandles, want, taken, todo, again>>

\* _acquire reserves a handle for a new entry.
AcquireNew(t) ==
    /\ pc[t] = "acquire"
    /\ ~closed
    /\ entries[want[t]] = None
    /\ allocated < Capacity
    /\ \E e \in Entries :
        /\ Unused(e)
        /\ entry' = [entry EXCEPT ![e] = [key |-> want[t], handle |-> FALSE, users |-> 1,
                                          retired |-> FALSE, disposed |-> FALSE]]
        /\ entries' = [entries EXCEPT ![want[t]] = e]
        /\ cur' = [cur EXCEPT ![t] = e]
    /\ allocated' = allocated + 1
    /\ Goto(t, "lock")
    /\ UNCHANGED <<lock, closed, openHandles, want, taken, todo, again>>

\* _acquire at capacity retires an idle entry, to dispose of it and try again.
AcquireEvict(t) ==
    /\ pc[t] = "acquire"
    /\ ~closed
    /\ entries[want[t]] = None
    /\ allocated >= Capacity
    /\ \E e \in Entries :
        /\ Idle(e)
        /\ RetireLocked({e})
        /\ todo' = [todo EXCEPT ![t] = {e}]
    /\ again' = [again EXCEPT ![t] = TRUE]
    /\ Goto(t, "dispose")
    /\ UNCHANGED <<lock, allocated, closed, openHandles, want, cur, taken>>

\* _acquire at capacity with every entry in use sleeps on the condition.
AcquireWait(t) ==
    /\ pc[t] = "acquire"
    /\ ~closed
    /\ entries[want[t]] = None
    /\ allocated >= Capacity
    /\ ~ \E e \in Entries : Idle(e)
    /\ Goto(t, "waiting")
    /\ UNCHANGED <<entries, entry, lock, allocated, closed, openHandles,
                   want, cur, taken, todo, again>>

\* entry.lock.acquire(), and the test of entry.retired that follows it: an entry
\* retired in the meantime is given back, and borrow starts over.
LockEntry(t) ==
    /\ pc[t] = "lock"
    /\ lock[cur[t]] = None
    /\ \/ /\ entry[cur[t]].retired
          /\ again' = [again EXCEPT ![t] = TRUE]
          /\ Goto(t, "release")
          /\ UNCHANGED lock
       \/ /\ ~entry[cur[t]].retired
          /\ again' = [again EXCEPT ![t] = FALSE]
          /\ Goto(t, IF entry[cur[t]].handle THEN "check" ELSE "opening")
          /\ lock' = [lock EXCEPT ![cur[t]] = t]
    /\ UNCHANGED <<entries, entry, allocated, closed, openHandles, want, cur, taken, todo>>

\* opener() returns a handle.
OpenOk(t) ==
    /\ pc[t] = "opening"
    /\ entry' = [entry EXCEPT ![cur[t]].handle = TRUE]
    /\ Goto(t, "opened")
    /\ UNCHANGED <<entries, lock, allocated, closed, openHandles, want, cur, taken, todo, again>>

\* opener() raises.
OpenFails(t) ==
    /\ pc[t] = "opening"
    /\ Goto(t, "failing")
    /\ UNCHANGED <<entries, entry, lock, allocated, closed, openHandles,
                   want, cur, taken, todo, again>>

\* The new handle is counted, under the condition.
CountOpen(t) ==
    /\ pc[t] = "opened"
    /\ openHandles' = openHandles + 1
    /\ Goto(t, "check")
    /\ UNCHANGED <<entries, entry, lock, allocated, closed, want, cur, taken, todo, again>>

\* "if entry.retired" after the open: the handle is yielded only when it is not.
CheckRetired(t) ==
    /\ pc[t] = "check"
    /\ Goto(t, IF entry[cur[t]].retired THEN "failing" ELSE "using")
    /\ UNCHANGED <<entries, entry, lock, allocated, closed, openHandles,
                   want, cur, taken, todo, again>>

\* The body of the with statement ends, or raises.
EndUse(t) ==
    /\ pc[t] = "using"
    /\ \E l \in {"unlock", "failing"} : Goto(t, l)
    /\ UNCHANGED <<entries, entry, lock, allocated, closed, openHandles,
                   want, cur, taken, todo, again>>

\* The except clause of borrow retires the entry.
Fail(t) ==
    /\ pc[t] = "failing"
    /\ RetireLocked({cur[t]})
    /\ Goto(t, "unlock")
    /\ UNCHANGED <<lock, allocated, closed, openHandles, want, cur, taken, todo, again>>

\* The finally clause of borrow: entry.lock.release() ...
Unlock(t) ==
    /\ pc[t] = "unlock"
    /\ lock' = [lock EXCEPT ![cur[t]] = None]
    /\ Goto(t, "release")
    /\ UNCHANGED <<entries, entry, allocated, closed, openHandles, want, cur, taken, todo, again>>

\* MUTANT of Release: the count of users is tested before it is lowered.
ReleaseTestsFirst(t) ==
    /\ pc[t] = "release"
    /\ LET e == cur[t] IN
       /\ entry' = [entry EXCEPT ![e].users = @ - 1]
       /\ IF entry[e].retired /\ entry[e].users = 0
          THEN todo' = [todo EXCEPT ![t] = {e}] /\ NotifyAll(t, "dispose")
          ELSE UNCHANGED todo /\ NotifyAll(t, Return(t))
       /\ cur' = [cur EXCEPT ![t] = None]
    /\ UNCHANGED <<entries, lock, allocated, closed, openHandles, want, taken, again>>

\* ... and _release: the last user of a retired entry disposes of it.
Release(t) ==
    /\ pc[t] = "release"
    /\ LET e == cur[t] IN
       /\ entry' = [entry EXCEPT ![e].users = @ - 1]
       /\ IF entry[e].retired /\ entry[e].users = 1
          THEN todo' = [todo EXCEPT ![t] = {e}] /\ NotifyAll(t, "dispose")
          ELSE UNCHANGED todo /\ NotifyAll(t, Return(t))
       /\ cur' = [cur EXCEPT ![t] = None]
    /\ UNCHANGED <<entries, lock, allocated, closed, openHandles, want, taken, again>>

-----------------------------------------------------------------------------
(* _dispose, discard_user and close *)

\* Thread t is done with entry e of its list.
Disposed(t, e) == IF todo[t] = {e} THEN Return(t) ELSE "dispose"

\* _dispose of an entry that still has a user, or that another thread disposed of.
DisposeSkip(t) ==
    /\ pc[t] = "dispose"
    /\ \E e \in todo[t] :
        /\ entry[e].disposed \/ entry[e].users > 0
        /\ todo' = [todo EXCEPT ![t] = @ \ {e}]
        /\ Goto(t, Disposed(t, e))
    /\ UNCHANGED <<entries, entry, lock, allocated, closed, openHandles, want, cur, taken, again>>

\* MUTANT of DisposeTake: the users of the entry are not looked at.
DisposeTakeInUse(t) ==
    /\ pc[t] = "dispose"
    /\ \E e \in todo[t] :
        /\ ~entry[e].disposed
        /\ entry' = [entry EXCEPT ![e].disposed = TRUE, ![e].handle = FALSE]
        /\ taken' = [taken EXCEPT ![t] = entry[e].handle]
        /\ cur' = [cur EXCEPT ![t] = e]
    /\ Goto(t, "closing")
    /\ UNCHANGED <<entries, lock, allocated, closed, openHandles, want, todo, again>>

\* _dispose marks the entry and takes its handle, to close it outside the lock.
DisposeTake(t) ==
    /\ pc[t] = "dispose"
    /\ \E e \in todo[t] :
        /\ ~entry[e].disposed
        /\ entry[e].users = 0
        /\ entry' = [entry EXCEPT ![e].disposed = TRUE, ![e].handle = FALSE]
        /\ taken' = [taken EXCEPT ![t] = entry[e].handle]
        /\ cur' = [cur EXCEPT ![t] = e]
    /\ Goto(t, "closing")
    /\ UNCHANGED <<entries, lock, allocated, closed, openHandles, want, todo, again>>

\* The close call is over, well or badly: the finally clause frees the reservation.
DisposeEnd(t) ==
    /\ pc[t] = "closing"
    /\ openHandles' = IF taken[t] THEN openHandles - 1 ELSE openHandles
    /\ allocated' = allocated - 1
    /\ NotifyAll(t, Disposed(t, cur[t]))
    /\ taken' = [taken EXCEPT ![t] = FALSE]
    /\ todo' = [todo EXCEPT ![t] = @ \ {cur[t]}]
    /\ cur' = [cur EXCEPT ![t] = None]
    /\ UNCHANGED <<entries, entry, lock, closed, want, again>>

\* discard_user(uid): the account's handles are retired, then disposed of.
DiscardUser(t, u) ==
    /\ pc[t] = "idle"
    /\ LET es == Mapped({k \in Keys : Owner[k] = u}) IN
       /\ es # {}
       /\ RetireLocked(es)
       /\ todo' = [todo EXCEPT ![t] = es]
    /\ again' = [again EXCEPT ![t] = FALSE]
    /\ Goto(t, "dispose")
    /\ UNCHANGED <<lock, allocated, closed, openHandles, want, cur, taken>>

\* close(): no more acquisitions; every entry is retired; the sleepers wake up.
Close(t) ==
    /\ pc[t] = "idle"
    /\ closed' = TRUE
    /\ LET es == Mapped(Keys) IN
       /\ RetireLocked(es)
       /\ todo' = [todo EXCEPT ![t] = es]
       /\ NotifyAll(t, IF es = {} THEN "idle" ELSE "dispose")
    /\ again' = [again EXCEPT ![t] = FALSE]
    /\ UNCHANGED <<lock, allocated, openHandles, want, cur, taken>>

-----------------------------------------------------------------------------
Acquire(t) ==
    AcquireClosed(t) \/ AcquireHit(t) \/ AcquireNew(t) \/ AcquireEvict(t) \/ AcquireWait(t)

Lease(t) ==
    \/ LockEntry(t) \/ OpenOk(t) \/ OpenFails(t) \/ CountOpen(t) \/ CheckRetired(t)
    \/ EndUse(t) \/ Fail(t) \/ Unlock(t) \/ Release(t)

Dispose(t) == DisposeSkip(t) \/ DisposeTake(t) \/ DisposeEnd(t)

\* What a thread that has called the cache does next without being called again.
Step(t) == Acquire(t) \/ Lease(t) \/ Dispose(t)

Call(t) ==
    \/ \E k \in Keys : Borrow(t, k)
    \/ \E u \in Users : DiscardUser(t, u)
    \/ Close(t)

Next == \E t \in Threads : Call(t) \/ Step(t)

Spec == Init /\ [][Next]_vars

\* Running threads get the processor, file calls return, and the holder of
\* entry.lock is not starved; nobody has to call the cache.
Fairness == \A t \in Threads : WF_vars(Step(t))
FairSpec == Spec /\ Fairness

-----------------------------------------------------------------------------
(* Properties *)

\* The variables have their types.
TypeOK ==
    /\ entries \in [Keys -> Entries \union {None}]
    /\ entry \in [Entries -> EntryRecord]
    /\ lock \in [Entries -> Threads \union {None}]
    /\ allocated \in Int
    /\ closed \in BOOLEAN
    /\ openHandles \in Int
    /\ pc \in [Threads -> PCs]
    /\ want \in [Threads -> Keys \union {None}]
    /\ cur \in [Threads -> Entries \union {None}]
    /\ taken \in [Threads -> BOOLEAN]
    /\ todo \in [Threads -> SUBSET Entries]
    /\ again \in [Threads -> BOOLEAN]

\* The handles the process has open: those of entries and those being closed.
OpenFiles == {e \in Entries : entry[e].handle} \union {cur[t] : t \in {s \in Threads : taken[s]}}

\* The cache never has more files open than its capacity, counting handles of
\* retired leases and handles whose close call is still running (line 56).
CapacityRespected == Cardinality(OpenFiles) <= Capacity

\* A reader inside the with statement has an open handle, of the key it asked
\* for, and no other thread is using that handle or closing it.
LeaseIsLive ==
    \A t \in Threads : pc[t] = "using" =>
        /\ entry[cur[t]].handle /\ ~entry[cur[t]].disposed
        /\ entry[cur[t]].key = want[t]
        /\ \A s \in Threads \ {t} : pc[s] \in {"using", "closing"} => cur[s] # cur[t]

\* A retired entry is never forgotten: somebody uses it (and will see on release
\* that it is retired) or some thread has it on its list to dispose of.
RetiredIsReclaimed ==
    \A e \in Entries : entry[e].retired /\ ~entry[e].disposed =>
        entry[e].users > 0 \/ \E t \in Threads : e \in todo[t]

\* No lost wakeup: a thread sleeps in _acquire only while waking it is pointless,
\* that is while the cache is open, full, and every mapped entry is in use.
NoLostWakeup ==
    \A t \in Threads : pc[t] = "waiting" =>
        /\ ~closed
        /\ allocated >= Capacity
        /\ \A e \in Entries : ~Idle(e)

\* After close() every handle is eventually closed, those on lease included.
CloseDrains == closed ~> (allocated = 0 /\ OpenFiles = {})
=============================================================================
