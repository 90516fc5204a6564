----------------------- MODULE LogHandleCache_proofs -----------------------
(***************************************************************************)
(* Proofs about LogHandleCache, for any numbers of threads, keys and       *)
(* entries and any capacity.                                               *)
(*                                                                         *)
(* The inductive invariant counts: the field users of an entry is the      *)
(* number of threads that hold a lease of it.  From that, an entry that is *)
(* taken to be closed (users = 0) is held by nobody.                       *)
(*                                                                         *)
(* Three more invariants rest on it: no reader sleeps in _acquire while    *)
(* waking it would help, no retired entry is forgotten, and the files open *)
(* never exceed the capacity.                                              *)
(***************************************************************************)
EXTENDS LogHandleCache, FiniteSetTheorems, TLAPS

\* Where a thread holds a lease: between _acquire and _release.
Leasing == {"lock", "opening", "opened", "check", "using", "failing", "unlock", "release"}

\* ... and where it holds entry.lock as well.
Locking == Leasing \ {"lock", "release"}

Holders(e) == {t \in Threads : pc[t] \in Leasing /\ cur[t] = e}

\* A thread that works for borrow knows its key.
WantIsKey ==
    \A t \in Threads : pc[t] \in {"acquire", "waiting"} \union Leasing \/ again[t] => want[t] \in Keys

\* The users of an entry are counted exactly.
UsersExact == \A e \in Entries : entry[e].users = Cardinality(Holders(e))

\* A leased entry exists, is not disposed of and has the key that was asked for.
LeaseIsValid ==
    \A t \in Threads : pc[t] \in Leasing =>
        /\ cur[t] \in Entries
        /\ ~entry[cur[t]].disposed
        /\ entry[cur[t]].key = want[t]

\* entry.lock is held by the thread whose place says so.
LockIsHeld == \A t \in Threads : pc[t] \in Locking => lock[cur[t]] = t

\* A handle that was opened stays until the lease is over.
HandleIsOpen == \A t \in Threads : pc[t] \in {"opened", "check", "using"} => entry[cur[t]].handle

\* The map holds entries that are neither retired nor disposed of, under their keys.
MapIsValid ==
    \A k \in Keys : entries[k] # None =>
        /\ ~entry[entries[k]].retired /\ ~entry[entries[k]].disposed
        /\ entry[entries[k]].key = k

\* Only retired entries are on a list to dispose of.
TodoIsRetired == \A t \in Threads : \A e \in todo[t] : entry[e].retired

\* An entry that is being closed was marked as disposed of first.
ClosingIsDisposed ==
    \A t \in Threads : pc[t] = "closing" => cur[t] \in Entries /\ entry[cur[t]].disposed

IInv ==
    /\ TypeOK /\ WantIsKey /\ UsersExact /\ LeaseIsValid /\ LockIsHeld
    /\ HandleIsOpen /\ MapIsValid /\ TodoIsRetired /\ ClosingIsDisposed

-----------------------------------------------------------------------------
(* The inductive invariant *)

\* The invariant holds at the start.
LEMMA InitInvariant == Init => IInv
<1> SUFFICES ASSUME Init PROVE IInv
  OBVIOUS
<1> USE CacheAssumption DEF Init
<1>1. TypeOK
  <2>1. Garbage \in EntryRecord
    BY DEF Garbage, EntryRecord
  <2>2. entries \in [Keys -> Entries \union {None}] /\ lock \in [Entries -> Threads \union {None}]
    OBVIOUS
  <2>3. entry \in [Entries -> EntryRecord]
    BY <2>1
  <2>4. pc \in [Threads -> PCs]
    BY DEF PCs
  <2>5. want \in [Threads -> Keys \union {None}] /\ cur \in [Threads -> Entries \union {None}]
    OBVIOUS
  <2>6. todo \in [Threads -> SUBSET Entries]
    OBVIOUS
  <2>7. taken \in [Threads -> BOOLEAN] /\ again \in [Threads -> BOOLEAN]
    OBVIOUS
  <2>8. allocated \in Int /\ openHandles \in Int
    OBVIOUS
  <2>9. closed \in BOOLEAN
    BY Zenon
  <2> QED
    BY <2>2, <2>3, <2>4, <2>5, <2>6, <2>7, <2>8, <2>9, Zenon DEF TypeOK
<1>2. UsersExact
  <2> SUFFICES ASSUME NEW e \in Entries PROVE entry[e].users = Cardinality(Holders(e))
    BY DEF UsersExact
  <2>1. Holders(e) = {}
    BY DEF Holders, Leasing
  <2> QED
    BY <2>1, FS_EmptySet DEF Garbage
<1>3. WantIsKey /\ LeaseIsValid /\ LockIsHeld /\ HandleIsOpen /\ MapIsValid
        /\ TodoIsRetired /\ ClosingIsDisposed
  BY DEF WantIsKey, LeaseIsValid, LockIsHeld, HandleIsOpen, MapIsValid, TodoIsRetired,
         ClosingIsDisposed, Leasing, Locking
<1> QED
  BY <1>1, <1>2, <1>3 DEF IInv

\* The set of holders of an entry is finite, and its size is a natural number.
LEMMA HoldersFinite ==
  ASSUME NEW e
  PROVE  IsFiniteSet(Holders(e)) /\ Cardinality(Holders(e)) \in Nat
BY CacheAssumption, FS_Subset, FS_CardinalityType DEF Holders

\* An entry without users is leased by nobody.
LEMMA NoUsersNoHolder ==
  ASSUME UsersExact, NEW e \in Entries, entry[e].users = 0,
         NEW t \in Threads, pc[t] \in Leasing
  PROVE  cur[t] # e
<1>1. Holders(e) = {}
  BY HoldersFinite, FS_EmptySet DEF UsersExact
<1> QED
  BY <1>1 DEF Holders

\* A step that moves no thread into or out of a lease, and changes no count of users,
\* keeps the counts exact.
LEMMA UsersUnchanged ==
  ASSUME UsersExact,
         \A t \in Threads : /\ pc'[t] \in Leasing <=> pc[t] \in Leasing
                            /\ pc[t] \in Leasing => cur'[t] = cur[t],
         \A e \in Entries : entry'[e].users = entry[e].users
  PROVE  UsersExact'
<1> SUFFICES ASSUME NEW e \in Entries PROVE entry'[e].users = Cardinality(Holders(e)')
  BY DEF UsersExact
<1>1. Holders(e)' = Holders(e)
  BY DEF Holders
<1> QED
  BY <1>1 DEF UsersExact

\* A step in which thread t begins a lease of entry a, counted, keeps the counts exact.
LEMMA UsersAdded ==
  ASSUME UsersExact, NEW t \in Threads, NEW a \in Entries,
         pc[t] \notin Leasing, pc'[t] \in Leasing, cur'[t] = a,
         \A s \in Threads \ {t} : pc'[s] = pc[s] /\ cur'[s] = cur[s],
         entry'[a].users = entry[a].users + 1,
         \A e \in Entries \ {a} : entry'[e].users = entry[e].users
  PROVE  UsersExact'
<1> SUFFICES ASSUME NEW e \in Entries PROVE entry'[e].users = Cardinality(Holders(e)')
  BY DEF UsersExact
<1>1. CASE e = a
  <2>1. Holders(a)' = Holders(a) \union {t}
    BY DEF Holders
  <2>2. t \notin Holders(a)
    BY DEF Holders
  <2>3. Cardinality(Holders(a)') = Cardinality(Holders(a)) + 1
    BY <2>1, <2>2, HoldersFinite, FS_AddElement
  <2> QED
    BY <1>1, <2>3 DEF UsersExact
<1>2. CASE e # a
  <2>1. Holders(e)' = Holders(e)
    BY <1>2 DEF Holders
  <2> QED
    BY <1>2, <2>1 DEF UsersExact
<1> QED
  BY <1>1, <1>2

\* A step in which thread t ends its lease of entry a, counted, keeps the counts exact.
LEMMA UsersRemoved ==
  ASSUME UsersExact, NEW t \in Threads, NEW a \in Entries,
         pc[t] \in Leasing, cur[t] = a, pc'[t] \notin Leasing,
         \A s \in Threads \ {t} : /\ pc'[s] \in Leasing <=> pc[s] \in Leasing
                                  /\ cur'[s] = cur[s],
         entry'[a].users = entry[a].users - 1,
         \A e \in Entries \ {a} : entry'[e].users = entry[e].users
  PROVE  UsersExact' /\ entry'[a].users \in Nat
<1> SUFFICES ASSUME NEW e \in Entries
             PROVE /\ entry'[e].users = Cardinality(Holders(e)')
                   /\ entry'[a].users = Cardinality(Holders(a)')
                   /\ Cardinality(Holders(a)') \in Nat
  BY DEF UsersExact
<1>1. Holders(a)' = Holders(a) \ {t} /\ t \in Holders(a)
  BY DEF Holders
<1>2. Cardinality(Holders(a)') = Cardinality(Holders(a)) - 1 /\ Cardinality(Holders(a)') \in Nat
  BY <1>1, HoldersFinite, FS_RemoveElement, FS_CardinalityType
<1>3. entry'[a].users = Cardinality(Holders(a)')
  BY <1>2 DEF UsersExact
<1>4. CASE e # a
  <2>1. Holders(e)' = Holders(e)
    BY <1>4 DEF Holders
  <2> QED
    BY <1>2, <1>3, <1>4, <2>1 DEF UsersExact
<1> QED
  BY <1>2, <1>3, <1>4

-----------------------------------------------------------------------------
\* A call of borrow holds nothing yet: only the thread's place and key change.
LEMMA BorrowKeeps ==
  ASSUME IInv, NEW t \in Threads, NEW k \in Keys, Borrow(t, k)
  PROVE  IInv'
<1> USE DEF IInv, TypeOK, Borrow, Goto
<1>1. TypeOK'
  BY DEF PCs
<1>2. UsersExact'
  BY UsersUnchanged DEF Leasing
<1>3. WantIsKey' /\ LeaseIsValid' /\ LockIsHeld' /\ HandleIsOpen'
  BY DEF WantIsKey, LeaseIsValid, LockIsHeld, HandleIsOpen, Leasing, Locking
<1>4. MapIsValid' /\ TodoIsRetired' /\ ClosingIsDisposed'
  BY DEF MapIsValid, TodoIsRetired, ClosingIsDisposed
<1> QED
  BY <1>1, <1>2, <1>3, <1>4

\* _acquire raises on a closed cache: the thread leaves without a lease.
LEMMA AcquireClosedKeeps ==
  ASSUME IInv, NEW t \in Threads, AcquireClosed(t)
  PROVE  IInv'
<1> USE DEF IInv, TypeOK, AcquireClosed, Goto
<1>1. TypeOK'
  BY DEF PCs
<1>2. UsersExact'
  BY UsersUnchanged DEF Leasing
<1>3. WantIsKey' /\ LeaseIsValid' /\ LockIsHeld' /\ HandleIsOpen'
  BY DEF WantIsKey, LeaseIsValid, LockIsHeld, HandleIsOpen, Leasing, Locking
<1>4. MapIsValid' /\ TodoIsRetired' /\ ClosingIsDisposed'
  BY DEF MapIsValid, TodoIsRetired, ClosingIsDisposed
<1> QED
  BY <1>1, <1>2, <1>3, <1>4

\* _acquire goes to sleep: nothing is held meanwhile.
LEMMA AcquireWaitKeeps ==
  ASSUME IInv, NEW t \in Threads, AcquireWait(t)
  PROVE  IInv'
<1> USE DEF IInv, TypeOK, AcquireWait, Goto
<1>1. TypeOK'
  BY DEF PCs
<1>2. UsersExact'
  BY UsersUnchanged DEF Leasing
<1>3. WantIsKey' /\ LeaseIsValid' /\ LockIsHeld' /\ HandleIsOpen'
  BY DEF WantIsKey, LeaseIsValid, LockIsHeld, HandleIsOpen, Leasing, Locking
<1>4. MapIsValid' /\ TodoIsRetired' /\ ClosingIsDisposed'
  BY DEF MapIsValid, TodoIsRetired, ClosingIsDisposed
<1> QED
  BY <1>1, <1>2, <1>3, <1>4

\* The opener raises: the lease goes on to the except clause.
LEMMA OpenFailsKeeps ==
  ASSUME IInv, NEW t \in Threads, OpenFails(t)
  PROVE  IInv'
<1> USE DEF IInv, TypeOK, OpenFails, Goto
<1>1. TypeOK'
  BY DEF PCs
<1>2. UsersExact'
  BY UsersUnchanged DEF Leasing
<1>3. WantIsKey' /\ LeaseIsValid' /\ LockIsHeld' /\ HandleIsOpen'
  BY DEF WantIsKey, LeaseIsValid, LockIsHeld, HandleIsOpen, Leasing, Locking
<1>4. MapIsValid' /\ TodoIsRetired' /\ ClosingIsDisposed'
  BY DEF MapIsValid, TodoIsRetired, ClosingIsDisposed
<1> QED
  BY <1>1, <1>2, <1>3, <1>4

\* Counting the new handle leaves leases and entries alone.
LEMMA CountOpenKeeps ==
  ASSUME IInv, NEW t \in Threads, CountOpen(t)
  PROVE  IInv'
<1> USE DEF IInv, TypeOK, CountOpen, Goto
<1>1. TypeOK'
  BY DEF PCs
<1>2. UsersExact'
  BY UsersUnchanged DEF Leasing
<1>3. WantIsKey' /\ LeaseIsValid' /\ LockIsHeld' /\ HandleIsOpen'
  BY DEF WantIsKey, LeaseIsValid, LockIsHeld, HandleIsOpen, Leasing, Locking
<1>4. MapIsValid' /\ TodoIsRetired' /\ ClosingIsDisposed'
  BY DEF MapIsValid, TodoIsRetired, ClosingIsDisposed
<1> QED
  BY <1>1, <1>2, <1>3, <1>4

\* The test after the open: a lease that goes on to use its handle has one.
LEMMA CheckRetiredKeeps ==
  ASSUME IInv, NEW t \in Threads, CheckRetired(t)
  PROVE  IInv'
<1> USE DEF IInv, TypeOK, CheckRetired, Goto
<1>1. TypeOK'
  BY DEF PCs
<1>2. UsersExact'
  BY UsersUnchanged DEF Leasing
<1>3. WantIsKey' /\ LeaseIsValid' /\ LockIsHeld' /\ HandleIsOpen'
  BY DEF WantIsKey, LeaseIsValid, LockIsHeld, HandleIsOpen, Leasing, Locking
<1>4. MapIsValid' /\ TodoIsRetired' /\ ClosingIsDisposed'
  BY DEF MapIsValid, TodoIsRetired, ClosingIsDisposed
<1> QED
  BY <1>1, <1>2, <1>3, <1>4

\* The with statement ends: the lease is still there until _release.
LEMMA EndUseKeeps ==
  ASSUME IInv, NEW t \in Threads, EndUse(t)
  PROVE  IInv'
<1> USE DEF IInv, TypeOK, EndUse, Goto
<1>1. TypeOK'
  BY DEF PCs
<1>2. UsersExact'
  BY UsersUnchanged DEF Leasing
<1>3. WantIsKey' /\ LeaseIsValid' /\ LockIsHeld' /\ HandleIsOpen'
  BY DEF WantIsKey, LeaseIsValid, LockIsHeld, HandleIsOpen, Leasing, Locking
<1>4. MapIsValid' /\ TodoIsRetired' /\ ClosingIsDisposed'
  BY DEF MapIsValid, TodoIsRetired, ClosingIsDisposed
<1> QED
  BY <1>1, <1>2, <1>3, <1>4

\* The opener returns: the leased entry has its handle.
LEMMA OpenOkKeeps ==
  ASSUME IInv, NEW t \in Threads, OpenOk(t)
  PROVE  IInv'
<1> USE DEF IInv, TypeOK, OpenOk, Goto
<1>1. TypeOK'
  <2>1. entry' \in [Entries -> EntryRecord]
    BY DEF EntryRecord, LeaseIsValid, Leasing
  <2> QED
    BY <2>1 DEF PCs
<1>2. UsersExact'
  BY UsersUnchanged DEF Leasing
<1>3. WantIsKey' /\ LeaseIsValid' /\ LockIsHeld' /\ HandleIsOpen'
  BY DEF WantIsKey, LeaseIsValid, LockIsHeld, HandleIsOpen, Leasing, Locking
<1>4. MapIsValid' /\ TodoIsRetired' /\ ClosingIsDisposed'
  BY DEF MapIsValid, TodoIsRetired, ClosingIsDisposed
<1> QED
  BY <1>1, <1>2, <1>3, <1>4

\* entry.lock is released by its holder, which no longer needs it.
LEMMA UnlockKeeps ==
  ASSUME IInv, NEW t \in Threads, Unlock(t)
  PROVE  IInv'
<1> USE DEF IInv, TypeOK, Unlock, Goto
<1>1. TypeOK'
  BY DEF PCs
<1>2. UsersExact'
  BY UsersUnchanged DEF Leasing
<1>3. WantIsKey' /\ LeaseIsValid' /\ LockIsHeld' /\ HandleIsOpen'
  BY DEF WantIsKey, LeaseIsValid, LockIsHeld, HandleIsOpen, Leasing, Locking
<1>4. MapIsValid' /\ TodoIsRetired' /\ ClosingIsDisposed'
  BY DEF MapIsValid, TodoIsRetired, ClosingIsDisposed
<1> QED
  BY <1>1, <1>2, <1>3, <1>4

\* entry.lock is taken while nobody holds it; the lease began before.
LEMMA LockEntryKeeps ==
  ASSUME IInv, NEW t \in Threads, LockEntry(t)
  PROVE  IInv'
<1> USE DEF IInv, TypeOK, Goto
<1>0. cur[t] \in Entries
  BY DEF LockEntry, LeaseIsValid, Leasing
<1>1. TypeOK'
  <2>1. pc' \in [Threads -> PCs] /\ lock' \in [Entries -> Threads \union {None}]
    BY <1>0 DEF LockEntry, PCs
  <2>2. again' \in [Threads -> BOOLEAN]
    BY DEF LockEntry
  <2> QED
    BY <2>1, <2>2 DEF LockEntry
<1>2. UsersExact'
  BY UsersUnchanged DEF Leasing, LockEntry
<1>3. WantIsKey' /\ LeaseIsValid' /\ HandleIsOpen'
  BY DEF LockEntry, WantIsKey, LeaseIsValid, HandleIsOpen, Leasing
<1>4. LockIsHeld'
  BY <1>0, CacheAssumption DEF LockEntry, LockIsHeld, LeaseIsValid, Leasing, Locking
<1>5. MapIsValid' /\ TodoIsRetired' /\ ClosingIsDisposed'
  BY DEF LockEntry, MapIsValid, TodoIsRetired, ClosingIsDisposed
<1> QED
  BY <1>1, <1>2, <1>3, <1>4, <1>5

\* _acquire finds its entry: one more lease of an entry that is not disposed of.
LEMMA AcquireHitKeeps ==
  ASSUME IInv, NEW t \in Threads, AcquireHit(t)
  PROVE  IInv'
<1> DEFINE a == entries[want[t]]
<1> USE DEF IInv, TypeOK, AcquireHit, Goto
<1>0. a \in Entries /\ want[t] \in Keys /\ entry[a].users \in Nat
  BY DEF WantIsKey, EntryRecord
<1>1. TypeOK'
  <2>1. [entry[a] EXCEPT !.users = entry[a].users + 1] \in EntryRecord
    BY <1>0 DEF EntryRecord
  <2>2. entry' = [entry EXCEPT ![a] = [entry[a] EXCEPT !.users = entry[a].users + 1]]
    OBVIOUS
  <2>3. entry' \in [Entries -> EntryRecord]
    BY <1>0, <2>1, <2>2
  <2> QED
    BY <1>0, <2>3 DEF PCs
<1>2. UsersExact'
  <2>1. entry'[a].users = entry[a].users + 1 /\ \A e \in Entries \ {a} : entry'[e] = entry[e]
    BY <1>0 DEF EntryRecord
  <2> QED
    BY <1>0, <2>1, UsersAdded DEF Leasing
<1>3. WantIsKey' /\ LockIsHeld'
  BY <1>0 DEF WantIsKey, LockIsHeld, Leasing, Locking
<1>4. \A e \in Entries : /\ entry'[e].key = entry[e].key
                          /\ entry'[e].handle = entry[e].handle
                          /\ entry'[e].retired = entry[e].retired
                          /\ entry'[e].disposed = entry[e].disposed
  BY <1>0 DEF EntryRecord
<1>5. LeaseIsValid'
  BY <1>0, <1>4 DEF LeaseIsValid, MapIsValid, Leasing
<1>6. HandleIsOpen'
  BY <1>0, <1>4 DEF HandleIsOpen, LeaseIsValid, Leasing
<1>7. MapIsValid' /\ TodoIsRetired' /\ ClosingIsDisposed'
  BY <1>0, <1>4 DEF MapIsValid, TodoIsRetired, ClosingIsDisposed
<1> QED
  BY <1>1, <1>2, <1>3, <1>5, <1>6, <1>7

\* _acquire makes a new entry: its identity was garbage, so nobody leases it.
LEMMA AcquireNewKeeps ==
  ASSUME IInv, NEW t \in Threads, AcquireNew(t)
  PROVE  IInv'
<1> USE DEF IInv, TypeOK, Goto
<1> PICK e \in Entries :
      /\ Unused(e)
      /\ entry' = [entry EXCEPT ![e] = [key |-> want[t], handle |-> FALSE, users |-> 1,
                                        retired |-> FALSE, disposed |-> FALSE]]
      /\ entries' = [entries EXCEPT ![want[t]] = e]
      /\ cur' = [cur EXCEPT ![t] = e]
  BY DEF AcquireNew
<1>0. want[t] \in Keys
  BY DEF WantIsKey, AcquireNew
<1>1. TypeOK'
  <2>1. entry' \in [Entries -> EntryRecord]
    BY <1>0 DEF EntryRecord
  <2> QED
    BY <1>0, <2>1 DEF PCs, AcquireNew
<1>2. UsersExact'
  <2> SUFFICES ASSUME NEW d \in Entries PROVE entry'[d].users = Cardinality(Holders(d)')
    BY DEF UsersExact
  <2>1. CASE d = e
    <3>1. Holders(d)' = {t}
      BY <2>1 DEF Holders, Unused, Leasing, AcquireNew
    <3> QED
      BY <2>1, <3>1, FS_Singleton
  <2>2. CASE d # e
    <3>1. Holders(d)' = Holders(d)
      BY <2>2 DEF Holders, Leasing, AcquireNew
    <3> QED
      BY <2>2, <3>1 DEF UsersExact
  <2> QED
    BY <2>1, <2>2
<1>3. WantIsKey' /\ LockIsHeld'
  BY <1>0 DEF WantIsKey, LockIsHeld, Leasing, Locking, AcquireNew
<1>4. LeaseIsValid'
  BY DEF LeaseIsValid, Unused, Leasing, AcquireNew
<1>5. HandleIsOpen'
  BY DEF HandleIsOpen, LeaseIsValid, Unused, Leasing, AcquireNew
<1>6. MapIsValid'
  BY <1>0 DEF MapIsValid, Unused, AcquireNew
<1>7. TodoIsRetired' /\ ClosingIsDisposed'
  BY DEF TodoIsRetired, ClosingIsDisposed, Unused, AcquireNew
<1> QED
  BY <1>1, <1>2, <1>3, <1>4, <1>5, <1>6, <1>7

\* Retiring entries changes neither their users nor their handles, and takes them out
\* of the map.
LEMMA RetireEffect ==
  ASSUME TypeOK, NEW es \in SUBSET Entries, RetireLocked(es)
  PROVE  /\ entry' \in [Entries -> EntryRecord]
         /\ entries' \in [Keys -> Entries \union {None}]
         /\ \A e \in Entries :
              /\ entry'[e].key = entry[e].key
              /\ entry'[e].handle = entry[e].handle
              /\ entry'[e].users = entry[e].users
              /\ entry'[e].disposed = entry[e].disposed
              /\ entry'[e].retired <=> (entry[e].retired \/ e \in es)
         /\ MapIsValid => MapIsValid'
<1> USE DEF TypeOK, RetireLocked, EntryRecord
<1>1. entry' \in [Entries -> EntryRecord] /\ entries' \in [Keys -> Entries \union {None}]
  BY DEF EntryRecord
<1>2. \A e \in Entries :
        /\ entry'[e].key = entry[e].key
        /\ entry'[e].handle = entry[e].handle
        /\ entry'[e].users = entry[e].users
        /\ entry'[e].disposed = entry[e].disposed
        /\ entry'[e].retired <=> (entry[e].retired \/ e \in es)
  BY DEF EntryRecord
<1>3. MapIsValid => MapIsValid'
  BY <1>1, <1>2 DEF MapIsValid
<1> QED
  BY <1>1, <1>2, <1>3

\* _acquire evicts an idle entry: it is retired and on the thread's list.
LEMMA AcquireEvictKeeps ==
  ASSUME IInv, NEW t \in Threads, AcquireEvict(t)
  PROVE  IInv'
<1> USE DEF IInv, TypeOK, Goto
<1> PICK a \in Entries : Idle(a) /\ RetireLocked({a}) /\ todo' = [todo EXCEPT ![t] = {a}]
  BY DEF AcquireEvict
<1>0. /\ entry' \in [Entries -> EntryRecord]
      /\ entries' \in [Keys -> Entries \union {None}]
      /\ \A e \in Entries :
           /\ entry'[e].key = entry[e].key
           /\ entry'[e].handle = entry[e].handle
           /\ entry'[e].users = entry[e].users
           /\ entry'[e].disposed = entry[e].disposed
           /\ entry'[e].retired <=> (entry[e].retired \/ e \in {a})
      /\ MapIsValid'
  BY RetireEffect
<1>1. TypeOK'
  BY <1>0 DEF PCs, AcquireEvict
<1>2. UsersExact'
  BY <1>0, UsersUnchanged DEF Leasing, AcquireEvict
<1>3. WantIsKey' /\ LeaseIsValid' /\ LockIsHeld' /\ HandleIsOpen'
  BY <1>0 DEF WantIsKey, LeaseIsValid, LockIsHeld, HandleIsOpen, Leasing, Locking, AcquireEvict
<1>4. TodoIsRetired' /\ ClosingIsDisposed'
  BY <1>0 DEF TodoIsRetired, ClosingIsDisposed, AcquireEvict
<1> QED
  BY <1>0, <1>1, <1>2, <1>3, <1>4

\* The except clause retires the entry; the lease lasts until _release.
LEMMA FailKeeps ==
  ASSUME IInv, NEW t \in Threads, Fail(t)
  PROVE  IInv'
<1> USE DEF IInv, TypeOK, Goto, Fail
<1>0. /\ entry' \in [Entries -> EntryRecord]
      /\ entries' \in [Keys -> Entries \union {None}]
      /\ \A e \in Entries :
           /\ entry'[e].key = entry[e].key
           /\ entry'[e].handle = entry[e].handle
           /\ entry'[e].users = entry[e].users
           /\ entry'[e].disposed = entry[e].disposed
           /\ entry'[e].retired <=> (entry[e].retired \/ e \in {cur[t]})
      /\ MapIsValid'
  <2>1. {cur[t]} \in SUBSET Entries
    BY DEF LeaseIsValid, Leasing
  <2> QED
    BY <2>1, RetireEffect
<1>1. TypeOK'
  BY <1>0 DEF PCs
<1>2. UsersExact'
  BY <1>0, UsersUnchanged DEF Leasing
<1>3. WantIsKey' /\ LockIsHeld'
  BY DEF WantIsKey, LockIsHeld, Leasing, Locking
<1>5. LeaseIsValid'
  BY <1>0 DEF LeaseIsValid, Leasing
<1>6. HandleIsOpen'
  BY <1>0 DEF HandleIsOpen, LeaseIsValid, Leasing
<1>4. TodoIsRetired' /\ ClosingIsDisposed'
  BY <1>0 DEF TodoIsRetired, ClosingIsDisposed
<1> QED
  BY <1>0, <1>1, <1>2, <1>3, <1>4, <1>5, <1>6

\* Where notify_all leaves the threads: the caller goes on, the sleepers try again.
LEMMA NotifyEffect ==
  ASSUME pc \in [Threads -> PCs], NEW t \in Threads, NEW l \in PCs, NotifyAll(t, l)
  PROVE  /\ pc' \in [Threads -> PCs]
         /\ pc'[t] = l
         /\ \A s \in Threads \ {t} :
              pc'[s] = pc[s] \/ (pc[s] = "waiting" /\ pc'[s] = "acquire")
<1>1. pc' \in [Threads -> PCs]
  BY DEF NotifyAll, PCs
<1>2. pc'[t] = l
  BY DEF NotifyAll
<1>3. ASSUME NEW s \in Threads \ {t}
      PROVE  pc'[s] = pc[s] \/ (pc[s] = "waiting" /\ pc'[s] = "acquire")
  BY DEF NotifyAll
<1> QED
  BY <1>1, <1>2, <1>3

\* _release ends one lease and lowers the count of users by one.
LEMMA ReleaseKeeps ==
  ASSUME IInv, NEW t \in Threads, Release(t)
  PROVE  IInv'
<1> DEFINE a == cur[t]
<1> USE DEF IInv, TypeOK, Release
<1>0. a \in Entries /\ entry[a].users \in Nat
  BY DEF LeaseIsValid, Leasing, EntryRecord
<1>1. /\ pc'[t] \in {"dispose", "acquire", "idle"}
      /\ pc'[t] = "acquire" => again[t]
      /\ \A s \in Threads \ {t} : pc'[s] = pc[s] \/ (pc[s] = "waiting" /\ pc'[s] = "acquire")
      /\ pc' \in [Threads -> PCs]
  <2>1. PICK l \in {"dispose", Return(t)} : NotifyAll(t, l)
    OBVIOUS
  <2>2. l \in PCs /\ l \in {"dispose", "acquire", "idle"} /\ (l = "acquire" => again[t])
    BY <2>1 DEF Return, PCs
  <2> QED
    BY <2>1, <2>2, NotifyEffect
<1>2. /\ (todo'[t] = {a} /\ entry[a].retired) \/ todo'[t] = todo[t]
      /\ \A s \in Threads \ {t} : todo'[s] = todo[s]
      /\ todo' \in [Threads -> SUBSET Entries]
  BY <1>0
<1>3. /\ entry'[a].users = entry[a].users - 1
      /\ \A e \in Entries \ {a} : entry'[e] = entry[e]
      /\ \A e \in Entries : /\ entry'[e].key = entry[e].key
                             /\ entry'[e].handle = entry[e].handle
                             /\ entry'[e].retired = entry[e].retired
                             /\ entry'[e].disposed = entry[e].disposed
  BY <1>0 DEF EntryRecord
<1>4. UsersExact' /\ entry'[a].users \in Nat
  BY <1>0, <1>1, <1>3, UsersRemoved DEF Leasing
<1>5. TypeOK'
  <2>1. [entry[a] EXCEPT !.users = entry[a].users - 1] \in EntryRecord
    BY <1>0, <1>3, <1>4 DEF EntryRecord
  <2>2. entry' = [entry EXCEPT ![a] = [entry[a] EXCEPT !.users = entry[a].users - 1]]
    OBVIOUS
  <2>3. entry' \in [Entries -> EntryRecord]
    BY <1>0, <2>1, <2>2
  <2> QED
    BY <1>0, <1>1, <1>2, <2>3
<1>6. WantIsKey' /\ LeaseIsValid' /\ LockIsHeld' /\ HandleIsOpen'
  BY <1>0, <1>1, <1>3 DEF WantIsKey, LeaseIsValid, LockIsHeld, HandleIsOpen, Leasing, Locking
<1>7. MapIsValid' /\ TodoIsRetired' /\ ClosingIsDisposed'
  BY <1>0, <1>1, <1>2, <1>3 DEF MapIsValid, TodoIsRetired, ClosingIsDisposed
<1> QED
  BY <1>4, <1>5, <1>6, <1>7

\* _dispose passes over an entry: only the list of the thread gets shorter.
LEMMA DisposeSkipKeeps ==
  ASSUME IInv, NEW t \in Threads, DisposeSkip(t)
  PROVE  IInv'
<1> USE DEF IInv, TypeOK, DisposeSkip, Goto
<1>1. TypeOK'
  BY DEF PCs, Disposed, Return
<1>2. UsersExact'
  BY UsersUnchanged DEF Leasing, Disposed, Return
<1>3. WantIsKey' /\ LeaseIsValid' /\ LockIsHeld' /\ HandleIsOpen'
  BY DEF WantIsKey, LeaseIsValid, LockIsHeld, HandleIsOpen, Leasing, Locking, Disposed, Return
<1>4. MapIsValid' /\ TodoIsRetired' /\ ClosingIsDisposed'
  BY DEF MapIsValid, TodoIsRetired, ClosingIsDisposed, Disposed, Return
<1> QED
  BY <1>1, <1>2, <1>3, <1>4

\* _dispose takes the handle of an entry without users: no lease loses its handle.
LEMMA DisposeTakeKeeps ==
  ASSUME IInv, NEW t \in Threads, DisposeTake(t)
  PROVE  IInv'
<1> USE DEF IInv, TypeOK, Goto
<1> PICK a \in todo[t] :
      /\ ~entry[a].disposed
      /\ entry[a].users = 0
      /\ entry' = [entry EXCEPT ![a].disposed = TRUE, ![a].handle = FALSE]
      /\ taken' = [taken EXCEPT ![t] = entry[a].handle]
      /\ cur' = [cur EXCEPT ![t] = a]
  BY DEF DisposeTake
<1>0. a \in Entries /\ entry[a].retired
  BY DEF TodoIsRetired
<1>1. /\ entry'[a].disposed
      /\ \A e \in Entries \ {a} : entry'[e] = entry[e]
      /\ \A e \in Entries : /\ entry'[e].key = entry[e].key
                             /\ entry'[e].users = entry[e].users
                             /\ entry'[e].retired = entry[e].retired
      /\ entry' \in [Entries -> EntryRecord]
  BY <1>0 DEF EntryRecord
<1>2. TypeOK'
  <2>1. taken' \in [Threads -> BOOLEAN]
    BY <1>0 DEF EntryRecord
  <2> QED
    BY <1>0, <1>1, <2>1 DEF PCs, DisposeTake
<1>3. \A s \in Threads : pc[s] \in Leasing => cur[s] # a
  BY <1>0, NoUsersNoHolder
<1>4. UsersExact'
  BY <1>1, UsersUnchanged DEF Leasing, DisposeTake
<1>5. WantIsKey' /\ LeaseIsValid' /\ LockIsHeld' /\ HandleIsOpen'
  BY <1>0, <1>1, <1>3 DEF WantIsKey, LeaseIsValid, LockIsHeld, HandleIsOpen, Leasing,
                          Locking, DisposeTake
<1>6. MapIsValid' /\ TodoIsRetired' /\ ClosingIsDisposed'
  BY <1>0, <1>1 DEF MapIsValid, TodoIsRetired, ClosingIsDisposed, DisposeTake
<1> QED
  BY <1>2, <1>4, <1>5, <1>6

\* The close call is over: the entry was disposed of before, and nobody leases it.
LEMMA DisposeEndKeeps ==
  ASSUME IInv, NEW t \in Threads, DisposeEnd(t)
  PROVE  IInv'
<1> USE DEF IInv, TypeOK, DisposeEnd
<1>1. /\ pc'[t] \in {"dispose", "acquire", "idle"}
      /\ pc'[t] = "acquire" => again[t]
      /\ \A s \in Threads \ {t} : pc'[s] = pc[s] \/ (pc[s] = "waiting" /\ pc'[s] = "acquire")
      /\ pc' \in [Threads -> PCs]
  <2>1. NotifyAll(t, Disposed(t, cur[t]))
    OBVIOUS
  <2>2. /\ Disposed(t, cur[t]) \in PCs
        /\ Disposed(t, cur[t]) \in {"dispose", "acquire", "idle"}
        /\ Disposed(t, cur[t]) = "acquire" => again[t]
    BY DEF Disposed, Return, PCs
  <2> QED
    BY <2>1, <2>2, NotifyEffect
<1>2. TypeOK'
  <2>1. openHandles' \in Int /\ allocated' \in Int
    OBVIOUS
  <2>2. /\ taken' \in [Threads -> BOOLEAN] /\ todo' \in [Threads -> SUBSET Entries]
        /\ cur' \in [Threads -> Entries \union {None}]
    OBVIOUS
  <2> QED
    BY <1>1, <2>1, <2>2
<1>3. UsersExact'
  BY <1>1, UsersUnchanged DEF Leasing
<1>4. WantIsKey' /\ LeaseIsValid' /\ LockIsHeld' /\ HandleIsOpen'
  BY <1>1 DEF WantIsKey, LeaseIsValid, LockIsHeld, HandleIsOpen, Leasing, Locking
<1>5. MapIsValid' /\ TodoIsRetired' /\ ClosingIsDisposed'
  BY <1>1 DEF MapIsValid, TodoIsRetired, ClosingIsDisposed
<1> QED
  BY <1>2, <1>3, <1>4, <1>5

\* discard_user retires entries; their leases and handles stay.
LEMMA DiscardUserKeeps ==
  ASSUME IInv, NEW t \in Threads, NEW u \in Users, DiscardUser(t, u)
  PROVE  IInv'
<1> USE DEF IInv, TypeOK, Goto
<1> DEFINE es == Mapped({k \in Keys : Owner[k] = u})
<1>0. es \in SUBSET Entries /\ RetireLocked(es) /\ todo' = [todo EXCEPT ![t] = es]
  BY DEF DiscardUser, Mapped
<1> HIDE DEF es
<1>1. /\ entry' \in [Entries -> EntryRecord]
      /\ entries' \in [Keys -> Entries \union {None}]
      /\ \A e \in Entries :
           /\ entry'[e].key = entry[e].key
           /\ entry'[e].handle = entry[e].handle
           /\ entry'[e].users = entry[e].users
           /\ entry'[e].disposed = entry[e].disposed
           /\ entry'[e].retired <=> (entry[e].retired \/ e \in es)
      /\ MapIsValid'
  BY <1>0, RetireEffect
<1>2. TypeOK'
  BY <1>0, <1>1 DEF PCs, DiscardUser
<1>3. UsersExact'
  BY <1>1, UsersUnchanged DEF Leasing, DiscardUser
<1>4. WantIsKey' /\ LockIsHeld'
  BY DEF WantIsKey, LockIsHeld, Leasing, Locking, DiscardUser
<1>5. LeaseIsValid' /\ HandleIsOpen'
  BY <1>1 DEF LeaseIsValid, HandleIsOpen, Leasing, DiscardUser
<1>6. TodoIsRetired' /\ ClosingIsDisposed'
  BY <1>0, <1>1 DEF TodoIsRetired, ClosingIsDisposed, DiscardUser
<1> QED
  BY <1>1, <1>2, <1>3, <1>4, <1>5, <1>6

\* close() retires every entry and wakes the sleepers; leases stay.
LEMMA CloseKeeps ==
  ASSUME IInv, NEW t \in Threads, Close(t)
  PROVE  IInv'
<1> USE DEF IInv, TypeOK
<1> DEFINE es == Mapped(Keys)
<1>0. es \in SUBSET Entries /\ RetireLocked(es) /\ todo' = [todo EXCEPT ![t] = es]
  BY DEF Close, Mapped
<1>1. NotifyAll(t, IF es = {} THEN "idle" ELSE "dispose")
  BY DEF Close
<1> HIDE DEF es
<1>2. /\ entry' \in [Entries -> EntryRecord]
      /\ entries' \in [Keys -> Entries \union {None}]
      /\ \A e \in Entries :
           /\ entry'[e].key = entry[e].key
           /\ entry'[e].handle = entry[e].handle
           /\ entry'[e].users = entry[e].users
           /\ entry'[e].disposed = entry[e].disposed
           /\ entry'[e].retired <=> (entry[e].retired \/ e \in es)
      /\ MapIsValid'
  BY <1>0, RetireEffect
<1>3. /\ pc' \in [Threads -> PCs]
      /\ pc'[t] \in {"idle", "dispose"}
      /\ \A s \in Threads \ {t} : pc'[s] = pc[s] \/ (pc[s] = "waiting" /\ pc'[s] = "acquire")
  <2>1. PICK l \in {"idle", "dispose"} : NotifyAll(t, l)
    BY <1>1
  <2>2. l \in PCs
    BY DEF PCs
  <2> QED
    BY <2>1, <2>2, NotifyEffect
<1>4. TypeOK'
  <2>1. closed' \in BOOLEAN
    BY DEF Close
  <2> QED
    BY <1>0, <1>2, <1>3, <2>1 DEF Close
<1>5. UsersExact'
  BY <1>2, <1>3, UsersUnchanged DEF Leasing, Close
<1>6. WantIsKey' /\ LockIsHeld'
  BY <1>3 DEF WantIsKey, LockIsHeld, Leasing, Locking, Close
<1>7. LeaseIsValid' /\ HandleIsOpen'
  BY <1>2, <1>3 DEF LeaseIsValid, HandleIsOpen, Leasing, Close
<1>8. TodoIsRetired' /\ ClosingIsDisposed'
  BY <1>0, <1>2, <1>3 DEF TodoIsRetired, ClosingIsDisposed, Close
<1> QED
  BY <1>2, <1>4, <1>5, <1>6, <1>7, <1>8

\* A stuttering step keeps the invariant.
LEMMA StutterKeeps ==
  ASSUME IInv, UNCHANGED vars
  PROVE  IInv'
<1> USE DEF vars
<1>1. TypeOK' /\ WantIsKey' /\ LeaseIsValid' /\ LockIsHeld'
  BY DEF IInv, TypeOK, WantIsKey, LeaseIsValid, LockIsHeld
<1>2. HandleIsOpen' /\ MapIsValid' /\ TodoIsRetired' /\ ClosingIsDisposed'
  BY DEF IInv, HandleIsOpen, MapIsValid, TodoIsRetired, ClosingIsDisposed
<1>3. UsersExact'
  BY UsersUnchanged DEF IInv
<1> QED
  BY <1>1, <1>2, <1>3 DEF IInv

\* Every step keeps the invariant.
LEMMA StepInvariant == IInv /\ [Next]_vars => IInv'
<1> SUFFICES ASSUME IInv, [Next]_vars PROVE IInv'
  OBVIOUS
<1>1. CASE UNCHANGED vars
  BY <1>1, StutterKeeps
<1>2. ASSUME NEW t \in Threads, Call(t) PROVE IInv'
  BY <1>2, BorrowKeeps, DiscardUserKeeps, CloseKeeps DEF Call
<1>3. ASSUME NEW t \in Threads, Acquire(t) PROVE IInv'
  BY <1>3, AcquireClosedKeeps, AcquireHitKeeps, AcquireNewKeeps, AcquireEvictKeeps,
     AcquireWaitKeeps DEF Acquire
<1>4. ASSUME NEW t \in Threads, Lease(t) PROVE IInv'
  BY <1>4, LockEntryKeeps, OpenOkKeeps, OpenFailsKeeps, CountOpenKeeps, CheckRetiredKeeps,
     EndUseKeeps, FailKeeps, UnlockKeeps, ReleaseKeeps DEF Lease
<1>5. ASSUME NEW t \in Threads, Dispose(t) PROVE IInv'
  BY <1>5, DisposeSkipKeeps, DisposeTakeKeeps, DisposeEndKeeps DEF Dispose
<1> QED
  BY <1>1, <1>2, <1>3, <1>4, <1>5 DEF Next, Step

-----------------------------------------------------------------------------
(* The theorems *)

\* The inductive invariant holds in every reachable state.
THEOREM Invariant == Spec => []IInv
BY InitInvariant, StepInvariant, PTL DEF Spec

\* Type correctness: in particular the number of users of an entry (the field users,
\* lowered by _release) never becomes negative.
THEOREM TypeCorrect == Spec => []TypeOK
<1>1. IInv => TypeOK
  BY DEF IInv
<1> QED
  BY <1>1, Invariant, PTL

\* A reader inside the with statement of borrow has the open handle of the key it asked
\* for, and no other thread is using that handle or closing it.
THEOREM LeaseSafety == Spec => []LeaseIsLive
<1>1. IInv => LeaseIsLive
  <2> SUFFICES ASSUME IInv, NEW t \in Threads, pc[t] = "using"
               PROVE /\ entry[cur[t]].handle /\ ~entry[cur[t]].disposed
                     /\ entry[cur[t]].key = want[t]
                     /\ \A s \in Threads \ {t} :
                            pc[s] \in {"using", "closing"} => cur[s] # cur[t]
    BY DEF LeaseIsLive
  <2>1. ~entry[cur[t]].disposed /\ entry[cur[t]].key = want[t]
    BY DEF IInv, LeaseIsValid, Leasing
  <2>2. entry[cur[t]].handle
    BY DEF IInv, HandleIsOpen
  <2>3. ASSUME NEW s \in Threads \ {t}, pc[s] = "using" PROVE cur[s] # cur[t]
    BY <2>3 DEF IInv, LockIsHeld, Locking, Leasing
  <2>4. ASSUME NEW s \in Threads \ {t}, pc[s] = "closing" PROVE cur[s] # cur[t]
    BY <2>1, <2>4 DEF IInv, ClosingIsDisposed
  <2> QED
    BY <2>1, <2>2, <2>3, <2>4
<1> QED
  BY <1>1, Invariant, PTL

-----------------------------------------------------------------------------
(* No lost wakeup *)

\* A step that puts nobody to sleep, keeps the cache as open and as full, and makes no
\* entry idle, keeps NoLostWakeup.
LEMMA SleepersUndisturbed ==
  ASSUME TypeOK, TypeOK', NoLostWakeup,
         \A s \in Threads : pc'[s] = "waiting" => pc[s] = "waiting",
         closed' <=> closed,
         allocated' >= allocated,
         \A e \in Entries : Idle(e)' => Idle(e)
  PROVE  NoLostWakeup'
BY CacheAssumption DEF NoLostWakeup, TypeOK

\* After notify_all nobody sleeps, if the caller does not.
LEMMA NobodySleeps ==
  ASSUME NEW t \in Threads, NEW l \in PCs \ {"waiting"}, NotifyAll(t, l)
  PROVE  NoLostWakeup'
BY DEF NotifyAll, NoLostWakeup

\* No lost wakeup is kept by every step of a state of the right types.
LEMMA StepNoLostWakeup ==
  ASSUME TypeOK, TypeOK', NoLostWakeup, [Next]_vars
  PROVE  NoLostWakeup'
<1> USE DEF TypeOK
<1>1. CASE UNCHANGED vars
  BY <1>1 DEF vars, NoLostWakeup, Idle, Mapped
<1>2. ASSUME NEW t \in Threads, NEW k \in Keys, Borrow(t, k) PROVE NoLostWakeup'
  BY <1>2, SleepersUndisturbed DEF Borrow, Goto, Idle, Mapped
<1>3. ASSUME NEW t \in Threads, NEW u \in Users, DiscardUser(t, u) PROVE NoLostWakeup'
  <2> DEFINE es == Mapped({k \in Keys : Owner[k] = u})
  <2>1. es \in SUBSET Entries
    BY DEF Mapped
  <2>2. RetireLocked(es)
    BY <1>3 DEF DiscardUser
  <2>3. ASSUME NEW e \in Entries, Idle(e)' PROVE Idle(e)
    <3>1. entry'[e].users = entry[e].users
      BY <2>1, <2>2, RetireEffect
    <3>2. e \in Mapped(Keys)
      BY <2>2, <2>3 DEF RetireLocked, Idle, Mapped
    <3> QED
      BY <2>3, <3>1, <3>2 DEF Idle
  <2> QED
    BY <1>3, <2>3, SleepersUndisturbed DEF DiscardUser, Goto
<1>4. ASSUME NEW t \in Threads, Close(t) PROVE NoLostWakeup'
  <2>1. PICK l \in {"idle", "dispose"} : NotifyAll(t, l)
    BY <1>4 DEF Close
  <2> QED
    BY <2>1, NobodySleeps DEF PCs
<1>5. ASSUME NEW t \in Threads, Acquire(t) PROVE NoLostWakeup'
  <2>1. CASE AcquireClosed(t)
    BY <2>1, SleepersUndisturbed DEF AcquireClosed, Goto, Idle, Mapped
  <2>2. CASE AcquireHit(t)
    <3>1. ASSUME NEW e \in Entries, Idle(e)' PROVE Idle(e)
      BY <2>2, <3>1 DEF AcquireHit, Idle, Mapped, EntryRecord
    <3> QED
      BY <2>2, <3>1, SleepersUndisturbed DEF AcquireHit, Goto
  <2>3. CASE AcquireNew(t)
    <3>1. ~(allocated >= Capacity)
      BY <2>3, CacheAssumption DEF AcquireNew
    <3>2. \A s \in Threads : pc[s] # "waiting"
      BY <3>1 DEF NoLostWakeup
    <3>3. \A s \in Threads : pc'[s] # "waiting"
      BY <2>3, <3>2 DEF AcquireNew, Goto
    <3> QED
      BY <3>3 DEF NoLostWakeup
  <2>4. CASE AcquireEvict(t)
    BY <2>4 DEF AcquireEvict, Goto, NoLostWakeup
  <2>5. CASE AcquireWait(t)
    BY <2>5 DEF AcquireWait, Goto, NoLostWakeup, Idle, Mapped
  <2> QED
    BY <1>5, <2>1, <2>2, <2>3, <2>4, <2>5 DEF Acquire
<1>6. ASSUME NEW t \in Threads, Lease(t) PROVE NoLostWakeup'
  <2>1. CASE LockEntry(t)
    BY <2>1, SleepersUndisturbed DEF LockEntry, Goto, Idle, Mapped
  <2>2. CASE OpenOk(t)
    <3>1. ASSUME NEW e \in Entries PROVE entry'[e].users = entry[e].users
      BY <2>2 DEF OpenOk, EntryRecord
    <3>2. ASSUME NEW e \in Entries, Idle(e)' PROVE Idle(e)
      BY <2>2, <3>1, <3>2 DEF OpenOk, Idle, Mapped
    <3> QED
      BY <2>2, <3>2, SleepersUndisturbed DEF OpenOk, Goto
  <2>3. CASE OpenFails(t) \/ CountOpen(t) \/ CheckRetired(t) \/ EndUse(t) \/ Unlock(t)
    BY <2>3, SleepersUndisturbed
       DEF OpenFails, CountOpen, CheckRetired, EndUse, Unlock, Goto, Idle, Mapped
  <2>4. CASE Fail(t)
    <3>1. ASSUME NEW e \in Entries PROVE entry'[e].users = entry[e].users
      BY <2>4 DEF Fail, RetireLocked, EntryRecord
    <3>2. ASSUME NEW e \in Entries, Idle(e)' PROVE Idle(e)
      BY <2>4, <3>1, <3>2 DEF Fail, RetireLocked, Idle, Mapped
    <3> QED
      BY <2>4, <3>2, SleepersUndisturbed DEF Fail, Goto
  <2>5. CASE Release(t)
    <3>1. PICK l \in {"dispose", "acquire", "idle"} : NotifyAll(t, l)
      BY <2>5 DEF Release, Return
    <3> QED
      BY <3>1, NobodySleeps DEF PCs
  <2> QED
    BY <1>6, <2>1, <2>2, <2>3, <2>4, <2>5 DEF Lease
<1>7. ASSUME NEW t \in Threads, Dispose(t) PROVE NoLostWakeup'
  <2>1. CASE DisposeSkip(t)
    BY <2>1, SleepersUndisturbed DEF DisposeSkip, Disposed, Return, Goto, Idle, Mapped
  <2>2. CASE DisposeTake(t)
    <3>1. ASSUME NEW e \in Entries PROVE entry'[e].users = entry[e].users
      BY <2>2 DEF DisposeTake, EntryRecord
    <3>2. ASSUME NEW e \in Entries, Idle(e)' PROVE Idle(e)
      BY <2>2, <3>1, <3>2 DEF DisposeTake, Idle, Mapped
    <3> QED
      BY <2>2, <3>2, SleepersUndisturbed DEF DisposeTake, Goto
  <2>3. CASE DisposeEnd(t)
    <3>1. PICK l \in {"dispose", "acquire", "idle"} : NotifyAll(t, l)
      BY <2>3 DEF DisposeEnd, Disposed, Return
    <3> QED
      BY <3>1, NobodySleeps DEF PCs
  <2> QED
    BY <1>7, <2>1, <2>2, <2>3 DEF Dispose
<1> QED
  BY <1>1, <1>2, <1>3, <1>4, <1>5, <1>6, <1>7 DEF Next, Step, Call

\* No lost wakeup: a thread sleeps in _acquire only while the cache is open, full, and
\* every mapped entry is in use.
THEOREM Wakeups == Spec => []NoLostWakeup
<1>1. Init => NoLostWakeup
  BY DEF Init, NoLostWakeup
<1>2. TypeOK /\ TypeOK' /\ NoLostWakeup /\ [Next]_vars => NoLostWakeup'
  BY StepNoLostWakeup
<1> QED
  BY <1>1, <1>2, TypeCorrect, PTL DEF Spec

-----------------------------------------------------------------------------
(* Nothing retired is forgotten *)

\* Only a thread inside _dispose, or on its way there, has a list to dispose of.
TodoIsCurrent ==
    \A t \in Threads : pc[t] \notin {"dispose", "closing"} => todo[t] = {}

\* The other half of the argument of RetiredIsReclaimed.
RInv == RetiredIsReclaimed /\ TodoIsCurrent

\* The lists are empty where they should be, after any step.
LEMMA StepTodoIsCurrent ==
  ASSUME TypeOK, TodoIsCurrent, [Next]_vars
  PROVE  TodoIsCurrent'
<1> USE DEF TypeOK, TodoIsCurrent
<1>1. CASE UNCHANGED vars
  BY <1>1 DEF vars
<1>2. ASSUME NEW t \in Threads, NEW k \in Keys, Borrow(t, k) PROVE TodoIsCurrent'
  BY <1>2 DEF Borrow, Goto
<1>3. ASSUME NEW t \in Threads, NEW u \in Users, DiscardUser(t, u) PROVE TodoIsCurrent'
  BY <1>3 DEF DiscardUser, Goto
<1>4. ASSUME NEW t \in Threads, Close(t) PROVE TodoIsCurrent'
  BY <1>4 DEF Close, NotifyAll
<1>5. ASSUME NEW t \in Threads, Acquire(t) PROVE TodoIsCurrent'
  BY <1>5 DEF Acquire, AcquireClosed, AcquireHit, AcquireNew, AcquireEvict, AcquireWait, Goto
<1>6. ASSUME NEW t \in Threads, Lease(t) PROVE TodoIsCurrent'
  <2>1. CASE Release(t)
    BY <2>1 DEF Release, NotifyAll
  <2> QED
    BY <1>6, <2>1 DEF Lease, LockEntry, OpenOk, OpenFails, CountOpen, CheckRetired, EndUse,
                      Fail, Unlock, Goto
<1>7. ASSUME NEW t \in Threads, Dispose(t) PROVE TodoIsCurrent'
  <2>1. CASE DisposeSkip(t)
    BY <2>1 DEF DisposeSkip, Disposed, Return, Goto
  <2>2. CASE DisposeTake(t)
    BY <2>2 DEF DisposeTake, Goto
  <2>3. CASE DisposeEnd(t)
    BY <2>3 DEF DisposeEnd, Disposed, Return, NotifyAll
  <2> QED
    BY <1>7, <2>1, <2>2, <2>3 DEF Dispose
<1> QED
  BY <1>1, <1>2, <1>3, <1>4, <1>5, <1>6, <1>7 DEF Next, Step, Call

\* A step that only lengthens the lists, and neither retires an entry that is not put
\* on one nor takes its users from it, keeps RetiredIsReclaimed.
LEMMA ReclaimUndisturbed ==
  ASSUME TypeOK, RetiredIsReclaimed,
         \A s \in Threads : todo[s] \subseteq todo'[s],
         \A e \in Entries :
            entry'[e].retired /\ ~entry'[e].disposed =>
                \/ entry[e].retired /\ ~entry[e].disposed /\ entry'[e].users = entry[e].users
                \/ entry'[e].users > 0
                \/ \E s \in Threads : e \in todo'[s]
  PROVE  RetiredIsReclaimed'
BY DEF RetiredIsReclaimed

\* RetiredIsReclaimed is kept by every step that starts within the invariants.
LEMMA StepReclaimed ==
  ASSUME IInv, RInv, [Next]_vars
  PROVE  RetiredIsReclaimed'
<1> USE DEF IInv, TypeOK, RInv
<1>1. CASE UNCHANGED vars
  BY <1>1, ReclaimUndisturbed DEF vars
<1>2. ASSUME NEW t \in Threads, NEW k \in Keys, Borrow(t, k) PROVE RetiredIsReclaimed'
  BY <1>2, ReclaimUndisturbed DEF Borrow
<1>3. ASSUME NEW t \in Threads, NEW u \in Users, DiscardUser(t, u) PROVE RetiredIsReclaimed'
  <2> DEFINE es == Mapped({k \in Keys : Owner[k] = u})
  <2>1. es \in SUBSET Entries
    BY DEF Mapped
  <2>2. RetireLocked(es)
    BY <1>3 DEF DiscardUser
  <2>3. todo'[t] = es /\ \A s \in Threads : todo[s] \subseteq todo'[s]
    BY <1>3, <2>1 DEF DiscardUser, TodoIsCurrent
  <2> HIDE DEF es
  <2> QED
    BY <2>1, <2>2, <2>3, RetireEffect, ReclaimUndisturbed
<1>4. ASSUME NEW t \in Threads, Close(t) PROVE RetiredIsReclaimed'
  <2> DEFINE es == Mapped(Keys)
  <2>1. es \in SUBSET Entries
    BY DEF Mapped
  <2>2. RetireLocked(es)
    BY <1>4 DEF Close
  <2>3. todo'[t] = es /\ \A s \in Threads : todo[s] \subseteq todo'[s]
    BY <1>4, <2>1 DEF Close, TodoIsCurrent
  <2> HIDE DEF es
  <2> QED
    BY <2>1, <2>2, <2>3, RetireEffect, ReclaimUndisturbed
<1>5. ASSUME NEW t \in Threads, Acquire(t) PROVE RetiredIsReclaimed'
  <2>1. CASE AcquireClosed(t) \/ AcquireWait(t)
    BY <2>1, ReclaimUndisturbed DEF AcquireClosed, AcquireWait
  <2>2. CASE AcquireHit(t)
    BY <2>2, ReclaimUndisturbed DEF AcquireHit, EntryRecord
  <2>3. CASE AcquireNew(t)
    BY <2>3, ReclaimUndisturbed DEF AcquireNew, EntryRecord
  <2>4. CASE AcquireEvict(t)
    <3>1. PICK e \in Entries : RetireLocked({e}) /\ todo' = [todo EXCEPT ![t] = {e}]
      BY <2>4 DEF AcquireEvict
    <3>2. todo'[t] = {e} /\ \A s \in Threads : todo[s] \subseteq todo'[s]
      BY <2>4, <3>1 DEF AcquireEvict, TodoIsCurrent
    <3> QED
      BY <3>1, <3>2, RetireEffect, ReclaimUndisturbed
  <2> QED
    BY <1>5, <2>1, <2>2, <2>3, <2>4 DEF Acquire
<1>6. ASSUME NEW t \in Threads, Lease(t) PROVE RetiredIsReclaimed'
  <2>1. CASE LockEntry(t) \/ OpenFails(t) \/ CountOpen(t) \/ CheckRetired(t) \/ EndUse(t) \/ Unlock(t)
    BY <2>1, ReclaimUndisturbed DEF LockEntry, OpenFails, CountOpen, CheckRetired, EndUse, Unlock
  <2>2. CASE OpenOk(t)
    BY <2>2, ReclaimUndisturbed DEF OpenOk, EntryRecord
  <2>3. CASE Fail(t)
    <3>1. pc[t] \in Leasing /\ cur[t] \in Entries /\ RetireLocked({cur[t]})
      BY <2>3 DEF Fail, Leasing, LeaseIsValid
    <3>2. entry[cur[t]].users > 0
      <4>1. entry[cur[t]].users # 0
        BY <3>1, NoUsersNoHolder
      <4> QED
        BY <3>1, <4>1 DEF EntryRecord
    <3> QED
      BY <2>3, <3>1, <3>2, RetireEffect, ReclaimUndisturbed DEF Fail
  <2>4. CASE Release(t)
    <3> DEFINE a == cur[t]
    <3>1. a \in Entries /\ entry[a].users \in Nat /\ entry[a].users # 0
      BY <2>4, NoUsersNoHolder DEF Release, Leasing, LeaseIsValid, EntryRecord
    <3>2. /\ entry'[a].users = entry[a].users - 1
          /\ entry'[a].retired = entry[a].retired
          /\ \A e \in Entries \ {a} : entry'[e] = entry[e]
      BY <2>4, <3>1 DEF Release, EntryRecord
    <3>3. todo[t] = {}
      BY <2>4 DEF Release, TodoIsCurrent
    <3>4. \/ entry[a].retired /\ entry[a].users = 1 /\ todo' = [todo EXCEPT ![t] = {a}]
          \/ ~(entry[a].retired /\ entry[a].users = 1) /\ todo' = todo
      BY <2>4 DEF Release
    <3> HIDE DEF a
    <3>5. \A s \in Threads : todo[s] \subseteq todo'[s]
      BY <3>3, <3>4
    <3>6. entry'[a].retired => entry'[a].users > 0 \/ a \in todo'[t]
      BY <3>1, <3>2, <3>4
    <3> QED
      BY <3>2, <3>5, <3>6, ReclaimUndisturbed
  <2> QED
    BY <1>6, <2>1, <2>2, <2>3, <2>4 DEF Lease
<1>7. ASSUME NEW t \in Threads, Dispose(t) PROVE RetiredIsReclaimed'
  <2>1. CASE DisposeSkip(t)
    <3>1. PICK e \in todo[t] : /\ entry[e].disposed \/ entry[e].users > 0
                               /\ todo' = [todo EXCEPT ![t] = @ \ {e}]
      BY <2>1 DEF DisposeSkip
    <3> QED
      BY <2>1, <3>1 DEF DisposeSkip, RetiredIsReclaimed
  <2>2. CASE DisposeTake(t)
    BY <2>2, ReclaimUndisturbed DEF DisposeTake, EntryRecord
  <2>3. CASE DisposeEnd(t)
    <3>1. cur[t] \in Entries /\ entry[cur[t]].disposed
      BY <2>3 DEF DisposeEnd, ClosingIsDisposed
    <3> QED
      BY <2>3, <3>1 DEF DisposeEnd, RetiredIsReclaimed
  <2> QED
    BY <1>7, <2>1, <2>2, <2>3 DEF Dispose
<1> QED
  BY <1>1, <1>2, <1>3, <1>4, <1>5, <1>6, <1>7 DEF Next, Step, Call

\* A retired entry is never forgotten: somebody uses it, or has it on a list to dispose of.
THEOREM Reclaim == Spec => []RetiredIsReclaimed
<1>1. Init => RInv
  BY DEF Init, RInv, RetiredIsReclaimed, TodoIsCurrent, Garbage
<1>2. IInv /\ RInv /\ [Next]_vars => RInv'
  <2> SUFFICES ASSUME IInv, RInv, [Next]_vars PROVE RInv'
    OBVIOUS
  <2>1. RetiredIsReclaimed'
    BY StepReclaimed
  <2>2. TodoIsCurrent'
    BY StepTodoIsCurrent DEF IInv, RInv
  <2> QED
    BY <2>1, <2>2 DEF RInv
<1>3. RInv => RetiredIsReclaimed
  BY DEF RInv
<1> QED
  BY <1>1, <1>2, <1>3, Invariant, PTL DEF Spec

-----------------------------------------------------------------------------
(* The capacity *)

\* Thread t is inside the close call of entry e.
Closes(t, e) == pc[t] = "closing" /\ cur[t] = e

\* The entries a handle is reserved for: those not disposed of, and those being closed.
Reserved == {e \in Entries : ~entry[e].disposed \/ \E t \in Threads : Closes(t, e)}

\* The field allocated counts the reservations, and stays within the capacity.
AllocatedExact == allocated = Cardinality(Reserved) /\ allocated <= Capacity

\* A handle belongs to an entry that is not disposed of, or to a thread that closes it.
HandleIsReserved ==
    /\ \A e \in Entries : entry[e].handle => ~entry[e].disposed
    /\ \A t \in Threads : taken[t] => pc[t] = "closing"

\* No two threads close the same entry.
ClosedOnce ==
    \A s, t \in Threads : s # t /\ pc[s] = "closing" /\ pc[t] = "closing" => cur[s] # cur[t]

CInv == AllocatedExact /\ HandleIsReserved /\ ClosedOnce

\* A step that opens no handle of a disposed entry, disposes of nothing and begins or
\* ends no close call keeps the reservations.
LEMMA ReservedUnchanged ==
  ASSUME CInv, allocated' = allocated, taken' = taken,
         \A t \in Threads : /\ pc'[t] = "closing" <=> pc[t] = "closing"
                            /\ pc[t] = "closing" => cur'[t] = cur[t],
         \A e \in Entries : /\ entry'[e].disposed <=> entry[e].disposed
                            /\ entry'[e].handle => entry[e].handle \/ ~entry[e].disposed
  PROVE  CInv'
<1>1. Reserved' = Reserved
  BY DEF Reserved, Closes
<1>2. AllocatedExact'
  BY <1>1 DEF CInv, AllocatedExact
<1>3. HandleIsReserved' /\ ClosedOnce'
  BY DEF CInv, HandleIsReserved, ClosedOnce
<1> QED
  BY <1>2, <1>3 DEF CInv

\* A new entry takes an identity nothing is reserved for, and one more reservation.
LEMMA AcquireNewReserves ==
  ASSUME IInv, CInv, NEW t \in Threads, AcquireNew(t)
  PROVE  CInv'
<1> USE DEF IInv, TypeOK
<1> PICK a \in Entries :
      /\ Unused(a)
      /\ entry' = [entry EXCEPT ![a] = [key |-> want[t], handle |-> FALSE, users |-> 1,
                                        retired |-> FALSE, disposed |-> FALSE]]
      /\ cur' = [cur EXCEPT ![t] = a]
  BY DEF AcquireNew
<1>1. /\ ~entry'[a].disposed /\ ~entry'[a].handle
      /\ \A e \in Entries \ {a} : entry'[e] = entry[e]
  OBVIOUS
<1>2. pc[t] = "acquire" /\ pc'[t] = "lock" /\ \A s \in Threads \ {t} : pc'[s] = pc[s] /\ cur'[s] = cur[s]
  BY DEF AcquireNew, Goto
<1>3. a \notin Reserved
  BY DEF Reserved, Closes, Unused
<1>4. Reserved' = Reserved \union {a}
  BY <1>1, <1>2 DEF Reserved, Closes
<1>5. IsFiniteSet(Reserved)
  BY CacheAssumption, FS_Subset DEF Reserved
<1>6. Cardinality(Reserved') = Cardinality(Reserved) + 1
  BY <1>3, <1>4, <1>5, FS_AddElement
<1>7. AllocatedExact'
  BY <1>6, CacheAssumption DEF AcquireNew, CInv, AllocatedExact
<1>8. HandleIsReserved' /\ ClosedOnce'
  BY <1>1, <1>2 DEF CInv, HandleIsReserved, ClosedOnce, AcquireNew
<1> QED
  BY <1>7, <1>8 DEF CInv

\* _dispose passes the reservation of the entry to the thread that closes its handle.
LEMMA DisposeTakeReserves ==
  ASSUME IInv, CInv, NEW t \in Threads, DisposeTake(t)
  PROVE  CInv'
<1> USE DEF IInv, TypeOK
<1> PICK a \in todo[t] :
      /\ ~entry[a].disposed
      /\ entry' = [entry EXCEPT ![a].disposed = TRUE, ![a].handle = FALSE]
      /\ taken' = [taken EXCEPT ![t] = entry[a].handle]
      /\ cur' = [cur EXCEPT ![t] = a]
  BY DEF DisposeTake
<1>1. /\ a \in Entries /\ entry'[a].disposed /\ ~entry'[a].handle
      /\ \A e \in Entries \ {a} : entry'[e] = entry[e]
  BY DEF EntryRecord
<1>2. /\ pc[t] = "dispose" /\ pc'[t] = "closing" /\ cur'[t] = a
      /\ \A s \in Threads \ {t} : pc'[s] = pc[s] /\ cur'[s] = cur[s] /\ taken'[s] = taken[s]
  BY DEF DisposeTake, Goto
<1>3. \A s \in Threads : pc[s] = "closing" => cur[s] # a
  BY DEF ClosingIsDisposed
<1>4. Reserved' = Reserved
  BY <1>1, <1>2, <1>3 DEF Reserved, Closes
<1>5. AllocatedExact'
  BY <1>4 DEF DisposeTake, CInv, AllocatedExact
<1>6. HandleIsReserved'
  BY <1>1, <1>2 DEF CInv, HandleIsReserved
<1>7. ClosedOnce'
  BY <1>2, <1>3 DEF CInv, ClosedOnce
<1> QED
  BY <1>5, <1>6, <1>7 DEF CInv

\* The close call is over: one reservation less.
LEMMA DisposeEndFrees ==
  ASSUME IInv, CInv, NEW t \in Threads, DisposeEnd(t)
  PROVE  CInv'
<1> USE DEF IInv, TypeOK
<1> DEFINE a == cur[t]
<1>1. pc[t] = "closing" /\ a \in Entries /\ entry[a].disposed /\ entry' = entry
  BY DEF DisposeEnd, ClosingIsDisposed
<1>2. /\ pc'[t] # "closing"
      /\ \A s \in Threads \ {t} : /\ pc'[s] = "closing" <=> pc[s] = "closing"
                                  /\ cur'[s] = cur[s] /\ taken'[s] = taken[s]
      /\ ~taken'[t]
  BY DEF DisposeEnd, NotifyAll, Disposed, Return
<1>3. \A s \in Threads \ {t} : pc[s] = "closing" => cur[s] # a
  BY <1>1 DEF CInv, ClosedOnce
<1>4. Reserved' = Reserved \ {a} /\ a \in Reserved
  BY <1>1, <1>2, <1>3 DEF Reserved, Closes
<1>5. IsFiniteSet(Reserved)
  BY CacheAssumption, FS_Subset DEF Reserved
<1>6. Cardinality(Reserved') = Cardinality(Reserved) - 1 /\ Cardinality(Reserved) \in Nat
  BY <1>4, <1>5, FS_RemoveElement, FS_CardinalityType
<1>7. allocated' = allocated - 1
  BY DEF DisposeEnd
<1>8. AllocatedExact'
  BY <1>6, <1>7, CacheAssumption DEF CInv, AllocatedExact
<1>9. HandleIsReserved' /\ ClosedOnce'
  BY <1>1, <1>2 DEF CInv, HandleIsReserved, ClosedOnce
<1> QED
  BY <1>8, <1>9 DEF CInv

\* Every step keeps the reservations.
LEMMA StepReservations ==
  ASSUME IInv, CInv, [Next]_vars
  PROVE  CInv'
<1> USE DEF IInv, TypeOK
<1>1. CASE UNCHANGED vars
  BY <1>1, ReservedUnchanged DEF vars
<1>2. ASSUME NEW t \in Threads, NEW k \in Keys, Borrow(t, k) PROVE CInv'
  BY <1>2, ReservedUnchanged DEF Borrow, Goto
<1>3. ASSUME NEW t \in Threads, NEW u \in Users, DiscardUser(t, u) PROVE CInv'
  <2> DEFINE es == Mapped({k \in Keys : Owner[k] = u})
  <2>1. es \in SUBSET Entries
    BY DEF Mapped
  <2>2. RetireLocked(es)
    BY <1>3 DEF DiscardUser
  <2> HIDE DEF es
  <2>3. \A e \in Entries : /\ entry'[e].handle = entry[e].handle
                            /\ entry'[e].disposed = entry[e].disposed
    BY <2>1, <2>2, RetireEffect
  <2> QED
    BY <1>3, <2>3, ReservedUnchanged DEF DiscardUser, Goto
<1>4. ASSUME NEW t \in Threads, Close(t) PROVE CInv'
  <2> DEFINE es == Mapped(Keys)
  <2>1. es \in SUBSET Entries
    BY DEF Mapped
  <2>2. RetireLocked(es)
    BY <1>4 DEF Close
  <2> HIDE DEF es
  <2>3. \A e \in Entries : /\ entry'[e].handle = entry[e].handle
                            /\ entry'[e].disposed = entry[e].disposed
    BY <2>1, <2>2, RetireEffect
  <2> QED
    BY <1>4, <2>3, ReservedUnchanged DEF Close, NotifyAll
<1>5. ASSUME NEW t \in Threads, Acquire(t) PROVE CInv'
  <2>1. CASE AcquireClosed(t) \/ AcquireWait(t)
    BY <2>1, ReservedUnchanged DEF AcquireClosed, AcquireWait, Goto
  <2>2. CASE AcquireHit(t)
    <3>1. \A e \in Entries : /\ entry'[e].handle = entry[e].handle
                              /\ entry'[e].disposed = entry[e].disposed
      BY <2>2 DEF AcquireHit, EntryRecord
    <3> QED
      BY <2>2, <3>1, ReservedUnchanged DEF AcquireHit, Goto
  <2>3. CASE AcquireEvict(t)
    <3>1. PICK a \in Entries : RetireLocked({a})
      BY <2>3 DEF AcquireEvict
    <3>2. \A e \in Entries : /\ entry'[e].handle = entry[e].handle
                              /\ entry'[e].disposed = entry[e].disposed
      BY <3>1, RetireEffect
    <3> QED
      BY <2>3, <3>2, ReservedUnchanged DEF AcquireEvict, Goto
  <2> QED
    BY <1>5, <2>1, <2>2, <2>3, AcquireNewReserves DEF Acquire
<1>6. ASSUME NEW t \in Threads, Lease(t) PROVE CInv'
  <2>1. CASE LockEntry(t)
    BY <2>1, ReservedUnchanged DEF LockEntry, Goto
  <2>2. CASE OpenOk(t)
    <3>1. cur[t] \in Entries /\ ~entry[cur[t]].disposed
      BY <2>2 DEF OpenOk, LeaseIsValid, Leasing
    <3>2. \A e \in Entries : /\ entry'[e].disposed <=> entry[e].disposed
                              /\ entry'[e].handle => entry[e].handle \/ ~entry[e].disposed
      BY <2>2, <3>1 DEF OpenOk, EntryRecord
    <3> QED
      BY <2>2, <3>2, ReservedUnchanged DEF OpenOk, Goto
  <2>3. CASE OpenFails(t) \/ CountOpen(t) \/ CheckRetired(t) \/ EndUse(t) \/ Unlock(t)
    BY <2>3, ReservedUnchanged DEF OpenFails, CountOpen, CheckRetired, EndUse, Unlock, Goto
  <2>4. CASE Fail(t)
    <3>1. {cur[t]} \in SUBSET Entries /\ RetireLocked({cur[t]})
      BY <2>4 DEF Fail, LeaseIsValid, Leasing
    <3>2. \A e \in Entries : /\ entry'[e].handle = entry[e].handle
                              /\ entry'[e].disposed = entry[e].disposed
      BY <3>1, RetireEffect
    <3> QED
      BY <2>4, <3>2, ReservedUnchanged DEF Fail, Goto
  <2>5. CASE Release(t)
    <3>1. \A e \in Entries : /\ entry'[e].handle = entry[e].handle
                              /\ entry'[e].disposed = entry[e].disposed
      BY <2>5 DEF Release, EntryRecord
    <3>2. PICK l \in {"dispose", "acquire", "idle"} : NotifyAll(t, l)
      BY <2>5 DEF Release, Return
    <3>3. pc[t] = "release" /\ \A s \in Threads : pc'[s] = "closing" <=> pc[s] = "closing"
      BY <2>5, <3>2 DEF Release, NotifyAll
    <3>4. /\ \A s \in Threads : pc[s] = "closing" => cur'[s] = cur[s]
          /\ allocated' = allocated /\ taken' = taken
      BY <2>5, <3>3 DEF Release
    <3> QED
      BY <3>1, <3>3, <3>4, ReservedUnchanged
  <2> QED
    BY <1>6, <2>1, <2>2, <2>3, <2>4, <2>5 DEF Lease
<1>7. ASSUME NEW t \in Threads, Dispose(t) PROVE CInv'
  <2>1. CASE DisposeSkip(t)
    BY <2>1, ReservedUnchanged DEF DisposeSkip, Disposed, Return, Goto
  <2> QED
    BY <1>7, <2>1, DisposeTakeReserves, DisposeEndFrees DEF Dispose
<1> QED
  BY <1>1, <1>2, <1>3, <1>4, <1>5, <1>6, <1>7 DEF Next, Step, Call

\* The files open are among the entries a handle is reserved for.
LEMMA OpenFilesAreReserved ==
  ASSUME IInv, CInv
  PROVE  CapacityRespected
<1>1. OpenFiles \subseteq Reserved
  BY DEF OpenFiles, Reserved, Closes, CInv, HandleIsReserved, IInv, ClosingIsDisposed
<1>2. IsFiniteSet(Reserved)
  BY CacheAssumption, FS_Subset DEF Reserved
<1>3. Cardinality(OpenFiles) <= Cardinality(Reserved) /\ IsFiniteSet(OpenFiles)
  BY <1>1, <1>2, FS_Subset
<1>4. Cardinality(OpenFiles) \in Nat /\ Cardinality(Reserved) \in Nat
  BY <1>2, <1>3, FS_CardinalityType
<1> QED
  BY <1>3, <1>4, CacheAssumption DEF CInv, AllocatedExact, CapacityRespected

\* The cache never has more files open than its capacity, counting the handles of
\* retired leases and those whose close call is still running.
THEOREM CapacityKept == Spec => []CapacityRespected
<1>1. Init => CInv
  <2> SUFFICES ASSUME Init PROVE CInv
    OBVIOUS
  <2>1. Reserved = {}
    BY DEF Init, Reserved, Closes, Garbage
  <2>2. AllocatedExact
    BY <2>1, FS_EmptySet, CacheAssumption DEF Init, AllocatedExact
  <2>3. HandleIsReserved /\ ClosedOnce
    BY DEF Init, HandleIsReserved, ClosedOnce, Garbage
  <2> QED
    BY <2>2, <2>3 DEF CInv
<1>2. IInv /\ CInv /\ [Next]_vars => CInv'
  BY StepReservations
<1>3. IInv /\ CInv => CapacityRespected
  BY OpenFilesAreReserved
<1> QED
  BY <1>1, <1>2, <1>3, Invariant, PTL DEF Spec

=============================================================================
