------------------------- MODULE GameLauncher_proofs -------------------------
(***************************************************************************)
(* Proofs about GameLauncher, for any number of threads, accounts, servers *)
(* and processes.                                                          *)
(*                                                                         *)
(* An account is launched by one thread because the thread that marks it   *)
(* finds it unmarked, and every thread past the mark has its account in    *)
(* the set.  A process is attributed rightly because only the holder of    *)
(* the attempt lock waits for a process: every process that is younger     *)
(* than its launch is then its own, but for those that came from elsewhere *)
(* in this time.                                                           *)
(***************************************************************************)
EXTENDS GameLauncher, TLAPS

\* Where a thread holds the attempt lock ...
Holding == {"cleanup", "start", "await", "append", "unlock"}

\* ... and waits for its process.
Waiting == {"await"}

\* A thread inside start_game_session has an account.
AccountIsNamed == \A c \in Callers : pc[c] # "idle" => uid[c] \in Accounts

\* The account a thread launches is marked.
Marked == \A c \in Callers : pc[c] \in Claimed => uid[c] \in inflight

\* The attempt lock is held by the thread whose place says so.
LockIsHeld == \A c \in Callers : pc[c] \in Holding => attemptLock = c

\* Only processes that exist run, or are owned.
OnlyKnownPids == \A p \in Pids : p \in alive \/ processOwners[p] # None => p < nextPid

\* The candidate a thread watches was created after its launch.
PickIsRecent ==
    \A c \in Callers : pc[c] \in Waiting /\ picked[c] # NoPid =>
        launchedAt[c] < picked[c] /\ picked[c] < nextPid

\* A thread appends the process it has claimed.
ClaimHasPid == \A c \in Callers : pc[c] = "append" => picked[c] # NoPid

\* Every process younger than a launch is the launch's own, but for strays.
YoungIsOwn ==
    \A c \in Callers : pc[c] \in Waiting =>
        \A p \in Pids \ stray : launchedAt[c] < p /\ p < nextPid => account[p] = uid[c]

\* What a launch may take for its own is its own.
Attributed == YoungIsOwn /\ PidIsAttributed

LInv ==
    /\ AccountIsNamed /\ Marked /\ InflightExclusive /\ LockIsHeld /\ OnlyKnownPids
    /\ PickIsRecent /\ ClaimHasPid /\ Attributed

IInv == TypeOK /\ LInv

-----------------------------------------------------------------------------
\* The invariant holds at the start.
LEMMA InitInvariant == Init => IInv
<1> SUFFICES ASSUME Init PROVE IInv
  OBVIOUS
<1> USE LauncherAssumption DEF Init
<1>1. TypeOK
  <2>1. /\ processOwners \in [Pids -> Accounts \union {None}]
        /\ account \in [Pids -> Accounts \union {None}]
        /\ userProcesses \in [Accounts -> SUBSET Pids]
        /\ userServer \in [Accounts -> Servers \union {Disconnected, None}]
    OBVIOUS
  <2>2. grace \in [Accounts -> BOOLEAN]
    OBVIOUS
  <2>3. /\ skip \in [Callers -> BOOLEAN] /\ handoff \in [Callers -> BOOLEAN]
        /\ scanning \in BOOLEAN
    OBVIOUS
  <2>4. /\ inflight \subseteq Accounts /\ attemptLock \in Callers \union {None}
        /\ uid \in [Callers -> Accounts \union {None}]
        /\ scan \subseteq Pids /\ alive \subseteq Pids /\ stray \subseteq Pids
    OBVIOUS
  <2>5. pc \in [Callers -> PCs]
    BY DEF PCs
  <2>6. /\ launchedAt \in [Callers -> 0..MaxPid]
        /\ picked \in [Callers -> Pids \union {NoPid}]
        /\ nextPid \in 1..(MaxPid + 1)
    BY DEF NoPid
  <2> QED
    BY <2>1, <2>2, <2>3, <2>4, <2>5, <2>6, Zenon DEF TypeOK
<1>2. LInv
  BY DEF LInv, AccountIsNamed, Marked, InflightExclusive, LockIsHeld, OnlyKnownPids, PickIsRecent,
         ClaimHasPid, Attributed, YoungIsOwn, PidIsAttributed, Claimed, Holding, Waiting
<1> QED
  BY <1>1, <1>2 DEF IInv

\* What Forget leaves of the owners and the lists.
LEMMA ForgetEffect ==
  ASSUME TypeOK, NEW ps \in SUBSET Pids, Forget(ps)
  PROVE  /\ processOwners' \in [Pids -> Accounts \union {None}]
         /\ userProcesses' \in [Accounts -> SUBSET Pids]
         /\ \A p \in Pids : processOwners'[p] # None => processOwners'[p] = processOwners[p]
<1> USE DEF TypeOK, Forget
<1>1. processOwners' \in [Pids -> Accounts \union {None}]
  OBVIOUS
<1>2. userProcesses' \in [Accounts -> SUBSET Pids]
  OBVIOUS
<1>3. \A p \in Pids : processOwners'[p] # None => processOwners'[p] = processOwners[p]
  OBVIOUS
<1> QED
  BY <1>1, <1>2, <1>3

\* A step that neither moves a thread nor starts anything, and at most ends processes
\* and forgets owners, keeps the invariant.
LEMMA LaunchesUndisturbed ==
  ASSUME IInv, TypeOK',
         pc' = pc, uid' = uid, launchedAt' = launchedAt, picked' = picked,
         inflight' = inflight, attemptLock' = attemptLock, nextPid' = nextPid,
         account' = account, stray' = stray, alive' \subseteq alive,
         \A p \in Pids : processOwners'[p] # None => processOwners'[p] = processOwners[p]
  PROVE  IInv'
<1> USE DEF IInv, LInv
<1>1. AccountIsNamed' /\ Marked' /\ InflightExclusive' /\ LockIsHeld'
  BY DEF AccountIsNamed, Marked, InflightExclusive, LockIsHeld
<1>2. OnlyKnownPids' /\ PickIsRecent' /\ ClaimHasPid'
  BY DEF OnlyKnownPids, PickIsRecent, ClaimHasPid
<1>3. Attributed'
  BY DEF Attributed, YoungIsOwn, PidIsAttributed
<1> QED
  BY <1>1, <1>2, <1>3

\* A thread that returns leaves nothing behind but what others hold.
LEMMA ReturnKeeps ==
  ASSUME IInv, NEW c \in Callers, pc[c] \notin Holding, Return(c),
         \A d \in Callers \ {c} : uid[d] \in inflight /\ pc[d] \in Claimed => uid[d] \in inflight',
         inflight' \subseteq inflight,
         UNCHANGED <<trackerVars, userServer, grace, attemptLock, scanVars, systemVars>>
  PROVE  IInv'
<1> USE DEF IInv, LInv, Return, Goto, trackerVars, scanVars, systemVars
<1>1. TypeOK'
  BY LauncherAssumption DEF TypeOK, PCs, NoPid
<1>2. /\ pc'[c] = "idle"
      /\ \A d \in Callers \ {c} : /\ pc'[d] = pc[d] /\ uid'[d] = uid[d]
                                  /\ launchedAt'[d] = launchedAt[d] /\ picked'[d] = picked[d]
  BY DEF TypeOK
<1>3. AccountIsNamed' /\ Marked' /\ InflightExclusive' /\ LockIsHeld'
  BY <1>2 DEF AccountIsNamed, Marked, InflightExclusive, LockIsHeld, Claimed, Holding
<1>4. OnlyKnownPids' /\ PickIsRecent' /\ ClaimHasPid'
  BY <1>2 DEF OnlyKnownPids, PickIsRecent, ClaimHasPid, Waiting
<1>5. Attributed'
  BY <1>2 DEF Attributed, YoungIsOwn, PidIsAttributed, Waiting, Holding
<1> QED
  BY <1>1, <1>3, <1>4, <1>5

-----------------------------------------------------------------------------
(* start_game_session *)

\* A call names its account, and claims nothing yet.
LEMMA EnterKeeps ==
  ASSUME IInv, NEW c \in Callers, NEW u \in Accounts, NEW s \in BOOLEAN, Enter(c, u, s)
  PROVE  IInv'
<1> USE DEF IInv, LInv, Enter, Goto, trackerVars, lockVars, scanVars, systemVars
<1>1. TypeOK'
  BY DEF TypeOK, PCs
<1>2. /\ pc'[c] = "guard" /\ uid'[c] = u
      /\ \A d \in Callers \ {c} : pc'[d] = pc[d] /\ uid'[d] = uid[d]
  BY DEF TypeOK
<1>3. AccountIsNamed' /\ Marked' /\ InflightExclusive' /\ LockIsHeld'
  BY <1>2 DEF AccountIsNamed, Marked, InflightExclusive, LockIsHeld, Claimed, Holding
<1>4. OnlyKnownPids' /\ PickIsRecent' /\ ClaimHasPid'
  BY <1>2 DEF OnlyKnownPids, PickIsRecent, ClaimHasPid, Waiting
<1>5. Attributed'
  BY <1>2 DEF Attributed, YoungIsOwn, PidIsAttributed, Waiting
<1> QED
  BY <1>1, <1>3, <1>4, <1>5

\* A thread that moves on between two places of the same kind keeps the invariant, if it
\* has the lock where it needs it.
LEMMA MoveKeeps ==
  ASSUME IInv, TypeOK', NEW c \in Callers, NEW l \in PCs, Goto(c, l), pc[c] # "idle",
         l # "append",
         l \in Claimed <=> pc[c] \in Claimed,
         l \in Waiting => pc[c] \in Waiting,
         l \in Holding => attemptLock' = c,
         \A d \in Callers \ {c} : pc[d] \in Holding => attemptLock' = d,
         UNCHANGED <<uid, inflight, nextPid, account, stray>>,
         l \in Waiting => launchedAt'[c] = launchedAt[c],
         \A d \in Callers \ {c} : launchedAt'[d] = launchedAt[d],
         alive' \subseteq alive,
         picked'[c] \in {picked[c], NoPid},
         \A d \in Callers \ {c} : picked'[d] = picked[d],
         \A p \in Pids : processOwners'[p] # None => processOwners'[p] = processOwners[p]
  PROVE  IInv'
<1> USE DEF IInv, LInv, Goto
<1>1. /\ pc'[c] = l
      /\ \A d \in Callers \ {c} : pc'[d] = pc[d]
  BY DEF TypeOK
<1>2. AccountIsNamed' /\ Marked' /\ InflightExclusive' /\ LockIsHeld'
  BY <1>1 DEF AccountIsNamed, Marked, InflightExclusive, LockIsHeld
<1>3. OnlyKnownPids' /\ PickIsRecent' /\ ClaimHasPid'
  BY <1>1 DEF OnlyKnownPids, PickIsRecent, ClaimHasPid
<1>4. YoungIsOwn' /\ PidIsAttributed'
  BY <1>1 DEF Attributed, YoungIsOwn, PidIsAttributed
<1> QED
  BY <1>2, <1>3, <1>4 DEF Attributed

\* The guard and the authentication: a thread goes on or returns.
LEMMA GuardKeeps ==
  ASSUME IInv, NEW c \in Callers, Guard(c) \/ Authenticate(c)
  PROVE  IInv'
<1> USE DEF trackerVars, lockVars, callVars, scanVars, systemVars
<1>0. pc[c] \in {"guard", "auth"} /\ inflight' = inflight /\ attemptLock' = attemptLock
  BY DEF Guard, Authenticate
<1>1. CASE Return(c)
  <2>1. UNCHANGED <<trackerVars, userServer, grace, attemptLock, scanVars, systemVars>>
    BY <1>0 DEF Guard, Authenticate
  <2> QED
    BY <1>0, <1>1, <2>1, ReturnKeeps DEF Holding
<1>2. ASSUME NEW l \in {"auth", "claim"}, Goto(c, l), UNCHANGED callVars PROVE IInv'
  <2>1. UNCHANGED <<trackerVars, userServer, grace, lockVars, callVars, scanVars, systemVars>>
    BY <1>2 DEF Guard, Authenticate
  <2>2. TypeOK'
    BY <1>2, <2>1 DEF IInv, TypeOK, Goto, PCs
  <2>3. l \in PCs /\ l \notin Claimed \union Waiting \union Holding
    BY DEF PCs, Claimed, Waiting, Holding
  <2>4. pc[c] # "idle" /\ pc[c] \notin Claimed \union Waiting
    BY <1>0 DEF Claimed, Waiting
  <2>5. \A d \in Callers \ {c} : pc[d] \in Holding => attemptLock' = d
    BY <1>0 DEF IInv, LInv, LockIsHeld
  <2> QED
    BY <1>2, <2>1, <2>2, <2>3, <2>4, <2>5, MoveKeeps
<1>3. Return(c) \/ \E l \in {"auth", "claim"} : Goto(c, l) /\ UNCHANGED callVars
  BY DEF Guard, Authenticate
<1> QED
  BY <1>1, <1>2, <1>3

\* An account is marked by the one thread that found it unmarked.
LEMMA ClaimKeeps ==
  ASSUME IInv, NEW c \in Callers, Claim(c)
  PROVE  IInv'
<1> USE DEF trackerVars, lockVars, callVars, scanVars, systemVars
<1>1. CASE uid[c] \in inflight
  <2>1. Return(c) /\ inflight' = inflight /\ pc[c] = "claim"
    BY <1>1 DEF Claim
  <2>2. UNCHANGED <<trackerVars, userServer, grace, attemptLock, scanVars, systemVars>>
    BY DEF Claim
  <2> QED
    BY <2>1, <2>2, ReturnKeeps DEF Holding
<1>2. CASE uid[c] \notin inflight
  <2> USE DEF IInv, LInv
  <2>1. /\ pc[c] = "claim" /\ Goto(c, "lock") /\ inflight' = inflight \union {uid[c]}
        /\ UNCHANGED <<trackerVars, userServer, grace, attemptLock, callVars, scanVars, systemVars>>
    BY <1>2 DEF Claim
  <2>2. uid[c] \in Accounts
    BY <2>1 DEF AccountIsNamed
  <2>3. TypeOK'
    BY <2>1, <2>2 DEF TypeOK, Goto, PCs
  <2>4. pc'[c] = "lock" /\ \A d \in Callers \ {c} : pc'[d] = pc[d]
    BY <2>1 DEF TypeOK, Goto
  <2>5. \A d \in Callers \ {c} : pc[d] \in Claimed => uid[d] # uid[c]
    BY <1>2 DEF Marked
  <2>6. AccountIsNamed' /\ Marked' /\ InflightExclusive' /\ LockIsHeld'
    BY <2>1, <2>2, <2>4, <2>5
       DEF AccountIsNamed, Marked, InflightExclusive, LockIsHeld, Holding
  <2>7. OnlyKnownPids' /\ PickIsRecent' /\ ClaimHasPid'
    BY <2>1, <2>4 DEF OnlyKnownPids, PickIsRecent, ClaimHasPid, Waiting
  <2>8. Attributed'
    BY <2>1, <2>4 DEF Attributed, YoungIsOwn, PidIsAttributed, Waiting
  <2> QED
    BY <2>1, <2>3, <2>6, <2>7, <2>8
<1> QED
  BY <1>1, <1>2

\* The lock is taken while nobody is between its acquisition and its release.
LEMMA LockKeeps ==
  ASSUME IInv, NEW c \in Callers, Lock(c)
  PROVE  IInv'
<1> USE DEF trackerVars, lockVars, callVars, scanVars, systemVars
<1>1. /\ pc[c] = "lock" /\ attemptLock = None /\ attemptLock' = c /\ Goto(c, "cleanup")
      /\ UNCHANGED <<trackerVars, userServer, grace, inflight, callVars, scanVars, systemVars>>
  BY DEF Lock
<1>2. TypeOK'
  BY <1>1 DEF IInv, TypeOK, Goto, PCs
<1>3. \A d \in Callers \ {c} : pc[d] \notin Holding
  BY <1>1, LauncherAssumption DEF IInv, LInv, LockIsHeld
<1>4. "cleanup" \in PCs /\ "cleanup" \in Claimed /\ "cleanup" \notin Waiting
  BY DEF PCs, Claimed, Waiting
<1>5. pc[c] # "idle" /\ pc[c] \in Claimed /\ pc[c] \notin Waiting
  BY <1>1 DEF PCs, Claimed, Waiting
<1> QED
  BY <1>1, <1>2, <1>3, <1>4, <1>5, MoveKeeps

\* The old processes of the account are forgotten; those of others keep their owners.
LEMMA CleanupKeeps ==
  ASSUME IInv, NEW c \in Callers, Cleanup(c)
  PROVE  IInv'
<1> USE DEF trackerVars, lockVars, callVars, scanVars, systemVars
<1> DEFINE ps == IF skip[c] THEN {} ELSE userProcesses[uid[c]]
<1>1. pc[c] = "cleanup" /\ Goto(c, "start") /\ Forget(ps) /\ alive' \subseteq alive
  <2>1. PICK survivors \in SUBSET (ps \intersect alive) : alive' = (alive \ ps) \union survivors
    BY DEF Cleanup
  <2> QED
    BY <2>1 DEF Cleanup
<1>2. ps \in SUBSET Pids
  <2>1. uid[c] \in Accounts
    BY <1>1 DEF IInv, LInv, AccountIsNamed
  <2> QED
    BY <2>1 DEF IInv, TypeOK
<1> HIDE DEF ps
<1>3. /\ skip' = [skip EXCEPT ![c] = FALSE]
      /\ UNCHANGED <<userServer, grace, lockVars, uid, launchedAt, picked, handoff, scanVars,
                     nextPid, account, stray>>
  BY DEF Cleanup
<1>4. /\ processOwners' \in [Pids -> Accounts \union {None}]
      /\ userProcesses' \in [Accounts -> SUBSET Pids]
      /\ \A p \in Pids : processOwners'[p] # None => processOwners'[p] = processOwners[p]
  BY <1>1, <1>2, ForgetEffect DEF IInv
<1>5. TypeOK'
  BY <1>1, <1>3, <1>4 DEF IInv, TypeOK, Goto, PCs
<1>6. "start" \in PCs /\ "start" \in Claimed /\ "start" \notin Waiting
  BY DEF PCs, Claimed, Waiting
<1>7. pc[c] # "idle" /\ pc[c] \in Claimed /\ pc[c] \notin Waiting /\ pc[c] \in Holding
  BY <1>1 DEF PCs, Claimed, Waiting, Holding
<1>8. \A d \in Callers : pc[d] \in Holding => attemptLock' = d
  BY <1>3 DEF IInv, LInv, LockIsHeld
<1>9. attemptLock' = c
  BY <1>7, <1>8
<1> QED
  BY <1>1, <1>3, <1>4, <1>5, <1>6, <1>7, <1>8, <1>9, MoveKeeps

\* os.startfile: nobody else waits, and nothing is younger yet.
LEMMA StartKeeps ==
  ASSUME IInv, NEW c \in Callers, Start(c)
  PROVE  IInv'
<1> USE DEF IInv, LInv, trackerVars, lockVars, scanVars, systemVars
<1>1. /\ pc[c] = "start" /\ Goto(c, "await")
      /\ launchedAt' = [launchedAt EXCEPT ![c] = nextPid - 1]
      /\ picked' = [picked EXCEPT ![c] = NoPid]
      /\ handoff' = [handoff EXCEPT ![c] = FALSE]
      /\ UNCHANGED <<trackerVars, userServer, grace, lockVars, uid, skip, scanVars, systemVars>>
  BY DEF Start
<1>2. uid[c] \in Accounts
  BY <1>1 DEF AccountIsNamed
<1>3. TypeOK'
  <2>1. nextPid - 1 \in 0..MaxPid
    BY LauncherAssumption DEF TypeOK
  <2> QED
    BY <1>1, <1>2, <2>1 DEF TypeOK, Goto, PCs, NoPid
<1>4. /\ pc'[c] = "await" /\ launchedAt'[c] = nextPid - 1 /\ picked'[c] = NoPid
      /\ \A d \in Callers \ {c} : /\ pc'[d] = pc[d] /\ launchedAt'[d] = launchedAt[d]
                                  /\ picked'[d] = picked[d]
  BY <1>1 DEF TypeOK, Goto
<1>5. \A d \in Callers : pc[d] \notin Waiting
  BY <1>1 DEF LockIsHeld, Waiting, Holding
<1>6. AccountIsNamed' /\ Marked' /\ InflightExclusive' /\ LockIsHeld'
  BY <1>1, <1>4 DEF AccountIsNamed, Marked, InflightExclusive, LockIsHeld, Claimed, PCs, Holding
<1>7. OnlyKnownPids' /\ PickIsRecent' /\ ClaimHasPid'
  BY <1>1, <1>4 DEF OnlyKnownPids, PickIsRecent, ClaimHasPid
<1>9. YoungIsOwn'
  <2> SUFFICES ASSUME NEW d \in Callers, pc'[d] \in Waiting, NEW p \in Pids \ stray',
                      launchedAt'[d] < p, p < nextPid'
               PROVE  account'[p] = uid'[d]
    BY DEF YoungIsOwn
  <2>1. d = c
    BY <1>4, <1>5
  <2>2. ~(nextPid - 1 < p /\ p < nextPid)
    BY DEF TypeOK, Pids
  <2> QED
    BY <1>1, <1>4, <2>1, <2>2
<1>10. PidIsAttributed'
  BY <1>1 DEF PidIsAttributed, Attributed
<1> QED
  BY <1>3, <1>6, <1>7, <1>9, <1>10 DEF Attributed

\* The candidate is younger than the launch.
LEMMA PickKeeps ==
  ASSUME IInv, NEW c \in Callers, Pick(c)
  PROVE  IInv'
<1> USE DEF IInv, LInv, trackerVars, lockVars, scanVars, systemVars
<1> PICK p \in Candidates(c) : picked' = [picked EXCEPT ![c] = p]
  BY DEF Pick
<1>1. /\ pc[c] = "await" /\ pc' = pc /\ grace' = [grace EXCEPT ![uid[c]] = TRUE]
      /\ UNCHANGED <<trackerVars, userServer, lockVars, uid, skip, launchedAt, handoff,
                     scanVars, systemVars>>
  BY DEF Pick
<1>2. p \in Pids /\ p < nextPid /\ launchedAt[c] < p
  BY DEF Candidates, TypeOK, OnlyKnownPids
<1>3. TypeOK'
  BY <1>1, <1>2 DEF TypeOK
<1>4. AccountIsNamed' /\ Marked' /\ InflightExclusive' /\ LockIsHeld'
  BY <1>1 DEF AccountIsNamed, Marked, InflightExclusive, LockIsHeld
<1>5. OnlyKnownPids' /\ PickIsRecent' /\ ClaimHasPid'
  BY <1>1, <1>2 DEF OnlyKnownPids, PickIsRecent, ClaimHasPid, TypeOK
<1>6. Attributed'
  BY <1>1 DEF Attributed, YoungIsOwn, PidIsAttributed
<1> QED
  BY <1>3, <1>4, <1>5, <1>6

\* A candidate that vanished is no longer watched.
LEMMA DropKeeps ==
  ASSUME IInv, NEW c \in Callers, Drop(c)
  PROVE  IInv'
<1> USE DEF trackerVars, lockVars, scanVars, systemVars
<1>1. /\ pc[c] = "await" /\ pc' = pc /\ picked' = [picked EXCEPT ![c] = NoPid]
      /\ handoff' = [handoff EXCEPT ![c] = TRUE]
      /\ UNCHANGED <<trackerVars, userServer, grace, lockVars, uid, skip, launchedAt,
                     scanVars, systemVars>>
  BY DEF Drop
<1>2. TypeOK' /\ Goto(c, "await")
  BY <1>1 DEF IInv, TypeOK, NoPid, Goto
<1>3. "await" \in PCs /\ "await" \in Waiting
  BY DEF PCs, Waiting
<1>4. picked'[c] = NoPid /\ \A d \in Callers \ {c} : picked'[d] = picked[d]
  BY <1>1 DEF IInv, TypeOK
<1>5. \A d \in Callers : pc[d] \in Holding => attemptLock' = d
  BY <1>1 DEF IInv, LInv, LockIsHeld
<1> QED
  BY <1>1, <1>2, <1>3, <1>4, <1>5, MoveKeeps DEF Waiting, Holding

\* The claim: the candidate is younger than the launch, so it is the account's own.
LEMMA AcceptKeeps ==
  ASSUME IInv, NEW c \in Callers, Accept(c)
  PROVE  IInv'
<1> USE DEF IInv, LInv, trackerVars, lockVars, callVars, scanVars, systemVars
<1> DEFINE p == picked[c]
<1>1. /\ pc[c] = "await" /\ p \in alive
      /\ launchedAt' = [launchedAt EXCEPT ![c] = 0]
      /\ handoff' = [handoff EXCEPT ![c] = FALSE]
      /\ UNCHANGED <<userProcesses, userServer, grace, lockVars, uid, skip, picked, scanVars,
                     systemVars>>
  BY DEF Accept, EndWait
<1>2. p \in Pids /\ p # NoPid /\ uid[c] \in Accounts /\ p < nextPid /\ launchedAt[c] < p
  BY <1>1 DEF TypeOK, Pids, NoPid, AccountIsNamed, PickIsRecent, Waiting
<1>3. PICK l \in {"append", "unlock"} : Goto(c, l)
  BY DEF Accept
<1>4. processOwners' \in {processOwners, [processOwners EXCEPT ![p] = uid[c]]}
  BY DEF Accept
<1>5. TypeOK'
  <2>1. 0 \in 0..MaxPid
    BY LauncherAssumption
  <2> QED
    BY <1>1, <1>2, <1>3, <1>4, <2>1 DEF TypeOK, Goto, PCs
<1>6. pc'[c] = l /\ \A d \in Callers \ {c} : pc'[d] = pc[d] /\ launchedAt'[d] = launchedAt[d]
  BY <1>1, <1>3 DEF TypeOK, Goto
<1>7. /\ l \in Claimed /\ l \notin Waiting /\ l \in Holding
      /\ pc[c] \in Claimed /\ pc[c] \in Waiting /\ pc[c] \in Holding
  BY <1>1 DEF Claimed, PCs, Waiting, Holding
<1>8. \A q \in Pids : processOwners'[q] = processOwners[q] \/ (q = p /\ processOwners'[q] = uid[c])
  BY <1>2, <1>4 DEF TypeOK
<1> HIDE DEF p
<1>9. AccountIsNamed' /\ Marked' /\ InflightExclusive' /\ LockIsHeld'
  BY <1>1, <1>6, <1>7, <1>2 DEF AccountIsNamed, Marked, InflightExclusive, LockIsHeld
<1>10. OnlyKnownPids' /\ PickIsRecent' /\ ClaimHasPid'
  BY <1>1, <1>2, <1>6, <1>7, <1>8 DEF OnlyKnownPids, PickIsRecent, ClaimHasPid, p
<1>11. YoungIsOwn'
  BY <1>1, <1>6, <1>7 DEF Attributed, YoungIsOwn
<1>12. PidIsAttributed'
  <2> SUFFICES ASSUME NEW q \in Pids \ stray, processOwners'[q] # None
               PROVE  processOwners'[q] = account[q]
    BY <1>1 DEF PidIsAttributed
  <2>1. CASE processOwners'[q] = processOwners[q]
    BY <2>1 DEF Attributed, PidIsAttributed
  <2>2. CASE q = p /\ processOwners'[q] = uid[c]
    BY <2>2, <1>2, <1>7 DEF Attributed, YoungIsOwn
  <2> QED
    BY <2>1, <2>2, <1>8
<1> QED
  BY <1>5, <1>9, <1>10, <1>11, <1>12 DEF Attributed

\* The list of the account, the deadline, the server's label: no owner changes.
LEMMA AppendKeeps ==
  ASSUME IInv, NEW c \in Callers, AppendPid(c)
  PROVE  IInv'
<1> USE DEF trackerVars, lockVars, callVars, scanVars, systemVars
<1>1. /\ pc[c] = "append" /\ Goto(c, "unlock")
      /\ userProcesses' = [userProcesses EXCEPT ![uid[c]] = @ \union {picked[c]}]
      /\ UNCHANGED <<processOwners, userServer, grace, lockVars, callVars, scanVars, systemVars>>
  BY DEF AppendPid
<1>2. /\ uid[c] \in Accounts /\ pc[c] \notin Waiting /\ pc[c] \in Holding /\ pc[c] \in Claimed
      /\ pc[c] # "idle"
  BY <1>1 DEF IInv, LInv, AccountIsNamed, Waiting, Holding, Claimed, PCs
<1>3. TypeOK'
  <2>1. pc' \in [Callers -> PCs]
    BY <1>1 DEF IInv, TypeOK, Goto, PCs
  <2>2. userProcesses' \in [Accounts -> SUBSET Pids]
    <3>1. picked[c] \in Pids \/ picked[c] = NoPid
      BY DEF IInv, TypeOK
    <3>2. picked[c] # NoPid
      BY <1>1 DEF IInv, LInv, ClaimHasPid
    <3> QED
      BY <1>1, <1>2, <3>1, <3>2 DEF IInv, TypeOK
  <2> QED
    BY <1>1, <2>1, <2>2 DEF IInv, TypeOK
<1>4. "unlock" \in PCs /\ "unlock" \notin Waiting /\ "unlock" \in Claimed
  BY DEF PCs, Waiting, Claimed
<1>5. \A d \in Callers : pc[d] \in Holding => attemptLock' = d
  BY <1>1 DEF IInv, LInv, LockIsHeld
<1> QED
  BY <1>1, <1>2, <1>3, <1>4, <1>5, MoveKeeps

\* No process in time: the candidate, if there was one, is given up.
LEMMA TimeOutKeeps ==
  ASSUME IInv, NEW c \in Callers, TimeOut(c)
  PROVE  IInv'
<1> USE DEF trackerVars, lockVars, scanVars, systemVars
<1>1. /\ pc[c] = "await" /\ Goto(c, "unlock") /\ picked' = [picked EXCEPT ![c] = NoPid]
      /\ launchedAt' = [launchedAt EXCEPT ![c] = 0]
      /\ handoff' = [handoff EXCEPT ![c] = FALSE]
      /\ UNCHANGED <<trackerVars, userServer, grace, lockVars, uid, skip, scanVars, systemVars>>
  BY DEF TimeOut, EndWait
<1>2. TypeOK'
  <2>1. 0 \in 0..MaxPid
    BY LauncherAssumption
  <2> QED
    BY <1>1, <2>1 DEF IInv, TypeOK, NoPid, Goto, PCs
<1>3. /\ "unlock" \in PCs /\ "unlock" \notin Waiting /\ "unlock" \in Claimed
      /\ pc[c] \in Waiting /\ pc[c] \in Holding /\ pc[c] \in Claimed /\ pc[c] # "idle"
  BY <1>1 DEF PCs, Waiting, Claimed, Holding
<1>4. /\ picked'[c] = NoPid
      /\ \A d \in Callers \ {c} : picked'[d] = picked[d] /\ launchedAt'[d] = launchedAt[d]
  BY <1>1 DEF IInv, TypeOK
<1>5. \A d \in Callers : pc[d] \in Holding => attemptLock' = d
  BY <1>1 DEF IInv, LInv, LockIsHeld
<1> QED
  BY <1>1, <1>2, <1>3, <1>4, <1>5, MoveKeeps

\* The lock is released, and the candidate needed no longer.
LEMMA UnlockKeeps ==
  ASSUME IInv, NEW c \in Callers, Unlock(c)
  PROVE  IInv'
<1> USE DEF trackerVars, lockVars, scanVars, systemVars
<1>1. /\ pc[c] = "unlock" /\ attemptLock' = None /\ picked' = [picked EXCEPT ![c] = NoPid]
      /\ UNCHANGED <<trackerVars, userServer, grace, inflight, uid, skip, launchedAt, handoff,
                     scanVars, systemVars>>
  BY DEF Unlock
<1>2. PICK l \in {"leave", "record"} : Goto(c, l)
  BY DEF Unlock
<1>3. picked'[c] = NoPid /\ \A d \in Callers \ {c} : picked'[d] = picked[d]
  BY <1>1 DEF IInv, TypeOK
<1>4. TypeOK'
  BY <1>1, <1>2 DEF IInv, TypeOK, Goto, PCs, NoPid
<1>5. /\ l \in PCs /\ l \in Claimed /\ l \notin Waiting /\ l \notin Holding
      /\ pc[c] \in Holding /\ pc[c] \in Claimed /\ pc[c] # "idle"
  BY <1>1 DEF PCs, Waiting, Claimed, Holding
<1>6. \A d \in Callers \ {c} : pc[d] \notin Holding
  BY <1>5 DEF IInv, LInv, LockIsHeld
<1> QED
  BY <1>1, <1>2, <1>3, <1>4, <1>5, <1>6, MoveKeeps

\* The server joined is recorded.
LEMMA RecordKeeps ==
  ASSUME IInv, NEW c \in Callers, Record(c)
  PROVE  IInv'
<1> USE DEF trackerVars, lockVars, callVars, scanVars, systemVars
<1>1. /\ pc[c] = "record" /\ Goto(c, "leave")
      /\ userServer' = [userServer EXCEPT ![uid[c]] = Server[uid[c]]]
      /\ UNCHANGED <<trackerVars, grace, lockVars, callVars, scanVars, systemVars>>
  BY DEF Record
<1>2. uid[c] \in Accounts
  BY <1>1 DEF IInv, LInv, AccountIsNamed
<1>3. TypeOK'
  BY <1>1, <1>2, LauncherAssumption DEF IInv, TypeOK, Goto, PCs
<1>4. /\ "leave" \in PCs /\ "leave" \notin Waiting /\ "leave" \notin Holding
      /\ "leave" \in Claimed /\ pc[c] \notin Waiting /\ pc[c] \in Claimed /\ pc[c] # "idle"
  BY <1>1 DEF PCs, Waiting, Claimed, Holding
<1>5. \A d \in Callers : pc[d] \in Holding => attemptLock' = d
  BY <1>1 DEF IInv, LInv, LockIsHeld
<1> QED
  BY <1>1, <1>3, <1>4, <1>5, MoveKeeps

\* The mark of the account is taken away by the one thread that launches it.
LEMMA LeaveKeeps ==
  ASSUME IInv, NEW c \in Callers, Leave(c)
  PROVE  IInv'
<1>1. /\ pc[c] = "leave" /\ Return(c) /\ inflight' = inflight \ {uid[c]}
      /\ UNCHANGED <<trackerVars, userServer, grace, attemptLock, scanVars, systemVars>>
  BY DEF Leave
<1>2. pc[c] \notin Holding /\ pc[c] \in Claimed
  BY <1>1 DEF Holding, Claimed, PCs
<1>3. \A d \in Callers \ {c} : uid[d] \in inflight /\ pc[d] \in Claimed => uid[d] \in inflight'
  BY <1>1, <1>2 DEF IInv, LInv, InflightExclusive
<1> QED
  BY <1>1, <1>2, <1>3, ReturnKeeps

-----------------------------------------------------------------------------
(* The housekeeping and the operating system *)

\* Whatever the housekeeping forgets or kills, no process changes its owner.
LEMMA HousekeepingKeeps ==
  ASSUME IInv, Housekeeping
  PROVE  IInv'
<1> USE DEF IInv, trackerVars, lockVars, callVars, scanVars, systemVars
<1>1. CASE ScanProcesses
  <2>1. TypeOK'
    BY <1>1 DEF ScanProcesses, TypeOK
  <2> QED
    BY <1>1, <2>1, LaunchesUndisturbed DEF ScanProcesses
<1>2. CASE ForgetDead
  <2> DEFINE ps == {p \in Pids : processOwners[p] # None /\ p \notin scan}
  <2>1. Forget(ps) /\ ps \in SUBSET Pids
    BY <1>2 DEF ForgetDead
  <2> HIDE DEF ps
  <2>2. /\ processOwners' \in [Pids -> Accounts \union {None}]
        /\ userProcesses' \in [Accounts -> SUBSET Pids]
        /\ \A p \in Pids : processOwners'[p] # None => processOwners'[p] = processOwners[p]
    BY <2>1, ForgetEffect
  <2>3. UNCHANGED <<grace, lockVars, pc, callVars, systemVars>> /\ scanning' = FALSE /\ scan' = {}
    BY <1>2 DEF ForgetDead
  <2>4. userServer' \in [Accounts -> Servers \union {Disconnected, None}]
    BY <1>2 DEF ForgetDead, TypeOK
  <2>5. TypeOK'
    BY <2>2, <2>3, <2>4 DEF TypeOK
  <2> QED
    BY <2>2, <2>3, <2>5, LaunchesUndisturbed
<1>3. CASE SweepOrphans
  <2>1. /\ alive' \subseteq alive
        /\ UNCHANGED <<trackerVars, userServer, grace, lockVars, pc, callVars, scanVars,
                       nextPid, account, stray>>
    BY <1>3 DEF SweepOrphans
  <2>2. TypeOK'
    BY <2>1 DEF TypeOK
  <2> QED
    BY <2>1, <2>2, LaunchesUndisturbed
<1>4. ASSUME NEW u \in Accounts, KillUser(u) PROVE IInv'
  <2>1. Forget(userProcesses[u]) /\ userProcesses[u] \in SUBSET Pids
    BY <1>4 DEF KillUser, TypeOK
  <2>2. /\ processOwners' \in [Pids -> Accounts \union {None}]
        /\ userProcesses' \in [Accounts -> SUBSET Pids]
        /\ \A p \in Pids : processOwners'[p] # None => processOwners'[p] = processOwners[p]
    BY <2>1, ForgetEffect
  <2>3. /\ alive' \subseteq alive
        /\ UNCHANGED <<grace, lockVars, pc, callVars, scanVars, nextPid, account, stray>>
    BY <1>4 DEF KillUser
  <2>4. userServer' \in [Accounts -> Servers \union {Disconnected, None}]
    BY <1>4 DEF KillUser, TypeOK
  <2>5. TypeOK'
    BY <2>2, <2>3, <2>4 DEF TypeOK
  <2> QED
    BY <2>2, <2>3, <2>5, LaunchesUndisturbed
<1>5. ASSUME NEW u \in Accounts, EnforceOnePerServer(u) PROVE IInv'
  <2>1. PICK p \in userProcesses[u] \intersect alive :
          Forget({p}) /\ (alive' = alive \ {p} \/ UNCHANGED alive)
    BY <1>5 DEF EnforceOnePerServer
  <2>2. {p} \in SUBSET Pids
    BY <2>1 DEF TypeOK
  <2>3. /\ processOwners' \in [Pids -> Accounts \union {None}]
        /\ userProcesses' \in [Accounts -> SUBSET Pids]
        /\ \A q \in Pids : processOwners'[q] # None => processOwners'[q] = processOwners[q]
    BY <2>1, <2>2, ForgetEffect
  <2>4. /\ alive' \subseteq alive
        /\ UNCHANGED <<userServer, grace, lockVars, pc, callVars, scanVars, nextPid, account, stray>>
    BY <1>5, <2>1 DEF EnforceOnePerServer
  <2>5. TypeOK'
    BY <2>3, <2>4 DEF TypeOK
  <2> QED
    BY <2>3, <2>4, <2>5, LaunchesUndisturbed
<1>6. ASSUME NEW u \in Accounts, RestoreLabel(u) PROVE IInv'
  <2>1. TypeOK'
    BY <1>6, LauncherAssumption DEF RestoreLabel, TypeOK
  <2> QED
    BY <1>6, <2>1, LaunchesUndisturbed DEF RestoreLabel
<1> QED
  BY <1>1, <1>2, <1>3, <1>4, <1>5, <1>6 DEF Housekeeping

\* A new process runs the account of the one launch that is under way.
LEMMA ProcessAppearsKeeps ==
  ASSUME IInv, NEW u \in Accounts, ProcessAppears(u)
  PROVE  IInv'
<1> USE DEF IInv, LInv, trackerVars, lockVars, callVars, scanVars
<1>1. /\ nextPid \in Pids /\ nextPid' = nextPid + 1
      /\ stray' = IF OnlyOthersWait(u) THEN stray \union {nextPid} ELSE stray
      /\ alive' = alive \union {nextPid}
      /\ account' = [account EXCEPT ![nextPid] = u]
      /\ UNCHANGED <<trackerVars, userServer, grace, lockVars, pc, callVars, scanVars>>
  BY DEF ProcessAppears
<1>2. TypeOK'
  BY <1>1, LauncherAssumption DEF TypeOK, Pids
<1>3. AccountIsNamed' /\ Marked' /\ InflightExclusive' /\ LockIsHeld'
  BY <1>1 DEF AccountIsNamed, Marked, InflightExclusive, LockIsHeld
<1>4. OnlyKnownPids' /\ PickIsRecent' /\ ClaimHasPid'
  BY <1>1 DEF OnlyKnownPids, PickIsRecent, ClaimHasPid, TypeOK, Pids, NoPid
<1>6. YoungIsOwn'
  <2> SUFFICES ASSUME NEW c \in Callers, pc[c] \in Waiting, NEW p \in Pids \ stray',
                      launchedAt[c] < p, p < nextPid + 1
               PROVE  account'[p] = uid[c]
    BY <1>1 DEF YoungIsOwn
  <2>1. p \notin stray /\ YoungIsOwn
    BY <1>1 DEF Attributed
  <2>2. ASSUME p = nextPid PROVE uid[c] = u
    <3>1. ~OnlyOthersWait(u)
      BY <1>1, <2>2
    <3>2. PICK d \in Callers : pc[d] \in Waiting /\ uid[d] = u
      BY <3>1 DEF OnlyOthersWait, Waiting
    <3>3. d = c
      BY <3>2 DEF LockIsHeld, Waiting, Holding
    <3> QED
      BY <3>2, <3>3
  <2>3. CASE p = nextPid
    BY <1>1, <2>2, <2>3 DEF TypeOK
  <2>4. CASE p # nextPid
    <3>1. p < nextPid
      BY <1>1, <2>4 DEF Pids
    <3> QED
      BY <1>1, <2>1, <2>4, <3>1 DEF YoungIsOwn, TypeOK
  <2> QED
    BY <2>3, <2>4
<1>7. PidIsAttributed'
  <2>1. processOwners[nextPid] = None
    BY <1>1 DEF OnlyKnownPids, TypeOK, Pids
  <2> QED
    BY <1>1, <2>1 DEF Attributed, PidIsAttributed, TypeOK
<1> QED
  BY <1>2, <1>3, <1>4, <1>6, <1>7 DEF Attributed

\* A process exits, or the grace period of an account ends.
LEMMA SystemKeeps ==
  ASSUME IInv, System
  PROVE  IInv'
<1> USE DEF trackerVars, lockVars, callVars, scanVars, systemVars
<1>1. ASSUME NEW u \in Accounts, GraceExpires(u) PROVE IInv'
  <2>1. TypeOK'
    BY <1>1 DEF GraceExpires, IInv, TypeOK
  <2> QED
    BY <1>1, <2>1, LaunchesUndisturbed DEF GraceExpires
<1>2. ASSUME NEW p \in Pids, ProcessExits(p) PROVE IInv'
  <2>1. TypeOK'
    BY <1>2 DEF ProcessExits, IInv, TypeOK
  <2>2. alive' \subseteq alive
    BY <1>2 DEF ProcessExits
  <2> QED
    BY <1>2, <2>1, <2>2, LaunchesUndisturbed DEF ProcessExits
<1> QED
  BY <1>1, <1>2, ProcessAppearsKeeps DEF System

\* Every step keeps the invariant.
LEMMA StepInvariant == IInv /\ [Next]_vars => IInv'
<1> SUFFICES ASSUME IInv, [Next]_vars PROVE IInv'
  OBVIOUS
<1>1. CASE UNCHANGED vars
  <2>1. TypeOK'
    BY <1>1 DEF vars, IInv, TypeOK
  <2> QED
    BY <1>1, <2>1, LaunchesUndisturbed DEF vars
<1>2. ASSUME NEW c \in Callers, Launch(c) PROVE IInv'
  BY <1>2, GuardKeeps, ClaimKeeps, LockKeeps, CleanupKeeps, StartKeeps, PickKeeps, DropKeeps,
     AcceptKeeps, AppendKeeps, TimeOutKeeps, UnlockKeeps, RecordKeeps, LeaveKeeps DEF Launch
<1>3. ASSUME NEW c \in Callers, NEW u \in Accounts, NEW s \in BOOLEAN, Enter(c, u, s) PROVE IInv'
  BY <1>3, EnterKeeps
<1> QED
  BY <1>1, <1>2, <1>3, HousekeepingKeeps, SystemKeeps DEF Next

-----------------------------------------------------------------------------
(* The theorems *)

\* The inductive invariant holds in every reachable state.
THEOREM Invariance == Spec => []IInv
BY InitInvariant, StepInvariant, PTL DEF Spec

\* Type correctness: a claimed candidate is a process, and launch stamps are pids.
THEOREM TypeCorrect == Spec => []TypeOK
<1>1. IInv => TypeOK
  BY DEF IInv
<1> QED
  BY <1>1, Invariance, PTL

\* Two threads never launch the same account at the same time: not even when both passed
\* the first test of start_game_session before either of them marked the account.
THEOREM LaunchedOnce == Spec => []InflightExclusive
<1>1. IInv => InflightExclusive
  BY DEF IInv, LInv
<1> QED
  BY <1>1, Invariance, PTL

\* A process that appears while the launch of its own account waits for it, or while no
\* launch waits, is never attributed to another account, whichever threads launch, time
\* out and give up, and whatever the worker kills, forgets and sweeps meanwhile: only the
\* strays of PidIsAttributed can be.
THEOREM Attribution == Spec => []PidIsAttributed
<1>1. IInv => PidIsAttributed
  BY DEF IInv, LInv, Attributed
<1> QED
  BY <1>1, Invariance, PTL
=============================================================================
