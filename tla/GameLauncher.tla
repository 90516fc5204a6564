---------------------------- MODULE GameLauncher ----------------------------
(***************************************************************************)
(* Launching one account: GameLauncher.start_game_session, the process     *)
(* tracker and the housekeeping of src/main.py, with the threads that call *)
(* them.  The ramp thread and the worker thread may be inside              *)
(* start_game_session at the same time; the worker also sweeps the process *)
(* table while the ramp launches.                                          *)
(*                                                                         *)
(* A thread is between two actions wherever the code blocks (the network,  *)
(* a lock, the operating system) or writes shared state that another       *)
(* thread reads.  Processes are numbered in the order of their creation,   *)
(* so "created after the launch" is a comparison of numbers.  Time-outs    *)
(* may strike at any moment; the one place where the code relies on a      *)
(* duration is the constant-free guard of Accept.                          *)
(***************************************************************************)
EXTENDS Integers, FiniteSets

CONSTANTS
    Callers,        \* threads that launch
    Worker,         \* the one that also does the housekeeping
    Accounts,
    Servers,        \* private servers
    Server,         \* the server an account is configured for
    MaxPid,         \* bound: processes ever created
    Disconnected,   \* the label "DISCONNECTED"
    None

ASSUME LauncherAssumption ==
    /\ Worker \in Callers
    /\ Server \in [Accounts -> Servers]
    /\ MaxPid \in Nat
    /\ Disconnected \notin Servers /\ Disconnected # None
    /\ None \notin Callers \union Accounts \union Servers

Pids == 1..MaxPid
NoPid == 0

VARIABLES
    processOwners,  \* tracker.process_owners: pid -> account
    userProcesses,  \* tracker.user_processes: account -> pids
    userServer,     \* tracker.user_server: the label of the server joined
    grace,          \* the account is inside pid_grace_until
    inflight,       \* GameLauncher._global_launch_inflight
    attemptLock,    \* the holder of _global_launch_attempt_lock
    pc, uid, skip,  \* per thread: label, account, skip_cleanup
    launchedAt,     \* the pid_launch_ts of a thread, as the last pid created before
    picked,         \* the candidate await_new_process watches
    handoff,        \* the first candidate vanished: the next is taken at once
    scanning,       \* the worker is inside cleanup_dead_processes
    scan,           \* ... and has seen these processes (active_pids)
    \* the operating system
    nextPid,        \* the number of the next process
    alive,          \* running Roblox processes
    account,        \* the account a process really runs
    \* history, read by a property only
    stray           \* processes that appeared while other launches than their own waited

vars == <<processOwners, userProcesses, userServer, grace, inflight, attemptLock,
          pc, uid, skip, launchedAt, picked, handoff, scanning, scan, nextPid, alive,
          account, stray>>

trackerVars == <<processOwners, userProcesses>>
lockVars == <<inflight, attemptLock>>
callVars == <<uid, skip, launchedAt, picked, handoff>>
scanVars == <<scanning, scan>>
systemVars == <<nextPid, alive, account, stray>>

Init ==
    /\ processOwners = [p \in Pids |-> None]
    /\ userProcesses = [u \in Accounts |-> {}]
    /\ userServer = [u \in Accounts |-> None]
    /\ grace = [u \in Accounts |-> FALSE]
    /\ inflight = {}
    /\ attemptLock = None
    /\ pc = [c \in Callers |-> "idle"]
    /\ uid = [c \in Callers |-> None]
    /\ skip = [c \in Callers |-> FALSE]
    /\ launchedAt = [c \in Callers |-> 0]
    /\ picked = [c \in Callers |-> NoPid]
    /\ handoff = [c \in Callers |-> FALSE]
    /\ scanning = FALSE
    /\ scan = {}
    /\ nextPid = 1
    /\ alive = {}
    /\ account = [p \in Pids |-> None]
    /\ stray = {}

-----------------------------------------------------------------------------
(* Helpers *)

Goto(c, l) == pc' = [pc EXCEPT ![c] = l]

\* start_game_session returns to thread c: its locals are gone.
Return(c) ==
    /\ Goto(c, "idle")
    /\ uid' = [uid EXCEPT ![c] = None]
    /\ skip' = [skip EXCEPT ![c] = FALSE]
    /\ launchedAt' = [launchedAt EXCEPT ![c] = 0]
    /\ picked' = [picked EXCEPT ![c] = NoPid]
    /\ handoff' = [handoff EXCEPT ![c] = FALSE]

\* Another account's label says it is on the server.
Occupied(u) == \E v \in Accounts \ {u} : userServer[v] = Server[u]

\* Unowned processes created after the launch of thread c.
Candidates(c) ==
    {p \in alive : p > launchedAt[c] /\ processOwners[p] = None}

\* _cleanup_tracker: the pid leaves the list of its owner, and the owners.
Forget(ps) ==
    /\ userProcesses' = [u \in Accounts |->
                            userProcesses[u] \ {p \in ps : processOwners[p] = u}]
    /\ processOwners' = [p \in Pids |-> IF p \in ps THEN None ELSE processOwners[p]]

-----------------------------------------------------------------------------
(* start_game_session *)

\* A call, turned down at once while the account is being launched.  The ramp always
\* skips the cleanup, the worker does so for manual launches.
Enter(c, u, s) ==
    /\ pc[c] = "idle"
    /\ IF c = Worker THEN ~scanning ELSE s
    /\ u \notin inflight
    /\ uid' = [uid EXCEPT ![c] = u]
    /\ skip' = [skip EXCEPT ![c] = s]
    /\ Goto(c, "guard")
    /\ UNCHANGED <<trackerVars, userServer, grace, lockVars, launchedAt, picked, handoff, scanVars, systemVars>>

\* The one-per-server guard.
Guard(c) ==
    /\ pc[c] = "guard"
    /\ IF Occupied(uid[c]) THEN Return(c) ELSE Goto(c, "auth") /\ UNCHANGED callVars
    /\ UNCHANGED <<trackerVars, userServer, grace, lockVars, scanVars, systemVars>>

\* The authentication ticket is granted or refused.
Authenticate(c) ==
    /\ pc[c] = "auth"
    /\ \/ Return(c)
       \/ Goto(c, "claim") /\ UNCHANGED callVars
    /\ UNCHANGED <<trackerVars, userServer, grace, lockVars, scanVars, systemVars>>

\* MUTANT of Claim: the second test of the mark is missing.
ClaimWithoutTest(c) ==
    /\ pc[c] = "claim"
    /\ Goto(c, "lock")
    /\ inflight' = inflight \union {uid[c]}
    /\ UNCHANGED <<trackerVars, userServer, grace, attemptLock, callVars, scanVars, systemVars>>

\* The account is marked as being launched, unless another thread was faster.
Claim(c) ==
    /\ pc[c] = "claim"
    /\ IF uid[c] \in inflight
       THEN Return(c) /\ UNCHANGED inflight
       ELSE /\ Goto(c, "lock")
            /\ inflight' = inflight \union {uid[c]}
            /\ UNCHANGED callVars
    /\ UNCHANGED <<trackerVars, userServer, grace, attemptLock, scanVars, systemVars>>

\* MUTANT of Lock: attempts of different threads overlap.
LockIsOpen(c) ==
    /\ pc[c] = "lock"
    /\ attemptLock' = c
    /\ Goto(c, "cleanup")
    /\ UNCHANGED <<trackerVars, userServer, grace, inflight, callVars, scanVars, systemVars>>

\* One attempt at a time.
Lock(c) ==
    /\ pc[c] = "lock"
    /\ attemptLock = None
    /\ attemptLock' = c
    /\ Goto(c, "cleanup")
    /\ UNCHANGED <<trackerVars, userServer, grace, inflight, callVars, scanVars, systemVars>>

\* Unless told to skip it, the account's old processes are terminated.
Cleanup(c) ==
    /\ pc[c] = "cleanup"
    /\ LET ps == IF skip[c] THEN {} ELSE userProcesses[uid[c]] IN
       /\ Forget(ps)
       /\ \E survivors \in SUBSET (ps \intersect alive) :
            alive' = (alive \ ps) \union survivors
    /\ Goto(c, "start")
    /\ skip' = [skip EXCEPT ![c] = FALSE]
    /\ UNCHANGED <<userServer, grace, lockVars, uid, launchedAt, picked, handoff, scanVars,
                   nextPid, account, stray>>

\* os.startfile: only processes created from now on are this launch's.
Start(c) ==
    /\ pc[c] = "start"
    /\ launchedAt' = [launchedAt EXCEPT ![c] = nextPid - 1]
    /\ picked' = [picked EXCEPT ![c] = NoPid]
    /\ handoff' = [handoff EXCEPT ![c] = FALSE]
    /\ Goto(c, "await")
    /\ UNCHANGED <<trackerVars, userServer, grace, lockVars, uid, skip, scanVars, systemVars>>

\* await_new_process watches the newest candidate; a newer one takes its place.
Pick(c) ==
    /\ pc[c] = "await"
    /\ \E p \in Candidates(c) :
        /\ \A q \in Candidates(c) : q <= p
        /\ p > picked[c]
        /\ picked' = [picked EXCEPT ![c] = p]
    /\ grace' = [grace EXCEPT ![uid[c]] = TRUE]
    /\ UNCHANGED <<trackerVars, userServer, lockVars, pc, uid, skip, launchedAt, handoff, scanVars, systemVars>>

\* The candidate vanished: the wait is cut short and the next one taken at once.
Drop(c) ==
    /\ pc[c] = "await"
    /\ picked[c] # NoPid /\ picked[c] \notin alive
    /\ picked' = [picked EXCEPT ![c] = NoPid]
    /\ handoff' = [handoff EXCEPT ![c] = TRUE]
    /\ UNCHANGED <<trackerVars, userServer, grace, lockVars, pc, uid, skip, launchedAt, scanVars, systemVars>>

\* await_new_process returns: its locals are gone.
EndWait(c) ==
    /\ launchedAt' = [launchedAt EXCEPT ![c] = 0]
    /\ handoff' = [handoff EXCEPT ![c] = FALSE]

\* A candidate that stayed alive is claimed: first as an owned process ...  A scan of
\* the process table is shorter than the 3 seconds a candidate must survive, so that
\* a scan still running has seen it, except where the code does not wait.
Accept(c) ==
    /\ pc[c] = "await"
    /\ picked[c] \in alive
    /\ handoff[c] \/ ~scanning \/ picked[c] \in scan
    /\ IF processOwners[picked[c]] = None
       THEN /\ processOwners' = [processOwners EXCEPT ![picked[c]] = uid[c]]
            /\ Goto(c, "append")
       ELSE /\ UNCHANGED processOwners
            /\ Goto(c, "unlock")
    /\ EndWait(c)
    /\ UNCHANGED <<userProcesses, userServer, grace, lockVars, uid, skip, picked, scanVars,
                   systemVars>>

\* ... then in the list of its account.
AppendPid(c) ==
    /\ pc[c] = "append"
    /\ userProcesses' = [userProcesses EXCEPT ![uid[c]] = @ \union {picked[c]}]
    /\ Goto(c, "unlock")
    /\ UNCHANGED <<processOwners, userServer, grace, lockVars, callVars, scanVars, systemVars>>

\* MUTANT of TimeOut: the deadline starts over.
TimeOutRestarts(c) ==
    /\ pc[c] = "await"
    /\ picked' = [picked EXCEPT ![c] = NoPid]
    /\ UNCHANGED <<trackerVars, userServer, grace, lockVars, pc, uid, skip, launchedAt,
                   handoff, scanVars, systemVars>>

\* No process was found in time.
TimeOut(c) ==
    /\ pc[c] = "await"
    /\ picked' = [picked EXCEPT ![c] = NoPid]
    /\ Goto(c, "unlock")
    /\ EndWait(c)
    /\ UNCHANGED <<trackerVars, userServer, grace, lockVars, uid, skip, scanVars, systemVars>>

\* The attempt lock is released, with a process or after the time-out.
Unlock(c) ==
    /\ pc[c] = "unlock"
    /\ attemptLock' = None
    /\ Goto(c, IF picked[c] = NoPid THEN "leave" ELSE "record")
    /\ picked' = [picked EXCEPT ![c] = NoPid]
    /\ UNCHANGED <<trackerVars, userServer, grace, inflight, uid, skip, launchedAt, handoff,
                   scanVars, systemVars>>

\* The server joined is recorded.
Record(c) ==
    /\ pc[c] = "record"
    /\ userServer' = [userServer EXCEPT ![uid[c]] = Server[uid[c]]]
    /\ Goto(c, "leave")
    /\ UNCHANGED <<trackerVars, grace, lockVars, callVars, scanVars, systemVars>>

\* The finally clause: the account is no longer being launched.
Leave(c) ==
    /\ pc[c] = "leave"
    /\ inflight' = inflight \ {uid[c]}
    /\ Return(c)
    /\ UNCHANGED <<trackerVars, userServer, grace, attemptLock, scanVars, systemVars>>

Launch(c) ==
    \/ Guard(c) \/ Authenticate(c) \/ Claim(c) \/ Lock(c) \/ Cleanup(c) \/ Start(c)
    \/ Pick(c) \/ Drop(c) \/ Accept(c) \/ AppendPid(c) \/ TimeOut(c) \/ Unlock(c)
    \/ Record(c) \/ Leave(c)

-----------------------------------------------------------------------------
(* The worker's housekeeping *)

WorkerFree == pc[Worker] = "idle" /\ ~scanning

\* cleanup_dead_processes reads the process table ...
ScanProcesses ==
    /\ WorkerFree
    /\ scanning' = TRUE
    /\ scan' = alive
    /\ UNCHANGED <<trackerVars, userServer, grace, lockVars, pc, callVars, systemVars>>

\* ... and forgets every owned process that was not in it; an account left without
\* processes, and outside its grace period, is disconnected.
ForgetDead ==
    /\ scanning
    /\ Forget({p \in Pids : processOwners[p] # None /\ p \notin scan})
    /\ userServer' = [u \in Accounts |->
                        IF userProcesses'[u] = {} /\ ~grace[u] THEN Disconnected
                        ELSE userServer[u]]
    /\ scanning' = FALSE
    /\ scan' = {}
    /\ UNCHANGED <<grace, lockVars, pc, callVars, systemVars>>

\* eliminate_orphaned_processes kills processes nobody owns, once the ramp is over;
\* very new ones are spared.
SweepOrphans ==
    /\ WorkerFree
    /\ \A c \in Callers : pc[c] = "idle"
    /\ \E ps \in SUBSET {p \in alive : processOwners[p] = None} :
        /\ ps # {}
        /\ alive' = alive \ ps
    /\ UNCHANGED <<trackerVars, userServer, grace, lockVars, pc, callVars, scanVars,
                   nextPid, account, stray>>

\* kill_user_processes: the label stays.  The watchdog of the heartbeat takes the
\* label away as well.
KillUser(u) ==
    /\ WorkerFree
    /\ userProcesses[u] # {}
    /\ Forget(userProcesses[u])
    /\ \E survivors \in SUBSET (userProcesses[u] \intersect alive) :
        alive' = (alive \ userProcesses[u]) \union survivors
    /\ \E label \in {userServer[u], None} : userServer' = [userServer EXCEPT ![u] = label]
    /\ UNCHANGED <<grace, lockVars, pc, callVars, scanVars, nextPid, account, stray>>

\* _enforce_one_per_server: of the accounts labelled with one server, all but one lose
\* a live process.  Which one is kept (pool, then age) and the grace after a launch are
\* abstracted; of two processes the loop kills only one, for it removes from the list
\* it walks.
EnforceOnePerServer(u) ==
    /\ WorkerFree
    /\ userServer[u] \in Servers
    /\ \E v \in Accounts \ {u} : userServer[v] = userServer[u]
    /\ \E p \in userProcesses[u] \intersect alive :
        /\ Forget({p})
        /\ alive' = alive \ {p} \/ UNCHANGED alive
    /\ UNCHANGED <<userServer, grace, lockVars, pc, callVars, scanVars, nextPid, account, stray>>

\* _restore_live_user_server_label: an account with a live process gets its label back.
RestoreLabel(u) ==
    /\ WorkerFree
    /\ userProcesses[u] \intersect alive # {}
    /\ userServer[u] \in {Disconnected, None}
    /\ userServer' = [userServer EXCEPT ![u] = Server[u]]
    /\ UNCHANGED <<trackerVars, grace, lockVars, pc, callVars, scanVars, systemVars>>

Housekeeping ==
    \/ ScanProcesses \/ ForgetDead \/ SweepOrphans
    \/ \E u \in Accounts : KillUser(u) \/ EnforceOnePerServer(u) \/ RestoreLabel(u)

-----------------------------------------------------------------------------
(* The operating system *)

\* Only launches of other accounts wait for their process.
OnlyOthersWait(u) ==
    /\ \E c \in Callers : pc[c] = "await"
    /\ \A c \in Callers : pc[c] = "await" => uid[c] # u

\* A process of an account appears at any time: early or late in its launch, after the
\* launch timed out, as the successor of a process that was accepted, or opened by hand.
ProcessAppears(u) ==
    /\ nextPid \in Pids
    /\ stray' = IF OnlyOthersWait(u) THEN stray \union {nextPid} ELSE stray
    /\ nextPid' = nextPid + 1
    /\ alive' = alive \union {nextPid}
    /\ account' = [account EXCEPT ![nextPid] = u]
    /\ UNCHANGED <<trackerVars, userServer, grace, lockVars, pc, callVars, scanVars>>

ProcessExits(p) ==
    /\ p \in alive
    /\ alive' = alive \ {p}
    /\ UNCHANGED <<trackerVars, userServer, grace, lockVars, pc, callVars, scanVars,
                   nextPid, account, stray>>

GraceExpires(u) ==
    /\ grace[u]
    /\ grace' = [grace EXCEPT ![u] = FALSE]
    /\ UNCHANGED <<trackerVars, userServer, lockVars, pc, callVars, scanVars, systemVars>>

System ==
    \/ \E u \in Accounts : ProcessAppears(u) \/ GraceExpires(u)
    \/ \E p \in Pids : ProcessExits(p)

Next ==
    \/ \E c \in Callers : Launch(c) \/ \E u \in Accounts, s \in BOOLEAN : Enter(c, u, s)
    \/ Housekeeping
    \/ System

Spec == Init /\ [][Next]_vars

\* Every wait of start_game_session has a time-out, and the ramp gets the attempt lock it
\* waits for: the worker does network requests before it can want it again.
Fairness ==
    /\ \A c \in Callers : WF_vars(Launch(c))
    /\ \A c \in Callers \ {Worker} : SF_vars(Lock(c))
FairSpec == Spec /\ Fairness

-----------------------------------------------------------------------------
(* Properties *)

PCs == {"idle", "guard", "auth", "claim", "lock", "cleanup", "start", "await",
        "append", "unlock", "record", "leave"}

\* The variables have their types.
TypeOK ==
    /\ processOwners \in [Pids -> Accounts \union {None}]
    /\ userProcesses \in [Accounts -> SUBSET Pids]
    /\ userServer \in [Accounts -> Servers \union {Disconnected, None}]
    /\ grace \in [Accounts -> BOOLEAN]
    /\ inflight \subseteq Accounts
    /\ attemptLock \in Callers \union {None}
    /\ pc \in [Callers -> PCs]
    /\ uid \in [Callers -> Accounts \union {None}]
    /\ skip \in [Callers -> BOOLEAN]
    /\ launchedAt \in [Callers -> 0..MaxPid]
    /\ picked \in [Callers -> Pids \union {NoPid}]
    /\ handoff \in [Callers -> BOOLEAN]
    /\ scanning \in BOOLEAN /\ scan \subseteq Pids
    /\ nextPid \in 1..(MaxPid + 1)
    /\ alive \subseteq Pids
    /\ account \in [Pids -> Accounts \union {None}]
    /\ stray \subseteq Pids

\* Where a thread has marked its account as being launched.
Claimed == PCs \ {"idle", "guard", "auth", "claim"}

\* Two threads never launch the same account at the same time: not even when both
\* passed the first test before either of them marked the account.
InflightExclusive ==
    \A c, d \in Callers : c # d /\ pc[c] \in Claimed /\ pc[d] \in Claimed => uid[c] # uid[d]

\* A process that appears while the launch of its own account waits for it, or while
\* no launch waits, is never attributed to another account, whichever threads launch,
\* time out, kill and sweep, and however many processes a launch goes through.  What
\* appears later than that, while the launch of another account waits, can be taken by
\* that launch (await_new_process knows a process by its age alone): such strays, the
\* late process of a launch that timed out and the successor of one that was accepted,
\* are the one exception.
PidIsAttributed ==
    \A p \in Pids \ stray : processOwners[p] # None => processOwners[p] = account[p]

\* A call of start_game_session by the ramp returns, although the worker kills, sweeps
\* and launches meanwhile (await_new_process, _global_launch_attempt_lock).
CallReturns == \A c \in Callers \ {Worker} : pc[c] # "idle" ~> pc[c] = "idle"

=============================================================================
