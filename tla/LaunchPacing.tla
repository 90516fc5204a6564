---------------------------- MODULE LaunchPacing ----------------------------
(***************************************************************************)
(* When an account may be launched: the launch slot, the log gate, the     *)
(* action queue and the relaunch scheduler of WorkerThread (src/gui.py).   *)
(*                                                                         *)
(* Two threads launch accounts.  The ramp thread launches every account    *)
(* once after a start; the worker thread runs the actions the window put   *)
(* in the queue (manual launches) and, once the ramp is over, the relaunch *)
(* scheduler.  Both are paced by the time of the last launch and, in       *)
(* wait-for-log mode, by a gate that holds further launches until the      *)
(* account launched last shows up in the Roblox logs.                      *)
(*                                                                         *)
(* One call of start_game_session is an interval between two actions, with *)
(* either outcome; module GameLauncher models what happens inside it.      *)
(* Clocks count ticks since an event and stop at Horizon, past which every *)
(* comparison of the code has the same result.  The spawn grace and the    *)
(* retry back-off of an account run out at an arbitrary moment.  The gate  *)
(* is read and cleared in one step.                                        *)
(***************************************************************************)
EXTENDS Integers, FiniteSets, Sequences

CONSTANTS
    Accounts,
    InitialDelay,   \* initial_delay: seconds between launches of the ramp
    LaunchDelay,    \* launch_delay: seconds between launches afterwards
    MaxBlock,       \* launch_gate_max_block: the failsafe of the gate
    WaitForLog,     \* launch_wait_for_log_mode
    MaxActions,     \* actions one drain of the queue may take (8)
    MaxRequests,    \* bound: manual launches the window asks for
    None

Horizon == IF InitialDelay > LaunchDelay
           THEN IF InitialDelay > MaxBlock THEN InitialDelay ELSE MaxBlock
           ELSE IF LaunchDelay > MaxBlock THEN LaunchDelay ELSE MaxBlock

ASSUME PacingAssumption ==
    /\ IsFiniteSet(Accounts) /\ Accounts # {}
    /\ InitialDelay \in Nat /\ LaunchDelay \in Nat
    /\ MaxBlock \in Nat \ {0}
    /\ WaitForLog \in BOOLEAN
    /\ MaxActions \in Nat \ {0}
    /\ MaxRequests \in Nat
    /\ None \notin Accounts

VARIABLES
    running,        \* self.running, and not _stop_event
    boot,           \* self._boot_phase
    sinceLaunch,    \* ticks since _last_recorded_launch_at()
    gate,           \* the _launch_gate_* fields
    instances,      \* live Roblox processes of an account
    flagged,        \* bad, cap or disabled
    needs,          \* requires_restart
    resting,        \* in the spawn grace after last_launch, or before _skip_until_by_user
    queue,          \* self._action_queue: accounts to launch by hand
    deferred,       \* the deferred list of _drain_action_queue
    toDrain,        \* actions one drain may still take
    submitted,      \* manual launches asked for so far
    tried,          \* candidates the scheduler has put off in this pass
    rampTodo,       \* accounts the ramp has still to look at
    pc,             \* where the ramp and the worker are
    job,            \* the account each of the two is launching
    path,           \* the worker's launch is "manual" or "scheduled"
    runTime,        \* ticks since each thread called start_game_session
    \* history, read by properties only
    sinceSuccess,   \* ticks since a launch last succeeded
    attempted,      \* manual launches that were started
    dropped,        \* manual launches thrown away without an attempt
    overtaken       \* the slot the worker tested was used up before its manual launch began

vars == <<running, boot, sinceLaunch, gate, instances, flagged, needs, resting,
          queue, deferred, toDrain, submitted, tried, rampTodo, pc, job, path,
          runTime, sinceSuccess, attempted, dropped, overtaken>>

accountVars == <<instances, flagged, needs, resting>>
listVars == <<queue, deferred, toDrain, submitted>>
loopVars == <<listVars, tried>>
clockVars == <<sinceLaunch, sinceSuccess>>
historyVars == <<attempted, dropped, overtaken>>

Actors == {"ramp", "worker"}

Gates == [uid: Accounts \union {None}, age: 0..Horizon, min: 0..Horizon, confirmed: BOOLEAN]
NoGate == [uid |-> None, age |-> 0, min |-> 0, confirmed |-> FALSE]

\* A worker that resumes from a snapshot has no ramp and may find live accounts.
Init ==
    /\ running = TRUE
    /\ boot \in BOOLEAN
    /\ sinceLaunch = Horizon
    /\ gate = NoGate
    /\ instances \in [Accounts -> IF boot THEN {0} ELSE {0, 1}]
    /\ flagged \in [Accounts -> BOOLEAN]
    /\ needs \in [Accounts -> IF boot THEN {FALSE} ELSE BOOLEAN]
    /\ resting = [u \in Accounts |-> FALSE]
    /\ queue = <<>>
    /\ deferred = <<>>
    /\ toDrain = MaxActions
    /\ submitted = 0
    /\ tried = {}
    /\ rampTodo = IF boot THEN Accounts ELSE {}
    /\ pc = [a \in Actors |-> IF a = "worker" THEN "top" ELSE IF boot THEN "next" ELSE "done"]
    /\ job = [a \in Actors |-> None]
    /\ path = "manual"
    /\ runTime = [a \in Actors |-> 0]
    /\ sinceSuccess = Horizon
    /\ attempted = 0
    /\ dropped = 0
    /\ overtaken = FALSE

-----------------------------------------------------------------------------
(* The launch slot *)

Live(u) == instances[u] > 0
Goto(a, l) == pc' = [pc EXCEPT ![a] = l]

\* _current_launch_gate_delay: without a delay of its own the ramp keeps the launcher's.
Delay == IF boot /\ InitialDelay > 0 THEN InitialDelay ELSE LaunchDelay

\* _seconds_until_launch_delay_ready() <= 0
DelayReady == sinceLaunch >= Delay

\* MUTANT of GateReady: the failsafe is missing.
GateWithoutFailsafe(readerDown) ==
    WaitForLog /\ gate.uid # None =>
        \/ flagged[gate.uid]
        \/ /\ gate.age >= gate.min
           /\ ~Live(gate.uid) \/ gate.confirmed \/ readerDown

\* _is_launch_gate_ready: the gate opens for an account that was flagged since, and
\* after the minimum delay for one that is gone, was seen in the logs, is holding
\* the others back for too long, or cannot be judged because the log reader is down.
GateReady(readerDown) ==
    WaitForLog /\ gate.uid # None =>
        \/ flagged[gate.uid]
        \/ /\ gate.age >= gate.min
           /\ ~Live(gate.uid) \/ gate.confirmed \/ gate.age >= MaxBlock \/ readerDown

\* The gate once it was found ready: _clear_launch_gate.
ClearGate == gate' = IF WaitForLog THEN NoGate ELSE gate

\* _launch_slot_ready_now, and the test of _try_reserve_launch_slot.
SlotReady(readerDown) == DelayReady /\ GateReady(readerDown)

\* A launch attempt starts: start_game_session is called for u.
StartAttempt(a, u) ==
    /\ Goto(a, "launching")
    /\ job' = [job EXCEPT ![a] = u]
    /\ runTime' = [runTime EXCEPT ![a] = 0]

\* start_game_session has returned to thread a, which goes on at label l.
Finish(a, l) ==
    /\ Goto(a, l)
    /\ job' = [job EXCEPT ![a] = None]
    /\ runTime' = [runTime EXCEPT ![a] = 0]

\* _register_successful_launch: the next launch waits for this account.  The gate's
\* clock starts with the attempt, before the wait for the process.
Register(a, u) ==
    /\ gate' = IF WaitForLog
               THEN [uid |-> u, age |-> runTime[a], min |-> Delay, confirmed |-> FALSE]
               ELSE NoGate

\* MUTANT of Launched: the timer is left at the start of the attempt.
LaunchedKeepsTimer(a, u, n) ==
    /\ instances' = [instances EXCEPT ![u] = n]
    /\ needs' = [needs EXCEPT ![u] = FALSE]
    /\ resting' = [resting EXCEPT ![u] = TRUE]
    /\ UNCHANGED sinceLaunch
    /\ sinceSuccess' = 0
    /\ Register(a, u)

\* What a successful launch writes in the account's state.
Launched(a, u, n) ==
    /\ instances' = [instances EXCEPT ![u] = n]
    /\ needs' = [needs EXCEPT ![u] = FALSE]
    /\ resting' = [resting EXCEPT ![u] = TRUE]
    /\ sinceLaunch' = 0
    /\ sinceSuccess' = 0
    /\ Register(a, u)

\* The ramp has launched, or has ended and with it the delay of the boot phase: a
\* manual launch that was let through before rests on a test that is out of date.
Overtake == overtaken' = (overtaken \/ pc["worker"] \in {"kill", "start"})

-----------------------------------------------------------------------------
(* The ramp thread: _ramp_up_launches *)

\* The next account of the list: flagged and running accounts are passed over.
RampNext ==
    /\ pc["ramp"] = "next"
    /\ running
    /\ \E u \in rampTodo :
        IF flagged[u] \/ Live(u)
        THEN /\ rampTodo' = rampTodo \ {u}
             /\ UNCHANGED <<pc, job>>
        ELSE /\ rampTodo' = rampTodo \ {u}
             /\ Goto("ramp", "delay")
             /\ job' = [job EXCEPT !["ramp"] = u]
    /\ UNCHANGED <<running, boot, gate, accountVars, loopVars, clockVars, path,
                   runTime, historyVars>>

\* _wait_for_launch_delay_ready
RampDelayReady ==
    /\ pc["ramp"] = "delay"
    /\ running /\ DelayReady
    /\ Goto("ramp", "gate")
    /\ UNCHANGED <<running, boot, gate, accountVars, loopVars, clockVars, rampTodo,
                   job, path, runTime, historyVars>>

\* _wait_for_launch_gate_ready
RampGateReady(readerDown) ==
    /\ pc["ramp"] = "gate"
    /\ GateReady(readerDown)
    /\ ClearGate
    /\ Goto("ramp", "reserve")
    /\ UNCHANGED <<running, boot, accountVars, loopVars, clockVars, rampTodo, job,
                   path, runTime, historyVars>>

\* _try_reserve_launch_slot under the slot lock: both tests again, and the timer is
\* taken before the launch starts; or the slot was lost and the wait starts over.
RampReserve(readerDown) ==
    /\ pc["ramp"] = "reserve"
    /\ IF SlotReady(readerDown)
        THEN /\ ClearGate
             /\ sinceLaunch' = 0
             /\ StartAttempt("ramp", job["ramp"])
        ELSE /\ Goto("ramp", "delay")
             /\ UNCHANGED <<gate, sinceLaunch, job, runTime>>
    /\ UNCHANGED <<running, boot, accountVars, loopVars, sinceSuccess, rampTodo, path, historyVars>>

\* start_game_session(skip_cleanup=True) returns to the ramp.
RampEnd ==
    /\ pc["ramp"] = "launching"
    /\ LET u == job["ramp"] IN
       \/ Launched("ramp", u, instances[u] + 1) /\ Overtake
       \/ /\ needs' = [needs EXCEPT ![u] = TRUE]
          /\ resting' = [resting EXCEPT ![u] = TRUE]
          /\ sinceLaunch' = 0
          /\ UNCHANGED <<instances, gate, sinceSuccess, overtaken>>
    /\ Finish("ramp", "next")
    /\ UNCHANGED <<running, boot, flagged, loopVars, rampTodo, path, attempted, dropped>>

\* The list is exhausted, or the worker was stopped: the boot phase is over.
RampDone ==
    /\ \/ pc["ramp"] = "next" /\ (rampTodo = {} \/ ~running)
       \/ pc["ramp"] \in {"delay", "gate"} /\ ~running
    /\ Goto("ramp", "done")
    /\ job' = [job EXCEPT !["ramp"] = None]
    /\ boot' = FALSE
    /\ Overtake
    /\ UNCHANGED <<running, gate, accountVars, loopVars, clockVars, rampTodo, path,
                   runTime, attempted, dropped>>

Ramp(readerDown) ==
    \/ RampNext \/ RampDelayReady \/ RampGateReady(readerDown) \/ RampReserve(readerDown)
    \/ RampEnd \/ RampDone

-----------------------------------------------------------------------------
(* The worker thread: _drain_action_queue and the manual launches *)

\* MUTANT of LoopTop: the stop flags are not tested.
LoopForever ==
    /\ pc["worker"] = "top"
    /\ Goto("worker", "drain")
    /\ UNCHANGED <<running, boot, gate, accountVars, loopVars, clockVars, rampTodo,
                   job, path, runTime, historyVars>>

\* run(): the loop tests the stop flags once per pass.
LoopTop ==
    /\ pc["worker"] = "top"
    /\ Goto("worker", IF running THEN "drain" ELSE "done")
    /\ UNCHANGED <<running, boot, gate, accountVars, loopVars, clockVars, rampTodo,
                   job, path, runTime, historyVars>>

\* An action whose launch is not possible yet goes to the deferred list.
DrainAction(readerDown) ==
    /\ pc["worker"] = "drain"
    /\ toDrain > 0 /\ queue # <<>>
    /\ queue' = Tail(queue)
    /\ toDrain' = toDrain - 1
    /\ IF SlotReady(readerDown)
        THEN /\ ClearGate
             /\ Goto("worker", "manual")
             /\ job' = [job EXCEPT !["worker"] = Head(queue)]
             /\ UNCHANGED deferred
        ELSE /\ deferred' = Append(deferred, Head(queue))
             /\ UNCHANGED <<gate, pc, job>>
    /\ UNCHANGED <<running, boot, accountVars, clockVars, submitted, tried, rampTodo,
                   path, runTime, historyVars>>

\* MUTANT of DrainDone: the deferred actions are not put back.
DrainForgets ==
    /\ pc["worker"] = "drain"
    /\ toDrain = 0 \/ queue = <<>>
    /\ deferred' = <<>>
    /\ toDrain' = MaxActions
    /\ Goto("worker", "schedule")
    /\ UNCHANGED <<running, boot, gate, accountVars, queue, clockVars, submitted, tried,
                   rampTodo, job, path, runTime, historyVars>>

\* The drain is over: the deferred actions go back to the end of the queue.
DrainDone ==
    /\ pc["worker"] = "drain"
    /\ toDrain = 0 \/ queue = <<>>
    /\ queue' = queue \o deferred
    /\ deferred' = <<>>
    /\ toDrain' = MaxActions
    /\ Goto("worker", "schedule")
    /\ UNCHANGED <<running, boot, gate, accountVars, clockVars, submitted, tried, rampTodo,
                   job, path, runTime, historyVars>>

\* restart_user_session and launch_user_session_custom test the slot a second time.
\* They reserve nothing: the slot stays free for the ramp while they go on.
ManualTest(readerDown) ==
    /\ pc["worker"] = "manual"
    /\ IF SlotReady(readerDown)
        THEN /\ ClearGate
             /\ Goto("worker", "kill")
             /\ UNCHANGED <<job, dropped>>
        ELSE /\ dropped' = dropped + 1
             /\ Goto("worker", "drain")
             /\ job' = [job EXCEPT !["worker"] = None]
             /\ UNCHANGED gate
    /\ UNCHANGED <<running, boot, accountVars, loopVars, clockVars, rampTodo, path,
                   runTime, attempted, overtaken>>

\* The account's processes are ended, with up to 5 seconds for each.  A custom launch
\* walks the list it removes them from and passes over every second one.
ManualKill ==
    /\ pc["worker"] = "kill"
    /\ LET u == job["worker"]
       IN \E left \in {0, instances[u] \div 2} : instances' = [instances EXCEPT ![u] = left]
    /\ Goto("worker", "start")
    /\ UNCHANGED <<running, boot, gate, flagged, needs, resting, loopVars, clockVars,
                   rampTodo, job, path, runTime, historyVars>>

\* The launch starts, without another look at the slot or at the stop flags.
ManualStart ==
    /\ pc["worker"] = "start"
    /\ StartAttempt("worker", job["worker"])
    /\ path' = "manual"
    /\ attempted' = attempted + 1
    /\ overtaken' = FALSE
    /\ UNCHANGED <<running, boot, gate, accountVars, loopVars, clockVars, rampTodo, dropped>>

\* The manual launch returns; a failed one leaves no trace.
ManualEnd ==
    /\ pc["worker"] = "launching" /\ path = "manual"
    /\ \/ Launched("worker", job["worker"], instances[job["worker"]] + 1)
       \/ UNCHANGED <<instances, needs, resting, sinceLaunch, sinceSuccess, gate>>
    /\ Finish("worker", "drain")
    /\ UNCHANGED <<running, boot, flagged, loopVars, rampTodo, path, historyVars>>

-----------------------------------------------------------------------------
(* The worker thread: the heartbeat and the relaunch scheduler *)

\* The heartbeat marks an account that has been offline for too long, and takes the
\* mark from a live one.
Heartbeat(u) ==
    /\ pc["worker"] = "schedule"
    /\ ~flagged[u]
    /\ needs[u] = Live(u)
    /\ needs' = [needs EXCEPT ![u] = ~@]
    /\ UNCHANGED <<running, boot, gate, instances, flagged, resting, loopVars,
                   clockVars, rampTodo, pc, job, path, runTime, historyVars>>

\* An account the scheduler may pick.
Eligible(u) ==
    needs[u] /\ ~flagged[u] /\ ~resting[u] /\ ~Live(u)

\* Never more live accounts than accounts able to run.
Room ==
    LET able == {u \in Accounts : ~flagged[u]}
    IN Cardinality({u \in able : Live(u)}) < (IF able = {} THEN 1 ELSE Cardinality(able))

\* The candidates of this pass: none in the boot phase, at the ceiling, or too soon.
\* (The code reads "relaunch" alone, which a failed launch of the ramp does not set:
\* the pass that follows one then ends at the reservation, ScheduleStart.)
Candidates ==
    IF boot \/ ~Room \/ ~DelayReady THEN {} ELSE {u \in Accounts \ tried : Eligible(u)}

\* A candidate whose server is taken is put off (_normal_launch_conflict).
ScheduleConflict(u) ==
    /\ pc["worker"] = "schedule"
    /\ u \in Candidates
    /\ resting' = [resting EXCEPT ![u] = TRUE]
    /\ tried' = tried \union {u}
    /\ UNCHANGED <<running, boot, gate, instances, flagged, needs, listVars, clockVars,
                   rampTodo, pc, job, path, runTime, historyVars>>

\* A candidate is launched when the slot can be reserved, else the pass is over.
ScheduleStart(u, readerDown) ==
    /\ pc["worker"] = "schedule"
    /\ u \in Candidates
    /\ IF SlotReady(readerDown)
        THEN /\ ClearGate
             /\ sinceLaunch' = 0
             /\ StartAttempt("worker", u)
             /\ path' = "scheduled"
        ELSE /\ Goto("worker", "top")
             /\ UNCHANGED <<gate, sinceLaunch, job, runTime, path>>
    /\ tried' = {}
    /\ UNCHANGED <<running, boot, accountVars, listVars, sinceSuccess, rampTodo, historyVars>>

\* Nobody to launch in this pass.
ScheduleNone ==
    /\ pc["worker"] = "schedule"
    /\ Candidates = {}
    /\ Goto("worker", "top")
    /\ tried' = {}
    /\ UNCHANGED <<running, boot, gate, accountVars, listVars, clockVars, rampTodo,
                   job, path, runTime, historyVars>>

\* The scheduled launch returns; after a failure the account backs off.
ScheduleEnd ==
    /\ pc["worker"] = "launching" /\ path = "scheduled"
    /\ LET u == job["worker"] IN
       \/ Launched("worker", u, 1)
       \/ /\ resting' = [resting EXCEPT ![u] = TRUE]
          /\ UNCHANGED <<instances, needs, sinceLaunch, sinceSuccess, gate>>
    /\ Finish("worker", "top")
    /\ path' = "manual"
    /\ UNCHANGED <<running, boot, flagged, loopVars, rampTodo, historyVars>>

Worker(readerDown) ==
    \/ LoopTop \/ DrainAction(readerDown) \/ DrainDone
    \/ ManualTest(readerDown) \/ ManualKill \/ ManualStart \/ ManualEnd
    \/ ScheduleNone \/ ScheduleEnd
    \/ \E u \in Accounts :
        Heartbeat(u) \/ ScheduleConflict(u) \/ ScheduleStart(u, readerDown)


-----------------------------------------------------------------------------
(* Everything else *)

\* submit_action: the window asks for a launch by hand.
Submit(u) ==
    /\ submitted < MaxRequests
    /\ pc["worker"] # "done"
    /\ submitted' = submitted + 1
    /\ queue' = Append(queue, u)
    /\ UNCHANGED <<running, boot, gate, accountVars, deferred, toDrain, tried,
                   clockVars, rampTodo, pc, job, path, runTime, historyVars>>

\* A Roblox process ends.
ProcessExits(u) ==
    /\ Live(u)
    /\ instances' = [instances EXCEPT ![u] = @ - 1]
    /\ UNCHANGED <<running, boot, gate, flagged, needs, resting, loopVars,
                   clockVars, rampTodo, pc, job, path, runTime, historyVars>>

\* An account is flagged or released: CAP, bad cookie, or by the user.
SetFlag(u) ==
    /\ flagged' = [flagged EXCEPT ![u] = ~@]
    /\ UNCHANGED <<running, boot, gate, instances, needs, resting, loopVars,
                   clockVars, rampTodo, pc, job, path, runTime, historyVars>>

\* _mark_user_log_confirmed: the heartbeat finds the account of the gate in the logs.
LogConfirmed ==
    /\ gate.uid # None
    /\ Live(gate.uid)
    /\ ~gate.confirmed
    /\ gate' = [gate EXCEPT !.confirmed = TRUE]
    /\ UNCHANGED <<running, boot, accountVars, loopVars, clockVars, rampTodo, pc, job,
                   path, runTime, historyVars>>

\* The spawn grace or the retry back-off of an account runs out.
TimerExpires(u) ==
    /\ resting[u]
    /\ resting' = [resting EXCEPT ![u] = FALSE]
    /\ UNCHANGED <<running, boot, gate, instances, flagged, needs, loopVars, clockVars,
                   rampTodo, pc, job, path, runTime, historyVars>>

Later(n) == IF n < Horizon THEN n + 1 ELSE n

Tick ==
    /\ sinceLaunch' = Later(sinceLaunch)
    /\ sinceSuccess' = Later(sinceSuccess)
    /\ runTime' = [a \in Actors |-> IF pc[a] = "launching" THEN Later(runTime[a]) ELSE 0]
    /\ gate' = IF gate.uid = None THEN gate ELSE [gate EXCEPT !.age = Later(@)]
    /\ UNCHANGED <<running, boot, accountVars, loopVars, rampTodo, pc, job, path, historyVars>>

\* stop(): the window stops or pauses the manager.
Stop ==
    /\ running
    /\ running' = FALSE
    /\ UNCHANGED <<boot, gate, accountVars, loopVars, clockVars, rampTodo, pc, job,
                   path, runTime, historyVars>>

Environment ==
    \/ LogConfirmed \/ Tick \/ Stop
    \/ \E u \in Accounts : Submit(u) \/ ProcessExits(u) \/ SetFlag(u) \/ TimerExpires(u)

Next ==
    \/ \E readerDown \in BOOLEAN : Ramp(readerDown) \/ Worker(readerDown)
    \/ Environment

Spec == Init /\ [][Next]_vars

\* Both threads run, start_game_session returns (its waits have timeouts) and time
\* passes; nothing is assumed of the log reader, the logs, the processes or the user.
Fairness == WF_vars(Ramp(FALSE)) /\ WF_vars(Worker(FALSE)) /\ WF_vars(Tick)
FairSpec == Spec /\ Fairness

-----------------------------------------------------------------------------
(* Properties *)

\* The variables have their types.
TypeOK ==
    /\ running \in BOOLEAN /\ boot \in BOOLEAN
    /\ sinceLaunch \in 0..Horizon
    /\ gate \in Gates
    /\ instances \in [Accounts -> Nat]
    /\ flagged \in [Accounts -> BOOLEAN] /\ needs \in [Accounts -> BOOLEAN]
    /\ resting \in [Accounts -> BOOLEAN]
    /\ queue \in Seq(Accounts) /\ deferred \in Seq(Accounts)
    /\ toDrain \in 0..MaxActions
    /\ submitted \in 0..MaxRequests
    /\ rampTodo \subseteq Accounts
    /\ pc \in [Actors -> {"top", "drain", "manual", "kill", "start", "schedule",
                          "launching", "next", "delay", "gate", "reserve", "done"}]
    /\ job \in [Actors -> Accounts \union {None}]
    /\ path \in {"manual", "scheduled"}
    /\ runTime \in [Actors -> 0..Horizon]
    /\ sinceSuccess \in 0..Horizon
    /\ attempted \in Nat /\ dropped \in Nat /\ overtaken \in BOOLEAN

\* A launch attempt starts in this step.
Starts(a) == pc[a] # "launching" /\ pc'[a] = "launching"

\* A launch is attempted within the launch delay of a launch that succeeded before in
\* one case only: a manual launch, which ends the account's old processes between its
\* test of the slot and its start and reserves nothing, was overtaken there by a launch
\* of the ramp or by the end of the boot phase.  Every other attempt keeps the delay,
\* whichever thread launched and however long the attempts and the killing took.
SuccessSpacesLaunches ==
    [][\A a \in Actors : Starts(a) => sinceSuccess >= Delay \/ (a = "worker" /\ overtaken)]_vars

\* Every manual launch asked for is waiting, deferred, under way, was attempted, or
\* was turned down at its start; none is lost or run twice by the drain.
RequestsConserved ==
    submitted = Len(queue) + Len(deferred) + attempted + dropped
                + (IF pc["worker"] \in {"manual", "kill", "start"} THEN 1 ELSE 0)

\* The ramp never starts another instance of an account that has a live process.
RampSparesLive ==
    [][Starts("ramp") => ~Live(job["ramp"])]_vars

\* The boot phase ends: no account that cannot be confirmed, no failing launch and no
\* manual launch keeps the ramp, and with it the relaunch scheduler, waiting forever.
BootEnds == boot ~> ~boot

\* stop() ends both threads: neither keeps launching what is still on its list.
StopEnds == ~running ~> (\A a \in Actors : pc[a] = "done")
=============================================================================
