-------------------------------- MODULE AntiAfk --------------------------------
(***************************************************************************)
(* The Anti-AFK engine and the threads that pause it while Auto-Actions    *)
(* play: the loop thread and the flags of native/antiafk_native.cpp, the   *)
(* worker process that executes one command at a time (antiafk.py), the    *)
(* calls of the proxy with their time limit, and pause and resume of the   *)
(* window (gui.py, 11855).                                                 *)
(*                                                                         *)
(* The flags are atomics, and the notifications of the condition variable  *)
(* are sent without its mutex: one that falls between the test of a        *)
(* predicate and the wait is lost.                                         *)
(***************************************************************************)
EXTENDS Naturals, Sequences, FiniteSets

CONSTANTS
    Clients,      \* threads that play Auto-Actions: the engine, a test
    Windows,      \* the number of Roblox windows a sweep finds
    BatchSize,    \* antiafk_unthrottle_batch_size
    Unthrottle,   \* antiafk_unthrottle_enabled, with the BES callbacks in place
    Tries,        \* attempts to resume
    MaxRounds,    \* bound on the batches of one client
    MaxSwitches,  \* bound on how often Anti-AFK is told to start or to stop
    None

ASSUME AntiAfkAssumption ==
    /\ Windows \in Nat \ {0} /\ BatchSize \in Nat \ {0} /\ Tries \in Nat \ {0}
    /\ MaxRounds \in Nat /\ MaxSwitches \in Nat /\ Unthrottle \in BOOLEAN
    /\ IsFiniteSet(Clients) /\ Clients \cap (1..MaxSwitches) = {}
    /\ None \notin Clients \cup (1..MaxSwitches) /\ None \notin BOOLEAN

(***************************************************************************)
(* A thread of the pool carries out one switch.                            *)
(***************************************************************************)
Tasks == 1..MaxSwitches
Callers == Clients \cup Tasks

VARIABLES
    on,        \* the manager's thread runs and the box is ticked
    stopping,  \* the window is about to tell Anti-AFK to stop
    switches,  \* how often it has told it
    op,        \* what each caller wants of the engine, or "idle", "act", "leave"
    phase,     \* its call: "none", "lock" (wants the lock of the pipe), "wait"
    tries,     \* its failed attempts to resume
    rounds,    \* batches it has begun
    depth,     \* _auto_item_antiafk_pause_depth
    wasRunning,
    holder,    \* the caller that holds _cmd_lock
    pipe,      \* commands on their way; fresh: the caller still waits
    reply,     \* the answer the holder has not read yet, or None
    job,       \* the command the worker executes
    wpc,       \* where it is: "idle", "pausing", "withdrawing", "joining"
    running, stopReq, pauseReq, paused,     \* the atomics
    loop,      \* where the loop thread is
    index,     \* windows of the sweep that are done; Windows when there is no sweep
    batchEnd,
    held,      \* windows whose processes BES holds unthrottled
    promised,  \* history: a pause was granted and nothing was asked since
    left,      \* history: the pause that stands was left by a client that saw the manager off
    astray     \* history: a client guessed that nothing runs

window == <<on, stopping, switches>>
client == <<op, phase, tries, rounds, depth, wasRunning, astray>>
channel == <<holder, pipe, reply>>
worker == <<job, wpc, promised, left>>
flags == <<running, stopReq, pauseReq, paused>>
sweep == <<index, batchEnd, held>>
vars == <<window, client, channel, worker, flags, loop, sweep>>

Init ==
    /\ on = FALSE /\ stopping = FALSE /\ switches = 0
    /\ op = [c \in Callers |-> "idle"] /\ phase = [c \in Callers |-> "none"]
    /\ tries = [c \in Clients |-> 0] /\ rounds = [c \in Clients |-> 0]
    /\ depth = 0 /\ wasRunning = FALSE /\ astray = FALSE
    /\ holder = None /\ pipe = <<>> /\ reply = None
    /\ job = None /\ wpc = "idle" /\ promised = FALSE /\ left = FALSE
    /\ running = FALSE /\ stopReq = FALSE /\ pauseReq = FALSE /\ paused = FALSE
    /\ loop = "none" /\ index = Windows /\ batchEnd = 0 /\ held = {}

-----------------------------------------------------------------------------
(***************************************************************************)
(* Calls over the pipe.  An answer whose caller gave up has an old id, and *)
(* the next reader drops it: it is dropped here at once, and so is a       *)
(* question nobody waits for.                                              *)
(***************************************************************************)

\* The command of an operation: three of them ask whether the engine runs.
Asks(o) == o \in {"check", "again", "last"}
Command(o) ==
    CASE Asks(o) -> "get_running" [] o \in {"undo", "resume"} -> "resume" [] OTHER -> o

Wants(c, o) == op' = [op EXCEPT ![c] = o] /\ phase' = [phase EXCEPT ![c] = "lock"]
Does(c, o) == op' = [op EXCEPT ![c] = o] /\ phase' = [phase EXCEPT ![c] = "none"]

Send(c) ==
    /\ phase[c] = "lock" /\ holder = None
    /\ holder' = c
    /\ pipe' = Append(pipe, [cmd |-> Command(op[c]), fresh |-> TRUE])
    /\ phase' = [phase EXCEPT ![c] = "wait"]
    /\ UNCHANGED <<window, op, tries, rounds, depth, wasRunning, astray, reply, worker, flags, loop, sweep>>

-----------------------------------------------------------------------------
(***************************************************************************)
(* The window: pause before a batch of actions and resume after it.        *)
(***************************************************************************)

\* _auto_item_pause_antiafk: what is switched off needs no pause.
PlayUnpaused(c) ==
    /\ op[c] = "idle" /\ rounds[c] < MaxRounds /\ ~on
    /\ rounds' = [rounds EXCEPT ![c] = @ + 1]
    /\ Does(c, "act")
    /\ UNCHANGED <<window, tries, depth, wasRunning, astray, channel, worker, flags, loop, sweep>>

AskPause(c) ==
    /\ op[c] = "idle" /\ rounds[c] < MaxRounds /\ on
    /\ rounds' = [rounds EXCEPT ![c] = @ + 1]
    /\ Wants(c, "pause")
    /\ UNCHANGED <<window, tries, depth, wasRunning, astray, channel, worker, flags, loop, sweep>>

\* _auto_item_resume_antiafk: the last of several pauses is to be taken back ...
EndBatch(c) ==
    /\ op[c] = "act"
    /\ IF depth > 1
       THEN depth' = depth - 1 /\ Does(c, "idle") /\ UNCHANGED wasRunning
       ELSE /\ depth' = 0 /\ wasRunning' = FALSE
            /\ Does(c, IF wasRunning \/ depth > 0 THEN "leave" ELSE "idle")
    /\ UNCHANGED <<window, tries, rounds, astray, channel, worker, flags, loop, sweep>>

\* ... unless the manager is off, which tells Anti-AFK to stop.
Leave(c) ==
    /\ op[c] = "leave"
    /\ IF on THEN Wants(c, "resume") /\ UNCHANGED left
             ELSE Does(c, "idle") /\ left' = (left \/ pauseReq)
    /\ UNCHANGED <<window, tries, rounds, depth, wasRunning, astray, channel, job, wpc, promised, flags,
                   loop, sweep>>

\* What a client does with the answer; a call that failed has the answer FALSE.
Counted(c) ==
    /\ op[c] = "pause" /\ Does(c, "act")
    /\ depth' = depth + 1 /\ wasRunning' = TRUE
    /\ UNCHANGED <<tries, astray>>

Refused(c) ==
    /\ op[c] = "pause" /\ Wants(c, "check")
    /\ UNCHANGED <<tries, depth, wasRunning, astray>>

\* Nothing runs, or so the window believes: no pause is needed.
Unneeded(c, guessed) ==
    /\ op[c] = "check" /\ Does(c, "act")
    /\ astray' = (astray \/ guessed)
    /\ UNCHANGED <<tries, depth, wasRunning>>

\* MUTANT of Undo: the batch is skipped and the pause stands.
UndoNothing(c) ==
    /\ op[c] = "check" /\ Does(c, "idle")
    /\ UNCHANGED <<tries, depth, wasRunning, astray>>

\* The pause may still come: take it back and skip the batch.
Undo(c) ==
    /\ op[c] = "check" /\ Wants(c, "undo")
    /\ UNCHANGED <<tries, depth, wasRunning, astray>>

Retry(c) ==
    /\ op[c] = "again"
    /\ IF tries[c] + 1 < Tries
       THEN tries' = [tries EXCEPT ![c] = @ + 1] /\ Wants(c, "resume")
       ELSE tries' = [tries EXCEPT ![c] = 0] /\ Wants(c, "last")
    /\ UNCHANGED <<depth, wasRunning, astray>>

Proceeds(c, o, next) ==
    /\ op[c] = o /\ IF next = "idle" THEN Does(c, "idle") ELSE Wants(c, next)
    /\ tries' = IF next = "again" THEN tries ELSE [tries EXCEPT ![c] = 0]
    /\ UNCHANGED <<depth, wasRunning, astray>>

Continue(c, result, guessed) ==
    \/ result /\ \/ Counted(c)
                 \/ Undo(c)
                 \/ Retry(c)
                 \/ Proceeds(c, "resume", "idle")
                 \/ Proceeds(c, "last", "idle")
    \/ ~result /\ \/ Refused(c)
                  \/ Unneeded(c, guessed)
                  \/ Proceeds(c, "resume", "again")
                  \/ Proceeds(c, "again", "last")
                  \/ Proceeds(c, "last", "start")
    \/ Proceeds(c, "undo", "idle")
    \/ op[c] \in {"start", "stop"} /\ Does(c, "idle") /\ UNCHANGED <<tries, depth, wasRunning, astray>>

Receive(c) ==
    /\ phase[c] = "wait" /\ reply # None
    /\ holder' = None /\ reply' = None
    /\ Continue(c, reply, FALSE)
    /\ UNCHANGED <<window, rounds, pipe, worker, flags, loop, sweep>>

\* MUTANT of Expire: the call waits for its answer without limit.
ExpireNever(c) == FALSE /\ UNCHANGED vars

\* The time is up while the worker waits for the loop; other commands take no time.  Asked
\* whether the engine runs, the proxy falls back on what it last heard; its question, the last
\* on the way, is dropped.
Expire(c) ==
    /\ phase[c] = "wait" /\ wpc # "idle"
    /\ holder' = None
    /\ pipe' = IF Asks(op[c]) THEN SubSeq(pipe, 1, Len(pipe) - 1)
               ELSE [i \in DOMAIN pipe |-> [pipe[i] EXCEPT !.fresh = FALSE]]
    /\ job' = [job EXCEPT !.fresh = FALSE]
    /\ \E result \in (IF Asks(op[c]) THEN BOOLEAN ELSE {FALSE}) : Continue(c, result, TRUE)
    /\ UNCHANGED <<window, rounds, reply, wpc, promised, left, flags, loop, sweep>>

(***************************************************************************)
(* The window: the thread of the manager, and the box of Anti-AFK.         *)
(***************************************************************************)

\* A thread of the pool is to tell the engine.
Tell(o) == switches' = switches + 1 /\ Wants(switches', o)

\* start_manager, resume_manager, or the box is ticked, whose settings may fail to be applied.
TurnOn ==
    /\ ~stopping /\ ~on /\ switches < MaxSwitches
    /\ on' = TRUE
    /\ Tell("start") \/ UNCHANGED <<switches, op, phase>>
    /\ UNCHANGED <<stopping, tries, rounds, depth, wasRunning, astray, channel, worker, flags, loop, sweep>>

\* stop_manager and pause_manager ask the thread to end and wait for it, or the box is clicked.
AskStop ==
    /\ ~stopping /\ switches < MaxSwitches
    /\ stopping' = TRUE
    /\ UNCHANGED <<on, switches, client, channel, worker, flags, loop, sweep>>

\* The box is unticked, or the thread has ended, which may take longer than they wait.
TurnOff ==
    /\ on /\ on' = FALSE
    /\ UNCHANGED <<stopping, switches, client, channel, worker, flags, loop, sweep>>

\* What they tell Anti-AFK in the end: a stop, which also ends a pause that was left ...
TellStop ==
    /\ stopping /\ stopping' = FALSE
    /\ Tell("stop") /\ left' = FALSE
    /\ UNCHANGED <<on, tries, rounds, depth, wasRunning, astray, channel, job, wpc, promised, flags, loop,
                   sweep>>

\* ... or nothing: a pause whose wait has timed out is cancelled, though the thread will end; the
\* settings of the box cannot be applied, or its manager has ended.
NotTold ==
    /\ stopping /\ stopping' = FALSE
    /\ UNCHANGED <<on, switches, client, channel, worker, flags, loop, sweep>>

Window == TurnOn \/ AskStop \/ TurnOff \/ TellStop \/ NotTold

-----------------------------------------------------------------------------
(***************************************************************************)
(* The worker executes the commands.  cv_.notify_all reaches a loop thread *)
(* that waits, not one that is about to.                                   *)
(***************************************************************************)

NotifyLoop == loop' = IF loop = "blocked" THEN "predicate" ELSE loop

Answer(request, result) ==
    /\ reply' = IF request.fresh THEN result ELSE reply
    /\ job' = None /\ wpc' = "idle"

Take(cmd) ==
    /\ wpc = "idle" /\ pipe # <<>> /\ Head(pipe).cmd = cmd
    /\ pipe' = Tail(pipe)

GetRunning ==
    /\ Take("get_running") /\ Answer(Head(pipe), running)
    /\ UNCHANGED <<window, client, holder, promised, left, flags, loop, sweep>>

Resume ==
    /\ Take("resume") /\ Answer(Head(pipe), running)
    /\ promised' = FALSE
    /\ IF running THEN pauseReq' = FALSE /\ left' = FALSE /\ NotifyLoop ELSE UNCHANGED <<pauseReq, left, loop>>
    /\ UNCHANGED <<window, client, holder, running, stopReq, paused, sweep>>

Start ==
    /\ Take("start") /\ Answer(Head(pipe), TRUE)
    /\ IF running
       THEN UNCHANGED <<promised, left, flags, loop>>
       ELSE /\ promised' = FALSE /\ left' = FALSE
            /\ running' = TRUE /\ stopReq' = FALSE /\ pauseReq' = FALSE /\ paused' = FALSE
            /\ loop' = "top"
    /\ UNCHANGED <<window, client, holder, sweep>>

StopNothing ==
    /\ Take("stop") /\ ~running /\ Answer(Head(pipe), TRUE)
    /\ UNCHANGED <<window, client, holder, promised, left, flags, loop, sweep>>

Stop ==
    /\ Take("stop") /\ running
    /\ job' = Head(pipe) /\ wpc' = "joining" /\ promised' = FALSE /\ left' = FALSE
    /\ stopReq' = TRUE /\ pauseReq' = FALSE /\ paused' = FALSE /\ NotifyLoop
    /\ UNCHANGED <<window, client, holder, reply, running, sweep>>

Joined ==
    /\ wpc = "joining" /\ loop = "ended"
    /\ Answer(job, TRUE)
    /\ running' = FALSE /\ stopReq' = FALSE /\ pauseReq' = FALSE /\ paused' = FALSE
    /\ loop' = "none"
    /\ UNCHANGED <<window, client, holder, pipe, promised, left, sweep>>

PauseNothing ==
    /\ Take("pause") /\ ~running /\ Answer(Head(pipe), FALSE)
    /\ UNCHANGED <<window, client, holder, promised, left, flags, loop, sweep>>

Pause ==
    /\ Take("pause") /\ running
    /\ job' = Head(pipe) /\ wpc' = "pausing" /\ promised' = FALSE
    /\ pauseReq' = TRUE /\ NotifyLoop
    /\ UNCHANGED <<window, client, holder, reply, left, running, stopReq, paused, sweep>>

Paused ==
    /\ wpc = "pausing" /\ (paused \/ ~running)
    /\ Answer(job, paused) /\ promised' = paused
    /\ UNCHANGED <<window, client, holder, pipe, left, flags, loop, sweep>>

\* The wait for the loop has its own limit; the request is withdrawn after the last look.
PauseTimesOut ==
    /\ wpc = "pausing" /\ ~paused
    /\ wpc' = "withdrawing"
    /\ UNCHANGED <<window, client, channel, job, promised, left, flags, loop, sweep>>

Withdraw ==
    /\ wpc = "withdrawing"
    /\ pauseReq' = FALSE /\ left' = FALSE /\ NotifyLoop
    /\ Answer(job, paused)
    /\ UNCHANGED <<window, client, holder, pipe, promised, running, stopReq, paused, sweep>>

Worker ==
    \/ GetRunning \/ Resume \/ Start \/ StopNothing \/ Stop \/ Joined
    \/ PauseNothing \/ Pause \/ Paused \/ PauseTimesOut \/ Withdraw

-----------------------------------------------------------------------------
(***************************************************************************)
(* The loop thread.                                                        *)
(***************************************************************************)

InSweep == index < Windows
Interrupted == stopReq \/ pauseReq

Goto(from, to) == loop = from /\ loop' = to

\* The interval has passed and a sweep begins, one is under way, or it is not yet time.
Work ==
    \/ InSweep /\ loop' = "batch" /\ UNCHANGED sweep
    \/ ~InSweep /\ loop' = "batch" /\ index' = 0 /\ UNCHANGED <<batchEnd, held>>
    \/ ~InSweep /\ loop' = "rest" /\ UNCHANGED sweep

\* The sweep is the thread's own.
NoSweep == index' = Windows /\ batchEnd' = 0 /\ held' = {}
End == loop' = "ended" /\ paused' = FALSE /\ running' = FALSE /\ NoSweep /\ UNCHANGED <<stopReq, pauseReq>>

TopStops == loop = "top" /\ stopReq /\ End
TopPauses ==
    /\ Goto("top", "predicate") /\ ~stopReq /\ pauseReq
    /\ paused' = TRUE
    /\ UNCHANGED <<running, stopReq, pauseReq, sweep>>
TopWorks == loop = "top" /\ ~Interrupted /\ Work /\ UNCHANGED flags

\* cv_.wait: the test, and then the sleep.
Predicate ==
    /\ loop = "predicate" /\ loop' = IF pauseReq /\ ~stopReq THEN "falling" ELSE "awake"
    /\ UNCHANGED <<flags, sweep>>
FallAsleep == Goto("falling", "blocked") /\ UNCHANGED <<flags, sweep>>
AwakeStops == loop = "awake" /\ stopReq /\ End
AwakeWorks ==
    /\ loop = "awake" /\ ~stopReq
    /\ paused' = FALSE
    /\ Work
    /\ UNCHANGED <<running, stopReq, pauseReq>>

BatchEnd == IF index + BatchSize < Windows THEN index + BatchSize ELSE Windows

\* MUTANT of Held: a batch that was interrupted is not held again.
HeldOnce == IF index % BatchSize = 0 THEN index..(BatchEnd - 1) ELSE {}

\* What a batch asks BES for: the processes of the windows it still has to do.
Held == index..(BatchEnd - 1)

BatchInterrupted == Goto("batch", "swept") /\ Interrupted /\ UNCHANGED <<flags, sweep>>
\* MUTANT of BatchBegins: a loop that wakes up does not look for a new pause.
BatchBeginsUnasked ==
    /\ loop = "batch" /\ ~stopReq
    /\ batchEnd' = BatchEnd
    /\ IF Unthrottle THEN held' = Held /\ loop' = "holding" ELSE loop' = "input" /\ UNCHANGED held
    /\ UNCHANGED <<flags, index>>

BatchBegins ==
    /\ loop = "batch" /\ ~Interrupted
    /\ batchEnd' = BatchEnd
    /\ IF Unthrottle THEN held' = Held /\ loop' = "holding" ELSE loop' = "input" /\ UNCHANGED held
    /\ UNCHANGED <<flags, index>>

\* The next window gets its input, or the batch is over.
GoOn(done) == loop' = IF Interrupted \/ done = batchEnd THEN "release" ELSE "input"

\* BES may refuse or not answer in time; the release is sent all the same.
HoldGranted == loop = "holding" /\ GoOn(index) /\ UNCHANGED <<flags, sweep>>
HoldFails == Goto("holding", "release") /\ index' = batchEnd /\ UNCHANGED <<flags, batchEnd, held>>

\* Played or failed, the next window is next; interrupted, this one is tried again.
EndInput == loop = "input" /\ index' = index + 1 /\ GoOn(index') /\ UNCHANGED <<flags, batchEnd, held>>
AbortInput == Goto("input", "release") /\ Interrupted /\ UNCHANGED <<flags, sweep>>

Release ==
    /\ loop = "release" /\ held' = {} /\ batchEnd' = 0
    /\ loop' = IF Interrupted \/ ~InSweep THEN "swept" ELSE "batch"
    /\ UNCHANGED <<flags, index>>

\* The flags are read again after the last batch: an interruption that was withdrawn meanwhile
\* leaves the sweep complete, whatever of it was not done.
SweepEnds ==
    /\ loop = "swept"
    /\ IF Interrupted THEN loop' = "top" /\ UNCHANGED index ELSE loop' = "rest" /\ index' = Windows
    /\ UNCHANGED <<flags, batchEnd, held>>

\* Waits of the loop itself have a limit; a lost notification delays it.
Rest == Goto("rest", "top") /\ UNCHANGED <<flags, sweep>>

Loop ==
    /\ \/ TopStops \/ TopPauses \/ TopWorks \/ Predicate \/ FallAsleep \/ AwakeStops \/ AwakeWorks
       \/ BatchInterrupted \/ BatchBegins \/ HoldGranted \/ HoldFails \/ EndInput
       \/ AbortInput \/ Release \/ SweepEnds \/ Rest
    /\ UNCHANGED <<window, client, channel, worker>>

Caller(c) == Send(c) \/ Receive(c) \/ Expire(c)

Next ==
    \/ \E c \in Clients : PlayUnpaused(c) \/ AskPause(c) \/ EndBatch(c) \/ Leave(c)
    \/ \E c \in Callers : Caller(c)
    \/ Window
    \/ Worker
    \/ Loop

Spec == Init /\ [][Next]_vars

(***************************************************************************)
(* Threads go on and time passes.  Nobody has to play or to switch, and a  *)
(* batch of actions may take for ever.                                     *)
(***************************************************************************)
FairSpec ==
    /\ Spec
    /\ \A c \in Callers : WF_vars(Caller(c))
    /\ WF_vars(Worker) /\ WF_vars(Loop)

-----------------------------------------------------------------------------
Operations == {"idle", "act", "leave", "pause", "check", "undo", "resume", "again", "last", "start", "stop"}
Requests == [cmd : {"get_running", "pause", "resume", "start", "stop"}, fresh : BOOLEAN]
Places == {"none", "top", "predicate", "falling", "blocked", "awake", "batch", "holding", "input",
           "release", "swept", "rest", "ended"}

CallTypes ==
    /\ on \in BOOLEAN /\ stopping \in BOOLEAN /\ switches \in 0..MaxSwitches
    /\ op \in [Callers -> Operations] /\ phase \in [Callers -> {"none", "lock", "wait"}]
    /\ tries \in [Clients -> Nat] /\ rounds \in [Clients -> 0..MaxRounds]
    /\ depth \in 0..Cardinality(Clients) /\ wasRunning \in BOOLEAN /\ astray \in BOOLEAN
    /\ holder \in Callers \cup {None} /\ pipe \in Seq(Requests)
    /\ reply \in BOOLEAN \cup {None} /\ job \in Requests \cup {None}

EngineTypes ==
    /\ wpc \in {"idle", "pausing", "withdrawing", "joining"} /\ promised \in BOOLEAN /\ left \in BOOLEAN
    /\ running \in BOOLEAN /\ stopReq \in BOOLEAN /\ pauseReq \in BOOLEAN /\ paused \in BOOLEAN
    /\ loop \in Places /\ index \in 0..Windows /\ batchEnd \in 0..Windows
    /\ held \subseteq 0..Windows

TypeOK == CallTypes /\ EngineTypes

(***************************************************************************)
(* Once the engine has granted a pause, it gives no window input and has   *)
(* given back what it asked of BES, until somebody asks it for something   *)
(* else: also if the pause comes right after a resume, while the loop is   *)
(* still waking up and paused_ is left from the pause before.  A pause     *)
(* that was given up after its 30 seconds is no promise, whatever it       *)
(* returns (pause_antiafk, antiafk_loop_thread).                           *)
(***************************************************************************)
PauseQuiets == promised => loop # "input" /\ held = {}

(***************************************************************************)
(* With throttling lifted for a batch, a window gets input only while its  *)
(* process is among those held, also when the batch was cut by a pause     *)
(* and goes on after it (antiafk_loop_thread).                             *)
(***************************************************************************)
InputIsHeld == Unthrottle /\ loop = "input" => index \in held

(***************************************************************************)
(* When nobody plays and no call is under way, Anti-AFK is not left        *)
(* paused, whichever calls timed out, overlapped, or met a switch          *)
(* (_auto_item_pause_antiafk, _auto_item_resume_antiafk), but for two      *)
(* cases: a client guessed wrongly from old news that nothing was running; *)
(* or the last client left its pause to the stop that a manager sends when *)
(* it ends (11975), and none was sent since, as after a pause that was     *)
(* cancelled (23242).                                                      *)
(***************************************************************************)
AtRest == /\ \A c \in Callers : op[c] = "idle"
          /\ pipe = <<>> /\ wpc = "idle"
NotLeftPaused == AtRest /\ ~astray /\ ~left => ~pauseReq

(***************************************************************************)
(* Every call of a client to the engine returns, also when the loop has    *)
(* missed its notification and the worker waits for it for ever (_rpc).    *)
(***************************************************************************)
CallsReturn == \A c \in Clients : phase[c] # "none" ~> phase[c] = "none"

=============================================================================
