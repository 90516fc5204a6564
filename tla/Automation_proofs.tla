--------------------------- MODULE Automation_proofs ---------------------------
(***************************************************************************)
(* The two engines that play input, and need nothing of each other.        *)
(*                                                                         *)
(* Anti-AFK: what the engine promises while it is paused, what it holds    *)
(* while it plays, and that it is not left paused.                         *)
(*                                                                         *)
(* The invariant has three parts.  EngineInv relates the loop thread, the  *)
(* atomics and the command the worker is at; it is all that the first two  *)
(* properties need.  ChannelInv relates the calls, the lock of the pipe    *)
(* and the commands on their way: who waits is the one who holds the lock, *)
(* the only command somebody waits for is the last one, and an answer that *)
(* has not been read comes from an idle worker.  OwedInv is the reason why *)
(* nobody stays paused: whenever the request stands, somebody is about to  *)
(* learn of it, or counts it and will take it back, or has sent or will    *)
(* send the command that does.  A pause still on its way needs the same    *)
(* promise before it is executed.                                          *)
(*                                                                         *)
(* Auto-Actions: a trigger event fires once, what is marked rests, and no  *)
(* row starts on a process that was killed.  ActionInv has the types, who  *)
(* has the action lock (LockInv), and that processes and events which are  *)
(* named somewhere have been given out (PastPids, PastSeqs).  On top of it *)
(* stand RestInv and QuietInv, the latter for tests that do not kill.      *)
(***************************************************************************)
EXTENDS AntiAfk, AutoActions, FiniteSetTheorems, TLAPS

-----------------------------------------------------------------------------
(* The invariant: the engine *)

\* Where the loop thread may hold processes unthrottled ...
InBatch == {"holding", "input", "release"}

\* ... and where it has said that it is paused.
Parked == {"predicate", "falling", "blocked", "awake"}

\* Nothing is held outside a batch, and an engine that does not run has no loop.
HeldInBatch ==
    /\ loop \notin InBatch => held = {}
    /\ ~running => loop \in {"none", "ended"}

\* The loop says that it is paused only where it gives no input.
PausedIsParked == paused => loop \in Parked

\* The command the worker is at, and what it has done to the flags.
JobFits ==
    /\ wpc # "idle" => job \in Requests /\ ~promised
    /\ wpc \in {"pausing", "withdrawing"} => job.cmd = "pause"
    /\ wpc = "joining" => job.cmd = "stop" /\ ~pauseReq
    /\ wpc = "pausing" => pauseReq
    /\ stopReq => wpc = "joining"

\* A granted pause is still asked for, and the loop is not inside a batch.
PromiseStands == promised => pauseReq /\ loop \notin InBatch

\* Only an engine that runs is asked to pause.
PauseIsOfRunning == pauseReq => running

\* What a batch still has to do is held.
BatchIsHeld ==
    /\ loop = "batch" => index < Windows
    /\ loop \in {"holding", "input"} => index < batchEnd
    /\ Unthrottle /\ loop \in {"holding", "input"} => index..(batchEnd - 1) \subseteq held

EngineInv ==
    /\ HeldInBatch /\ PausedIsParked /\ JobFits /\ PromiseStands /\ PauseIsOfRunning /\ BatchIsHeld

-----------------------------------------------------------------------------
(* The invariant: the calls *)

\* The clients that play.
Acting == {c \in Clients : op[c] = "act"}

\* Pauses are counted only for those who play.
DepthCounts == depth <= Cardinality(Acting)

\* A task carries out its switch, once there is one, and a stop to come has its task.
TaskFits ==
    /\ \A t \in Tasks : op[t] \in {"idle", "start", "stop"} /\ (t > switches => op[t] = "idle")
    /\ stopping => switches < MaxSwitches

\* Without a call: ...
Silent == {"idle", "act", "leave"}

\* ... who calls has something to ask.
PhaseFits == \A c \in Callers : phase[c] # "none" => op[c] \notin Silent

\* Who waits for an answer holds the lock, and nobody else does.
LockIsHeld == \A c \in Callers : phase[c] = "wait" <=> holder = c

\* An answer nobody has read is all there is; "no" to the question was true and still is.
ReplyIsLast ==
    /\ reply # None => pipe = <<>> /\ wpc = "idle" /\ holder # None
    /\ reply = FALSE /\ Asks(op[holder]) => ~running

\* The one command somebody waits for is the last on the way, and the holder sent it ...
FreshIsLast ==
    \A i \in DOMAIN pipe : pipe[i].fresh =>
        i = Len(pipe) /\ holder # None /\ reply = None /\ pipe[i].cmd = Command(op[holder])

\* ... or the worker is at it, and nothing is on the way.
FreshJob ==
    wpc # "idle" /\ job.fresh =>
        pipe = <<>> /\ holder # None /\ reply = None /\ job.cmd = Command(op[holder])

\* A holder has its answer, or its command is on the way or in work.
HolderIsServed ==
    holder # None /\ reply = None =>
        \/ pipe # <<>> /\ pipe[Len(pipe)].fresh
        \/ wpc # "idle" /\ job.fresh

ChannelInv ==
    /\ DepthCounts /\ TaskFits /\ PhaseFits /\ LockIsHeld
    /\ ReplyIsLast /\ FreshIsLast /\ FreshJob /\ HolderIsServed

-----------------------------------------------------------------------------
(* The invariant: what is owed *)

\* A command of these kinds is on the way.
Sent(cmds) == \E i \in DOMAIN pipe : pipe[i].cmd \in cmds

\* Somebody asks for a pause, or whether one is needed, or is about to take one back.
Answerable ==
    \E c \in Clients : op[c] \in {"pause", "check"} \/ (op[c] = "undo" /\ phase[c] = "lock")

\* The last batch has ended and its resume is about to be sent, or to be left to the stop.
Resuming == \E c \in Clients : op[c] = "leave" \/ (op[c] = "resume" /\ phase[c] = "lock")

\* A stop is about to be sent.
Stopping == \E t \in Tasks : op[t] = "stop" /\ phase[t] = "lock"

\* A pause on its way is followed by what undoes it, unless its caller is still to decide.
SentIsUndone ==
    ~astray /\ ~Answerable =>
        \A i \in DOMAIN pipe : pipe[i].cmd = "pause" =>
            \E j \in DOMAIN pipe : j > i /\ pipe[j].cmd \in {"resume", "stop"}

\* A pause that is asked for is somebody's to take back, if it was not left to a stop.
PauseIsOwed ==
    ~astray /\ ~left /\ pauseReq =>
        Answerable \/ Resuming \/ Stopping \/ depth > 0 \/ Sent({"resume", "stop"})

OwedInv == SentIsUndone /\ PauseIsOwed

IInv == TypeOK /\ EngineInv /\ ChannelInv /\ OwedInv

-----------------------------------------------------------------------------
(* The engine: the loop thread and the worker *)

\* The numbers among the constants.
LEMMA Numbers == Windows \in Nat \ {0} /\ BatchSize \in Nat \ {0}
BY AntiAfkAssumption

\* The window that ends a batch: beyond the one it begins with, and one there is.
LEMMA BatchEndBounds ==
  ASSUME EngineTypes, index < Windows
  PROVE  index < BatchEnd /\ BatchEnd \in 0..Windows
BY Numbers DEF EngineTypes, BatchEnd

\* What a step of the loop does: it never touches a request, and only stops when asked.
LEMMA LoopEngine ==
  ASSUME EngineTypes, EngineInv, Loop
  PROVE  /\ EngineTypes' /\ EngineInv'
         /\ pauseReq' = pauseReq /\ stopReq' = stopReq /\ (running' => running)
<1> USE Numbers DEF EngineTypes, EngineInv, flags, sweep
<1>0. job' = job /\ wpc' = wpc /\ promised' = promised /\ left' = left
  BY DEF Loop, worker
<1>1. CASE TopStops \/ AwakeStops
  <2>1. EngineTypes'
    <3>1. /\ running' = FALSE /\ paused' = FALSE /\ UNCHANGED <<stopReq, pauseReq>>
          /\ loop' = "ended" /\ index' = Windows /\ batchEnd' = 0 /\ held' = {}
      BY <1>1 DEF TopStops, AwakeStops, End, NoSweep
    <3>2. /\ running' \in BOOLEAN /\ paused' \in BOOLEAN /\ stopReq' \in BOOLEAN
          /\ pauseReq' \in BOOLEAN
      BY <3>1, Zenon DEF EngineTypes
    <3>3. index' \in 0..Windows /\ batchEnd' \in 0..Windows /\ held' \subseteq 0..Windows
      BY <3>1
    <3> QED
      BY <1>0, <3>1, <3>2, <3>3 DEF Places
  <2>2. HeldInBatch' /\ PausedIsParked'
    BY <1>0, <1>1 DEF HeldInBatch, PausedIsParked, InBatch, Parked, TopStops, AwakeStops, End, NoSweep
  <2>5. JobFits'
    BY <1>0, <1>1 DEF JobFits, TopStops, AwakeStops, End, NoSweep
  <2>3. PromiseStands' /\ PauseIsOfRunning'
    BY <1>0, <1>1 DEF PromiseStands, PauseIsOfRunning, JobFits, InBatch, TopStops, AwakeStops, End, NoSweep
  <2>6. BatchIsHeld'
    BY <1>0, <1>1 DEF BatchIsHeld, TopStops, AwakeStops, End, NoSweep
  <2>4. pauseReq' = pauseReq /\ stopReq' = stopReq /\ (running' => running)
    BY <1>1 DEF TopStops, AwakeStops, End, NoSweep
  <2> QED
    BY <2>1, <2>2, <2>3, <2>4, <2>5, <2>6
<1>2. CASE TopPauses \/ Predicate \/ FallAsleep
  <2>1. EngineTypes'
    BY <1>0, <1>2 DEF BatchIsHeld, Places, TopPauses, Predicate, FallAsleep, Goto
  <2>2. HeldInBatch' /\ PausedIsParked'
    BY <1>0, <1>2 DEF HeldInBatch, PausedIsParked, InBatch, Parked, TopPauses, Predicate, FallAsleep, Goto
  <2>5. JobFits'
    BY <1>0, <1>2 DEF JobFits, TopPauses, Predicate, FallAsleep, Goto
  <2>3. PromiseStands' /\ PauseIsOfRunning'
    BY <1>0, <1>2 DEF PromiseStands, PauseIsOfRunning, JobFits, InBatch, TopPauses, Predicate, FallAsleep, Goto
  <2>6. BatchIsHeld'
    BY <1>0, <1>2 DEF BatchIsHeld, TopPauses, Predicate, FallAsleep, Goto
  <2>4. pauseReq' = pauseReq /\ stopReq' = stopReq /\ (running' => running)
    BY <1>2 DEF TopPauses, Predicate, FallAsleep, Goto
  <2> QED
    BY <2>1, <2>2, <2>3, <2>4, <2>5, <2>6
<1>3. CASE TopWorks \/ AwakeWorks
  <2>1. EngineTypes'
    <3>1. /\ running' \in BOOLEAN /\ stopReq' \in BOOLEAN /\ pauseReq' \in BOOLEAN
          /\ paused' \in BOOLEAN
      BY <1>3 DEF TopWorks, AwakeWorks, Work, InSweep
    <3>2. loop' \in Places
      BY <1>3 DEF Places, TopWorks, AwakeWorks, Work, InSweep
    <3>3. index' \in 0..Windows /\ batchEnd' \in 0..Windows /\ held' \subseteq 0..Windows
      <4>1. held' = held /\ batchEnd' = batchEnd /\ index' \in {index, 0}
        BY <1>3 DEF TopWorks, AwakeWorks, Work
      <4> QED
        BY <4>1
    <3> QED
      BY <1>0, <3>1, <3>2, <3>3
  <2>2. HeldInBatch' /\ PausedIsParked'
    <3>1. HeldInBatch'
      BY <1>3 DEF HeldInBatch, InBatch, TopWorks, AwakeWorks, Work, InSweep
    <3>2. PausedIsParked'
      BY <1>3 DEF PausedIsParked, Parked, TopWorks, AwakeWorks, Work, InSweep
    <3> QED
      BY <3>1, <3>2
  <2>5. JobFits'
    BY <1>0, <1>3 DEF JobFits, TopWorks, AwakeWorks, Work, InSweep
  <2>3. PromiseStands' /\ PauseIsOfRunning'
    BY <1>0, <1>3 DEF PromiseStands, PauseIsOfRunning, JobFits, InBatch, TopWorks, AwakeWorks, Work, InSweep
  <2>6. BatchIsHeld'
    BY <1>0, <1>3 DEF BatchIsHeld, TopWorks, AwakeWorks, Work, InSweep
  <2>4. pauseReq' = pauseReq /\ stopReq' = stopReq /\ (running' => running)
    BY <1>3 DEF TopWorks, AwakeWorks, Work, InSweep
  <2> QED
    BY <2>1, <2>2, <2>3, <2>4, <2>5, <2>6
<1>4. CASE BatchInterrupted \/ Rest
  <2>1. EngineTypes'
    BY <1>0, <1>4 DEF BatchIsHeld, Places, BatchInterrupted, Rest, Goto
  <2>2. HeldInBatch' /\ PausedIsParked'
    <3>1. HeldInBatch'
      BY <1>4 DEF HeldInBatch, InBatch, BatchInterrupted, Rest, Goto
    <3>2. PausedIsParked'
      BY <1>4 DEF PausedIsParked, Parked, BatchInterrupted, Rest, Goto
    <3> QED
      BY <3>1, <3>2
  <2>5. JobFits'
    BY <1>0, <1>4 DEF JobFits, BatchInterrupted, Rest, Goto
  <2>3. PromiseStands' /\ PauseIsOfRunning'
    BY <1>0, <1>4 DEF PromiseStands, PauseIsOfRunning, JobFits, InBatch, BatchInterrupted, Rest, Goto
  <2>6. BatchIsHeld'
    BY <1>0, <1>4 DEF BatchIsHeld, BatchInterrupted, Rest, Goto
  <2>4. pauseReq' = pauseReq /\ stopReq' = stopReq /\ (running' => running)
    BY <1>4 DEF BatchInterrupted, Rest, Goto
  <2> QED
    BY <2>1, <2>2, <2>3, <2>4, <2>5, <2>6
<1>5. CASE BatchBegins
  <2>1. index < BatchEnd /\ BatchEnd \in 0..Windows
    BY <1>5, BatchEndBounds DEF BatchBegins, BatchIsHeld
  <2>2. ~pauseReq /\ ~promised
    BY <1>5 DEF BatchBegins, Interrupted, PromiseStands
  <2>3. CASE Unthrottle
    <3>1. held' = Held /\ loop' = "holding" /\ batchEnd' = BatchEnd /\ UNCHANGED <<flags, index>>
      BY <1>5, <2>3 DEF BatchBegins
    <3>2. held' = index..(batchEnd' - 1) /\ held' \subseteq 0..Windows
      BY <2>1, <3>1 DEF Held
    <3> QED
      BY <1>0, <1>5, <2>1, <2>2, <3>1, <3>2
         DEF BatchBegins, HeldInBatch, PausedIsParked, JobFits, PromiseStands, PauseIsOfRunning,
             BatchIsHeld, InBatch, Parked, Places
  <2>4. CASE ~Unthrottle
    <3>1. held' = held /\ loop' = "input" /\ batchEnd' = BatchEnd /\ UNCHANGED <<flags, index>>
      BY <1>5, <2>4 DEF BatchBegins
    <3> QED
      BY <1>0, <1>5, <2>1, <2>2, <2>4, <3>1
         DEF BatchBegins, HeldInBatch, PausedIsParked, JobFits, PromiseStands, PauseIsOfRunning,
             BatchIsHeld, InBatch, Parked, Places
  <2> QED
    BY <2>3, <2>4
<1>6. CASE HoldGranted \/ EndInput
  <2>1. EngineTypes'
    <3>1. /\ running' \in BOOLEAN /\ stopReq' \in BOOLEAN /\ pauseReq' \in BOOLEAN
          /\ paused' \in BOOLEAN
      BY <1>6 DEF HoldGranted, EndInput, GoOn, Interrupted
    <3>2. loop' \in Places
      BY <1>6 DEF Places, HoldGranted, EndInput, GoOn, Interrupted
    <3>3. index' \in 0..Windows /\ batchEnd' \in 0..Windows /\ held' \subseteq 0..Windows
      <4>1. /\ held' = held /\ batchEnd' = batchEnd
            /\ index' = index \/ (index' = index + 1 /\ loop = "input")
        BY <1>6 DEF HoldGranted, EndInput
      <4>2. loop = "input" => index < batchEnd
        BY DEF BatchIsHeld
      <4> QED
        BY <4>1, <4>2
    <3> QED
      BY <1>0, <3>1, <3>2, <3>3
  <2>2. HeldInBatch' /\ PausedIsParked'
    BY <1>0, <1>6 DEF HeldInBatch, PausedIsParked, InBatch, Parked, HoldGranted, EndInput, GoOn, Interrupted
  <2>5. JobFits'
    BY <1>0, <1>6 DEF JobFits, HoldGranted, EndInput, GoOn, Interrupted
  <2>3. PromiseStands' /\ PauseIsOfRunning'
    BY <1>0, <1>6 DEF PromiseStands, PauseIsOfRunning, JobFits, InBatch, HoldGranted, EndInput, GoOn, Interrupted
  <2>6. BatchIsHeld'
    BY <1>0, <1>6 DEF BatchIsHeld, HoldGranted, EndInput, GoOn, Interrupted
  <2>4. pauseReq' = pauseReq /\ stopReq' = stopReq /\ (running' => running)
    BY <1>6 DEF HoldGranted, EndInput, GoOn, Interrupted
  <2> QED
    BY <2>1, <2>2, <2>3, <2>4, <2>5, <2>6
<1>7. CASE HoldFails \/ AbortInput
  <2>1. EngineTypes'
    BY <1>0, <1>7 DEF BatchIsHeld, Places, HoldFails, AbortInput, Goto
  <2>2. HeldInBatch' /\ PausedIsParked'
    BY <1>0, <1>7 DEF HeldInBatch, PausedIsParked, InBatch, Parked, HoldFails, AbortInput, Goto
  <2>5. JobFits'
    BY <1>0, <1>7 DEF JobFits, HoldFails, AbortInput, Goto
  <2>3. PromiseStands' /\ PauseIsOfRunning'
    BY <1>0, <1>7 DEF PromiseStands, PauseIsOfRunning, JobFits, InBatch, HoldFails, AbortInput, Goto
  <2>6. BatchIsHeld'
    BY <1>0, <1>7 DEF BatchIsHeld, HoldFails, AbortInput, Goto
  <2>4. pauseReq' = pauseReq /\ stopReq' = stopReq /\ (running' => running)
    BY <1>7 DEF HoldFails, AbortInput, Goto
  <2> QED
    BY <2>1, <2>2, <2>3, <2>4, <2>5, <2>6
<1>9. CASE SweepEnds
  <2>1. EngineTypes'
    BY <1>0, <1>9 DEF Places, SweepEnds
  <2>2. HeldInBatch' /\ PausedIsParked'
    BY <1>0, <1>9 DEF HeldInBatch, PausedIsParked, InBatch, Parked, SweepEnds
  <2>5. JobFits'
    BY <1>0, <1>9 DEF JobFits, SweepEnds
  <2>3. PromiseStands' /\ PauseIsOfRunning'
    BY <1>0, <1>9 DEF PromiseStands, PauseIsOfRunning, InBatch, SweepEnds
  <2>6. BatchIsHeld'
    BY <1>0, <1>9 DEF BatchIsHeld, SweepEnds
  <2>4. pauseReq' = pauseReq /\ stopReq' = stopReq /\ (running' => running)
    BY <1>9 DEF SweepEnds
  <2> QED
    BY <2>1, <2>2, <2>3, <2>4, <2>5, <2>6
<1>8. CASE Release
  <2>1. EngineTypes'
    BY <1>0, <1>8 DEF BatchIsHeld, Places, Release, InSweep
  <2>2. HeldInBatch' /\ PausedIsParked'
    BY <1>0, <1>8 DEF HeldInBatch, PausedIsParked, InBatch, Parked, Release, InSweep
  <2>5. JobFits'
    BY <1>0, <1>8 DEF JobFits, Release, InSweep
  <2>3. PromiseStands' /\ PauseIsOfRunning'
    BY <1>0, <1>8 DEF PromiseStands, PauseIsOfRunning, JobFits, InBatch, Release, InSweep
  <2>6. BatchIsHeld'
    BY <1>0, <1>8 DEF BatchIsHeld, Release, InSweep
  <2>4. pauseReq' = pauseReq /\ stopReq' = stopReq /\ (running' => running)
    BY <1>8 DEF Release, InSweep
  <2> QED
    BY <2>1, <2>2, <2>3, <2>4, <2>5, <2>6
<1> QED
  BY <1>1, <1>2, <1>3, <1>4, <1>5, <1>6, <1>7, <1>8, <1>9 DEF Loop

\* The answer of the worker: only a caller that still waits gets it.
LEMMA AnswerEffect ==
  ASSUME NEW request, NEW result, Answer(request, result)
  PROVE  /\ \/ request.fresh /\ reply' = result
            \/ ~request.fresh /\ reply' = reply
         /\ job' = None /\ wpc' = "idle"
<1>1. CASE request.fresh
  BY <1>1, Zenon DEF Answer
<1>2. CASE ~request.fresh
  BY <1>2, Zenon DEF Answer
<1> QED
  BY <1>1, <1>2

\* The notification wakes the loop where it sleeps.
LEMMA NotifyEffect ==
  ASSUME NotifyLoop
  PROVE  loop' = loop \/ (loop = "blocked" /\ loop' = "predicate")
BY DEF NotifyLoop

\* The command the worker takes is the head of the pipe; the rest moves up.
LEMMA TakeEffect ==
  ASSUME pipe \in Seq(Requests), NEW cmd, Take(cmd)
  PROVE  /\ wpc = "idle"
         /\ Len(pipe) \in Nat \ {0} /\ Head(pipe) = pipe[1]
         /\ pipe[1] \in Requests /\ pipe[1].cmd = cmd
         /\ pipe' \in Seq(Requests) /\ Len(pipe') = Len(pipe) - 1
         /\ \A i \in 1..Len(pipe') : pipe'[i] = pipe[i + 1]
BY DEF Take

\* The flags after a command that leaves the engine as it is.
LEMMA EngineUnchanged ==
  ASSUME EngineTypes, EngineInv, wpc = "idle", wpc' = "idle", UNCHANGED <<promised, left, flags, loop, sweep>>
  PROVE  EngineTypes' /\ EngineInv'
<1> USE DEF EngineTypes, EngineInv, flags, sweep
<1>1. EngineTypes'
  OBVIOUS
<1>2. HeldInBatch' /\ PausedIsParked' /\ PromiseStands' /\ PauseIsOfRunning' /\ BatchIsHeld'
  BY DEF HeldInBatch, PausedIsParked, PromiseStands, PauseIsOfRunning, BatchIsHeld
<1>3. JobFits'
  BY DEF JobFits
<1> QED
  BY <1>1, <1>2, <1>3

\* What the worker does to the engine, command by command.
LEMMA WorkerEngine ==
  ASSUME CallTypes, EngineTypes, EngineInv, Worker
  PROVE  EngineTypes' /\ EngineInv'
<1> USE DEF EngineTypes, EngineInv, flags, sweep
<1>0. pipe \in Seq(Requests)
  BY DEF CallTypes
<1>1. CASE GetRunning \/ StopNothing \/ PauseNothing
  <2>1. PICK cmd : Take(cmd)
    BY <1>1 DEF GetRunning, StopNothing, PauseNothing
  <2>2. wpc = "idle" /\ wpc' = "idle" /\ UNCHANGED <<promised, left, flags, loop, sweep>>
    BY <1>0, <1>1, <2>1, TakeEffect DEF GetRunning, StopNothing, PauseNothing, Answer
  <2> QED
    BY <2>2, EngineUnchanged
<1>2. CASE Resume
  <2>1. wpc = "idle" /\ wpc' = "idle" /\ promised' = FALSE
    BY <1>0, <1>2, TakeEffect DEF Resume, Answer
  <2>2. /\ UNCHANGED <<running, stopReq, paused, sweep>>
        /\ pauseReq' \in BOOLEAN /\ (pauseReq' => pauseReq) /\ left' \in BOOLEAN
        /\ loop' = loop \/ (loop = "blocked" /\ loop' = "predicate")
    <3>1. CASE running
      BY <1>2, <3>1, NotifyEffect DEF Resume
    <3>2. CASE ~running
      BY <1>2, <3>2 DEF Resume
    <3> QED
      BY <3>1, <3>2
  <2>3. EngineTypes'
    BY <2>1, <2>2 DEF Places
  <2>4. HeldInBatch' /\ PausedIsParked'
    BY <2>2 DEF HeldInBatch, PausedIsParked, InBatch, Parked
  <2>5. JobFits' /\ PromiseStands' /\ PauseIsOfRunning'
    BY <2>1, <2>2 DEF JobFits, PromiseStands, PauseIsOfRunning
  <2>6. BatchIsHeld'
    BY <2>2 DEF BatchIsHeld
  <2> QED
    BY <2>3, <2>4, <2>5, <2>6
<1>3. CASE Start
  <2>1. wpc = "idle" /\ wpc' = "idle"
    BY <1>0, <1>3, TakeEffect DEF Start, Answer
  <2>2. CASE running
    <3>1. UNCHANGED <<promised, left, flags, loop, sweep>>
      BY <1>3, <2>2 DEF Start
    <3> QED
      BY <2>1, <3>1, EngineUnchanged
  <2>3. CASE ~running
    <3>1. /\ promised' = FALSE /\ running' = TRUE /\ stopReq' = FALSE /\ pauseReq' = FALSE
          /\ paused' = FALSE /\ left' = FALSE /\ loop' = "top" /\ UNCHANGED sweep
      BY <1>3, <2>3 DEF Start
    <3>5. held = {}
      BY <2>3 DEF HeldInBatch, InBatch
    <3>2. EngineTypes'
      <4>1. loop' \in Places /\ wpc' \in {"idle", "pausing", "withdrawing", "joining"}
        BY <2>1, <3>1 DEF Places
      <4>2. /\ promised' \in BOOLEAN /\ running' \in BOOLEAN /\ stopReq' \in BOOLEAN
            /\ pauseReq' \in BOOLEAN /\ paused' \in BOOLEAN /\ left' \in BOOLEAN
        BY <3>1
      <4>3. index' \in 0..Windows /\ batchEnd' \in 0..Windows /\ held' \subseteq 0..Windows
        BY <3>1
      <4> QED
        BY <4>1, <4>2, <4>3
    <3>3. HeldInBatch' /\ PausedIsParked' /\ JobFits' /\ PromiseStands' /\ PauseIsOfRunning'
      BY <2>1, <3>1, <3>5 DEF HeldInBatch, PausedIsParked, JobFits, PromiseStands, PauseIsOfRunning, InBatch
    <3>4. BatchIsHeld'
      BY <3>1 DEF BatchIsHeld
    <3> QED
      BY <3>2, <3>3, <3>4
  <2> QED
    BY <2>2, <2>3
<1>4. CASE Stop \/ Pause
  <2>1. PICK cmd \in {"stop", "pause"} :
          /\ Take(cmd) /\ job' = Head(pipe) /\ promised' = FALSE /\ running
          /\ wpc' = IF cmd = "stop" THEN "joining" ELSE "pausing"
          /\ cmd = "stop" => pauseReq' = FALSE /\ paused' = FALSE /\ stopReq' = TRUE /\ left' = FALSE
          /\ cmd = "pause" => pauseReq' = TRUE /\ UNCHANGED <<stopReq, paused, left>>
    BY <1>4 DEF Stop, Pause
  <2>2. job' \in Requests /\ job'.cmd = cmd /\ wpc = "idle"
    BY <1>0, <2>1, TakeEffect
  <2>3. /\ UNCHANGED <<running, sweep>>
        /\ loop' = loop \/ (loop = "blocked" /\ loop' = "predicate")
    BY <1>4, NotifyEffect DEF Stop, Pause
  <2>4. /\ pauseReq' \in BOOLEAN /\ paused' \in BOOLEAN /\ stopReq' \in BOOLEAN /\ (paused' => paused)
        /\ left' \in BOOLEAN
    <3>1. CASE cmd = "stop"
      BY <2>1, <3>1
    <3>2. CASE cmd = "pause"
      BY <2>1, <3>2
    <3> QED
      BY <3>1, <3>2
  <2>5. EngineTypes'
    BY <2>1, <2>3, <2>4 DEF Places
  <2>6. HeldInBatch' /\ PausedIsParked'
    BY <2>3, <2>4 DEF HeldInBatch, PausedIsParked, InBatch, Parked
  <2>7. JobFits'
    BY <2>1, <2>2 DEF JobFits
  <2>8. PromiseStands' /\ PauseIsOfRunning'
    BY <2>1, <2>3 DEF PromiseStands, PauseIsOfRunning
  <2>9. BatchIsHeld'
    BY <2>3 DEF BatchIsHeld
  <2> QED
    BY <2>5, <2>6, <2>7, <2>8, <2>9
<1>5. CASE Joined
  <2>1. /\ wpc = "joining" /\ wpc' = "idle" /\ loop = "ended" /\ loop' = "none"
        /\ running' = FALSE /\ stopReq' = FALSE /\ pauseReq' = FALSE /\ paused' = FALSE
        /\ promised' = promised /\ left' = left /\ UNCHANGED sweep
    BY <1>5 DEF Joined, Answer
  <2>2. EngineTypes'
    BY <2>1 DEF Places
  <2>3. HeldInBatch' /\ PausedIsParked' /\ JobFits' /\ PromiseStands' /\ PauseIsOfRunning'
    BY <2>1 DEF HeldInBatch, PausedIsParked, JobFits, PromiseStands, PauseIsOfRunning, InBatch
  <2>4. BatchIsHeld'
    BY <2>1 DEF BatchIsHeld
  <2> QED
    BY <2>2, <2>3, <2>4
<1>6. CASE Paused
  <2>1. wpc = "pausing" /\ wpc' = "idle" /\ promised' = paused /\ UNCHANGED <<left, flags, loop, sweep>>
    BY <1>6 DEF Paused, Answer
  <2>2. EngineTypes'
    BY <2>1
  <2>3. HeldInBatch' /\ PausedIsParked' /\ PauseIsOfRunning'
    BY <2>1 DEF HeldInBatch, PausedIsParked, PauseIsOfRunning
  <2>4. JobFits'
    BY <2>1 DEF JobFits
  <2>5. PromiseStands'
    BY <2>1 DEF PromiseStands, JobFits, PausedIsParked, Parked, InBatch
  <2>6. BatchIsHeld'
    BY <2>1 DEF BatchIsHeld
  <2> QED
    BY <2>2, <2>3, <2>4, <2>5, <2>6
<1>7. CASE PauseTimesOut
  <2>1. /\ wpc = "pausing" /\ wpc' = "withdrawing"
        /\ UNCHANGED <<job, promised, left, flags, loop, sweep>>
    BY <1>7 DEF PauseTimesOut
  <2>2. EngineTypes'
    BY <2>1
  <2>3. HeldInBatch' /\ PausedIsParked' /\ PromiseStands' /\ PauseIsOfRunning' /\ BatchIsHeld'
    BY <2>1 DEF HeldInBatch, PausedIsParked, PromiseStands, PauseIsOfRunning, BatchIsHeld
  <2>4. JobFits'
    BY <2>1 DEF JobFits
  <2> QED
    BY <2>2, <2>3, <2>4
<1>8. CASE Withdraw
  <2>1. /\ wpc = "withdrawing" /\ wpc' = "idle" /\ pauseReq' = FALSE /\ left' = FALSE
        /\ UNCHANGED <<promised, running, stopReq, paused, sweep>>
        /\ loop' = loop \/ (loop = "blocked" /\ loop' = "predicate")
    BY <1>8, NotifyEffect DEF Withdraw, Answer
  <2>2. EngineTypes'
    BY <2>1 DEF Places
  <2>3. HeldInBatch' /\ PausedIsParked'
    BY <2>1 DEF HeldInBatch, PausedIsParked, InBatch, Parked
  <2>4. JobFits' /\ PromiseStands' /\ PauseIsOfRunning'
    BY <2>1 DEF JobFits, PromiseStands, PauseIsOfRunning
  <2>5. BatchIsHeld'
    BY <2>1 DEF BatchIsHeld
  <2> QED
    BY <2>2, <2>3, <2>4, <2>5
<1> QED
  BY <1>1, <1>2, <1>3, <1>4, <1>5, <1>6, <1>7, <1>8 DEF Worker

\* Which command an operation sends.
LEMMA CommandIs ==
  ASSUME NEW o \in Operations
  PROVE  /\ (Command(o) = "get_running") <=> Asks(o)
         /\ (Command(o) = "pause") <=> (o = "pause")
         /\ o \in {"undo", "resume"} => Command(o) = "resume"
         /\ o \in {"start", "stop"} => Command(o) = o
         /\ o \notin Silent => Command(o) \in {"get_running", "pause", "resume", "start", "stop"}
<1> USE DEF Operations, Silent
<1>1. CASE Asks(o)
  <2>2. o \in {"check", "again", "last"}
    BY <1>1 DEF Asks
  <2>1. Command(o) = "get_running"
    BY <1>1, <2>2 DEF Command
  <2> QED
    BY <1>1, <2>1, <2>2
<1>2. CASE o \in {"undo", "resume"}
  <2>1. ~Asks(o)
    BY <1>2 DEF Asks
  <2>2. Command(o) = "resume"
    BY <1>2, <2>1 DEF Command
  <2> QED
    BY <1>2, <2>1, <2>2
<1>3. CASE ~Asks(o) /\ o \notin {"undo", "resume"}
  <2>1. Command(o) = o
    BY <1>3 DEF Command
  <2>2. o \in {"idle", "act", "leave", "pause", "start", "stop"}
    BY <1>3 DEF Asks
  <2> QED
    BY <1>3, <2>1, <2>2
<1> QED
  BY <1>1, <1>2, <1>3

\* Everybody who plays is counted by a finite number.
LEMMA ActingFinite ==
  IsFiniteSet(Acting) /\ Cardinality(Acting) \in Nat /\ Cardinality(Acting) <= Cardinality(Clients)
  /\ Cardinality(Clients) \in Nat
<1>1. IsFiniteSet(Clients) /\ Acting \subseteq Clients
  BY AntiAfkAssumption DEF Acting
<1> QED
  BY <1>1, FS_Subset, FS_CardinalityType

\* A client that begins to play is one more ...
LEMMA ActingEntered ==
  ASSUME CallTypes, NEW c \in Clients, op[c] # "act", op' = [op EXCEPT ![c] = "act"]
  PROVE  Cardinality(Acting') = Cardinality(Acting) + 1
<1>1. Acting' = Acting \cup {c} /\ c \notin Acting
  BY DEF Acting, CallTypes, Callers
<1> QED
  BY <1>1, ActingFinite, FS_AddElement

\* ... one less ...
LEMMA ActingLeft ==
  ASSUME CallTypes, NEW c \in Clients, op[c] = "act", NEW o, o # "act", op' = [op EXCEPT ![c] = o]
  PROVE  Cardinality(Acting') = Cardinality(Acting) - 1
<1>1. Acting' = Acting \ {c} /\ c \in Acting
  BY DEF Acting, CallTypes, Callers
<1> QED
  BY <1>1, ActingFinite, FS_RemoveElement

\* ... and who neither begins nor ends changes nothing.
LEMMA ActingSame ==
  ASSUME CallTypes, NEW c \in Callers, op[c] # "act", NEW o, o # "act", op' = [op EXCEPT ![c] = o]
  PROVE  Acting' = Acting
BY DEF Acting, CallTypes, Callers

-----------------------------------------------------------------------------
(* The channel under the steps of the loop and of the worker *)

\* What these steps leave alone.
Calls == <<window, op, phase, tries, rounds, depth, wasRunning, holder>>

\* With them unchanged, what is only about the callers stands.
LEMMA CallsKept ==
  ASSUME ChannelInv, UNCHANGED Calls
  PROVE  DepthCounts' /\ TaskFits' /\ PhaseFits' /\ LockIsHeld'
<1> USE DEF ChannelInv, Calls, window
<1>1. DepthCounts'
  BY DEF DepthCounts, Acting
<1>2. TaskFits'
  BY DEF TaskFits
<1>3. PhaseFits' /\ LockIsHeld'
  BY DEF PhaseFits, LockIsHeld
<1> QED
  BY <1>1, <1>2, <1>3

\* The loop knows nothing of the calls; it only ends.
LEMMA LoopChannel ==
  ASSUME CallTypes, ChannelInv, UNCHANGED <<window, client, channel, worker>>, running' => running
  PROVE  CallTypes' /\ ChannelInv'
<1> USE DEF window, client, channel, worker
<1>1. CallTypes'
  BY DEF CallTypes
<1>2. DepthCounts' /\ TaskFits' /\ PhaseFits' /\ LockIsHeld'
  BY CallsKept DEF Calls
<1>3. ReplyIsLast'
  BY DEF ChannelInv, ReplyIsLast
<1>4. FreshIsLast' /\ FreshJob' /\ HolderIsServed'
  BY DEF ChannelInv, FreshIsLast, FreshJob, HolderIsServed
<1> QED
  BY <1>2, <1>1, <1>3, <1>4 DEF ChannelInv

\* A command that is answered at once.
LEMMA QuickChannel ==
  ASSUME CallTypes, ChannelInv, UNCHANGED Calls, astray' \in BOOLEAN,
         NEW cmd, NEW result \in BOOLEAN, Take(cmd), Answer(Head(pipe), result),
         cmd = "get_running" => result = running /\ running' = running
  PROVE  CallTypes' /\ ChannelInv'
<1>1. /\ wpc = "idle" /\ Len(pipe) \in Nat \ {0} /\ Head(pipe) = pipe[1]
      /\ pipe[1] \in Requests /\ pipe[1].cmd = cmd
      /\ pipe' \in Seq(Requests) /\ Len(pipe') = Len(pipe) - 1
      /\ \A i \in 1..Len(pipe') : pipe'[i] = pipe[i + 1]
  <2>1. pipe \in Seq(Requests)
    BY DEF CallTypes
  <2> QED
    BY <2>1, TakeEffect, Zenon
<1>2. /\ \/ pipe[1].fresh /\ reply' = result
         \/ ~pipe[1].fresh /\ reply' = reply
      /\ job' = None /\ wpc' = "idle"
  BY <1>1, AnswerEffect
<1>3. reply = None /\ pipe # <<>>
  BY <1>1 DEF ChannelInv, ReplyIsLast
<1>4. CallTypes'
  BY <1>1, <1>2 DEF CallTypes, Calls, window
<1>5. DepthCounts' /\ TaskFits' /\ PhaseFits' /\ LockIsHeld'
  BY CallsKept
<1>6. FreshJob'
  BY <1>2 DEF FreshJob
<1>7. op' = op /\ holder' = holder
  BY DEF Calls
<1>8. CASE pipe[1].fresh
  <2>1. Len(pipe) = 1 /\ holder # None /\ cmd = Command(op[holder])
    BY <1>1, <1>8 DEF ChannelInv, FreshIsLast
  <2>2. reply' = result /\ result # None /\ pipe' = <<>>
    BY <1>1, <1>2, <1>8, <2>1, AntiAfkAssumption
  <2>3. Asks(op[holder]) => result = running /\ running' = running
    <3>1. op[holder] \in Operations
      BY <2>1 DEF CallTypes
    <3> QED
      BY <2>1, <3>1, CommandIs
  <2>4. ReplyIsLast'
    BY <1>2, <1>7, <2>1, <2>2, <2>3 DEF ReplyIsLast
  <2>5. FreshIsLast' /\ HolderIsServed'
    BY <2>2 DEF FreshIsLast, HolderIsServed
  <2> QED
    BY <1>4, <1>5, <1>6, <2>4, <2>5 DEF ChannelInv
<1>9. CASE ~pipe[1].fresh
  <2>1. reply' = None
    BY <1>2, <1>3, <1>9
  <2>2. ReplyIsLast'
    BY <2>1, AntiAfkAssumption DEF ReplyIsLast
  <2>3. FreshIsLast'
    BY <1>1, <1>7, <2>1 DEF FreshIsLast, ChannelInv
  <2>4. HolderIsServed'
    BY <1>1, <1>7, <1>3, <1>9 DEF HolderIsServed, ChannelInv
  <2> QED
    BY <1>4, <1>5, <1>6, <2>2, <2>3, <2>4 DEF ChannelInv
<1> QED
  BY <1>8, <1>9

\* A command that waits for the loop.
LEMMA LongChannel ==
  ASSUME CallTypes, ChannelInv, UNCHANGED Calls, astray' \in BOOLEAN, reply' = reply,
         NEW cmd, Take(cmd), job' = Head(pipe), wpc' # "idle"
  PROVE  CallTypes' /\ ChannelInv'
<1>1. /\ wpc = "idle" /\ Len(pipe) \in Nat \ {0} /\ Head(pipe) = pipe[1]
      /\ pipe[1] \in Requests /\ pipe[1].cmd = cmd
      /\ pipe' \in Seq(Requests) /\ Len(pipe') = Len(pipe) - 1
      /\ \A i \in 1..Len(pipe') : pipe'[i] = pipe[i + 1]
  <2>1. pipe \in Seq(Requests)
    BY DEF CallTypes
  <2> QED
    BY <2>1, TakeEffect, Zenon
<1>2. job' = pipe[1]
  BY <1>1
<1>3. reply = None /\ pipe # <<>>
  BY <1>1 DEF ChannelInv, ReplyIsLast
<1>4. CallTypes'
  BY <1>1, <1>2 DEF CallTypes, Calls, window
<1>5. DepthCounts' /\ TaskFits' /\ PhaseFits' /\ LockIsHeld'
  BY CallsKept
<1>7. op' = op /\ holder' = holder
  BY DEF Calls
<1>6. FreshJob'
  <2>1. pipe[1].fresh => Len(pipe) = 1 /\ holder # None /\ cmd = Command(op[holder])
    BY <1>1 DEF ChannelInv, FreshIsLast
  <2>2. Len(pipe) = 1 => pipe' = <<>>
    BY <1>1
  <2> QED
    BY <1>1, <1>2, <1>3, <1>7, <2>1, <2>2 DEF FreshJob
<1>8. ReplyIsLast'
  BY <1>3, AntiAfkAssumption DEF ReplyIsLast
<1>9. FreshIsLast'
  BY <1>1, <1>3, <1>7 DEF FreshIsLast, ChannelInv
<1>10. HolderIsServed'
  BY <1>1, <1>2, <1>3, <1>7 DEF HolderIsServed, ChannelInv
<1> QED
  BY <1>4, <1>5, <1>6, <1>8, <1>9, <1>10 DEF ChannelInv

\* The end of a command that waited.
LEMMA EndChannel ==
  ASSUME CallTypes, EngineTypes, JobFits, ChannelInv, UNCHANGED Calls, astray' \in BOOLEAN, pipe' = pipe,
         NEW result \in BOOLEAN, wpc # "idle", Answer(job, result)
  PROVE  CallTypes' /\ ChannelInv'
<1>1. /\ \/ job.fresh /\ reply' = result
         \/ ~job.fresh /\ reply' = reply
      /\ job' = None /\ wpc' = "idle"
  BY AnswerEffect
<1>2. reply = None
  BY DEF ChannelInv, ReplyIsLast
<1>3. CallTypes'
  BY <1>1 DEF CallTypes, Calls, window
<1>4. DepthCounts' /\ TaskFits' /\ PhaseFits' /\ LockIsHeld'
  BY CallsKept
<1>5. FreshJob'
  BY <1>1 DEF FreshJob
<1>6. op' = op /\ holder' = holder
  BY DEF Calls
<1>7. CASE job.fresh
  <2>1. pipe = <<>> /\ holder # None /\ job.cmd = Command(op[holder])
    BY <1>7 DEF ChannelInv, FreshJob
  <2>2. reply' = result /\ result # None
    BY <1>1, <1>7, AntiAfkAssumption
  <2>3. ~Asks(op[holder])
    <3>1. op[holder] \in Operations
      BY <2>1 DEF CallTypes
    <3>2. job.cmd \in {"pause", "stop"}
      <4>1. wpc \in {"pausing", "withdrawing", "joining"} => job.cmd \in {"pause", "stop"}
        BY DEF JobFits
      <4> QED
        BY <4>1 DEF EngineTypes
    <3> QED
      BY <2>1, <3>1, <3>2, CommandIs
  <2>4. ReplyIsLast'
    BY <1>1, <1>6, <2>1, <2>2, <2>3 DEF ReplyIsLast
  <2>5. FreshIsLast' /\ HolderIsServed'
    BY <2>1, <2>2 DEF FreshIsLast, HolderIsServed
  <2> QED
    BY <1>3, <1>4, <1>5, <2>4, <2>5 DEF ChannelInv
<1>8. CASE ~job.fresh
  <2>1. reply' = None
    BY <1>1, <1>2, <1>8
  <2>2. ReplyIsLast'
    BY <2>1, AntiAfkAssumption DEF ReplyIsLast
  <2>3. FreshIsLast' /\ HolderIsServed'
    BY <1>1, <1>6, <1>2, <1>8, <2>1 DEF FreshIsLast, HolderIsServed, ChannelInv
  <2> QED
    BY <1>3, <1>4, <1>5, <2>2, <2>3 DEF ChannelInv
<1> QED
  BY <1>7, <1>8

\* The worker's commands are of these kinds.
LEMMA WorkerChannel ==
  ASSUME CallTypes, EngineTypes, EngineInv, ChannelInv, Worker
  PROVE  CallTypes' /\ ChannelInv'
<1>0. /\ JobFits /\ running \in BOOLEAN /\ paused \in BOOLEAN /\ astray \in BOOLEAN
      /\ on \in BOOLEAN
  BY DEF EngineInv, EngineTypes, CallTypes
<1>1. UNCHANGED Calls
  BY DEF Calls, client, channel, Worker, GetRunning, Resume, Start, StopNothing, Stop, Joined,
         PauseNothing, Pause, Paused, PauseTimesOut, Withdraw
<1>2. CASE GetRunning
  <2>1. astray' = astray /\ running' = running /\ Take("get_running") /\ Answer(Head(pipe), running)
    BY <1>2 DEF GetRunning, client, flags
  <2> QED
    BY <1>0, <1>1, <2>1, QuickChannel
<1>3. CASE Resume
  <2>1. astray' = astray /\ Take("resume") /\ Answer(Head(pipe), running)
    BY <1>3 DEF Resume, client
  <2> QED
    BY <1>0, <1>1, <2>1, QuickChannel
<1>4. CASE Start
  <2>1. astray' = astray /\ Take("start") /\ Answer(Head(pipe), TRUE)
    BY <1>4 DEF Start, client
  <2> QED
    BY <1>0, <1>1, <2>1, QuickChannel
<1>5. CASE StopNothing
  <2>1. astray' = astray /\ Take("stop") /\ Answer(Head(pipe), TRUE)
    BY <1>5 DEF StopNothing, client
  <2> QED
    BY <1>0, <1>1, <2>1, QuickChannel
<1>6. CASE PauseNothing
  <2>1. astray' = astray /\ Take("pause") /\ Answer(Head(pipe), FALSE)
    BY <1>6 DEF PauseNothing, client
  <2> QED
    BY <1>0, <1>1, <2>1, QuickChannel
<1>7. CASE Stop \/ Pause
  <2>1. PICK cmd \in {"stop", "pause"} : Take(cmd)
    BY <1>7 DEF Stop, Pause
  <2>2. astray' = astray /\ job' = Head(pipe) /\ wpc' # "idle" /\ reply' = reply
    BY <1>7 DEF Stop, Pause, client
  <2> QED
    BY <1>0, <1>1, <2>1, <2>2, LongChannel
<1>8. CASE Joined \/ Paused \/ Withdraw
  <2>1. PICK result \in BOOLEAN : Answer(job, result)
    BY <1>0, <1>8 DEF Joined, Paused, Withdraw
  <2>2. astray' = astray /\ pipe' = pipe /\ wpc # "idle"
    BY <1>8 DEF Joined, Paused, Withdraw, client
  <2> QED
    BY <1>0, <1>1, <2>1, <2>2, EndChannel
<1>9. CASE PauseTimesOut
  <2>1. UNCHANGED <<window, client, channel, job, running>> /\ wpc = "pausing" /\ wpc' = "withdrawing"
    BY <1>9 DEF PauseTimesOut, flags
  <2>2. CallTypes'
    BY <2>1 DEF CallTypes, window, client, channel
  <2>3. DepthCounts' /\ TaskFits' /\ PhaseFits' /\ LockIsHeld'
    BY <1>1, CallsKept
  <2>4. ReplyIsLast' /\ FreshIsLast'
    BY <2>1 DEF ChannelInv, ReplyIsLast, FreshIsLast, client, channel
  <2>5. FreshJob' /\ HolderIsServed'
    BY <2>1 DEF ChannelInv, FreshJob, HolderIsServed, client, channel
  <2> QED
    BY <2>2, <2>3, <2>4, <2>5 DEF ChannelInv
<1> QED
  BY <1>2, <1>3, <1>4, <1>5, <1>6, <1>7, <1>8, <1>9 DEF Worker

-----------------------------------------------------------------------------
(* What is owed, under the steps of the loop and of the worker *)

\* The loop owes nothing and takes nothing back.
LEMMA LoopOwed ==
  ASSUME OwedInv, UNCHANGED <<window, client, channel, worker>>, pauseReq' = pauseReq
  PROVE  OwedInv'
<1> USE DEF OwedInv, window, client, channel, worker
<1>1. /\ Answerable' = Answerable /\ Resuming' = Resuming /\ Stopping' = Stopping
      /\ Sent({"resume", "stop"})' = Sent({"resume", "stop"})
  BY DEF Answerable, Resuming, Stopping, Sent
<1>3. SentIsUndone'
  BY <1>1 DEF SentIsUndone
<1>4. PauseIsOwed'
  BY <1>1 DEF PauseIsOwed
<1> QED
  BY <1>3, <1>4

\* What stays on its way when the head of the pipe is taken.
LEMMA TakeOwed ==
  ASSUME pipe \in Seq(Requests), OwedInv, UNCHANGED Calls, astray => astray', NEW cmd, Take(cmd)
  PROVE  /\ Answerable' = Answerable /\ Resuming' = Resuming /\ Stopping' = Stopping
         /\ depth' = depth
         /\ \A cmds : cmd \notin cmds /\ Sent(cmds) => Sent(cmds)'
         /\ SentIsUndone'
         /\ cmd = "pause" /\ ~astray /\ ~Answerable => Sent({"resume", "stop"})'
<1>1. /\ Len(pipe) \in Nat \ {0} /\ pipe[1].cmd = cmd
      /\ pipe' \in Seq(Requests) /\ Len(pipe') = Len(pipe) - 1
      /\ \A i \in 1..Len(pipe') : pipe'[i] = pipe[i + 1]
  BY TakeEffect, Zenon
<1>2. \A j \in DOMAIN pipe : j > 1 => j - 1 \in DOMAIN pipe' /\ pipe'[j - 1] = pipe[j]
  BY <1>1
<1>3. /\ Answerable' = Answerable /\ Resuming' = Resuming /\ Stopping' = Stopping
      /\ depth' = depth
  BY DEF Answerable, Resuming, Stopping, Calls, window
<1>4. ASSUME NEW cmds, cmd \notin cmds, Sent(cmds)
      PROVE  Sent(cmds)'
  <2>1. PICK i \in DOMAIN pipe : pipe[i].cmd \in cmds
    BY <1>4 DEF Sent
  <2>2. i > 1
    BY <1>1, <1>4, <2>1
  <2> QED
    BY <1>2, <2>1, <2>2 DEF Sent
<1>5. ASSUME ~astray', ~Answerable', NEW i \in DOMAIN pipe', pipe'[i].cmd = "pause"
      PROVE  \E j \in DOMAIN pipe' : j > i /\ pipe'[j].cmd \in {"resume", "stop"}
  <2>1. i + 1 \in DOMAIN pipe /\ pipe[i + 1].cmd = "pause" /\ i \in Nat \ {0}
    BY <1>1, <1>5
  <2>2. PICK j \in DOMAIN pipe : j > i + 1 /\ pipe[j].cmd \in {"resume", "stop"}
    BY <1>3, <1>5, <2>1 DEF OwedInv, SentIsUndone
  <2>3. j - 1 > i
    BY <1>1, <2>1, <2>2
  <2> QED
    BY <1>1, <1>2, <2>1, <2>2, <2>3
<1>6. SentIsUndone'
  BY <1>5 DEF SentIsUndone
<1>7. ASSUME cmd = "pause", ~astray, ~Answerable
      PROVE  Sent({"resume", "stop"})'
  <2>1. 1 \in DOMAIN pipe /\ pipe[1].cmd = "pause"
    BY <1>1, <1>7
  <2>2. PICK j \in DOMAIN pipe : j > 1 /\ pipe[j].cmd \in {"resume", "stop"}
    BY <1>7, <2>1 DEF OwedInv, SentIsUndone
  <2> QED
    BY <1>2, <2>2 DEF Sent
<1> QED
  BY <1>3, <1>4, <1>6, <1>7

\* Each command of the worker keeps what is owed, or takes the request back.
LEMMA WorkerOwed ==
  ASSUME CallTypes, EngineTypes, EngineInv, OwedInv, Worker
  PROVE  OwedInv'
<1>0. pipe \in Seq(Requests) /\ JobFits /\ PauseIsOfRunning /\ PauseIsOwed
  BY DEF CallTypes, EngineInv, OwedInv
<1>1. UNCHANGED Calls
  BY DEF Calls, client, channel, Worker, GetRunning, Resume, Start, StopNothing, Stop, Joined,
         PauseNothing, Pause, Paused, PauseTimesOut, Withdraw
<1>2. CASE GetRunning \/ PauseNothing \/ StopNothing
  <2>1. PICK cmd \in {"get_running", "pause", "stop"} : Take(cmd) /\ (cmd # "get_running" => ~running)
    BY <1>2 DEF GetRunning, PauseNothing, StopNothing
  <2>2. astray' = astray /\ left' = left /\ running' = running /\ pauseReq' = pauseReq
    BY <1>2, <2>1 DEF GetRunning, PauseNothing, StopNothing, client, flags
  <2>3. /\ Answerable' = Answerable /\ Resuming' = Resuming /\ Stopping' = Stopping
        /\ depth' = depth
        /\ \A cmds : cmd \notin cmds /\ Sent(cmds) => Sent(cmds)'
        /\ SentIsUndone'
    BY <1>0, <1>1, <2>1, <2>2, TakeOwed
  <2>5. PauseIsOwed'
    BY <1>0, <2>1, <2>2, <2>3 DEF PauseIsOwed, PauseIsOfRunning
  <2> QED
    BY <2>3, <2>5 DEF OwedInv
<1>3. CASE Resume
  <2>1. /\ Take("resume") /\ astray' = astray
        /\ (running => pauseReq' = FALSE) /\ (~running => pauseReq' = pauseReq)
    BY <1>3 DEF Resume, client
  <2>2. SentIsUndone'
    BY <1>0, <1>1, <2>1, TakeOwed
  <2>4. PauseIsOwed'
    BY <1>0, <2>1 DEF PauseIsOwed, PauseIsOfRunning
  <2> QED
    BY <2>2, <2>4 DEF OwedInv
<1>4. CASE Start
  <2>1. /\ Take("start") /\ astray' = astray
        /\ (left' = left /\ pauseReq' = pauseReq) \/ pauseReq' = FALSE
    BY <1>4 DEF Start, client, flags
  <2>2. /\ Answerable' = Answerable /\ Resuming' = Resuming /\ Stopping' = Stopping
        /\ depth' = depth /\ SentIsUndone'
        /\ Sent({"resume", "stop"}) => Sent({"resume", "stop"})'
    BY <1>0, <1>1, <2>1, TakeOwed
  <2>4. PauseIsOwed'
    <3>1. CASE left' = left /\ pauseReq' = pauseReq
      BY <1>0, <2>1, <2>2, <3>1 DEF PauseIsOwed
    <3>2. CASE pauseReq' = FALSE
      BY <3>2 DEF PauseIsOwed
    <3> QED
      BY <2>1, <3>1, <3>2
  <2> QED
    BY <2>2, <2>4 DEF OwedInv
<1>5. CASE Stop
  <2>1. Take("stop") /\ astray' = astray /\ pauseReq' = FALSE
    BY <1>5 DEF Stop, client
  <2>2. SentIsUndone'
    BY <1>0, <1>1, <2>1, TakeOwed
  <2> QED
    BY <2>1, <2>2 DEF OwedInv, PauseIsOwed
<1>6. CASE Pause
  <2>1. Take("pause") /\ astray' = astray
    BY <1>6 DEF Pause, client
  <2>2. /\ Answerable' = Answerable /\ SentIsUndone'
        /\ ~astray /\ ~Answerable => Sent({"resume", "stop"})'
    BY <1>0, <1>1, <2>1, TakeOwed
  <2>4. PauseIsOwed'
    BY <2>1, <2>2 DEF PauseIsOwed
  <2> QED
    BY <2>2, <2>4 DEF OwedInv
<1>7. CASE Joined \/ Paused \/ PauseTimesOut \/ Withdraw
  <2>1. /\ astray' = astray /\ pipe' = pipe
        /\ (pauseReq' = pauseReq /\ left' = left) \/ pauseReq' = FALSE
    BY <1>7 DEF Joined, Paused, PauseTimesOut, Withdraw, client, channel, flags
  <2>2. /\ Answerable' = Answerable /\ Resuming' = Resuming /\ Stopping' = Stopping
        /\ depth' = depth
        /\ Sent({"resume", "stop"})' = Sent({"resume", "stop"})
    BY <1>1, <2>1 DEF Answerable, Resuming, Stopping, Sent, Calls, window
  <2>4. SentIsUndone'
    BY <2>1, <2>2 DEF OwedInv, SentIsUndone
  <2>5. PauseIsOwed'
    BY <1>0, <2>1, <2>2 DEF PauseIsOwed
  <2> QED
    BY <2>4, <2>5 DEF OwedInv
<1> QED
  BY <1>2, <1>3, <1>4, <1>5, <1>6, <1>7 DEF Worker

-----------------------------------------------------------------------------
(* The steps of the callers *)

\* A caller without a call that begins one, or that needs none.
LEMMA LocalChannel ==
  ASSUME CallTypes, ChannelInv, UNCHANGED <<channel, job, wpc, running>>,
         NEW c \in Callers, phase[c] # "wait",
         NEW o \in Operations, NEW p \in {"none", "lock"}, p = "lock" => o \notin Silent,
         op' = [op EXCEPT ![c] = o], phase' = [phase EXCEPT ![c] = p]
  PROVE  PhaseFits' /\ LockIsHeld' /\ ReplyIsLast' /\ FreshIsLast' /\ FreshJob' /\ HolderIsServed'
<1> USE DEF ChannelInv, channel
<1>1. c # holder
  BY DEF LockIsHeld
<1>2. PhaseFits' /\ LockIsHeld'
  BY <1>1 DEF PhaseFits, LockIsHeld, CallTypes
<1>3. holder # None => op'[holder] = op[holder]
  BY <1>1 DEF CallTypes
<1>4. ReplyIsLast'
  <2>1. reply = FALSE => reply # None
    BY AntiAfkAssumption
  <2> QED
    BY <1>3, <2>1 DEF ReplyIsLast
<1>5. FreshIsLast' /\ FreshJob' /\ HolderIsServed'
  BY <1>3 DEF FreshIsLast, FreshJob, HolderIsServed
<1> QED
  BY <1>2, <1>4, <1>5

\* A caller whose call is over, with its answer or without: nothing on its way is waited for.
LEMMA FreeChannel ==
  ASSUME CallTypes, ChannelInv, NEW c \in Callers, phase[c] = "wait",
         NEW o \in Operations, NEW p \in {"none", "lock"}, p = "lock" => o \notin Silent,
         op' = [op EXCEPT ![c] = o], phase' = [phase EXCEPT ![c] = p],
         holder' = None, reply' = None, \A i \in DOMAIN pipe' : ~pipe'[i].fresh,
         wpc' # "idle" => ~job'.fresh
  PROVE  PhaseFits' /\ LockIsHeld' /\ ReplyIsLast' /\ FreshIsLast' /\ FreshJob' /\ HolderIsServed'
<1>1. \A d \in Callers : d # c => phase[d] # "wait"
  BY DEF ChannelInv, LockIsHeld
<1>2. PhaseFits'
  BY DEF ChannelInv, PhaseFits, CallTypes
<1>3. LockIsHeld'
  <2>1. \A d \in Callers : phase'[d] # "wait"
    BY <1>1 DEF CallTypes
  <2>2. None \notin Callers
    BY AntiAfkAssumption DEF Callers, Tasks
  <2> QED
    BY <2>1, <2>2 DEF LockIsHeld
<1>4. ReplyIsLast'
  BY AntiAfkAssumption DEF ReplyIsLast
<1>5. FreshIsLast' /\ FreshJob' /\ HolderIsServed'
  BY DEF FreshIsLast, FreshJob, HolderIsServed
<1> QED
  BY <1>2, <1>3, <1>4, <1>5

\* A task keeps to its switch, whatever a client does.
LEMMA ClientTasks ==
  ASSUME CallTypes, TaskFits, NEW c \in Callers, UNCHANGED <<stopping, switches>>, NEW o \in Operations,
         op' = [op EXCEPT ![c] = o], c \in Clients \/ o = "idle"
  PROVE  TaskFits'
<1>1. Clients \cap Tasks = {}
  BY AntiAfkAssumption DEF Tasks
<1> QED
  BY <1>1 DEF TaskFits, CallTypes, Callers

\* How a caller goes on, with its next operation and whether it needs a call.
GoesOn(c, result, guessed, o, p) ==
    /\ op' = [op EXCEPT ![c] = o] /\ phase' = [phase EXCEPT ![c] = p]
    /\ (p = "lock") <=> (o \notin Silent)
    /\ o \in {"act", "undo", "check"} => op[c] \in {"pause", "check"}
    /\ op[c] \in {"start", "stop"} => o = "idle"
    /\ \/ op[c] = "pause" /\ o = "act" /\ result /\ depth' = depth + 1 /\ astray' = astray
       \/ op[c] = "pause" /\ o = "check" /\ UNCHANGED <<depth, astray>>
       \/ op[c] = "check" /\ o = "undo" /\ UNCHANGED <<depth, astray>>
       \/ op[c] = "check" /\ o = "act" /\ ~result /\ depth' = depth /\ astray' = (astray \/ guessed)
       \/ op[c] \notin {"pause", "check"} /\ UNCHANGED <<depth, astray>>
    /\ tries' \in [Clients -> Nat] /\ wasRunning' \in BOOLEAN

\* The answer decides which of the ways it is.
LEMMA ContinueEffect ==
  ASSUME CallTypes, NEW c \in Callers, NEW result \in BOOLEAN, NEW guessed \in BOOLEAN,
         c \in Clients \/ op[c] \in {"start", "stop"},
         op[c] \notin Silent, Continue(c, result, guessed)
  PROVE  \E o \in Operations, p \in {"none", "lock"} : GoesOn(c, result, guessed, o, p)
<1>0. tries \in [Clients -> Nat] /\ wasRunning \in BOOLEAN
  BY DEF CallTypes
<1>1. CASE result /\ Counted(c)
  <2>1. GoesOn(c, result, guessed, "act", "none")
    BY <1>0, <1>1 DEF Counted, Does, GoesOn, Silent
  <2> QED
    BY <2>1 DEF Operations
<1>2. CASE Undo(c)
  <2>1. GoesOn(c, result, guessed, "undo", "lock")
    BY <1>0, <1>2 DEF Undo, Wants, GoesOn, Silent
  <2> QED
    BY <2>1 DEF Operations
<1>3. CASE Retry(c)
  <2>1. PICK o \in {"resume", "last"} : Wants(c, o)
    BY <1>3 DEF Retry
  <2>2. /\ op[c] = "again" /\ UNCHANGED <<depth, wasRunning, astray>>
        /\ tries' = [tries EXCEPT ![c] = @ + 1] \/ tries' = [tries EXCEPT ![c] = 0]
    BY <1>3 DEF Retry
  <2>3. c \in Clients
    BY <2>2
  <2>4. tries' \in [Clients -> Nat]
    BY <1>0, <2>2, <2>3
  <2>5. GoesOn(c, result, guessed, o, "lock")
    BY <1>0, <2>1, <2>2, <2>4 DEF Wants, GoesOn, Silent
  <2> QED
    BY <2>5 DEF Operations
<1>4. CASE \E from \in {"resume", "last", "undo"} : Proceeds(c, from, "idle")
  <2>2. /\ op[c] \in {"resume", "last", "undo"} /\ Does(c, "idle")
        /\ tries' = [tries EXCEPT ![c] = 0] /\ UNCHANGED <<depth, wasRunning, astray>>
    BY <1>4 DEF Proceeds
  <2>3. tries' \in [Clients -> Nat]
    BY <1>0, <2>2
  <2>1. GoesOn(c, result, guessed, "idle", "none")
    BY <1>0, <2>2, <2>3 DEF Does, GoesOn, Silent
  <2> QED
    BY <2>1 DEF Operations
<1>5. CASE Refused(c)
  <2>1. GoesOn(c, result, guessed, "check", "lock")
    BY <1>0, <1>5 DEF Refused, Wants, GoesOn, Silent
  <2> QED
    BY <2>1 DEF Operations
<1>6. CASE ~result /\ Unneeded(c, guessed)
  <2>1. GoesOn(c, result, guessed, "act", "none")
    BY <1>0, <1>6 DEF Unneeded, Does, GoesOn, Silent
  <2> QED
    BY <2>1 DEF Operations
<1>7. CASE Proceeds(c, "resume", "again") \/ Proceeds(c, "again", "last") \/ Proceeds(c, "last", "start")
  <2>1. PICK o \in {"again", "last", "start"} : Wants(c, o)
    BY <1>7 DEF Proceeds
  <2>2. /\ op[c] \in {"resume", "again", "last"} /\ UNCHANGED <<depth, wasRunning, astray>>
        /\ tries' = tries \/ tries' = [tries EXCEPT ![c] = 0]
    BY <1>7 DEF Proceeds
  <2>4. tries' \in [Clients -> Nat]
    BY <1>0, <2>2
  <2>3. GoesOn(c, result, guessed, o, "lock")
    BY <1>0, <2>1, <2>2, <2>4 DEF Wants, GoesOn, Silent
  <2> QED
    BY <2>3 DEF Operations
<1>8. CASE op[c] \in {"start", "stop"} /\ Does(c, "idle") /\ UNCHANGED <<tries, depth, wasRunning, astray>>
  <2>1. GoesOn(c, result, guessed, "idle", "none")
    BY <1>0, <1>8 DEF Does, GoesOn, Silent
  <2> QED
    BY <2>1 DEF Operations
<1> QED
  <2>1. \/ (result /\ Counted(c)) \/ Undo(c) \/ Retry(c)
        \/ \E from \in {"resume", "last", "undo"} : Proceeds(c, from, "idle")
        \/ Refused(c) \/ (~result /\ Unneeded(c, guessed))
        \/ Proceeds(c, "resume", "again") \/ Proceeds(c, "again", "last") \/ Proceeds(c, "last", "start")
        \/ (op[c] \in {"start", "stop"} /\ Does(c, "idle") /\ UNCHANGED <<tries, depth, wasRunning, astray>>)
    BY Zenon DEF Continue
  <2> QED
    BY <1>1, <1>2, <1>3, <1>4, <1>5, <1>6, <1>7, <1>8, <2>1

\* The engine and what it is asked do not change under the callers' own steps.
LEMMA CallerEngine ==
  ASSUME EngineTypes, EngineInv, UNCHANGED <<wpc, promised, flags, loop, sweep>>,
         left' = left \/ left' \in BOOLEAN,
         job' = job \/ (wpc # "idle" /\ job' = [job EXCEPT !.fresh = FALSE])
  PROVE  EngineTypes' /\ EngineInv'
<1> USE DEF EngineTypes, EngineInv, flags, sweep
<1>1. EngineTypes'
  OBVIOUS
<1>2. HeldInBatch' /\ PausedIsParked' /\ PromiseStands' /\ PauseIsOfRunning' /\ BatchIsHeld'
  BY DEF HeldInBatch, PausedIsParked, PromiseStands, PauseIsOfRunning, BatchIsHeld
<1>3. JobFits'
  <2>1. wpc # "idle" => job' \in Requests /\ job'.cmd = job.cmd
    BY DEF JobFits, Requests
  <2> QED
    BY <2>1 DEF JobFits
<1> QED
  BY <1>1, <1>2, <1>3

\* A batch that begins: unpaused, or with the question for a pause.
LEMMA BeginStep ==
  ASSUME IInv, NEW c \in Clients, PlayUnpaused(c) \/ AskPause(c)
  PROVE  IInv'
<1>0. CallTypes /\ EngineTypes /\ EngineInv /\ ChannelInv /\ OwedInv
  BY DEF IInv, TypeOK
<1>1. c \in Callers /\ op[c] = "idle" /\ phase[c] = "none" /\ c \notin Tasks
  <2>1. c \in Callers /\ op[c] = "idle" /\ c \notin Tasks
    BY AntiAfkAssumption DEF PlayUnpaused, AskPause, Callers, Tasks
  <2> QED
    BY <1>0, <2>1 DEF ChannelInv, PhaseFits, Silent
<1>2. PICK o \in {"act", "pause"}, p \in {"none", "lock"} :
        /\ op' = [op EXCEPT ![c] = o] /\ phase' = [phase EXCEPT ![c] = p]
        /\ o = "act" => p = "none"
        /\ o = "pause" => p = "lock"
  BY DEF PlayUnpaused, AskPause, Does, Wants
<1>3. /\ UNCHANGED <<window, tries, depth, wasRunning, astray, channel, worker, flags, loop, sweep>>
      /\ rounds' = [rounds EXCEPT ![c] = @ + 1] /\ rounds[c] < MaxRounds
  BY DEF PlayUnpaused, AskPause
<1>4. EngineTypes' /\ EngineInv'
  BY <1>0, <1>3, CallerEngine DEF worker
<1>5. CallTypes'
  <2>1. op' \in [Callers -> Operations] /\ phase' \in [Callers -> {"none", "lock", "wait"}]
    BY <1>0, <1>2 DEF CallTypes, Operations
  <2>2. rounds' \in [Clients -> 0..MaxRounds]
    <3>1. MaxRounds \in Nat
      BY AntiAfkAssumption
    <3> QED
      BY <1>0, <1>3, <3>1 DEF CallTypes
  <2> QED
    BY <1>0, <1>3, <2>1, <2>2 DEF CallTypes, window, channel, worker
<1>6. ChannelInv'
  <2>1. o \in Operations /\ (p = "lock" => o \notin Silent)
    BY <1>2 DEF Operations, Silent
  <2>2. PhaseFits' /\ LockIsHeld' /\ ReplyIsLast' /\ FreshIsLast' /\ FreshJob' /\ HolderIsServed'
    BY <1>0, <1>1, <1>2, <1>3, <2>1, LocalChannel DEF flags, worker
  <2>3. TaskFits'
    BY <1>0, <1>1, <1>2, <1>3, <2>1, ClientTasks DEF ChannelInv, window
  <2>4. DepthCounts'
    <3>1. Cardinality(Acting') >= Cardinality(Acting)
      <4>1. CASE o = "act"
        <5>1. op[c] # "act" /\ op' = [op EXCEPT ![c] = "act"]
          BY <1>1, <1>2, <4>1
        <5>2. Cardinality(Acting') = Cardinality(Acting) + 1
          BY <1>0, <5>1, ActingEntered
        <5> QED
          BY <5>2, ActingFinite
      <4>2. CASE o = "pause"
        <5>1. op[c] # "act" /\ o # "act"
          BY <1>1, <4>2
        <5>2. Acting' = Acting
          BY <1>0, <1>1, <1>2, <5>1, ActingSame
        <5> QED
          BY <5>2, ActingFinite
      <4> QED
        BY <4>1, <4>2
    <3>2. Cardinality(Acting') \in Nat
      <4>1. IsFiniteSet(Acting')
        BY AntiAfkAssumption, FS_Subset DEF Acting
      <4> QED
        BY <4>1, FS_CardinalityType
    <3>3. depth \in Nat /\ depth' = depth
      BY <1>0, <1>3, ActingFinite DEF CallTypes
    <3> QED
      BY <1>0, <3>1, <3>2, <3>3, ActingFinite DEF ChannelInv, DepthCounts
  <2> QED
    BY <2>2, <2>3, <2>4 DEF ChannelInv
<1>7. OwedInv'
  <2>1. Stopping' = Stopping /\ Sent({"resume", "stop"})' = Sent({"resume", "stop"})
    BY <1>0, <1>1, <1>2, <1>3 DEF Stopping, Sent, CallTypes, Callers, channel
  <2>2. (Answerable => Answerable') /\ (Resuming => Resuming')
    BY <1>0, <1>1, <1>2 DEF Answerable, Resuming, CallTypes, Callers
  <2>4. SentIsUndone'
    BY <1>0, <1>3, <2>2 DEF OwedInv, SentIsUndone, channel
  <2>5. PauseIsOwed'
    BY <1>0, <1>3, <2>1, <2>2 DEF OwedInv, PauseIsOwed, worker, flags
  <2> QED
    BY <2>4, <2>5 DEF OwedInv
<1> QED
  BY <1>4, <1>5, <1>6, <1>7 DEF IInv, TypeOK

\* The end of a batch: the last one is to take the pause back.
LEMMA EndBatchStep ==
  ASSUME IInv, NEW c \in Clients, EndBatch(c)
  PROVE  IInv'
<1>0. CallTypes /\ EngineTypes /\ EngineInv /\ ChannelInv /\ OwedInv
  BY DEF IInv, TypeOK
<1>1. c \in Callers /\ op[c] = "act" /\ phase[c] = "none" /\ c \notin Tasks
  <2>1. c \in Callers /\ op[c] = "act" /\ c \notin Tasks
    BY AntiAfkAssumption DEF EndBatch, Callers, Tasks
  <2> QED
    BY <1>0, <2>1 DEF ChannelInv, PhaseFits, Silent
<1>2. PICK o \in {"idle", "leave"}, p \in {"none", "lock"} :
        /\ op' = [op EXCEPT ![c] = o] /\ phase' = [phase EXCEPT ![c] = p] /\ p = "none"
        /\ \/ depth > 1 /\ depth' = depth - 1 /\ o = "idle" /\ UNCHANGED wasRunning
           \/ ~(depth > 1) /\ depth' = 0 /\ wasRunning' = FALSE /\ (depth > 0 => o = "leave")
  BY DEF EndBatch, Does
<1>3. UNCHANGED <<window, tries, rounds, astray, channel, worker, flags, loop, sweep>>
  BY DEF EndBatch
<1>4. EngineTypes' /\ EngineInv'
  BY <1>0, <1>3, CallerEngine DEF worker
<1>9. depth \in Nat /\ depth <= Cardinality(Clients)
  BY <1>0, ActingFinite DEF CallTypes
<1>5. CallTypes'
  <2>1. op' \in [Callers -> Operations] /\ phase' \in [Callers -> {"none", "lock", "wait"}]
    BY <1>0, <1>2 DEF CallTypes, Operations
  <2>3. depth' \in 0..Cardinality(Clients) /\ wasRunning' \in BOOLEAN
    <3>1. wasRunning \in BOOLEAN /\ Cardinality(Clients) \in Nat
      BY <1>0, ActingFinite DEF CallTypes
    <3>2. CASE depth > 1
      BY <1>2, <1>9, <3>1, <3>2
    <3>3. CASE ~(depth > 1)
      <4>1. depth' = 0 /\ wasRunning' = FALSE
        BY <1>2, <3>3, Zenon
      <4>2. depth' \in 0..Cardinality(Clients)
        BY <3>1, <4>1
      <4>3. wasRunning' \in BOOLEAN
        BY <4>1
      <4> QED
        BY <4>2, <4>3
    <3> QED
      BY <3>2, <3>3
  <2> QED
    BY <1>0, <1>3, <2>1, <2>3 DEF CallTypes, window, channel, worker
<1>6. ChannelInv'
  <2>1. o \in Operations /\ (p = "lock" => o \notin Silent)
    BY <1>2 DEF Operations, Silent
  <2>2. PhaseFits' /\ LockIsHeld' /\ ReplyIsLast' /\ FreshIsLast' /\ FreshJob' /\ HolderIsServed'
    BY <1>0, <1>1, <1>2, <1>3, <2>1, LocalChannel DEF flags, worker
  <2>3. TaskFits'
    BY <1>0, <1>1, <1>2, <1>3, <2>1, ClientTasks DEF ChannelInv, window
  <2>4. DepthCounts'
    <3>1. Cardinality(Acting') = Cardinality(Acting) - 1
      BY <1>0, <1>1, <1>2, ActingLeft
    <3>2. c \in Acting
      BY <1>1 DEF Acting
    <3>3. Cardinality(Acting) # 0
      BY <3>2, ActingFinite, FS_EmptySet
    <3> QED
      BY <1>0, <1>2, <1>9, <3>1, <3>3, ActingFinite DEF ChannelInv, DepthCounts
  <2> QED
    BY <2>2, <2>3, <2>4 DEF ChannelInv
<1>7. OwedInv'
  <2>1. Stopping' = Stopping /\ Sent({"resume", "stop"})' = Sent({"resume", "stop"})
    BY <1>0, <1>1, <1>2, <1>3 DEF Stopping, Sent, CallTypes, Callers, channel
  <2>2. (Answerable' <=> Answerable) /\ (Resuming => Resuming') /\ (o = "leave" => Resuming')
    BY <1>0, <1>1, <1>2 DEF Answerable, Resuming, CallTypes, Callers
  <2>4. SentIsUndone'
    BY <1>0, <1>3, <2>2 DEF OwedInv, SentIsUndone, channel
  <2>5. PauseIsOwed'
    <3>1. CASE depth > 1
      BY <1>2, <1>9, <3>1 DEF PauseIsOwed
    <3>2. CASE depth > 0
      BY <1>2, <1>9, <2>2, <3>2, <3>1 DEF PauseIsOwed
    <3>4. CASE ~(depth > 0)
      BY <1>0, <1>3, <2>1, <2>2, <3>4 DEF OwedInv, PauseIsOwed, worker, flags
    <3> QED
      BY <3>1, <3>2, <3>4
  <2> QED
    BY <2>4, <2>5 DEF OwedInv
<1> QED
  BY <1>4, <1>5, <1>6, <1>7 DEF IInv, TypeOK

\* The client that is to take the pause back asks for it, or leaves it to a stop.
LEMMA LeaveStep ==
  ASSUME IInv, NEW c \in Clients, Leave(c)
  PROVE  IInv'
<1>0. CallTypes /\ EngineTypes /\ EngineInv /\ ChannelInv /\ OwedInv
  BY DEF IInv, TypeOK
<1>1. c \in Callers /\ op[c] = "leave" /\ phase[c] = "none" /\ c \notin Tasks
  <2>1. c \in Callers /\ op[c] = "leave" /\ c \notin Tasks
    BY AntiAfkAssumption DEF Leave, Callers, Tasks
  <2> QED
    BY <1>0, <2>1 DEF ChannelInv, PhaseFits, Silent
<1>2. PICK o \in {"idle", "resume"}, p \in {"none", "lock"} :
        /\ op' = [op EXCEPT ![c] = o] /\ phase' = [phase EXCEPT ![c] = p]
        /\ \/ o = "resume" /\ p = "lock" /\ left' = left
           \/ o = "idle" /\ p = "none" /\ left' = (left \/ pauseReq)
  BY DEF Leave, Does, Wants
<1>3. UNCHANGED <<window, tries, rounds, depth, wasRunning, astray, channel, job, wpc, promised, flags,
                  loop, sweep>>
  BY DEF Leave
<1>4. EngineTypes' /\ EngineInv'
  <2>1. left' = left \/ left' \in BOOLEAN
    <3>1. left' = left \/ left' = (left \/ pauseReq)
      BY <1>2
    <3> QED
      BY <3>1, Zenon
  <2> QED
    BY <1>0, <1>3, <2>1, CallerEngine
<1>5. CallTypes'
  <2>1. op' \in [Callers -> Operations] /\ phase' \in [Callers -> {"none", "lock", "wait"}]
    BY <1>0, <1>2 DEF CallTypes, Operations
  <2> QED
    BY <1>0, <1>3, <2>1 DEF CallTypes, window, channel
<1>6. ChannelInv'
  <2>1. o \in Operations /\ (p = "lock" => o \notin Silent) /\ o # "act"
    BY <1>2 DEF Operations, Silent
  <2>2. PhaseFits' /\ LockIsHeld' /\ ReplyIsLast' /\ FreshIsLast' /\ FreshJob' /\ HolderIsServed'
    BY <1>0, <1>1, <1>2, <1>3, <2>1, LocalChannel DEF flags, worker
  <2>3. TaskFits'
    BY <1>0, <1>1, <1>2, <1>3, <2>1, ClientTasks DEF ChannelInv, window
  <2>4. DepthCounts'
    <3>1. Acting' = Acting
      BY <1>0, <1>1, <1>2, <2>1, ActingSame
    <3> QED
      BY <1>0, <1>3, <3>1 DEF ChannelInv, DepthCounts
  <2> QED
    BY <2>2, <2>3, <2>4 DEF ChannelInv
<1>7. OwedInv'
  <2>1. Stopping' = Stopping /\ Sent({"resume", "stop"})' = Sent({"resume", "stop"})
    BY <1>0, <1>1, <1>2, <1>3 DEF Stopping, Sent, CallTypes, Callers, channel
  <2>2. (Answerable' <=> Answerable) /\ (o = "resume" => Resuming')
    BY <1>0, <1>1, <1>2 DEF Answerable, Resuming, CallTypes, Callers
  <2>3. SentIsUndone'
    BY <1>0, <1>3, <2>2 DEF OwedInv, SentIsUndone, channel
  <2>4. PauseIsOwed'
    <3>1. CASE o = "resume"
      BY <2>2, <3>1 DEF PauseIsOwed
    <3>2. CASE o = "idle"
      <4>1. pauseReq' => left'
        BY <1>2, <1>3, <3>2 DEF flags
      <4> QED
        BY <4>1 DEF PauseIsOwed
    <3> QED
      BY <3>1, <3>2
  <2> QED
    BY <2>3, <2>4 DEF OwedInv
<1> QED
  BY <1>4, <1>5, <1>6, <1>7 DEF IInv, TypeOK

\* A call that gets the pipe: its command is the last on the way.
LEMMA SendStep ==
  ASSUME IInv, NEW c \in Callers, Send(c)
  PROVE  IInv'
<1>0. CallTypes /\ EngineTypes /\ EngineInv /\ ChannelInv /\ OwedInv
  BY DEF IInv, TypeOK
<1>1. /\ phase[c] = "lock" /\ holder = None /\ holder' = c
      /\ pipe' = Append(pipe, [cmd |-> Command(op[c]), fresh |-> TRUE])
      /\ phase' = [phase EXCEPT ![c] = "wait"]
      /\ UNCHANGED <<window, op, tries, rounds, depth, wasRunning, astray, reply, worker, flags, loop, sweep>>
  BY DEF Send
<1>2. op[c] \in Operations /\ op[c] \notin Silent
  BY <1>0, <1>1 DEF CallTypes, ChannelInv, PhaseFits
<1>3. /\ (Command(op[c]) = "pause") <=> (op[c] = "pause")
      /\ op[c] \in {"undo", "resume"} => Command(op[c]) = "resume"
      /\ op[c] = "stop" => Command(op[c]) = "stop"
      /\ Command(op[c]) \in {"get_running", "pause", "resume", "start", "stop"}
  BY <1>2, CommandIs
<1>4. [cmd |-> Command(op[c]), fresh |-> TRUE] \in Requests
  BY <1>3 DEF Requests
<1>5. /\ pipe' \in Seq(Requests) /\ Len(pipe') = Len(pipe) + 1 /\ Len(pipe) \in Nat
      /\ DOMAIN pipe' = 1..Len(pipe') /\ DOMAIN pipe = 1..Len(pipe)
      /\ \A i \in 1..Len(pipe) : pipe'[i] = pipe[i]
      /\ pipe'[Len(pipe')] = [cmd |-> Command(op[c]), fresh |-> TRUE]
  <2>1. pipe \in Seq(Requests)
    BY <1>0 DEF CallTypes
  <2>2. PICK request \in Requests : request = [cmd |-> Command(op[c]), fresh |-> TRUE]
    BY <1>4
  <2>3. pipe' = Append(pipe, request)
    BY <1>1, <2>2
  <2> QED
    BY <2>1, <2>2, <2>3
<1>6. c # None
  BY AntiAfkAssumption DEF Callers, Tasks
<1>7. EngineTypes' /\ EngineInv'
  BY <1>0, <1>1, CallerEngine DEF worker
<1>8. CallTypes'
  <2>1. phase' \in [Callers -> {"none", "lock", "wait"}]
    BY <1>0, <1>1 DEF CallTypes
  <2> QED
    BY <1>0, <1>1, <1>5, <2>1 DEF CallTypes, window, worker
<1>9. reply = None
  BY <1>0, <1>1 DEF ChannelInv, ReplyIsLast
<1>10. \A i \in DOMAIN pipe : ~pipe[i].fresh
  BY <1>0, <1>1 DEF ChannelInv, FreshIsLast
<1>11. wpc # "idle" => ~job.fresh
  BY <1>0, <1>1 DEF ChannelInv, FreshJob
<1>12. ChannelInv'
  <2>1. DepthCounts' /\ TaskFits'
    BY <1>0, <1>1 DEF ChannelInv, DepthCounts, TaskFits, Acting, window
  <2>2. PhaseFits' /\ LockIsHeld'
    <3>1. \A d \in Callers : phase[d] # "wait"
      <4>1. None \notin Callers
        BY AntiAfkAssumption DEF Callers, Tasks
      <4> QED
        BY <1>0, <1>1, <4>1 DEF ChannelInv, LockIsHeld
    <3> QED
      BY <1>0, <1>1, <1>2, <3>1 DEF ChannelInv, PhaseFits, LockIsHeld, CallTypes
  <2>3. ReplyIsLast'
    <3>1. reply' = None
      BY <1>1, <1>9
    <3> QED
      BY <3>1, AntiAfkAssumption DEF ReplyIsLast
  <2>4. FreshIsLast'
    <3>1. \A i \in DOMAIN pipe' : pipe'[i].fresh => i = Len(pipe')
      BY <1>5, <1>10
    <3>2. pipe'[Len(pipe')].cmd = Command(op'[holder'])
      BY <1>1, <1>5
    <3> QED
      BY <1>1, <1>5, <1>6, <1>9, <3>1, <3>2 DEF FreshIsLast
  <2>5. FreshJob'
    BY <1>1, <1>11 DEF FreshJob, worker
  <2>6. HolderIsServed'
    <3>1. pipe' # <<>> /\ pipe'[Len(pipe')].fresh
      BY <1>5
    <3> QED
      BY <3>1 DEF HolderIsServed
  <2> QED
    BY <2>1, <2>2, <2>3, <2>4, <2>5, <2>6 DEF ChannelInv
<1>13. OwedInv'
  <2>1. \A cmds : Sent(cmds) => Sent(cmds)'
    BY <1>5 DEF Sent
  <2>2. Command(op[c]) \in {"resume", "stop"} => Sent({"resume", "stop"})'
    BY <1>5 DEF Sent
  <2>4. Stopping => Stopping' \/ op[c] = "stop"
    BY <1>0, <1>1 DEF Stopping, CallTypes, Callers
  <2>5. Resuming => Resuming' \/ op[c] = "resume"
    BY <1>0, <1>1, <1>2 DEF Resuming, CallTypes, Callers, Silent
  <2>6. /\ Answerable => Answerable' \/ op[c] = "undo"
        /\ op[c] = "pause" => Answerable'
    <3>1. Answerable => Answerable' \/ op[c] = "undo"
      BY <1>0, <1>1 DEF Answerable, CallTypes, Callers
    <3>2. op[c] = "pause" => Answerable'
      <4>1. op[c] = "pause" => c \in Clients
        BY <1>0 DEF ChannelInv, TaskFits, Callers
      <4> QED
        BY <1>1, <4>1 DEF Answerable
    <3> QED
      BY <3>1, <3>2
  <2>8. SentIsUndone'
    <3>1. SUFFICES ASSUME ~astray', ~Answerable', NEW i \in DOMAIN pipe', pipe'[i].cmd = "pause"
                   PROVE  \E j \in DOMAIN pipe' : j > i /\ pipe'[j].cmd \in {"resume", "stop"}
      BY DEF SentIsUndone
    <3>2. op[c] # "pause" /\ i \in 1..Len(pipe) /\ pipe[i].cmd = "pause"
      BY <1>3, <1>5, <2>6, <3>1
    <3>3. CASE op[c] = "undo"
      <4>1. pipe'[Len(pipe')].cmd \in {"resume", "stop"} /\ Len(pipe') > i /\ Len(pipe') \in DOMAIN pipe'
        BY <1>3, <1>5, <3>2, <3>3
      <4> QED
        BY <4>1
    <3>4. CASE op[c] # "undo"
      <4>1. ~Answerable /\ ~astray
        BY <1>1, <2>6, <3>1, <3>4
      <4>2. PICK j \in DOMAIN pipe : j > i /\ pipe[j].cmd \in {"resume", "stop"}
        BY <1>0, <1>5, <3>2, <4>1 DEF OwedInv, SentIsUndone
      <4> QED
        BY <1>5, <4>2
    <3> QED
      BY <3>3, <3>4
  <2>9. PauseIsOwed'
    <3>1. op[c] \in {"undo", "resume", "stop"} => Sent({"resume", "stop"})'
      BY <1>3, <2>2
    <3> QED
      BY <1>0, <1>1, <2>1, <2>4, <2>5, <2>6, <3>1 DEF OwedInv, PauseIsOwed, worker, flags
  <2> QED
    BY <2>8, <2>9 DEF OwedInv
<1> QED
  BY <1>7, <1>8, <1>12, <1>13 DEF IInv, TypeOK

\* The engine is to be told: a thread of the pool does it.
LEMMA TellStep ==
  ASSUME IInv, NEW o \in {"start", "stop"}, Tell(o), switches < MaxSwitches,
         UNCHANGED <<tries, rounds, depth, wasRunning, astray, channel, job, wpc, promised, flags, loop, sweep>>,
         on' \in BOOLEAN, stopping' = FALSE,
         left' = left \/ (o = "stop" /\ left' = FALSE)
  PROVE  IInv'
<1>0. CallTypes /\ EngineTypes /\ EngineInv /\ ChannelInv /\ OwedInv
  BY DEF IInv, TypeOK
<1>1. MaxSwitches \in Nat /\ switches \in Nat /\ switches < MaxSwitches
  BY <1>0, AntiAfkAssumption DEF CallTypes
<1>2. PICK t \in Tasks : t = switches + 1
  BY <1>1 DEF Tasks
<1>3. switches' = t /\ op' = [op EXCEPT ![t] = o] /\ phase' = [phase EXCEPT ![t] = "lock"]
  BY <1>2 DEF Tell, Wants
<1>5. t \in Callers /\ t \notin Clients /\ op[t] = "idle" /\ phase[t] = "none"
  <2>1. t \in Callers /\ t \notin Clients
    BY <1>2, AntiAfkAssumption DEF Callers, Tasks
  <2>2. op[t] = "idle"
    BY <1>0, <1>1, <1>2 DEF ChannelInv, TaskFits
  <2> QED
    BY <1>0, <2>1, <2>2 DEF ChannelInv, PhaseFits, CallTypes, Silent
<1>6. EngineTypes' /\ EngineInv'
  <2>1. left' = left \/ left' \in BOOLEAN
    BY Zenon
  <2> QED
    BY <1>0, <2>1, CallerEngine
<1>7. CallTypes'
  <2>1. op' \in [Callers -> Operations] /\ phase' \in [Callers -> {"none", "lock", "wait"}]
    BY <1>0, <1>3 DEF CallTypes, Operations
  <2>2. switches' \in 0..MaxSwitches
    BY <1>1, <1>2, <1>3
  <2>3. stopping' \in BOOLEAN
    BY Zenon
  <2> QED
    BY <1>0, <2>1, <2>2, <2>3 DEF CallTypes, channel
<1>8. ChannelInv'
  <2>1. o \in Operations /\ o # "act" /\ o \notin Silent
    BY DEF Operations, Silent
  <2>2. PhaseFits' /\ LockIsHeld' /\ ReplyIsLast' /\ FreshIsLast' /\ FreshJob' /\ HolderIsServed'
    BY <1>0, <1>3, <1>5, <2>1, LocalChannel DEF flags, worker
  <2>3. TaskFits'
    BY <1>0, <1>1, <1>2, <1>3, <1>5 DEF ChannelInv, TaskFits, CallTypes, Tasks
  <2>4. DepthCounts'
    <3>1. Acting' = Acting
      BY <1>0, <1>3, <1>5, <2>1, ActingSame
    <3> QED
      BY <1>0, <3>1 DEF ChannelInv, DepthCounts
  <2> QED
    BY <2>2, <2>3, <2>4 DEF ChannelInv
<1>9. OwedInv'
  <2>1. Sent({"resume", "stop"})' = Sent({"resume", "stop"})
    BY DEF Sent, channel
  <2>2. (Answerable' <=> Answerable) /\ (Resuming => Resuming')
    BY <1>0, <1>3, <1>5 DEF Answerable, Resuming, CallTypes, Callers
  <2>3. (Stopping => Stopping') /\ (o = "stop" => Stopping')
    BY <1>0, <1>3, <1>5 DEF Stopping, CallTypes, Callers
  <2>4. SentIsUndone'
    BY <1>0, <2>2 DEF OwedInv, SentIsUndone, channel
  <2>5. PauseIsOwed'
    BY <1>0, <2>1, <2>2, <2>3 DEF OwedInv, PauseIsOwed, flags
  <2> QED
    BY <2>4, <2>5 DEF OwedInv
<1> QED
  BY <1>6, <1>7, <1>8, <1>9 DEF IInv, TypeOK

\* What the window does without telling the engine.
LEMMA QuietStep ==
  ASSUME IInv, UNCHANGED <<switches, client, channel, worker, flags, loop, sweep>>,
         on' \in BOOLEAN, stopping' \in BOOLEAN, stopping' => switches < MaxSwitches
  PROVE  IInv'
<1>0. CallTypes /\ EngineTypes /\ EngineInv /\ ChannelInv /\ OwedInv
  BY DEF IInv, TypeOK
<1>1. EngineTypes' /\ EngineInv'
  BY <1>0, CallerEngine DEF worker
<1>2. CallTypes'
  BY <1>0 DEF CallTypes, client, channel, worker
<1>3. ChannelInv'
  <2>1. DepthCounts' /\ TaskFits'
    BY <1>0 DEF ChannelInv, DepthCounts, Acting, TaskFits, client
  <2>2. PhaseFits' /\ LockIsHeld' /\ ReplyIsLast'
    BY <1>0 DEF ChannelInv, PhaseFits, LockIsHeld, ReplyIsLast, client, channel, worker, flags
  <2>3. FreshIsLast' /\ FreshJob' /\ HolderIsServed'
    BY <1>0 DEF ChannelInv, FreshIsLast, FreshJob, HolderIsServed, client, channel, worker
  <2> QED
    BY <2>1, <2>2, <2>3 DEF ChannelInv
<1>4. OwedInv'
  <2>1. /\ Answerable' = Answerable /\ Resuming' = Resuming /\ Stopping' = Stopping
        /\ Sent({"resume", "stop"})' = Sent({"resume", "stop"})
    BY DEF Answerable, Resuming, Stopping, Sent, client, channel
  <2>2. SentIsUndone'
    BY <1>0, <2>1 DEF OwedInv, SentIsUndone, client, channel
  <2>3. PauseIsOwed'
    BY <1>0, <2>1 DEF OwedInv, PauseIsOwed, client, worker, flags
  <2> QED
    BY <2>2, <2>3 DEF OwedInv
<1> QED
  BY <1>1, <1>2, <1>3, <1>4 DEF IInv, TypeOK

\* The thread of the manager and the box: on, off, and the stop that is told, or not.
LEMMA WindowStep ==
  ASSUME IInv, Window
  PROVE  IInv'
<1>0. /\ on \in BOOLEAN /\ stopping \in BOOLEAN /\ (stopping => switches < MaxSwitches)
      /\ TRUE \in BOOLEAN /\ FALSE \in BOOLEAN
  BY DEF IInv, TypeOK, CallTypes, ChannelInv, TaskFits
<1>1. CASE TurnOn
  <2>1. /\ ~stopping /\ switches < MaxSwitches /\ on' = TRUE /\ stopping' = stopping
        /\ UNCHANGED <<tries, rounds, depth, wasRunning, astray, channel, worker, flags, loop, sweep>>
        /\ Tell("start") \/ UNCHANGED <<switches, op, phase>>
    BY <1>1 DEF TurnOn
  <2>2. on' \in BOOLEAN /\ stopping' \in BOOLEAN /\ ~stopping' /\ stopping' = FALSE
    BY <1>0, <2>1, Zenon
  <2>3. CASE Tell("start")
    BY <2>1, <2>2, <2>3, TellStep DEF worker
  <2>4. CASE UNCHANGED <<switches, op, phase>>
    BY <2>1, <2>2, <2>4, QuietStep DEF client
  <2> QED
    BY <2>1, <2>3, <2>4
<1>2. CASE AskStop
  <2>1. /\ switches < MaxSwitches /\ stopping' = TRUE /\ on' = on
        /\ UNCHANGED <<switches, client, channel, worker, flags, loop, sweep>>
    BY <1>2 DEF AskStop
  <2>2. on' \in BOOLEAN /\ stopping' \in BOOLEAN
    BY <1>0, <2>1, Zenon
  <2> QED
    BY <2>1, <2>2, QuietStep
<1>3. CASE TurnOff
  <2>1. on' = FALSE /\ UNCHANGED <<stopping, switches, client, channel, worker, flags, loop, sweep>>
    BY <1>3 DEF TurnOff
  <2>2. on' \in BOOLEAN /\ stopping' \in BOOLEAN
    BY <1>0, <2>1, Zenon
  <2> QED
    BY <1>0, <2>1, <2>2, QuietStep
<1>4. CASE TellStop
  <2>1. /\ stopping /\ stopping' = FALSE /\ on' = on /\ Tell("stop") /\ left' = FALSE
        /\ UNCHANGED <<tries, rounds, depth, wasRunning, astray, channel, job, wpc, promised, flags,
                       loop, sweep>>
    BY <1>4 DEF TellStop
  <2>2. on' \in BOOLEAN
    BY <1>0, <2>1, Zenon
  <2> QED
    BY <1>0, <2>1, <2>2, TellStep
<1>5. CASE NotTold
  <2>1. /\ stopping' = FALSE /\ on' = on
        /\ UNCHANGED <<switches, client, channel, worker, flags, loop, sweep>>
    BY <1>5 DEF NotTold
  <2>2. on' \in BOOLEAN /\ stopping' \in BOOLEAN
    BY <1>0, <2>1, Zenon
  <2> QED
    BY <2>1, <2>2, QuietStep
<1> QED
  BY <1>1, <1>2, <1>3, <1>4, <1>5 DEF Window

\* Who waits is the holder, and a task that waits brings its switch.
LEMMA WaitingCaller ==
  ASSUME CallTypes, ChannelInv, NEW c \in Callers, phase[c] = "wait"
  PROVE  /\ holder = c /\ op[c] \in Operations /\ op[c] \notin Silent
         /\ c \in Clients \/ op[c] \in {"start", "stop"}
         /\ c \notin Clients => c \in Tasks
<1>1. holder = c /\ op[c] \in Operations /\ op[c] \notin Silent
  BY DEF CallTypes, ChannelInv, LockIsHeld, PhaseFits
<1>2. c \notin Clients => c \in Tasks
  BY DEF Callers
<1>3. c \in Tasks => op[c] \in {"idle", "start", "stop"}
  BY DEF ChannelInv, TaskFits
<1> QED
  BY <1>1, <1>2, <1>3 DEF Silent

\* Types and counts, when the answer or the end of the time takes the caller on.
LEMMA GoesOnTypes ==
  ASSUME CallTypes, ChannelInv, NEW c \in Callers, phase[c] = "wait",
         NEW result \in BOOLEAN, NEW guessed \in BOOLEAN,
         NEW o \in Operations, NEW p \in {"none", "lock"}, GoesOn(c, result, guessed, o, p),
         UNCHANGED <<window, rounds>>, holder' = None, reply' = None,
         pipe' \in Seq(Requests), job' \in Requests \cup {None}
  PROVE  CallTypes' /\ DepthCounts' /\ TaskFits'
<1>1. op[c] \notin Silent /\ (c \in Clients \/ op[c] \in {"start", "stop"})
  BY WaitingCaller
<1>2. op' = [op EXCEPT ![c] = o] /\ phase' = [phase EXCEPT ![c] = p]
  BY DEF GoesOn
<1>3. depth \in Nat /\ Cardinality(Acting) \in Nat /\ Cardinality(Clients) \in Nat
      /\ depth <= Cardinality(Acting)
  BY ActingFinite DEF CallTypes, ChannelInv, DepthCounts
<1>4. /\ depth' \in Nat /\ Cardinality(Acting') \in Nat
      /\ depth' <= Cardinality(Acting') /\ Cardinality(Acting') <= Cardinality(Clients)
  <2>1. Cardinality(Acting') \in Nat /\ Cardinality(Acting') <= Cardinality(Clients)
    <3>1. IsFiniteSet(Clients) /\ Acting' \subseteq Clients
      BY AntiAfkAssumption DEF Acting
    <3> QED
      BY <3>1, FS_Subset, FS_CardinalityType
  <2>2. CASE o = "act"
    <3>1. op[c] \in {"pause", "check"} /\ (depth' = depth \/ depth' = depth + 1)
      BY <2>2 DEF GoesOn
    <3>2. c \in Clients /\ op[c] # "act" /\ op' = [op EXCEPT ![c] = "act"]
      BY <1>1, <1>2, <2>2, <3>1
    <3>3. Cardinality(Acting') = Cardinality(Acting) + 1
      BY <3>2, ActingEntered
    <3> QED
      BY <1>3, <2>1, <3>1, <3>3
  <2>3. CASE o # "act"
    <3>1. depth' = depth
      BY <2>3 DEF GoesOn
    <3>2. Acting' = Acting
      BY <1>1, <1>2, <2>3, ActingSame DEF Silent
    <3> QED
      BY <1>3, <2>1, <3>1, <3>2
  <2> QED
    BY <2>2, <2>3
<1>5. CallTypes'
  <2>1. op' \in [Callers -> Operations] /\ phase' \in [Callers -> {"none", "lock", "wait"}]
    BY <1>2 DEF CallTypes
  <2>2. depth' \in 0..Cardinality(Clients)
    BY <1>3, <1>4
  <2>3. astray \in BOOLEAN
    BY DEF CallTypes
  <2>4. astray' \in BOOLEAN
    BY <2>3 DEF GoesOn
  <2>5. tries' \in [Clients -> Nat] /\ wasRunning' \in BOOLEAN
    BY DEF GoesOn
  <2> QED
    BY <2>1, <2>2, <2>4, <2>5 DEF CallTypes, window
<1>6. TaskFits'
  <2>1. c \in Clients \/ o = "idle"
    BY <1>1 DEF GoesOn
  <2>2. UNCHANGED <<stopping, switches>>
    BY DEF window
  <2> QED
    BY <1>2, <2>1, <2>2, ClientTasks DEF ChannelInv
<1> QED
  BY <1>4, <1>5, <1>6 DEF DepthCounts

\* What stays owed while the caller goes on: it had no request of its own to send.
LEMMA GoesOnOwed ==
  ASSUME CallTypes, NEW c \in Callers, phase[c] = "wait", op[c] \notin Silent,
         NEW result \in BOOLEAN, NEW guessed \in BOOLEAN,
         NEW o \in Operations, NEW p \in {"none", "lock"}, GoesOn(c, result, guessed, o, p),
         depth \in Nat
  PROVE  /\ (Resuming => Resuming') /\ (Stopping => Stopping')
         /\ (depth > 0 => depth' > 0) /\ (astray => astray')
         /\ Answerable =>
               \/ Answerable' \/ (depth' > 0 /\ op[c] = "pause" /\ result)
               \/ (op[c] = "check" /\ ~result /\ (guessed => astray'))
<1>1. op' = [op EXCEPT ![c] = o] /\ phase' = [phase EXCEPT ![c] = p]
  BY DEF GoesOn
<1>2. (Resuming => Resuming') /\ (Stopping => Stopping')
  BY <1>1 DEF Silent, Resuming, Stopping, CallTypes, Callers
<1>3. (depth > 0 => depth' > 0) /\ (astray => astray')
  <2>1. depth' = depth \/ depth' = depth + 1
    BY DEF GoesOn
  <2>2. astray' = astray \/ astray' = (astray \/ guessed)
    BY DEF GoesOn
  <2>3. astray => astray'
    BY <2>2, Zenon
  <2> QED
    BY <2>1, <2>3
<1>4. ASSUME Answerable
      PROVE  \/ Answerable' \/ (depth' > 0 /\ op[c] = "pause" /\ result)
             \/ (op[c] = "check" /\ ~result /\ (guessed => astray'))
  <2>1. PICK d \in Clients : op[d] \in {"pause", "check"} \/ (op[d] = "undo" /\ phase[d] = "lock")
    BY <1>4 DEF Answerable
  <2>2. CASE d # c
    BY <1>1, <2>1, <2>2 DEF Answerable, CallTypes, Callers
  <2>3. CASE d = c
    <3>1. op[c] \in {"pause", "check"} /\ c \in Clients
      BY <2>1, <2>3
    <3>2. o = "check" \/ (o = "undo" /\ p = "lock") => Answerable'
      BY <1>1, <3>1 DEF Answerable, CallTypes
    <3> QED
      BY <3>1, <3>2 DEF GoesOn, Silent
  <2> QED
    BY <2>2, <2>3
<1> QED
  BY <1>2, <1>3, <1>4

\* The answer has come.
LEMMA ReceiveStep ==
  ASSUME IInv, NEW c \in Callers, Receive(c)
  PROVE  IInv'
<1>0. CallTypes /\ EngineTypes /\ EngineInv /\ ChannelInv /\ OwedInv
  BY DEF IInv, TypeOK
<1>1. /\ phase[c] = "wait" /\ reply # None /\ holder' = None /\ reply' = None
      /\ Continue(c, reply, FALSE)
      /\ UNCHANGED <<window, rounds, pipe, worker, flags, loop, sweep>>
  BY DEF Receive
<1>2. /\ holder = c /\ op[c] \in Operations /\ op[c] \notin Silent
      /\ c \in Clients \/ op[c] \in {"start", "stop"}
  BY <1>0, <1>1, WaitingCaller
<1>3. PICK result \in BOOLEAN : result = reply
  BY <1>0, <1>1 DEF CallTypes
<1>4. PICK guessed \in BOOLEAN : guessed = FALSE
  OBVIOUS
<1>5. Continue(c, result, guessed)
  BY <1>1, <1>3, <1>4
<1>6. PICK o \in Operations, p \in {"none", "lock"} : GoesOn(c, result, guessed, o, p)
  BY <1>0, <1>2, <1>5, ContinueEffect
<1>7. pipe = <<>> /\ wpc = "idle"
  BY <1>0, <1>1 DEF ChannelInv, ReplyIsLast
<1>8. EngineTypes' /\ EngineInv'
  BY <1>0, <1>1, CallerEngine DEF worker
<1>9. CallTypes' /\ DepthCounts' /\ TaskFits'
  <2>1. pipe' \in Seq(Requests) /\ job' \in Requests \cup {None}
    BY <1>0, <1>1 DEF CallTypes, worker
  <2> QED
    BY <1>0, <1>1, <1>6, <2>1, GoesOnTypes
<1>10. ChannelInv'
  <2>1. /\ op' = [op EXCEPT ![c] = o] /\ phase' = [phase EXCEPT ![c] = p]
        /\ p = "lock" => o \notin Silent
    BY <1>6 DEF GoesOn
  <2>2. pipe' = <<>> /\ wpc' = "idle"
    BY <1>1, <1>7 DEF worker
  <2>3. \A i \in DOMAIN pipe' : ~pipe'[i].fresh
    BY <2>2
  <2>4. PhaseFits' /\ LockIsHeld' /\ ReplyIsLast' /\ FreshIsLast' /\ FreshJob' /\ HolderIsServed'
    BY <1>0, <1>1, <2>1, <2>2, <2>3, FreeChannel
  <2> QED
    BY <1>9, <2>4 DEF ChannelInv
<1>11. OwedInv'
  <2>1. depth \in Nat
    BY <1>0, ActingFinite DEF CallTypes
  <2>2. /\ (Resuming => Resuming') /\ (Stopping => Stopping')
        /\ (depth > 0 => depth' > 0) /\ (astray => astray')
        /\ Answerable =>
              \/ Answerable' \/ (depth' > 0 /\ op[c] = "pause" /\ result)
              \/ (op[c] = "check" /\ ~result /\ (guessed => astray'))
    BY <1>0, <1>1, <1>2, <1>6, <2>1, GoesOnOwed
  <2>3. \A cmds : ~Sent(cmds)
    BY <1>7 DEF Sent
  <2>4. op[c] = "check" /\ ~result => ~pauseReq
    <3>1. op[c] = "check" /\ ~result => reply = FALSE /\ Asks(op[holder])
      BY <1>2, <1>3 DEF Asks
    <3> QED
      BY <1>0, <3>1 DEF ChannelInv, ReplyIsLast, EngineInv, PauseIsOfRunning
  <2>6. SentIsUndone'
    BY <1>1, <1>7 DEF SentIsUndone
  <2>7. PauseIsOwed'
    BY <1>0, <1>1, <2>2, <2>3, <2>4 DEF OwedInv, PauseIsOwed, worker, flags
  <2> QED
    BY <2>6, <2>7 DEF OwedInv
<1> QED
  BY <1>8, <1>9, <1>10, <1>11 DEF IInv, TypeOK

\* The commands on the way after the time is up: none is waited for, and all but the question
\* of the caller who gave up are still there.
LEMMA ExpirePipe ==
  ASSUME CallTypes, EngineTypes, JobFits, ChannelInv,
         NEW c \in Callers, phase[c] = "wait", wpc # "idle",
         pipe' = IF Asks(op[c]) THEN SubSeq(pipe, 1, Len(pipe) - 1)
                 ELSE [i \in DOMAIN pipe |-> [pipe[i] EXCEPT !.fresh = FALSE]]
  PROVE  /\ pipe' \in Seq(Requests) /\ \A i \in DOMAIN pipe' : ~pipe'[i].fresh
         /\ \A i \in DOMAIN pipe' : i \in DOMAIN pipe /\ pipe'[i].cmd = pipe[i].cmd
         /\ \A i \in DOMAIN pipe : pipe[i].cmd # "get_running" => i \in DOMAIN pipe'
<1>1. pipe \in Seq(Requests)
  BY DEF CallTypes
<1>2. CASE ~Asks(op[c])
  <2>1. pipe' = [i \in DOMAIN pipe |-> [pipe[i] EXCEPT !.fresh = FALSE]]
    BY <1>2
  <2>2. ASSUME NEW i \in DOMAIN pipe
        PROVE  /\ [pipe[i] EXCEPT !.fresh = FALSE] \in Requests
               /\ [pipe[i] EXCEPT !.fresh = FALSE].cmd = pipe[i].cmd
               /\ ~[pipe[i] EXCEPT !.fresh = FALSE].fresh
    <3>1. PICK request \in Requests : request = pipe[i]
      BY <1>1
    <3> QED
      BY <3>1 DEF Requests
  <2>3. pipe' \in Seq(Requests) /\ DOMAIN pipe' = DOMAIN pipe
    BY <1>1, <2>1, <2>2
  <2> QED
    BY <2>1, <2>2, <2>3
<1>3. CASE Asks(op[c])
  <2>1. pipe' = SubSeq(pipe, 1, Len(pipe) - 1)
    BY <1>3
  <2>2. holder = c /\ holder # None /\ op[c] \in Operations
    <3>1. None \notin Callers
      BY AntiAfkAssumption DEF Callers, Tasks
    <3> QED
      BY <3>1, WaitingCaller
  <2>3. Command(op[c]) = "get_running"
    BY <1>3, <2>2, CommandIs
  <2>4. reply = None
    BY DEF ChannelInv, ReplyIsLast
  <2>5. job.cmd # "get_running"
    BY DEF JobFits, EngineTypes
  <2>6. pipe # <<>> /\ pipe[Len(pipe)].fresh
    BY <2>2, <2>3, <2>4, <2>5 DEF ChannelInv, HolderIsServed, FreshJob
  <2>7. /\ Len(pipe) \in Nat \ {0} /\ DOMAIN pipe = 1..Len(pipe)
        /\ pipe' \in Seq(Requests) /\ DOMAIN pipe' = 1..(Len(pipe) - 1)
        /\ \A i \in DOMAIN pipe' : pipe'[i] = pipe[i]
    BY <1>1, <2>1, <2>6
  <2>8. pipe[Len(pipe)].cmd = "get_running"
    BY <2>2, <2>3, <2>6, <2>7 DEF ChannelInv, FreshIsLast
  <2>9. \A i \in DOMAIN pipe' : i \in DOMAIN pipe /\ i # Len(pipe)
    BY <2>7
  <2>10. \A i \in DOMAIN pipe' : ~pipe'[i].fresh
    BY <2>7, <2>9 DEF ChannelInv, FreshIsLast
  <2>11. \A i \in DOMAIN pipe : pipe[i].cmd # "get_running" => i \in DOMAIN pipe'
    BY <2>7, <2>8
  <2> QED
    BY <2>7, <2>9, <2>10, <2>11
<1> QED
  BY <1>2, <1>3

\* The time is up.
LEMMA ExpireStep ==
  ASSUME IInv, NEW c \in Callers, Expire(c)
  PROVE  IInv'
<1>0. CallTypes /\ EngineTypes /\ EngineInv /\ ChannelInv /\ OwedInv /\ JobFits
  BY DEF IInv, TypeOK, EngineInv
<1>1. /\ phase[c] = "wait" /\ wpc # "idle" /\ holder' = None
      /\ pipe' = IF Asks(op[c]) THEN SubSeq(pipe, 1, Len(pipe) - 1)
                 ELSE [i \in DOMAIN pipe |-> [pipe[i] EXCEPT !.fresh = FALSE]]
      /\ job' = [job EXCEPT !.fresh = FALSE]
      /\ UNCHANGED <<window, rounds, reply, wpc, promised, left, flags, loop, sweep>>
  BY DEF Expire
<1>2. /\ holder = c /\ op[c] \in Operations /\ op[c] \notin Silent
      /\ c \in Clients \/ op[c] \in {"start", "stop"}
  BY <1>0, <1>1, WaitingCaller
<1>3. PICK guessed \in BOOLEAN : guessed = TRUE
  OBVIOUS
<1>4. PICK result \in BOOLEAN :
        Continue(c, result, guessed) /\ (result => Asks(op[c]))
  BY <1>3 DEF Expire
<1>5. PICK o \in Operations, p \in {"none", "lock"} : GoesOn(c, result, guessed, o, p)
  BY <1>0, <1>2, <1>4, ContinueEffect
<1>6. /\ pipe' \in Seq(Requests) /\ \A i \in DOMAIN pipe' : ~pipe'[i].fresh
      /\ \A i \in DOMAIN pipe' : i \in DOMAIN pipe /\ pipe'[i].cmd = pipe[i].cmd
      /\ \A i \in DOMAIN pipe : pipe[i].cmd # "get_running" => i \in DOMAIN pipe'
  BY <1>0, <1>1, ExpirePipe
<1>7. job' \in Requests /\ ~job'.fresh
  <2>1. PICK request \in Requests : request = job
    BY <1>0, <1>1 DEF JobFits
  <2> QED
    BY <1>1, <2>1 DEF Requests
<1>8. reply' = None
  BY <1>0, <1>1 DEF ChannelInv, ReplyIsLast
<1>9. EngineTypes' /\ EngineInv'
  BY <1>0, <1>1, CallerEngine
<1>10. CallTypes' /\ DepthCounts' /\ TaskFits'
  BY <1>0, <1>1, <1>5, <1>6, <1>7, <1>8, GoesOnTypes
<1>11. ChannelInv'
  <2>1. /\ op' = [op EXCEPT ![c] = o] /\ phase' = [phase EXCEPT ![c] = p]
        /\ p = "lock" => o \notin Silent
    BY <1>5 DEF GoesOn
  <2>2. PhaseFits' /\ LockIsHeld' /\ ReplyIsLast' /\ FreshIsLast' /\ FreshJob' /\ HolderIsServed'
    BY <1>0, <1>1, <1>6, <1>7, <1>8, <2>1, FreeChannel
  <2> QED
    BY <1>10, <2>2 DEF ChannelInv
<1>12. OwedInv'
  <2>1. depth \in Nat
    BY <1>0, ActingFinite DEF CallTypes
  <2>2. /\ (Resuming => Resuming') /\ (Stopping => Stopping')
        /\ (depth > 0 => depth' > 0) /\ (astray => astray')
        /\ Answerable =>
              \/ Answerable' \/ (depth' > 0 /\ op[c] = "pause" /\ result)
              \/ (op[c] = "check" /\ ~result /\ (guessed => astray'))
    BY <1>0, <1>1, <1>2, <1>5, <2>1, GoesOnOwed
  <2>3. Answerable => Answerable' \/ astray'
    BY <1>3, <1>4, <2>2 DEF Asks
  <2>4. ASSUME NEW cmds, "get_running" \notin cmds, Sent(cmds)
        PROVE  Sent(cmds)'
    <3>1. PICK i \in DOMAIN pipe : pipe[i].cmd \in cmds
      BY <2>4 DEF Sent
    <3>2. i \in DOMAIN pipe'
      BY <1>6, <2>4, <3>1
    <3> QED
      BY <1>6, <3>1, <3>2 DEF Sent
  <2>5. Sent({"resume", "stop"}) => Sent({"resume", "stop"})'
    BY <2>4
  <2>7. SentIsUndone'
    <3>1. SUFFICES ASSUME ~astray', ~Answerable', NEW i \in DOMAIN pipe', pipe'[i].cmd = "pause"
                   PROVE  \E j \in DOMAIN pipe' : j > i /\ pipe'[j].cmd \in {"resume", "stop"}
      BY DEF SentIsUndone
    <3>2. ~astray /\ ~Answerable /\ i \in DOMAIN pipe /\ pipe[i].cmd = "pause"
      BY <1>6, <2>2, <2>3, <3>1
    <3>3. PICK j \in DOMAIN pipe : j > i /\ pipe[j].cmd \in {"resume", "stop"}
      BY <1>0, <3>2 DEF OwedInv, SentIsUndone
    <3>4. j \in DOMAIN pipe'
      BY <1>6, <3>3
    <3> QED
      BY <1>6, <3>3, <3>4
  <2>8. PauseIsOwed'
    BY <1>0, <1>1, <2>2, <2>3, <2>5 DEF OwedInv, PauseIsOwed, flags
  <2> QED
    BY <2>7, <2>8 DEF OwedInv
<1> QED
  BY <1>9, <1>10, <1>11, <1>12 DEF IInv, TypeOK

-----------------------------------------------------------------------------
(* The invariant, and what it says *)

\* It holds at the beginning ...
LEMMA InitInvariant ==
  ASSUME Init
  PROVE  IInv
<1> USE DEF Init
<1>1. CallTypes
  <2>1. Cardinality(Clients) \in Nat /\ MaxSwitches \in Nat /\ MaxRounds \in Nat
    BY ActingFinite, AntiAfkAssumption
  <2>2. switches \in 0..MaxSwitches /\ depth \in 0..Cardinality(Clients)
    BY <2>1
  <2>3. tries \in [Clients -> Nat] /\ rounds \in [Clients -> 0..MaxRounds]
    BY <2>1
  <2>4. op \in [Callers -> Operations] /\ phase \in [Callers -> {"none", "lock", "wait"}]
    BY DEF Operations
  <2>5. holder \in Callers \cup {None} /\ pipe \in Seq(Requests)
    OBVIOUS
  <2>6. reply \in BOOLEAN \cup {None} /\ job \in Requests \cup {None}
    OBVIOUS
  <2>7. on \in BOOLEAN /\ stopping \in BOOLEAN /\ wasRunning \in BOOLEAN /\ astray \in BOOLEAN
    OBVIOUS
  <2> QED
    BY <2>2, <2>3, <2>4, <2>5, <2>6, <2>7 DEF CallTypes
<1>2. EngineTypes
  <2>1. loop \in Places /\ wpc \in {"idle", "pausing", "withdrawing", "joining"}
    BY DEF Places
  <2>2. index \in 0..Windows /\ batchEnd \in 0..Windows /\ held \subseteq 0..Windows
    BY Numbers
  <2>3. /\ promised \in BOOLEAN /\ left \in BOOLEAN /\ running \in BOOLEAN /\ stopReq \in BOOLEAN
        /\ pauseReq \in BOOLEAN /\ paused \in BOOLEAN
    OBVIOUS
  <2> QED
    BY <2>1, <2>2, <2>3 DEF EngineTypes
<1>3. EngineInv
  BY DEF EngineInv, HeldInBatch, PausedIsParked, JobFits, PromiseStands, PauseIsOfRunning, BatchIsHeld
<1>4. ChannelInv
  <2>1. Acting = {}
    BY DEF Acting, Callers
  <2>2. DepthCounts
    BY <2>1, FS_EmptySet DEF DepthCounts
  <2>3. TaskFits /\ PhaseFits
    BY DEF TaskFits, PhaseFits, Callers
  <2>4. LockIsHeld
    BY AntiAfkAssumption DEF LockIsHeld, Callers, Tasks
  <2>5. ReplyIsLast
    BY AntiAfkAssumption DEF ReplyIsLast
  <2>6. FreshIsLast /\ FreshJob /\ HolderIsServed
    BY DEF FreshIsLast, FreshJob, HolderIsServed
  <2> QED
    BY <2>2, <2>3, <2>4, <2>5, <2>6 DEF ChannelInv
<1>5. OwedInv
  BY DEF OwedInv, SentIsUndone, PauseIsOwed
<1> QED
  BY <1>1, <1>2, <1>3, <1>4, <1>5 DEF IInv, TypeOK

\* Nothing happens.
LEMMA StutterInvariant ==
  ASSUME IInv, UNCHANGED vars
  PROVE  IInv'
<1> USE DEF vars, window, client, channel, worker, flags, sweep
<1>0. CallTypes /\ EngineTypes /\ EngineInv /\ ChannelInv /\ OwedInv
  BY DEF IInv, TypeOK
<1>1. CallTypes' /\ ChannelInv'
  BY <1>0, LoopChannel
<1>2. EngineTypes' /\ EngineInv'
  BY <1>0, CallerEngine
<1>3. OwedInv'
  BY <1>0, LoopOwed
<1> QED
  BY <1>1, <1>2, <1>3 DEF IInv, TypeOK

\* ... and every step keeps it.
LEMMA StepInvariant ==
  ASSUME IInv, [Next]_vars
  PROVE  IInv'
<1>0. CallTypes /\ EngineTypes /\ EngineInv /\ ChannelInv /\ OwedInv
  BY DEF IInv, TypeOK
<1>1. ASSUME NEW c \in Clients, PlayUnpaused(c) \/ AskPause(c) \/ EndBatch(c) \/ Leave(c)
      PROVE  IInv'
  BY <1>1, BeginStep, EndBatchStep, LeaveStep
<1>2. ASSUME NEW c \in Callers, Caller(c)
      PROVE  IInv'
  BY <1>2, SendStep, ReceiveStep, ExpireStep DEF Caller
<1>3. CASE Window
  BY <1>3, WindowStep
<1>4. CASE Worker
  <2>1. EngineTypes' /\ EngineInv'
    BY <1>0, <1>4, WorkerEngine
  <2>2. CallTypes' /\ ChannelInv'
    BY <1>0, <1>4, WorkerChannel
  <2>3. OwedInv'
    BY <1>0, <1>4, WorkerOwed
  <2> QED
    BY <2>1, <2>2, <2>3 DEF IInv, TypeOK
<1>5. CASE Loop
  <2>1. EngineTypes' /\ EngineInv' /\ pauseReq' = pauseReq /\ (running' => running)
    BY <1>0, <1>5, LoopEngine
  <2>2. UNCHANGED <<window, client, channel, worker>>
    BY <1>5 DEF Loop
  <2>3. CallTypes' /\ ChannelInv'
    BY <1>0, <2>1, <2>2, LoopChannel
  <2>4. OwedInv'
    BY <1>0, <2>1, <2>2, LoopOwed
  <2> QED
    BY <2>1, <2>3, <2>4 DEF IInv, TypeOK
<1>6. CASE UNCHANGED vars
  BY <1>6, StutterInvariant
<1> QED
  BY <1>1, <1>2, <1>3, <1>4, <1>5, <1>6 DEF Next

(***************************************************************************)
(* The inductive invariant holds in every reachable state: what the engine *)
(* has been asked, what is on its way and what the window counts fit       *)
(* together (antiafk_native.cpp, antiafk.py, gui.py).                      *)
(***************************************************************************)
THEOREM Invariance == Spec => []IInv
<1>1. Init => IInv
  BY InitInvariant
<1>2. IInv /\ [Next]_vars => IInv'
  BY StepInvariant
<1> QED
  BY <1>1, <1>2, PTL DEF Spec

(***************************************************************************)
(* Every variable keeps its type; in particular the pauses counted never   *)
(* exceed the clients, and never go below zero (_auto_item_pause_antiafk,  *)
(* _auto_item_resume_antiafk).                                             *)
(***************************************************************************)
THEOREM TypeCorrect == Spec => []TypeOK
<1>1. IInv => TypeOK
  BY DEF IInv
<1> QED
  BY <1>1, Invariance, PTL

(***************************************************************************)
(* After a granted pause, and until something else is asked, no window     *)
(* gets input and nothing is held of BES, for any number of clients,       *)
(* windows and switches (pause_antiafk, antiafk_loop_thread).              *)
(***************************************************************************)
THEOREM PauseIsQuiet == Spec => []PauseQuiets
<1>1. IInv => PauseQuiets
  BY DEF IInv, EngineInv, PromiseStands, HeldInBatch, InBatch, PauseQuiets
<1> QED
  BY <1>1, Invariance, PTL

(***************************************************************************)
(* With throttling lifted for a batch, a window gets input only while its  *)
(* process is held, whatever the size of the batches and however they were *)
(* interrupted (antiafk_loop_thread).                                      *)
(***************************************************************************)
THEOREM InputUnthrottled == Spec => []InputIsHeld
<1>1. IInv => InputIsHeld
  <2>1. IInv => EngineTypes /\ BatchIsHeld
    BY DEF IInv, TypeOK, EngineInv
  <2> QED
    BY <2>1 DEF EngineTypes, BatchIsHeld, InputIsHeld
<1> QED
  BY <1>1, Invariance, PTL

(***************************************************************************)
(* With everybody at rest, Anti-AFK is not left paused, unless a client    *)
(* guessed wrongly, or left its pause to the stop of a manager that ended  *)
(* and no stop was sent since: for any number of clients, overlapping      *)
(* batches, lost answers and switches (_auto_item_pause_antiafk,           *)
(* _auto_item_resume_antiafk).                                             *)
(***************************************************************************)
THEOREM PauseIsTakenBack == Spec => []NotLeftPaused
<1>1. ASSUME IInv, AtRest
      PROVE  ~astray /\ ~left => ~pauseReq
  <2>1. \A c \in Callers : op[c] = "idle"
    BY <1>1 DEF AtRest
  <2>2. ~Answerable /\ ~Resuming /\ ~Stopping
    BY <2>1 DEF Answerable, Resuming, Stopping, Callers
  <2>3. ~Sent({"resume", "stop"})
    BY <1>1 DEF AtRest, Sent
  <2>4. ~(depth > 0)
    <3>1. Acting = {}
      BY <2>1 DEF Acting, Callers
    <3>2. Cardinality(Acting) = 0
      BY <3>1, FS_EmptySet
    <3> QED
      BY <1>1, <3>2, ActingFinite DEF IInv, TypeOK, CallTypes, ChannelInv, DepthCounts
  <2> QED
    BY <1>1, <2>2, <2>3, <2>4 DEF IInv, OwedInv, PauseIsOwed
<1>2. IInv => NotLeftPaused
  BY <1>1 DEF NotLeftPaused
<1> QED
  BY <1>2, Invariance, PTL

-----------------------------------------------------------------------------
(* Auto-Actions: the order of the rows *)

\* How many of the rows come up to x.
Rank(rows, x) == Cardinality({y \in rows : y <= x})

\* The ranks tell the rows apart, follow their order and use up 1 .. Cardinality(rows).
LEMMA RankFacts ==
  ASSUME NEW rows \in SUBSET Rows
  PROVE  /\ IsFiniteSet(rows) /\ Cardinality(rows) \in Nat
         /\ \A x \in rows : Rank(rows, x) \in 1 .. Cardinality(rows)
         /\ \A x, y \in rows : x < y => Rank(rows, x) < Rank(rows, y)
         /\ \A i \in 1 .. Cardinality(rows) : \E x \in rows : Rank(rows, x) = i
<1> DEFINE Upto(x) == {y \in rows : y <= x}
           f == [x \in rows |-> Rank(rows, x)]
           n == Cardinality(rows)
<1>1. IsFiniteSet(rows) /\ n \in Nat
  <2>1. NRows \in Nat /\ IsFiniteSet(Rows)
    BY RowsAssumption, FS_Interval DEF Rows
  <2> QED
    BY <2>1, FS_Subset, FS_CardinalityType
<1>0. rows \subseteq Nat
  BY RowsAssumption DEF Rows
<1>2. \A x \in rows : IsFiniteSet(Upto(x)) /\ Cardinality(Upto(x)) \in Nat /\ Cardinality(Upto(x)) <= n
  BY <1>1, FS_Subset, FS_CardinalityType
<1>3. \A x \in rows : Cardinality(Upto(x)) # 0
  BY <1>0, <1>2, FS_EmptySet
<1>4. \A x \in rows : Rank(rows, x) \in 1 .. n
  BY <1>1, <1>2, <1>3 DEF Rank
<1>5. ASSUME NEW x \in rows, NEW y \in rows, x < y
      PROVE  Rank(rows, x) < Rank(rows, y)
  <2>0. x \in Nat /\ y \in Nat /\ \A z \in rows : z \in Nat
    BY <1>0
  <2>4. \A z \in rows : z <= x => z <= y
    BY <2>0, <1>5
  <2>5. ~(y <= x) /\ y <= y
    BY <2>0, <1>5
  <2>1. Upto(x) \subseteq Upto(y) /\ y \notin Upto(x) /\ y \in Upto(y)
    BY <2>4, <2>5, Zenon
  <2>2. Cardinality(Upto(x)) <= Cardinality(Upto(y)) /\ Cardinality(Upto(x)) # Cardinality(Upto(y))
    BY <1>2, <2>1, FS_Subset
  <2> QED
    BY <1>2, <2>2 DEF Rank
<1>6. f \in Injection(rows, 1 .. n)
  <2>1. f \in [rows -> 1 .. n]
    BY <1>4
  <2>2. ASSUME NEW x \in rows, NEW y \in rows, f[x] = f[y]
        PROVE  x = y
    <3>1. x \in Nat /\ y \in Nat /\ Rank(rows, x) = Rank(rows, y)
      BY <1>0, <2>2
    <3>2. Rank(rows, x) \in 1 .. n
      BY <1>4
    <3> QED
      BY <1>1, <1>5, <3>1, <3>2
  <2> QED
    BY <2>1, <2>2 DEF Injection, IsInjective
<1>7. f \in Surjection(rows, 1 .. n)
  <2>1. IsFiniteSet(1 .. n) /\ Cardinality(1 .. n) = n
    BY <1>1, FS_Interval
  <2> QED
    BY <1>1, <1>6, <2>1, FS_Injection
<1>8. \A i \in 1 .. n : \E x \in rows : Rank(rows, x) = i
  BY <1>7 DEF Surjection
<1> QED
  BY <1>1, <1>4, <1>5, <1>8

\* The rows in their order are a sequence of them.
LEMMA InOrderFacts ==
  ASSUME NEW rows \in SUBSET Rows
  PROVE  InOrder(rows) \in Seq(rows) /\ \A i \in 1 .. Len(InOrder(rows)) : InOrder(rows)[i] \in rows
<1> DEFINE n == Cardinality(rows)
           s == [i \in 1 .. n |-> CHOOSE x \in rows : Rank(rows, x) = i]
           Sorted(t) == \A i, j \in DOMAIN t : i < j => t[i] < t[j]
<1>1. n \in Nat /\ \A i \in 1 .. n : s[i] \in rows /\ Rank(rows, s[i]) = i
  BY RankFacts
<1>2. s \in [1 .. n -> rows]
  BY <1>1
<1>3. Sorted(s)
  <2>1. SUFFICES ASSUME NEW i \in 1 .. n, NEW j \in 1 .. n, i < j
                 PROVE  s[i] < s[j]
    OBVIOUS
  <2>2. s[i] \in rows /\ s[j] \in rows /\ Rank(rows, s[i]) = i /\ Rank(rows, s[j]) = j
    BY <1>1
  <2>3. s[i] \in Nat /\ s[j] \in Nat
    <3> HIDE DEF s
    <3>1. rows \subseteq Nat
      BY RowsAssumption DEF Rows
    <3> QED
      BY <2>2, <3>1
  <2>4. s[j] < s[i] => j < i
    BY <2>2, RankFacts
  <2>5. s[i] # s[j]
    <3> HIDE DEF s
    <3> QED
      BY <2>1, <2>2, <1>1
  <2> HIDE DEF s
  <2> QED
    BY <2>1, <2>3, <2>4, <2>5, <1>1
<1> HIDE DEF s
<1>4. InOrder(rows) \in [1 .. n -> rows]
  <2>1. \E t \in [1 .. n -> rows] : Sorted(t)
    BY <1>2, <1>3
  <2> QED
    BY <2>1 DEF InOrder
<1> QED
  BY <1>1, <1>4

-----------------------------------------------------------------------------
(* Auto-Actions: the invariant *)

Remembered ==
  [ready : Nat, consumed : 0 .. MaxSeq, donePid : 0 .. MaxPid, done : BOOLEAN,
   setting : 0 .. NoSetting]

\* The places of the engine's cycle: at some of them it is with a user, and
\* at some of these it has rows to play.
Chosen == {"pause", "hook", "lock", "batch", "mark"}
Visited == {"menu", "gates"} \cup Chosen
ActionPlaces == {"top", "users"} \cup Visited

Batches ==
  [by : {"none", "engine", "test"}, u : Users, pid : 0 .. MaxPid, rest : Seq(Rows),
   used : SUBSET Rows, row : 0 .. NRows, inner : 0 .. NRows, token : Nat, asked : BOOLEAN]

Engines ==
  [pc : ActionPlaces, todo : SUBSET Users, u : Users, pid : 0 .. MaxPid,
   rows : SUBSET Rows, due : SUBSET Rows, edits : [Rows -> Nat]]

Events == [seq : 0 .. MaxSeq, pid : 0 .. MaxPid, for : SUBSET (Rows \X (0 .. 1))]

EnvTypes ==
  /\ pid \in [Users -> 0 .. MaxPid] /\ pids \in 0 .. MaxPid
  /\ menu \in [Users -> BOOLEAN] /\ enabled \in BOOLEAN /\ edits \in [Rows -> Nat]

WorkTypes ==
  /\ eng \in Engines
  /\ test \in [pc : {"idle", "lock", "batch"}, u : Users, pid : 0 .. MaxPid]
  /\ batch \in Batches

MemTypes ==
  /\ out \in [Users -> [pid : 0 .. MaxPid, t : Nat]]
  /\ state \in [Users -> [Rows -> Remembered]]
  /\ event \in [Users -> Events] /\ seqs \in 0 .. MaxSeq
  /\ gen \in [Users -> Nat] /\ blocked \in [Users -> 0 .. MaxPid]

HistTypes ==
  /\ marked \in [Users -> SUBSET Rows] /\ killed \subseteq 0 .. MaxPid
  /\ fired \in [Users -> [Rows -> 0 .. MaxSeq]]

\* Who has the lock, and what the batch and the row it plays are.
LockInv ==
  /\ (eng.pc = "batch") <=> (batch.by = "engine")
  /\ (test.pc = "batch") <=> (batch.by = "test")
  /\ batch.by = "none" => batch = NoBatch
  /\ batch.by = "engine" => /\ batch.u = eng.u /\ batch.pid = eng.pid
                            /\ \A i \in 1 .. Len(batch.rest) : batch.rest[i] \in eng.due
  /\ batch.by # "none" => batch.pid # 0
  /\ eng.pc \in Visited => eng.pid # 0
  /\ eng.pc \in Chosen => Callee \notin eng.due \cup eng.rows
  /\ test.pc # "idle" => test.pid # 0
  /\ batch.inner # 0 => batch.inner = Callee /\ batch.row \in CallerRows
  /\ batch.row # 0 => batch.token <= gen[batch.u]
  /\ batch.asked => batch.row # 0 /\ Current \in KillRows /\ batch.token < gen[batch.u]

\* Identifiers that are in use have been given out before, and a process is of one user.
PastPids ==
  /\ eng.pid <= pids /\ test.pid <= pids /\ batch.pid <= pids
  /\ \A p \in killed : p <= pids /\ p # 0
  /\ \A u \in Users : pid[u] <= pids
  /\ \A u, v \in Users : pid[u] = pid[v] /\ pid[u] # 0 => u = v
  /\ eng.pc \in Visited => \A v \in Users : pid[v] = eng.pid => v = eng.u

\* The same of the numbers of the trigger events.
PastSeqs ==
  /\ \A u \in Users : event[u].seq <= seqs
  /\ \A u \in Users, r \in Rows : state[u][r].consumed <= seqs

ActionInv == EnvTypes /\ WorkTypes /\ MemTypes /\ HistTypes /\ LockInv /\ PastPids /\ PastSeqs

-----------------------------------------------------------------------------
(* Auto-Actions: types *)

LEMMA Constants ==
  /\ NRows \in Nat /\ MaxPid \in Nat /\ MaxSeq \in Nat /\ Rows = 1 .. NRows /\ Users # {}
  /\ Callee \in Rows /\ Callee \notin CallerRows /\ Callee \notin EventRows
  /\ CallerRows \subseteq Rows /\ CallerRows \cap KillRows = {} /\ KillRows \subseteq Rows
  /\ EventRows \subseteq Rows /\ CountRows \cap OncePerPid = {}
  /\ Cooldown \in [Rows -> Nat] /\ TestRows \in Seq(Rows) /\ EditedRows \subseteq Rows
BY RowsAssumption DEF Rows

LEMMA InitialRecords == AtTop \in Engines /\ (eng \in Engines => NextUser \in Engines) /\ NoBatch \in Batches /\ Idle \in [pc : {"idle", "lock", "batch"}, u : Users, pid : 0 .. MaxPid] /\ Blank \in Remembered
<1>1. (CHOOSE u \in Users : TRUE) \in Users
  BY Constants
<1>2. AtTop \in Engines
  BY <1>1, Constants DEF AtTop, Engines, ActionPlaces
<1>3. NoBatch \in Batches
  BY <1>1, Constants DEF NoBatch, Batches
<1>4. ASSUME eng \in Engines
      PROVE  NextUser \in Engines
  <2>1. PICK t \in Engines, e \in Engines : t = AtTop /\ e = eng
    BY <1>2, <1>4
  <2> QED
    BY <2>1 DEF NextUser, Engines, ActionPlaces
<1> QED
  BY <1>1, <1>2, <1>3, <1>4, Constants DEF Idle, Blank, Remembered, NoSetting

\* The engine has left the user.
LEMMA NextUserFacts ==
  ASSUME WorkTypes
  PROVE  /\ AtTop.pc = "top" /\ AtTop.pid = 0
         /\ NextUser \in Engines /\ NextUser.pc = "users" /\ NextUser.pid = 0
         /\ [NextUser EXCEPT !.todo = {}] \in Engines
         /\ [NextUser EXCEPT !.todo = {}].pc = "users" /\ [NextUser EXCEPT !.todo = {}].pid = 0
<1>1. NextUser \in Engines
  BY InitialRecords DEF WorkTypes
<1>2. AtTop.pc = "top" /\ AtTop.pid = 0 /\ NextUser.pc = "users" /\ NextUser.pid = 0
  BY DEF NextUser, AtTop
<1>3. PICK e \in Engines : e = NextUser
  BY <1>1
<1>4. [e EXCEPT !.todo = {}] \in Engines
  BY DEF Engines
<1>5. [e EXCEPT !.todo = {}].pc = e.pc /\ [e EXCEPT !.todo = {}].pid = e.pid
  BY DEF Engines
<1> QED
  BY <1>1, <1>2, <1>3, <1>4, <1>5

LEMMA UsedType ==
  ASSUME NEW s \in Remembered, NEW r \in Rows, NEW p \in 0 .. MaxPid
  PROVE  /\ Used(s, r, p) \in Remembered
         /\ Used(s, r, p).consumed = s.consumed /\ Used(s, r, p).setting = s.setting
         /\ Used(s, r, p).done = (s.done \/ r \in CountRows)
         /\ Used(s, r, p).donePid = IF r \in OncePerPid THEN p ELSE s.donePid
<1>1. Cooldown[r] \in Nat
  BY Constants
<1> QED
  BY <1>1 DEF Used, Remembered

\* What a visit makes of the memory of a row.
LEMMA ConsideredType ==
  ASSUME EnvTypes, WorkTypes, MemTypes, NEW u \in Users, NEW p \in 0 .. MaxPid, NEW rules \in SUBSET Rows, NEW r \in Rows
  PROVE  /\ Latest(u, p, r) \in {0, event[u].seq} /\ Latest(u, p, r) \in 0 .. MaxSeq
         /\ Considered(u, p, rules, r) \in Remembered
         /\ Evaluated(u, p, rules)[r] \in Remembered
<1>1. event[u].seq \in 0 .. MaxSeq
  BY DEF MemTypes, Events
<1>2. Latest(u, p, r) \in {0, event[u].seq} /\ Latest(u, p, r) \in 0 .. MaxSeq
  BY <1>1, Constants DEF Latest
<1>3. state[u][r] \in Remembered
  BY DEF MemTypes
<1>4. Pruned(u, p, rules, r) \in Remembered
  <2>1. PICK s \in Remembered : s = state[u][r]
    BY <1>3
  <2>2. PICK d \in 0 .. MaxPid : d = IF s.donePid = p THEN p ELSE 0
    BY Constants
  <2>3. Pruned(u, p, rules, r) = IF r \notin rules THEN Blank ELSE [s EXCEPT !.donePid = d]
    BY <2>1, <2>2 DEF Pruned
  <2> QED
    BY <2>3, InitialRecords DEF Remembered
<1>5. CycleSetting(r) \in 0 .. NoSetting
  <2>1. eng.edits[r] \in Nat
    BY DEF WorkTypes, Engines
  <2> QED
    BY <2>1 DEF CycleSetting, NoSetting
<1>6. ASSUME NEW s \in Remembered
      PROVE  Refreshed(u, p, r, s) \in Remembered
  <2>1. s.consumed \in 0 .. MaxSeq /\ seqs \in 0 .. MaxSeq
    BY DEF Remembered, MemTypes
  <2>2. PICK c \in 0 .. MaxSeq : c = IF r \notin EventRows THEN 0
                      ELSE IF Latest(u, p, r) # 0 THEN s.consumed
                      ELSE IF s.consumed > seqs THEN s.consumed ELSE seqs
    BY <2>1, Constants
  <2>3. Refreshed(u, p, r, s) = IF s.setting = CycleSetting(r) THEN s
                                ELSE [Blank EXCEPT !.setting = CycleSetting(r), !.consumed = c]
    BY <2>2, Zenon DEF Refreshed
  <2> QED
    BY <2>3, <1>5, InitialRecords DEF Remembered
<1>7. Considered(u, p, rules, r) \in Remembered
  BY <1>4, <1>6 DEF Considered
<1>8. Evaluated(u, p, rules)[r] \in Remembered
  <2>1. PICK s \in Remembered : s = Considered(u, p, rules, r)
    BY <1>7
  <2>2. Evaluated(u, p, rules)[r] =
          IF r \in EventRows /\ IsDue(u, p, rules, r) THEN [s EXCEPT !.consumed = Latest(u, p, r)] ELSE s
    BY <2>1 DEF Evaluated
  <2> QED
    BY <2>2, <1>2 DEF Remembered
<1> QED
  BY <1>2, <1>7, <1>8

\* The next row whose gate is read.
LEMMA FirstRow ==
  ASSUME NEW rows \in SUBSET Rows, rows # {}
  PROVE  LET r == CHOOSE x \in rows : \A y \in rows : x <= y
         IN  r \in rows /\ r \in Rows
<1> DEFINE Least(x) == \A y \in rows : x <= y
<1>1. rows \subseteq Nat
  BY Constants
<1>2. IsFiniteSet(rows) /\ Cardinality(rows) \in Nat \ {0}
  BY RankFacts, FS_EmptySet
<1>3. PICK x \in rows : Rank(rows, x) = 1
  BY <1>2, RankFacts
<1>4. Least(x)
  <2> SUFFICES ASSUME NEW y \in rows, ~(x <= y) PROVE FALSE
    OBVIOUS
  <2>1. y < x
    BY <1>1
  <2>2. Rank(rows, y) < 1 /\ Rank(rows, y) \in 1 .. Cardinality(rows)
    BY <1>3, <2>1, RankFacts
  <2> QED
    BY <1>2, <2>2
<1> QED
  BY <1>3, <1>4, Constants

LEMMA GatedType ==
  ASSUME EnvTypes, MemTypes, NEW u \in Users, NEW p \in 0 .. MaxPid
  PROVE  Gated(u, p) \in [pid : 0 .. MaxPid, t : Nat] /\ Unset \in [pid : 0 .. MaxPid, t : Nat]
BY Constants DEF Gated, Unset, MemTypes

\* The marks of a batch are rows.
LEMMA MarkedByType ==
  ASSUME HistTypes, NEW u \in Users, NEW p, NEW rows \in SUBSET Rows
  PROVE  MarkedBy(u, p, rows) \in SUBSET Rows
BY DEF MarkedBy, HistTypes

\* The end of a row: what it does to the batch, the memory and the marks.
LEMMA RowReturnsTypes ==
  ASSUME EnvTypes, WorkTypes, MemTypes, HistTypes, NEW g, RowReturns(g), batch.row # 0
  PROVE  /\ batch' \in Batches
         /\ state' \in [Users -> [Rows -> Remembered]]
         /\ marked' \in [Users -> SUBSET Rows]
<1>0. batch.row \in Rows /\ (batch.inner # 0 => batch.inner \in Rows) /\ batch.u \in Users /\ batch.pid \in 0 .. MaxPid
  BY Constants DEF WorkTypes, Batches
<1>1. batch' \in Batches
  <2>0. batch.rest \in Seq(Rows) /\ <<>> \in Seq(Rows)
    BY DEF WorkTypes, Batches
  <2>1. PICK rest \in Seq(Rows) : rest = IF g # batch.token THEN <<>> ELSE batch.rest
    BY <2>0, Zenon
  <2>2. PICK used \in SUBSET Rows : used = batch.used \cup {batch.row}
    BY <1>0 DEF WorkTypes, Batches
  <2>3. batch' = [batch EXCEPT !.row = 0, !.inner = 0, !.asked = FALSE, !.used = used, !.rest = rest]
    BY <2>1, <2>2 DEF RowReturns
  <2>4. 0 \in 0 .. NRows
    BY Constants
  <2>5. PICK b \in Batches : b = batch
    BY DEF WorkTypes
  <2>6. [b EXCEPT !.row = 0, !.inner = 0, !.asked = FALSE] \in Batches
    BY <2>4 DEF Batches
  <2>7. PICK c \in Batches : c = [b EXCEPT !.row = 0, !.inner = 0, !.asked = FALSE]
    BY <2>6
  <2>8. [c EXCEPT !.used = used, !.rest = rest] \in Batches
    BY DEF Batches
  <2>9. [c EXCEPT !.used = used, !.rest = rest]
          = [batch EXCEPT !.row = 0, !.inner = 0, !.asked = FALSE, !.used = used, !.rest = rest]
    BY <2>5, <2>7 DEF Batches
  <2> QED
    BY <2>3, <2>8, <2>9
<1>2. state' \in [Users -> [Rows -> Remembered]]
  <2>1. CASE batch.inner = 0
    BY <2>1 DEF RowReturns, MemTypes
  <2>2. CASE batch.inner # 0
    <3>1. PICK u \in Users, r \in Rows : u = batch.u /\ r = batch.inner
      BY <1>0, <2>2
    <3>2. state[u][r] \in Remembered
      BY DEF MemTypes
    <3>3. PICK s \in Remembered : s = Used(state[u][r], r, batch.pid)
      BY <3>2, <1>0, UsedType
    <3>4. state' = [state EXCEPT ![u][r] = s]
      BY <2>2, <3>1, <3>3 DEF RowReturns
    <3> QED
      BY <3>4 DEF MemTypes
  <2> QED
    BY <2>1, <2>2
<1>3. marked' \in [Users -> SUBSET Rows]
  <2>1. CASE batch.inner = 0
    BY <2>1 DEF RowReturns, HistTypes
  <2>2. CASE batch.inner # 0
    <3>1. PICK m \in SUBSET Rows : m = MarkedBy(batch.u, batch.pid, {batch.inner})
      BY <1>0, <2>2, MarkedByType
    <3>2. marked' = [marked EXCEPT ![batch.u] = m]
      BY <2>2, <3>1 DEF RowReturns
    <3> QED
      BY <3>2, <1>0 DEF HistTypes
  <2> QED
    BY <2>1, <2>2
<1> QED
  BY <1>1, <1>2, <1>3

\* The lock is given back: the types.
LEMMA UnlockTypes ==
  ASSUME WorkTypes, NEW e \in Engines, UnlockActions(e)
  PROVE  WorkTypes'
<1>1. CASE batch.by = "engine"
  BY <1>1, InitialRecords DEF UnlockActions, WorkTypes
<1>2. CASE batch.by # "engine"
  <2>1. batch' = NoBatch /\ test' = Idle /\ eng' = eng
    BY <1>2 DEF UnlockActions
  <2> QED
    BY <2>1, InitialRecords DEF WorkTypes
<1> QED
  BY <1>1, <1>2

LEMMA SurroundingsTypes ==
  ASSUME ActionInv, Surroundings
  PROVE  EnvTypes' /\ WorkTypes' /\ MemTypes' /\ HistTypes'
<1> USE DEF ActionInv
<1>1. ASSUME NEW u \in Users, OpenWindow(u)
      PROVE  EnvTypes' /\ WorkTypes' /\ MemTypes' /\ HistTypes'
  <2>1. UNCHANGED <<work, mem>>
    BY <1>1 DEF OpenWindow
  <2>2. EnvTypes'
    BY <1>1, Constants DEF OpenWindow, EnvTypes
  <2>3. HistTypes'
    BY <1>1 DEF OpenWindow, HistTypes
  <2> QED
    BY <2>1, <2>2, <2>3 DEF WorkTypes, MemTypes, work, mem
<1>2. ASSUME NEW u \in Users, CloseWindow(u) \/ LeaveMenu(u) \/ EnterMenu(u)
      PROVE  EnvTypes' /\ WorkTypes' /\ MemTypes' /\ HistTypes'
  <2>1. UNCHANGED <<work, mem, hist>>
    BY <1>2 DEF CloseWindow, LeaveMenu, EnterMenu
  <2>2. EnvTypes'
    <3>1. CASE CloseWindow(u)
      BY <3>1, Constants DEF CloseWindow, EnvTypes
    <3>2. CASE LeaveMenu(u)
      BY <3>2 DEF LeaveMenu, EnvTypes
    <3>3. CASE EnterMenu(u)
      BY <3>3 DEF EnterMenu, EnvTypes
    <3> QED
      BY <1>2, <3>1, <3>2, <3>3
  <2> QED
    BY <2>1, <2>2 DEF WorkTypes, MemTypes, HistTypes, work, mem, hist
<1>3. ASSUME NEW u \in Users, RecordTrigger(u)
      PROVE  EnvTypes' /\ WorkTypes' /\ MemTypes' /\ HistTypes'
  <2>1. UNCHANGED <<env, work, hist, out, state, gen, blocked>>
    BY <1>3 DEF RecordTrigger
  <2>2. seqs + 1 \in 0 .. MaxSeq /\ seqs' = seqs + 1
    BY <1>3, Constants DEF RecordTrigger, MemTypes
  <2>3. {<<r, Setting(r)>> : r \in EventRows} \in SUBSET (Rows \X (0 .. 1))
    <3>1. \A r \in EventRows : r \in Rows /\ Setting(r) \in 0 .. 1
      <4> TAKE r \in EventRows
      <4>1. r \in Rows
        BY Constants
      <4>2. edits[r] \in Nat
        BY <4>1 DEF EnvTypes
      <4> QED
        BY <4>1, <4>2 DEF Setting
    <3> QED
      BY <3>1
  <2>4. PICK e \in Events : e = [seq |-> seqs + 1, pid |-> pid[u], for |-> {<<r, Setting(r)>> : r \in EventRows}]
    BY <2>2, <2>3 DEF Events, EnvTypes
  <2>5. event' = [event EXCEPT ![u] = e]
    BY <1>3, <2>4 DEF RecordTrigger
  <2>6. MemTypes'
    BY <2>1, <2>2, <2>5 DEF MemTypes
  <2> QED
    BY <2>1, <2>6 DEF EnvTypes, WorkTypes, HistTypes, env, work, hist
<1>4. ASSUME NEW r \in EditedRows, EditRow(r)
      PROVE  EnvTypes' /\ WorkTypes' /\ MemTypes' /\ HistTypes'
  <2>1. r \in Rows /\ UNCHANGED <<pid, menu, enabled, pids, work, mem, hist>>
    BY <1>4, Constants DEF EditRow
  <2>2. edits' \in [Rows -> Nat]
    BY <1>4, <2>1 DEF EditRow, EnvTypes
  <2> QED
    BY <2>1, <2>2 DEF EnvTypes, WorkTypes, MemTypes, HistTypes, work, mem, hist
<1>5. CASE SwitchOff \/ SwitchOn
  BY <1>5 DEF SwitchOff, SwitchOn, EnvTypes, WorkTypes, MemTypes, HistTypes, work, mem, hist
<1>6. CASE ResetStartupCounts
  <2>1. UNCHANGED <<env, work, out, event, gen, blocked, seqs, fired, killed>>
    BY <1>6 DEF ResetStartupCounts
  <2>2. state' \in [Users -> [Rows -> Remembered]]
    <3>1. \A u \in Users, r \in Rows : [state[u][r] EXCEPT !.done = FALSE] \in Remembered
      <4> TAKE u \in Users, r \in Rows
      <4>1. PICK s \in Remembered : s = state[u][r]
        BY DEF MemTypes
      <4>2. [s EXCEPT !.done = FALSE] \in Remembered
        BY DEF Remembered
      <4> QED
        BY <4>1, <4>2
    <3> QED
      BY <1>6, <3>1 DEF ResetStartupCounts
  <2>3. marked' \in [Users -> SUBSET Rows]
    BY <1>6 DEF ResetStartupCounts, HistTypes
  <2> QED
    BY <2>1, <2>2, <2>3 DEF EnvTypes, WorkTypes, MemTypes, HistTypes, env, work
<1>7. CASE Tick
  <2>1. UNCHANGED <<env, work, event, gen, blocked, seqs, hist>>
    BY <1>7 DEF Tick
  <2>2. state' \in [Users -> [Rows -> Remembered]]
    <3>1. \A u \in Users, r \in Rows :
            [state[u][r] EXCEPT !.ready = IF @ = 0 THEN 0 ELSE @ - 1] \in Remembered
      <4> TAKE u \in Users, r \in Rows
      <4>1. PICK s \in Remembered : s = state[u][r]
        BY DEF MemTypes
      <4>2. PICK n \in Nat : n = IF s.ready = 0 THEN 0 ELSE s.ready - 1
        BY DEF Remembered
      <4>3. [s EXCEPT !.ready = n] \in Remembered
        BY DEF Remembered
      <4> QED
        BY <4>1, <4>2, <4>3
    <3> QED
      BY <1>7, <3>1 DEF Tick
  <2>3. out' \in [Users -> [pid : 0 .. MaxPid, t : Nat]]
    <3>1. \A u \in Users : (IF out[u].pid # 0 /\ out[u].t < LongestStartup
             THEN [out[u] EXCEPT !.t = @ + 1] ELSE out[u]) \in [pid : 0 .. MaxPid, t : Nat]
      <4> TAKE u \in Users
      <4>1. PICK o \in [pid : 0 .. MaxPid, t : Nat] : o = out[u]
        BY DEF MemTypes
      <4>2. [o EXCEPT !.t = @ + 1] \in [pid : 0 .. MaxPid, t : Nat]
        OBVIOUS
      <4> QED
        BY <4>1, <4>2, Zenon
    <3> QED
      BY <1>7, <3>1 DEF Tick
  <2> QED
    BY <2>1, <2>2, <2>3 DEF EnvTypes, WorkTypes, MemTypes, HistTypes, env, work, hist
<1> QED
  BY <1>1, <1>2, <1>3, <1>4, <1>5, <1>6, <1>7, Zenon DEF Surroundings

\* The steps after which the engine is with no user.
LEMMA EngineLeaves ==
  ASSUME WorkTypes, EndCycle \/ NoRules \/ RefusePause \/ Mark
  PROVE  eng'.pid = 0 /\ eng'.pc \in {"top", "users"}
<1>1. Mark => eng' = NextUser
  BY Zenon DEF Mark
<1>2. EndCycle \/ NoRules \/ RefusePause => eng' \in {AtTop, NextUser, [NextUser EXCEPT !.todo = {}]}
  BY DEF EndCycle, NoRules, RefusePause
<1> QED
  BY <1>1, <1>2, NextUserFacts

\* A reading of the gate: the types, and the memory of the clock.
LEMMA GateTypes ==
  ASSUME ActionInv, ReadMenu \/ ReadGate
  PROVE  EnvTypes' /\ WorkTypes' /\ MemTypes' /\ HistTypes'
<1> USE DEF ActionInv
<1>1. UNCHANGED <<env, test, batch, state, event, gen, blocked, seqs, hist>>
  BY DEF ReadMenu, ReadGate
<1>2. eng.u \in Users /\ eng.pid \in 0 .. MaxPid
  BY DEF WorkTypes, Engines
<1>3. PICK o \in [pid : 0 .. MaxPid, t : Nat] : o = Gated(eng.u, eng.pid)
  BY <1>2, GatedType
<1>4. out' = [out EXCEPT ![eng.u] = o]
  BY <1>3 DEF ReadMenu, ReadGate
<1>0. PICK e \in Engines : e = eng
  BY DEF WorkTypes
<1>5. CASE ReadMenu
  <2>1. eng' = IF menu[eng.u] THEN NextUser ELSE [e EXCEPT !.pc = "gates", !.rows = Rows]
    BY <1>0, <1>5 DEF ReadMenu
  <2>2. [e EXCEPT !.pc = "gates", !.rows = Rows] \in Engines
    BY DEF Engines, ActionPlaces, Visited
  <2>3. eng' \in Engines
    BY <2>1, <2>2, NextUserFacts
  <2> QED
    BY <1>1, <1>4, <2>3 DEF EnvTypes, WorkTypes, MemTypes, HistTypes, env, hist
<1>6. CASE ReadGate
  <2>1. PICK r \in Rows : r = CHOOSE x \in eng.rows : \A y \in eng.rows : x <= y
    BY <1>6, FirstRow DEF ReadGate, WorkTypes, Engines
  <2>2. PICK rows \in SUBSET Rows, due \in SUBSET Rows :
          /\ rows = eng.rows \ {r}
          /\ due = IF Allows(eng.u, eng.pid, r) THEN eng.due \cup {r} ELSE eng.due
    BY DEF WorkTypes, Engines
  <2>3. eng' = [e EXCEPT !.rows = rows, !.due = due]
    BY <1>0, <1>6, <2>1, <2>2 DEF ReadGate
  <2>4. eng' \in Engines
    BY <2>3 DEF Engines
  <2> QED
    BY <1>1, <1>4, <2>4 DEF EnvTypes, WorkTypes, MemTypes, HistTypes, env, hist
<1> QED
  BY <1>5, <1>6

\* An evaluation: the types.
LEMMA EvaluateTypes ==
  ASSUME ActionInv, EvaluateRules
  PROVE  EnvTypes' /\ WorkTypes' /\ MemTypes' /\ HistTypes'
<1> USE DEF ActionInv
<1>0. PICK e \in Engines : e = eng
  BY DEF WorkTypes
<1> DEFINE u == eng.u
           p == eng.pid
           rules == eng.due
<1>1. u \in Users /\ p \in 0 .. MaxPid /\ rules \in SUBSET Rows
  BY <1>0 DEF Engines
<1>2. UNCHANGED <<env, test, batch, out, event, gen, blocked, seqs, killed>>
  BY DEF EvaluateRules
<1>3. EnvTypes'
  BY <1>2 DEF EnvTypes, env
<1>4. WorkTypes'
  <2>1. PICK due \in SUBSET Rows : due = Due(u, p, rules)
    BY <1>1 DEF Due
  <2>2. eng' = IF due = {} THEN NextUser ELSE [e EXCEPT !.pc = "pause", !.due = due]
    BY <1>0, <2>1 DEF EvaluateRules
  <2>3. [e EXCEPT !.pc = "pause", !.due = due] \in Engines
    BY DEF Engines, ActionPlaces, Visited, Chosen
  <2> QED
    BY <1>2, <2>2, <2>3, NextUserFacts DEF WorkTypes
<1>5. MemTypes'
  <2>1. state' \in [Users -> [Rows -> Remembered]]
    <3>1. Evaluated(u, p, rules) \in [Rows -> Remembered]
      <4>1. \A r \in Rows : Evaluated(u, p, rules)[r] \in Remembered
        BY <1>1, ConsideredType
      <4>2. \E f : Evaluated(u, p, rules) = [r \in Rows |-> f[r]]
        <5>1. Evaluated(u, p, rules) = [r \in Rows |-> Evaluated(u, p, rules)[r]]
          BY DEF Evaluated
        <5> QED
          BY <5>1
      <4> QED
        BY <4>1, <4>2
    <3>2. PICK m \in [Rows -> Remembered] : m = Evaluated(u, p, rules)
      BY <3>1
    <3>3. state' = [state EXCEPT ![u] = m]
      BY <3>2 DEF EvaluateRules
    <3> QED
      BY <1>1, <3>3 DEF MemTypes
  <2> QED
    BY <1>2, <2>1 DEF MemTypes
<1>6. HistTypes'
  <2>1. marked' \in [Users -> SUBSET Rows]
    <3>1. PICK m \in SUBSET Rows : m = StillMarked(u, p, rules)
      BY <1>1 DEF StillMarked
    <3>2. marked' = [marked EXCEPT ![u] = m]
      BY <3>1 DEF EvaluateRules
    <3> QED
      BY <3>2 DEF HistTypes
  <2>2. fired' \in [Users -> [Rows -> 0 .. MaxSeq]]
    <3>1. event[u].seq \in 0 .. MaxSeq
      BY <1>1 DEF MemTypes, Events
    <3>2. fired' = [fired EXCEPT ![u] = [r \in Rows |->
             IF r \notin rules THEN 0
             ELSE IF r \in EventRows /\ IsDue(u, p, rules, r) THEN event[u].seq ELSE @[r]]]
      BY DEF EvaluateRules
    <3>3. fired[u] \in [Rows -> 0 .. MaxSeq]
      BY <1>1 DEF HistTypes
    <3> DEFINE F == [r \in Rows |->
                 IF r \notin rules THEN 0
                 ELSE IF r \in EventRows /\ IsDue(u, p, rules, r) THEN event[u].seq ELSE fired[u][r]]
    <3>a. ASSUME NEW r \in Rows, NEW due
          PROVE  (IF r \notin rules THEN 0 ELSE IF due THEN event[u].seq ELSE fired[u][r]) \in 0 .. MaxSeq
      BY <3>1, <3>3, Constants
    <3>b. F \in [Rows -> 0 .. MaxSeq]
      BY <3>a, Zenon
    <3>4. PICK f \in [Rows -> 0 .. MaxSeq] : f = F
      BY <3>b
    <3>5. fired' = [fired EXCEPT ![u] = f]
      BY <3>2, <3>4
    <3> QED
      BY <3>5 DEF HistTypes
  <2> QED
    BY <1>2, <2>1, <2>2 DEF HistTypes
<1> QED
  BY <1>3, <1>4, <1>5, <1>6

LEMMA CycleTypes ==
  ASSUME ActionInv, Engine
  PROVE  EnvTypes' /\ WorkTypes' /\ MemTypes' /\ HistTypes'
<1> USE DEF ActionInv
<1>0. PICK e \in Engines : e = eng
  BY DEF WorkTypes
<1>1. CASE Top
  <2>1. UNCHANGED <<env, test, batch, mem, hist>>
    BY <1>1 DEF Top
  <2>2. eng' = [e EXCEPT !.pc = "users", !.todo = Users, !.edits = edits]
    BY <1>0, <1>1 DEF Top
  <2>3. eng' \in Engines
    BY <2>2 DEF Engines, ActionPlaces, EnvTypes
  <2> QED
    BY <2>1, <2>3 DEF EnvTypes, WorkTypes, MemTypes, HistTypes, env, mem, hist
<1>2. CASE EndCycle
  BY <1>2, InitialRecords DEF EndCycle, EnvTypes, WorkTypes, MemTypes, HistTypes, env, mem, hist
<1>3. CASE PauseAntiAfk
  <2>1. UNCHANGED <<env, test, batch, mem, hist>>
    BY <1>3 DEF PauseAntiAfk
  <2>2. PICK due \in SUBSET Rows : due = eng.due
    BY DEF WorkTypes, Engines
  <2>3. eng' = [e EXCEPT !.pc = "hook", !.rows = due, !.due = {}]
    BY <1>0, <1>3, <2>2 DEF PauseAntiAfk
  <2>4. eng' \in Engines
    BY <2>3 DEF Engines, ActionPlaces, Visited, Chosen
  <2> QED
    BY <2>1, <2>4 DEF EnvTypes, WorkTypes, MemTypes, HistTypes, env, mem, hist
<1>4. CASE RefusePause \/ NoRules \/ Regate
  <2>1. UNCHANGED <<env, test, batch, mem, hist>>
    BY <1>4 DEF RefusePause, NoRules, Regate
  <2>2. eng' \in {NextUser, [NextUser EXCEPT !.todo = {}], [e EXCEPT !.pc = "lock"]}
    BY <1>0, <1>4 DEF RefusePause, NoRules, Regate
  <2>3. [e EXCEPT !.pc = "lock"] \in Engines
    BY DEF Engines, ActionPlaces, Visited, Chosen
  <2>4. eng' \in Engines
    BY <2>2, <2>3, NextUserFacts
  <2> QED
    BY <2>1, <2>4 DEF EnvTypes, WorkTypes, MemTypes, HistTypes, env, mem, hist
<1>5. CASE EngineLocks
  <2>1. UNCHANGED <<env, test, mem, hist>>
    BY <1>5 DEF EngineLocks
  <2>2. eng' = [e EXCEPT !.pc = "batch"]
    BY <1>0, <1>5 DEF EngineLocks
  <2>3. eng' \in Engines
    BY <2>2 DEF Engines, ActionPlaces, Visited, Chosen
  <2>4. InOrder(e.due) \in Seq(Rows)
    <3>1. e.due \in SUBSET Rows
      BY DEF Engines
    <3>2. InOrder(e.due) \in Seq(e.due)
      BY <3>1, InOrderFacts
    <3> QED
      BY <3>1, <3>2
  <2>5. PICK b \in Batches : b = NoBatch
    BY InitialRecords
  <2>6. PICK s \in Seq(Rows) : s = InOrder(e.due)
    BY <2>4
  <2>7. batch' = [b EXCEPT !.by = "engine", !.u = e.u, !.pid = e.pid, !.rest = s]
    BY <1>0, <1>5, <2>5, <2>6 DEF EngineLocks
  <2>8. e.u \in Users /\ e.pid \in 0 .. MaxPid
    BY DEF Engines
  <2>9. batch' \in Batches
    BY <2>7, <2>8 DEF Batches
  <2> QED
    BY <2>1, <2>3, <2>9 DEF EnvTypes, WorkTypes, MemTypes, HistTypes, env, mem, hist
<1>6. CASE Mark
  <2>1. UNCHANGED <<env, test, batch, out, event, gen, blocked, seqs, fired, killed>>
    BY <1>6 DEF Mark
  <2>3. eng' \in Engines
    BY <1>6, NextUserFacts DEF Mark
  <2>4. eng.u \in Users /\ eng.pid \in 0 .. MaxPid /\ eng.due \in SUBSET Rows
    BY DEF WorkTypes, Engines
  <2>5. state' \in [Users -> [Rows -> Remembered]]
    <3>1. \A r \in Rows : state[eng.u][r] \in Remembered
      BY <2>4 DEF MemTypes
    <3>2. \A r \in Rows : Used(state[eng.u][r], r, eng.pid) \in Remembered
      BY <2>4, <3>1, UsedType
    <3>3. PICK m \in [Rows -> Remembered] :
            m = [r \in Rows |-> IF r \in eng.due THEN Used(state[eng.u][r], r, eng.pid) ELSE state[eng.u][r]]
      BY <3>1, <3>2
    <3>4. state' = [state EXCEPT ![eng.u] = m]
      BY <1>6, <3>3 DEF Mark
    <3> QED
      BY <3>4 DEF MemTypes
  <2>6. marked' \in [Users -> SUBSET Rows]
    <3>1. PICK m \in SUBSET Rows : m = MarkedBy(eng.u, eng.pid, eng.due)
      BY <2>4, MarkedByType
    <3>2. marked' = [marked EXCEPT ![eng.u] = m]
      BY <1>6, <3>1 DEF Mark
    <3> QED
      BY <3>2 DEF HistTypes
  <2> QED
    BY <2>1, <2>3, <2>5, <2>6 DEF EnvTypes, WorkTypes, MemTypes, HistTypes, env
<1>7. ASSUME NEW u \in Users, PassUser(u)
      PROVE  EnvTypes' /\ WorkTypes' /\ MemTypes' /\ HistTypes'
  <2>1. UNCHANGED <<env, test, batch, out, state, event, gen, seqs, hist>>
    BY <1>7 DEF PassUser
  <2>2. eng' = [e EXCEPT !.todo = @ \ {u}]
    BY <1>0, <1>7 DEF PassUser
  <2>3. eng' \in Engines
    BY <2>2 DEF Engines
  <2>4. blocked' = [blocked EXCEPT ![u] = IF @ = pid[u] THEN @ ELSE 0]
    BY <1>7 DEF PassUser
  <2>5. blocked' \in [Users -> 0 .. MaxPid]
    BY <2>4, Constants DEF MemTypes
  <2> QED
    BY <2>1, <2>3, <2>5 DEF EnvTypes, WorkTypes, MemTypes, HistTypes, env, hist
<1>8. ASSUME NEW u \in Users, VisitUser(u)
      PROVE  EnvTypes' /\ WorkTypes' /\ MemTypes' /\ HistTypes'
  <2>1. UNCHANGED <<env, test, batch, out, state, event, gen, seqs, hist>>
    BY <1>8 DEF VisitUser
  <2>2. PICK p \in 0 .. MaxPid : p = pid[u]
    BY DEF EnvTypes
  <2>3. eng' = [e EXCEPT !.pc = "menu", !.todo = @ \ {u}, !.u = u, !.pid = p]
    BY <1>0, <1>8, <2>2 DEF VisitUser
  <2>4. eng' \in Engines
    BY <2>3 DEF Engines, ActionPlaces, Visited
  <2>5. blocked' = [blocked EXCEPT ![u] = 0]
    BY <1>8 DEF VisitUser
  <2>6. blocked' \in [Users -> 0 .. MaxPid]
    BY <2>5, Constants DEF MemTypes
  <2> QED
    BY <2>1, <2>4, <2>6 DEF EnvTypes, WorkTypes, MemTypes, HistTypes, env, hist
<1> QED
  BY <1>1, <1>2, <1>3, <1>4, <1>5, <1>6, <1>7, <1>8, GateTypes, EvaluateTypes DEF Engine

LEMMA BatchTypes ==
  ASSUME ActionInv, Batch
  PROVE  EnvTypes' /\ WorkTypes' /\ MemTypes' /\ HistTypes'
<1> USE DEF ActionInv
<1>0. PICK b \in Batches : b = batch
  BY DEF WorkTypes
<1>1. CASE Abort
  <2>1. UNCHANGED <<env, state, event, gen, blocked, seqs, hist>> /\ UnlockActions(NextUser)
    BY <1>1 DEF Abort
  <2>2. WorkTypes'
    BY <2>1, UnlockTypes, NextUserFacts
  <2>3. out' = [out EXCEPT ![batch.u] = Unset]
    BY <1>1 DEF Abort
  <2>4. out' \in [Users -> [pid : 0 .. MaxPid, t : Nat]]
    <3>1. PICK o \in [pid : 0 .. MaxPid, t : Nat] : o = Unset
      <4>1. Unset \in [pid : 0 .. MaxPid, t : Nat]
        BY Constants DEF Unset
      <4> QED
        BY <4>1
    <3>2. out' = [out EXCEPT ![batch.u] = o]
      BY <2>3, <3>1
    <3> QED
      BY <3>2 DEF MemTypes
  <2> QED
    BY <2>1, <2>2, <2>4 DEF EnvTypes, MemTypes, HistTypes, env, hist
<1>2. CASE StartRow
  <2>1. UNCHANGED <<env, eng, test, mem, hist>>
    BY <1>2 DEF StartRow
  <2>2. Head(b.rest) \in Rows /\ Tail(b.rest) \in Seq(Rows)
    BY <1>0, <1>2 DEF StartRow, Batches
  <2>3. PICK row \in 0 .. NRows, rest \in Seq(Rows), token \in Nat :
          row = Head(b.rest) /\ rest = Tail(b.rest) /\ token = gen[b.u]
    <3>1. b.u \in Users /\ 0 .. NRows = {0} \cup Rows
      BY Constants DEF Batches
    <3>2. gen[b.u] \in Nat
      BY <3>1 DEF MemTypes
    <3> QED
      BY <2>2, <3>1, <3>2
  <2>4. batch' = [b EXCEPT !.row = row, !.rest = rest, !.token = token]
    BY <1>0, <1>2, <2>3 DEF StartRow
  <2>5. batch' \in Batches
    BY <2>4 DEF Batches
  <2> QED
    BY <2>1, <2>5 DEF EnvTypes, WorkTypes, MemTypes, HistTypes, env, mem, hist
<1>3. CASE PlayInput
  <2>1. UNCHANGED <<env, eng, test, out, event, gen, blocked, seqs, fired, killed>>
    BY <1>3 DEF PlayInput
  <2>2. batch.row # 0 /\ RowReturns(gen[batch.u])
    BY <1>3 DEF PlayInput, Playing
  <2>3. batch' \in Batches /\ state' \in [Users -> [Rows -> Remembered]] /\ marked' \in [Users -> SUBSET Rows]
    BY <2>2, RowReturnsTypes
  <2> QED
    BY <2>1, <2>3 DEF EnvTypes, WorkTypes, MemTypes, HistTypes, env
<1>4. CASE KillStep
  <2>1. UNCHANGED <<env, eng, test, out, state, blocked, seqs, marked, fired>>
    BY <1>4 DEF KillStep
  <2>2. batch' = [b EXCEPT !.asked = TRUE]
    BY <1>0, <1>4 DEF KillStep
  <2>3. batch' \in Batches
    BY <2>2 DEF Batches
  <2>4. NoEvent \in Events
    BY Constants DEF NoEvent, Events, MemTypes
  <2>5. event' = [event EXCEPT ![b.u] = NoEvent] /\ gen' = [gen EXCEPT ![b.u] = @ + 1] /\ killed' = killed \cup {b.pid}
    BY <1>0, <1>4 DEF KillStep
  <2>6. b.u \in Users /\ b.pid \in 0 .. MaxPid
    BY DEF Batches
  <2>7. MemTypes'
    BY <2>1, <2>4, <2>5, <2>6 DEF MemTypes
  <2>8. HistTypes'
    BY <2>1, <2>5, <2>6 DEF HistTypes
  <2> QED
    BY <2>1, <2>3, <2>7, <2>8 DEF EnvTypes, WorkTypes, env
<1>5. CASE KillReturns
  <2>1. UNCHANGED <<env, eng, test, out, event, gen, seqs, fired, killed>>
    BY <1>5 DEF KillReturns
  <2>2. batch.row # 0 /\ RowReturns(gen[batch.u])
    BY <1>5 DEF KillReturns, LockInv
  <2>3. batch' \in Batches /\ state' \in [Users -> [Rows -> Remembered]] /\ marked' \in [Users -> SUBSET Rows]
    BY <2>2, RowReturnsTypes
  <2>4. blocked' = [blocked EXCEPT ![b.u] = b.pid] /\ b.u \in Users /\ b.pid \in 0 .. MaxPid
    BY <1>0, <1>5 DEF KillReturns, Batches
  <2>5. blocked' \in [Users -> 0 .. MaxPid]
    BY <2>4 DEF MemTypes
  <2> QED
    BY <2>1, <2>3, <2>5 DEF EnvTypes, WorkTypes, MemTypes, HistTypes, env
<1>6. CASE CallRow
  <2>1. UNCHANGED <<env, eng, test, event, gen, blocked, seqs, fired, killed>>
    BY <1>6 DEF CallRow
  <2>2. out' \in [Users -> [pid : 0 .. MaxPid, t : Nat]]
    <3>1. b.u \in Users /\ b.pid \in 0 .. MaxPid
      BY DEF Batches
    <3>2. PICK o \in [pid : 0 .. MaxPid, t : Nat] : o = Gated(b.u, b.pid)
      BY <3>1, GatedType
    <3>3. out' = out \/ out' = [out EXCEPT ![b.u] = o]
      BY <1>0, <1>6, <3>2 DEF CallRow
    <3> QED
      BY <3>3 DEF MemTypes
  <2>3. CASE batch' = [batch EXCEPT !.inner = Callee] /\ UNCHANGED <<state, marked>>
    <3>1. PICK c \in 0 .. NRows : c = Callee
      BY Constants
    <3>2. batch' = [b EXCEPT !.inner = c]
      BY <1>0, <2>3, <3>1
    <3>3. batch' \in Batches
      BY <3>2 DEF Batches
    <3> QED
      BY <2>1, <2>2, <2>3, <3>3 DEF EnvTypes, WorkTypes, MemTypes, HistTypes, env
  <2>4. CASE RowReturns(gen[batch.u])
    <3>1. batch.row # 0
      BY <1>6 DEF CallRow, Playing
    <3>2. batch' \in Batches /\ state' \in [Users -> [Rows -> Remembered]] /\ marked' \in [Users -> SUBSET Rows]
      BY <2>4, <3>1, RowReturnsTypes
    <3> QED
      BY <2>1, <2>2, <3>2 DEF EnvTypes, WorkTypes, MemTypes, HistTypes, env
  <2> QED
    BY <1>6, <2>3, <2>4 DEF CallRow
<1>7. CASE FinishBatch
  <2>1. UNCHANGED <<env, mem, hist>> /\ UnlockActions([eng EXCEPT !.pc = "mark", !.due = @ \cap batch.used])
    BY <1>7 DEF FinishBatch
  <2>2. [eng EXCEPT !.pc = "mark", !.due = @ \cap batch.used] \in Engines
    BY DEF WorkTypes, Engines, ActionPlaces, Visited, Chosen
  <2>3. WorkTypes'
    BY <2>1, <2>2, UnlockTypes
  <2> QED
    BY <2>1, <2>3 DEF EnvTypes, MemTypes, HistTypes, env, mem, hist
<1> QED
  BY <1>1, <1>2, <1>3, <1>4, <1>5, <1>6, <1>7 DEF Batch

LEMMA TesterTypes ==
  ASSUME ActionInv, Tester
  PROVE  EnvTypes' /\ WorkTypes' /\ MemTypes' /\ HistTypes'
<1> USE DEF ActionInv
<1>1. CASE TestLocks
  <2>1. UNCHANGED <<env, eng, mem, hist>>
    BY <1>1 DEF TestLocks
  <2>2. PICK b \in Batches : b = NoBatch
    BY InitialRecords
  <2>3. PICK u \in Users, p \in 0 .. MaxPid, s \in Seq(Rows) : u = test.u /\ p = test.pid /\ s = TestRows
    BY Constants DEF WorkTypes
  <2>4. batch' = [b EXCEPT !.by = "test", !.u = u, !.pid = p, !.rest = s]
    BY <1>1, <2>2, <2>3 DEF TestLocks
  <2>5. batch' \in Batches
    BY <2>4 DEF Batches
  <2>6. test' = [test EXCEPT !.pc = "batch"]
    BY <1>1 DEF TestLocks
  <2> QED
    BY <2>1, <2>5, <2>6 DEF EnvTypes, WorkTypes, MemTypes, HistTypes, env, mem, hist
<1>2. ASSUME NEW u \in Users, TestOnce(u)
      PROVE  EnvTypes' /\ WorkTypes' /\ MemTypes' /\ HistTypes'
  <2>1. UNCHANGED <<env, eng, batch, mem, hist>> /\ test' = [pc |-> "lock", u |-> u, pid |-> pid[u]]
    BY <1>2 DEF TestOnce
  <2> QED
    BY <2>1 DEF EnvTypes, WorkTypes, MemTypes, HistTypes, env, mem, hist
<1> QED
  BY <1>1, <1>2 DEF Tester

LEMMA ActionTypes ==
  ASSUME ActionInv, ActionsNext
  PROVE  EnvTypes' /\ WorkTypes' /\ MemTypes' /\ HistTypes'
BY SurroundingsTypes, CycleTypes, BatchTypes, TesterTypes, Zenon DEF ActionsNext

\* The engine goes on outside its batches.
LEMMA LockStays ==
  ASSUME LockInv, UNCHANGED <<batch, test, gen>>, eng.pc # "batch", eng'.pc # "batch",
         eng'.pc \in Visited => eng'.pid # 0,
         eng'.pc \in Chosen => Callee \notin eng'.due \cup eng'.rows
  PROVE  LockInv'
BY DEF LockInv, Current

\* The steps of the engine that leave the lock alone.
LEMMA EngineRows ==
  ASSUME ActionInv, Engine, ~EngineLocks
  PROVE  /\ UNCHANGED <<batch, test, gen>> /\ eng.pc # "batch" /\ eng'.pc # "batch"
         /\ eng'.pc \in Visited => eng'.pid # 0
         /\ eng'.pc \in Chosen => Callee \notin eng'.due \cup eng'.rows
<1> USE DEF ActionInv
<1>0. /\ NextUser.pc = "users" /\ [NextUser EXCEPT !.todo = {}].pc = "users"
      /\ "users" \notin Visited /\ "top" \notin Visited /\ Chosen \subseteq Visited
  BY NextUserFacts DEF Visited, Chosen
<1>1. CASE Top \/ EndCycle \/ NoRules \/ RefusePause \/ Mark \/ \E u \in Users : PassUser(u)
  <2>1. UNCHANGED <<batch, test, gen>> /\ eng.pc # "batch"
    BY <1>1 DEF Top, EndCycle, NoRules, RefusePause, Mark, PassUser, mem
  <2>2. eng'.pc \in {"top", "users"}
    <3>1. Top \/ (\E u \in Users : PassUser(u)) => eng'.pc = "users"
      BY DEF Top, PassUser, WorkTypes, Engines
    <3> QED
      BY <1>1, <3>1, EngineLeaves
  <2> QED
    BY <1>0, <2>1, <2>2
<1>2. CASE PauseAntiAfk \/ Regate
  <2>1. UNCHANGED <<batch, test, gen>> /\ eng.pc \in Chosen /\ eng.pc # "batch"
    BY <1>2 DEF PauseAntiAfk, Regate, mem, Chosen
  <2>2. eng.pid # 0 /\ Callee \notin eng.due \cup eng.rows
    BY <1>0, <2>1 DEF LockInv
  <2>3. CASE PauseAntiAfk
    <3>1. eng'.pc = "hook" /\ eng'.pid = eng.pid /\ eng'.due = {} /\ eng'.rows = eng.due
      BY <2>3 DEF PauseAntiAfk, WorkTypes, Engines
    <3> QED
      BY <2>1, <2>2, <3>1
  <2>4. CASE Regate
    <3>1. eng'.pc = "users" \/ (eng'.pc = "lock" /\ eng'.pid = eng.pid /\ eng'.due = eng.due /\ eng'.rows = eng.rows)
      BY <1>0, <2>4 DEF Regate, WorkTypes, Engines
    <3> QED
      BY <1>0, <2>1, <2>2, <3>1
  <2> QED
    BY <1>2, <2>3, <2>4
<1>3. ASSUME NEW u \in Users, VisitUser(u)
      PROVE  /\ UNCHANGED <<batch, test, gen>> /\ eng.pc # "batch" /\ eng'.pc = "menu" /\ eng'.pid # 0
  BY <1>3 DEF VisitUser, WorkTypes, Engines
<1>4. CASE ReadMenu
  <2>1. UNCHANGED <<batch, test, gen>> /\ eng.pc = "menu"
    BY <1>4 DEF ReadMenu
  <2>2. eng'.pc = "users" \/ (eng'.pc = "gates" /\ eng'.pid = eng.pid)
    BY <1>0, <1>4 DEF ReadMenu, WorkTypes, Engines
  <2> QED
    BY <1>0, <2>1, <2>2 DEF LockInv, Visited, Chosen
<1>5. CASE ReadGate
  <2>1. UNCHANGED <<batch, test, gen>> /\ eng.pc \in {"gates", "hook"} /\ eng.rows # {}
    BY <1>5 DEF ReadGate
  <2>2. PICK r \in eng.rows : r = CHOOSE x \in eng.rows : \A y \in eng.rows : x <= y
    BY <2>1, FirstRow DEF WorkTypes, Engines
  <2>3. eng'.pc = eng.pc /\ eng'.pid = eng.pid /\ eng'.rows \subseteq eng.rows /\ eng'.due \subseteq eng.due \cup {r}
    BY <1>5, <2>2 DEF ReadGate, WorkTypes, Engines
  <2> QED
    BY <2>1, <2>3 DEF LockInv, Visited, Chosen
<1>6. CASE EvaluateRules
  <2>1. UNCHANGED <<batch, test, gen>> /\ eng.pc = "gates" /\ eng.rows = {}
    BY <1>6 DEF EvaluateRules
  <2>a. Callee \notin Due(eng.u, eng.pid, eng.due)
    BY DEF Due, IsDue
  <2>2. PICK due : due = Due(eng.u, eng.pid, eng.due) /\ Callee \notin due
    BY <2>a
  <2>3. eng' = IF due = {} THEN NextUser ELSE [eng EXCEPT !.pc = "pause", !.due = due]
    BY <1>6, <2>2 DEF EvaluateRules
  <2>4. eng'.pc = "users" \/ (eng'.pc = "pause" /\ eng'.pid = eng.pid /\ eng'.due = due /\ eng'.rows = {})
    BY <1>0, <2>1, <2>3 DEF WorkTypes, Engines
  <2> QED
    BY <1>0, <2>1, <2>2, <2>4 DEF LockInv, Visited
<1> QED
  BY <1>0, <1>1, <1>2, <1>3, <1>4, <1>5, <1>6 DEF Engine, Chosen

LEMMA EngineLock ==
  ASSUME ActionInv, Engine
  PROVE  LockInv'
<1> USE DEF ActionInv
<1>1. CASE ~EngineLocks
  BY <1>1, EngineRows, LockStays
<1>3. CASE EngineLocks
  <2>1. UNCHANGED <<test, gen>> /\ eng.pc = "lock" /\ batch.by = "none"
    BY <1>3 DEF EngineLocks, mem
  <2>2. eng'.pc = "batch" /\ eng'.u = eng.u /\ eng'.pid = eng.pid /\ eng'.due = eng.due /\ eng'.rows = eng.rows
    BY <1>3 DEF EngineLocks, WorkTypes, Engines
  <2>3. /\ batch'.by = "engine" /\ batch'.u = eng.u /\ batch'.pid = eng.pid /\ batch'.row = 0
        /\ batch'.inner = 0 /\ ~batch'.asked /\ batch'.rest = InOrder(eng.due)
    BY <1>3 DEF EngineLocks, NoBatch
  <2>4. \A i \in 1 .. Len(batch'.rest) : batch'.rest[i] \in eng'.due
    <3>1. eng.due \in SUBSET Rows
      BY DEF WorkTypes, Engines
    <3> QED
      BY <2>2, <2>3, <3>1, InOrderFacts
  <2>5. eng.pid # 0 /\ Callee \notin eng.due \cup eng.rows
    BY <2>1 DEF LockInv, Visited, Chosen
  <2> QED
    BY <2>1, <2>2, <2>3, <2>4, <2>5 DEF LockInv, Current
<1> QED
  BY <1>1, <1>3

\* The lock is given back.
LEMMA UnlockLock ==
  ASSUME ActionInv, NEW e, UnlockActions(e), batch.by # "none", UNCHANGED gen,
         e.pc = "users" \/ (e.pc = "mark" /\ e.pid = eng.pid /\ e.due \subseteq eng.due /\ e.rows = eng.rows)
  PROVE  LockInv'
<1> USE DEF ActionInv
<1>0. NoBatch.by = "none" /\ NoBatch.row = 0 /\ NoBatch.inner = 0 /\ ~NoBatch.asked
  BY DEF NoBatch
<1>1. CASE batch.by = "engine"
  <2>1. batch' = NoBatch /\ eng' = e /\ test' = test
    BY <1>1 DEF UnlockActions
  <2>2. eng.pc = "batch" /\ test.pc # "batch"
    BY <1>1 DEF LockInv
  <2>3. eng.pid # 0 /\ Callee \notin eng.due \cup eng.rows
    BY <2>2 DEF LockInv, Visited, Chosen
  <2> QED
    BY <1>0, <2>1, <2>2, <2>3 DEF LockInv, Visited, Chosen, Current
<1>2. CASE batch.by = "test"
  <2>1. batch' = NoBatch /\ test' = Idle /\ eng' = eng
    BY <1>2 DEF UnlockActions
  <2>2. eng.pc # "batch" /\ test'.pc = "idle"
    BY <1>2, <2>1 DEF LockInv, Idle
  <2> QED
    BY <1>0, <2>1, <2>2 DEF LockInv, Current
<1> QED
  BY <1>1, <1>2 DEF WorkTypes, Batches

\* A row ends under the lock.
LEMMA RowReturnsLock ==
  ASSUME ActionInv, NEW g, RowReturns(g), UNCHANGED <<eng, test, gen>>, batch.by # "none"
  PROVE  LockInv'
<1> USE DEF ActionInv
<1>1. /\ batch'.by = batch.by /\ batch'.u = batch.u /\ batch'.pid = batch.pid /\ batch'.row = 0
      /\ batch'.inner = 0 /\ ~batch'.asked /\ (batch'.rest = batch.rest \/ batch'.rest = <<>>)
  BY DEF RowReturns, WorkTypes, Batches
<1>2. ASSUME batch.by = "engine"
      PROVE  \A i \in 1 .. Len(batch'.rest) : batch'.rest[i] \in eng.due
  BY <1>1, <1>2 DEF LockInv
<1> QED
  BY <1>1, <1>2 DEF LockInv, Current

LEMMA BatchLock ==
  ASSUME ActionInv, Batch
  PROVE  LockInv'
<1> USE DEF ActionInv
<1>0. PICK b \in Batches : b = batch
  BY DEF WorkTypes
<1>1. CASE Abort
  <2>1. UnlockActions(NextUser) /\ UNCHANGED gen /\ batch.by # "none"
    BY <1>1 DEF Abort
  <2> QED
    BY <2>1, UnlockLock, NextUserFacts
<1>2. CASE StartRow
  <2>1. UNCHANGED <<eng, test, gen>> /\ batch.by # "none" /\ batch.row = 0 /\ batch.rest # <<>>
    BY <1>2 DEF StartRow, mem
  <2>2. /\ batch'.by = batch.by /\ batch'.u = batch.u /\ batch'.pid = batch.pid /\ batch'.row = Head(batch.rest)
        /\ batch'.rest = Tail(batch.rest) /\ batch'.token = gen[batch.u]
        /\ batch'.inner = batch.inner /\ batch'.asked = batch.asked
    BY <1>0, <1>2 DEF StartRow, Batches
  <2>3. batch.inner = 0 /\ ~batch.asked
    <3>1. 0 \notin CallerRows
      BY Constants
    <3> QED
      BY <2>1, <3>1 DEF LockInv
  <2>4. \A i \in 1 .. Len(batch'.rest) : \E j \in 1 .. Len(batch.rest) : batch'.rest[i] = batch.rest[j]
    <3>1. PICK s \in Seq(Rows) : s = batch.rest
      BY <1>0 DEF Batches
    <3>2. \A i \in 1 .. Len(Tail(s)) : i + 1 \in 1 .. Len(s) /\ Tail(s)[i] = s[i + 1]
      BY <2>1, <3>1
    <3> QED
      BY <2>2, <3>1, <3>2
  <2>5. ASSUME batch.by = "engine"
        PROVE  \A i \in 1 .. Len(batch'.rest) : batch'.rest[i] \in eng.due
    BY <2>4, <2>5 DEF LockInv
  <2>6. gen[batch.u] \in Nat
    BY <1>0 DEF MemTypes, Batches
  <2> QED
    BY <2>1, <2>2, <2>3, <2>5, <2>6 DEF LockInv
<1>3. CASE PlayInput \/ KillReturns
  <2>1. RowReturns(gen[batch.u]) /\ UNCHANGED <<eng, test, gen>> /\ batch.by # "none"
    <3>1. NoBatch.asked = FALSE
      BY DEF NoBatch
    <3> QED
      BY <1>3, <3>1 DEF PlayInput, KillReturns, Playing, LockInv
  <2> QED
    BY <2>1, RowReturnsLock
<1>4. CASE KillStep
  <2>1. UNCHANGED <<eng, test>> /\ batch.by # "none" /\ batch.row # 0 /\ Current \in KillRows /\ ~batch.asked
    BY <1>4 DEF KillStep, Playing
  <2>2. /\ batch'.by = batch.by /\ batch'.u = batch.u /\ batch'.pid = batch.pid /\ batch'.row = batch.row
        /\ batch'.rest = batch.rest /\ batch'.token = batch.token
        /\ batch'.inner = batch.inner /\ batch'.asked = TRUE
    BY <1>0, <1>4 DEF KillStep, Batches
  <2>3. gen[batch.u] \in Nat /\ batch.token \in Nat /\ gen'[batch.u] = gen[batch.u] + 1
    BY <1>0, <1>4 DEF KillStep, MemTypes, Batches
  <2>4. Current' = Current
    BY <2>2 DEF Current
  <2>5. batch'.token < gen'[batch'.u]
    BY <2>1, <2>2, <2>3 DEF LockInv
  <2>6. batch'.token <= gen'[batch'.u]
    BY <2>5, <2>2, <2>3
  <2> QED
    BY <2>1, <2>2, <2>4, <2>5, <2>6 DEF LockInv
<1>5. CASE CallRow
  <2>1. UNCHANGED <<eng, test, gen>> /\ batch.by # "none" /\ batch.row # 0 /\ Current \in CallerRows
    BY <1>5 DEF CallRow, Playing
  <2>2. CASE RowReturns(gen[batch.u])
    BY <2>1, <2>2, RowReturnsLock
  <2>3. CASE batch' = [batch EXCEPT !.inner = Callee]
    <3>1. /\ batch'.by = batch.by /\ batch'.u = batch.u /\ batch'.pid = batch.pid /\ batch'.row = batch.row
          /\ batch'.rest = batch.rest /\ batch'.token = batch.token
          /\ batch'.inner = Callee /\ batch'.asked = batch.asked
      BY <1>0, <2>3 DEF Batches
    <3>2. batch.inner = 0 /\ batch.row \in CallerRows /\ ~batch.asked
      BY <2>1, Constants DEF Current, LockInv
    <3> QED
      BY <2>1, <3>1, <3>2 DEF LockInv
  <2> QED
    BY <1>5, <2>2, <2>3 DEF CallRow
<1>6. CASE FinishBatch
  <2> DEFINE e == [eng EXCEPT !.pc = "mark", !.due = @ \cap batch.used]
  <2>1. UnlockActions(e) /\ UNCHANGED gen /\ batch.by # "none"
    BY <1>6 DEF FinishBatch, mem
  <2>2. e.pc = "mark" /\ e.pid = eng.pid /\ e.due \subseteq eng.due /\ e.rows = eng.rows
    BY DEF WorkTypes, Engines
  <2> HIDE DEF e
  <2> QED
    BY <2>1, <2>2, UnlockLock
<1> QED
  BY <1>1, <1>2, <1>3, <1>4, <1>5, <1>6 DEF Batch

LEMMA OtherLock ==
  ASSUME ActionInv, Surroundings \/ Tester
  PROVE  LockInv'
<1> USE DEF ActionInv
<1>1. CASE Surroundings
  <2>1. UNCHANGED <<work, gen>>
    BY <1>1 DEF Surroundings, OpenWindow, CloseWindow, LeaveMenu, EnterMenu, RecordTrigger, EditRow,
                SwitchOff, SwitchOn, ResetStartupCounts, Tick, mem
  <2> QED
    BY <2>1 DEF LockInv, Current, work
<1>2. CASE TestLocks
  <2>1. UNCHANGED <<eng, gen>> /\ test.pc = "lock" /\ batch.by = "none"
    BY <1>2 DEF TestLocks, mem
  <2>2. batch'.by = "test" /\ batch'.pid = test.pid /\ batch'.row = 0 /\ batch'.inner = 0 /\ ~batch'.asked
    BY <1>2 DEF TestLocks, NoBatch
  <2>3. test'.pc = "batch" /\ test'.pid = test.pid
    BY <1>2 DEF TestLocks, WorkTypes
  <2> QED
    BY <2>1, <2>2, <2>3 DEF LockInv, Current
<1>3. ASSUME NEW u \in Users, TestOnce(u)
      PROVE  LockInv'
  <2>1. UNCHANGED <<eng, batch, gen>> /\ test.pc = "idle" /\ test'.pc = "lock" /\ test'.pid # 0
    BY <1>3 DEF TestOnce, mem
  <2> QED
    BY <2>1 DEF LockInv, Current
<1> QED
  BY <1>1, <1>2, <1>3 DEF Tester

LEMMA ActionLock ==
  ASSUME ActionInv, ActionsNext
  PROVE  LockInv'
BY EngineLock, BatchLock, OtherLock DEF ActionsNext

\* Nothing that PastPids is about changes but the place of the engine.
LEMMA PidsStay ==
  ASSUME PastPids, UNCHANGED <<pid, pids, killed>>, 0 <= pids,
         \/ eng'.pid = 0 /\ eng'.pc \notin Visited
         \/ eng'.pid = eng.pid /\ eng'.u = eng.u /\ (eng'.pc \in Visited => eng.pc \in Visited),
         test'.pid = test.pid \/ test'.pid <= pids,
         batch'.pid = batch.pid \/ batch'.pid <= pids
  PROVE  PastPids'
BY DEF PastPids

LEMMA SurroundingsPids ==
  ASSUME ActionInv, Surroundings
  PROVE  PastPids'
<1> USE DEF ActionInv
<1>1. ASSUME NEW u \in Users, OpenWindow(u)
      PROVE  PastPids'
  <2>1. UNCHANGED <<eng, test, batch, killed>> /\ pids' = pids + 1 /\ pid' = [pid EXCEPT ![u] = pids + 1]
    BY <1>1 DEF OpenWindow, work
  <2>2. pids \in Nat /\ pid \in [Users -> Nat] /\ killed \subseteq Nat
    BY DEF EnvTypes, HistTypes
  <2>3. eng.pid \in Nat /\ test.pid \in Nat /\ batch.pid \in Nat
    BY DEF WorkTypes, Engines, Batches
  <2>4. \A p \in Nat : p <= pids => p <= pids + 1 /\ p # pids + 1
    BY <2>2
  <2>5. \A v \in Users : pid'[v] = IF v = u THEN pids + 1 ELSE pid[v]
    BY <2>1, <2>2
  <2>6. eng.pid <= pids' /\ test.pid <= pids' /\ batch.pid <= pids' /\ \A p \in killed : p <= pids' /\ p # 0
    BY <2>1, <2>2, <2>3, <2>4 DEF PastPids
  <2>7. \A v \in Users : pid'[v] <= pids'
    <3>1. \A v \in Users : pid[v] <= pids'
      BY <2>1, <2>2, <2>4 DEF PastPids
    <3>2. pids + 1 <= pids'
      BY <2>1, <2>2
    <3> QED
      BY <2>5, <3>1, <3>2
  <2>8. \A v, w \in Users : pid'[v] = pid'[w] /\ pid'[v] # 0 => v = w
    <3>1. \A v \in Users : pid[v] # pids + 1
      BY <2>2, <2>4 DEF PastPids
    <3> QED
      BY <2>5, <3>1 DEF PastPids
  <2>9. eng.pc \in Visited => \A v \in Users : pid'[v] = eng.pid => v = eng.u
    <3>1. eng.pid # pids + 1
      BY <2>3, <2>4 DEF PastPids
    <3> QED
      BY <2>5, <3>1 DEF PastPids
  <2> QED
    BY <2>1, <2>6, <2>7, <2>8, <2>9 DEF PastPids
<1>2. ASSUME NEW u \in Users, CloseWindow(u)
      PROVE  PastPids'
  <2>1. UNCHANGED <<eng, test, batch, killed, pids>> /\ pid' = [pid EXCEPT ![u] = 0]
    BY <1>2 DEF CloseWindow, work, hist
  <2>2. \A v \in Users : pid'[v] = IF v = u THEN 0 ELSE pid[v]
    BY <2>1 DEF EnvTypes
  <2>3. 0 <= pids
    BY DEF EnvTypes
  <2>4. eng.pc \in Visited => eng.pid # 0
    BY DEF LockInv
  <2> QED
    BY <2>1, <2>2, <2>3, <2>4 DEF PastPids
<1>3. CASE UNCHANGED <<pid, pids, killed, work>>
  BY <1>3 DEF work, PastPids
<1> QED
  BY <1>1, <1>2, <1>3 DEF Surroundings, LeaveMenu, EnterMenu, RecordTrigger, EditRow,
     SwitchOff, SwitchOn, ResetStartupCounts, Tick, env, hist

\* Where the engine goes: away from the user, on with the user, or to one.
LEMMA EngineMoves ==
  ASSUME ActionInv, Engine
  PROVE  \/ eng'.pid = 0 /\ eng'.pc \in {"top", "users"}
         \/ /\ eng'.pid = eng.pid /\ eng'.u = eng.u
            /\ \/ eng.pc = "menu" /\ eng'.pc = "gates"
               \/ eng.pc = "gates" /\ eng'.pc \in {"gates", "pause"}
               \/ eng.pc = "pause" /\ eng'.pc = "hook"
               \/ eng.pc = "hook" /\ eng'.pc \in {"hook", "lock"}
               \/ eng.pc = "lock" /\ eng'.pc = "batch"
         \/ eng'.pid = eng.pid /\ eng'.u = eng.u /\ eng'.pc = "users" /\ eng.pc \in {"top", "users"}
         \/ \E u \in Users : VisitUser(u)
<1> USE DEF ActionInv
<1>0. /\ NextUser.pc = "users" /\ NextUser.pid = 0
      /\ [NextUser EXCEPT !.todo = {}].pc = "users" /\ [NextUser EXCEPT !.todo = {}].pid = 0
  BY NextUserFacts
<1>1. Top \/ (\E u \in Users : PassUser(u)) => eng'.pid = eng.pid /\ eng'.u = eng.u /\ eng'.pc = "users" /\ eng.pc \in {"top", "users"}
  BY DEF Top, PassUser, WorkTypes, Engines
<1>2. EndCycle \/ NoRules \/ RefusePause \/ Mark => eng'.pid = 0 /\ eng'.pc \in {"top", "users"}
  BY EngineLeaves
<1>3. CASE ReadMenu
  BY <1>0, <1>3 DEF ReadMenu, WorkTypes, Engines
<1>4. CASE ReadGate
  <2>1. eng.pc \in {"gates", "hook"} /\ eng'.pc = eng.pc /\ eng'.pid = eng.pid /\ eng'.u = eng.u
    BY <1>4 DEF ReadGate, WorkTypes, Engines
  <2> QED
    BY <2>1
<1>5. CASE EvaluateRules
  <2>1. PICK due : due = Due(eng.u, eng.pid, eng.due)
    OBVIOUS
  <2>2. eng' = IF due = {} THEN NextUser ELSE [eng EXCEPT !.pc = "pause", !.due = due]
    BY <1>5, <2>1 DEF EvaluateRules
  <2>3. eng.pc = "gates"
    BY <1>5 DEF EvaluateRules
  <2> QED
    BY <1>0, <2>2, <2>3 DEF WorkTypes, Engines
<1>6. CASE PauseAntiAfk \/ Regate \/ EngineLocks
  BY <1>0, <1>6 DEF PauseAntiAfk, Regate, EngineLocks, WorkTypes, Engines
<1> QED
  BY <1>1, <1>2, <1>3, <1>4, <1>5, <1>6 DEF Engine

LEMMA EnginePids ==
  ASSUME ActionInv, Engine
  PROVE  PastPids'
<1> USE DEF ActionInv
<1>0. UNCHANGED <<pid, pids, killed>> /\ 0 <= pids /\ test'.pid = test.pid
  <2>1. UNCHANGED <<env, killed>>
    BY DEF Engine, Top, EndCycle, ReadMenu, ReadGate, NoRules, EvaluateRules, PauseAntiAfk, RefusePause,
           Regate, EngineLocks, Mark, PassUser, VisitUser, hist
  <2>2. test' = test
    BY DEF Engine, Top, EndCycle, ReadMenu, ReadGate, NoRules, EvaluateRules, PauseAntiAfk, RefusePause,
           Regate, EngineLocks, Mark, PassUser, VisitUser
  <2> QED
    BY <2>1, <2>2 DEF env, EnvTypes
<1>1. batch'.pid = batch.pid \/ batch'.pid <= pids
  <2>1. batch' = batch \/ batch'.pid = eng.pid
    BY DEF Engine, Top, EndCycle, ReadMenu, ReadGate, NoRules, EvaluateRules, PauseAntiAfk, RefusePause,
           Regate, EngineLocks, Mark, PassUser, VisitUser, NoBatch
  <2> QED
    BY <2>1 DEF PastPids
<1>2. ASSUME NEW u \in Users, VisitUser(u)
      PROVE  PastPids'
  <2>1. UNCHANGED <<test, batch>> /\ pid[u] # 0
    BY <1>2 DEF VisitUser
  <2>2. eng'.pid = pid[u] /\ eng'.u = u
    BY <1>2 DEF VisitUser, WorkTypes, Engines
  <2> QED
    BY <1>0, <2>1, <2>2 DEF PastPids
<1>3. CASE eng'.pid = 0 /\ eng'.pc \in {"top", "users"}
  BY <1>0, <1>1, <1>3, PidsStay DEF Visited, Chosen
<1>4. CASE eng'.pid = eng.pid /\ eng'.u = eng.u /\ (eng'.pc \in Visited => eng.pc \in Visited)
  BY <1>0, <1>1, <1>4, PidsStay
<1> QED
  BY <1>2, <1>3, <1>4, EngineMoves DEF Visited, Chosen

LEMMA BatchPids ==
  ASSUME ActionInv, Batch \/ Tester
  PROVE  PastPids'
<1> USE DEF ActionInv
<1>0. NoBatch.pid <= pids /\ Idle.pid <= pids /\ 0 <= pids
  BY DEF NoBatch, Idle, EnvTypes
<1>1. CASE Abort \/ FinishBatch
  <2>1. UNCHANGED <<pid, pids, killed>> /\ batch' = NoBatch
    BY <1>1 DEF Abort, FinishBatch, UnlockActions, env, hist
  <2>2. \/ eng' = eng \/ eng' = NextUser
        \/ eng'.pid = eng.pid /\ eng'.u = eng.u /\ eng.pc = "batch"
    <3>1. Abort => eng' = eng \/ eng' = NextUser
      BY DEF Abort, UnlockActions
    <3>2. FinishBatch => eng' = eng \/ (eng' = [eng EXCEPT !.pc = "mark", !.due = @ \cap batch.used] /\ batch.by = "engine")
      BY DEF FinishBatch, UnlockActions
    <3> QED
      BY <1>1, <3>1, <3>2 DEF LockInv, WorkTypes, Engines
  <2>3. test' = test \/ test' = Idle
    BY <1>1 DEF Abort, FinishBatch, UnlockActions
  <2>4. "users" \notin Visited /\ "batch" \in Visited
    BY DEF Visited, Chosen
  <2> QED
    BY <1>0, <2>1, <2>2, <2>3, <2>4, PidsStay, NextUserFacts
<1>2. CASE StartRow \/ PlayInput \/ KillReturns \/ CallRow
  <2>1. UNCHANGED <<pid, pids, killed, eng, test>>
    BY <1>2 DEF StartRow, PlayInput, KillReturns, CallRow, env, hist
  <2>2. batch'.pid = batch.pid
    BY <1>2 DEF StartRow, PlayInput, KillReturns, CallRow, RowReturns, WorkTypes, Batches
  <2> QED
    BY <1>0, <2>1, <2>2, PidsStay
<1>3. CASE KillStep
  <2>1. UNCHANGED <<pid, pids, eng, test>> /\ killed' = killed \cup {batch.pid} /\ batch.by # "none"
    BY <1>3 DEF KillStep, env, Playing
  <2>2. batch'.pid = batch.pid
    BY <1>3 DEF KillStep, WorkTypes, Batches
  <2>3. batch.pid # 0 /\ batch.pid <= pids
    BY <2>1 DEF LockInv, PastPids
  <2> QED
    BY <2>1, <2>2, <2>3 DEF PastPids
<1>4. CASE TestLocks
  <2>1. UNCHANGED <<pid, pids, killed, eng>> /\ test'.pid = test.pid /\ batch'.pid = test.pid
    BY <1>4 DEF TestLocks, env, hist, WorkTypes, NoBatch
  <2> QED
    BY <1>0, <2>1, PidsStay DEF PastPids
<1>5. ASSUME NEW u \in Users, TestOnce(u)
      PROVE  PastPids'
  <2>1. UNCHANGED <<pid, pids, killed, eng, batch>> /\ test'.pid = pid[u]
    BY <1>5 DEF TestOnce, env, hist
  <2> QED
    BY <1>0, <2>1, PidsStay DEF PastPids
<1> QED
  BY <1>1, <1>2, <1>3, <1>4, <1>5 DEF Batch, Tester

LEMMA ActionPids ==
  ASSUME ActionInv, ActionsNext
  PROVE  PastPids'
BY SurroundingsPids, EnginePids, BatchPids DEF ActionsNext

\* What an engine's visit makes of the number of the consumed event.
LEMMA ConsumedFacts ==
  ASSUME ActionInv, NEW u \in Users, NEW p \in 0 .. MaxPid, NEW rules \in SUBSET Rows, NEW r \in Rows
  PROVE  /\ Considered(u, p, rules, r).consumed <= seqs
         /\ Evaluated(u, p, rules)[r].consumed <= seqs
<1> USE DEF ActionInv
<1>1. PICK s \in Remembered : s = state[u][r] /\ s.consumed <= seqs
  BY DEF MemTypes, PastSeqs
<1>2. 0 <= seqs /\ seqs \in Nat /\ seqs <= seqs
  BY DEF MemTypes
<1>3. Pruned(u, p, rules, r) \in Remembered /\ Pruned(u, p, rules, r).consumed <= seqs
  <2>1. PICK d \in 0 .. MaxPid : d = IF s.donePid = p THEN p ELSE 0
    BY Constants
  <2>2. Pruned(u, p, rules, r) = IF r \notin rules THEN Blank ELSE [s EXCEPT !.donePid = d]
    BY <1>1, <2>1 DEF Pruned
  <2>3. Blank.consumed = 0
    BY DEF Blank
  <2> QED
    BY <1>1, <1>2, <2>2, <2>3, InitialRecords DEF Remembered
<1>4. ASSUME NEW t \in Remembered, t.consumed <= seqs
      PROVE  Refreshed(u, p, r, t).consumed <= seqs
  <2>1. PICK c \in {0, seqs, t.consumed} : c = IF r \notin EventRows THEN 0
                      ELSE IF Latest(u, p, r) # 0 THEN t.consumed
                      ELSE IF t.consumed > seqs THEN t.consumed ELSE seqs
    OBVIOUS
  <2>2. Refreshed(u, p, r, t) = IF t.setting = CycleSetting(r) THEN t
                                ELSE [Blank EXCEPT !.setting = CycleSetting(r), !.consumed = c]
    BY <2>1, Zenon DEF Refreshed
  <2>3. [Blank EXCEPT !.setting = CycleSetting(r), !.consumed = c].consumed = c
    BY DEF Blank
  <2> QED
    BY <1>2, <1>4, <2>1, <2>2, <2>3
<1>5. Considered(u, p, rules, r).consumed <= seqs
  BY <1>3, <1>4 DEF Considered
<1>6. Evaluated(u, p, rules)[r].consumed <= seqs
  <2>1. PICK t \in Remembered : t = Considered(u, p, rules, r)
    BY ConsideredType
  <2>2. Evaluated(u, p, rules)[r] =
          IF r \in EventRows /\ IsDue(u, p, rules, r) THEN [t EXCEPT !.consumed = Latest(u, p, r)] ELSE t
    BY <2>1 DEF Evaluated
  <2>3. Latest(u, p, r) <= seqs
    BY <1>2, ConsideredType DEF PastSeqs
  <2> QED
    BY <1>5, <2>1, <2>2, <2>3 DEF Remembered
<1> QED
  BY <1>5, <1>6

\* A step that gives out no number, drops at most events and remembers no later one.
LEMMA SeqsStay ==
  ASSUME ActionInv, UNCHANGED seqs,
         \A u \in Users : event'[u] = event[u] \/ event'[u] = NoEvent,
         \A u \in Users, r \in Rows : state'[u][r].consumed <= seqs
  PROVE  PastSeqs'
<1>1. NoEvent.seq <= seqs
  BY DEF NoEvent, ActionInv, MemTypes
<1> QED
  BY <1>1 DEF ActionInv, PastSeqs

\* The rows that a step marks keep what they have consumed.
LEMMA ReturnsSeqs ==
  ASSUME ActionInv, NEW g, RowReturns(g), batch.row # 0, UNCHANGED <<event, seqs>>
  PROVE  PastSeqs'
<1> USE DEF ActionInv
<1>1. \A u \in Users, r \in Rows : state'[u][r].consumed = state[u][r].consumed
  <2>1. CASE batch.inner = 0
    BY <2>1 DEF RowReturns
  <2>2. CASE batch.inner # 0
    <3>1. PICK u \in Users, r \in Rows : u = batch.u /\ r = batch.inner
      BY <2>2, Constants DEF LockInv, WorkTypes, Batches
    <3>2. state[u][r] \in Remembered /\ batch.pid \in 0 .. MaxPid
      BY DEF MemTypes, WorkTypes, Batches
    <3>3. Used(state[u][r], r, batch.pid).consumed = state[u][r].consumed
      BY <3>2, UsedType
    <3>4. state' = [state EXCEPT ![u][r] = Used(@, r, batch.pid)]
      BY <2>2, <3>1 DEF RowReturns
    <3> QED
      BY <3>3, <3>4 DEF MemTypes
  <2> QED
    BY <2>1, <2>2
<1> QED
  BY <1>1, SeqsStay DEF PastSeqs

LEMMA ActionSeqs ==
  ASSUME ActionInv, ActionsNext
  PROVE  PastSeqs'
<1> USE DEF ActionInv
<1>1. CASE UNCHANGED <<seqs, event, state>>
  BY <1>1 DEF PastSeqs
<1>2. CASE ResetStartupCounts \/ Tick
  <2>1. UNCHANGED <<event, seqs>>
    BY <1>2 DEF ResetStartupCounts, Tick
  <2>2. \A u \in Users, r \in Rows : state'[u][r].consumed = state[u][r].consumed
    <3> TAKE u \in Users, r \in Rows
    <3>1. PICK s \in Remembered : s = state[u][r]
      BY DEF MemTypes
    <3>2. \/ state'[u][r] = [s EXCEPT !.done = FALSE]
          \/ state'[u][r] = [s EXCEPT !.ready = IF @ = 0 THEN 0 ELSE @ - 1]
      <4>1. CASE ResetStartupCounts
        BY <3>1, <4>1, Zenon DEF ResetStartupCounts
      <4>2. CASE Tick
        BY <3>1, <4>2, Zenon DEF Tick
      <4> QED
        BY <1>2, <4>1, <4>2
    <3> QED
      BY <3>1, <3>2 DEF Remembered
  <2> QED
    BY <2>1, <2>2, SeqsStay DEF PastSeqs
<1>3. ASSUME NEW u \in Users, RecordTrigger(u)
      PROVE  PastSeqs'
  <2>1. state' = state /\ seqs' = seqs + 1 /\ seqs \in Nat
    BY <1>3 DEF RecordTrigger, MemTypes
  <2>2. \A v \in Users : event'[v].seq = IF v = u THEN seqs + 1 ELSE event[v].seq
    BY <1>3 DEF RecordTrigger, MemTypes
  <2>3. \A v \in Users : event[v].seq \in Nat
    BY DEF MemTypes, Events
  <2>4. \A v \in Users, r \in Rows : state[v][r].consumed \in Nat
    BY DEF MemTypes, Remembered
  <2>5. \A n \in Nat : n <= seqs => n <= seqs + 1
    BY <2>1
  <2>6. seqs + 1 <= seqs + 1
    BY <2>1
  <2> QED
    BY <2>1, <2>2, <2>3, <2>4, <2>5, <2>6 DEF PastSeqs
<1>4. CASE EvaluateRules
  <2> DEFINE u == eng.u
             p == eng.pid
             rules == eng.due
  <2>1. UNCHANGED <<event, seqs>> /\ p \in 0 .. MaxPid /\ u \in Users /\ rules \in SUBSET Rows
    BY <1>4 DEF EvaluateRules, WorkTypes, Engines
  <2>2. state' = [state EXCEPT ![u] = Evaluated(u, p, rules)]
    BY <1>4 DEF EvaluateRules
  <2>3. \A r \in Rows : Evaluated(u, p, rules)[r].consumed <= seqs
    BY <2>1, ConsumedFacts
  <2>4. \A v \in Users, r \in Rows : state'[v][r].consumed <= seqs
    BY <2>1, <2>2, <2>3 DEF PastSeqs, MemTypes
  <2> QED
    BY <2>1, <2>4, SeqsStay
<1>5. CASE Mark
  <2>1. UNCHANGED <<event, seqs>> /\ eng.u \in Users /\ eng.pid \in 0 .. MaxPid
    BY <1>5 DEF Mark, WorkTypes, Engines
  <2>2. state' = [state EXCEPT ![eng.u] = [r \in Rows |->
                 IF r \in eng.due THEN Used(@[r], r, eng.pid) ELSE @[r]]]
    BY <1>5 DEF Mark
  <2>3. \A r \in Rows : Used(state[eng.u][r], r, eng.pid).consumed = state[eng.u][r].consumed
    BY <2>1, UsedType DEF MemTypes
  <2>4. \A u \in Users, r \in Rows : state'[u][r].consumed = state[u][r].consumed
    BY <2>1, <2>2, <2>3 DEF MemTypes
  <2> QED
    BY <2>1, <2>4, SeqsStay DEF PastSeqs
<1>6. CASE PlayInput \/ KillReturns \/ CallRow
  <2>1. UNCHANGED <<event, seqs>> /\ batch.row # 0
    BY <1>6 DEF PlayInput, KillReturns, CallRow, Playing, LockInv
  <2>2. RowReturns(gen[batch.u]) \/ UNCHANGED state
    BY <1>6 DEF PlayInput, KillReturns, CallRow
  <2> QED
    BY <1>1, <2>1, <2>2, ReturnsSeqs
<1>7. CASE KillStep
  <2>1. UNCHANGED <<state, seqs>> /\ \A u \in Users : event'[u] = event[u] \/ event'[u] = NoEvent
    BY <1>7 DEF KillStep, MemTypes
  <2> QED
    BY <2>1, SeqsStay DEF PastSeqs
<1>8. Surroundings => UNCHANGED <<seqs, event, state>> \/ ResetStartupCounts \/ Tick \/ \E u \in Users : RecordTrigger(u)
  BY DEF Surroundings, OpenWindow, CloseWindow, LeaveMenu, EnterMenu, EditRow, SwitchOff, SwitchOn, mem
<1>9. Engine => UNCHANGED <<seqs, event, state>> \/ Mark \/ EvaluateRules
  BY DEF Engine, Top, EndCycle, ReadMenu, ReadGate, NoRules, PauseAntiAfk, RefusePause, Regate,
         EngineLocks, PassUser, VisitUser, mem
<1>10. Batch => UNCHANGED <<seqs, event, state>> \/ PlayInput \/ KillReturns \/ CallRow \/ KillStep
  BY DEF Batch, Abort, StartRow, FinishBatch, mem
<1>11. Tester => UNCHANGED <<seqs, event, state>>
  BY DEF Tester, TestLocks, TestOnce, mem
<1> QED
  BY <1>1, <1>2, <1>3, <1>4, <1>5, <1>6, <1>7, <1>8, <1>9, <1>10, <1>11 DEF ActionsNext

LEMMA ActionInit == ActionsInit => ActionInv
<1> SUFFICES ASSUME ActionsInit PROVE ActionInv
  OBVIOUS
<1>1. EnvTypes
  BY Constants DEF ActionsInit, EnvTypes
<1>2. WorkTypes
  BY InitialRecords DEF ActionsInit, WorkTypes
<1>3. MemTypes
  <2>1. NoEvent \in Events /\ Unset \in [pid : 0 .. MaxPid, t : Nat]
    BY Constants DEF NoEvent, Events, Unset
  <2> QED
    BY <2>1, InitialRecords, Constants DEF ActionsInit, MemTypes
<1>4. HistTypes
  BY Constants DEF ActionsInit, HistTypes
<1>5. LockInv
  BY DEF ActionsInit, LockInv, AtTop, Idle, NoBatch, Visited, Chosen
<1>6. PastPids
  BY DEF ActionsInit, PastPids, AtTop, Idle, NoBatch, Visited, Chosen
<1>7. PastSeqs
  BY DEF ActionsInit, PastSeqs, NoEvent, Blank
<1> QED
  BY <1>1, <1>2, <1>3, <1>4, <1>5, <1>6, <1>7 DEF ActionInv

LEMMA ActionStutters ==
  ASSUME ActionInv, UNCHANGED actionVars
  PROVE  ActionInv'
<1>1. UNCHANGED <<env, work, mem, hist>>
  BY DEF actionVars
<1> QED
  BY <1>1 DEF env, work, mem, hist, ActionInv, EnvTypes, WorkTypes, MemTypes, HistTypes, LockInv,
     PastPids, PastSeqs, Current

LEMMA ActionInvariance == ActionsSpec => []ActionInv
<1>1. ActionInv /\ [ActionsNext]_actionVars => ActionInv'
  <2>1. CASE ActionInv /\ ActionsNext
    BY <2>1, ActionTypes, ActionLock, ActionPids, ActionSeqs DEF ActionInv
  <2> QED
    BY <2>1, ActionStutters
<1> QED
  BY <1>1, ActionInit, PTL DEF ActionsSpec

\* The records of the Auto-Actions keep their shapes, and a thread is in a
\* batch exactly while it holds the action lock.
THEOREM ActionsTypeCorrect == ActionsSpec => []ActionsTypeOK
<1>1. ActionInv => ActionsTypeOK
  BY DEF ActionInv, EnvTypes, WorkTypes, MemTypes, LockInv, ActionsTypeOK, Engines, ActionPlaces, Visited, Chosen, Remembered
<1> QED
  BY <1>1, ActionInvariance, PTL

\* What a row was picked for, it has consumed.
FiredInv ==
  \A u \in Users, r \in EventRows : fired[u][r] <= state[u][r].consumed

\* The engine remembers what was marked ...
MarkInv ==
  \A u \in Users : \A r \in marked[u] :
    /\ state[u][r].setting # NoSetting
    /\ r \in CountRows \/ (r \in OncePerPid /\ (pid[u] # 0 => state[u][r].donePid = pid[u]))
    /\ r \in CountRows => state[u][r].done

\* ... and the rows that it is about to play are not marked.
DueInv ==
  eng.pc \in {"pause", "hook", "lock", "batch"} =>
    \A r \in eng.due \cup eng.rows :
      r \in CountRows \/ eng.pid = pid[eng.u] => r \notin marked[eng.u]

\* A process whose end was asked for is blocked, or about to be.
BlockInv ==
  \A u \in Users : pid[u] \in killed =>
    blocked[u] = pid[u] \/ (batch.by = "engine" /\ batch.asked /\ batch.pid = pid[u])


-----------------------------------------------------------------------------
(* Auto-Actions: every event fires once, and what is marked rests *)

\* The step marks some rows of a user, or none.
MarksRows(u, p, rows) ==
  /\ UNCHANGED <<pid, fired>>
  /\ marked' = [marked EXCEPT ![u] = MarkedBy(u, p, rows)]
  /\ \A v \in Users, r \in Rows :
       state'[v][r] = IF v = u /\ r \in rows THEN Used(state[v][r], r, p) ELSE state[v][r]

LEMMA ReturnsMarks ==
  ASSUME ActionInv, NEW g, RowReturns(g), UNCHANGED <<pid, fired>>, batch.row # 0
  PROVE  \/ UNCHANGED <<pid, fired, state, marked>>
         \/ batch.inner = Callee /\ MarksRows(batch.u, batch.pid, {Callee})
<1> USE DEF ActionInv
<1>1. CASE batch.inner = 0
  BY <1>1 DEF RowReturns
<1>2. CASE batch.inner # 0
  <2>1. batch.inner = Callee /\ Callee \in Rows /\ batch.u \in Users
    BY <1>2, Constants DEF LockInv, WorkTypes, Batches
  <2>2. state' = [state EXCEPT ![batch.u][Callee] = Used(@, Callee, batch.pid)]
    BY <1>2, <2>1 DEF RowReturns
  <2>3. \A v \in Users, r \in Rows :
          state'[v][r] = IF v = batch.u /\ r \in {Callee} THEN Used(state[v][r], r, batch.pid) ELSE state[v][r]
    BY <2>1, <2>2 DEF MemTypes
  <2>4. marked' = [marked EXCEPT ![batch.u] = MarkedBy(batch.u, batch.pid, {Callee})]
    BY <1>2, <2>1 DEF RowReturns
  <2> QED
    BY <2>1, <2>3, <2>4 DEF MarksRows
<1> QED
  BY <1>1, <1>2

LEMMA MarkMarks ==
  ASSUME ActionInv, Mark
  PROVE  MarksRows(eng.u, eng.pid, eng.due)
<1> USE DEF ActionInv
<1>1. UNCHANGED <<pid, fired>> /\ eng.u \in Users /\ eng.due \subseteq Rows
  BY DEF Mark, env, WorkTypes, Engines
<1>2. marked' = [marked EXCEPT ![eng.u] = MarkedBy(eng.u, eng.pid, eng.due)]
  BY DEF Mark
<1>3. state' = [state EXCEPT ![eng.u] = [r \in Rows |->
                 IF r \in eng.due THEN Used(@[r], r, eng.pid) ELSE @[r]]]
  BY DEF Mark
<1>4. \A v \in Users, r \in Rows :
          state'[v][r] = IF v = eng.u /\ r \in eng.due THEN Used(state[v][r], r, eng.pid) ELSE state[v][r]
  BY <1>1, <1>3 DEF MemTypes
<1> QED
  BY <1>1, <1>2, <1>4 DEF MarksRows

\* The steps, as far as the memory of the rows and the marks go.
LEMMA MemorySteps ==
  ASSUME ActionInv, ActionsNext
  PROVE  \/ UNCHANGED <<pid, fired, state, marked>>
         \/ \E u \in Users : OpenWindow(u) \/ CloseWindow(u)
         \/ EvaluateRules
         \/ ResetStartupCounts
         \/ Tick
         \/ eng.pc = "mark" /\ MarksRows(eng.u, eng.pid, eng.due) /\ eng'.pc = "users"
         \/ batch.inner = Callee /\ MarksRows(batch.u, batch.pid, {Callee}) /\ eng' = eng /\ batch.by # "none"
<1> USE DEF ActionInv
<1>1. Surroundings => \/ UNCHANGED <<pid, fired, state, marked>>
                      \/ \E u \in Users : OpenWindow(u) \/ CloseWindow(u)
                      \/ ResetStartupCounts
                      \/ Tick
  <2>1. \A u \in Users : LeaveMenu(u) \/ EnterMenu(u) \/ RecordTrigger(u) => UNCHANGED <<pid, fired, state, marked>>
    BY DEF LeaveMenu, EnterMenu, RecordTrigger, env, mem, hist
  <2>2. (\E r \in EditedRows : EditRow(r)) \/ SwitchOff \/ SwitchOn => UNCHANGED <<pid, fired, state, marked>>
    BY DEF EditRow, SwitchOff, SwitchOn, mem, hist
  <2> QED
    BY <2>1, <2>2, Zenon DEF Surroundings
<1>2. Engine => \/ UNCHANGED <<pid, fired, state, marked>>
                \/ EvaluateRules
                \/ Mark
  BY DEF Engine, Top, EndCycle, ReadMenu, ReadGate, NoRules, PauseAntiAfk, RefusePause, Regate,
         EngineLocks, PassUser, VisitUser, env, mem, hist
<1>3. Mark => eng.pc = "mark" /\ MarksRows(eng.u, eng.pid, eng.due) /\ eng'.pc = "users"
  <2>1. Mark => eng.pc = "mark" /\ eng'.pc = "users"
    BY NextUserFacts DEF Mark
  <2> QED
    BY <2>1, MarkMarks
<1>4. Tester => UNCHANGED <<pid, fired, state, marked>>
  BY DEF Tester, TestLocks, TestOnce, env, mem, hist
<1>5. Abort \/ StartRow \/ KillStep \/ FinishBatch => UNCHANGED <<pid, fired, state, marked>>
  BY DEF Abort, StartRow, KillStep, FinishBatch, env, mem, hist
<1>6. ASSUME PlayInput \/ KillReturns \/ CallRow
      PROVE  \/ UNCHANGED <<pid, fired, state, marked>>
             \/ batch.inner = Callee /\ MarksRows(batch.u, batch.pid, {Callee}) /\ eng' = eng /\ batch.by # "none"
  <2>1. batch.row # 0 /\ UNCHANGED <<pid, fired, eng>> /\ batch.by # "none"
    <3>1. ~NoBatch.asked
      BY DEF NoBatch
    <3> QED
      BY <1>6, <3>1 DEF PlayInput, KillReturns, CallRow, Playing, LockInv, env
  <2>2. RowReturns(gen[batch.u]) \/ UNCHANGED <<state, marked>>
    BY <1>6 DEF PlayInput, KillReturns, CallRow
  <2> QED
    BY <2>1, <2>2, ReturnsMarks
<1>7. Batch => \/ UNCHANGED <<pid, fired, state, marked>>
               \/ batch.inner = Callee /\ MarksRows(batch.u, batch.pid, {Callee}) /\ eng' = eng /\ batch.by # "none"
  BY <1>5, <1>6 DEF Batch
<1> QED
  BY <1>1, <1>2, <1>3, <1>4, <1>7 DEF ActionsNext

\* What a reset of the session and the clock leave of the memory of a row.
LEMMA ResetTickFacts ==
  ASSUME ActionInv, ResetStartupCounts \/ Tick, NEW u \in Users, NEW r \in Rows
  PROVE  /\ state'[u][r].consumed = state[u][r].consumed /\ state'[u][r].setting = state[u][r].setting
         /\ state'[u][r].donePid = state[u][r].donePid
         /\ Tick => state'[u][r].done = state[u][r].done
<1> USE DEF ActionInv
<1>1. PICK s \in Remembered : s = state[u][r]
  BY DEF MemTypes
<1>2. CASE ResetStartupCounts
  <2>1. state'[u][r] = [s EXCEPT !.done = FALSE]
    BY <1>1, <1>2, Zenon DEF ResetStartupCounts
  <2>2. ASSUME Tick
        PROVE  state'[u][r] = [s EXCEPT !.ready = IF @ = 0 THEN 0 ELSE @ - 1]
    BY <1>1, <2>2, Zenon DEF Tick
  <2> QED
    BY <1>1, <2>1, <2>2 DEF Remembered
<1>3. CASE Tick
  <2>1. state'[u][r] = [s EXCEPT !.ready = IF @ = 0 THEN 0 ELSE @ - 1]
    BY <1>1, <1>3, Zenon DEF Tick
  <2> QED
    BY <1>1, <2>1 DEF Remembered
<1> QED
  BY <1>2, <1>3

\* What an evaluation makes of the memory of a row.
LEMMA EvaluateFacts ==
  ASSUME ActionInv, EvaluateRules, NEW r \in Rows
  PROVE  LET u == eng.u
             p == eng.pid
             rules == eng.due
             c == Considered(u, p, rules, r)
         IN  /\ state'[u][r].done = c.done /\ state'[u][r].donePid = c.donePid
             /\ state'[u][r].setting = c.setting
             /\ state'[u][r].consumed = IF r \in EventRows /\ IsDue(u, p, rules, r) THEN event[u].seq ELSE c.consumed
             /\ r \in rules /\ r \in EventRows => c.consumed >= state[u][r].consumed
             /\ r \in rules /\ state[u][r].setting = CycleSetting(r) =>
                  /\ c.setting = state[u][r].setting /\ c.done = state[u][r].done
                  /\ state[u][r].donePid = p => c.donePid = p
<1> USE DEF ActionInv
<1> DEFINE u == eng.u
           p == eng.pid
           rules == eng.due
           c == Considered(u, p, rules, r)
<1>0. u \in Users /\ p \in 0 .. MaxPid /\ rules \in SUBSET Rows
  BY DEF WorkTypes, Engines
<1>1. c \in Remembered
  BY <1>0, ConsideredType
<1>2. IsDue(u, p, rules, r) /\ r \in EventRows => Latest(u, p, r) = event[u].seq
  <2>1. Latest(u, p, r) \in {0, event[u].seq}
    BY <1>0, ConsideredType
  <2>2. c.consumed \in Nat
    BY <1>1 DEF Remembered
  <2> QED
    BY <2>1, <2>2 DEF IsDue
<1>3. Evaluated(u, p, rules)[r] =
         IF r \in EventRows /\ IsDue(u, p, rules, r) THEN [c EXCEPT !.consumed = Latest(u, p, r)] ELSE c
  BY DEF Evaluated
<1>4. state'[u] = Evaluated(u, p, rules)
  <2>1. state' = [state EXCEPT ![u] = Evaluated(u, p, rules)]
    BY DEF EvaluateRules
  <2> QED
    BY <1>0, <2>1 DEF MemTypes
<1>5. /\ state'[u][r].done = c.done /\ state'[u][r].donePid = c.donePid /\ state'[u][r].setting = c.setting
      /\ state'[u][r].consumed = IF r \in EventRows /\ IsDue(u, p, rules, r) THEN event[u].seq ELSE c.consumed
  <2> HIDE DEF c, rules
  <2> QED
    BY <1>1, <1>2, <1>3, <1>4 DEF Remembered
<1>6. ASSUME r \in rules
      PROVE  /\ r \in EventRows => c.consumed >= state[u][r].consumed
             /\ state[u][r].setting = CycleSetting(r) =>
                  /\ c.setting = state[u][r].setting /\ c.done = state[u][r].done
                  /\ state[u][r].donePid = p => c.donePid = p
  <2>2. PICK s \in Remembered : s = state[u][r]
    BY <1>0 DEF MemTypes
  <2>3. PICK d \in 0 .. MaxPid : d = IF s.donePid = p THEN p ELSE 0
    BY <1>0, Constants
  <2>4. Pruned(u, p, rules, r) = [s EXCEPT !.donePid = d]
    BY <1>6, <2>2, <2>3 DEF Pruned
  <2>5. PICK t \in Remembered : t = [s EXCEPT !.donePid = d]
    BY DEF Remembered
  <2>6. t.consumed = s.consumed /\ t.setting = s.setting /\ t.done = s.done /\ t.donePid = d
    BY <2>5 DEF Remembered
  <2>7. c = Refreshed(u, p, r, t)
    BY <1>6, <2>4, <2>5 DEF Considered
  <2>8. seqs \in Nat /\ t.consumed \in Nat /\ s.consumed \in Nat /\ s.consumed <= seqs
    <3>1. state[u][r].consumed <= seqs
      BY <1>0 DEF PastSeqs
    <3> QED
      BY <2>2, <3>1 DEF MemTypes, Remembered
  <2>9. r \in EventRows => c.consumed >= s.consumed
    <3>1. PICK n \in {0, seqs, t.consumed} : n = IF r \notin EventRows THEN 0
                      ELSE IF Latest(u, p, r) # 0 THEN t.consumed
                      ELSE IF t.consumed > seqs THEN t.consumed ELSE seqs
      OBVIOUS
    <3>2. c = IF t.setting = CycleSetting(r) THEN t
                                ELSE [Blank EXCEPT !.setting = CycleSetting(r), !.consumed = n]
      BY <2>7, <3>1, Zenon DEF Refreshed
    <3>3. [Blank EXCEPT !.setting = CycleSetting(r), !.consumed = n].consumed = n
      BY DEF Blank
    <3>4. r \notin EventRows \/ n >= s.consumed
      BY <2>6, <2>8, <3>1
    <3>5. c.consumed = t.consumed \/ c.consumed = n
      BY <3>2, <3>3
    <3>6. t.consumed >= s.consumed
      BY <2>6, <2>8
    <3> QED
      BY <3>4, <3>5, <3>6
  <2>10. s.setting = CycleSetting(r) => c = t
    BY <2>6, <2>7 DEF Refreshed
  <2> HIDE DEF c, rules
  <2> QED
    BY <2>2, <2>3, <2>6, <2>9, <2>10
<1> HIDE DEF c, rules, u, p
<1> QED
  BY <1>5, <1>6 DEF c, rules, u, p

\* The marks of a step, row by row.
LEMMA MarksFacts ==
  ASSUME ActionInv, NEW u \in Users, NEW p \in 0 .. MaxPid, NEW rows \in SUBSET Rows, MarksRows(u, p, rows)
  PROVE  /\ \A v \in Users, r \in Rows : /\ state'[v][r].consumed = state[v][r].consumed
                                         /\ state'[v][r].setting = state[v][r].setting
                                         /\ v # u \/ r \notin rows => state'[v][r] = state[v][r]
         /\ \A r \in rows : /\ state'[u][r].done = (state[u][r].done \/ r \in CountRows)
                            /\ state'[u][r].donePid = IF r \in OncePerPid THEN p ELSE state[u][r].donePid
         /\ \A v \in Users : v # u => marked'[v] = marked[v]
         /\ marked'[u] = MarkedBy(u, p, rows)
<1> USE DEF ActionInv
<1>1. ASSUME NEW v \in Users, NEW r \in Rows
      PROVE  /\ state'[v][r].consumed = state[v][r].consumed
             /\ state'[v][r].setting = state[v][r].setting
             /\ v # u \/ r \notin rows => state'[v][r] = state[v][r]
  <2>1. state[v][r] \in Remembered
    BY DEF MemTypes
  <2>2. state'[v][r] = IF v = u /\ r \in rows THEN Used(state[v][r], r, p) ELSE state[v][r]
    BY DEF MarksRows
  <2> QED
    BY <2>1, <2>2, UsedType
<1>2. ASSUME NEW r \in rows
      PROVE  /\ state'[u][r].done = (state[u][r].done \/ r \in CountRows)
             /\ state'[u][r].donePid = IF r \in OncePerPid THEN p ELSE state[u][r].donePid
  <2>1. state[u][r] \in Remembered
    BY DEF MemTypes
  <2>2. state'[u][r] = Used(state[u][r], r, p)
    BY DEF MarksRows
  <2> QED
    BY <2>1, <2>2, UsedType
<1>3. /\ \A v \in Users : v # u => marked'[v] = marked[v]
      /\ marked'[u] = MarkedBy(u, p, rows)
  BY DEF MarksRows, HistTypes
<1> QED
  BY <1>1, <1>2, <1>3

\* The two users of MarksRows name a user, a process and rows.
LEMMA MarksTypes ==
  ASSUME ActionInv
  PROVE  /\ eng.u \in Users /\ eng.pid \in 0 .. MaxPid /\ eng.due \in SUBSET Rows
         /\ batch.u \in Users /\ batch.pid \in 0 .. MaxPid /\ {Callee} \in SUBSET Rows
BY Constants DEF ActionInv, WorkTypes, Engines, Batches

LEMMA FiredStep ==
  ASSUME ActionInv, ActionsNext, FiredInv
  PROVE  FiredInv'
<1> USE DEF ActionInv
<1>0. EventRows \subseteq Rows
  BY Constants
<1>1. CASE UNCHANGED <<pid, fired, state, marked>>
  BY <1>1 DEF FiredInv
<1>2. ASSUME NEW u \in Users, OpenWindow(u) \/ CloseWindow(u)
      PROVE  FiredInv'
  BY <1>2 DEF OpenWindow, CloseWindow, mem, hist, FiredInv
<1>3. CASE ResetStartupCounts \/ Tick
  <2>1. UNCHANGED fired
    BY <1>3 DEF ResetStartupCounts, Tick, hist
  <2>2. \A u \in Users, r \in Rows : state'[u][r].consumed = state[u][r].consumed
    BY <1>3, ResetTickFacts
  <2> QED
    BY <1>0, <2>1, <2>2 DEF FiredInv
<1>4. ASSUME NEW u \in Users, NEW p \in 0 .. MaxPid, NEW rows \in SUBSET Rows, MarksRows(u, p, rows)
      PROVE  FiredInv'
  <2>1. UNCHANGED fired
    BY <1>4 DEF MarksRows
  <2>2. \A v \in Users, r \in Rows : state'[v][r].consumed = state[v][r].consumed
    BY <1>4, MarksFacts
  <2> QED
    BY <1>0, <2>1, <2>2 DEF FiredInv
<1>5. CASE EvaluateRules
  <2> DEFINE u == eng.u
             p == eng.pid
             rules == eng.due
  <2>0. u \in Users /\ p \in 0 .. MaxPid /\ rules \in SUBSET Rows
    BY MarksTypes
  <2>1. fired' = [fired EXCEPT ![u] = [r \in Rows |->
       IF r \notin rules THEN 0
       ELSE IF r \in EventRows /\ IsDue(u, p, rules, r) THEN event[u].seq ELSE @[r]]]
    BY <1>5 DEF EvaluateRules
  <2>2. \A v \in Users : v # u => state'[v] = state[v] /\ fired'[v] = fired[v]
    <3>1. \A v \in Users : v # u => state'[v] = state[v]
      BY <1>5 DEF EvaluateRules, MemTypes
    <3> QED
      BY <2>1, <3>1 DEF HistTypes
  <2>3. \A r \in EventRows : fired'[u][r] = IF r \notin rules THEN 0
                                           ELSE IF IsDue(u, p, rules, r) THEN event[u].seq ELSE fired[u][r]
    BY <1>0, <2>0, <2>1 DEF HistTypes
  <2>4. ASSUME NEW r \in EventRows
        PROVE  fired'[u][r] <= state'[u][r].consumed
    <3>0. r \in Rows /\ fired[u][r] <= state[u][r].consumed
      BY <1>0, <2>0 DEF FiredInv
    <3>1. Considered(u, p, rules, r).consumed \in Nat /\ event[u].seq \in Nat
      <4>1. Considered(u, p, rules, r) \in Remembered
        BY <2>0, <3>0, ConsideredType
      <4> QED
        BY <2>0, <4>1 DEF Remembered, MemTypes, Events
    <3>2. state'[u][r].consumed = IF IsDue(u, p, rules, r) THEN event[u].seq
                                                           ELSE Considered(u, p, rules, r).consumed
      BY <1>5, <3>0, EvaluateFacts
    <3>3. CASE r \notin rules
      BY <2>3, <3>1, <3>2, <3>3
    <3>4. CASE r \in rules
      <4>1. Considered(u, p, rules, r).consumed >= state[u][r].consumed
        BY <1>5, <3>0, <3>4, EvaluateFacts
      <4>2. fired[u][r] \in Nat /\ state[u][r].consumed \in Nat
        BY <2>0, <3>0 DEF HistTypes, MemTypes, Remembered
      <4> HIDE DEF rules, u, p
      <4> QED
        BY <2>3, <3>0, <3>1, <3>2, <3>4, <4>1, <4>2
    <3> QED
      BY <3>3, <3>4
  <2> QED
    BY <2>2, <2>4 DEF FiredInv
<1> QED
  BY <1>1, <1>2, <1>3, <1>4, <1>5, MemorySteps, MarksTypes

LEMMA MarkStep ==
  ASSUME ActionInv, ActionsNext, MarkInv
  PROVE  MarkInv'
<1> USE DEF ActionInv
<1>0. \A u \in Users : marked[u] \subseteq Rows
  BY DEF HistTypes
<1>1. CASE UNCHANGED <<pid, fired, state, marked>>
  BY <1>1 DEF MarkInv
<1>2. ASSUME NEW u \in Users, OpenWindow(u) \/ CloseWindow(u)
      PROVE  MarkInv'
  <2>1. CASE OpenWindow(u)
    <3>1. state' = state /\ marked' = [marked EXCEPT ![u] = @ \ OncePerPid] /\ pid' = [pid EXCEPT ![u] = pids + 1]
      BY <2>1 DEF OpenWindow, mem
    <3>2. \A v \in Users : v # u => marked'[v] = marked[v] /\ pid'[v] = pid[v]
      BY <3>1 DEF HistTypes, EnvTypes
    <3>3. \A r \in marked'[u] : r \in marked[u] /\ r \notin OncePerPid
      BY <3>1 DEF HistTypes
    <3> QED
      BY <3>1, <3>2, <3>3 DEF MarkInv
  <2>2. CASE CloseWindow(u)
    <3>1. UNCHANGED <<state, marked>> /\ pid' = [pid EXCEPT ![u] = 0]
      BY <2>2 DEF CloseWindow, mem, hist
    <3>2. \A v \in Users : pid'[v] = pid[v] \/ pid'[v] = 0
      BY <3>1 DEF EnvTypes
    <3> QED
      BY <3>1, <3>2 DEF MarkInv
  <2> QED
    BY <1>2, <2>1, <2>2
<1>3. CASE ResetStartupCounts
  <2>1. UNCHANGED pid /\ \A u \in Users : marked'[u] = marked[u] \ CountRows
    BY <1>3 DEF ResetStartupCounts, env
  <2>2. \A u \in Users, r \in Rows : /\ state'[u][r].setting = state[u][r].setting
                                     /\ state'[u][r].donePid = state[u][r].donePid
    BY <1>3, ResetTickFacts
  <2> QED
    BY <1>0, <2>1, <2>2 DEF MarkInv
<1>4. CASE Tick
  <2>1. UNCHANGED <<pid, marked>>
    BY <1>4 DEF Tick, env, hist
  <2>2. \A u \in Users, r \in Rows : /\ state'[u][r].setting = state[u][r].setting
                                     /\ state'[u][r].donePid = state[u][r].donePid
                                     /\ state'[u][r].done = state[u][r].done
    BY <1>4, ResetTickFacts
  <2> QED
    BY <1>0, <2>1, <2>2 DEF MarkInv
<1>5. ASSUME NEW u \in Users, NEW p \in 0 .. MaxPid, NEW rows \in SUBSET Rows, MarksRows(u, p, rows)
      PROVE  MarkInv'
  <2>1. UNCHANGED pid
    BY <1>5 DEF MarksRows
  <2>2. ASSUME NEW v \in Users, v # u, NEW r \in marked'[v]
        PROVE  r \in marked[v] /\ state'[v][r] = state[v][r]
    BY <1>0, <1>5, <2>2, MarksFacts
  <2>3. ASSUME NEW r \in marked'[u]
        PROVE  /\ state'[u][r].setting # NoSetting
               /\ r \in CountRows \/ (r \in OncePerPid /\ (pid[u] # 0 => state'[u][r].donePid = pid[u]))
               /\ r \in CountRows => state'[u][r].done
    <3>1. r \in MarkedBy(u, p, rows) /\ r \in Rows
      BY <1>0, <1>5, <2>3, MarksFacts DEF MarkedBy
    <3>2. CASE r \in rows
      <4>1. /\ state'[u][r].setting = state[u][r].setting
            /\ state'[u][r].done = (state[u][r].done \/ r \in CountRows)
            /\ state'[u][r].donePid = IF r \in OncePerPid THEN p ELSE state[u][r].donePid
        BY <1>5, <3>1, <3>2, MarksFacts
      <4>2. /\ state[u][r].setting # NoSetting
            /\ r \in CountRows \/ (r \in OncePerPid /\ p = pid[u])
        BY <3>1, <3>2 DEF MarkedBy, MarkInv
      <4> QED
        BY <4>1, <4>2
    <3>3. CASE r \notin rows
      <4>1. r \in marked[u] /\ state'[u][r] = state[u][r]
        BY <1>5, <3>1, <3>3, MarksFacts DEF MarkedBy
      <4> QED
        BY <4>1 DEF MarkInv
    <3> QED
      BY <3>2, <3>3
  <2> QED
    BY <2>1, <2>2, <2>3 DEF MarkInv
<1>6. CASE EvaluateRules
  <2> DEFINE u == eng.u
             p == eng.pid
             rules == eng.due
  <2>0. u \in Users /\ p \in 0 .. MaxPid /\ rules \in SUBSET Rows
    BY MarksTypes
  <2>1. UNCHANGED pid
    BY <1>6 DEF EvaluateRules, env
  <2>2. marked' = [marked EXCEPT ![u] = StillMarked(u, p, rules)]
    BY <1>6 DEF EvaluateRules
  <2>3. \A v \in Users : v # u => state'[v] = state[v] /\ marked'[v] = marked[v]
    <3>1. \A v \in Users : v # u => state'[v] = state[v]
      BY <1>6 DEF EvaluateRules, MemTypes
    <3> QED
      BY <2>2, <3>1 DEF HistTypes
  <2>4. marked'[u] = StillMarked(u, p, rules)
    BY <2>0, <2>2 DEF HistTypes
  <2>5. ASSUME NEW r \in marked'[u]
        PROVE  /\ state'[u][r].setting # NoSetting
               /\ r \in CountRows \/ (r \in OncePerPid /\ (pid[u] # 0 => state'[u][r].donePid = pid[u]))
               /\ r \in CountRows => state'[u][r].done
    <3>0. /\ r \in Rows /\ r \in marked[u] /\ r \in rules /\ ~TakesOver(u, r)
          /\ r \in OncePerPid => p = pid[u]
      BY <1>0, <2>0, <2>4 DEF StillMarked
    <3>1. /\ state[u][r].setting # NoSetting
          /\ r \in CountRows \/ (r \in OncePerPid /\ (pid[u] # 0 => state[u][r].donePid = pid[u]))
          /\ r \in CountRows => state[u][r].done
      BY <2>0, <3>0 DEF MarkInv
    <3>2. state[u][r].setting = CycleSetting(r)
      BY <3>0, <3>1 DEF TakesOver
    <3> DEFINE c == Considered(u, p, rules, r)
    <3>3. /\ state'[u][r].setting = c.setting /\ state'[u][r].done = c.done
          /\ state'[u][r].donePid = c.donePid
      BY <1>6, <3>0, EvaluateFacts
    <3>4. /\ c.setting = state[u][r].setting /\ c.done = state[u][r].done
          /\ state[u][r].donePid = p => c.donePid = p
      BY <1>6, <3>0, <3>2, EvaluateFacts
    <3> HIDE DEF c
    <3> QED
      BY <3>0, <3>1, <3>3, <3>4
  <2> QED
    BY <2>0, <2>1, <2>3, <2>5 DEF MarkInv
<1> QED
  BY <1>1, <1>2, <1>3, <1>4, <1>5, <1>6, MemorySteps, MarksTypes

Picked == {"pause", "hook", "lock", "batch"}

\* Except by an evaluation the engine gets no row to play.
LEMMA DueStays ==
  ASSUME ActionInv, ActionsNext, ~EvaluateRules, eng'.pc \in Picked
  PROVE  /\ eng.pc \in Picked /\ eng'.u = eng.u /\ eng'.pid = eng.pid
         /\ eng'.due \cup eng'.rows \subseteq eng.due \cup eng.rows
<1> USE DEF ActionInv
<1>0. NextUser.pc \notin Picked /\ [NextUser EXCEPT !.todo = {}].pc \notin Picked
  BY NextUserFacts DEF Picked
<1>1. Surroundings \/ Tester => eng' = eng
  BY DEF Surroundings, OpenWindow, CloseWindow, LeaveMenu, EnterMenu, RecordTrigger, EditRow, SwitchOff,
         SwitchOn, ResetStartupCounts, Tick, Tester, TestLocks, TestOnce, work
<1>2. ASSUME Batch
      PROVE  eng' = eng
  <2>1. StartRow \/ PlayInput \/ KillStep \/ KillReturns \/ CallRow => eng' = eng
    BY DEF StartRow, PlayInput, KillStep, KillReturns, CallRow
  <2>2. Abort => eng' = eng
    <3>1. Abort => eng' = eng \/ eng' = NextUser
      BY DEF Abort, UnlockActions
    <3> QED
      BY <1>0, <3>1
  <2>3. FinishBatch => eng' = eng
    <3>1. FinishBatch => eng' = eng \/ eng' = [eng EXCEPT !.pc = "mark", !.due = @ \cap batch.used]
      BY DEF FinishBatch, UnlockActions
    <3>2. [eng EXCEPT !.pc = "mark", !.due = @ \cap batch.used].pc = "mark"
      BY DEF WorkTypes, Engines
    <3> QED
      BY <3>1, <3>2 DEF Picked
  <2> QED
    BY <1>2, <2>1, <2>2, <2>3 DEF Batch
<1>3. ~(EndCycle \/ Mark \/ RefusePause \/ NoRules)
  BY EngineLeaves DEF Picked
<1>4. ~(Top \/ (\E u \in Users : PassUser(u)) \/ (\E u \in Users : VisitUser(u)))
  BY DEF Top, PassUser, VisitUser, WorkTypes, Engines, Picked
<1>5. ~ReadMenu
  <2>1. ReadMenu => eng' = NextUser \/ eng'.pc = "gates"
    BY DEF ReadMenu, WorkTypes, Engines
  <2> QED
    BY <1>0, <2>1 DEF Picked
<1>6. ASSUME ReadGate
      PROVE  /\ eng.pc \in Picked /\ eng'.u = eng.u /\ eng'.pid = eng.pid
             /\ eng'.due \cup eng'.rows \subseteq eng.due \cup eng.rows
  <2>1. PICK r \in eng.rows : r = CHOOSE x \in eng.rows : \A y \in eng.rows : x <= y
    BY <1>6, FirstRow DEF ReadGate, WorkTypes, Engines
  <2>2. /\ eng'.pc = eng.pc /\ eng'.u = eng.u /\ eng'.pid = eng.pid
        /\ eng'.rows \subseteq eng.rows /\ eng'.due \subseteq eng.due \cup {r}
    BY <1>6, <2>1 DEF ReadGate, WorkTypes, Engines
  <2> QED
    BY <2>2
<1>7. PauseAntiAfk \/ EngineLocks =>
        /\ eng.pc \in Picked /\ eng'.u = eng.u /\ eng'.pid = eng.pid
        /\ eng'.due \cup eng'.rows \subseteq eng.due \cup eng.rows
  BY DEF PauseAntiAfk, EngineLocks, WorkTypes, Engines, Picked
<1>8. ASSUME Regate
      PROVE  /\ eng.pc \in Picked /\ eng'.u = eng.u /\ eng'.pid = eng.pid
             /\ eng'.due \cup eng'.rows \subseteq eng.due \cup eng.rows
  <2>1. eng.pc = "hook" /\ eng' = [eng EXCEPT !.pc = "lock"]
    BY <1>0, <1>8 DEF Regate
  <2> QED
    BY <2>1 DEF WorkTypes, Engines, Picked
<1> QED
  BY <1>1, <1>2, <1>3, <1>4, <1>5, <1>6, <1>7, <1>8 DEF ActionsNext, Engine

LEMMA DueStep ==
  ASSUME ActionInv, ActionsNext, MarkInv, DueInv
  PROVE  DueInv'
<1> USE DEF ActionInv
<1>1. CASE EvaluateRules
  <2> DEFINE u == eng.u
             p == eng.pid
             rules == eng.due
  <2>0. UNCHANGED pid /\ eng.pc = "gates" /\ p # 0 /\ eng.rows = {} /\ u \in Users
    BY <1>1, MarksTypes DEF EvaluateRules, env, LockInv, Visited
  <2>1. PICK due : due = Due(u, p, rules)
    OBVIOUS
  <2>2. eng' = IF due = {} THEN NextUser ELSE [eng EXCEPT !.pc = "pause", !.due = due]
    BY <1>1, <2>1 DEF EvaluateRules
  <2>3. CASE due = {}
    <3>1. eng'.pc = "users"
      BY <2>2, <2>3, NextUserFacts
    <3> QED
      BY <3>1 DEF DueInv
  <2>4. CASE due # {}
    <3>1. eng'.u = u /\ eng'.pid = p /\ eng'.due = due /\ eng'.rows = {}
      BY <2>0, <2>2, <2>4 DEF WorkTypes, Engines
    <3>2. ASSUME NEW r \in due, r \in CountRows \/ p = pid[u]
          PROVE  r \notin marked'[u]
      <4>1. r \in Rows /\ Playable(Considered(u, p, rules, r), r, p)
        BY <2>1, MarksTypes DEF Due, IsDue
      <4>2. /\ state'[u][r].done = Considered(u, p, rules, r).done
            /\ state'[u][r].donePid = Considered(u, p, rules, r).donePid
        BY <1>1, <4>1, EvaluateFacts
      <4>3. MarkInv'
        BY MarkStep
      <4>4. r \in CountRows => r \notin OncePerPid
        BY Constants
      <4> HIDE DEF rules, p, u
      <4> QED
        BY <2>0, <3>2, <4>1, <4>2, <4>3, <4>4 DEF MarkInv, Playable
    <3> QED
      BY <2>0, <3>1, <3>2 DEF DueInv
  <2> QED
    BY <2>3, <2>4
<1>2. CASE ~EvaluateRules
  <2> SUFFICES ASSUME eng'.pc \in Picked, NEW r \in eng'.due \cup eng'.rows, r \in CountRows \/ eng'.pid = pid'[eng'.u]
               PROVE  r \notin marked'[eng'.u]
    BY DEF DueInv, Picked
  <2>0. eng.pc \in Picked /\ eng'.u = eng.u /\ eng'.pid = eng.pid /\ r \in eng.due \cup eng.rows /\ eng.u \in Users
    BY <1>2, DueStays, MarksTypes
  <2>a. eng.pid # 0 /\ r # Callee /\ eng.pid <= pids /\ eng.pid \in Nat /\ pids \in Nat
    BY <2>0, MarksTypes DEF LockInv, Picked, Visited, Chosen, PastPids, EnvTypes
  <2>1. CASE UNCHANGED <<pid, fired, state, marked>>
    BY <2>0, <2>1 DEF DueInv, Picked
  <2>2. ASSUME NEW u \in Users, OpenWindow(u)
        PROVE  r \notin marked'[eng'.u]
    <3>1. pid' = [pid EXCEPT ![u] = pids + 1] /\ marked' = [marked EXCEPT ![u] = @ \ OncePerPid]
      BY <2>2 DEF OpenWindow
    <3>2. marked'[eng.u] \subseteq marked[eng.u]
      BY <2>0, <3>1 DEF HistTypes
    <3>3. pid'[eng.u] = pid[eng.u] \/ pid'[eng.u] = pids + 1
      BY <2>0, <3>1 DEF EnvTypes
    <3>4. r \in CountRows \/ eng.pid = pid[eng.u]
      BY <2>0, <2>a, <3>3
    <3> QED
      BY <2>0, <3>2, <3>4 DEF DueInv, Picked
  <2>3. ASSUME NEW u \in Users, CloseWindow(u)
        PROVE  r \notin marked'[eng'.u]
    <3>1. pid' = [pid EXCEPT ![u] = 0] /\ marked' = marked
      BY <2>3 DEF CloseWindow, hist
    <3>2. pid'[eng.u] = pid[eng.u] \/ pid'[eng.u] = 0
      BY <2>0, <3>1 DEF EnvTypes
    <3>3. r \in CountRows \/ eng.pid = pid[eng.u]
      BY <2>0, <2>a, <3>2
    <3> QED
      BY <2>0, <3>1, <3>3 DEF DueInv, Picked
  <2>4. CASE ResetStartupCounts \/ Tick
    <3>1. UNCHANGED pid /\ marked'[eng.u] \subseteq marked[eng.u]
      BY <2>0, <2>4 DEF ResetStartupCounts, Tick, env, hist
    <3> QED
      BY <2>0, <3>1 DEF DueInv, Picked
  <2>5. CASE batch.inner = Callee /\ MarksRows(batch.u, batch.pid, {Callee})
    <3>1. UNCHANGED pid
      BY <2>5 DEF MarksRows
    <3>2. r \in marked'[eng.u] => r \in marked[eng.u]
      <4>1. CASE eng.u = batch.u
        <5>1. marked'[eng.u] = MarkedBy(batch.u, batch.pid, {Callee})
          BY <2>5, <4>1, MarksTypes, MarksFacts
        <5> QED
          BY <2>a, <4>1, <5>1 DEF MarkedBy
      <4>2. CASE eng.u # batch.u
        BY <2>0, <2>5, <4>2, MarksTypes, MarksFacts
      <4> QED
        BY <4>1, <4>2
    <3> QED
      BY <2>0, <3>1, <3>2 DEF DueInv, Picked
  <2>6. eng.pc # "mark"
    BY <2>0 DEF Picked
  <2> QED
    BY <1>2, <2>1, <2>2, <2>3, <2>4, <2>5, <2>6, MemorySteps
<1> QED
  BY <1>1, <1>2

RestInv == ActionInv /\ FiredInv /\ MarkInv /\ DueInv

LEMMA RestInvariance == ActionsSpec => []RestInv
<1>1. ActionsInit => RestInv
  <2> SUFFICES ASSUME ActionsInit PROVE RestInv
    OBVIOUS
  <2>1. FiredInv /\ MarkInv /\ DueInv
    BY Constants DEF ActionsInit, FiredInv, MarkInv, DueInv, AtTop, Blank
  <2> QED
    BY <2>1, ActionInit DEF RestInv
<1>2. RestInv /\ [ActionsNext]_actionVars => RestInv'
  <2>1. CASE RestInv /\ ActionsNext
    BY <2>1, ActionTypes, ActionLock, ActionPids, ActionSeqs, FiredStep, MarkStep, DueStep DEF ActionInv, RestInv
  <2>2. CASE RestInv /\ UNCHANGED actionVars
    <3>1. ActionInv' /\ UNCHANGED <<env, work, mem, hist>>
      BY <2>2, ActionStutters DEF actionVars, RestInv
    <3> QED
      BY <2>2, <3>1 DEF env, work, mem, hist, RestInv, FiredInv, MarkInv, DueInv
  <2> QED
    BY <2>1, <2>2
<1> QED
  BY <1>1, <1>2, PTL DEF ActionsSpec

\* A trigger event plays a row once: unless the row was forgotten since, the
\* engine picks it only for an event later than all it was picked for.
THEOREM EventsFireOnce == ActionsSpec => EventFiresOnce
<1>1. ASSUME RestInv, ActionsNext, Picks, NEW r \in eng'.due \cap EventRows
      PROVE  event[eng'.u].seq > fired[eng'.u][r]
  <2> USE <1>1 DEF RestInv, ActionInv
  <2>1. EvaluateRules
    <3>1. eng'.pc \in Picked /\ eng.pc \notin Picked
      BY DEF Picks, Picked
    <3> QED
      BY <3>1, DueStays
  <2> DEFINE u == eng.u
             p == eng.pid
             rules == eng.due
  <2>0. u \in Users /\ p \in 0 .. MaxPid /\ rules \in SUBSET Rows
    BY MarksTypes
  <2>2. eng'.u = u /\ eng'.due = Due(u, p, rules)
    <3>1. PICK due : due = Due(u, p, rules)
      OBVIOUS
    <3>2. eng' = NextUser \/ eng' = [eng EXCEPT !.pc = "pause", !.due = due]
      BY <2>1, <3>1 DEF EvaluateRules
    <3> QED
      BY <3>1, <3>2, NextUserFacts DEF Picks, WorkTypes, Engines
  <2>3. r \in Rows /\ r \in EventRows /\ r \in rules /\ Latest(u, p, r) > Considered(u, p, rules, r).consumed
    BY <2>2, Constants DEF Due, IsDue
  <2>4. Considered(u, p, rules, r).consumed >= state[u][r].consumed
    BY <2>1, <2>3, EvaluateFacts
  <2>5. fired[u][r] <= state[u][r].consumed
    BY <2>0, <2>3 DEF FiredInv
  <2>6. /\ Considered(u, p, rules, r).consumed \in Nat /\ Latest(u, p, r) \in {0, event[u].seq}
        /\ event[u].seq \in Nat /\ state[u][r].consumed \in Nat /\ fired[u][r] \in Nat
    <3>1. Considered(u, p, rules, r) \in Remembered /\ Latest(u, p, r) \in {0, event[u].seq}
      BY <2>0, <2>3, ConsideredType
    <3> QED
      BY <2>0, <2>3, <3>1 DEF Remembered, MemTypes, HistTypes, Events
  <2> HIDE DEF rules, u, p
  <2> QED
    BY <2>2, <2>3, <2>4, <2>5, <2>6
<1>2. RestInv /\ [ActionsNext]_actionVars =>
        [Picks => \A r \in eng'.due \cap EventRows : event[eng'.u].seq > fired[eng'.u][r]]_actionVars
  BY <1>1
<1> QED
  BY <1>2, RestInvariance, PTL DEF ActionsSpec, EventFiresOnce

\* Which step starts a row.
LEMMA StartsBy ==
  ASSUME ActionInv, ActionsNext, NEW r \in Rows
  PROVE  /\ EngineStarts(r) => StartRow
         /\ CallStarts(r) => CallRow /\ r = Callee
<1> USE DEF ActionInv
<1>0. r # 0 /\ NoBatch.row = 0 /\ NoBatch.inner = 0 /\ NoBatch.by = "none"
  BY Constants DEF NoBatch
<1>1. Surroundings \/ Engine \/ Tester => batch' = batch \/ (batch'.row = 0 /\ batch'.inner = 0)
  <2>1. Surroundings => batch' = batch
    BY DEF Surroundings, OpenWindow, CloseWindow, LeaveMenu, EnterMenu, RecordTrigger, EditRow, SwitchOff,
           SwitchOn, ResetStartupCounts, Tick, work
  <2>2. Engine => batch' = batch \/ (batch'.row = 0 /\ batch'.inner = 0)
    BY DEF Engine, Top, EndCycle, ReadMenu, ReadGate, NoRules, EvaluateRules, PauseAntiAfk, RefusePause,
           Regate, EngineLocks, Mark, PassUser, VisitUser, NoBatch
  <2>3. Tester => batch' = batch \/ (batch'.row = 0 /\ batch'.inner = 0)
    BY DEF Tester, TestLocks, TestOnce, NoBatch
  <2> QED
    BY <2>1, <2>2, <2>3
<1>2. Abort \/ FinishBatch => batch'.row = 0 /\ batch'.inner = 0
  BY <1>0 DEF Abort, FinishBatch, UnlockActions
<1>3. PlayInput \/ KillReturns => batch'.row = 0 /\ batch'.inner = 0
  BY DEF PlayInput, KillReturns, RowReturns, WorkTypes, Batches
<1>4. KillStep => batch'.row = batch.row /\ batch'.inner = batch.inner
  BY DEF KillStep, WorkTypes, Batches
<1>5. StartRow => batch'.inner = batch.inner
  BY DEF StartRow, WorkTypes, Batches
<1>6. CallRow => batch.row # 0 /\ batch'.inner \in {0, Callee}
  BY DEF CallRow, RowReturns, Playing, WorkTypes, Batches
<1> QED
  BY <1>0, <1>1, <1>2, <1>3, <1>4, <1>5, <1>6 DEF ActionsNext, Batch, EngineStarts, CallStarts

\* What is marked rests: neither the engine nor a calling row plays a row
\* again that is complete for the window or session and was not forgotten.
THEOREM CompletedRowsRest == ActionsSpec => CompletedRests
<1>1. ASSUME RestInv, ActionsNext, NEW r \in Rows, EngineStarts(r) \/ CallStarts(r),
             r \in CountRows \/ batch.pid = pid[batch.u]
      PROVE  r \notin marked[batch.u]
  <2> USE <1>1 DEF RestInv, ActionInv
  <2>1. CASE EngineStarts(r)
    <3>1. StartRow /\ batch.by = "engine"
      BY <2>1, StartsBy DEF EngineStarts
    <3>2. PICK s \in Seq(Rows) : s = batch.rest /\ s # <<>>
      BY <3>1 DEF StartRow, WorkTypes, Batches
    <3>3. r = s[1] /\ 1 \in 1 .. Len(s)
      BY <2>1, <3>1, <3>2 DEF StartRow, EngineStarts, WorkTypes, Batches
    <3>4. r \in eng.due /\ eng.pc = "batch" /\ batch.u = eng.u /\ batch.pid = eng.pid
      BY <3>1, <3>2, <3>3 DEF LockInv
    <3> QED
      BY <3>4 DEF DueInv
  <2>2. CASE CallStarts(r)
    <3>1. CallRow /\ r = Callee
      BY <2>2, StartsBy
    <3>2. batch'.inner # 0
      BY <2>2, Constants DEF CallStarts
    <3>3. Playable(state[batch.u][Callee], Callee, batch.pid)
      BY <3>1, <3>2 DEF CallRow, RowReturns, WorkTypes, Batches
    <3>4. batch.pid # 0 /\ batch.u \in Users
      BY <3>1 DEF CallRow, Playing, LockInv, WorkTypes, Batches
    <3>5. CountRows \cap OncePerPid = {}
      BY Constants
    <3> QED
      BY <3>1, <3>3, <3>4, <3>5 DEF MarkInv, Playable
  <2> QED
    BY <2>1, <2>2
<1>2. RestInv /\ [ActionsNext]_actionVars =>
        [\A r \in Rows : /\ EngineStarts(r) \/ CallStarts(r)
                         /\ r \in CountRows \/ batch.pid = pid[batch.u]
                         => r \notin marked[batch.u]]_actionVars
  BY <1>1
<1> QED
  BY <1>2, RestInvariance, PTL DEF ActionsSpec, CompletedRests

\* The rows of a test batch are the rows of the test.
TestRowsInv ==
  batch.by = "test" => /\ \A i \in 1 .. Len(batch.rest) : batch.rest[i] \in Range(TestRows)
                       /\ batch.row = 0 \/ batch.row \in Range(TestRows)

\* Only the engine kills.
LEMMA EngineKills ==
  ASSUME ActionInv, TestsDoNotKill, TestRowsInv
  PROVE  /\ batch.row # 0 /\ Current \in KillRows => batch.by # "test"
         /\ batch.asked => batch.by = "engine" /\ batch.row # 0 /\ Current \in KillRows
<1> USE DEF ActionInv
<1>1. batch.row # 0 /\ Current \in KillRows => batch.by # "test"
  <2> SUFFICES ASSUME batch.row # 0, batch.by = "test" PROVE Current \notin KillRows
    OBVIOUS
  <2>1. batch.row \in Range(TestRows)
    BY DEF TestRowsInv
  <2> QED
    BY <2>1 DEF TestsDoNotKill, LockInv, Current
<1>2. batch.asked => batch.row # 0 /\ Current \in KillRows /\ batch.by # "none"
  BY DEF LockInv, NoBatch
<1> QED
  BY <1>1, <1>2 DEF WorkTypes, Batches

LEMMA TestRowsStep ==
  ASSUME ActionInv, ActionsNext, TestRowsInv
  PROVE  TestRowsInv'
<1> USE DEF ActionInv
<1>0. PICK b \in Batches : b = batch
  BY DEF WorkTypes
<1>1. CASE batch' = batch
  BY <1>1 DEF TestRowsInv
<1>2. CASE batch'.by # "test"
  BY <1>2 DEF TestRowsInv
<1>3. CASE TestLocks
  <2>1. batch'.rest = TestRows /\ batch'.row = 0
    BY <1>3 DEF TestLocks, NoBatch
  <2>2. PICK s \in Seq(Rows) : s = TestRows
    BY Constants
  <2>3. \A i \in 1 .. Len(s) : s[i] \in Range(s)
    BY DEF Range
  <2> QED
    BY <2>1, <2>2, <2>3 DEF TestRowsInv
<1>4. CASE PlayInput \/ KillReturns \/ CallRow \/ KillStep
  <2>1. /\ batch'.by = batch.by
        /\ \/ batch'.row = 0 /\ (batch'.rest = batch.rest \/ batch'.rest = <<>>)
           \/ batch'.row = batch.row /\ batch'.rest = batch.rest
    <3>1. ASSUME NEW g, RowReturns(g)
          PROVE  batch'.by = batch.by /\ batch'.row = 0 /\ (batch'.rest = batch.rest \/ batch'.rest = <<>>)
      BY <1>0, <3>1 DEF RowReturns, Batches
    <3>2. KillStep => batch'.by = batch.by /\ batch'.row = batch.row /\ batch'.rest = batch.rest
      BY <1>0 DEF KillStep, Batches
    <3>3. ASSUME batch' = [batch EXCEPT !.inner = Callee]
          PROVE  batch'.by = batch.by /\ batch'.row = batch.row /\ batch'.rest = batch.rest
      BY <1>0, <3>3 DEF Batches
    <3> QED
      BY <1>4, <3>1, <3>2, <3>3 DEF PlayInput, KillReturns, CallRow
  <2> QED
    BY <2>1 DEF TestRowsInv
<1>5. CASE StartRow
  <2>1. batch'.by = b.by /\ batch'.row = Head(b.rest) /\ batch'.rest = Tail(b.rest) /\ b.rest # <<>>
    BY <1>0, <1>5 DEF StartRow, Batches
  <2>2. PICK s \in Seq(Rows) : s = b.rest
    BY DEF Batches
  <2>3. Head(s) = s[1] /\ 1 \in 1 .. Len(s) /\ \A i \in 1 .. Len(Tail(s)) : i + 1 \in 1 .. Len(s) /\ Tail(s)[i] = s[i + 1]
    BY <2>1, <2>2
  <2>4. batch.by = "test" => \A i \in 1 .. Len(s) : s[i] \in Range(TestRows)
    BY <1>0, <2>2 DEF TestRowsInv
  <2> QED
    BY <1>0, <2>1, <2>2, <2>3, <2>4 DEF TestRowsInv
<1>6. Surroundings => batch' = batch
  BY DEF Surroundings, OpenWindow, CloseWindow, LeaveMenu, EnterMenu, RecordTrigger, EditRow, SwitchOff,
         SwitchOn, ResetStartupCounts, Tick, work
<1>7. Engine => batch' = batch \/ batch'.by = "engine"
  BY DEF Engine, Top, EndCycle, ReadMenu, ReadGate, NoRules, EvaluateRules, PauseAntiAfk, RefusePause,
         Regate, EngineLocks, Mark, PassUser, VisitUser, NoBatch
<1>8. Abort \/ FinishBatch => batch'.by = "none"
  BY DEF Abort, FinishBatch, UnlockActions, NoBatch
<1>9. (\E u \in Users : TestOnce(u)) => batch' = batch
  BY DEF TestOnce
<1> QED
  BY <1>1, <1>2, <1>3, <1>4, <1>5, <1>6, <1>7, <1>8, <1>9 DEF ActionsNext, Batch, Tester

\* Where the engine is with a user and has not had the lock yet.
Unlocked == {"menu", "gates", "pause", "hook", "lock"}

\* The engine does not hold rows for a process whose end was asked for.
HoldsInv ==
  /\ eng.pc \in Visited /\ pid[eng.u] \in killed => pid[eng.u] = eng.pid
  /\ eng.pc \in Unlocked => eng.pid \notin killed
  /\ batch.by = "engine" /\ batch.pid \in killed =>
       batch.asked \/ (batch.row = 0 /\ batch.rest = <<>>)

\* Steps under which both invariants stay: no process changes, none is killed
\* and no row is started for one that is.
LEMMA QuietStays ==
  ASSUME BlockInv, HoldsInv, UNCHANGED <<pid, killed, blocked>>, batch.asked => batch' = batch,
         \/ eng'.pc \notin Visited
         \/ /\ eng'.u = eng.u /\ eng'.pid = eng.pid /\ (eng'.pc \in Visited => eng.pc \in Visited)
            /\ eng'.pc \in Unlocked => eng.pc \in Unlocked,
         \/ batch' = batch
         \/ batch'.by # "engine"
         \/ batch'.pid \notin killed
  PROVE  BlockInv' /\ HoldsInv'
<1>1. Unlocked \subseteq Visited
  BY DEF Unlocked, Visited, Chosen
<1> QED
  BY <1>1 DEF BlockInv, HoldsInv

LEMMA SurroundingsQuiet ==
  ASSUME ActionInv, Surroundings, BlockInv, HoldsInv
  PROVE  BlockInv' /\ HoldsInv'
<1> USE DEF ActionInv
<1>1. ASSUME NEW u \in Users, OpenWindow(u) \/ CloseWindow(u)
      PROVE  BlockInv' /\ HoldsInv'
  <2>1. UNCHANGED <<eng, batch, blocked, killed>> /\ pid' \in {[pid EXCEPT ![u] = pids + 1], [pid EXCEPT ![u] = 0]}
    BY <1>1 DEF OpenWindow, CloseWindow, work, mem, hist
  <2>2. \A v \in Users : pid'[v] \in {pid[v], pids + 1, 0}
    BY <2>1 DEF EnvTypes
  <2>3. pids + 1 \notin killed /\ 0 \notin killed
    BY DEF PastPids, EnvTypes
  <2>4. \A v \in Users : pid'[v] \in killed => pid'[v] = pid[v]
    BY <2>2, <2>3
  <2>5. eng.u \in Users
    BY DEF WorkTypes, Engines
  <2> QED
    BY <2>1, <2>4, <2>5 DEF BlockInv, HoldsInv
<1>2. CASE UNCHANGED <<pid, killed, blocked, eng, batch>>
  BY <1>2 DEF BlockInv, HoldsInv
<1>3. \A u \in Users : LeaveMenu(u) \/ EnterMenu(u) \/ RecordTrigger(u) => UNCHANGED <<pid, killed, blocked, eng, batch>>
  BY DEF LeaveMenu, EnterMenu, RecordTrigger, env, work, mem, hist
<1>4. (\E r \in EditedRows : EditRow(r)) \/ SwitchOff \/ SwitchOn \/ ResetStartupCounts \/ Tick
         => UNCHANGED <<pid, killed, blocked, eng, batch>>
  BY DEF EditRow, SwitchOff, SwitchOn, ResetStartupCounts, Tick, env, work, mem, hist
<1> QED
  BY <1>1, <1>2, <1>3, <1>4 DEF Surroundings

LEMMA EngineQuiet ==
  ASSUME ActionInv, Engine, BlockInv, HoldsInv
  PROVE  BlockInv' /\ HoldsInv'
<1> USE DEF ActionInv
<1>1. CASE Top \/ EndCycle \/ ReadMenu \/ ReadGate \/ NoRules \/ EvaluateRules \/ PauseAntiAfk
              \/ RefusePause \/ Regate \/ Mark
  <2>1. UNCHANGED <<env, killed>>
    BY <1>1 DEF Top, EndCycle, ReadMenu, ReadGate, NoRules, EvaluateRules, PauseAntiAfk, RefusePause, Regate,
            Mark, hist
  <2>2. UNCHANGED <<blocked, batch>>
    BY <1>1 DEF Top, EndCycle, ReadMenu, ReadGate, NoRules, EvaluateRules, PauseAntiAfk, RefusePause, Regate,
            Mark, mem
  <2>3. ~\E u \in Users : VisitUser(u)
    <3>1. eng.pc # "users" \/ eng'.pc # "menu"
      BY <1>1 DEF Top, EndCycle, ReadMenu, ReadGate, NoRules, EvaluateRules, PauseAntiAfk, RefusePause, Regate,
                  Mark, AtTop, NextUser
    <3> QED
      BY <3>1 DEF VisitUser, WorkTypes, Engines
  <2>4. \/ eng'.pc \notin Visited
        \/ /\ eng'.u = eng.u /\ eng'.pid = eng.pid /\ (eng'.pc \in Visited => eng.pc \in Visited)
           /\ eng'.pc \in Unlocked => eng.pc \in Unlocked
    BY <2>3, EngineMoves DEF Visited, Chosen, Unlocked
  <2> QED
    BY <2>1, <2>2, <2>4, QuietStays DEF env
<1>3. CASE EngineLocks
  <2>1. UNCHANGED <<pid, killed, blocked>> /\ eng.pc = "lock" /\ batch.by = "none"
    BY <1>3 DEF EngineLocks, env, mem, hist
  <2>2. /\ eng'.u = eng.u /\ eng'.pid = eng.pid /\ eng'.pc = "batch" /\ batch'.pid = eng.pid
    BY <1>3 DEF EngineLocks, WorkTypes, Engines, NoBatch
  <2>3. eng.pid \notin killed /\ ~batch.asked
    BY <2>1 DEF HoldsInv, LockInv, NoBatch, Unlocked
  <2> QED
    BY <2>1, <2>2, <2>3, QuietStays DEF Visited, Chosen, Unlocked
<1>4. ASSUME NEW u \in Users, PassUser(u)
      PROVE  BlockInv' /\ HoldsInv'
  <2>1. UNCHANGED <<pid, killed, batch>> /\ eng.pc = "users" /\ blocked' = [blocked EXCEPT ![u] = IF @ = pid[u] THEN @ ELSE 0]
    BY <1>4 DEF PassUser, env, hist
  <2>2. eng'.pc = "users"
    BY <1>4, <2>1 DEF PassUser, WorkTypes, Engines
  <2>3. batch.by # "engine"
    BY <2>1 DEF LockInv
  <2>4. \A v \in Users : blocked[v] = pid[v] => blocked'[v] = blocked[v]
    BY <2>1 DEF MemTypes
  <2> QED
    BY <2>1, <2>2, <2>3, <2>4 DEF BlockInv, HoldsInv, Visited, Chosen, Unlocked
<1>5. ASSUME NEW u \in Users, VisitUser(u)
      PROVE  BlockInv' /\ HoldsInv'
  <2>1. UNCHANGED <<pid, killed, batch>> /\ eng.pc = "users" /\ blocked' = [blocked EXCEPT ![u] = 0] /\ blocked[u] # pid[u]
    BY <1>5 DEF VisitUser, env, hist
  <2>2. batch.by # "engine"
    BY <2>1 DEF LockInv
  <2>3. pid[u] \notin killed
    BY <2>1, <2>2 DEF BlockInv
  <2>4. BlockInv'
    <3>1. \A v \in Users : v # u => blocked'[v] = blocked[v]
      BY <2>1 DEF MemTypes
    <3> QED
      BY <2>1, <2>2, <2>3, <3>1 DEF BlockInv
  <2>5. eng'.pc = "menu" /\ eng'.u = u /\ eng'.pid = pid[u]
    BY <1>5 DEF VisitUser, WorkTypes, Engines
  <2> QED
    BY <2>1, <2>2, <2>3, <2>4, <2>5 DEF HoldsInv
<1> QED
  BY <1>1, <1>3, <1>4, <1>5 DEF Engine

LEMMA BatchQuiet ==
  ASSUME ActionInv, TestsDoNotKill, TestRowsInv, Batch, BlockInv, HoldsInv
  PROVE  BlockInv' /\ HoldsInv'
<1> USE DEF ActionInv
<1>0. PICK b \in Batches : b = batch
  BY DEF WorkTypes
<1>a. KillRows \cap CallerRows = {}
  BY Constants
<1>1. CASE Abort \/ FinishBatch
  <2>1. UNCHANGED <<pid, killed, blocked>> /\ batch'.by = "none" /\ ~batch.asked
    BY <1>1, EngineKills DEF Abort, FinishBatch, UnlockActions, NoBatch, env, mem, hist
  <2>2. CASE batch.by = "engine"
    <3>1. eng.pc = "batch" /\ "batch" \in Visited
      BY <2>2 DEF LockInv, Visited, Chosen
    <3>2. Abort => eng'.pc \notin Visited
      BY <2>2, NextUserFacts DEF Abort, UnlockActions, Visited, Chosen
    <3>3. FinishBatch => eng'.u = eng.u /\ eng'.pid = eng.pid /\ eng'.pc = "mark"
      BY <2>2 DEF FinishBatch, UnlockActions, WorkTypes, Engines
    <3>4. "mark" \notin Unlocked
      BY DEF Unlocked
    <3> QED
      BY <1>1, <2>1, <3>1, <3>2, <3>3, <3>4, QuietStays
  <2>3. CASE batch.by # "engine"
    <3>1. eng' = eng
      BY <1>1, <2>3 DEF Abort, FinishBatch, UnlockActions
    <3> QED
      BY <2>1, <3>1, QuietStays
  <2> QED
    BY <2>2, <2>3
<1>2. CASE StartRow \/ PlayInput \/ CallRow
  <2>1. UNCHANGED <<pid, killed, blocked, eng>>
    BY <1>2 DEF StartRow, PlayInput, CallRow, env, mem, hist
  <2>2. batch'.by = batch.by /\ batch'.pid = batch.pid
    BY <1>0, <1>2 DEF StartRow, PlayInput, CallRow, RowReturns, Batches
  <2>3. ~batch.asked
    BY <1>2, <1>a, EngineKills DEF StartRow, PlayInput, CallRow
  <2>4. (batch.row = 0 /\ batch.rest # <<>>) \/ batch.row # 0
    BY <1>2 DEF StartRow, PlayInput, CallRow, Playing
  <2>5. batch.by = "engine" => batch.pid \notin killed
    BY <2>3, <2>4 DEF HoldsInv
  <2> QED
    BY <2>1, <2>2, <2>3, <2>5, QuietStays
<1>3. CASE KillStep
  <2>1. UNCHANGED <<pid, blocked, eng>> /\ killed' = killed \cup {batch.pid} /\ batch.by = "engine" /\ ~batch.asked
    <3>1. batch.by # "none" /\ batch.row # 0 /\ Current \in KillRows
      BY <1>3 DEF KillStep, Playing
    <3> QED
      BY <1>0, <1>3, <3>1, EngineKills DEF KillStep, env, Batches
  <2>2. batch'.by = "engine" /\ batch'.pid = batch.pid /\ batch'.asked
    BY <1>0, <1>3, <2>1 DEF KillStep, Batches
  <2>3. eng.pc = "batch" /\ batch.pid = eng.pid
    BY <2>1 DEF LockInv
  <2> QED
    BY <2>1, <2>2, <2>3 DEF BlockInv, HoldsInv, Visited, Chosen, Unlocked
<1>4. CASE KillReturns
  <2>1. /\ UNCHANGED <<pid, killed, eng>> /\ batch.asked /\ RowReturns(gen[batch.u])
        /\ blocked' = [blocked EXCEPT ![batch.u] = batch.pid]
    BY <1>4 DEF KillReturns, env
  <2>2. batch.by = "engine"
    BY <2>1, EngineKills
  <2>3. eng.pc = "batch" /\ batch.pid = eng.pid /\ batch.u = eng.u /\ batch.token < gen[batch.u]
    BY <2>1, <2>2 DEF LockInv
  <2>4. gen[batch.u] # batch.token
    <3>1. gen[batch.u] \in Nat /\ batch.token \in Nat
      BY <1>0 DEF MemTypes, Batches
    <3> QED
      BY <2>3, <3>1
  <2>5. batch'.row = 0 /\ batch'.rest = <<>> /\ batch'.pid = batch.pid
    BY <1>0, <2>1, <2>4 DEF RowReturns, Batches
  <2>6. ASSUME NEW v \in Users, pid[v] \in killed
        PROVE  blocked'[v] = pid[v]
    <3>1. blocked'[v] = IF v = batch.u THEN batch.pid ELSE blocked[v]
      BY <1>0, <2>1 DEF MemTypes, Batches
    <3>2. v = batch.u => pid[v] = batch.pid
      BY <2>3, <2>6 DEF HoldsInv, Visited, Chosen
    <3>3. pid[v] = batch.pid => v = batch.u
      BY <2>3 DEF PastPids, Visited, Chosen
    <3> QED
      BY <2>6, <3>1, <3>2, <3>3 DEF BlockInv
  <2> QED
    BY <2>1, <2>3, <2>5, <2>6 DEF BlockInv, HoldsInv, Unlocked
<1> QED
  BY <1>1, <1>2, <1>3, <1>4 DEF Batch

LEMMA TesterQuiet ==
  ASSUME ActionInv, Tester, BlockInv, HoldsInv
  PROVE  BlockInv' /\ HoldsInv'
<1> USE DEF ActionInv
<1>1. CASE TestLocks
  <2>1. UNCHANGED <<pid, killed, blocked, eng>> /\ batch.by = "none" /\ batch'.by = "test"
    BY <1>1 DEF TestLocks, NoBatch, env, mem, hist
  <2>2. ~batch.asked
    BY <2>1 DEF LockInv, NoBatch
  <2> QED
    BY <2>1, <2>2, QuietStays
<1>2. ASSUME NEW u \in Users, TestOnce(u)
      PROVE  BlockInv' /\ HoldsInv'
  <2>1. UNCHANGED <<pid, killed, blocked, eng, batch>>
    BY <1>2 DEF TestOnce, env, mem, hist
  <2> QED
    BY <2>1, QuietStays
<1> QED
  BY <1>1, <1>2 DEF Tester

QuietInv == ActionInv /\ TestRowsInv /\ BlockInv /\ HoldsInv

LEMMA QuietInvariance ==
  ASSUME TestsDoNotKill
  PROVE  ActionsSpec => []QuietInv
<1>1. ActionsInit => QuietInv
  <2> SUFFICES ASSUME ActionsInit PROVE QuietInv
    OBVIOUS
  <2>1. TestRowsInv /\ BlockInv /\ HoldsInv
    BY DEF ActionsInit, TestRowsInv, BlockInv, HoldsInv, AtTop, NoBatch, Visited, Chosen, Unlocked
  <2> QED
    BY <2>1, ActionInit DEF QuietInv
<1>2. QuietInv /\ [ActionsNext]_actionVars => QuietInv'
  <2>1. CASE QuietInv /\ ActionsNext
    <3>1. BlockInv' /\ HoldsInv'
      BY <2>1, SurroundingsQuiet, EngineQuiet, BatchQuiet, TesterQuiet DEF ActionsNext, QuietInv
    <3> QED
      BY <2>1, <3>1, ActionTypes, ActionLock, ActionPids, ActionSeqs, TestRowsStep DEF ActionInv, QuietInv
  <2>2. CASE QuietInv /\ UNCHANGED actionVars
    <3>1. ActionInv' /\ UNCHANGED <<env, work, mem, hist>>
      BY <2>2, ActionStutters DEF actionVars, QuietInv
    <3> QED
      BY <2>2, <3>1 DEF env, work, mem, hist, QuietInv, TestRowsInv, BlockInv, HoldsInv
  <2> QED
    BY <2>1, <2>2
<1> QED
  BY <1>1, <1>2, PTL DEF ActionsSpec

\* No row of the engine starts on a process whose end it asked for, when no
\* test may ask for one.
THEOREM KilledStaysQuiet ==
  ASSUME TestsDoNotKill
  PROVE  ActionsSpec => KilledIsQuiet
<1>1. ASSUME QuietInv, ActionsNext, NEW r \in Rows, batch.by = "engine", EngineStarts(r) \/ CallStarts(r)
      PROVE  batch.pid \notin killed
  <2> USE <1>1 DEF QuietInv
  <2>1. StartRow \/ CallRow
    BY StartsBy
  <2>2. KillRows \cap CallerRows = {}
    BY Constants
  <2>3. ~batch.asked
    BY <2>1, <2>2, EngineKills DEF StartRow, CallRow
  <2>4. ~(batch.row = 0 /\ batch.rest = <<>>)
    BY <2>1 DEF StartRow, CallRow, Playing
  <2> QED
    BY <2>3, <2>4 DEF HoldsInv
<1>2. QuietInv /\ [ActionsNext]_actionVars =>
        [\A r \in Rows : /\ batch.by = "engine"
                         /\ EngineStarts(r) \/ CallStarts(r)
                         => batch.pid \notin killed]_actionVars
  BY <1>1
<1> QED
  BY <1>2, QuietInvariance, PTL DEF ActionsSpec, KilledIsQuiet
=============================================================================
