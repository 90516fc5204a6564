-------------------------- MODULE MultiScopeProcess --------------------------
(***************************************************************************)
(* The MultiScope engine in a child process (src/multiscope_process.py):   *)
(* the loop of _multiscope_worker_main, and MultiScopeProcessProxy, which  *)
(* the worker thread ("manager") and the window ("ui") call.               *)
(*                                                                         *)
(* The two processes are joined by two FIFO queues.  Every method of the   *)
(* proxy first drains the queue of answers, and two threads may do that at *)
(* once: a message is taken from the queue in one step and applied in      *)
(* another.  The window pauses the manager: it stops the worker thread,    *)
(* has the engine freeze and export its cursor, shuts the child down, and  *)
(* later resumes with a new child.                                         *)
(*                                                                         *)
(* Of the engine there is one log of numbered records, of which each makes *)
(* one event (LogTail has the rest), and the newest status it was told.    *)
(* Left out are the messages that only show something (log, snapshot,      *)
(* statistics, health), configuration, handoffs and service requests.      *)
(***************************************************************************)
EXTENDS Integers, Sequences, FiniteSets, SequencesExt, FiniteSetsExt

CONSTANTS
    MaxRecords,     \* bound: records written
    MaxStatus,      \* bound: statuses told apart
    MaxQueries,     \* bound: requests of the window to one child, apart from the pause
    MaxResumes,     \* bound: pauses
    MaxFaults,      \* bound: children that hang or crash, cycles of the child that fail
    MaxMessages,    \* messages between two polls of the engine (256)
    MaxCommands,    \* of these, commands executed (32)
    None

ASSUME ProcessAssumption ==
    /\ {MaxRecords, MaxStatus, MaxQueries, MaxResumes, MaxFaults} \subseteq Nat
    /\ {MaxMessages, MaxCommands} \subseteq Nat \ {0}

Threads == {"manager", "ui"}
Records == 1..MaxRecords

Cursors == Nat \union {None}

(* What the queues carry. *)
Commands ==
    [type : {"init", "shutdown"}] \union [type : {"update"}, resume : Cursors]
      \union [type : {"tick"}, status : Nat]
      \union [type : {"rpc"}, id : Nat, method : {"query", "export"}]

Replies == [type : {"rpc"}, id : Nat, pos : Cursors]

Answers ==
    [type : {"ready", "error"}] \union [type : {"events", "tick"}, events : SUBSET Nat]
      \union Replies

Engines ==
    [tracked : BOOLEAN, from : Nat, pos : Nat, made : SUBSET Nat, paused : BOOLEAN, status : Nat]

Proxies ==
    [ready : BOOLEAN, tickPending : BOOLEAN, next : Nat, events : SUBSET Nat, asked : Nat,
     pending : SUBSET Nat, replies : SUBSET Replies, closing : BOOLEAN, resume : Cursors]

ASSUME NoneIsNothing == None \notin Nat \union Engines \union Answers

VARIABLES
    log,        \* records written
    inbox,      \* _cmd_q
    outbox,     \* _out_q
    life,       \* the child: "running", "hung" or "dead"
    loop,       \* of the child: poll_due, messages_since_poll, commands_since_poll
    engine,     \* None before init
    proxy,      \* the proxy's state, under _state_lock
    pc,
    hand,       \* thread -> the message it took and has not applied, or None
    request,    \* the id of the window's request, or None
    expired,    \* ids whose deadline has passed
    saved,      \* the exported cursor, or None
    faults,
    resumes,
    newest,     \* the newest status the worker thread has made
    \* history
    delivered,  \* records whose event the worker thread has taken
    read,       \* records the engine has read
    twice,      \* records read twice
    skipped     \* records before the cursor of a cold start

childVars == <<life, loop, engine>>
queueVars == <<inbox, outbox>>
threadVars == <<pc, hand, request, expired>>
historyVars == <<delivered, read, twice, skipped>>
pauseVars == <<saved, resumes>>
vars == <<log, queueVars, childVars, proxy, threadVars, pauseVars, faults, newest, historyVars>>

Opened(resume) ==
    [ready |-> FALSE, tickPending |-> FALSE, next |-> 0, events |-> {}, asked |-> 0, pending |-> {},
     replies |-> {}, closing |-> FALSE, resume |-> resume]

Fresh == [due |-> TRUE, messages |-> 0, commands |-> 0]

Init ==
    /\ log = 0
    /\ inbox = <<[type |-> "init"]>> /\ outbox = <<>>
    /\ life = "running" /\ loop = Fresh /\ engine = None
    /\ proxy = Opened(None)
    /\ pc = [t \in Threads |-> IF t = "manager" THEN "update" ELSE "idle"]
    /\ hand = [t \in Threads |-> None]
    /\ request = None /\ expired = {} /\ saved = None
    /\ faults = 0 /\ resumes = 0 /\ newest = 0
    /\ delivered = {} /\ read = {} /\ twice = {} /\ skipped = {}

Write ==
    /\ log < MaxRecords
    /\ log' = log + 1
    /\ UNCHANGED <<queueVars, childVars, proxy, threadVars, pauseVars, faults, newest, historyVars>>

(***************************************************************************)
(* The child.                                                              *)
(***************************************************************************)
Send(msg) == outbox' = Append(outbox, msg)

Reading == engine # None /\ engine.tracked /\ ~engine.paused

(* _poll_engine: read something if there is something, up to k, and send the events, *)
(* unless a step after the read fails.                                              *)
PollEngine ==
    /\ life = "running" /\ loop.due
    /\ loop' = [Fresh EXCEPT !.due = FALSE]
    /\ IF Reading
       THEN \E k \in Min({engine.pos + 1, log})..log, fails \in BOOLEAN :
              LET new == (engine.pos + 1)..k
                  made == engine.made \union new
              IN /\ fails => faults < MaxFaults /\ made # {}
                 /\ faults' = IF fails THEN faults + 1 ELSE faults
                 /\ engine' = [engine EXCEPT !.pos = k, !.made = IF fails THEN made ELSE {}]
                 /\ IF fails \/ made = {} THEN UNCHANGED outbox
                    ELSE Send([type |-> "events", events |-> made])
                 /\ read' = read \union new
                 /\ twice' = twice \union (read \intersect new)
       ELSE UNCHANGED <<engine, outbox, faults, read, twice>>
    /\ UNCHANGED <<log, inbox, life, proxy, threadVars, pauseVars, newest,
                   delivered, skipped>>

QueueEmpty ==
    /\ life = "running" /\ ~loop.due
    /\ inbox = <<>>
    /\ loop' = [loop EXCEPT !.due = TRUE]
    /\ UNCHANGED <<log, queueVars, life, engine, proxy, threadVars, pauseVars, faults, newest,
                   historyVars>>

\* MUTANT of Due: the engine is polled when the queue is empty.
DueWhenEmpty(messages, commands) == FALSE

Due(messages, commands) == messages >= MaxMessages \/ commands >= MaxCommands

(* A message is taken; executed says whether it counts as a command. *)
Receive(types, executed) ==
    /\ life = "running" /\ ~loop.due
    /\ inbox # <<>> /\ Head(inbox).type \in types
    /\ inbox' = Tail(inbox)
    /\ LET messages == Min({loop.messages + 1, MaxMessages})
           commands == Min({loop.commands + (IF executed THEN 1 ELSE 0), MaxCommands})
       IN loop' = [due |-> Due(messages, commands), messages |-> messages, commands |-> commands]
    /\ UNCHANGED <<log, proxy, threadVars, pauseVars, newest, delivered, read, twice>>

Frozen == engine # None /\ engine.paused

(* After the pause snapshot only requests and the shutdown are heard. *)
Ignore ==
    /\ Frozen
    /\ Receive({"update", "tick"}, FALSE)
    /\ UNCHANGED <<outbox, life, engine, faults, skipped>>

Expired(msg) == msg.type = "rpc" /\ msg.id \in expired

DropExpired ==
    /\ Receive({"rpc"}, FALSE)
    /\ Expired(Head(inbox))
    /\ UNCHANGED <<outbox, life, engine, faults, skipped>>

HandleInit ==
    /\ Receive({"init"}, TRUE)
    /\ engine' = [tracked |-> FALSE, from |-> 0, pos |-> 0, made |-> {}, paused |-> FALSE, status |-> 0]
    /\ Send([type |-> "ready"])
    /\ UNCHANGED <<life, faults, skipped>>

(* _update_users: the first one attaches, at the saved cursor or at the end of the log. *)
Attached(e, resume) ==
    IF e.tracked THEN e
    ELSE LET pos == IF resume = None THEN log ELSE resume
         IN  [e EXCEPT !.tracked = TRUE, !.from = pos, !.pos = pos]

Skip(resume) ==
    skipped' = IF engine.tracked \/ resume # None THEN skipped ELSE skipped \union 1..log

HandleUpdate ==
    /\ ~Frozen
    /\ Receive({"update"}, TRUE)
    /\ engine' = Attached(engine, Head(inbox).resume)
    /\ Skip(Head(inbox).resume)
    /\ UNCHANGED <<outbox, life, faults>>

(* tick: the roster is reconciled, too, and the answer is always sent. *)
HandleTick ==
    /\ ~Frozen
    /\ Receive({"tick"}, TRUE)
    /\ engine' = [Attached(engine, None) EXCEPT !.status = Head(inbox).status, !.made = {}]
    /\ Skip(None)
    /\ Send([type |-> "tick", events |-> engine.made])
    /\ UNCHANGED <<life, faults>>

\* MUTANT of FailTick: the error does not say which command failed.
FailTickSilently ==
    /\ ~Frozen /\ faults < MaxFaults
    /\ Receive({"tick"}, TRUE)
    /\ engine' = [engine EXCEPT !.status = Head(inbox).status]
    /\ faults' = faults + 1
    /\ UNCHANGED <<outbox, life, skipped>>

(* ... by an error message, if the engine raises after it took the status. *)
FailTick ==
    /\ ~Frozen /\ faults < MaxFaults
    /\ Receive({"tick"}, TRUE)
    /\ engine' = [engine EXCEPT !.status = Head(inbox).status]
    /\ Send([type |-> "error"])
    /\ faults' = faults + 1
    /\ UNCHANGED <<life, skipped>>

HandleQuery ==
    /\ Receive({"rpc"}, TRUE)
    /\ ~Expired(Head(inbox)) /\ Head(inbox).method = "query"
    /\ Send([type |-> "rpc", id |-> Head(inbox).id, pos |-> None])
    /\ UNCHANGED <<life, engine, faults, skipped>>

\* MUTANT of HandleExport: the reader goes on after the snapshot.
HandleExportOnly ==
    /\ Receive({"rpc"}, TRUE)
    /\ ~Expired(Head(inbox)) /\ Head(inbox).method = "export"
    /\ Send([type |-> "rpc", id |-> Head(inbox).id,
             pos |-> IF engine.tracked THEN engine.pos ELSE None])
    /\ UNCHANGED <<life, engine, faults, skipped>>

(* export_state with _pause_reader: the snapshot is the final state of the reader. *)
HandleExport ==
    /\ Receive({"rpc"}, TRUE)
    /\ ~Expired(Head(inbox)) /\ Head(inbox).method = "export"
    /\ engine' = [engine EXCEPT !.paused = TRUE]
    /\ Send([type |-> "rpc", id |-> Head(inbox).id,
             pos |-> IF engine.tracked THEN engine.pos ELSE None])
    /\ UNCHANGED <<life, faults, skipped>>

HandleShutdown ==
    /\ Receive({"shutdown"}, TRUE)
    /\ life' = "dead"
    /\ UNCHANGED <<outbox, engine, faults, skipped>>

Child ==
    \/ PollEngine \/ QueueEmpty \/ Ignore \/ DropExpired \/ HandleInit \/ HandleUpdate
    \/ HandleTick \/ FailTick \/ HandleQuery \/ HandleExport \/ HandleShutdown

(* A read that never returns, or a child that fails to make its engine. *)
Hang ==
    /\ life = "running" /\ faults < MaxFaults
    /\ life' = "hung" /\ faults' = faults + 1
    /\ UNCHANGED <<log, queueVars, loop, engine, proxy, threadVars, pauseVars, newest, historyVars>>

(* What was not flushed yet is lost with it. *)
Crash ==
    /\ life = "running" /\ faults < MaxFaults
    /\ life' = "dead" /\ faults' = faults + 1
    /\ \E n \in 0..Len(outbox) : outbox' = SubSeq(outbox, 1, n)
    /\ UNCHANGED <<log, inbox, loop, engine, proxy, threadVars, pauseVars, newest, historyVars>>

(***************************************************************************)
(* The proxy: _drain_out_queue.                                            *)
(***************************************************************************)
Goto(t, place) == pc' = [pc EXCEPT ![t] = place]
Step(t, from, to) == pc[t] = from /\ Goto(t, to)
Draining(t) == pc[t] \in {"update", "drain", "ask", "wait", "join"}

Take(t) ==
    /\ Draining(t) /\ hand[t] = None
    /\ outbox # <<>>
    /\ hand' = [hand EXCEPT ![t] = Head(outbox)]
    /\ outbox' = Tail(outbox)
    /\ UNCHANGED <<log, inbox, childVars, proxy, pc, request, expired, pauseVars, faults, newest,
                   historyVars>>

\* MUTANT of Applied: of a heartbeat's answer only the rows are used.
AppliedRowsOnly(msg) ==
    CASE msg.type = "ready"  -> [proxy EXCEPT !.ready = TRUE]
      [] msg.type = "events" -> [proxy EXCEPT !.events = @ \union msg.events]
      [] msg.type \in {"tick", "error"} -> [proxy EXCEPT !.tickPending = FALSE]
      [] msg.type = "rpc"    -> [proxy EXCEPT !.replies = IF msg.id \in proxy.pending
                                                          THEN @ \union {msg} ELSE @]

(* What a message does; the late reply to a request that was given up is thrown away. *)
Applied(msg) ==
    CASE msg.type = "ready"  -> [proxy EXCEPT !.ready = TRUE]
      [] msg.type = "events" -> [proxy EXCEPT !.events = @ \union msg.events]
      [] msg.type = "tick"   -> [proxy EXCEPT !.tickPending = FALSE,
                                              !.events = @ \union msg.events]
      [] msg.type = "error"  -> [proxy EXCEPT !.tickPending = FALSE]
      [] msg.type = "rpc"    -> [proxy EXCEPT !.replies = IF msg.id \in proxy.pending
                                                          THEN @ \union {msg} ELSE @]

Apply(t) ==
    /\ hand[t] # None
    /\ proxy' = Applied(hand[t])
    /\ hand' = [hand EXCEPT ![t] = None]
    /\ UNCHANGED <<log, queueVars, childVars, pc, request, expired, pauseVars, faults, newest,
                   historyVars>>

(* _send_cmd, for everything but the shutdown. *)
Sendable == ~proxy.closing /\ life # "dead"

(* _flush_tick: the newest status is sent if no heartbeat is in flight. *)
Flushes == Sendable /\ proxy.next # 0 /\ proxy.ready /\ ~proxy.tickPending

FlushedProxy == IF Flushes THEN [proxy EXCEPT !.tickPending = TRUE, !.next = 0] ELSE proxy
FlushedInbox == IF Flushes THEN Append(inbox, [type |-> "tick", status |-> proxy.next]) ELSE inbox
Flush == proxy' = FlushedProxy /\ inbox' = FlushedInbox

(***************************************************************************)
(* The worker thread.  Its drain ends when the queue is empty.             *)
(***************************************************************************)
EndDrain ==
    /\ hand["manager"] = None /\ outbox = <<>>
    /\ \/ Step("manager", "update", "send")
       \/ Step("manager", "drain", "collect")
    /\ Flush
    /\ UNCHANGED <<log, outbox, childVars, hand, request, expired, pauseVars, faults, newest,
                   historyVars>>

(* update_users: the first one carries the state to resume from. *)
SendUpdate ==
    /\ Step("manager", "send", "idle")
    /\ IF Sendable
       THEN /\ inbox' = Append(inbox, [type |-> "update", resume |-> proxy.resume])
            /\ proxy' = [proxy EXCEPT !.resume = None]
       ELSE UNCHANGED <<inbox, proxy>>
    /\ UNCHANGED <<log, outbox, childVars, hand, request, expired, pauseVars, faults, newest,
                   historyVars>>

(* tick: this status or a new one is the next to send. *)
TickStatus ==
    /\ Step("manager", "idle", "drain")
    /\ pc["ui"] # "stopping"
    /\ \E n \in {newest, newest + 1} \intersect 1..MaxStatus :
         newest' = n /\ proxy' = [proxy EXCEPT !.next = n]
    /\ UNCHANGED <<log, queueVars, childVars, hand, request, expired, pauseVars, faults,
                   historyVars>>

(* drain_events *)
Collect ==
    /\ Step("manager", "collect", "idle")
    /\ delivered' = delivered \union proxy.events
    /\ proxy' = [proxy EXCEPT !.events = {}]
    /\ UNCHANGED <<log, queueVars, childVars, hand, request, expired, pauseVars, faults, newest,
                   read, twice, skipped>>

StopWorker ==
    /\ Step("manager", "idle", "stopped")
    /\ pc["ui"] = "stopping"
    /\ UNCHANGED <<log, queueVars, childVars, proxy, hand, request, expired, pauseVars, faults,
                   newest, historyVars>>

Manager ==
    \/ Take("manager") \/ Apply("manager") \/ EndDrain
    \/ SendUpdate \/ TickStatus \/ Collect \/ StopWorker

(***************************************************************************)
(* The window: requests, pause and resume.  While it waits it drains the   *)
(* queue again and again: the step that ends a wait may come after any     *)
(* drain, with the heartbeat that the drain flushes.                       *)
(***************************************************************************)
Query ==
    /\ proxy.asked < MaxQueries
    /\ Step("ui", "idle", "ask")
    /\ UNCHANGED <<log, queueVars, childVars, proxy, hand, request, expired, pauseVars, faults,
                   newest, historyVars>>

PauseManager ==
    /\ resumes < MaxResumes
    /\ Step("ui", "idle", "stopping")
    /\ UNCHANGED <<log, queueVars, childVars, proxy, hand, request, expired, pauseVars, faults,
                   newest, historyVars>>

(* The worker thread has ended: pause_and_export_state. *)
PauseExport ==
    /\ pc["manager"] = "stopped"
    /\ Step("ui", "stopping", "ask")
    /\ UNCHANGED <<log, queueVars, childVars, proxy, hand, request, expired, pauseVars, faults,
                   newest, historyVars>>

Pausing == pc["manager"] = "stopped"
Finish == Goto("ui", IF Pausing THEN "close" ELSE "idle")

(* _rpc: the request is registered and sent, if the child is ready. *)
Ask ==
    /\ Step("ui", "ask", "wait") /\ hand["ui"] = None
    /\ proxy.ready /\ Sendable
    /\ LET id == proxy.asked + 1
       IN /\ request' = id
          /\ proxy' = [FlushedProxy EXCEPT !.asked = id, !.pending = @ \union {id}]
          /\ inbox' = Append(FlushedInbox, [type |-> "rpc", id |-> id,
                                            method |-> IF Pausing THEN "export" ELSE "query"])
    /\ UNCHANGED <<log, outbox, childVars, hand, expired, pauseVars, faults, newest, historyVars>>

(* It is not: at once, or after the ten seconds that the pause waits (wait_ready). *)
AskFails ==
    /\ pc["ui"] = "ask" /\ hand["ui"] = None
    /\ ~(proxy.ready /\ Sendable)
    /\ Finish /\ Flush
    /\ UNCHANGED <<log, outbox, childVars, hand, request, expired, pauseVars, faults, newest,
                   historyVars>>

(* The deadline of the request passes. *)
Expire ==
    /\ request # None /\ request \notin expired
    /\ expired' = expired \union {request}
    /\ UNCHANGED <<log, queueVars, childVars, proxy, pc, hand, request, pauseVars, faults, newest,
                   historyVars>>

(* The reply is there ... *)
Replied ==
    /\ pc["ui"] = "wait" /\ hand["ui"] = None
    /\ \E m \in proxy.replies :
         /\ m.id = request
         /\ saved' = IF Pausing THEN m.pos ELSE saved
         /\ proxy' = [FlushedProxy EXCEPT !.pending = @ \ {request}, !.replies = @ \ {m}]
    /\ inbox' = FlushedInbox /\ request' = None
    /\ Finish
    /\ UNCHANGED <<log, outbox, childVars, hand, expired, faults, resumes, newest, historyVars>>

(* ... or the request is given up. *)
GiveUp ==
    /\ pc["ui"] = "wait" /\ hand["ui"] = None
    /\ request \in expired \/ life = "dead"
    /\ \A m \in proxy.replies : m.id # request
    /\ proxy' = [FlushedProxy EXCEPT !.pending = @ \ {request}]
    /\ inbox' = FlushedInbox /\ request' = None
    /\ Finish
    /\ UNCHANGED <<log, outbox, childVars, hand, expired, pauseVars, faults, newest, historyVars>>

(* The heartbeat that one of these drains flushes. *)
FlushWaiting ==
    /\ pc["ui"] \in {"ask", "wait"} /\ hand["ui"] = None
    /\ Flushes /\ Flush
    /\ UNCHANGED <<log, outbox, childVars, threadVars, pauseVars, faults, newest, historyVars>>

(* shutdown: ask the child to end, wait for 30 seconds, and terminate it. *)
Close ==
    /\ Step("ui", "close", "join")
    /\ proxy' = [proxy EXCEPT !.closing = TRUE]
    /\ inbox' = IF life = "dead" THEN inbox ELSE Append(inbox, [type |-> "shutdown"])
    /\ UNCHANGED <<log, outbox, childVars, hand, request, expired, pauseVars, faults, newest,
                   historyVars>>

\* MUTANT of Terminate: there is no deadline.
TerminateDead ==
    /\ Step("ui", "join", "closed") /\ hand["ui"] = None
    /\ life = "dead"
    /\ UNCHANGED <<log, queueVars, childVars, proxy, hand, request, expired, pauseVars, faults,
                   newest, historyVars>>

(* The child has ended, or the deadline has passed. *)
Terminate ==
    /\ Step("ui", "join", "closed") /\ hand["ui"] = None
    /\ life' = "dead"
    /\ UNCHANGED <<log, queueVars, loop, engine, proxy, hand, request, expired, pauseVars, faults,
                   newest, historyVars>>

(* A new worker thread with a new proxy and child. *)
ResumeManager ==
    /\ pc["ui"] = "closed"
    /\ resumes' = resumes + 1
    /\ proxy' = Opened(saved) /\ saved' = None
    /\ inbox' = <<[type |-> "init"]>> /\ outbox' = <<>>
    /\ life' = "running" /\ loop' = Fresh /\ engine' = None
    /\ pc' = [t \in Threads |-> IF t = "manager" THEN "update" ELSE "idle"]
    /\ expired' = {}
    /\ UNCHANGED <<log, hand, request, faults, newest, historyVars>>

(* What the window goes on with once it has begun. *)
Window ==
    \/ Take("ui") \/ Apply("ui") \/ PauseExport \/ Ask \/ AskFails \/ Expire \/ Replied
    \/ GiveUp \/ FlushWaiting \/ Close \/ Terminate

Next == Write \/ Child \/ Hang \/ Crash \/ Manager \/ Query \/ PauseManager \/ Window \/ ResumeManager

Spec == Init /\ [][Next]_vars

(* The child and both threads go on, and deadlines pass. *)
FairSpec == Spec /\ WF_vars(Child) /\ WF_vars(Manager) /\ WF_vars(Window)

(***************************************************************************)
(* Properties.                                                             *)
(***************************************************************************)
(* Types. *)
TypeOK ==
    /\ log \in 0..MaxRecords
    /\ inbox \in Seq(Commands) /\ outbox \in Seq(Answers)
    /\ life \in {"running", "hung", "dead"}
    /\ loop \in [due : BOOLEAN, messages : 0..MaxMessages, commands : 0..MaxCommands]
    /\ engine \in Engines \union {None} /\ proxy \in Proxies
    /\ pc \in [Threads -> {"update", "send", "idle", "drain", "collect", "stopped",
                           "stopping", "ask", "wait", "close", "join", "closed"}]
    /\ hand \in [Threads -> Answers \union {None}]
    /\ request \in Cursors /\ expired \subseteq Nat /\ saved \in Cursors
    /\ faults \in 0..MaxFaults /\ resumes \in 0..MaxResumes /\ newest \in 0..MaxStatus
    /\ delivered \subseteq Nat /\ read \subseteq Nat /\ twice \subseteq Nat /\ skipped \subseteq Nat

(* No record is read by two engines: the snapshot of a pause is the final state of the   *)
(* reader that made it, even if the request was given up meanwhile, and the first        *)
(* account update takes the new reader there before any heartbeat                        *)
(* (pause_and_export_state, update_users).                                               *)
ReadOnce == twice = {}

EventsOf(m) == IF m # None /\ m.type \in {"events", "tick"} THEN m.events ELSE {}

Places ==
    delivered \union proxy.events \union engine.made
      \union UNION {EventsOf(m) : m \in Range(outbox) \union Range(hand)}

(* While the child lives, the event of every record it read has reached the worker       *)
(* thread or is on its way: batches that fail after the read, heartbeats that take the   *)
(* events along, and two threads that drain at once lose none (_poll_engine).            *)
NothingLost ==
    engine # None /\ life # "dead" => (engine.from + 1)..engine.pos \subseteq Places

(* What the pause promises ("neither skips nor replays"): an event before the exported   *)
(* cursor was delivered.                                                                 *)
PauseDelivers ==
    pc["ui"] = "closed" /\ saved # None => 1..saved \subseteq delivered \union skipped

Over == life # "running" \/ Frozen \/ proxy.closing \/ pc["manager"] = "stopped"

(* The newest status reaches the engine (tick: "a delayed reader must not accumulate old *)
(* rosters", and the reply to one heartbeat releases the next).                          *)
StatusArrives ==
    proxy.next = MaxStatus ~> Over \/ (engine # None /\ engine.status = MaxStatus)

(* A record that is written is read and its event delivered, unless it lies before the   *)
(* cursor at which a reader starts: no stream of commands or of expired requests keeps   *)
(* the engine from its polls (the bounds on messages and commands between two polls).    *)
RecordsArrive ==
    \A r \in Records :
        log >= r ~> Over \/ r \in delivered \/ (engine # None /\ r <= engine.from)

(* A pause that has begun comes to its end, although the child may hang, crash or never  *)
(* become ready (shutdown).                                                              *)
PauseEnds == pc["ui"] = "stopping" ~> pc["ui"] = "closed"
=============================================================================
