-------------------------- MODULE MultiScope_proofs --------------------------
(***************************************************************************)
(* Proofs about the MultiScope engine.                                     *)
(*                                                                         *)
(* MultiScopeProcess, the engine in its child process: no record is read   *)
(* by two engines, and while the child lives no event of a record it read  *)
(* is lost, for any numbers of records, statuses, requests, pauses and     *)
(* faults.  The argument is about cursors.  A cursor fits if it is behind  *)
(* no record that was read.  Those that fit are that of the engine, those  *)
(* in the answers and in the saved state (because the engine that gave     *)
(* them is frozen), and, until the next reader is attached, those in the   *)
(* proxy and in the account updates on their way: a poll reads behind the  *)
(* engine's cursor, and so nothing twice.                                  *)
(*                                                                         *)
(* LogTail, the log reader: no record before a cursor is skipped, for any  *)
(* numbers of accounts, logs, records, mishaps and read caps.  A record is *)
(* settled once it was dispatched, is in the hands of a tail job, or was   *)
(* passed over by a cold start.  Everything behind a cursor is settled as  *)
(* long as the log holds what was read; and a log that lost it is shorter  *)
(* than the cursor, so that the reader notices before it reads on.         *)
(*                                                                         *)
(* And a record is dispatched once to an account, if logs only grow.  What *)
(* was taken of the log that an account reads is behind its cursor, and of *)
(* newer logs of the account nothing was taken.  An account without a      *)
(* cursor has a newest log that was read for it, which will not be read    *)
(* again from its start; a lookup finds that log or a newer one, because   *)
(* older logs of the account lie idle and only pins of other accounts      *)
(* could keep them in the index.                                           *)
(***************************************************************************)
EXTENDS MultiScopeProcess, LogTail, FiniteSetTheorems, NaturalsInduction, WellFoundedInduction,
        TLAPS


-----------------------------------------------------------------------------
(* The invariant *)

\* The child makes its engine from the first message, and from no other.
InitIsFirst ==
    /\ engine = None <=> inbox # <<>> /\ inbox[1].type = "init"
    /\ \A i \in DOMAIN inbox : i > 1 => inbox[i].type # "init"

\* A thread has a message in hand only while it drains; the window closes the proxy of a
\* worker thread that has ended.
HandsAreDraining ==
    /\ \A t \in Threads : hand[t] # None => Draining(t)
    /\ pc["ui"] \in {"close", "join", "closed"} => pc["manager"] = "stopped"

\* A cursor that is behind no record that was read.
Covers(p) == p \in Nat /\ p <= log /\ \A r \in read : r <= p

Tracked == engine # None /\ engine.tracked

\* The engine has read nothing beyond its cursor, and nobody beyond the end of the log.
EngineFits == Covers(log) /\ (Tracked => Covers(engine.pos))

\* A cursor in a reply is that of a reader that has stopped.
ReplyFits(m) == m # None /\ m.type = "rpc" /\ m.pos # None => Frozen /\ Covers(m.pos)

RepliesFit ==
    /\ \A i \in DOMAIN outbox : ReplyFits(outbox[i])
    /\ \A t \in Threads : ReplyFits(hand[t])
    /\ \A m \in proxy.replies : ReplyFits(m)
    /\ saved # None => Frozen /\ Covers(saved)

\* Until the reader is attached, the cursor it resumes from is behind nothing that was read.
UpdateFits(m) == m.type = "update" /\ m.resume # None => Covers(m.resume)

ResumeFits ==
    ~Tracked =>
        /\ proxy.resume # None => Covers(proxy.resume)
        /\ \A i \in DOMAIN inbox : UpdateFits(inbox[i])

ReadInv == EngineFits /\ RepliesFit /\ ResumeFits /\ twice = {}

IInv == TypeOK /\ InitIsFirst /\ HandsAreDraining /\ ReadInv /\ NothingLost

\* A pause has begun, and is not the last one allowed.
PausesCounted ==
    pc["ui"] = "stopping" \/ pc["manager"] = "stopped" => resumes < MaxResumes

-----------------------------------------------------------------------------
(* Numbers *)

\* The numbers among the constants.
LEMMA Numbers ==
  /\ MaxRecords \in Nat /\ MaxStatus \in Nat /\ MaxQueries \in Nat /\ MaxResumes \in Nat
  /\ MaxFaults \in Nat /\ MaxMessages \in Nat \ {0} /\ MaxCommands \in Nat \ {0}
BY ProcessAssumption

LEMMA OneMoreFault ==
  ASSUME faults \in 0..MaxFaults, faults < MaxFaults, faults' = faults + 1
  PROVE  faults' \in 0..MaxFaults
BY Numbers

\* The smaller of two numbers.
LEMMA SmallerOf ==
  ASSUME NEW a \in Nat, NEW b \in Nat
  PROVE  Min({a, b}) \in Nat /\ Min({a, b}) <= a /\ Min({a, b}) <= b /\ Min({a, b}) \in {a, b}
<1>1. PICK m \in {a, b} : m <= a /\ m <= b
  OBVIOUS
<1>2. \E x \in {a, b} : \A y \in {a, b} : x <= y
  BY <1>1
<1>3. Min({a, b}) \in {a, b} /\ \A y \in {a, b} : Min({a, b}) <= y
  BY <1>2 DEF Min
<1> QED
  BY <1>3

-----------------------------------------------------------------------------
(* The queues *)

\* A queue of commands after a thread of the manager has put something on it.
Grown(q) ==
    /\ q \in Seq(Commands) /\ Len(q) >= Len(inbox)
    /\ \A i \in 1..Len(inbox) : q[i] = inbox[i]
    /\ \A i \in 1..Len(q) : i > Len(inbox) =>
          /\ q[i].type # "init"
          /\ q[i].type = "update" => q[i].resume = proxy.resume

\* If nothing is put, too.
LEMMA NothingPut ==
  ASSUME TypeOK
  PROVE  Grown(inbox)
BY DEF TypeOK, Grown

\* ... and if one command more is put.
LEMMA OnePut ==
  ASSUME TypeOK, NEW q, Grown(q), NEW m \in Commands, m.type # "init",
         m.type = "update" => m.resume = proxy.resume
  PROVE  Grown(Append(q, m))
<1>1. q \in Seq(Commands) /\ inbox \in Seq(Commands)
  BY DEF TypeOK, Grown
<1>0. Append(q, m) \in Seq(Commands)
  BY <1>1
<1>2. PICK p \in Seq(Commands) : p = Append(q, m)
  BY <1>0
<1>3. Len(p) = Len(q) + 1 /\ (\A i \in 1..Len(q) : p[i] = q[i]) /\ p[Len(q) + 1] = m
  BY <1>1, <1>2
<1>4. Len(q) \in Nat /\ Len(inbox) \in Nat /\ Len(q) >= Len(inbox)
  BY <1>1 DEF Grown
<1>5. \A i \in 1..Len(inbox) : p[i] = inbox[i]
  BY <1>3, <1>4 DEF Grown
<1>6. ASSUME NEW i \in 1..Len(p), i > Len(inbox)
      PROVE  p[i].type # "init" /\ (p[i].type = "update" => p[i].resume = proxy.resume)
  <2>1. CASE i = Len(q) + 1
    BY <1>3, <2>1
  <2>2. CASE i # Len(q) + 1
    <3>1. i \in 1..Len(q) /\ p[i] = q[i]
      BY <1>3, <1>4, <2>2
    <3> QED
      BY <1>6, <3>1 DEF Grown
  <2> QED
    BY <2>1, <2>2
<1>7. Grown(p)
  BY <1>3, <1>4, <1>5, <1>6 DEF Grown
<1> QED
  BY <1>2, <1>7

\* A drain may flush the next heartbeat, and does nothing else.
LEMMA FlushEffect ==
  ASSUME TypeOK
  PROVE  /\ FlushedProxy \in Proxies /\ FlushedProxy.events = proxy.events
         /\ FlushedProxy.replies = proxy.replies /\ FlushedProxy.resume = proxy.resume
         /\ FlushedProxy.pending = proxy.pending /\ FlushedProxy.asked = proxy.asked
         /\ Grown(FlushedInbox)
<1>1. proxy \in Proxies
  BY DEF TypeOK
<1>2. Grown(inbox)
  BY NothingPut
<1>3. CASE Flushes
  <2>1. FlushedProxy = [proxy EXCEPT !.tickPending = TRUE, !.next = 0]
    BY <1>3 DEF FlushedProxy
  <2>2. FlushedInbox = Append(inbox, [type |-> "tick", status |-> proxy.next])
    BY <1>3 DEF FlushedInbox
  <2>3. [type |-> "tick", status |-> proxy.next] \in Commands
    BY <1>1 DEF Proxies, Commands
  <2>4. PICK m \in Commands : m = [type |-> "tick", status |-> proxy.next]
    BY <2>3
  <2>5. Grown(Append(inbox, m))
    BY <1>2, <2>4, OnePut
  <2>6. Grown(FlushedInbox)
    BY <2>2, <2>4, <2>5
  <2>7. FlushedProxy \in Proxies
    BY <1>1, <2>1 DEF Proxies
  <2>8. /\ FlushedProxy.events = proxy.events
        /\ FlushedProxy.replies = proxy.replies /\ FlushedProxy.resume = proxy.resume
        /\ FlushedProxy.pending = proxy.pending /\ FlushedProxy.asked = proxy.asked
    BY <1>1, <2>1 DEF Proxies
  <2> QED
    BY <2>6, <2>7, <2>8
<1>4. CASE ~Flushes
  <2>1. FlushedProxy = proxy /\ FlushedInbox = inbox
    BY <1>4 DEF FlushedProxy, FlushedInbox
  <2> QED
    BY <1>1, <1>2, <2>1
<1> QED
  BY <1>3, <1>4

-----------------------------------------------------------------------------
(* The steps of the threads *)

\* What the threads of the manager may do to the engine's records: pass events on, take a
\* reply, and put commands behind the others.
LEMMA ThreadStep ==
  ASSUME IInv, TypeOK', UNCHANGED <<log, outbox, engine, hand, read, twice>>,
         life' = life \/ life' = "dead", Grown(inbox'),
         proxy'.replies \subseteq proxy.replies,
         delivered \union proxy.events \subseteq delivered' \union proxy'.events,
         proxy'.resume \in {None, proxy.resume},
         saved' = saved \/ \E m \in proxy.replies : saved' = m.pos
  PROVE  InitIsFirst' /\ ReadInv' /\ NothingLost'
<1>0. /\ TypeOK /\ InitIsFirst /\ EngineFits /\ RepliesFit /\ ResumeFits /\ twice = {}
      /\ NothingLost
  BY DEF IInv, ReadInv
<1>1. inbox \in Seq(Commands) /\ inbox' \in Seq(Commands)
  BY <1>0 DEF TypeOK, Grown
<1>2. InitIsFirst'
  <2>1. inbox # <<>> => inbox' # <<>> /\ inbox'[1] = inbox[1]
    BY <1>1 DEF Grown
  <2>2. \A i \in DOMAIN inbox' : i > 1 => inbox'[i].type # "init"
    BY <1>0, <1>1 DEF Grown, InitIsFirst
  <2>3. inbox = <<>> /\ inbox' # <<>> => inbox'[1].type # "init"
    BY <1>1 DEF Grown
  <2> QED
    BY <1>0, <2>1, <2>2, <2>3 DEF InitIsFirst
<1>3. /\ \A p : Covers(p)' <=> Covers(p)
      /\ Frozen' = Frozen /\ Tracked' = Tracked
  BY DEF Covers, Frozen, Tracked
<1>4. EngineFits'
  BY <1>0, <1>3 DEF EngineFits
<1>5. \A m : ReplyFits(m)' <=> ReplyFits(m)
  BY <1>3 DEF ReplyFits
<1>6. RepliesFit'
  <2>1. /\ (\A i \in DOMAIN outbox : ReplyFits(outbox[i]))'
        /\ (\A t \in Threads : ReplyFits(hand[t]))'
    BY <1>0, <1>3 DEF RepliesFit, ReplyFits, Covers
  <2>2. (\A m \in proxy.replies : ReplyFits(m))'
    BY <1>0, <1>3 DEF RepliesFit, ReplyFits, Covers
  <2>3. PICK s : s = saved'
    OBVIOUS
  <2>4. s # None => Frozen /\ Covers(s)
    <3>1. CASE saved' = saved
      BY <1>0, <2>3, <3>1 DEF RepliesFit
    <3>2. ASSUME NEW m \in proxy.replies, saved' = m.pos
          PROVE  s # None => Frozen /\ Covers(s)
      <4>1. m \in Replies
        BY <1>0 DEF TypeOK, Proxies
      <4>2. m # None /\ m.type = "rpc"
        BY <4>1, NoneIsNothing DEF Replies, Answers
      <4> QED
        BY <1>0, <2>3, <3>2, <4>2 DEF RepliesFit, ReplyFits
    <3> QED
      BY <3>1, <3>2
  <2>5. (saved # None => Frozen /\ Covers(saved))'
    BY <1>3, <2>3, <2>4 DEF Covers
  <2> QED
    BY <2>1, <2>2, <2>5 DEF RepliesFit
<1>7. ResumeFits'
  <2>1. ASSUME ~Tracked, NEW i \in DOMAIN inbox', inbox'[i].type = "update", inbox'[i].resume # None
        PROVE  Covers(inbox'[i].resume)
    <3>1. CASE i \in 1..Len(inbox)
      BY <1>0, <1>1, <2>1, <3>1 DEF Grown, ResumeFits, UpdateFits
    <3>2. CASE i \notin 1..Len(inbox)
      <4>1. i \in 1..Len(inbox') /\ i > Len(inbox)
        BY <1>1, <2>1, <3>2
      <4> QED
        BY <1>0, <2>1, <4>1 DEF Grown, ResumeFits
    <3> QED
      BY <3>1, <3>2
  <2>2. ~Tracked /\ proxy'.resume # None => Covers(proxy'.resume)
    BY <1>0 DEF ResumeFits
  <2> QED
    BY <1>3, <2>1, <2>2 DEF ResumeFits, UpdateFits
<1>8. NothingLost'
  <2>1. Places \subseteq Places'
    BY DEF Places, EventsOf, Range
  <2>2. life' # "dead" => life # "dead"
    OBVIOUS
  <2> QED
    BY <1>0, <2>1, <2>2 DEF NothingLost
<1> QED
  BY <1>0, <1>2, <1>4, <1>6, <1>7, <1>8 DEF ReadInv

\* Where a thread is.
PCs == {"update", "send", "idle", "drain", "collect", "stopped", "stopping", "ask", "wait",
        "close", "join", "closed"}

\* A thread that has nothing in hand goes on.
LEMMA PlaceStep ==
  ASSUME TypeOK, HandsAreDraining, hand' = hand, NEW t \in Threads, NEW q \in PCs,
         pc' = [pc EXCEPT ![t] = q], hand[t] = None, pc["manager"] = "stopped" => t = "ui",
         t = "ui" /\ q \in {"close", "join", "closed"} => pc["manager"] = "stopped"
  PROVE  HandsAreDraining' /\ pc' \in [Threads -> PCs]
BY DEF TypeOK, HandsAreDraining, Draining, Threads, PCs

\* Nobody has moved.
LEMMA PlacesKept ==
  ASSUME TypeOK, HandsAreDraining, hand' = hand, pc' = pc
  PROVE  HandsAreDraining'
BY DEF HandsAreDraining, Draining

\* The types after a step of the threads.
LEMMA ThreadTypes ==
  ASSUME TypeOK, UNCHANGED <<log, outbox, loop, engine, hand, faults, resumes, read, twice, skipped>>,
         life' \in {"running", "hung", "dead"}, Grown(inbox'), proxy' \in Proxies,
         pc' \in [Threads -> PCs], request' \in Cursors, expired' \subseteq Nat, saved' \in Cursors,
         newest' \in 0..MaxStatus, delivered' \subseteq Nat
  PROVE  TypeOK'
<1>1. inbox' \in Seq(Commands)
  BY DEF Grown
<1> QED
  BY <1>1 DEF TypeOK, PCs

\* The end of a drain of the worker thread.
LEMMA EndDrainStep ==
  ASSUME IInv, EndDrain
  PROVE  IInv'
<1>0. TypeOK /\ HandsAreDraining
  BY DEF IInv
<1>1. PICK q \in {"send", "collect"} :
        pc["manager"] \in {"update", "drain"} /\ pc' = [pc EXCEPT !["manager"] = q]
  BY DEF EndDrain, Step, Goto
<1>2. /\ hand["manager"] = None /\ proxy' = FlushedProxy /\ inbox' = FlushedInbox
      /\ UNCHANGED <<log, outbox, childVars, hand, request, expired, pauseVars, faults, newest,
                     historyVars>>
  BY DEF EndDrain, Flush
<1>3. /\ proxy' \in Proxies /\ proxy'.events = proxy.events /\ proxy'.replies = proxy.replies
      /\ proxy'.resume = proxy.resume /\ Grown(inbox')
  BY <1>0, <1>2, FlushEffect
<1>4. HandsAreDraining' /\ pc' \in [Threads -> PCs]
  <2>1. q \in PCs /\ "manager" \in Threads /\ pc["manager"] # "stopped"
    BY <1>1 DEF PCs, Threads
  <2> QED
    BY <1>0, <1>1, <1>2, <2>1, PlaceStep
<1>5. TypeOK'
  <2>1. /\ life' \in {"running", "hung", "dead"} /\ request' \in Cursors /\ expired' \subseteq Nat
        /\ saved' \in Cursors /\ newest' \in 0..MaxStatus /\ delivered' \subseteq Nat
    BY <1>0, <1>2 DEF TypeOK, childVars, pauseVars, historyVars
  <2> QED
    BY <1>0, <1>2, <1>3, <1>4, <2>1, ThreadTypes DEF childVars, pauseVars, historyVars
<1>6. InitIsFirst' /\ ReadInv' /\ NothingLost'
  BY <1>2, <1>3, <1>5, ThreadStep DEF childVars, pauseVars, historyVars
<1> QED
  BY <1>4, <1>5, <1>6 DEF IInv

\* The account update of the worker thread, the first one with the cursor.
LEMMA SendUpdateStep ==
  ASSUME IInv, SendUpdate
  PROVE  IInv'
<1>0. TypeOK /\ HandsAreDraining /\ proxy \in Proxies
  BY DEF IInv, TypeOK
<1>1. pc["manager"] = "send" /\ pc' = [pc EXCEPT !["manager"] = "idle"]
  BY DEF SendUpdate, Step, Goto
<1>2. UNCHANGED <<log, outbox, childVars, hand, request, expired, pauseVars, faults, newest,
                  historyVars>>
  BY DEF SendUpdate
<1>3. /\ proxy' \in Proxies /\ proxy'.events = proxy.events /\ proxy'.replies = proxy.replies
      /\ proxy'.resume \in {None, proxy.resume} /\ Grown(inbox')
  <2>1. CASE Sendable
    <3>1. /\ inbox' = Append(inbox, [type |-> "update", resume |-> proxy.resume])
          /\ proxy' = [proxy EXCEPT !.resume = None]
      BY <2>1 DEF SendUpdate
    <3>2. PICK m \in Commands : m = [type |-> "update", resume |-> proxy.resume]
      BY <1>0 DEF Commands, Proxies
    <3>3. Grown(Append(inbox, m))
      BY <1>0, <3>2, NothingPut, OnePut
    <3>4. Grown(inbox')
      BY <3>1, <3>2, <3>3
    <3>5. /\ proxy' \in Proxies /\ proxy'.events = proxy.events /\ proxy'.replies = proxy.replies
          /\ proxy'.resume = None
      BY <1>0, <3>1 DEF Proxies, Cursors
    <3> QED
      BY <3>4, <3>5
  <2>2. CASE ~Sendable
    <3>1. inbox' = inbox /\ proxy' = proxy
      BY <2>2 DEF SendUpdate
    <3>2. Grown(inbox)
      BY <1>0, NothingPut
    <3> QED
      BY <1>0, <3>1, <3>2
  <2> QED
    BY <2>1, <2>2
<1>4. HandsAreDraining' /\ pc' \in [Threads -> PCs]
  <2>1. "idle" \in PCs /\ "manager" \in Threads /\ pc["manager"] # "stopped"
    BY <1>1 DEF PCs, Threads
  <2>2. hand["manager"] = None
    BY <1>0, <1>1 DEF HandsAreDraining, Draining, Threads
  <2> QED
    BY <1>0, <1>1, <1>2, <2>1, <2>2, PlaceStep
<1>5. TypeOK'
  <2>1. /\ life' \in {"running", "hung", "dead"} /\ request' \in Cursors /\ expired' \subseteq Nat
        /\ saved' \in Cursors /\ newest' \in 0..MaxStatus /\ delivered' \subseteq Nat
    BY <1>0, <1>2 DEF TypeOK, childVars, pauseVars, historyVars
  <2> QED
    BY <1>0, <1>2, <1>3, <1>4, <2>1, ThreadTypes DEF childVars, pauseVars, historyVars
<1>6. InitIsFirst' /\ ReadInv' /\ NothingLost'
  BY <1>2, <1>3, <1>5, ThreadStep DEF childVars, pauseVars, historyVars
<1> QED
  BY <1>4, <1>5, <1>6 DEF IInv

\* The worker thread's own steps between two drains.
LEMMA WorkerThreadStep ==
  ASSUME IInv, TickStatus \/ Collect \/ StopWorker
  PROVE  IInv'
<1>0. TypeOK /\ HandsAreDraining /\ proxy \in Proxies
  BY DEF IInv, TypeOK
<1>1. PICK q \in {"drain", "idle", "stopped"} :
        pc["manager"] \in {"idle", "collect"} /\ pc' = [pc EXCEPT !["manager"] = q]
  BY DEF TickStatus, Collect, StopWorker, Step, Goto
<1>2. UNCHANGED <<log, queueVars, childVars, hand, request, expired, pauseVars, faults,
                  read, twice, skipped>>
  BY DEF TickStatus, Collect, StopWorker, historyVars
<1>3. /\ proxy' \in Proxies /\ proxy'.replies = proxy.replies /\ proxy'.resume = proxy.resume
      /\ delivered' \union proxy'.events = delivered \union proxy.events
      /\ newest' \in 0..MaxStatus /\ delivered' \subseteq Nat
  <2>1. delivered \subseteq Nat /\ newest \in 0..MaxStatus /\ MaxStatus \in Nat
    BY <1>0, Numbers DEF TypeOK
  <2>2. CASE TickStatus
    <3>1. PICK n \in {newest, newest + 1} \intersect 1..MaxStatus :
            newest' = n /\ proxy' = [proxy EXCEPT !.next = n]
      BY <2>2 DEF TickStatus
    <3>2. delivered' = delivered /\ n \in Nat
      BY <2>1, <2>2, <3>1 DEF TickStatus, historyVars
    <3> QED
      BY <1>0, <2>1, <3>1, <3>2 DEF Proxies
  <2>3. CASE Collect
    <3>1. /\ delivered' = delivered \union proxy.events /\ newest' = newest
          /\ proxy' = [proxy EXCEPT !.events = {}]
      BY <2>3 DEF Collect
    <3> QED
      BY <1>0, <2>1, <3>1 DEF Proxies
  <2>4. CASE StopWorker
    BY <1>0, <2>1, <2>4 DEF StopWorker, historyVars
  <2> QED
    BY <2>2, <2>3, <2>4
<1>4. HandsAreDraining' /\ pc' \in [Threads -> PCs]
  <2>1. q \in PCs /\ "manager" \in Threads /\ pc["manager"] # "stopped"
    BY <1>1 DEF PCs, Threads
  <2>2. hand["manager"] = None
    BY <1>0, <1>1 DEF HandsAreDraining, Draining, Threads
  <2> QED
    BY <1>0, <1>1, <1>2, <2>1, <2>2, PlaceStep
<1>7. Grown(inbox')
  <2>1. inbox' = inbox
    BY <1>2 DEF queueVars
  <2> QED
    BY <1>0, <2>1, NothingPut
<1>5. TypeOK'
  <2>1. /\ life' \in {"running", "hung", "dead"} /\ request' \in Cursors /\ expired' \subseteq Nat
        /\ saved' \in Cursors
    BY <1>0, <1>2 DEF TypeOK, childVars, pauseVars
  <2> QED
    BY <1>0, <1>2, <1>3, <1>4, <1>7, <2>1, ThreadTypes DEF childVars, pauseVars, queueVars
<1>6. InitIsFirst' /\ ReadInv' /\ NothingLost'
  BY <1>2, <1>3, <1>5, <1>7, ThreadStep DEF childVars, pauseVars, queueVars
<1> QED
  BY <1>4, <1>5, <1>6 DEF IInv

\* The window moves on, with at most a flushed heartbeat.
LEMMA WindowMoves ==
  ASSUME IInv, Query \/ PauseManager \/ PauseExport \/ AskFails \/ Close \/ Terminate
  PROVE  IInv'
<1>0. TypeOK /\ HandsAreDraining /\ proxy \in Proxies
  BY DEF IInv, TypeOK
<1>1. PICK q \in PCs :
        /\ pc' = [pc EXCEPT !["ui"] = q]
        /\ q \in {"close", "join", "closed"} => pc["manager"] = "stopped"
  <2>1. CASE Query \/ PauseManager \/ PauseExport
    BY <2>1 DEF Query, PauseManager, PauseExport, Step, Goto, PCs
  <2>2. CASE AskFails
    BY <2>2 DEF AskFails, Finish, Pausing, Goto, PCs
  <2>3. CASE Close \/ Terminate
    BY <1>0, <2>3 DEF Close, Terminate, Step, Goto, PCs, HandsAreDraining
  <2> QED
    BY <2>1, <2>2, <2>3
<1>2. /\ hand["ui"] = None
      /\ UNCHANGED <<log, outbox, loop, engine, hand, request, expired, pauseVars, faults, newest,
                     historyVars>>
  <2>1. pc["ui"] \in {"idle", "stopping", "close"} => hand["ui"] = None
    BY <1>0 DEF HandsAreDraining, Draining, Threads
  <2> QED
    BY <2>1 DEF Query, PauseManager, PauseExport, AskFails, Close, Terminate, Step, queueVars, childVars
<1>3. /\ proxy' \in Proxies /\ proxy'.events = proxy.events /\ proxy'.replies = proxy.replies
      /\ proxy'.resume = proxy.resume /\ Grown(inbox') /\ (life' = life \/ life' = "dead")
  <2>0. Grown(inbox)
    BY <1>0, NothingPut
  <2>1. CASE Query \/ PauseManager \/ PauseExport \/ Terminate
    <3>1. inbox' = inbox /\ proxy' = proxy /\ (life' = life \/ life' = "dead")
      BY <2>1 DEF Query, PauseManager, PauseExport, Terminate, queueVars, childVars
    <3> QED
      BY <1>0, <2>0, <3>1
  <2>2. CASE AskFails
    <3>1. inbox' = FlushedInbox /\ proxy' = FlushedProxy /\ life' = life
      BY <2>2 DEF AskFails, Flush, childVars
    <3> QED
      BY <1>0, <3>1, FlushEffect
  <2>3. CASE Close
    <3>1. proxy' = [proxy EXCEPT !.closing = TRUE] /\ life' = life
      BY <2>3 DEF Close, childVars
    <3>2. Grown(inbox')
      <4>1. PICK m \in Commands : m = [type |-> "shutdown"]
        BY DEF Commands
      <4>2. Grown(Append(inbox, m))
        BY <1>0, <2>0, <4>1, OnePut
      <4>3. inbox' = inbox \/ inbox' = Append(inbox, m)
        BY <2>3, <4>1 DEF Close
      <4> QED
        BY <2>0, <4>2, <4>3
    <3> QED
      BY <1>0, <3>1, <3>2 DEF Proxies
  <2> QED
    BY <2>1, <2>2, <2>3
<1>4. HandsAreDraining' /\ pc' \in [Threads -> PCs]
  <2>1. "ui" \in Threads
    BY DEF Threads
  <2> QED
    BY <1>0, <1>1, <1>2, <2>1, PlaceStep
<1>5. TypeOK'
  <2>1. /\ life' \in {"running", "hung", "dead"} /\ request' \in Cursors /\ expired' \subseteq Nat
        /\ saved' \in Cursors /\ newest' \in 0..MaxStatus /\ delivered' \subseteq Nat
    BY <1>0, <1>2, <1>3 DEF TypeOK, pauseVars, historyVars
  <2> QED
    BY <1>0, <1>2, <1>3, <1>4, <2>1, ThreadTypes DEF pauseVars, historyVars
<1>6. InitIsFirst' /\ ReadInv' /\ NothingLost'
  BY <1>2, <1>3, <1>5, ThreadStep DEF pauseVars, historyVars
<1> QED
  BY <1>4, <1>5, <1>6 DEF IInv

\* The requests of the window.
LEMMA RequestStep ==
  ASSUME IInv, Ask \/ Expire \/ Replied \/ GiveUp \/ FlushWaiting
  PROVE  IInv'
<1>0. TypeOK /\ HandsAreDraining /\ proxy \in Proxies
  BY DEF IInv, TypeOK
<1>1. UNCHANGED <<log, outbox, childVars, hand, faults, newest, historyVars>>
  BY DEF Ask, Expire, Replied, GiveUp, FlushWaiting, queueVars, pauseVars, threadVars
<1>2. HandsAreDraining' /\ pc' \in [Threads -> PCs]
  <2>1. CASE Expire \/ FlushWaiting
    <3>1. pc' = pc
      BY <2>1 DEF Expire, FlushWaiting, threadVars
    <3> QED
      BY <1>0, <1>1, <3>1, PlacesKept DEF TypeOK, PCs
  <2>2. CASE Ask \/ Replied \/ GiveUp
    <3>1. PICK q \in PCs :
            /\ pc' = [pc EXCEPT !["ui"] = q]
            /\ q \in {"close", "join", "closed"} => pc["manager"] = "stopped"
      BY <2>2 DEF Ask, Replied, GiveUp, Finish, Pausing, Step, Goto, PCs
    <3>2. hand["ui"] = None /\ "ui" \in Threads
      BY <2>2 DEF Ask, Replied, GiveUp, Threads
    <3> QED
      BY <1>0, <1>1, <3>1, <3>2, PlaceStep
  <2> QED
    BY <2>1, <2>2
<1>3. /\ FlushedProxy \in Proxies /\ FlushedProxy.events = proxy.events
      /\ FlushedProxy.replies = proxy.replies /\ FlushedProxy.resume = proxy.resume
      /\ Grown(FlushedInbox)
  BY <1>0, FlushEffect
<1>4. PICK flushed \in Proxies : flushed = FlushedProxy
  BY <1>3
<1>5. /\ proxy' \in Proxies /\ proxy'.events = proxy.events
      /\ proxy'.replies \subseteq proxy.replies
      /\ proxy'.resume = proxy.resume /\ Grown(inbox')
      /\ request' \in Cursors /\ expired' \subseteq Nat
      /\ saved' = saved \/ \E m \in proxy.replies : saved' = m.pos
  <2>0. request \in Cursors /\ expired \subseteq Nat
    BY <1>0 DEF TypeOK
  <2>1. CASE Ask
    <3>1. PICK id \in Nat : id = proxy.asked + 1
      BY <1>0 DEF Proxies
    <3>2. PICK method \in {"query", "export"} : method = IF Pausing THEN "export" ELSE "query"
      OBVIOUS
    <3>3. /\ request' = id
          /\ proxy' = [flushed EXCEPT !.asked = id, !.pending = @ \union {id}]
          /\ inbox' = Append(FlushedInbox, [type |-> "rpc", id |-> id, method |-> method])
          /\ UNCHANGED <<expired, saved>>
      BY <1>4, <2>1, <3>1, <3>2 DEF Ask, pauseVars
    <3>4. Grown(inbox')
      <4>1. PICK m \in Commands : m = [type |-> "rpc", id |-> id, method |-> method]
        BY DEF Commands
      <4>2. Grown(Append(FlushedInbox, m))
        BY <1>0, <1>3, <4>1, OnePut
      <4> QED
        BY <3>3, <4>1, <4>2
    <3>5. /\ proxy' \in Proxies /\ proxy'.events = flushed.events
          /\ proxy'.replies = flushed.replies /\ proxy'.resume = flushed.resume
      BY <3>3 DEF Proxies
    <3> QED
      BY <1>3, <1>4, <2>0, <3>3, <3>4, <3>5 DEF Cursors
  <2>2. CASE Expire
    <3>1. request # None /\ expired' = expired \union {request} /\ UNCHANGED <<request, saved, inbox, proxy>>
      BY <2>2 DEF Expire, queueVars, pauseVars
    <3>2. Grown(inbox)
      BY <1>0, NothingPut
    <3> QED
      BY <1>0, <2>0, <3>1, <3>2 DEF Cursors
  <2>3. CASE Replied
    <3>1. PICK m \in proxy.replies :
            /\ saved' = m.pos \/ saved' = saved
            /\ proxy' = [flushed EXCEPT !.pending = @ \ {request}, !.replies = @ \ {m}]
      <4>1. PICK m \in proxy.replies :
              /\ saved' = IF Pausing THEN m.pos ELSE saved
              /\ proxy' = [FlushedProxy EXCEPT !.pending = @ \ {request}, !.replies = @ \ {m}]
        BY <2>3 DEF Replied
      <4> QED
        BY <1>4, <4>1
    <3>2. inbox' = FlushedInbox /\ request' = None /\ expired' = expired
      BY <2>3 DEF Replied
    <3>3. /\ proxy' \in Proxies /\ proxy'.events = flushed.events
          /\ proxy'.replies \subseteq flushed.replies /\ proxy'.resume = flushed.resume
      BY <3>1 DEF Proxies
    <3> QED
      BY <1>3, <1>4, <2>0, <3>1, <3>2, <3>3 DEF Cursors
  <2>4. CASE GiveUp
    <3>1. /\ proxy' = [flushed EXCEPT !.pending = @ \ {request}]
          /\ inbox' = FlushedInbox /\ request' = None /\ UNCHANGED <<expired, saved>>
      BY <1>4, <2>4 DEF GiveUp, pauseVars
    <3>2. /\ proxy' \in Proxies /\ proxy'.events = flushed.events
          /\ proxy'.replies = flushed.replies /\ proxy'.resume = flushed.resume
      BY <3>1 DEF Proxies
    <3> QED
      BY <1>3, <1>4, <2>0, <3>1, <3>2 DEF Cursors
  <2>5. CASE FlushWaiting
    <3>1. proxy' = FlushedProxy /\ inbox' = FlushedInbox /\ UNCHANGED <<request, expired, saved>>
      BY <2>5 DEF FlushWaiting, Flush, threadVars, pauseVars
    <3> QED
      BY <1>3, <2>0, <3>1
  <2> QED
    BY <2>1, <2>2, <2>3, <2>4, <2>5
<1>6. TypeOK'
  <2>1. resumes' = resumes
    BY DEF Ask, Expire, Replied, GiveUp, FlushWaiting, pauseVars
  <2>2. saved' \in Cursors
    <3>1. \A m \in proxy.replies : m.pos \in Cursors
      BY <1>0 DEF Proxies, Replies
    <3> QED
      BY <1>0, <1>5, <3>1 DEF TypeOK
  <2>3. life' \in {"running", "hung", "dead"} /\ newest' \in 0..MaxStatus /\ delivered' \subseteq Nat
    BY <1>0, <1>1 DEF TypeOK, childVars, historyVars
  <2> QED
    BY <1>0, <1>1, <1>2, <1>5, <2>1, <2>2, <2>3, ThreadTypes DEF childVars, historyVars
<1>7. InitIsFirst' /\ ReadInv' /\ NothingLost'
  BY <1>1, <1>5, <1>6, ThreadStep DEF childVars, historyVars
<1> QED
  BY <1>2, <1>6, <1>7 DEF IInv

-----------------------------------------------------------------------------
(* The queue of answers *)

\* A message is taken off the queue, and is in the hands of one thread.
LEMMA TakeStep ==
  ASSUME IInv, NEW t \in Threads, Take(t)
  PROVE  IInv'
<1>0. /\ TypeOK /\ InitIsFirst /\ HandsAreDraining /\ EngineFits /\ RepliesFit /\ ResumeFits
      /\ twice = {} /\ NothingLost
  BY DEF IInv, ReadInv
<1>1. /\ Draining(t) /\ outbox # <<>> /\ outbox \in Seq(Answers)
      /\ hand' = [hand EXCEPT ![t] = Head(outbox)] /\ outbox' = Tail(outbox) /\ hand[t] = None
      /\ UNCHANGED <<log, inbox, childVars, proxy, pc, request, expired, pauseVars, faults, newest,
                     historyVars>>
  BY <1>0 DEF Take, TypeOK
<1>2. /\ Len(outbox) \in Nat \ {0} /\ Head(outbox) = outbox[1] /\ outbox[1] \in Answers
      /\ outbox' \in Seq(Answers) /\ Len(outbox') = Len(outbox) - 1
      /\ \A i \in 1..Len(outbox') : outbox'[i] = outbox[i + 1]
  BY <1>1
<1>3. PICK m \in Answers : m = outbox[1] /\ hand' = [hand EXCEPT ![t] = m]
  BY <1>1, <1>2
<1>4. TypeOK'
  <2>1. hand' \in [Threads -> Answers \union {None}]
    BY <1>0, <1>3 DEF TypeOK
  <2> QED
    BY <1>0, <1>1, <1>2, <2>1 DEF TypeOK, childVars, pauseVars, historyVars
<1>5. HandsAreDraining'
  BY <1>0, <1>1, <1>3 DEF HandsAreDraining, Draining, TypeOK
<1>6. InitIsFirst'
  BY <1>0, <1>1 DEF InitIsFirst, childVars
<1>7. EngineFits' /\ ResumeFits' /\ twice' = {}
  BY <1>0, <1>1 DEF EngineFits, ResumeFits, UpdateFits, Covers, Tracked, childVars, historyVars
<1>8. RepliesFit'
  <2>1. \A n : ReplyFits(n)' <=> ReplyFits(n)
    BY <1>1 DEF ReplyFits, Covers, Frozen, childVars, historyVars
  <2>2. (\A i \in DOMAIN outbox : ReplyFits(outbox[i]))'
    <3>1. \A i \in DOMAIN outbox' : i \in 1..Len(outbox') /\ i + 1 \in DOMAIN outbox /\ outbox'[i] = outbox[i + 1]
      BY <1>1, <1>2
    <3> QED
      BY <1>0, <1>1, <3>1 DEF RepliesFit, ReplyFits, Covers, Frozen, childVars, historyVars
  <2>3. (\A s \in Threads : ReplyFits(hand[s]))'
    <3>1. \A s \in Threads : hand'[s] = hand[s] \/ hand'[s] = outbox[1]
      BY <1>0, <1>3 DEF TypeOK
    <3>2. 1 \in DOMAIN outbox
      BY <1>1, <1>2
    <3> QED
      BY <1>0, <1>1, <3>1, <3>2 DEF RepliesFit, ReplyFits, Covers, Frozen, childVars, historyVars
  <2>4. (\A n \in proxy.replies : ReplyFits(n))' /\ (saved # None => Frozen /\ Covers(saved))'
    BY <1>0, <1>1 DEF RepliesFit, ReplyFits, Covers, Frozen, childVars, historyVars, pauseVars
  <2> QED
    BY <2>2, <2>3, <2>4 DEF RepliesFit
<1>9. NothingLost'
  <2>1. \A i \in DOMAIN outbox : \/ \E j \in DOMAIN outbox' : outbox'[j] = outbox[i]
                                 \/ hand'[t] = outbox[i]
    <3> TAKE i \in DOMAIN outbox
    <3>1. CASE i = 1
      BY <1>0, <1>3, <3>1 DEF TypeOK
    <3>2. CASE i # 1
      <4>1. i - 1 \in 1..Len(outbox') /\ outbox'[i - 1] = outbox[i]
        BY <1>1, <1>2, <3>2
      <4> QED
        BY <1>2, <4>1
    <3> QED
      BY <3>1, <3>2
  <2>2. \A s \in Threads : s # t => hand'[s] = hand[s]
    BY <1>0, <1>3 DEF TypeOK
  <2>3. EventsOf(None) = {}
    BY DEF EventsOf
  <2>4. DOMAIN hand = Threads /\ DOMAIN hand' = Threads
    BY <1>0, <1>4 DEF TypeOK
  <2>5. \A n \in Range(outbox) \union Range(hand) : n = None \/ n \in Range(outbox') \union Range(hand')
    BY <1>1, <2>1, <2>2, <2>4 DEF Range
  <2>6. UNION {EventsOf(n) : n \in Range(outbox) \union Range(hand)}
          \subseteq UNION {EventsOf(n) : n \in Range(outbox') \union Range(hand')}
    BY <2>3, <2>5
  <2>7. Places \subseteq Places'
    BY <1>1, <2>6 DEF Places, childVars, historyVars, EventsOf
  <2> QED
    BY <1>0, <1>1, <2>7 DEF NothingLost, childVars
<1> QED
  BY <1>4, <1>5, <1>6, <1>7, <1>8, <1>9 DEF IInv, ReadInv

\* The message is applied: its events are the proxy's, its reply is kept if it is still asked for.
LEMMA ApplyStep ==
  ASSUME IInv, NEW t \in Threads, Apply(t)
  PROVE  IInv'
<1>0. /\ TypeOK /\ InitIsFirst /\ HandsAreDraining /\ EngineFits /\ RepliesFit /\ ResumeFits
      /\ twice = {} /\ NothingLost /\ proxy \in Proxies
  BY DEF IInv, ReadInv, TypeOK
<1>1. /\ hand[t] # None /\ proxy' = Applied(hand[t]) /\ hand' = [hand EXCEPT ![t] = None]
      /\ UNCHANGED <<log, queueVars, childVars, pc, request, expired, pauseVars, faults, newest,
                     historyVars>>
  BY DEF Apply
<1>2. PICK m \in Answers : m = hand[t]
  BY <1>0, <1>1 DEF TypeOK
<1>3. /\ proxy' \in Proxies /\ proxy'.resume = proxy.resume
      /\ proxy'.events = proxy.events \union EventsOf(m)
      /\ proxy'.replies \subseteq proxy.replies \union {m}
      /\ proxy'.replies # proxy.replies => m.type = "rpc"
  <2>0. proxy' = Applied(m) /\ m # None
    BY <1>1, <1>2
  <2>1. CASE m \in [type : {"ready", "error"}]
    <3>1. EventsOf(m) = {}
      BY <2>1 DEF EventsOf
    <3>2. proxy' = [proxy EXCEPT !.ready = TRUE] \/ proxy' = [proxy EXCEPT !.tickPending = FALSE]
      BY <2>0, <2>1 DEF Applied
    <3> QED
      BY <1>0, <3>1, <3>2 DEF Proxies
  <2>2. CASE m \in [type : {"events", "tick"}, events : SUBSET Nat]
    <3>1. EventsOf(m) = m.events /\ m.events \subseteq Nat
      BY <2>0, <2>2 DEF EventsOf
    <3>2. \/ proxy' = [proxy EXCEPT !.events = @ \union m.events]
          \/ proxy' = [proxy EXCEPT !.tickPending = FALSE, !.events = @ \union m.events]
      BY <2>0, <2>2 DEF Applied
    <3> QED
      BY <1>0, <3>1, <3>2 DEF Proxies
  <2>3. CASE m \in Replies
    <3>1. EventsOf(m) = {} /\ m.type = "rpc"
      BY <2>3 DEF EventsOf, Replies
    <3>2. proxy' = [proxy EXCEPT !.replies = IF m.id \in proxy.pending THEN @ \union {m} ELSE @]
      BY <2>0, <3>1 DEF Applied
    <3>3. PICK replies \in SUBSET Replies :
            /\ replies \subseteq proxy.replies \union {m}
            /\ proxy' = [proxy EXCEPT !.replies = replies]
      BY <1>0, <2>3, <3>2 DEF Proxies
    <3> QED
      BY <1>0, <3>1, <3>3 DEF Proxies
  <2> QED
    BY <2>1, <2>2, <2>3 DEF Answers
<1>4. TypeOK'
  <2>1. hand' \in [Threads -> Answers \union {None}]
    BY <1>0, <1>1 DEF TypeOK
  <2> QED
    BY <1>0, <1>1, <1>3, <2>1 DEF TypeOK, childVars, pauseVars, historyVars, queueVars
<1>5. HandsAreDraining'
  BY <1>0, <1>1 DEF HandsAreDraining, Draining, TypeOK
<1>6. InitIsFirst'
  BY <1>0, <1>1 DEF InitIsFirst, childVars, queueVars
<1>7. EngineFits' /\ ResumeFits' /\ twice' = {}
  BY <1>0, <1>1, <1>3 DEF EngineFits, ResumeFits, UpdateFits, Covers, Tracked, childVars, historyVars, queueVars
<1>8. RepliesFit'
  <2>1. ReplyFits(m)
    BY <1>0, <1>2 DEF RepliesFit
  <2>2. (\A n \in proxy.replies : ReplyFits(n))'
    BY <1>0, <1>1, <1>3, <2>1 DEF RepliesFit, ReplyFits, Covers, Frozen, childVars, historyVars
  <2>3. (\A s \in Threads : ReplyFits(hand[s]))'
    <3>1. \A s \in Threads : hand'[s] = hand[s] \/ hand'[s] = None
      BY <1>0, <1>1 DEF TypeOK
    <3> QED
      BY <1>0, <1>1, <3>1 DEF RepliesFit, ReplyFits, Covers, Frozen, childVars, historyVars
  <2>4. /\ (\A i \in DOMAIN outbox : ReplyFits(outbox[i]))'
        /\ (saved # None => Frozen /\ Covers(saved))'
    BY <1>0, <1>1 DEF RepliesFit, ReplyFits, Covers, Frozen, childVars, historyVars, pauseVars, queueVars
  <2> QED
    BY <2>2, <2>3, <2>4 DEF RepliesFit
<1>9. NothingLost'
  <2>2. \A s \in Threads : s # t => hand'[s] = hand[s]
    BY <1>0, <1>1 DEF TypeOK
  <2>4. DOMAIN hand = Threads /\ DOMAIN hand' = Threads
    BY <1>0, <1>4 DEF TypeOK
  <2>5. \A n \in Range(outbox) \union Range(hand) : n = m \/ n \in Range(outbox') \union Range(hand')
    BY <1>1, <1>2, <2>2, <2>4 DEF Range, queueVars
  <2>6. UNION {EventsOf(n) : n \in Range(outbox) \union Range(hand)}
          \subseteq EventsOf(m) \union UNION {EventsOf(n) : n \in Range(outbox') \union Range(hand')}
    BY <2>5
  <2>7. Places \subseteq Places'
    BY <1>1, <1>3, <2>6 DEF Places, childVars, historyVars, EventsOf
  <2> QED
    BY <1>0, <1>1, <2>7 DEF NothingLost, childVars
<1> QED
  BY <1>4, <1>5, <1>6, <1>7, <1>8, <1>9 DEF IInv, ReadInv

-----------------------------------------------------------------------------
(* The child *)

\* What the child sends, if it sends anything, comes behind the other answers.
LEMMA Answered ==
  ASSUME TypeOK, NEW m \in Answers \union {None},
         outbox' = IF m = None THEN outbox ELSE Append(outbox, m)
  PROVE  /\ outbox' \in Seq(Answers)
         /\ \A i \in DOMAIN outbox' : outbox'[i] = m \/ (i \in DOMAIN outbox /\ outbox'[i] = outbox[i])
         /\ Range(outbox) \subseteq Range(outbox')
         /\ m # None => m \in Range(outbox')
<1>1. outbox \in Seq(Answers)
  BY DEF TypeOK
<1>2. CASE m = None
  BY <1>1, <1>2
<1>3. CASE m # None
  <2>1. m \in Answers /\ outbox' = Append(outbox, m)
    BY <1>3
  <2>2. outbox' \in Seq(Answers) /\ Len(outbox') = Len(outbox) + 1 /\ Len(outbox) \in Nat
    BY <1>1, <2>1
  <2>3. (\A i \in 1..Len(outbox) : outbox'[i] = outbox[i]) /\ outbox'[Len(outbox) + 1] = m
    BY <1>1, <2>1
  <2>4. DOMAIN outbox = 1..Len(outbox) /\ DOMAIN outbox' = 1..(Len(outbox) + 1)
    BY <1>1, <2>2
  <2>5. \A i \in DOMAIN outbox' : outbox'[i] = m \/ (i \in DOMAIN outbox /\ outbox'[i] = outbox[i])
    BY <2>2, <2>3, <2>4
  <2>6. \A i \in DOMAIN outbox : i \in DOMAIN outbox' /\ outbox'[i] = outbox[i]
    BY <2>2, <2>3, <2>4
  <2>7. Len(outbox) + 1 \in DOMAIN outbox'
    BY <2>2, <2>4
  <2> QED
    BY <2>2, <2>3, <2>5, <2>6, <2>7 DEF Range
<1> QED
  BY <1>2, <1>3

\* A command is taken off the queue: the rest moves up, and the counts stay within their bounds.
LEMMA Received ==
  ASSUME IInv, NEW types, NEW executed \in BOOLEAN, Receive(types, executed)
  PROVE  /\ inbox[1] = Head(inbox) /\ inbox[1] \in Commands /\ inbox[1].type \in types
         /\ 1 \in DOMAIN inbox /\ inbox' \in Seq(Commands)
         /\ \A i \in DOMAIN inbox' : i + 1 \in DOMAIN inbox /\ inbox'[i] = inbox[i + 1]
         /\ \A i \in DOMAIN inbox' : inbox'[i].type # "init"
         /\ "init" \notin types => engine # None
         /\ types = {"init"} => engine = None
         /\ loop' \in [due : BOOLEAN, messages : 0..MaxMessages, commands : 0..MaxCommands]
         /\ life = "running"
         /\ UNCHANGED <<log, proxy, threadVars, pauseVars, newest, delivered, read, twice>>
<1>0. TypeOK /\ InitIsFirst /\ inbox \in Seq(Commands)
  BY DEF IInv, TypeOK
<1>1. /\ life = "running" /\ inbox # <<>> /\ Head(inbox).type \in types /\ inbox' = Tail(inbox)
      /\ UNCHANGED <<log, proxy, threadVars, pauseVars, newest, delivered, read, twice>>
  BY DEF Receive
<1>2. /\ Len(inbox) \in Nat \ {0} /\ inbox[1] = Head(inbox) /\ 1 \in DOMAIN inbox
      /\ inbox' \in Seq(Commands) /\ Len(inbox') = Len(inbox) - 1
      /\ \A i \in 1..Len(inbox') : inbox'[i] = inbox[i + 1]
  BY <1>0, <1>1
<1>3. inbox[1] \in Commands
  BY <1>0, <1>2
<1>4. \A i \in DOMAIN inbox' : i + 1 > 1 /\ i + 1 \in DOMAIN inbox /\ inbox'[i] = inbox[i + 1]
  BY <1>0, <1>2
<1>5. \A i \in DOMAIN inbox' : inbox'[i].type # "init"
  BY <1>0, <1>4 DEF InitIsFirst
<1>6. /\ "init" \notin types => engine # None
      /\ types = {"init"} => engine = None
  BY <1>0, <1>1, <1>2 DEF InitIsFirst
<1>7. loop' \in [due : BOOLEAN, messages : 0..MaxMessages, commands : 0..MaxCommands]
  <2>1. loop.messages + 1 \in Nat /\ MaxMessages \in Nat /\ MaxCommands \in Nat
    BY <1>0, Numbers DEF TypeOK
  <2>2. PICK one \in Nat : one = IF executed THEN 1 ELSE 0
    OBVIOUS
  <2>3. loop.commands + one \in Nat
    BY <1>0, <2>1, <2>2 DEF TypeOK
  <2>4. PICK messages \in 0..MaxMessages : messages = Min({loop.messages + 1, MaxMessages})
    BY <2>1, SmallerOf
  <2>5. PICK commands \in 0..MaxCommands : commands = Min({loop.commands + one, MaxCommands})
    BY <2>1, <2>3, SmallerOf
  <2>6. loop' = [due |-> Due(messages, commands), messages |-> messages, commands |-> commands]
    BY <2>2, <2>4, <2>5 DEF Receive
  <2>7. Due(messages, commands) \in BOOLEAN
    BY DEF Due
  <2> QED
    BY <2>6, <2>7
<1> QED
  BY <1>1, <1>2, <1>3, <1>4, <1>5, <1>6, <1>7

\* What a handler may do to the engine and to the answers.
LEMMA HandlerStep ==
  ASSUME IInv, NEW types, NEW executed \in BOOLEAN, Receive(types, executed),
         engine' \in Engines, life' \in {"running", "dead"}, faults' \in 0..MaxFaults,
         skipped' \subseteq Nat,
         NEW m \in Answers \union {None}, outbox' = IF m = None THEN outbox ELSE Append(outbox, m),
         m # None /\ m.type = "rpc" /\ m.pos # None => engine'.paused /\ Covers(m.pos),
         engine'.tracked => Covers(engine'.pos), Frozen => engine'.paused, Tracked => engine'.tracked,
         life' # "dead" =>
             \/ engine'.from = engine'.pos
             \/ /\ engine # None /\ engine'.from = engine.from /\ engine'.pos = engine.pos
                /\ engine.made \subseteq engine'.made \union EventsOf(m)
  PROVE  IInv'
<1>0. /\ TypeOK /\ HandsAreDraining /\ EngineFits /\ RepliesFit /\ ResumeFits /\ twice = {}
      /\ NothingLost
  BY DEF IInv, ReadInv
<1>1. /\ inbox' \in Seq(Commands)
      /\ \A i \in DOMAIN inbox' : i + 1 \in DOMAIN inbox /\ inbox'[i] = inbox[i + 1]
      /\ \A i \in DOMAIN inbox' : inbox'[i].type # "init"
      /\ loop' \in [due : BOOLEAN, messages : 0..MaxMessages, commands : 0..MaxCommands]
      /\ life = "running"
      /\ UNCHANGED <<log, proxy, threadVars, pauseVars, newest, delivered, read, twice>>
  BY Received
<1>2. /\ outbox' \in Seq(Answers)
      /\ \A i \in DOMAIN outbox' : outbox'[i] = m \/ (i \in DOMAIN outbox /\ outbox'[i] = outbox[i])
      /\ Range(outbox) \subseteq Range(outbox')
      /\ m # None => m \in Range(outbox')
  BY <1>0, Answered
<1>3. engine' # None
  BY NoneIsNothing
<1>4. TypeOK'
  BY <1>0, <1>1, <1>2 DEF TypeOK, threadVars, pauseVars
<1>5. InitIsFirst'
  <2>1. inbox' # <<>> => 1 \in DOMAIN inbox'
    BY <1>1
  <2> QED
    BY <1>1, <1>3, <2>1 DEF InitIsFirst
<1>6. HandsAreDraining'
  BY <1>0, <1>1, PlacesKept DEF threadVars
<1>7. /\ \A p : Covers(p)' <=> Covers(p)
      /\ (Frozen => Frozen') /\ (Tracked => Tracked')
  BY <1>1, <1>3 DEF Covers, Frozen, Tracked
<1>8. EngineFits'
  <2>1. PICK pos : pos = engine'.pos
    OBVIOUS
  <2>2. Tracked' => Covers(pos)
    BY <2>1 DEF Tracked
  <2> QED
    BY <1>0, <1>1, <1>7, <2>1, <2>2 DEF EngineFits, Covers
<1>9. RepliesFit'
  <2>1. \A n : ReplyFits(n) => ReplyFits(n)'
    BY <1>7 DEF ReplyFits
  <2>2. ReplyFits(m)'
    BY <1>3, <1>7 DEF ReplyFits, Frozen
  <2>3. (\A i \in DOMAIN outbox : ReplyFits(outbox[i]))'
    <3> SUFFICES ASSUME NEW i \in DOMAIN outbox'
                 PROVE  ReplyFits(outbox[i])'
      OBVIOUS
    <3>1. PICK n : n = outbox'[i]
      OBVIOUS
    <3>2. n = m \/ (i \in DOMAIN outbox /\ n = outbox[i])
      BY <1>2, <3>1
    <3>3. ReplyFits(n)'
      BY <1>0, <2>1, <2>2, <3>2 DEF RepliesFit
    <3> QED
      BY <3>1, <3>3 DEF ReplyFits, Covers, Frozen
  <2>4. (\A t \in Threads : ReplyFits(hand[t]))' /\ (\A n \in proxy.replies : ReplyFits(n))'
    BY <1>0, <1>1, <1>7 DEF RepliesFit, ReplyFits, Covers, threadVars
  <2>5. (saved # None => Frozen /\ Covers(saved))'
    BY <1>0, <1>1, <1>7 DEF RepliesFit, Covers, pauseVars
  <2> QED
    BY <2>3, <2>4, <2>5 DEF RepliesFit
<1>10. ResumeFits'
  <2>1. ~Tracked' => ~Tracked
    BY <1>7
  <2>2. ASSUME ~Tracked, NEW i \in DOMAIN inbox'
        PROVE  UpdateFits(inbox[i])'
    <3>1. i + 1 \in DOMAIN inbox /\ inbox'[i] = inbox[i + 1]
      BY <1>1
    <3>2. PICK n : n = inbox'[i]
      OBVIOUS
    <3>3. UpdateFits(n)
      BY <1>0, <2>2, <3>1, <3>2 DEF ResumeFits
    <3> QED
      BY <1>1, <3>2, <3>3 DEF UpdateFits, Covers
  <2>3. ~Tracked => (proxy'.resume # None => Covers(proxy'.resume))
    BY <1>0, <1>1 DEF ResumeFits
  <2> QED
    BY <1>1, <2>1, <2>2, <2>3 DEF ResumeFits, Covers
<1>11. NothingLost'
  <2> SUFFICES ASSUME life' # "dead"
               PROVE  ((engine.from + 1)..engine.pos \subseteq Places)'
    BY DEF NothingLost
  <2>1. CASE engine'.from = engine'.pos
    <3>1. engine'.pos \in Nat
      BY DEF Engines
    <3>2. (engine'.from + 1)..engine'.pos = {}
      BY <2>1, <3>1
    <3> QED
      BY <3>2
  <2>2. CASE /\ engine # None /\ engine'.from = engine.from /\ engine'.pos = engine.pos
             /\ engine.made \subseteq engine'.made \union EventsOf(m)
    <3>1. hand' = hand /\ proxy' = proxy /\ delivered' = delivered
      BY <1>1 DEF threadVars
    <3>2. EventsOf(m) \subseteq UNION {EventsOf(n) : n \in Range(outbox') \union Range(hand')}
      <4>1. CASE m = None
        BY <4>1 DEF EventsOf
      <4>2. CASE m # None
        BY <1>2, <4>2
      <4> QED
        BY <4>1, <4>2
    <3>3. UNION {EventsOf(n) : n \in Range(outbox) \union Range(hand)}
            \subseteq UNION {EventsOf(n) : n \in Range(outbox') \union Range(hand')}
      BY <1>2, <3>1
    <3>4. Places \subseteq Places'
      BY <2>2, <3>1, <3>2, <3>3 DEF Places, EventsOf
    <3>5. (engine.from + 1)..engine.pos \subseteq Places
      BY <1>0, <1>1, <2>2 DEF NothingLost
    <3> QED
      BY <2>2, <3>4, <3>5
  <2> QED
    BY <2>1, <2>2
<1> QED
  BY <1>0, <1>1, <1>4, <1>5, <1>6, <1>8, <1>9, <1>10, <1>11 DEF IInv, ReadInv

\* What the child does not hear: an answer of a child that is frozen, and a request too late.
LEMMA IgnoredStep ==
  ASSUME IInv, Ignore \/ DropExpired
  PROVE  IInv'
<1>0. TypeOK /\ EngineFits
  BY DEF IInv, ReadInv
<1>1. PICK types \in {{"update", "tick"}, {"rpc"}} : Receive(types, FALSE)
  BY DEF Ignore, DropExpired
<1>2. UNCHANGED <<outbox, life, engine, faults, skipped>>
  BY DEF Ignore, DropExpired
<1>3. engine # None /\ life = "running"
  BY <1>1, Received
<1>4. engine' \in Engines /\ faults' \in 0..MaxFaults /\ skipped' \subseteq Nat
  BY <1>0, <1>2, <1>3 DEF TypeOK
<1>5. engine'.tracked => Covers(engine'.pos)
  BY <1>0, <1>2, <1>3 DEF EngineFits, Tracked
<1>6. (Frozen => engine'.paused) /\ (Tracked => engine'.tracked)
  BY <1>2 DEF Frozen, Tracked
<1>7. PICK m \in {None} : TRUE
  OBVIOUS
<1> QED
  BY <1>1, <1>2, <1>3, <1>4, <1>5, <1>6, <1>7, HandlerStep

\* The engine is made, and reads nothing yet.
LEMMA HandleInitStep ==
  ASSUME IInv, HandleInit
  PROVE  IInv'
<1>0. TypeOK
  BY DEF IInv
<1>1. Receive({"init"}, TRUE) /\ UNCHANGED <<life, faults, skipped>>
  BY DEF HandleInit
<1>2. life = "running" /\ engine = None
  BY <1>1, Received
<1>3. PICK m \in Answers : m = [type |-> "ready"]
  BY DEF Answers
<1>4. outbox' = Append(outbox, m) /\ m # None /\ m.type = "ready"
  BY <1>3, NoneIsNothing DEF HandleInit, Send
<1>5. engine' = [tracked |-> FALSE, from |-> 0, pos |-> 0, made |-> {}, paused |-> FALSE, status |-> 0]
  BY DEF HandleInit
<1>6. engine' \in Engines /\ ~engine'.tracked /\ engine'.from = engine'.pos
  BY <1>5 DEF Engines
<1>7. ~Frozen /\ ~Tracked
  BY <1>2 DEF Frozen, Tracked
<1>8. faults' \in 0..MaxFaults /\ skipped' \subseteq Nat
  BY <1>0, <1>1 DEF TypeOK
<1> QED
  BY <1>1, <1>2, <1>4, <1>6, <1>7, <1>8, HandlerStep

\* A command that is not the first one finds an engine.
LEMMA ReceivedLater ==
  ASSUME IInv, NEW type \in {"update", "tick", "rpc", "shutdown"}, Receive({type}, TRUE)
  PROVE  /\ inbox[1] = Head(inbox) /\ inbox[1] \in Commands /\ inbox[1].type = type
         /\ 1 \in DOMAIN inbox /\ engine # None /\ life = "running"
<1>1. PICK types : types = {type}
  OBVIOUS
<1>2. "init" \notin types /\ Receive(types, TRUE)
  BY <1>1
<1>3. /\ inbox[1] = Head(inbox) /\ inbox[1] \in Commands /\ inbox[1].type \in types
      /\ 1 \in DOMAIN inbox /\ engine # None /\ life = "running"
  BY <1>2, Received
<1> QED
  BY <1>1, <1>3

\* A reader that is attached at the end of the log, or where another one stopped, has read nothing
\* of what lies behind.
LEMMA AttachedFits ==
  ASSUME TypeOK, EngineFits, engine # None, NEW resume \in Cursors,
         ~engine.tracked /\ resume # None => Covers(resume),
         NEW e, e = Attached(engine, resume)
  PROVE  /\ e \in Engines /\ e.tracked /\ e.paused = engine.paused /\ Covers(e.pos)
         /\ e.made = engine.made
         /\ e.from = e.pos \/ (e.from = engine.from /\ e.pos = engine.pos)
         /\ (Skip(resume) => skipped' \subseteq Nat)
<1>0. engine \in Engines /\ log \in Nat
  BY Numbers DEF TypeOK
<1>1. CASE engine.tracked
  <2>1. e = engine
    BY <1>1 DEF Attached
  <2>2. Skip(resume) => skipped' = skipped
    BY <1>1 DEF Skip
  <2> QED
    BY <1>0, <1>1, <2>1, <2>2 DEF EngineFits, Tracked, TypeOK
<1>2. CASE ~engine.tracked
  <2>1. PICK pos : pos = IF resume = None THEN log ELSE resume
    OBVIOUS
  <2>2. pos \in Nat /\ Covers(pos)
    BY <1>0, <1>2, <2>1 DEF EngineFits, Cursors
  <2>3. e = [engine EXCEPT !.tracked = TRUE, !.from = pos, !.pos = pos]
    BY <1>2, <2>1 DEF Attached
  <2>4. /\ e \in Engines /\ e.tracked /\ e.paused = engine.paused /\ e.pos = pos /\ e.from = pos
        /\ e.made = engine.made
    BY <1>0, <2>2, <2>3 DEF Engines
  <2>5. Skip(resume) => skipped' \subseteq Nat
    BY <1>0 DEF Skip, TypeOK
  <2> QED
    BY <2>2, <2>4, <2>5
<1> QED
  BY <1>1, <1>2

\* The first account update attaches the reader.
LEMMA HandleUpdateStep ==
  ASSUME IInv, HandleUpdate
  PROVE  IInv'
<1>0. TypeOK /\ EngineFits /\ ResumeFits
  BY DEF IInv, ReadInv
<1>1. /\ ~Frozen /\ Receive({"update"}, TRUE) /\ UNCHANGED <<outbox, life, faults>>
      /\ engine' = Attached(engine, Head(inbox).resume) /\ Skip(Head(inbox).resume)
  BY DEF HandleUpdate
<1>2. /\ inbox[1] = Head(inbox) /\ inbox[1] \in Commands /\ inbox[1].type = "update"
      /\ 1 \in DOMAIN inbox /\ engine # None /\ life = "running"
  BY <1>1, ReceivedLater
<1>3. PICK resume \in Cursors : resume = Head(inbox).resume
  BY <1>2 DEF Commands
<1>4. ~engine.tracked /\ resume # None => Covers(resume)
  BY <1>0, <1>2, <1>3 DEF ResumeFits, UpdateFits, Tracked
<1>5. PICK e : e = Attached(engine, resume)
  OBVIOUS
<1>6. /\ e \in Engines /\ e.tracked /\ e.paused = engine.paused /\ Covers(e.pos)
      /\ e.made = engine.made
      /\ e.from = e.pos \/ (e.from = engine.from /\ e.pos = engine.pos)
      /\ skipped' \subseteq Nat
  BY <1>0, <1>1, <1>2, <1>3, <1>4, <1>5, AttachedFits
<1>7. engine' = e /\ faults' \in 0..MaxFaults
  BY <1>0, <1>1, <1>3, <1>5 DEF TypeOK
<1>8. PICK m \in {None} : TRUE
  OBVIOUS
<1> QED
  BY <1>1, <1>2, <1>6, <1>7, <1>8, HandlerStep

\* A heartbeat attaches the reader, too, and takes along the events that failed polls left.
LEMMA HandleTickStep ==
  ASSUME IInv, HandleTick
  PROVE  IInv'
<1>0. TypeOK /\ EngineFits
  BY DEF IInv, ReadInv
<1>1. /\ ~Frozen /\ Receive({"tick"}, TRUE) /\ UNCHANGED <<life, faults>>
      /\ engine' = [Attached(engine, None) EXCEPT !.status = Head(inbox).status, !.made = {}]
      /\ Skip(None) /\ outbox' = Append(outbox, [type |-> "tick", events |-> engine.made])
  BY DEF HandleTick, Send
<1>2. /\ inbox[1] = Head(inbox) /\ inbox[1] \in Commands /\ inbox[1].type = "tick"
      /\ engine # None /\ life = "running"
  BY <1>1, ReceivedLater
<1>3. PICK told \in Nat : told = Head(inbox).status
  BY <1>2 DEF Commands
<1>4. PICK none \in Cursors : none = None
  BY DEF Cursors
<1>5. PICK e : e = Attached(engine, none)
  OBVIOUS
<1>6. /\ e \in Engines /\ e.tracked /\ e.paused = engine.paused /\ Covers(e.pos)
      /\ e.made = engine.made
      /\ e.from = e.pos \/ (e.from = engine.from /\ e.pos = engine.pos)
      /\ skipped' \subseteq Nat
  BY <1>0, <1>1, <1>2, <1>4, <1>5, AttachedFits
<1>7. engine' = [e EXCEPT !.status = told, !.made = {}]
  BY <1>1, <1>3, <1>4, <1>5
<1>8. /\ engine' \in Engines /\ engine'.tracked /\ Covers(engine'.pos)
      /\ engine'.from = e.from /\ engine'.pos = e.pos
  BY <1>6, <1>7 DEF Engines
<1>9. engine.made \subseteq Nat
  BY <1>0, <1>2 DEF TypeOK, Engines
<1>10. PICK m \in Answers : m = [type |-> "tick", events |-> engine.made]
  BY <1>9 DEF Answers
<1>11. m # None /\ m.type = "tick" /\ EventsOf(m) = engine.made
  BY <1>10, NoneIsNothing DEF EventsOf
<1>12. faults' \in 0..MaxFaults
  BY <1>0, <1>1 DEF TypeOK
<1> QED
  BY <1>1, <1>2, <1>6, <1>8, <1>10, <1>11, <1>12, HandlerStep

\* ... or fails, and keeps them.
LEMMA FailTickStep ==
  ASSUME IInv, FailTick
  PROVE  IInv'
<1>0. TypeOK /\ EngineFits
  BY DEF IInv, ReadInv
<1>1. /\ ~Frozen /\ Receive({"tick"}, TRUE) /\ faults < MaxFaults /\ faults' = faults + 1
      /\ engine' = [engine EXCEPT !.status = Head(inbox).status]
      /\ outbox' = Append(outbox, [type |-> "error"]) /\ UNCHANGED <<life, skipped>>
  BY DEF FailTick, Send
<1>2. /\ inbox[1] = Head(inbox) /\ inbox[1] \in Commands /\ inbox[1].type = "tick"
      /\ engine # None /\ life = "running"
  BY <1>1, ReceivedLater
<1>3. PICK told \in Nat : told = Head(inbox).status
  BY <1>2 DEF Commands
<1>4. engine \in Engines /\ engine' = [engine EXCEPT !.status = told]
  BY <1>0, <1>1, <1>2, <1>3 DEF TypeOK
<1>5. /\ engine' \in Engines /\ engine'.tracked = engine.tracked /\ engine'.pos = engine.pos
      /\ engine'.from = engine.from /\ engine'.made = engine.made /\ engine'.paused = engine.paused
  BY <1>4 DEF Engines
<1>6. engine'.tracked => Covers(engine'.pos)
  BY <1>0, <1>2, <1>5 DEF EngineFits, Tracked
<1>7. PICK m \in Answers : m = [type |-> "error"]
  BY DEF Answers
<1>8. m # None /\ m.type = "error"
  BY <1>7, NoneIsNothing
<1>9. faults' \in 0..MaxFaults /\ skipped' \subseteq Nat
  <2>1. faults \in 0..MaxFaults /\ skipped \subseteq Nat
    BY <1>0 DEF TypeOK
  <2> QED
    BY <1>1, <2>1, OneMoreFault
<1>10. Tracked => engine'.tracked
  BY <1>5 DEF Tracked
<1> QED
  BY <1>1, <1>2, <1>5, <1>6, <1>7, <1>8, <1>9, <1>10, HandlerStep

\* A request is answered; for the pause, the reader stops where the answer says.
LEMMA HandleRequestStep ==
  ASSUME IInv, HandleQuery \/ HandleExport
  PROVE  IInv'
<1>0. TypeOK /\ EngineFits
  BY DEF IInv, ReadInv
<1>1. Receive({"rpc"}, TRUE) /\ UNCHANGED <<life, faults, skipped>>
  BY DEF HandleQuery, HandleExport
<1>2. /\ inbox[1] = Head(inbox) /\ inbox[1] \in Commands /\ inbox[1].type = "rpc"
      /\ engine # None /\ life = "running"
  BY <1>1, ReceivedLater
<1>3. PICK id \in Nat : id = Head(inbox).id
  BY <1>2 DEF Commands
<1>4. PICK pos \in Cursors : pos = IF engine.tracked THEN engine.pos ELSE None
  BY <1>0, <1>2 DEF TypeOK, Engines, Cursors
<1>5. PICK none \in Cursors : none = None
  BY DEF Cursors
<1>6. engine \in Engines
  BY <1>0, <1>2 DEF TypeOK
<1>7. PICK cursor \in Cursors :
        /\ outbox' = Append(outbox, [type |-> "rpc", id |-> id, pos |-> cursor])
        /\ \/ engine' = engine /\ cursor = None
           \/ engine' = [engine EXCEPT !.paused = TRUE] /\ cursor = pos
  <2>1. CASE HandleQuery
    <3>1. outbox' = Append(outbox, [type |-> "rpc", id |-> id, pos |-> none]) /\ engine' = engine
      BY <1>3, <1>5, <2>1 DEF HandleQuery, Send
    <3> QED
      BY <1>5, <3>1
  <2>2. CASE HandleExport
    <3>1. /\ outbox' = Append(outbox, [type |-> "rpc", id |-> id, pos |-> pos])
          /\ engine' = [engine EXCEPT !.paused = TRUE]
      BY <1>3, <1>4, <2>2 DEF HandleExport, Send
    <3> QED
      BY <3>1
  <2> QED
    BY <2>1, <2>2
<1>8. /\ engine' \in Engines /\ engine'.tracked = engine.tracked /\ engine'.pos = engine.pos
      /\ engine'.from = engine.from /\ engine'.made = engine.made
      /\ engine'.paused = engine.paused \/ engine'.paused
      /\ cursor # None => cursor = pos /\ engine'.paused
  BY <1>6, <1>7 DEF Engines
<1>9. (engine.tracked => Covers(engine.pos)) /\ (pos # None => Covers(pos))
  BY <1>0, <1>2, <1>4 DEF EngineFits, Tracked
<1>10. PICK m \in Answers : m = [type |-> "rpc", id |-> id, pos |-> cursor]
  BY DEF Answers, Replies
<1>11. m # None /\ m.pos = cursor
  BY <1>10, NoneIsNothing
<1>12. faults' \in 0..MaxFaults /\ skipped' \subseteq Nat
  BY <1>0, <1>1 DEF TypeOK
<1>13. (Tracked => engine'.tracked) /\ (Frozen => engine'.paused)
  BY <1>8 DEF Tracked, Frozen
<1> QED
  BY <1>1, <1>2, <1>7, <1>8, <1>9, <1>10, <1>11, <1>12, <1>13, HandlerStep

\* The child ends.
LEMMA HandleShutdownStep ==
  ASSUME IInv, HandleShutdown
  PROVE  IInv'
<1>0. TypeOK /\ EngineFits
  BY DEF IInv, ReadInv
<1>1. /\ Receive({"shutdown"}, TRUE) /\ life' = "dead"
      /\ UNCHANGED <<outbox, engine, faults, skipped>>
  BY DEF HandleShutdown
<1>2. engine # None
  BY <1>1, ReceivedLater
<1>3. engine' \in Engines /\ faults' \in 0..MaxFaults /\ skipped' \subseteq Nat
  BY <1>0, <1>1, <1>2 DEF TypeOK
<1>4. engine'.tracked => Covers(engine'.pos)
  BY <1>0, <1>1, <1>2 DEF EngineFits, Tracked
<1>5. (Frozen => engine'.paused) /\ (Tracked => engine'.tracked)
  BY <1>1 DEF Frozen, Tracked
<1>6. PICK m \in {None} : TRUE
  OBVIOUS
<1> QED
  BY <1>1, <1>3, <1>4, <1>5, <1>6, HandlerStep

\* The log grows behind every cursor.
LEMMA WriteStep ==
  ASSUME IInv, Write
  PROVE  IInv'
<1>0. /\ TypeOK /\ InitIsFirst /\ HandsAreDraining /\ EngineFits /\ RepliesFit /\ ResumeFits
      /\ twice = {} /\ NothingLost
  BY DEF IInv, ReadInv
<1>1. /\ log < MaxRecords /\ log' = log + 1
      /\ UNCHANGED <<queueVars, childVars, proxy, threadVars, pauseVars, faults, newest, historyVars>>
  BY DEF Write
<1>2. TypeOK'
  BY <1>0, <1>1, Numbers DEF TypeOK, queueVars, childVars, threadVars, pauseVars, historyVars
<1>3. \A p : Covers(p) => Covers(p)'
  BY <1>0, <1>1, Numbers DEF Covers, TypeOK, historyVars
<1>4. log' \in Nat /\ \A r \in read : r <= log => r <= log'
  BY <1>0, <1>1, Numbers DEF TypeOK
<1>5. EngineFits'
  BY <1>0, <1>1, <1>3, <1>4 DEF EngineFits, Covers, Tracked, childVars, historyVars
<1>6. RepliesFit'
  <2>1. \A m : ReplyFits(m) => ReplyFits(m)'
    BY <1>1, <1>3 DEF ReplyFits, Frozen, childVars
  <2>2. /\ (\A i \in DOMAIN outbox : ReplyFits(outbox[i]))'
        /\ (\A t \in Threads : ReplyFits(hand[t]))'
        /\ (\A m \in proxy.replies : ReplyFits(m))'
    BY <1>0, <1>1, <2>1 DEF RepliesFit, ReplyFits, Covers, Frozen, queueVars, threadVars, childVars
  <2>3. (saved # None => Frozen /\ Covers(saved))'
    BY <1>0, <1>1, <1>3 DEF RepliesFit, Covers, Frozen, pauseVars, childVars
  <2> QED
    BY <2>2, <2>3 DEF RepliesFit
<1>7. ResumeFits'
  BY <1>0, <1>1, <1>3 DEF ResumeFits, UpdateFits, Covers, Tracked, queueVars, childVars
<1>8. InitIsFirst' /\ HandsAreDraining' /\ NothingLost' /\ twice' = {}
  BY <1>0, <1>1 DEF InitIsFirst, HandsAreDraining, Draining, NothingLost, Places, EventsOf,
     queueVars, childVars, threadVars, historyVars
<1> QED
  BY <1>2, <1>5, <1>6, <1>7, <1>8 DEF IInv, ReadInv

\* The child goes back to its poll, or hangs.
LEMMA IdleStep ==
  ASSUME IInv, QueueEmpty \/ Hang
  PROVE  IInv'
<1>0. /\ TypeOK /\ InitIsFirst /\ HandsAreDraining /\ EngineFits /\ RepliesFit /\ ResumeFits
      /\ twice = {} /\ NothingLost
  BY DEF IInv, ReadInv
<1>1. UNCHANGED <<log, queueVars, engine, proxy, threadVars, pauseVars, newest, historyVars>>
  BY DEF QueueEmpty, Hang
<1>2. life' = life \/ (life = "running" /\ life' = "hung")
  BY DEF QueueEmpty, Hang
<1>3. loop' = loop \/ loop' = [loop EXCEPT !.due = TRUE]
  BY DEF QueueEmpty, Hang
<1>4. faults' \in 0..MaxFaults
  BY <1>0, Numbers DEF QueueEmpty, Hang, TypeOK
<1>5. TypeOK'
  <2>1. loop' \in [due : BOOLEAN, messages : 0..MaxMessages, commands : 0..MaxCommands]
    BY <1>0, <1>3 DEF TypeOK
  <2> QED
    BY <1>0, <1>1, <1>2, <1>4, <2>1 DEF TypeOK, queueVars, threadVars, pauseVars, historyVars
<1>6. InitIsFirst' /\ HandsAreDraining' /\ EngineFits' /\ ResumeFits' /\ twice' = {}
  BY <1>0, <1>1 DEF InitIsFirst, HandsAreDraining, Draining, EngineFits, ResumeFits, UpdateFits,
     Covers, Tracked, queueVars, threadVars, historyVars
<1>7. RepliesFit'
  BY <1>0, <1>1 DEF RepliesFit, ReplyFits, Covers, Frozen, queueVars, threadVars, pauseVars,
     historyVars
<1>8. NothingLost'
  BY <1>0, <1>1, <1>2 DEF NothingLost, Places, EventsOf, queueVars, threadVars, historyVars
<1> QED
  BY <1>5, <1>6, <1>7, <1>8 DEF IInv, ReadInv

\* A child that crashes takes with it what it had not flushed.
LEMMA CrashStep ==
  ASSUME IInv, Crash
  PROVE  IInv'
<1>0. /\ TypeOK /\ InitIsFirst /\ HandsAreDraining /\ EngineFits /\ RepliesFit /\ ResumeFits
      /\ twice = {} /\ outbox \in Seq(Answers)
  BY DEF IInv, ReadInv, TypeOK
<1>1. /\ life' = "dead" /\ faults < MaxFaults /\ faults' = faults + 1
      /\ UNCHANGED <<log, inbox, loop, engine, proxy, threadVars, pauseVars, newest, historyVars>>
  BY DEF Crash
<1>2. PICK n \in 0..Len(outbox) : outbox' = SubSeq(outbox, 1, n)
  BY DEF Crash
<1>3. /\ outbox' \in Seq(Answers)
      /\ \A i \in DOMAIN outbox' : i \in DOMAIN outbox /\ outbox'[i] = outbox[i]
  BY <1>0, <1>2
<1>4. TypeOK'
  BY <1>0, <1>1, <1>3, Numbers DEF TypeOK, threadVars, pauseVars, historyVars
<1>5. InitIsFirst' /\ HandsAreDraining' /\ EngineFits' /\ ResumeFits' /\ twice' = {}
  BY <1>0, <1>1 DEF InitIsFirst, HandsAreDraining, Draining, EngineFits, ResumeFits, UpdateFits,
     Covers, Tracked, threadVars, historyVars
<1>6. RepliesFit'
  BY <1>0, <1>1, <1>3 DEF RepliesFit, ReplyFits, Covers, Frozen, threadVars, pauseVars,
     historyVars
<1>7. NothingLost'
  BY <1>1 DEF NothingLost
<1> QED
  BY <1>4, <1>5, <1>6, <1>7 DEF IInv, ReadInv

\* A poll of an engine that reads: the records are new, because the cursor is behind nothing that
\* was read, and their events are in the engine or in the message.
LEMMA ReadStep ==
  ASSUME IInv, PollEngine, Reading
  PROVE  IInv'
<1>0. /\ TypeOK /\ InitIsFirst /\ HandsAreDraining /\ EngineFits /\ RepliesFit /\ ResumeFits
      /\ twice = {} /\ NothingLost
  BY DEF IInv, ReadInv
<1>1. /\ life = "running" /\ loop' = [Fresh EXCEPT !.due = FALSE]
      /\ UNCHANGED <<log, inbox, life, proxy, threadVars, pauseVars, newest, delivered, skipped>>
  BY DEF PollEngine
<1>2. /\ engine # None /\ engine \in Engines /\ Tracked /\ ~Frozen
      /\ Covers(engine.pos) /\ Covers(log) /\ log \in Nat /\ engine.pos \in Nat
  BY <1>0, Numbers DEF Reading, Tracked, Frozen, EngineFits, TypeOK, Covers
<1>3. PICK k \in Min({engine.pos + 1, log})..log, fails \in BOOLEAN :
        LET new == (engine.pos + 1)..k
            made == engine.made \union new
        IN /\ fails => faults < MaxFaults /\ made # {}
           /\ faults' = IF fails THEN faults + 1 ELSE faults
           /\ engine' = [engine EXCEPT !.pos = k, !.made = IF fails THEN made ELSE {}]
           /\ IF fails \/ made = {} THEN UNCHANGED outbox
              ELSE Send([type |-> "events", events |-> made])
           /\ read' = read \union new
           /\ twice' = twice \union (read \intersect new)
  BY DEF PollEngine
<1>4. k \in Nat /\ engine.pos <= k /\ k <= log
  <2>1. Min({engine.pos + 1, log}) \in Nat /\ Min({engine.pos + 1, log}) \in {engine.pos + 1, log}
    BY <1>2, SmallerOf
  <2>2. engine.pos <= Min({engine.pos + 1, log})
    BY <1>2, <2>1 DEF Covers
  <2> QED
    BY <1>2, <2>1, <2>2
<1>5. PICK new \in SUBSET Nat : new = (engine.pos + 1)..k
  BY <1>2, <1>4
<1>6. PICK made \in SUBSET Nat : made = engine.made \union new
  BY <1>2 DEF Engines
<1>7. PICK left \in SUBSET Nat : left = IF fails THEN made ELSE {}
  OBVIOUS
<1>8. /\ engine' = [engine EXCEPT !.pos = k, !.made = left]
      /\ read' = read \union new /\ twice' = twice \union (read \intersect new)
      /\ faults' = IF fails THEN faults + 1 ELSE faults
      /\ fails => faults < MaxFaults
  BY <1>3, <1>5, <1>6, <1>7
<1>9. PICK m \in Answers \union {None} :
        /\ outbox' = IF m = None THEN outbox ELSE Append(outbox, m)
        /\ m # None => m.type = "events" /\ m.events = made
        /\ m = None => made \subseteq left
  <2>1. CASE fails \/ made = {}
    <3>1. outbox' = outbox
      BY <1>3, <1>5, <1>6, <2>1
    <3>2. PICK m \in {None} : TRUE
      OBVIOUS
    <3>3. made \subseteq left
      BY <1>7, <2>1
    <3> QED
      BY <3>1, <3>2, <3>3
  <2>2. CASE ~(fails \/ made = {})
    <3>1. outbox' = Append(outbox, [type |-> "events", events |-> made])
      BY <1>3, <1>5, <1>6, <2>2 DEF Send
    <3>2. PICK m \in Answers : m = [type |-> "events", events |-> made]
      BY DEF Answers
    <3>3. m # None /\ m.type = "events" /\ m.events = made
      BY <3>2, NoneIsNothing
    <3> QED
      BY <3>1, <3>2, <3>3
  <2> QED
    BY <2>1, <2>2
<1>10. /\ outbox' \in Seq(Answers)
       /\ \A i \in DOMAIN outbox' : outbox'[i] = m \/ (i \in DOMAIN outbox /\ outbox'[i] = outbox[i])
       /\ Range(outbox) \subseteq Range(outbox')
       /\ m # None => m \in Range(outbox')
  BY <1>0, <1>9, Answered
<1>11. /\ engine' \in Engines /\ engine' # None /\ engine'.tracked /\ engine'.pos = k
       /\ engine'.made = left /\ engine'.from = engine.from /\ engine'.paused = engine.paused
  <2>1. engine' \in Engines /\ engine'.tracked = engine.tracked /\ engine'.pos = k
       /\ engine'.made = left /\ engine'.from = engine.from /\ engine'.paused = engine.paused
    BY <1>2, <1>4, <1>8 DEF Engines
  <2> QED
    BY <1>2, <2>1, NoneIsNothing DEF Tracked
<1>12. twice' = {}
  BY <1>0, <1>2, <1>4, <1>5, <1>8 DEF Covers, TypeOK
<1>13. TypeOK'
  <2>1. loop' \in [due : BOOLEAN, messages : 0..MaxMessages, commands : 0..MaxCommands]
    <3>1. loop' = [due |-> FALSE, messages |-> 0, commands |-> 0]
      BY <1>1 DEF Fresh
    <3> QED
      BY <3>1, Numbers
  <2>2. faults' \in 0..MaxFaults
    BY <1>0, <1>8, Numbers DEF TypeOK
  <2>3. read' \subseteq Nat /\ twice' \subseteq Nat
    BY <1>0, <1>8, <1>12 DEF TypeOK
  <2> QED
    BY <1>0, <1>1, <1>10, <1>11, <2>1, <2>2, <2>3 DEF TypeOK, threadVars, pauseVars
<1>14. InitIsFirst' /\ HandsAreDraining' /\ ResumeFits'
  BY <1>0, <1>1, <1>2, <1>11 DEF InitIsFirst, HandsAreDraining, Draining, ResumeFits, Tracked, threadVars
<1>15. EngineFits'
  <2>1. \A r \in read' : r <= k
    BY <1>0, <1>2, <1>4, <1>5, <1>8 DEF Covers, TypeOK
  <2>2. \A r \in read' : r <= log
    BY <1>0, <1>2, <1>4, <1>5, <1>8 DEF Covers, TypeOK
  <2> QED
    BY <1>1, <1>2, <1>4, <1>11, <2>1, <2>2 DEF EngineFits, Covers
<1>16. RepliesFit'
  <2>1. \A n : ReplyFits(n) => ReplyFits(n)'
    BY <1>2 DEF ReplyFits
  <2>2. ReplyFits(m)'
    BY <1>9 DEF ReplyFits
  <2>3. (\A i \in DOMAIN outbox : ReplyFits(outbox[i]))'
    <3> SUFFICES ASSUME NEW i \in DOMAIN outbox'
                 PROVE  ReplyFits(outbox[i])'
      OBVIOUS
    <3>1. PICK n : n = outbox'[i]
      OBVIOUS
    <3>2. n = m \/ (i \in DOMAIN outbox /\ n = outbox[i])
      BY <1>10, <3>1
    <3>3. ReplyFits(n)'
      BY <1>0, <2>1, <2>2, <3>2 DEF RepliesFit
    <3> QED
      BY <3>1, <3>3 DEF ReplyFits, Covers, Frozen
  <2>4. (\A t \in Threads : ReplyFits(hand[t]))' /\ (\A n \in proxy.replies : ReplyFits(n))'
    BY <1>0, <1>1, <2>1 DEF RepliesFit, ReplyFits, Covers, Frozen, threadVars
  <2>5. saved' = None
    BY <1>0, <1>1, <1>2 DEF RepliesFit, pauseVars
  <2> QED
    BY <2>3, <2>4, <2>5 DEF RepliesFit
<1>17. NothingLost'
  <2>1. hand' = hand /\ proxy' = proxy /\ delivered' = delivered
    BY <1>1 DEF threadVars
  <2>2. made \subseteq left \union UNION {EventsOf(n) : n \in Range(outbox') \union Range(hand')}
    <3>1. CASE m = None
      BY <1>9, <3>1
    <3>2. CASE m # None
      <4>1. EventsOf(m) = made /\ m \in Range(outbox')
        BY <1>9, <1>10, <3>2 DEF EventsOf
      <4> QED
        BY <4>1
    <3> QED
      BY <3>1, <3>2
  <2>3. UNION {EventsOf(n) : n \in Range(outbox) \union Range(hand)}
          \subseteq UNION {EventsOf(n) : n \in Range(outbox') \union Range(hand')}
    BY <1>10, <2>1
  <2>4. Places \union made \subseteq Places'
    BY <1>6, <1>11, <2>1, <2>2, <2>3 DEF Places, EventsOf
  <2>5. (engine.from + 1)..engine.pos \subseteq Places
    BY <1>0, <1>1, <1>2 DEF NothingLost
  <2>6. (engine.from + 1)..k \subseteq ((engine.from + 1)..engine.pos) \union new
    BY <1>2, <1>4, <1>5 DEF Engines
  <2>7. (engine.from + 1)..k \subseteq Places'
    BY <1>6, <2>4, <2>5, <2>6
  <2> QED
    BY <1>11, <2>7 DEF NothingLost
<1> QED
  BY <1>12, <1>13, <1>14, <1>15, <1>16, <1>17 DEF IInv, ReadInv

\* A poll of an engine that does not read.
LEMMA BlindPollStep ==
  ASSUME IInv, PollEngine, ~Reading
  PROVE  IInv'
<1>0. /\ TypeOK /\ InitIsFirst /\ HandsAreDraining /\ EngineFits /\ RepliesFit /\ ResumeFits
      /\ twice = {} /\ NothingLost
  BY DEF IInv, ReadInv
<1>1. /\ loop' = [Fresh EXCEPT !.due = FALSE]
      /\ UNCHANGED <<log, inbox, life, proxy, threadVars, pauseVars, newest, delivered, skipped>>
      /\ UNCHANGED <<engine, outbox, faults, read, twice>>
  BY DEF PollEngine
<1>2. TypeOK'
  <2>1. loop' \in [due : BOOLEAN, messages : 0..MaxMessages, commands : 0..MaxCommands]
    <3>1. loop' = [due |-> FALSE, messages |-> 0, commands |-> 0]
      BY <1>1 DEF Fresh
    <3> QED
      BY <3>1, Numbers
  <2> QED
    BY <1>0, <1>1, <2>1 DEF TypeOK, threadVars, pauseVars
<1>3. InitIsFirst' /\ HandsAreDraining' /\ EngineFits' /\ ResumeFits' /\ twice' = {}
  BY <1>0, <1>1 DEF InitIsFirst, HandsAreDraining, Draining, EngineFits, ResumeFits, UpdateFits,
     Covers, Tracked, threadVars
<1>4. RepliesFit'
  BY <1>0, <1>1 DEF RepliesFit, ReplyFits, Covers, Frozen, threadVars, pauseVars
<1>5. NothingLost'
  BY <1>0, <1>1 DEF NothingLost, Places, EventsOf, threadVars
<1> QED
  BY <1>2, <1>3, <1>4, <1>5 DEF IInv, ReadInv

-----------------------------------------------------------------------------
(* A new child *)

\* ... which every step keeps.
LEMMA PausesStep ==
  ASSUME TypeOK, HandsAreDraining, PausesCounted, Next
  PROVE  PausesCounted'
<1>0. "ui" \in Threads /\ "manager" \in Threads /\ "ui" # "manager" /\ DOMAIN pc = Threads
  BY DEF Threads, TypeOK
<1>1. CASE UNCHANGED <<pc, resumes>>
  BY <1>1 DEF PausesCounted
<1>2. CASE PauseManager
  BY <1>0, <1>2 DEF PauseManager, PausesCounted, Step, Goto, pauseVars, TypeOK
<1>3. CASE StopWorker
  BY <1>0, <1>3 DEF StopWorker, PausesCounted, Step, Goto, pauseVars, TypeOK
<1>4. CASE EndDrain \/ SendUpdate \/ TickStatus \/ Collect
  <2>1. PICK q \in {"send", "idle", "drain", "collect"} : pc' = [pc EXCEPT !["manager"] = q]
    BY <1>4 DEF EndDrain, SendUpdate, TickStatus, Collect, Step, Goto
  <2>2. resumes' = resumes
    BY <1>4 DEF EndDrain, SendUpdate, TickStatus, Collect, pauseVars
  <2> QED
    BY <1>0, <2>1, <2>2 DEF PausesCounted, TypeOK
<1>5. CASE Query \/ PauseExport \/ Ask \/ AskFails \/ Replied \/ GiveUp \/ Close \/ Terminate
  <2>1. PICK q \in {"ask", "wait", "close", "idle", "join", "closed"} : pc' = [pc EXCEPT !["ui"] = q]
    BY <1>5 DEF Query, PauseExport, Ask, AskFails, Replied, GiveUp, Close, Terminate, Finish, Step, Goto
  <2>2. resumes' = resumes
    BY <1>5 DEF Query, PauseExport, Ask, AskFails, Replied, GiveUp, Close, Terminate, pauseVars
  <2> QED
    BY <1>0, <2>1, <2>2 DEF PausesCounted, TypeOK
<1>6. CASE ResumeManager
  BY <1>0, <1>6 DEF ResumeManager, PausesCounted
<1>7. CASE Write \/ Hang \/ Crash \/ Expire \/ FlushWaiting \/ PollEngine \/ QueueEmpty
  <2>1. UNCHANGED <<pc, resumes>>
    BY <1>7 DEF Write, Hang, Crash, Expire, FlushWaiting, PollEngine, QueueEmpty, threadVars, pauseVars
  <2> QED
    BY <1>1, <2>1
<1>8. ASSUME NEW types, NEW executed, Receive(types, executed)
      PROVE  PausesCounted'
  BY <1>1, <1>8 DEF Receive, threadVars, pauseVars
<1>9. CASE Ignore \/ DropExpired \/ HandleInit \/ HandleUpdate \/ HandleTick \/ FailTick \/ HandleQuery
           \/ HandleExport \/ HandleShutdown
  BY <1>8, <1>9 DEF Ignore, DropExpired, HandleInit, HandleUpdate, HandleTick, FailTick, HandleQuery,
     HandleExport, HandleShutdown
<1>10. ASSUME NEW t \in Threads, Take(t) \/ Apply(t)
       PROVE  PausesCounted'
  BY <1>1, <1>10 DEF Take, Apply, pauseVars
<1> QED
  BY <1>0, <1>2, <1>3, <1>4, <1>5, <1>6, <1>7, <1>9, <1>10 DEF Next, Child, Manager, Window

\* The new proxy takes over the cursor, and nothing else.
LEMMA ResumeManagerStep ==
  ASSUME IInv, PausesCounted, ResumeManager
  PROVE  IInv'
<1>0. /\ TypeOK /\ HandsAreDraining /\ EngineFits /\ RepliesFit /\ twice = {} /\ proxy \in Proxies
  BY DEF IInv, ReadInv, TypeOK
<1>1. /\ pc["ui"] = "closed" /\ resumes' = resumes + 1 /\ proxy' = Opened(saved) /\ saved' = None
      /\ inbox' = <<[type |-> "init"]>> /\ outbox' = <<>>
      /\ life' = "running" /\ loop' = Fresh /\ engine' = None
      /\ pc' = [t \in Threads |-> IF t = "manager" THEN "update" ELSE "idle"]
      /\ expired' = {}
      /\ UNCHANGED <<log, hand, request, faults, newest, historyVars>>
  BY DEF ResumeManager
<1>2. pc["manager"] = "stopped" /\ resumes < MaxResumes
  BY <1>0, <1>1 DEF HandsAreDraining, PausesCounted
<1>3. \A t \in Threads : hand[t] = None
  BY <1>0, <1>1, <1>2 DEF HandsAreDraining, Draining, Threads
<1>4. proxy' \in Proxies /\ proxy'.resume = saved /\ proxy'.replies = {}
  BY <1>0, <1>1 DEF Opened, Proxies, TypeOK
<1>5. /\ inbox' \in Seq(Commands) /\ outbox' \in Seq(Answers)
      /\ DOMAIN inbox' = {1} /\ inbox' # <<>> /\ inbox'[1].type = "init" /\ DOMAIN outbox' = {}
  <2>1. PICK m \in Commands : m = [type |-> "init"]
    BY DEF Commands
  <2>2. inbox' = <<m>> /\ m.type = "init"
    BY <1>1, <2>1
  <2> QED
    BY <1>1, <2>2
<1>6. TypeOK'
  <2>1. loop' \in [due : BOOLEAN, messages : 0..MaxMessages, commands : 0..MaxCommands]
    BY <1>1, Numbers DEF Fresh
  <2>2. pc' \in [Threads -> {"update", "send", "idle", "drain", "collect", "stopped",
                             "stopping", "ask", "wait", "close", "join", "closed"}]
    BY <1>1
  <2>3. resumes' \in 0..MaxResumes
    BY <1>0, <1>1, <1>2, Numbers DEF TypeOK
  <2>4. saved' \in Cursors /\ expired' \subseteq Nat /\ life' \in {"running", "hung", "dead"}
        /\ engine' \in Engines \union {None}
    BY <1>1 DEF Cursors
  <2> QED
    BY <1>0, <1>1, <1>4, <1>5, <2>1, <2>2, <2>3, <2>4 DEF TypeOK, historyVars
<1>7. InitIsFirst'
  BY <1>1, <1>5 DEF InitIsFirst
<1>8. HandsAreDraining'
  <2>1. pc'["ui"] = "idle"
    BY <1>1 DEF Threads
  <2> QED
    BY <1>1, <1>3, <2>1 DEF HandsAreDraining
<1>9. EngineFits' /\ twice' = {} /\ NothingLost'
  BY <1>0, <1>1 DEF EngineFits, Covers, Tracked, NothingLost, historyVars
<1>10. RepliesFit'
  BY <1>1, <1>3, <1>4, <1>5 DEF RepliesFit, ReplyFits
<1>11. ResumeFits'
  <2>1. inbox'[1].type # "update"
    BY <1>5
  <2>2. saved # None => Covers(saved)
    BY <1>0 DEF RepliesFit
  <2> QED
    BY <1>1, <1>4, <1>5, <2>1, <2>2 DEF ResumeFits, UpdateFits, Covers, historyVars
<1> QED
  BY <1>6, <1>7, <1>8, <1>9, <1>10, <1>11 DEF IInv, ReadInv

-----------------------------------------------------------------------------
(* The theorems *)

\* Nothing happens.
LEMMA Stutter ==
  ASSUME IInv, PausesCounted, UNCHANGED vars
  PROVE  IInv' /\ PausesCounted'
<1>1. UNCHANGED <<log, queueVars, childVars, proxy, threadVars, pauseVars, faults, newest, historyVars>>
  BY DEF vars
<1>2. TypeOK'
  BY <1>1 DEF IInv, TypeOK, queueVars, childVars, threadVars, pauseVars, historyVars
<1>3. InitIsFirst' /\ HandsAreDraining' /\ PausesCounted'
  BY <1>1 DEF IInv, InitIsFirst, HandsAreDraining, Draining, PausesCounted, queueVars, childVars,
     threadVars, pauseVars
<1>4. ReadInv'
  BY <1>1 DEF IInv, ReadInv, EngineFits, RepliesFit, ReplyFits, ResumeFits, UpdateFits, Covers,
     Tracked, Frozen, queueVars, childVars, threadVars, pauseVars, historyVars
<1>5. NothingLost'
  BY <1>1 DEF IInv, NothingLost, Places, EventsOf, queueVars, childVars, threadVars, historyVars
<1> QED
  BY <1>2, <1>3, <1>4, <1>5 DEF IInv

\* The first worker thread, with a child that has not read its first message.
LEMMA InitHolds ==
  ASSUME Init
  PROVE  IInv /\ PausesCounted
<1>1. proxy \in Proxies /\ proxy.resume = None /\ proxy.replies = {}
  BY DEF Init, Opened, Proxies, Cursors
<1>2. /\ inbox \in Seq(Commands) /\ outbox \in Seq(Answers)
      /\ DOMAIN inbox = {1} /\ inbox # <<>> /\ inbox[1].type = "init" /\ DOMAIN outbox = {}
  <2>1. PICK m \in Commands : m = [type |-> "init"]
    BY DEF Commands
  <2>2. inbox = <<m>> /\ m.type = "init" /\ outbox = <<>>
    BY <2>1 DEF Init
  <2> QED
    BY <2>2
<1>3. TypeOK
  <2>1. loop \in [due : BOOLEAN, messages : 0..MaxMessages, commands : 0..MaxCommands]
    BY Numbers DEF Init, Fresh
  <2>2. pc \in [Threads -> {"update", "send", "idle", "drain", "collect", "stopped",
                            "stopping", "ask", "wait", "close", "join", "closed"}]
    BY DEF Init
  <2> QED
    BY <1>1, <1>2, <2>1, <2>2, Numbers DEF Init, TypeOK, Cursors
<1>4. InitIsFirst
  BY <1>2 DEF InitIsFirst, Init
<1>5. HandsAreDraining /\ PausesCounted
  <2>1. pc["ui"] = "idle" /\ pc["manager"] = "update" /\ \A t \in Threads : hand[t] = None
    BY DEF Init, Threads
  <2> QED
    BY <2>1 DEF HandsAreDraining, PausesCounted
<1>6. EngineFits /\ twice = {} /\ NothingLost
  BY DEF Init, EngineFits, Covers, Tracked, NothingLost
<1>7. RepliesFit
  BY <1>1, <1>2 DEF Init, RepliesFit, ReplyFits
<1>8. ResumeFits
  <2>1. inbox[1].type # "update"
    BY <1>2
  <2> QED
    BY <1>1, <1>2, <2>1 DEF ResumeFits, UpdateFits
<1> QED
  BY <1>3, <1>4, <1>5, <1>6, <1>7, <1>8 DEF IInv, ReadInv

\* Every step keeps the invariant.
LEMMA StepInvariant ==
  ASSUME IInv, PausesCounted, [Next]_vars
  PROVE  IInv' /\ PausesCounted'
<1>1. TypeOK /\ HandsAreDraining
  BY DEF IInv
<1>2. CASE UNCHANGED vars
  BY <1>2, Stutter
<1>3. CASE Next
  <2> SUFFICES IInv'
    BY <1>1, <1>3, PausesStep
  <2>2. CASE Child
    <3>1. CASE PollEngine
      BY <3>1, ReadStep, BlindPollStep
    <3>2. CASE QueueEmpty
      BY <3>2, IdleStep
    <3>3. CASE Ignore \/ DropExpired
      BY <3>3, IgnoredStep
    <3>4. CASE HandleInit
      BY <3>4, HandleInitStep
    <3>5. CASE HandleUpdate
      BY <3>5, HandleUpdateStep
    <3>6. CASE HandleTick \/ FailTick
      BY <3>6, HandleTickStep, FailTickStep
    <3>7. CASE HandleQuery \/ HandleExport
      BY <3>7, HandleRequestStep
    <3>8. CASE HandleShutdown
      BY <3>8, HandleShutdownStep
    <3> QED
      BY <2>2, <3>1, <3>2, <3>3, <3>4, <3>5, <3>6, <3>7, <3>8 DEF Child
  <2>3. ASSUME NEW t \in Threads, Take(t) \/ Apply(t)
        PROVE  IInv'
    <3>1. CASE Take(t)
      BY <3>1, TakeStep
    <3>2. CASE Apply(t)
      BY <3>2, ApplyStep
    <3> QED
      BY <2>3, <3>1, <3>2
  <2>4. "manager" \in Threads /\ "ui" \in Threads
    BY DEF Threads
  <2>5. CASE Manager
    <3>1. CASE EndDrain
      BY <3>1, EndDrainStep
    <3>2. CASE SendUpdate
      BY <3>2, SendUpdateStep
    <3>3. CASE TickStatus \/ Collect \/ StopWorker
      BY <3>3, WorkerThreadStep
    <3> QED
      BY <2>3, <2>4, <2>5, <3>1, <3>2, <3>3 DEF Manager
  <2>6. CASE Query \/ PauseManager \/ PauseExport \/ AskFails \/ Close \/ Terminate
    BY <2>6, WindowMoves
  <2>7. CASE Window
    <3>1. CASE Ask \/ Expire \/ Replied \/ GiveUp \/ FlushWaiting
      BY <3>1, RequestStep
    <3> QED
      BY <2>3, <2>4, <2>6, <2>7, <3>1 DEF Window
  <2>8. CASE Write
    BY <2>8, WriteStep
  <2>9. CASE Hang
    BY <2>9, IdleStep
  <2>10. CASE Crash
    BY <2>10, CrashStep
  <2>11. CASE ResumeManager
    BY <2>11, ResumeManagerStep
  <2> QED
    BY <1>3, <2>2, <2>5, <2>6, <2>7, <2>8, <2>9, <2>10, <2>11 DEF Next
<1> QED
  BY <1>2, <1>3

\* The invariant holds in every state: where the cursors of the engine, of the answers, of the
\* saved state and of the updates lie, and where the events of the records read are.
THEOREM Invariance == Spec => [](IInv /\ PausesCounted)
<1>1. Init => IInv /\ PausesCounted
  BY InitHolds
<1>2. (IInv /\ PausesCounted) /\ [Next]_vars => (IInv /\ PausesCounted)'
  BY StepInvariant
<1> QED
  BY <1>1, <1>2, PTL DEF Spec

\* Every variable of the two processes keeps its type.
THEOREM TypeCorrect == Spec => []TypeOK
<1>1. IInv => TypeOK
  BY DEF IInv
<1> QED
  BY <1>1, Invariance, PTL

\* No record is read by two engines (pause_and_export_state, update_users).
THEOREM NeverReadTwice == Spec => []ReadOnce
<1>1. IInv => ReadOnce
  BY DEF IInv, ReadInv, ReadOnce
<1> QED
  BY <1>1, Invariance, PTL

\* While the child lives, the event of every record it read has reached the worker thread or is on
\* its way there (_poll_engine, _drain_out_queue).
THEOREM EventsKept == Spec => []NothingLost
<1>1. IInv => NothingLost
  BY DEF IInv
<1> QED
  BY <1>1, Invariance, PTL

-----------------------------------------------------------------------------
(* The log reader: the invariant *)

LogFiles == [on : BOOLEAN, ino : Nat, inc : Nat, recs : Seq([kind : Kinds, ts : Nat]),
             half : BOOLEAN, age : Ages]
Entries == [known : BOOLEAN, ino : Nat, rev : Nat, size : Nat, marked : BOOLEAN]

LogTypes ==
  /\ disk \in [Paths -> LogFiles] /\ owner \in [Paths -> SUBSET Accounts]
  /\ proc \in [Accounts -> 0..MaxFiles] /\ clock \in Nat /\ last \in [Accounts -> Nat]
  /\ \A p \in Paths : disk[p].half => disk[p].recs # <<>>
  /\ \A p \in Paths : disk[p].on \/ owner[p] # {} => disk[p].inc > 0
  /\ \A p \in Paths : disk[p].inc > 0 => disk[p].ino > 0

EntryTypes == files \in [Paths -> Entries] /\ pins \subseteq Generations

AttachTypes ==
  /\ tracked \subseteq Accounts /\ todo \subseteq tracked
  /\ ever \subseteq Accounts /\ suspended \subseteq Accounts
  /\ cur \in [Accounts -> TailCursors \union {Nothing}]
  /\ retired \in [Accounts -> SUBSET Generations]
  /\ status \in [Accounts -> 0..MaxFiles]
  /\ handled \in [Accounts -> SUBSET Nat] /\ excused \in [Accounts -> SUBSET Nat]

JobTypes ==
  /\ job \in [Accounts -> TailJobs \union {Nothing}]
  /\ \A u \in Accounts : job[u] # Nothing =>
       /\ job[u].at \in {"stat", "read"} => cur[u] # Nothing
       /\ job[u].at = "dispatch" => job[u].recs # <<>>

\* Accounts are resolved before the tail jobs start, and a paused engine is what it exported.
PhaseInv ==
  /\ phase \in {"idle", "resolve", "paused"}
  /\ phase # "idle" => \A u \in Accounts : job[u] = Nothing
  /\ phase # "resolve" => todo = {}
  /\ phase = "paused" => snap.cur = cur /\ snap.ever = ever /\ snap.retired = retired

TailTypes == LogTypes /\ EntryTypes /\ AttachTypes /\ JobTypes /\ PhaseInv

\* The time stamps of the records that a job has still to dispatch.
PendingOf(j) ==
  IF j # Nothing /\ j.at = "dispatch" THEN {j.recs[i].ts : i \in 1..Len(j.recs)} ELSE {}

Settled(u) == handled[u] \union excused[u] \union PendingOf(job[u])

\* Record i is behind a cursor that has read all of it, or its head if that was proof enough.
Behind(c, i) == 2 * i <= c.pos \/ (2 * i = c.pos + 1 /\ ~c.carry)

\* A cursor c and the log f that it reads: what is behind the cursor is settled.  A log that
\* lost its content since is shorter than what was read, so the reader will notice it; but
\* not a paused one, which tells by the anchor of the cursor.
Complete(f, size, c, settled) ==
  /\ f.inc > 0 /\ c.inc <= f.inc
  /\ c.inc = 0 => c.pos = 0 \/ ~f.on
  /\ c.inc = f.inc =>
       /\ c.pos <= size
       /\ \A i \in 1..Len(f.recs) : Behind(c, i) => f.recs[i].ts \in settled

Short(f, size, c) == c.inc \notin {0, f.inc} => c.pos = 0 \/ size < c.pos

CompleteAt(u) ==
  cur[u] # Nothing => Complete(disk[cur[u].gen.path], Size(cur[u].gen.path), cur[u], Settled(u))

ShortAt(u) ==
  cur[u] # Nothing /\ (phase # "paused" \/ ~cur[u].anchored) =>
    Short(disk[cur[u].gen.path], Size(cur[u].gen.path), cur[u])

CompleteInv == \A u \in Accounts : CompleteAt(u) /\ ShortAt(u)

TailInv == TailTypes /\ CompleteInv

-----------------------------------------------------------------------------
(* Numbers *)

LEMMA TailNumbers ==
  /\ MaxFiles \in Nat /\ MaxStamps \in Nat /\ MaxTroubles \in Nat /\ MaxRead \in Nat \ {0}
  /\ MaxRevision \in Nat /\ Paths = 1..MaxFiles /\ NoPath = 0 /\ NoPath \notin Paths
BY IndexAssumption, TailAssumption DEF MaxRevision, Paths, NoPath

LEMMA MinOfTwo ==
  ASSUME NEW a \in Nat, NEW b \in Nat
  PROVE  Min({a, b}) \in Nat /\ Min({a, b}) <= a /\ Min({a, b}) <= b /\ Min({a, b}) \in {a, b}
<1>1. \E x \in {a, b} : \A y \in {a, b} : x <= y
  OBVIOUS
<1>2. Min({a, b}) \in {a, b} /\ \A y \in {a, b} : Min({a, b}) <= y
  BY <1>1 DEF Min
<1> QED
  BY <1>2

LEMMA MaxOfTwo ==
  ASSUME NEW a \in Nat, NEW b \in Nat
  PROVE  Max({a, b}) \in Nat /\ Max({a, b}) >= a /\ Max({a, b}) >= b /\ Max({a, b}) \in {a, b}
<1>1. \E x \in {a, b} : \A y \in {a, b} : x >= y
  OBVIOUS
<1>2. Max({a, b}) \in {a, b} /\ \A y \in {a, b} : Max({a, b}) >= y
  BY <1>1 DEF Max
<1> QED
  BY <1>2

LEMMA MinOfThree ==
  ASSUME NEW a \in Nat, NEW b \in Nat, NEW c \in Nat
  PROVE  /\ Min({a, b, c}) \in Nat /\ Min({a, b, c}) <= a /\ Min({a, b, c}) <= b
         /\ Min({a, b, c}) <= c
<1>1. \E x \in {a, b, c} : \A y \in {a, b, c} : x <= y
  <2>1. CASE a <= b /\ a <= c
    BY <2>1
  <2>2. CASE b <= a /\ b <= c
    BY <2>2
  <2>3. CASE c <= a /\ c <= b
    BY <2>3
  <2> QED
    BY <2>1, <2>2, <2>3
<1>2. Min({a, b, c}) \in {a, b, c} /\ \A y \in {a, b, c} : Min({a, b, c}) <= y
  BY <1>1 DEF Min
<1> QED
  BY <1>2

\* A set of paths that is not empty has a greatest element.
LEMMA GreatestPath ==
  ASSUME NEW S \in SUBSET Paths, S # {}
  PROVE  Max(S) \in S /\ \A q \in S : q <= Max(S)
<1> DEFINE Less == {ss \in Nat \X Nat : ss[1] < ss[2]}
           U == {MaxFiles - p : p \in S}
<1>1. IsWellFoundedOn(Less, Nat)
  BY NatLessThanWellFounded DEF OpToRel, Less
<1>2. \A n, m \in Nat : <<n, m>> \in Less <=> n < m
  OBVIOUS
<1>3. U \subseteq Nat /\ U # {}
  <2>1. \A p \in S : MaxFiles - p \in Nat
    BY TailNumbers
  <2>2. PICK p \in S : TRUE
    OBVIOUS
  <2>3. MaxFiles - p \in U
    BY <2>2
  <2> QED
    BY <2>1, <2>3
<1>4. \A R, T, V : IsWellFoundedOn(R, T) /\ V \subseteq T /\ V # {} => \E x \in V : \A y \in V : ~(<<y, x>> \in R)
  BY WFMin
<1>5. PICK x \in U : \A y \in U : ~(<<y, x>> \in Less)
  <2> HIDE DEF U, Less
  <2> QED
    BY <1>1, <1>3, <1>4
<1>6. PICK p \in S : x = MaxFiles - p
  OBVIOUS
<1>7. \A q \in S : q <= p
  <2>1. TAKE q \in S
  <2>2. MaxFiles - q \in U /\ x \in Nat /\ MaxFiles - q \in Nat
    BY <1>3
  <2>3. ~(MaxFiles - q < x)
    <3> HIDE DEF U, Less
    <3> QED
      BY <2>2, <1>2, <1>5
  <2> QED
    BY <1>6, <2>3, TailNumbers
<1>8. S \subseteq Nat
  BY TailNumbers
<1>9. \E y \in S : \A q \in S : y >= q
  BY <1>7, <1>8
<1>10. Max(S) \in S /\ \A q \in S : Max(S) >= q
  BY <1>9 DEF Max
<1> QED
  BY <1>8, <1>10

-----------------------------------------------------------------------------
(* The index *)

\* The size of a log: its records, and one half less if the last is not complete.
LEMMA SizeFacts ==
  ASSUME LogTypes, NEW p \in Paths
  PROVE  /\ Size(p) \in Nat /\ Len(disk[p].recs) \in Nat
         /\ Size(p) = 2 * Len(disk[p].recs) - (IF disk[p].half THEN 1 ELSE 0)
         /\ Size(p) <= 2 * Len(disk[p].recs)
<1>1. PICK f \in LogFiles : f = disk[p]
  BY DEF LogTypes
<1>2. f.recs \in Seq([kind : Kinds, ts : Nat]) /\ f.half \in BOOLEAN
  BY DEF LogFiles
<1>3. Len(f.recs) \in Nat /\ (f.recs # <<>> => Len(f.recs) > 0)
  BY <1>2
<1>4. Size(p) = 2 * Len(disk[p].recs) - (IF disk[p].half THEN 1 ELSE 0)
  BY DEF Size
<1>5. disk[p].half => Len(f.recs) > 0
  BY <1>1, <1>3 DEF LogTypes
<1>6. PICK n \in Nat : n = Len(disk[p].recs) /\ (disk[p].half => n > 0)
  BY <1>1, <1>3, <1>5
<1>7. CASE disk[p].half
  BY <1>4, <1>6, <1>7
<1>8. CASE ~disk[p].half
  BY <1>4, <1>6, <1>8
<1> QED
  BY <1>7, <1>8

LEMMA SizesOf ==
  ASSUME LogTypes
  PROVE  \A p \in Paths : Size(p) \in Nat
BY SizeFacts

LEMMA FileFacts ==
  ASSUME LogTypes, NEW p \in Paths
  PROVE  /\ disk[p] \in LogFiles /\ disk[p].ino \in Nat /\ disk[p].inc \in Nat
         /\ disk[p].on \in BOOLEAN /\ disk[p].recs \in Seq([kind : Kinds, ts : Nat])
         /\ \A i \in 1..Len(disk[p].recs) : disk[p].recs[i] \in [kind : Kinds, ts : Nat]
<1>1. PICK f \in LogFiles : f = disk[p]
  BY DEF LogTypes
<1>2. f.recs \in Seq([kind : Kinds, ts : Nat])
  BY DEF LogFiles
<1>3. \A i \in 1..Len(f.recs) : f.recs[i] \in [kind : Kinds, ts : Nat]
  <2> DEFINE R == [kind : Kinds, ts : Nat]
  <2>1. PICK s \in Seq(R) : s = f.recs
    BY <1>2
  <2> HIDE DEF R
  <2>2. \A i \in 1..Len(s) : s[i] \in R
    OBVIOUS
  <2> QED
    BY <2>1, <2>2 DEF R
<1> QED
  BY <1>1, <1>2, <1>3 DEF LogFiles

LEMMA GenerationType ==
  ASSUME NEW ix \in [Paths -> Entries], NEW p \in Paths
  PROVE  Generation(ix, p) \in Generations /\ Generation(ix, p).path = p
<1>1. ix[p].ino \in Nat /\ ix[p].rev \in Nat
  BY DEF Entries
<1> QED
  BY <1>1 DEF Generation, Generations

LEMMA ReindexedType ==
  ASSUME LogTypes, NEW ix \in [Paths -> Entries], NEW p \in Paths
  PROVE  Reindexed(ix, p) \in Entries /\ Reindexed(ix, p).known /\ Reindexed(ix, p).ino = disk[p].ino
<1>0. Size(p) \in Nat /\ disk[p].ino \in Nat
  BY SizesOf, FileFacts
<1>1. PICK e \in Entries : e = ix[p]
  OBVIOUS
<1>2. e.rev \in Nat /\ e.known \in BOOLEAN
  BY DEF Entries
<1>3. PICK r \in Nat : r = Min({e.rev + 1, MaxRevision})
  BY <1>2, TailNumbers, MinOfTwo
<1>4. CASE ~e.known \/ e.ino # disk[p].ino
  BY <1>0, <1>1, <1>4 DEF Reindexed, Entries
<1>5. CASE e.known /\ e.ino = disk[p].ino /\ Size(p) < e.size
  <2>1. Reindexed(ix, p) = [e EXCEPT !.rev = r, !.size = Size(p), !.marked = FALSE]
    BY <1>1, <1>3, <1>5 DEF Reindexed
  <2> QED
    BY <1>0, <1>3, <1>5, <2>1 DEF Entries
<1>6. CASE e.known /\ e.ino = disk[p].ino /\ ~(Size(p) < e.size)
  <2>1. Reindexed(ix, p) = [e EXCEPT !.size = Size(p)]
    BY <1>1, <1>6 DEF Reindexed
  <2> QED
    BY <1>0, <1>6, <2>1 DEF Entries
<1> QED
  BY <1>2, <1>4, <1>5, <1>6

LEMMA RefreshedType ==
  ASSUME LogTypes, NEW ix \in [Paths -> Entries], NEW pn, NEW started
  PROVE  /\ Refreshed(ix, pn, started) \in [Paths -> Entries]
         /\ Polled(ix, pn, started) \in [Paths -> Entries]
<1>0. Unindexed \in Entries
  BY DEF Unindexed, Entries
<1>1. \A p \in Paths : (IF Retained(ix, pn, p, started) THEN Reindexed(ix, p) ELSE Unindexed) \in Entries
  BY <1>0, ReindexedType
<1>2. Refreshed(ix, pn, started) \in [Paths -> Entries]
  BY <1>1 DEF Refreshed
<1>3. PICK new \in [Paths -> Entries] : new = Refreshed(ix, pn, started)
  BY <1>2
<1>4. \A p \in Paths : [new[p] EXCEPT !.marked = new[p].known] \in Entries
  <2>1. TAKE p \in Paths
  <2>2. PICK e \in Entries : e = new[p]
    OBVIOUS
  <2> QED
    BY <2>2 DEF Entries
<1>5. Polled(ix, pn, started) = [p \in Paths |-> [new[p] EXCEPT !.marked = new[p].known]]
  BY <1>3 DEF Polled
<1> QED
  BY <1>2, <1>4, <1>5

LEMMA InvalidatedType ==
  ASSUME NEW ix \in [Paths -> Entries], NEW pn \in SUBSET Generations, NEW p \in Paths
  PROVE  InvalidatedFile(ix, p) \in [Paths -> Entries] /\ InvalidatedPins(ix, pn, p) \subseteq Generations
<1>1. PICK e \in Entries : e = ix[p]
  OBVIOUS
<1>2. e.rev \in Nat
  BY DEF Entries
<1>3. PICK r \in Nat : r = Min({e.rev + 1, MaxRevision})
  BY <1>2, TailNumbers, MinOfTwo
<1>4. [e EXCEPT !.rev = r, !.marked = FALSE] \in Entries
  BY DEF Entries
<1>5. [ix EXCEPT ![p].rev = Min({@ + 1, MaxRevision}), ![p].marked = FALSE]
        = [ix EXCEPT ![p] = [e EXCEPT !.rev = r, !.marked = FALSE]]
  BY <1>1, <1>3
<1>6. InvalidatedFile(ix, p) \in [Paths -> Entries]
  BY <1>4, <1>5 DEF InvalidatedFile
<1>7. InvalidatedPins(ix, pn, p) \subseteq Generations
  BY DEF InvalidatedPins
<1> QED
  BY <1>6, <1>7

LEMMA PinsKeptType ==
  ASSUME NEW old, NEW new, NEW pn \in SUBSET Generations
  PROVE  PinsKept(old, new, pn) \in SUBSET Generations /\ PinsKept(old, new, pn) \subseteq pn
BY DEF PinsKept

\* A lookup finds the newest of the candidates, if there are any.
LEMMA LookupFacts ==
  ASSUME NEW ix, NEW pn, NEW u, NEW started
  PROVE  LET found == Candidates(ix, pn, u, started)
             p     == Lookup(ix, pn, u, started)
         IN  /\ p \in Paths \union {NoPath}
             /\ p # NoPath => p \in Paths /\ p \in found /\ \A q \in found : q <= p
             /\ p = NoPath => found = {}
<1> DEFINE found == Candidates(ix, pn, u, started)
           p     == Lookup(ix, pn, u, started)
<1>1. found \in SUBSET Paths
  BY DEF Candidates
<1>2. CASE found = {}
  BY <1>2 DEF Lookup
<1>3. CASE found # {}
  <2>1. p = Max(found)
    BY <1>3 DEF Lookup
  <2>2. p \in found /\ \A q \in found : q <= p
    <3> HIDE DEF found, p
    <3> QED
      BY <1>1, <1>3, <2>1, GreatestPath
  <2> QED
    BY <1>1, <2>2, TailNumbers
<1> QED
  BY <1>2, <1>3

LEMMA LookupOwned ==
  ASSUME NEW ix, NEW pn, NEW u, NEW started, Lookup(ix, pn, u, started) # NoPath
  PROVE  LET p == Lookup(ix, pn, u, started)
         IN  p \in Paths /\ u \in owner[p] /\ ix[p].known /\ ix[p].marked
<1>1. PICK p : p = Lookup(ix, pn, u, started)
  OBVIOUS
<1>2. p \in Paths /\ p \in Candidates(ix, pn, u, started)
  BY <1>1, LookupFacts
<1> QED
  BY <1>1, <1>2 DEF Candidates

-----------------------------------------------------------------------------
(* Attaching *)

\* The same cursor but for the size that was last observed.
SameReading(c, d) ==
  /\ c # Nothing /\ d # Nothing
  /\ c.gen = d.gen /\ c.pos = d.pos /\ c.carry = d.carry /\ c.inc = d.inc
  /\ c.anchored = d.anchored

Settles(c, settled) ==
  /\ Complete(disk[c.gen.path], Size(c.gen.path), c, settled)
  /\ Short(disk[c.gen.path], Size(c.gen.path), c)

\* What _resolve_current_log may do for an account.
ResolveEffect(u) ==
  /\ pins' \subseteq Generations /\ ever' \subseteq Accounts
  /\ cur' \in [Accounts -> TailCursors \union {Nothing}]
  /\ retired' \in [Accounts -> SUBSET Generations]
  /\ excused' \in [Accounts -> SUBSET Nat] /\ excused[u] \subseteq excused'[u]
  /\ \A v \in Accounts : v # u => cur'[v] = cur[v] /\ excused'[v] = excused[v]
  /\ cur'[u] = Nothing \/ SameReading(cur'[u], cur[u]) \/ Settles(cur'[u], excused'[u])

LEMMA CursorFacts ==
  ASSUME AttachTypes, NEW u \in Accounts, cur[u] # Nothing
  PROVE  /\ cur[u] \in TailCursors /\ cur[u].gen \in Generations /\ cur[u].gen.path \in Paths
         /\ cur[u].gen.ino \in Nat /\ cur[u].gen.rev \in Nat
         /\ cur[u].pos \in Nat /\ cur[u].inc \in Nat /\ cur[u].observed \in Nat
         /\ cur[u].carry \in BOOLEAN /\ cur[u].anchored \in BOOLEAN
<1>1. cur[u] \in TailCursors
  BY DEF AttachTypes
<1>2. PICK c \in TailCursors : c = cur[u]
  BY <1>1
<1>3. c.gen \in Generations
  BY DEF TailCursors
<1>4. c.gen.path \in Paths /\ c.gen.ino \in Nat /\ c.gen.rev \in Nat
  BY <1>3 DEF Generations
<1> QED
  BY <1>1, <1>2, <1>3, <1>4 DEF TailCursors

LEMMA CursorIsSomething ==
  \A c \in TailCursors : c # Nothing
BY NothingIsNoRecord

LEMMA CursorAtFacts ==
  ASSUME NEW g \in Generations, NEW pos \in Nat, NEW observed \in Nat
  PROVE  /\ CursorAt(g, pos, observed) \in TailCursors
         /\ CursorAt(g, pos, observed).gen = g /\ CursorAt(g, pos, observed).pos = pos
         /\ CursorAt(g, pos, observed).inc = 0
         /\ ~CursorAt(g, pos, observed).anchored /\ ~CursorAt(g, pos, observed).carry
BY DEF CursorAt, TailCursors

LEMMA WarmCursorFacts ==
  ASSUME LogTypes, NEW g \in Generations
  PROVE  /\ WarmCursor(g) \in TailCursors /\ WarmCursor(g).gen = g
         /\ WarmCursor(g).pos = Size(g.path) /\ WarmCursor(g).inc = disk[g.path].inc
         /\ WarmCursor(g).observed = Size(g.path)
         /\ WarmCursor(g).anchored = (Size(g.path) > 0) /\ ~WarmCursor(g).carry
<1>1. g.path \in Paths
  BY DEF Generations
<1>2. Size(g.path) \in Nat /\ disk[g.path].inc \in Nat
  BY <1>1, SizesOf, FileFacts
<1>3. PICK n \in Nat : n = Size(g.path)
  BY <1>2
<1>4. PICK m \in Nat : m = disk[g.path].inc
  BY <1>2
<1>5. PICK a : a = (n > 0)
  OBVIOUS
<1>0. a \in BOOLEAN
  BY <1>5
<1>6. PICK c : c = [gen |-> g, pos |-> n, carry |-> FALSE, observed |-> n, inc |-> m,
                    anchored |-> a]
  OBVIOUS
<1>7. WarmCursor(g) = c
  <2>1. WarmCursor(g) = [CursorAt(g, n, n) EXCEPT !.inc = m, !.anchored = a]
    BY <1>3, <1>4, <1>5 DEF WarmCursor
  <2> QED
    BY <1>6, <2>1 DEF CursorAt
<1>8. c \in TailCursors
  BY <1>0, <1>6 DEF TailCursors
<1>9. /\ c.gen = g /\ c.pos = n /\ c.inc = m /\ c.observed = n /\ c.anchored = a /\ ~c.carry
  BY <1>6
<1> QED
  BY <1>3, <1>4, <1>5, <1>7, <1>8, <1>9

LEMMA TimeStampsType ==
  ASSUME LogTypes, NEW p \in Paths
  PROVE  /\ TimeStamps(p) \subseteq Nat
         /\ \A i \in 1..Len(disk[p].recs) : disk[p].recs[i].ts \in TimeStamps(p)
<1>1. disk[p].recs \in Seq([kind : Kinds, ts : Nat])
  BY FileFacts
<1>2. DOMAIN disk[p].recs = 1..Len(disk[p].recs)
  BY <1>1
<1>3. \A i \in 1..Len(disk[p].recs) : disk[p].recs[i].ts \in Nat
  BY FileFacts
<1> QED
  BY <1>2, <1>3 DEF TimeStamps, Range

\* A cursor at the start of a log has nothing behind it, one at the end of it everything:
\* that is what a cold start passes over.
LEMMA StartSettles ==
  ASSUME LogTypes, NEW c \in TailCursors, NEW settled, c.pos = 0, c.inc = 0,
         disk[c.gen.path].inc > 0
  PROVE  Settles(c, settled)
<1>1. c.gen.path \in Paths
  BY DEF TailCursors, Generations
<1> QED
  BY <1>1, FileFacts DEF Settles, Complete, Short

LEMMA WarmSettles ==
  ASSUME LogTypes, NEW g \in Generations, NEW settled, disk[g.path].inc > 0,
         TimeStamps(g.path) \subseteq settled
  PROVE  Settles(WarmCursor(g), settled)
<1>1. g.path \in Paths
  BY DEF Generations
<1>2. WarmCursor(g).gen = g /\ WarmCursor(g).pos = Size(g.path) /\ WarmCursor(g).inc = disk[g.path].inc
  BY WarmCursorFacts
<1>3. \A i \in 1..Len(disk[g.path].recs) : disk[g.path].recs[i].ts \in settled
  BY <1>1, TimeStampsType
<1>4. Size(g.path) \in Nat /\ disk[g.path].inc \in Nat
  BY <1>1, SizesOf, FileFacts
<1> QED
  BY <1>2, <1>3, <1>4 DEF Settles, Complete, Short

LEMMA DetachEffect ==
  ASSUME AttachTypes, NEW u \in Accounts, NEW pn \in SUBSET Generations, Detach(u, pn)
  PROVE  /\ pins' \subseteq Generations
         /\ cur' \in [Accounts -> TailCursors \union {Nothing}]
         /\ retired' \in [Accounts -> SUBSET Generations]
         /\ cur'[u] = Nothing
         /\ \A v \in Accounts : v # u => cur'[v] = cur[v]
<1>1. cur \in [Accounts -> TailCursors \union {Nothing}] /\ retired \in [Accounts -> SUBSET Generations]
  BY DEF AttachTypes
<1>2. CASE cur[u] = Nothing
  BY <1>1, <1>2 DEF Detach
<1>3. CASE cur[u] # Nothing
  <2>1. PICK g \in Generations : g = cur[u].gen
    BY <1>3, CursorFacts
  <2>2. /\ cur' = [cur EXCEPT ![u] = Nothing] /\ pins' = pn \ {g}
        /\ retired' = [retired EXCEPT ![u] = @ \union {g}]
    BY <1>3, <2>1 DEF Detach
  <2> QED
    BY <1>1, <2>2
<1> QED
  BY <1>2, <1>3

LEMMA UnresolvedEffect ==
  ASSUME AttachTypes, NEW u \in Accounts, NEW pn \in SUBSET Generations, Unresolved(pn)
  PROVE  ResolveEffect(u)
<1>1. UNCHANGED <<cur, ever, retired, excused>> /\ pins' = pn
  BY DEF Unresolved
<1>2. cur[u] # Nothing => SameReading(cur[u], cur[u])
  BY DEF SameReading
<1> QED
  BY <1>1, <1>2 DEF ResolveEffect, AttachTypes

LEMMA UnmatchedEffect ==
  ASSUME AttachTypes, NEW u \in Accounts, NEW ix, NEW pn \in SUBSET Generations, NEW started,
         Unmatched(u, ix, pn, started)
  PROVE  ResolveEffect(u)
<1>1. UNCHANGED <<ever, excused>>
  BY DEF Unmatched
<1>2. CASE Detach(u, pn)
  BY <1>1, <1>2, DetachEffect DEF ResolveEffect, AttachTypes
<1>3. CASE pins' = pn /\ UNCHANGED <<cur, retired>>
  <2>1. cur[u] # Nothing => SameReading(cur[u], cur[u])
    BY DEF SameReading
  <2> QED
    BY <1>1, <1>3, <2>1 DEF ResolveEffect, AttachTypes
<1> QED
  BY <1>2, <1>3 DEF Unmatched

LEMMA StayAttachedEffect ==
  ASSUME AttachTypes, NEW u \in Accounts, NEW ix \in [Paths -> Entries],
         NEW pn \in SUBSET Generations, NEW g \in Generations, cur[u] # Nothing,
         StayAttached(u, ix, pn, g)
  PROVE  ResolveEffect(u)
<1>1. UNCHANGED <<ever, retired, excused>> /\ pins' = pn \union {g}
  BY DEF StayAttached
<1>2. ix[g.path].size \in Nat
  BY DEF Generations, Entries
<1>3. PICK n \in Nat : n = ix[g.path].size
  BY <1>2
<1>4. PICK c \in TailCursors : c = cur[u]
  BY CursorFacts
<1>5. PICK d : d = [c EXCEPT !.observed = n]
  OBVIOUS
<1>6. d \in TailCursors
  BY <1>5 DEF TailCursors
<1>7. SameReading(d, c)
  BY <1>4, <1>5, <1>6, CursorIsSomething DEF SameReading, TailCursors
<1>8. cur' = [cur EXCEPT ![u] = d]
  BY <1>3, <1>4, <1>5 DEF StayAttached
<1> QED
  BY <1>1, <1>4, <1>6, <1>7, <1>8 DEF ResolveEffect, AttachTypes

LEMMA AttachEffect ==
  ASSUME LogTypes, AttachTypes, NEW u \in Accounts, NEW ix \in [Paths -> Entries],
         NEW pn \in SUBSET Generations, NEW g \in Generations, disk[g.path].inc > 0,
         Attach(u, ix, pn, g)
  PROVE  ResolveEffect(u)
<1>0. cur \in [Accounts -> TailCursors \union {Nothing}] /\ retired \in [Accounts -> SUBSET Generations]
        /\ excused \in [Accounts -> SUBSET Nat] /\ ever \subseteq Accounts
  BY DEF AttachTypes
<1>1. g.path \in Paths
  BY DEF Generations
<1>2. ix[g.path].size \in Nat
  BY <1>1 DEF Entries
<1>3. PICK n \in Nat : n = ix[g.path].size
  BY <1>2
<1>4. PICK given \in SUBSET Generations : given = IF cur[u] = Nothing THEN {} ELSE {cur[u].gen}
  <2>1. cur[u] # Nothing => cur[u].gen \in Generations
    BY CursorFacts
  <2> QED
    BY <2>1
<1>5. /\ pins' = (pn \ given) \union {g} /\ ever' = ever \union {u}
      /\ retired' = [retired EXCEPT ![u] = @ \union given]
  BY <1>4 DEF Attach
<1>6. /\ pins' \subseteq Generations /\ ever' \subseteq Accounts
      /\ retired' \in [Accounts -> SUBSET Generations]
  BY <1>0, <1>5
<1>7. CASE u \notin ever /\ disk[g.path].on
  <2>1. PICK c \in TailCursors : c = WarmCursor(g)
    BY WarmCursorFacts
  <2>2. cur' = [cur EXCEPT ![u] = c]
    BY <1>7, <2>1 DEF Attach
  <2>3. PICK s \in SUBSET Nat : s = TimeStamps(g.path)
    BY <1>1, TimeStampsType
  <2>4. excused' = [excused EXCEPT ![u] = @ \union s]
    BY <1>7, <2>3 DEF Attach, Warmstart
  <2>5. /\ excused' \in [Accounts -> SUBSET Nat] /\ excused[u] \subseteq excused'[u]
        /\ s \subseteq excused'[u]
        /\ \A v \in Accounts : v # u => excused'[v] = excused[v]
    BY <1>0, <2>4
  <2>6. Settles(c, excused'[u])
    BY <2>1, <2>3, <2>5, WarmSettles
  <2>7. /\ cur' \in [Accounts -> TailCursors \union {Nothing}] /\ cur'[u] = c
        /\ \A v \in Accounts : v # u => cur'[v] = cur[v]
    BY <1>0, <2>2
  <2> QED
    BY <1>6, <2>5, <2>6, <2>7 DEF ResolveEffect
<1>8. CASE ~(u \notin ever /\ disk[g.path].on)
  <2>1. PICK m \in Nat : m = IF u \in ever THEN 0 ELSE n
    OBVIOUS
  <2>2. PICK c : c = CursorAt(g, m, n)
    OBVIOUS
  <2>3. c \in TailCursors /\ c.gen = g /\ c.pos = m /\ c.inc = 0
    <3>1. n \in Nat /\ m \in Nat /\ g \in Generations
      OBVIOUS
    <3> QED
      BY <2>2, <3>1 DEF CursorAt, TailCursors
  <2>4. cur' = [cur EXCEPT ![u] = c] /\ excused' = excused
    BY <1>3, <1>8, <2>1, <2>2 DEF Attach
  <2>5. Settles(c, excused[u])
    <3>1. disk[g.path].inc \in Nat
      BY <1>1, FileFacts
    <3>2. m = 0 \/ ~disk[g.path].on
      BY <1>8, <2>1
    <3> QED
      BY <2>3, <3>1, <3>2 DEF Settles, Complete, Short
  <2> QED
    BY <1>0, <1>6, <2>3, <2>4, <2>5 DEF ResolveEffect
<1> QED
  BY <1>7, <1>8

LEMMA ResolveSinceEffect ==
  ASSUME LogTypes, AttachTypes, NEW u \in Accounts, NEW ix \in [Paths -> Entries],
         NEW pn \in SUBSET Generations, NEW started, ResolveSince(u, ix, pn, started)
  PROVE  ResolveEffect(u)
<1>1. PICK p : p = Lookup(ix, pn, u, started)
  OBVIOUS
<1>2. CASE p = NoPath
  BY <1>1, <1>2, UnmatchedEffect DEF ResolveSince
<1>3. CASE p # NoPath
  <2>1. p \in Paths /\ u \in owner[p]
    BY <1>1, <1>3, LookupOwned
  <2>2. disk[p].inc > 0
    BY <2>1 DEF LogTypes
  <2>3. PICK g \in Generations : g = Generation(ix, p) /\ g.path = p
    BY <2>1, GenerationType
  <2>4. \/ Unresolved(pn)
        \/ cur[u] # Nothing /\ StayAttached(u, ix, pn, g)
        \/ Attach(u, ix, pn, g)
    BY <1>1, <1>3, <2>3 DEF ResolveSince
  <2> QED
    BY <2>2, <2>3, <2>4, UnresolvedEffect, StayAttachedEffect, AttachEffect
<1> QED
  BY <1>2, <1>3

LEMMA ResolveWithEffect ==
  ASSUME LogTypes, AttachTypes, NEW u \in Accounts, NEW ix \in [Paths -> Entries],
         NEW pn \in SUBSET Generations, ResolveWith(u, ix, pn)
  PROVE  ResolveEffect(u)
BY UnresolvedEffect, ResolveSinceEffect DEF ResolveWith

LEMMA PollAndResolveEffect ==
  ASSUME LogTypes, AttachTypes, NEW u \in Accounts, NEW ix \in [Paths -> Entries],
         NEW pn \in SUBSET Generations, NEW started, PollAndResolve(u, ix, pn, started)
  PROVE  ResolveEffect(u) /\ files' \in [Paths -> Entries]
<1>1. PICK new \in [Paths -> Entries] : new = Polled(ix, pn, started)
  BY RefreshedType
<1>2. PICK kept \in SUBSET Generations : kept = PinsKept(ix, new, pn)
  BY PinsKeptType
<1>3. files' = new /\ ResolveSince(u, new, kept, started)
  BY <1>1, <1>2 DEF PollAndResolve
<1> QED
  BY <1>3, ResolveSinceEffect

LEMMA ResolveAfreshEffect ==
  ASSUME LogTypes, AttachTypes, NEW u \in Accounts, NEW ix \in [Paths -> Entries],
         NEW pn \in SUBSET Generations, ResolveAfresh(u, ix, pn)
  PROVE  ResolveEffect(u) /\ files' \in [Paths -> Entries]
<1>1. CASE u \in suspended
  BY <1>1, UnresolvedEffect DEF ResolveAfresh
<1>2. CASE u \notin suspended
  BY <1>2, PollAndResolveEffect DEF ResolveAfresh
<1> QED
  BY <1>1, <1>2

-----------------------------------------------------------------------------
(* What stays as it is *)

LEMMA LogStays ==
  ASSUME LogTypes, UNCHANGED logVars
  PROVE  LogTypes'
BY DEF LogTypes, logVars

LEMMA SameReadingOfSame ==
  ASSUME AttachTypes, NEW u \in Accounts, cur'[u] = cur[u]
  PROVE  cur'[u] = Nothing \/ SameReading(cur'[u], cur[u])
BY DEF SameReading

\* A cursor that has not moved over a log that has not changed.
LEMMA CompleteStays ==
  ASSUME NEW u, CompleteAt(u), ShortAt(u), SameReading(cur'[u], cur[u]), disk' = disk,
         Settled(u) \subseteq Settled(u)', phase' = "paused" \/ phase # "paused"
  PROVE  CompleteAt(u)' /\ ShortAt(u)'
<1>1. PICK p : p = cur[u].gen.path /\ p = cur'[u].gen.path
  BY DEF SameReading
<1>2. Size(p)' = Size(p)
  BY DEF Size
<1>3. PICK f : f = disk[p]
  OBVIOUS
<1>4. PICK n : n = Size(p)
  OBVIOUS
<1>5. cur[u] # Nothing /\ cur'[u] # Nothing
  BY DEF SameReading
<1>6. Complete(f, n, cur[u], Settled(u))
  BY <1>1, <1>3, <1>4, <1>5 DEF CompleteAt
<1>7. \A i : Behind(cur'[u], i) <=> Behind(cur[u], i)
  BY DEF Behind, SameReading
<1>8. Complete(f, n, cur'[u], Settled(u)')
  <2>1. cur'[u].inc = cur[u].inc /\ cur'[u].pos = cur[u].pos
    BY DEF SameReading
  <2> QED
    BY <1>6, <1>7, <2>1 DEF Complete
<1>9. CompleteAt(u)'
  BY <1>1, <1>2, <1>3, <1>4, <1>8 DEF CompleteAt
<1>10. ShortAt(u)'
  <2>1. cur'[u].inc = cur[u].inc /\ cur'[u].pos = cur[u].pos /\ cur'[u].anchored = cur[u].anchored
    BY DEF SameReading
  <2>2. phase' # "paused" \/ ~cur'[u].anchored => Short(f, n, cur[u])
    BY <1>1, <1>3, <1>4, <1>5, <2>1 DEF ShortAt
  <2>3. Short(f, n, cur'[u]) <=> Short(f, n, cur[u])
    BY <2>1 DEF Short
  <2>4. cur'[u].gen.path = p /\ disk'[p] = f
    BY <1>1, <1>3
  <2>5. Size(p)' = n
    BY <1>2, <1>4
  <2>6. ShortAt(u)' <=> (cur'[u] # Nothing /\ (phase' # "paused" \/ ~cur'[u].anchored) => Short(f, n, cur'[u]))
    BY <2>4, <2>5 DEF ShortAt
  <2> QED
    BY <2>2, <2>3, <2>6
<1> QED
  BY <1>9, <1>10

LEMMA CursorsKept ==
  ASSUME CompleteInv, disk' = disk, phase' = "paused" \/ phase # "paused",
         \A u \in Accounts : /\ cur'[u] = Nothing \/ SameReading(cur'[u], cur[u])
                             /\ Settled(u) \subseteq Settled(u)'
  PROVE  CompleteInv'
<1>1. SUFFICES ASSUME NEW u \in Accounts
               PROVE  CompleteAt(u)' /\ ShortAt(u)'
  BY DEF CompleteInv
<1>2. CASE cur'[u] = Nothing
  BY <1>2 DEF CompleteAt, ShortAt
<1>3. CASE SameReading(cur'[u], cur[u])
  BY <1>3, CompleteStays DEF CompleteInv
<1> QED
  BY <1>2, <1>3

\* A step of _resolve_current_log for an account that has nothing to dispatch.
LEMMA ResolveStep ==
  ASSUME CompleteInv, NEW u \in Accounts, ResolveEffect(u), UNCHANGED <<disk, handled>>,
         phase' = "paused" \/ phase # "paused", PendingOf(job[u]) = {},
         \A v \in Accounts : v # u => job'[v] = job[v]
  PROVE  CompleteInv'
<1>0. \A v \in Accounts : v # u => cur'[v] = cur[v] /\ excused'[v] = excused[v]
  BY DEF ResolveEffect
<1>1. \A v \in Accounts : v # u => Settled(v)' = Settled(v)
  BY <1>0 DEF Settled
<1>2. handled[u] \union excused[u] \subseteq Settled(u)' /\ excused'[u] \subseteq Settled(u)'
  BY DEF Settled, ResolveEffect
<1>3. Settled(u) \subseteq Settled(u)'
  BY <1>2 DEF Settled
<1>4. SUFFICES ASSUME NEW v \in Accounts
               PROVE  CompleteAt(v)' /\ ShortAt(v)'
  BY DEF CompleteInv
<1>5. CASE v # u
  <2>1. cur'[v] = cur[v] /\ Settled(v)' = Settled(v)
    BY <1>0, <1>1, <1>5
  <2>2. CASE cur[v] = Nothing
    BY <2>1, <2>2 DEF CompleteAt, ShortAt
  <2>3. CASE cur[v] # Nothing
    <3>1. SameReading(cur'[v], cur[v])
      BY <2>1, <2>3 DEF SameReading
    <3> QED
      BY <2>1, <3>1, CompleteStays DEF CompleteInv
  <2> QED
    BY <2>2, <2>3
<1>6. CASE v = u
  <2>1. CASE cur'[u] = Nothing
    BY <1>6, <2>1 DEF CompleteAt, ShortAt
  <2>2. CASE SameReading(cur'[u], cur[u])
    BY <1>3, <1>6, <2>2, CompleteStays DEF CompleteInv
  <2>3. CASE Settles(cur'[u], excused'[u])
    <3>1. PICK p : p = cur'[u].gen.path
      OBVIOUS
    <3>2. Size(p)' = Size(p)
      BY DEF Size
    <3>3. Complete(disk[p], Size(p), cur'[u], excused'[u]) /\ Short(disk[p], Size(p), cur'[u])
      BY <2>3, <3>1 DEF Settles
    <3>4. Complete(disk[p], Size(p), cur'[u], Settled(u)')
      BY <1>2, <3>3 DEF Complete
    <3> QED
      BY <1>6, <3>1, <3>2, <3>3, <3>4 DEF CompleteAt, ShortAt
  <2> QED
    BY <2>1, <2>2, <2>3 DEF ResolveEffect
<1> QED
  BY <1>5, <1>6

-----------------------------------------------------------------------------
(* The world goes on *)

\* A log that is appended to, or left alone.
Continued(p) ==
  /\ disk'[p].inc = disk[p].inc /\ (disk'[p].on => disk[p].on)
  /\ Len(disk'[p].recs) \in Nat /\ Len(disk'[p].recs) >= Len(disk[p].recs)
  /\ \A i \in 1..Len(disk[p].recs) : disk'[p].recs[i] = disk[p].recs[i]
  /\ \/ Size(p)' = Size(p)
     \/ Size(p)' = Size(p) + 1 /\ Noticeable(p)

LEMMA UntouchedContinues ==
  ASSUME LogTypes, NEW p \in Paths, disk'[p] = disk[p]
  PROVE  Continued(p)
<1>1. Len(disk[p].recs) \in Nat
  BY SizeFacts
<1>2. Size(p)' = Size(p)
  BY DEF Size
<1> QED
  BY <1>1, <1>2 DEF Continued

LEMMA ContinuedStep ==
  ASSUME LogTypes, AttachTypes, NEW u \in Accounts, CompleteAt(u), ShortAt(u),
         UNCHANGED <<cur, job, handled, excused, phase>>,
         cur[u] # Nothing => Continued(cur[u].gen.path)
  PROVE  CompleteAt(u)' /\ ShortAt(u)'
<1>1. CASE cur[u] = Nothing
  BY <1>1 DEF CompleteAt, ShortAt
<1>2. CASE cur[u] # Nothing
  <2>1. PICK c \in TailCursors : c = cur[u] /\ c.pos \in Nat /\ c.inc \in Nat /\ c.gen.path \in Paths
    BY <1>2, CursorFacts
  <2>2. PICK p \in Paths : p = c.gen.path
    BY <2>1
  <2>3. PICK s : s = Settled(u) /\ s = Settled(u)'
    BY DEF Settled
  <2>4. PICK n \in Nat : n = Size(p) /\ n <= 2 * Len(disk[p].recs)
    BY SizeFacts
  <2>5. PICK m : m = Size(p)'
    OBVIOUS
  <2>6. Complete(disk[p], n, c, s)
    BY <1>2, <2>1, <2>2, <2>3, <2>4 DEF CompleteAt
  <2>7. (phase # "paused" \/ ~c.anchored) => Short(disk[p], n, c)
    BY <1>2, <2>1, <2>2, <2>4 DEF ShortAt
  <2>8. /\ disk'[p].inc = disk[p].inc /\ (disk'[p].on => disk[p].on)
        /\ Len(disk'[p].recs) \in Nat /\ Len(disk'[p].recs) >= Len(disk[p].recs)
        /\ \A i \in 1..Len(disk[p].recs) : disk'[p].recs[i] = disk[p].recs[i]
        /\ m = n \/ (m = n + 1 /\ Noticeable(p))
    BY <1>2, <2>1, <2>2, <2>4, <2>5 DEF Continued
  <2>9. Len(disk[p].recs) \in Nat
    BY SizeFacts
  <2>10. Complete(disk'[p], m, c, s)
    <3>1. ASSUME c.inc = disk'[p].inc
          PROVE  /\ c.pos <= m
                 /\ \A i \in 1..Len(disk'[p].recs) : Behind(c, i) => disk'[p].recs[i].ts \in s
      <4>1. c.pos <= n /\ \A i \in 1..Len(disk[p].recs) : Behind(c, i) => disk[p].recs[i].ts \in s
        BY <2>6, <2>8, <3>1 DEF Complete
      <4>2. c.pos <= m
        BY <2>1, <2>8, <4>1
      <4>3. ASSUME NEW i \in 1..Len(disk'[p].recs), Behind(c, i)
            PROVE  disk'[p].recs[i].ts \in s
        <5>1. i \in 1..Len(disk[p].recs)
          BY <2>1, <2>4, <2>9, <4>1, <4>3 DEF Behind
        <5> QED
          BY <2>8, <4>1, <4>3, <5>1
      <4> QED
        BY <4>2, <4>3
    <3>2. disk'[p].inc > 0 /\ c.inc <= disk'[p].inc /\ (c.inc = 0 => c.pos = 0 \/ ~disk'[p].on)
      BY <2>6, <2>8 DEF Complete
    <3> QED
      BY <3>1, <3>2 DEF Complete
  <2>11. (phase # "paused" \/ ~c.anchored) => Short(disk'[p], m, c)
    <3>1. SUFFICES ASSUME phase # "paused" \/ ~c.anchored, c.inc \notin {0, disk[p].inc}, c.pos # 0
                   PROVE  m < c.pos
      BY <2>8 DEF Short
    <3>2. n < c.pos
      BY <2>7, <3>1 DEF Short
    <3>3. Noticeable(p) => n + 1 < c.pos
      BY <1>2, <2>1, <2>2, <2>4, <3>1 DEF Noticeable
    <3> QED
      BY <2>8, <3>2, <3>3
  <2>12. cur'[u] = c /\ phase' = phase
    BY <2>1
  <2> QED
    BY <2>2, <2>3, <2>5, <2>10, <2>11, <2>12 DEF CompleteAt, ShortAt
<1> QED
  BY <1>1, <1>2

LEMMA TimeStampsForType ==
  ASSUME LogTypes, NEW u, NEW kind, NEW t \in TimeStampsFor(u, kind)
  PROVE  t \in Nat
<1>1. \A q \in Paths : Merchants(q) \subseteq TimeStamps(q)
  BY DEF Merchants, TimeStamps
<1>2. \A q \in Paths : TimeStamps(q) \subseteq Nat
  BY TimeStampsType
<1>3. t = clock + 1 \/ \E q \in Paths : t \in Merchants(q)
  BY DEF TimeStampsFor
<1> QED
  BY <1>1, <1>2, <1>3 DEF LogTypes

\* Half of a record is appended.
LEMMA BeginRecordStep ==
  ASSUME LogTypes, NEW p \in Paths, NEW kind \in Kinds, BeginRecord(p, kind), Noticeable(p)
  PROVE  LogTypes' /\ \A q \in Paths : Continued(q)
<1>0. PICK u \in owner[p] : \E t \in TimeStampsFor(u, kind) :
        /\ clock' = Max({clock, t})
        /\ last' = [last EXCEPT ![u] = t]
        /\ disk' = [disk EXCEPT ![p].recs = Append(@, [kind |-> kind, ts |-> t]),
                                ![p].half = TRUE,
                                ![p].age = IF @ = "idle" THEN "old" ELSE @]
  BY DEF BeginRecord
<1>1. PICK t \in TimeStampsFor(u, kind) :
        /\ clock' = Max({clock, t})
        /\ last' = [last EXCEPT ![u] = t]
        /\ disk' = [disk EXCEPT ![p].recs = Append(@, [kind |-> kind, ts |-> t]),
                                ![p].half = TRUE,
                                ![p].age = IF @ = "idle" THEN "old" ELSE @]
  BY <1>0
<1>2. t \in Nat
  BY TimeStampsForType
<1>3. clock' \in Nat
  BY <1>1, <1>2, MaxOfTwo DEF LogTypes
<1>4. last' \in [Accounts -> Nat]
  BY <1>1, <1>2 DEF LogTypes
<1>5. PICK f \in LogFiles : f = disk[p]
  BY DEF LogTypes
<1>6. f.recs \in Seq([kind : Kinds, ts : Nat]) /\ f.age \in Ages
  BY DEF LogFiles
<1>7. PICK r \in [kind : Kinds, ts : Nat] : r = [kind |-> kind, ts |-> t]
  BY <1>2
<1>8. PICK rs \in Seq([kind : Kinds, ts : Nat]) :
        /\ rs = Append(f.recs, r)
        /\ Len(rs) = Len(f.recs) + 1 /\ \A i \in 1..Len(f.recs) : rs[i] = f.recs[i]
  <2> DEFINE R == [kind : Kinds, ts : Nat]
  <2>1. PICK s \in Seq(R) : s = f.recs
    BY <1>6
  <2>2. r \in R
    OBVIOUS
  <2> HIDE DEF R
  <2>3. Append(s, r) \in Seq(R) /\ Len(Append(s, r)) = Len(s) + 1 /\ \A i \in 1..Len(s) : Append(s, r)[i] = s[i]
    BY <2>2
  <2> QED
    BY <2>1, <2>3 DEF R
<1>9. PICK a \in Ages : a = IF f.age = "idle" THEN "old" ELSE f.age
  BY <1>6 DEF Ages
<1>10. PICK g : g = [f EXCEPT !.recs = rs, !.half = TRUE, !.age = a]
  OBVIOUS
<1>11. g \in LogFiles /\ g.recs = rs /\ g.half = TRUE /\ g.inc = f.inc /\ g.ino = f.ino /\ g.on = f.on
  BY <1>10 DEF LogFiles
<1>12. disk' = [disk EXCEPT ![p] = g]
  BY <1>1, <1>5, <1>7, <1>8, <1>9, <1>10
<1>13. disk' \in [Paths -> LogFiles] /\ disk'[p] = g /\ \A q \in Paths : q # p => disk'[q] = disk[q]
  BY <1>11, <1>12 DEF LogTypes
<1>14. rs # <<>> /\ Len(rs) \in Nat /\ Len(f.recs) \in Nat
  BY <1>6, <1>8
<1>15. UNCHANGED <<owner, proc>>
  BY DEF BeginRecord
<1>16. LogTypes'
  BY <1>3, <1>4, <1>5, <1>11, <1>13, <1>14, <1>15 DEF LogTypes
<1>17. Size(p)' = Size(p) + 1
  <2>1. Size(p) = 2 * Len(f.recs)
    BY <1>5, <1>14 DEF Size, BeginRecord
  <2>2. Size(p)' = 2 * Len(rs) - 1
    BY <1>11, <1>13, <1>14 DEF Size
  <2> QED
    BY <1>8, <1>14, <2>1, <2>2
<1>18. Continued(p)
  BY <1>5, <1>8, <1>11, <1>13, <1>14, <1>17 DEF Continued
<1>19. \A q \in Paths : q # p => Continued(q)
  BY <1>13, UntouchedContinues
<1> QED
  BY <1>16, <1>18, <1>19

\* A log whose records stay what they are.
LEMMA SameRecordsStep ==
  ASSUME LogTypes, UNCHANGED <<owner, proc, clock, last>>, disk' \in [Paths -> LogFiles],
         \A q \in Paths : /\ disk'[q].recs = disk[q].recs /\ disk'[q].inc = disk[q].inc
                          /\ disk'[q].ino = disk[q].ino /\ (disk'[q].on => disk[q].on)
                          /\ \/ disk'[q].half = disk[q].half
                             \/ disk[q].half /\ ~disk'[q].half /\ Noticeable(q)
  PROVE  LogTypes' /\ \A q \in Paths : Continued(q)
<1>1. LogTypes'
  BY DEF LogTypes
<1>2. ASSUME NEW q \in Paths
      PROVE  Continued(q)
  <2>1. PICK n \in Nat : n = Len(disk[q].recs) /\ n = Len(disk'[q].recs)
    BY SizeFacts
  <2>2. Size(q) = 2 * n - (IF disk[q].half THEN 1 ELSE 0)
    BY <2>1 DEF Size
  <2>3. Size(q)' = 2 * n - (IF disk'[q].half THEN 1 ELSE 0)
    BY <2>1 DEF Size
  <2>4. Size(q)' = Size(q) \/ (Size(q)' = Size(q) + 1 /\ Noticeable(q))
    BY <2>2, <2>3
  <2> QED
    BY <2>1, <2>4 DEF Continued
<1> QED
  BY <1>1, <1>2

LEMMA EndRecordStep ==
  ASSUME LogTypes, NEW p \in Paths, EndRecord(p), Noticeable(p)
  PROVE  LogTypes' /\ \A q \in Paths : Continued(q)
<1>1. PICK f \in LogFiles : f = disk[p]
  BY DEF LogTypes
<1>2. PICK a \in Ages : a = IF f.age = "idle" THEN "old" ELSE f.age
  BY DEF Ages, LogFiles
<1>3. PICK g : g = [f EXCEPT !.half = FALSE, !.age = a]
  OBVIOUS
<1>4. /\ g \in LogFiles /\ g.recs = f.recs /\ g.half = FALSE /\ g.inc = f.inc /\ g.ino = f.ino
      /\ g.on = f.on
  BY <1>3 DEF LogFiles
<1>5. disk' = [disk EXCEPT ![p] = g]
  BY <1>1, <1>2, <1>3 DEF EndRecord
<1>6. disk' \in [Paths -> LogFiles] /\ disk'[p] = g /\ \A q \in Paths : q # p => disk'[q] = disk[q]
  BY <1>4, <1>5 DEF LogTypes
<1>7. disk[p].half
  BY DEF EndRecord
<1>8. \A q \in Paths : /\ disk'[q].recs = disk[q].recs /\ disk'[q].inc = disk[q].inc
                       /\ disk'[q].ino = disk[q].ino /\ (disk'[q].on => disk[q].on)
                       /\ \/ disk'[q].half = disk[q].half
                          \/ disk[q].half /\ ~disk'[q].half /\ Noticeable(q)
  BY <1>1, <1>4, <1>6, <1>7
<1>9. UNCHANGED <<owner, proc, clock, last>>
  BY DEF EndRecord
<1> QED
  BY <1>6, <1>8, <1>9, SameRecordsStep

LEMMA VanishStep ==
  ASSUME LogTypes, NEW p \in Paths, Vanish(p)
  PROVE  LogTypes' /\ \A q \in Paths : Continued(q)
<1>1. PICK f \in LogFiles : f = disk[p]
  BY DEF LogTypes
<1>2. PICK g : g = [f EXCEPT !.on = FALSE]
  OBVIOUS
<1>3. /\ g \in LogFiles /\ g.recs = f.recs /\ g.half = f.half /\ g.inc = f.inc /\ g.ino = f.ino
      /\ ~g.on
  BY <1>2 DEF LogFiles
<1>4. disk' = [disk EXCEPT ![p] = g]
  BY <1>1, <1>2 DEF Vanish
<1>5. disk' \in [Paths -> LogFiles] /\ disk'[p] = g /\ \A q \in Paths : q # p => disk'[q] = disk[q]
  BY <1>3, <1>4 DEF LogTypes
<1>6. UNCHANGED <<owner, proc, clock, last>>
  BY DEF Vanish, Mishap
<1>7. \A q \in Paths : /\ disk'[q].recs = disk[q].recs /\ disk'[q].inc = disk[q].inc
                       /\ disk'[q].ino = disk[q].ino /\ (disk'[q].on => disk[q].on)
                       /\ disk'[q].half = disk[q].half
  BY <1>1, <1>3, <1>5
<1> QED
  BY <1>5, <1>6, <1>7, SameRecordsStep

LEMMA GrowIdleStep ==
  ASSUME LogTypes, NEW p \in Paths, GrowIdle(p)
  PROVE  LogTypes' /\ \A q \in Paths : Continued(q)
<1>1. UNCHANGED <<owner, proc, clock, last>>
  BY DEF GrowIdle, Mishap
<1>2. \A q \in Paths : disk'[q] = IF q <= p THEN [disk[q] EXCEPT !.age = "idle"] ELSE disk[q]
  BY DEF GrowIdle
<1>3. ASSUME NEW q \in Paths
      PROVE  /\ disk'[q] \in LogFiles
             /\ disk'[q].recs = disk[q].recs /\ disk'[q].inc = disk[q].inc
             /\ disk'[q].ino = disk[q].ino /\ (disk'[q].on => disk[q].on)
             /\ disk'[q].half = disk[q].half
  <2>1. PICK f \in LogFiles : f = disk[q]
    BY DEF LogTypes
  <2>2. [f EXCEPT !.age = "idle"] \in LogFiles
    BY DEF LogFiles, Ages
  <2> QED
    BY <1>2, <2>1, <2>2 DEF LogFiles
<1>4. disk' \in [Paths -> LogFiles]
  <2>1. disk' = [q \in Paths |-> IF q <= p THEN [disk[q] EXCEPT !.age = "idle"] ELSE disk[q]]
    BY DEF GrowIdle
  <2>2. disk' = [q \in Paths |-> disk'[q]]
    BY <2>1
  <2> QED
    BY <1>3, <2>2
<1> QED
  BY <1>1, <1>3, <1>4, SameRecordsStep

\* A log that is cut is shorter than what anybody has read of it.
LEMMA ResetStep ==
  ASSUME LogTypes, NEW p \in Paths, Reset(p)
  PROVE  /\ LogTypes' /\ \A q \in Paths : q # p => Continued(q)
         /\ Size(p)' = 0 /\ disk'[p].inc = disk[p].inc + 1 /\ disk[p].on
<1>1. PICK f \in LogFiles : f = disk[p]
  BY DEF LogTypes
<1>2. PICK ino \in {f.ino, f.ino + 1} :
        disk' = [disk EXCEPT ![p].ino = ino, ![p].inc = @ + 1, ![p].recs = <<>>,
                             ![p].half = FALSE]
  BY <1>1 DEF Reset
<1>3. f.ino \in Nat /\ f.inc \in Nat /\ <<>> \in Seq([kind : Kinds, ts : Nat])
  BY DEF LogFiles
<1>4. PICK g : g = [f EXCEPT !.ino = ino, !.inc = @ + 1, !.recs = <<>>, !.half = FALSE]
  OBVIOUS
<1>5. /\ g \in LogFiles /\ g.recs = <<>> /\ g.half = FALSE /\ g.inc = f.inc + 1 /\ g.ino = ino
      /\ g.on = f.on
  <2>1. ino \in Nat
    BY <1>3
  <2>2. PICK m \in Nat : m = f.inc + 1
    BY <1>3
  <2>3. PICK R : R = Seq([kind : Kinds, ts : Nat])
    OBVIOUS
  <2>4. g = [f EXCEPT !.ino = ino, !.inc = m, !.recs = <<>>, !.half = FALSE]
    BY <1>4, <2>2
  <2>5. <<>> \in R /\ f \in [on : BOOLEAN, ino : Nat, inc : Nat, recs : R, half : BOOLEAN, age : Ages]
    BY <1>3, <2>3 DEF LogFiles
  <2>6. /\ g \in [on : BOOLEAN, ino : Nat, inc : Nat, recs : R, half : BOOLEAN, age : Ages]
        /\ g.recs = <<>> /\ g.half = FALSE /\ g.inc = m /\ g.ino = ino /\ g.on = f.on
    BY <2>1, <2>4, <2>5
  <2> QED
    BY <2>2, <2>3, <2>6 DEF LogFiles
<1>6. disk' = [disk EXCEPT ![p] = g]
  BY <1>1, <1>2, <1>4
<1>7. disk' \in [Paths -> LogFiles] /\ disk'[p] = g /\ \A q \in Paths : q # p => disk'[q] = disk[q]
  BY <1>5, <1>6 DEF LogTypes
<1>8. UNCHANGED <<owner, proc, clock, last>> /\ disk[p].on
  BY DEF Reset, Mishap
<1>9. g.inc > 0 /\ g.ino > 0
  BY <1>1, <1>3, <1>5, <1>8 DEF LogTypes
<1>10. LogTypes'
  BY <1>5, <1>7, <1>8, <1>9 DEF LogTypes
<1>11. \A q \in Paths : q # p => Continued(q)
  BY <1>7, UntouchedContinues
<1>12. Size(p)' = 0
  BY <1>5, <1>7 DEF Size
<1> QED
  BY <1>1, <1>5, <1>7, <1>8, <1>10, <1>11, <1>12

\* A new log has a path of its own.
LEMMA LaunchStep ==
  ASSUME LogTypes, NEW u \in Accounts, Launch(u)
  PROVE  LogTypes' /\ \A q \in Paths : disk[q].inc > 0 => Continued(q)
<1>1. PICK p \in Paths :
         /\ disk[p].ino = 0
         /\ disk' = [disk EXCEPT ![p] = [NoFile EXCEPT !.on = TRUE, !.ino = 1, !.inc = 1]]
         /\ owner' = [owner EXCEPT ![p] = {u}]
         /\ proc' = [proc EXCEPT ![u] = p]
  BY DEF Launch
<1>2. PICK g : g = [NoFile EXCEPT !.on = TRUE, !.ino = 1, !.inc = 1]
  OBVIOUS
<1>3. <<>> \in Seq([kind : Kinds, ts : Nat])
  OBVIOUS
<1>4. g \in LogFiles /\ g.inc = 1 /\ g.ino = 1 /\ g.half = FALSE
  BY <1>2, <1>3 DEF NoFile, LogFiles, Ages
<1>5. disk' \in [Paths -> LogFiles] /\ disk'[p] = g /\ \A q \in Paths : q # p => disk'[q] = disk[q]
  BY <1>1, <1>2, <1>4 DEF LogTypes
<1>6. p \in 0..MaxFiles
  BY TailNumbers
<1>7. owner' \in [Paths -> SUBSET Accounts] /\ proc' \in [Accounts -> 0..MaxFiles]
        /\ \A q \in Paths : q # p => owner'[q] = owner[q]
  BY <1>1, <1>6 DEF LogTypes
<1>8. UNCHANGED <<clock, last>>
  BY DEF Launch
<1>9. LogTypes'
  <2>1. \A q \in Paths :
               /\ (disk'[q].half => disk'[q].recs # <<>>)
               /\ (disk'[q].on \/ owner'[q] # {} => disk'[q].inc > 0)
               /\ (disk'[q].inc > 0 => disk'[q].ino > 0)
    <3>1. TAKE q \in Paths
    <3>2. CASE q = p
      BY <1>4, <1>5, <3>2
    <3>3. CASE q # p
      <4>1. disk'[q] = disk[q] /\ owner'[q] = owner[q]
        BY <1>5, <1>7, <3>3
      <4> QED
        BY <4>1 DEF LogTypes
    <3> QED
      BY <3>2, <3>3
  <2> QED
    BY <1>5, <1>7, <1>8, <2>1 DEF LogTypes
<1>10. ~(disk[p].inc > 0)
  BY <1>1 DEF LogTypes
<1> QED
  BY <1>5, <1>9, <1>10, UntouchedContinues

LEMMA ExitStep ==
  ASSUME LogTypes, NEW u \in Accounts, Exit(u)
  PROVE  LogTypes' /\ \A q \in Paths : Continued(q)
<1>1. NoPath \in 0..MaxFiles
  BY TailNumbers
<1>2. proc' \in [Accounts -> 0..MaxFiles]
  BY <1>1 DEF Exit, LogTypes
<1>3. UNCHANGED <<disk, owner, clock, last>>
  BY DEF Exit
<1>4. LogTypes'
  BY <1>2, <1>3 DEF LogTypes
<1> QED
  BY <1>3, <1>4, UntouchedContinues

readerVars == <<files, loopVars, job, cursorVars, suspended, status, dedupVars, snap, tailHistory>>

LEMMA ReaderStays ==
  ASSUME TailTypes, UNCHANGED readerVars
  PROVE  EntryTypes' /\ AttachTypes' /\ JobTypes' /\ PhaseInv'
<1>1. UNCHANGED <<files, pins>> /\ UNCHANGED <<tracked, todo, ever, suspended, cur, retired>>
      /\ UNCHANGED <<status, handled, excused>> /\ UNCHANGED <<job, phase, snap>>
  BY DEF readerVars, loopVars, cursorVars, tailHistory
<1>2. EntryTypes'
  BY <1>1 DEF TailTypes, EntryTypes
<1>3. AttachTypes'
  BY <1>1 DEF TailTypes, AttachTypes
<1>4. JobTypes'
  BY <1>1 DEF TailTypes, JobTypes
<1>5. PhaseInv'
  BY <1>1 DEF TailTypes, PhaseInv
<1> QED
  BY <1>2, <1>3, <1>4, <1>5

LEMMA WorldSteps ==
  ASSUME TailInv, World
  PROVE  TailInv'
<1>0. LogTypes /\ AttachTypes /\ CompleteInv /\ TailTypes
  BY DEF TailInv, TailTypes
<1>1. UNCHANGED readerVars
  BY DEF World, readerVars
<1>2. UNCHANGED <<cur, job, handled, excused, phase>>
  BY <1>1 DEF readerVars, loopVars, cursorVars, tailHistory
<1>3. SUFFICES LogTypes' /\ CompleteInv'
  BY <1>0, <1>1, ReaderStays DEF TailInv, TailTypes
<1>4. ASSUME LogTypes', \A q \in Paths : disk[q].inc > 0 => Continued(q)
      PROVE  LogTypes' /\ CompleteInv'
  <2>1. ASSUME NEW u \in Accounts
        PROVE  CompleteAt(u)' /\ ShortAt(u)'
    <3>1. CompleteAt(u) /\ ShortAt(u)
      BY <1>0 DEF CompleteInv
    <3>2. cur[u] # Nothing => cur[u].gen.path \in Paths /\ disk[cur[u].gen.path].inc > 0
      BY <1>0, <3>1, CursorFacts DEF CompleteAt, Complete
    <3> QED
      BY <1>0, <1>2, <1>4, <3>1, <3>2, ContinuedStep
  <2> QED
    BY <1>4, <2>1 DEF CompleteInv
<1>5. ASSUME NEW p \in Paths, Reset(p)
      PROVE  LogTypes' /\ CompleteInv'
  <2>1. /\ LogTypes' /\ \A q \in Paths : q # p => Continued(q)
        /\ Size(p)' = 0 /\ disk'[p].inc = disk[p].inc + 1 /\ disk[p].on
    BY <1>0, <1>5, ResetStep
  <2>2. ASSUME NEW u \in Accounts
        PROVE  CompleteAt(u)' /\ ShortAt(u)'
    <3>1. CompleteAt(u) /\ ShortAt(u)
      BY <1>0 DEF CompleteInv
    <3>2. CASE cur[u] # Nothing /\ cur[u].gen.path = p
      <4>1. PICK c \in TailCursors : c = cur[u] /\ c.pos \in Nat /\ c.inc \in Nat /\ c.gen.path = p
        BY <1>0, <3>2, CursorFacts
      <4>2. disk[p].inc \in Nat /\ disk[p].inc > 0 /\ c.inc <= disk[p].inc /\ (c.inc = 0 => c.pos = 0)
        BY <1>0, <2>1, <3>1, <3>2, <4>1, FileFacts DEF CompleteAt, Complete
      <4>3. PICK n : n = Size(p)' /\ n = 0
        BY <2>1
      <4>4. PICK s : s = Settled(u)'
        OBVIOUS
      <4>5. Complete(disk'[p], n, c, s)
        BY <2>1, <4>1, <4>2 DEF Complete
      <4>6. Short(disk'[p], n, c)
        BY <4>1, <4>3 DEF Short
      <4>7. cur'[u] = c
        BY <1>2, <4>1
      <4> QED
        BY <4>1, <4>3, <4>4, <4>5, <4>6, <4>7 DEF CompleteAt, ShortAt
    <3>3. CASE ~(cur[u] # Nothing /\ cur[u].gen.path = p)
      <4>1. cur[u] # Nothing => Continued(cur[u].gen.path)
        BY <1>0, <2>1, <3>3, CursorFacts
      <4> QED
        BY <1>0, <1>2, <3>1, <4>1, ContinuedStep
    <3> QED
      BY <3>2, <3>3
  <2> QED
    BY <2>1, <2>2 DEF CompleteInv
<1>6. ASSUME NEW u \in Accounts, Launch(u) \/ Exit(u)
      PROVE  LogTypes' /\ CompleteInv'
  BY <1>0, <1>4, <1>6, LaunchStep, ExitStep
<1>7. ASSUME NEW p \in Paths, NEW kind \in Kinds, Noticeable(p) /\ BeginRecord(p, kind)
      PROVE  LogTypes' /\ CompleteInv'
  BY <1>0, <1>4, <1>7, BeginRecordStep
<1>8. ASSUME NEW p \in Paths, (Noticeable(p) /\ EndRecord(p)) \/ GrowIdle(p) \/ Vanish(p)
      PROVE  LogTypes' /\ CompleteInv'
  BY <1>0, <1>4, <1>8, EndRecordStep, GrowIdleStep, VanishStep
<1>9. \/ \E u \in Accounts : Launch(u) \/ Exit(u)
      \/ \E p \in Paths :
           \/ \E kind \in Kinds : Noticeable(p) /\ BeginRecord(p, kind)
           \/ (Noticeable(p) /\ EndRecord(p)) \/ GrowIdle(p) \/ Vanish(p)
           \/ Reset(p)
  BY DEF World, WorldStep
<1> QED
  BY <1>5, <1>6, <1>7, <1>8, <1>9

-----------------------------------------------------------------------------
(* The engine *)

LEMMA JobsStay ==
  ASSUME JobTypes, job' \in [Accounts -> TailJobs \union {Nothing}],
         \A v \in Accounts :
            \/ job'[v] = Nothing
            \/ job'[v] = job[v] /\ (job[v].at # "dispatch" /\ cur[v] # Nothing => cur'[v] # Nothing)
  PROVE  JobTypes'
<1>1. ASSUME NEW v \in Accounts, job'[v] # Nothing
      PROVE  /\ job'[v].at \in {"stat", "read"} => cur'[v] # Nothing
             /\ job'[v].at = "dispatch" => job'[v].recs # <<>>
  BY <1>1 DEF JobTypes
<1> QED
  BY <1>1 DEF JobTypes

LEMMA EndJobType ==
  ASSUME JobTypes, NEW u \in Accounts, EndJob(u)
  PROVE  /\ job' \in [Accounts -> TailJobs \union {Nothing}] /\ job'[u] = Nothing
         /\ \A v \in Accounts : v # u => job'[v] = job[v]
BY DEF JobTypes, EndJob

LEMMA ResolvedTypes ==
  ASSUME AttachTypes, NEW u, ResolveEffect(u), tracked' \subseteq Accounts, todo' \subseteq tracked',
         suspended' \subseteq Accounts, status' \in [Accounts -> 0..MaxFiles], handled' = handled
  PROVE  AttachTypes' /\ pins' \subseteq Generations
BY DEF AttachTypes, ResolveEffect

\* An account is resolved between the cycles, or by its job that finds nothing to read.
LEMMA ReattachStep ==
  ASSUME TailInv, NEW u \in Accounts, ResolveEffect(u), UNCHANGED logVars,
         files' \in [Paths -> Entries],
         tracked' \subseteq Accounts, todo' \subseteq tracked', suspended' \subseteq Accounts,
         status' \in [Accounts -> 0..MaxFiles], handled' = handled,
         phase # "paused", phase' = phase, phase # "resolve" => todo' = todo,
         job[u] = Nothing \/ job[u].at # "dispatch",
         \/ job' = job /\ (job[u] # Nothing => cur'[u] # Nothing)
         \/ EndJob(u)
  PROVE  TailInv'
<1>1. LogTypes /\ EntryTypes /\ AttachTypes /\ JobTypes /\ PhaseInv /\ CompleteInv
  BY DEF TailInv, TailTypes
<1>2. AttachTypes' /\ EntryTypes'
  BY <1>1, ResolvedTypes DEF EntryTypes
<1>3. /\ job' \in [Accounts -> TailJobs \union {Nothing}]
      /\ \A v \in Accounts : v # u => job'[v] = job[v]
      /\ job'[u] = Nothing \/ (job'[u] = job[u] /\ cur'[u] # Nothing)
  <2>1. CASE job' = job /\ (job[u] # Nothing => cur'[u] # Nothing)
    BY <1>1, <2>1 DEF JobTypes
  <2>2. CASE EndJob(u)
    BY <1>1, <2>2, EndJobType
  <2> QED
    BY <2>1, <2>2
<1>4. \A v \in Accounts : v # u => cur'[v] = cur[v]
  BY DEF ResolveEffect
<1>5. JobTypes'
  <2>1. \A v \in Accounts :
            \/ job'[v] = Nothing
            \/ job'[v] = job[v] /\ (job[v].at # "dispatch" /\ cur[v] # Nothing => cur'[v] # Nothing)
    BY <1>3, <1>4
  <2> QED
    BY <1>1, <1>3, <2>1, JobsStay
<1>6. PhaseInv'
  <2>1. phase = "idle" => todo' = {}
    BY <1>1 DEF PhaseInv
  <2>2. phase' = "idle" \/ \A v \in Accounts : job'[v] = Nothing
    BY <1>1, <1>3 DEF PhaseInv
  <2> QED
    BY <1>1, <2>1, <2>2 DEF PhaseInv
<1>7. PendingOf(job[u]) = {}
  BY DEF PendingOf
<1>8. disk' = disk
  BY DEF logVars
<1>9. CompleteInv'
  BY <1>1, <1>3, <1>7, <1>8, ResolveStep
<1>10. LogTypes'
  BY <1>1, LogStays
<1> QED
  BY <1>2, <1>5, <1>6, <1>9, <1>10 DEF TailInv, TailTypes

LEMMA ResolveSteps ==
  ASSUME TailInv, NEW u \in Accounts, Resolve(u)
  PROVE  TailInv'
<1>0. LogTypes /\ EntryTypes /\ AttachTypes /\ PhaseInv
  BY DEF TailInv, TailTypes
<1>1. /\ phase = "resolve" /\ u \in todo /\ ResolveWith(u, files, pins) /\ todo' = todo \ {u}
      /\ UNCHANGED <<worldVars, files, phase, tracked, job, suspended, status, handled>>
  BY DEF Resolve
<1>2. files \in [Paths -> Entries] /\ pins \in SUBSET Generations
  BY <1>0 DEF EntryTypes
<1>3. ResolveEffect(u)
  BY <1>0, <1>1, <1>2, ResolveWithEffect
<1>4. job[u] = Nothing
  BY <1>0, <1>1 DEF PhaseInv
<1>5. UNCHANGED logVars
  BY <1>1 DEF worldVars
<1>6. /\ tracked' \subseteq Accounts /\ todo' \subseteq tracked' /\ suspended' \subseteq Accounts
      /\ status' \in [Accounts -> 0..MaxFiles]
  BY <1>0, <1>1 DEF AttachTypes
<1>7. phase # "paused" /\ phase' = phase /\ job' = job /\ handled' = handled /\ files' \in [Paths -> Entries]
  BY <1>1, <1>2
<1> QED
  BY <1>1, <1>3, <1>4, <1>5, <1>6, <1>7, ReattachStep

\* What a tail job sees, before it dispatches.
LEMMA AtJob ==
  ASSUME TailInv, NEW u \in Accounts, job[u] # Nothing, job[u].at \in {"stat", "read"}
  PROVE  /\ phase = "idle" /\ cur[u] # Nothing /\ cur[u].gen.path \in Paths
         /\ cur[u] \in TailCursors /\ job[u] \in TailJobs /\ job[u].at # "dispatch"
         /\ cur[u].pos \in Nat /\ job[u].ino \in Nat /\ job[u].size \in Nat
<1>1. PhaseInv /\ JobTypes /\ AttachTypes
  BY DEF TailInv, TailTypes
<1>2. phase = "idle" /\ cur[u] # Nothing
  BY <1>1 DEF PhaseInv, JobTypes
<1>3. PICK j \in TailJobs : j = job[u]
  BY <1>1 DEF JobTypes
<1>4. j.ino \in Nat /\ j.size \in Nat
  BY DEF TailJobs
<1> QED
  BY <1>1, <1>2, <1>3, <1>4, CursorFacts

LEMMA RediscoveredStep ==
  ASSUME TailInv, NEW u \in Accounts, job[u] # Nothing, job[u].at \in {"stat", "read"},
         ResolveEffect(u), files' \in [Paths -> Entries], 
         UNCHANGED <<worldVars, loopVars, suspended, status, handled>>,
         EndJob(u) \/ (job' = job /\ cur'[u] # Nothing)
  PROVE  TailInv'
<1>0. AttachTypes
  BY DEF TailInv, TailTypes
<1>1. phase # "paused" /\ phase' = phase /\ UNCHANGED logVars /\ UNCHANGED <<tracked, todo>>
  BY AtJob DEF loopVars, worldVars
<1>2. /\ tracked' \subseteq Accounts /\ todo' \subseteq tracked' /\ suspended' \subseteq Accounts
      /\ status' \in [Accounts -> 0..MaxFiles] /\ handled' = handled
  BY <1>0, <1>1 DEF AttachTypes
<1>3. job[u].at # "dispatch"
  OBVIOUS
<1> QED
  BY <1>1, <1>2, <1>3, ReattachStep

LEMMA StatMissingStep ==
  ASSUME TailInv, NEW u \in Accounts, StatMissing(u)
  PROVE  TailInv'
<1>0. LogTypes /\ EntryTypes /\ AttachTypes
  BY DEF TailInv, TailTypes
<1>1. /\ job[u] # Nothing /\ job[u].at \in {"stat", "read"} /\ ResolveAfresh(u, files, pins)
      /\ EndJob(u) \/ (job' = job /\ cur'[u] # Nothing)
      /\ UNCHANGED <<worldVars, loopVars, suspended, status, handled>>
  BY DEF StatMissing
<1>2. ResolveEffect(u) /\ files' \in [Paths -> Entries]
  BY <1>0, <1>1, ResolveAfreshEffect DEF EntryTypes
<1> QED
  BY <1>1, <1>2, RediscoveredStep

LEMMA StatShrunkStep ==
  ASSUME TailInv, NEW u \in Accounts, StatShrunk(u)
  PROVE  TailInv'
<1>0. LogTypes /\ EntryTypes /\ AttachTypes
  BY DEF TailInv, TailTypes
<1>1. /\ job[u] # Nothing /\ job[u].at \in {"stat", "read"} /\ EndJob(u)
      /\ UNCHANGED <<worldVars, loopVars, suspended, status, handled>>
  BY DEF StatShrunk, Rediscovered
<1>2. PICK p \in Paths : p = cur[u].gen.path
  BY <1>1, AtJob
<1>3. PICK fs \in [Paths -> Entries] : fs = InvalidatedFile(files, p)
  BY <1>0, InvalidatedType DEF EntryTypes
<1>4. PICK pn \in SUBSET Generations : pn = InvalidatedPins(files, pins, p)
  BY <1>0, InvalidatedType DEF EntryTypes
<1>5. PICK ix \in [Paths -> Entries] : ix = Refreshed(fs, pn, NoPath)
  BY <1>0, RefreshedType
<1>6. PICK kept \in SUBSET Generations : kept = PinsKept(files, ix, pn)
  BY PinsKeptType
<1>7. ResolveAfresh(u, ix, kept)
  BY <1>2, <1>3, <1>4, <1>5, <1>6 DEF StatShrunk
<1>8. ResolveEffect(u) /\ files' \in [Paths -> Entries]
  BY <1>0, <1>7, ResolveAfreshEffect
<1> QED
  BY <1>1, <1>8, RediscoveredStep

LEMMA ReadStaleStep ==
  ASSUME TailInv, NEW u \in Accounts, ReadStale(u)
  PROVE  TailInv'
<1>0. LogTypes /\ EntryTypes /\ AttachTypes
  BY DEF TailInv, TailTypes
<1>1. /\ job[u] # Nothing /\ job[u].at \in {"stat", "read"} /\ EndJob(u)
      /\ UNCHANGED <<worldVars, loopVars, suspended, status, handled>>
  BY DEF ReadStale, Rediscovered
<1>2. PICK p \in Paths : p = cur[u].gen.path
  BY <1>1, AtJob
<1>3. PICK shrunk : shrunk = (disk[p].ino = job[u].ino /\ Size(p) < cur[u].pos)
  OBVIOUS
<1>4. PICK ix \in [Paths -> Entries] : ix = IF shrunk THEN InvalidatedFile(files, p) ELSE files
  BY <1>0, InvalidatedType DEF EntryTypes
<1>5. PICK pn \in SUBSET Generations : pn = IF shrunk THEN InvalidatedPins(files, pins, p) ELSE pins
  BY <1>0, InvalidatedType DEF EntryTypes
<1>6. PICK new \in [Paths -> Entries] : new = Refreshed(ix, pn, NoPath)
  BY <1>0, RefreshedType
<1>7. PICK kept \in SUBSET Generations : kept = PinsKept(ix, new, pn)
  BY PinsKeptType
<1>8. files' = new /\ ResolveWith(u, new, kept)
  BY <1>2, <1>3, <1>4, <1>5, <1>6, <1>7 DEF ReadStale
<1>9. ResolveEffect(u)
  BY <1>0, <1>8, ResolveWithEffect
<1> QED
  BY <1>1, <1>8, <1>9, RediscoveredStep

LEMMA TrackStep ==
  ASSUME TailInv, NEW u \in Accounts, Track(u)
  PROVE  TailInv'
<1>0. LogTypes /\ EntryTypes /\ AttachTypes
  BY DEF TailInv, TailTypes
<1>1. /\ phase = "idle" /\ job[u] = Nothing /\ tracked' = tracked \union {u}
      /\ UNCHANGED <<worldVars, phase, todo, job, suspended, status, handled>>
  BY DEF Track, Idle
<1>2. PICK ix \in [Paths -> Entries] : ix = Polled(files, pins, NoPath)
  BY <1>0, RefreshedType DEF EntryTypes
<1>3. PICK kept \in SUBSET Generations : kept = PinsKept(files, ix, pins)
  BY <1>0, PinsKeptType DEF EntryTypes
<1>4. files' = ix /\ ResolveWith(u, ix, kept)
  BY <1>2, <1>3 DEF Track
<1>5. ResolveEffect(u)
  BY <1>0, <1>4, ResolveWithEffect
<1>6. UNCHANGED logVars
  BY <1>1 DEF worldVars
<1>7. /\ tracked' \subseteq Accounts /\ todo' \subseteq tracked' /\ suspended' \subseteq Accounts
      /\ status' \in [Accounts -> 0..MaxFiles]
  BY <1>0, <1>1 DEF AttachTypes
<1> QED
  BY <1>1, <1>4, <1>5, <1>6, <1>7, ReattachStep

LEMMA RecoverStep ==
  ASSUME TailInv, NEW u \in Accounts, Recover(u)
  PROVE  TailInv'
<1>0. LogTypes /\ EntryTypes /\ AttachTypes
  BY DEF TailInv, TailTypes
<1>1. /\ phase = "idle" /\ job[u] = Nothing /\ tracked' = tracked \union {u}
      /\ suspended' = suspended \ {u} /\ status' = [status EXCEPT ![u] = proc[u]]
      /\ UNCHANGED <<worldVars, phase, todo, job, handled>>
  BY DEF Recover, Idle
<1>2. PICK ix \in [Paths -> Entries] : ix = Polled(files, pins, proc[u])
  BY <1>0, RefreshedType DEF EntryTypes
<1>3. PICK kept \in SUBSET Generations : kept = PinsKept(files, ix, pins)
  BY <1>0, PinsKeptType DEF EntryTypes
<1>4. (files' = ix /\ Unresolved(kept)) \/ PollAndResolve(u, files, pins, proc[u])
  BY <1>2, <1>3 DEF Recover
<1>5. ResolveEffect(u) /\ files' \in [Paths -> Entries]
  <2>1. files \in [Paths -> Entries] /\ pins \in SUBSET Generations
    BY <1>0 DEF EntryTypes
  <2> QED
    BY <1>0, <1>4, <2>1, UnresolvedEffect, PollAndResolveEffect
<1>6. UNCHANGED logVars
  BY <1>1 DEF worldVars
<1>7. /\ tracked' \subseteq Accounts /\ todo' \subseteq tracked' /\ suspended' \subseteq Accounts
      /\ status' \in [Accounts -> 0..MaxFiles]
  BY <1>0, <1>1 DEF AttachTypes, LogTypes
<1> QED
  BY <1>1, <1>5, <1>6, <1>7, ReattachStep

\* Steps that move no cursor.
LEMMA ReaderStep ==
  ASSUME TailInv, UNCHANGED logVars, EntryTypes', AttachTypes', JobTypes', PhaseInv',
         phase' = "paused" \/ phase # "paused",
         \A u \in Accounts : /\ cur'[u] = Nothing \/ SameReading(cur'[u], cur[u])
                             /\ Settled(u) \subseteq Settled(u)'
  PROVE  TailInv'
<1>1. disk' = disk /\ CompleteInv /\ LogTypes
  BY DEF logVars, TailInv, TailTypes
<1>2. CompleteInv'
  BY <1>1, CursorsKept
<1> QED
  BY <1>1, <1>2, LogStays DEF TailInv, TailTypes

LEMMA SettledGrows ==
  ASSUME NEW u, handled[u] \subseteq handled'[u], excused[u] \subseteq excused'[u],
         PendingOf(job[u]) \subseteq handled'[u] \union PendingOf(job'[u])
  PROVE  Settled(u) \subseteq Settled(u)'
BY DEF Settled

LEMMA ObservedFacts ==
  ASSUME NEW ix \in [Paths -> Entries], NEW c \in TailCursors \union {Nothing}
  PROVE  /\ Observed(ix, c) \in TailCursors \union {Nothing}
         /\ (c = Nothing /\ Observed(ix, c) = Nothing) \/ SameReading(Observed(ix, c), c)
<1>1. CASE c = Nothing
  BY <1>1 DEF Observed
<1>2. CASE c # Nothing
  <2>1. c \in TailCursors
    BY <1>2
  <2>2. c.gen.path \in Paths
    BY <2>1 DEF TailCursors, Generations
  <2>3. PICK n \in Nat : n = ix[c.gen.path].size
    BY <2>2 DEF Entries
  <2>4. PICK d : d = [c EXCEPT !.observed = n]
    OBVIOUS
  <2>5. d \in TailCursors
    BY <2>1, <2>4 DEF TailCursors
  <2>6. SameReading(d, c) /\ SameReading(c, c)
    BY <2>1, <2>4, <2>5, CursorIsSomething DEF SameReading, TailCursors
  <2>7. Observed(ix, c) = d \/ Observed(ix, c) = c
    BY <2>3, <2>4 DEF Observed
  <2> QED
    BY <2>1, <2>5, <2>6, <2>7
<1> QED
  BY <1>1, <1>2

LEMMA PollStep ==
  ASSUME TailInv, NEW due \in BOOLEAN, Poll(due)
  PROVE  TailInv'
<1>0. LogTypes /\ EntryTypes /\ AttachTypes /\ JobTypes /\ PhaseInv
  BY DEF TailInv, TailTypes
<1>1. /\ phase = "idle" /\ \A u \in Accounts : job[u] = Nothing
      /\ todo' = (IF due THEN tracked ELSE {}) /\ phase' = "resolve"
      /\ UNCHANGED <<worldVars, tracked, job, ever, retired, suspended, status, tailHistory>>
  BY DEF Poll, Idle
<1>2. PICK ix \in [Paths -> Entries] : ix = Polled(files, pins, NoPath)
  BY <1>0, RefreshedType DEF EntryTypes
<1>3. PICK kept \in SUBSET Generations : kept = PinsKept(files, ix, pins)
  BY <1>0, PinsKeptType DEF EntryTypes
<1>4. files' = ix /\ pins' = kept /\ cur' = [u \in Accounts |-> Observed(ix, cur[u])]
  BY <1>2, <1>3 DEF Poll
<1>5. \A u \in Accounts : cur[u] \in TailCursors \union {Nothing}
  BY <1>0 DEF AttachTypes
<1>6. \A u \in Accounts : /\ cur'[u] \in TailCursors \union {Nothing}
                          /\ (cur[u] = Nothing /\ cur'[u] = Nothing) \/ SameReading(cur'[u], cur[u])
  BY <1>4, <1>5, ObservedFacts
<1>7. cur' \in [Accounts -> TailCursors \union {Nothing}]
  <2>1. cur' = [u \in Accounts |-> cur'[u]]
    BY <1>4
  <2> QED
    BY <1>6, <2>1
<1>8. UNCHANGED <<tracked, ever, retired, suspended, status, handled, excused>> /\ UNCHANGED logVars /\ job' = job
  BY <1>1 DEF worldVars, tailHistory
<1>9. EntryTypes'
  BY <1>4 DEF EntryTypes
<1>10. AttachTypes'
  BY <1>0, <1>1, <1>7, <1>8 DEF AttachTypes
<1>11. JobTypes' /\ PhaseInv'
  BY <1>0, <1>1, <1>8 DEF JobTypes, PhaseInv
<1>12. \A u \in Accounts : Settled(u) \subseteq Settled(u)'
  BY <1>8 DEF Settled
<1> QED
  BY <1>1, <1>6, <1>8, <1>9, <1>10, <1>11, <1>12, ReaderStep

LEMMA JobAtType ==
  ASSUME NEW at \in {"stat", "read", "dispatch"}
  PROVE  JobAt(at) \in TailJobs /\ JobAt(at).at = at /\ JobAt(at) # Nothing
<1>1. <<>> \in Seq(TailRecords)
  OBVIOUS
<1>2. JobAt(at) \in TailJobs
  BY <1>1 DEF JobAt, TailJobs
<1> QED
  BY <1>2, NothingIsNoRecord DEF JobAt

LEMMA StartBatchStep ==
  ASSUME TailInv, StartBatch
  PROVE  TailInv'
<1>0. LogTypes /\ EntryTypes /\ AttachTypes /\ JobTypes /\ PhaseInv
  BY DEF TailInv, TailTypes
<1>1. /\ phase = "resolve" /\ phase' = "idle" /\ todo = {} /\ \A u \in Accounts : job[u] = Nothing
      /\ UNCHANGED <<worldVars, files, todo, tracked, cursorVars, suspended, status, tailHistory>>
  BY <1>0 DEF StartBatch, PhaseInv
<1>2. PICK j \in TailJobs : j = JobAt("stat") /\ j.at = "stat" /\ j # Nothing
  BY JobAtType
<1>3. job' = [u \in Accounts |->
                 IF u \in tracked /\ cur[u] # Nothing /\ cur[u].observed # cur[u].pos
                 THEN j ELSE Nothing]
  BY <1>2 DEF StartBatch
<1>4. /\ UNCHANGED <<files, pins, todo, tracked, cur, ever, retired, suspended, status, handled, excused>>
      /\ UNCHANGED logVars
  BY <1>1 DEF worldVars, tailHistory, cursorVars
<1>5. EntryTypes' /\ AttachTypes'
  BY <1>0, <1>4 DEF EntryTypes, AttachTypes
<1>6. JobTypes' /\ PhaseInv'
  BY <1>1, <1>2, <1>3, <1>4 DEF JobTypes, PhaseInv
<1>7. \A u \in Accounts : Settled(u) \subseteq Settled(u)'
  BY <1>1, <1>4, SettledGrows DEF PendingOf
<1>8. \A u \in Accounts : cur'[u] = Nothing \/ SameReading(cur'[u], cur[u])
  BY <1>0, <1>4, SameReadingOfSame
<1> QED
  BY <1>1, <1>4, <1>5, <1>6, <1>7, <1>8, ReaderStep

LEMMA StatStep ==
  ASSUME TailInv, NEW u \in Accounts, Stat(u)
  PROVE  TailInv'
<1>0. LogTypes /\ EntryTypes /\ AttachTypes /\ JobTypes /\ PhaseInv
  BY DEF TailInv, TailTypes
<1>1. /\ job[u] # Nothing /\ job[u].at = "stat"
      /\ UNCHANGED <<worldVars, files, loopVars, ever, retired, pins, suspended, status, tailHistory>>
  BY DEF Stat
<1>2. PICK p \in Paths : p = cur[u].gen.path
  BY <1>1, AtJob
<1>3. PICK c \in TailCursors : c = cur[u]
  BY <1>1, AtJob
<1>4. PICK j \in TailJobs : j = job[u] /\ j.at = "stat"
  BY <1>1, AtJob
<1>5. PICK n \in Nat : n = Size(p)
  BY <1>0, SizesOf
<1>6. PICK d : d = [c EXCEPT !.observed = n]
  OBVIOUS
<1>7. d \in TailCursors /\ SameReading(d, c)
  <2>1. d \in TailCursors
    BY <1>6 DEF TailCursors
  <2> QED
    BY <1>6, <2>1, CursorIsSomething DEF SameReading, TailCursors
<1>8. cur' = [cur EXCEPT ![u] = d]
  BY <1>2, <1>3, <1>5, <1>6 DEF Stat
<1>9. /\ cur' \in [Accounts -> TailCursors \union {Nothing}] /\ cur'[u] = d /\ d # Nothing
      /\ \A v \in Accounts : v # u => cur'[v] = cur[v]
  BY <1>0, <1>7, <1>8, CursorIsSomething DEF AttachTypes
<1>10. PICK i \in Nat : i = disk[p].ino
  BY <1>0, FileFacts
<1>11. PICK k : k = [j EXCEPT !.at = "read", !.ino = i, !.size = n]
  OBVIOUS
<1>12. k \in TailJobs /\ k.at = "read"
  BY <1>11 DEF TailJobs
<1>13. EndJob(u) \/ job' = [job EXCEPT ![u] = k]
  BY <1>2, <1>4, <1>5, <1>10, <1>11 DEF Stat
<1>14. /\ job' \in [Accounts -> TailJobs \union {Nothing}]
       /\ job'[u] \in {k, Nothing} /\ \A v \in Accounts : v # u => job'[v] = job[v]
  BY <1>0, <1>12, <1>13 DEF EndJob, JobTypes
<1>15. JobTypes'
  BY <1>0, <1>9, <1>12, <1>14 DEF JobTypes
<1>16. phase' = phase /\ phase = "idle"
  BY <1>1, AtJob DEF loopVars
<1>18. /\ UNCHANGED <<files, pins, todo, tracked, ever, retired, suspended, status, handled, excused>>
       /\ UNCHANGED logVars
  BY <1>1 DEF worldVars, tailHistory, loopVars
<1>17. PhaseInv'
  BY <1>0, <1>16, <1>18 DEF PhaseInv
<1>19. EntryTypes' /\ AttachTypes'
  BY <1>0, <1>9, <1>18 DEF EntryTypes, AttachTypes
<1>20. ASSUME NEW v \in Accounts
       PROVE  (cur'[v] = Nothing \/ SameReading(cur'[v], cur[v])) /\ Settled(v) \subseteq Settled(v)'
  <2>1. CASE v = u
    <3>1. PendingOf(job[u]) = {}
      BY <1>1 DEF PendingOf
    <3> QED
      BY <1>3, <1>7, <1>9, <1>18, <2>1, <3>1, SettledGrows
  <2>2. CASE v # u
    BY <1>0, <1>9, <1>14, <1>18, <2>2, SettledGrows, SameReadingOfSame
  <2> QED
    BY <2>1, <2>2
<1> QED
  BY <1>15, <1>16, <1>17, <1>18, <1>19, <1>20, ReaderStep

LEMMA ReadNothingStep ==
  ASSUME TailInv, NEW u \in Accounts, ReadNothing(u)
  PROVE  TailInv'
<1>0. LogTypes /\ EntryTypes /\ AttachTypes /\ JobTypes /\ PhaseInv
  BY DEF TailInv, TailTypes
<1>1. /\ job[u] # Nothing /\ job[u].at = "read" /\ EndJob(u)
      /\ UNCHANGED <<worldVars, files, loopVars, cursorVars, suspended, status, snap, tailHistory>>
  BY DEF ReadNothing, Unread
<1>2. /\ UNCHANGED <<files, pins, todo, tracked, cur, ever, retired, suspended, status, handled, excused>>
      /\ UNCHANGED logVars /\ UNCHANGED <<phase, snap>>
  BY <1>1 DEF worldVars, tailHistory, loopVars, cursorVars
<1>3. EntryTypes' /\ AttachTypes'
  BY <1>0, <1>2 DEF EntryTypes, AttachTypes
<1>4. /\ job' \in [Accounts -> TailJobs \union {Nothing}] /\ job'[u] = Nothing
      /\ \A v \in Accounts : v # u => job'[v] = job[v]
  BY <1>0, <1>1, EndJobType
<1>5. JobTypes' /\ PhaseInv'
  BY <1>0, <1>2, <1>4 DEF JobTypes, PhaseInv
<1>6. PendingOf(job[u]) = {}
  BY <1>1 DEF PendingOf
<1>7. \A v \in Accounts : Settled(v) \subseteq Settled(v)'
  BY <1>2, <1>4, <1>6, SettledGrows
<1>8. \A v \in Accounts : cur'[v] = Nothing \/ SameReading(cur'[v], cur[v])
  BY <1>0, <1>2, SameReadingOfSame
<1> QED
  BY <1>1, <1>2, <1>3, <1>5, <1>7, <1>8, AtJob, ReaderStep

-----------------------------------------------------------------------------
(* Dispatching *)

LEMMA DispatchedFacts ==
  ASSUME JobTypes, AttachTypes, NEW u \in Accounts, job[u] # Nothing, job[u].at = "dispatch",
         NEW hit \in BOOLEAN, Dispatched(u, hit)
  PROVE  /\ handled' \in [Accounts -> SUBSET Nat] /\ job' \in [Accounts -> TailJobs \union {Nothing}]
         /\ job'[u] # Nothing => job'[u].at = "dispatch" /\ job'[u].recs # <<>>
         /\ \A v \in Accounts : v # u => job'[v] = job[v] /\ handled'[v] = handled[v]
         /\ handled[u] \subseteq handled'[u]
         /\ PendingOf(job[u]) \subseteq handled'[u] \union PendingOf(job'[u])
<1>1. PICK j \in TailJobs : j = job[u] /\ j.at = "dispatch"
  BY DEF JobTypes
<1>2. PICK rs \in Seq(TailRecords) : rs = j.recs
  BY DEF TailJobs
<1>3. rs # <<>> /\ Len(rs) \in Nat /\ Len(rs) > 0 /\ Head(rs) = rs[1]
  BY <1>1, <1>2 DEF JobTypes
<1>4. rs[1] \in TailRecords
  BY <1>3
<1>5. PICK t \in Nat : t = rs[1].ts
  BY <1>4 DEF TailRecords
<1>6. handled' = [handled EXCEPT ![u] = @ \union {t}]
  BY <1>1, <1>2, <1>3, <1>5 DEF Dispatched
<1>7. /\ handled' \in [Accounts -> SUBSET Nat] /\ handled'[u] = handled[u] \union {t}
      /\ \A v \in Accounts : v # u => handled'[v] = handled[v]
  BY <1>6 DEF AttachTypes
<1>8. PendingOf(job[u]) = {rs[i].ts : i \in 1..Len(rs)}
  BY <1>1, <1>2 DEF PendingOf
<1>9. CASE Len(rs) = 1
  <2>1. EndJob(u)
    BY <1>1, <1>2, <1>9 DEF Dispatched
  <2>2. PendingOf(job[u]) = {t}
    BY <1>5, <1>8, <1>9
  <2> QED
    BY <1>7, <2>1, <2>2, EndJobType
<1>10. CASE Len(rs) # 1
  <2>0. Tail(rs) \in Seq(TailRecords) /\ Len(Tail(rs)) = Len(rs) - 1
    BY <1>3
  <2>00. Len(rs) - 1 \in Nat
    BY <1>3
  <2>1. PICK tl \in Seq(TailRecords) : tl = Tail(rs) /\ Len(tl) = Len(rs) - 1 /\ Len(tl) \in Nat
    BY <2>0, <2>00
  <2>2. \A i \in 1..Len(tl) : tl[i] = rs[i + 1]
    BY <1>3, <2>1
  <2>3. PICK k : k = [j EXCEPT !.recs = tl, !.hit = hit]
    OBVIOUS
  <2>4. k \in TailJobs /\ k.at = "dispatch" /\ k.recs = tl
    BY <1>1, <2>3 DEF TailJobs
  <2>5. job' = [job EXCEPT ![u] = k]
    <3>1. job' = [job EXCEPT ![u].recs = Tail(@), ![u].hit = hit]
      BY <1>1, <1>2, <1>10 DEF Dispatched
    <3> QED
      BY <1>1, <1>2, <2>1, <2>3, <3>1
  <2>6. /\ job' \in [Accounts -> TailJobs \union {Nothing}] /\ job'[u] = k
        /\ \A v \in Accounts : v # u => job'[v] = job[v]
    BY <2>4, <2>5 DEF JobTypes
  <2>7. k # Nothing
    BY <2>4, NothingIsNoRecord
  <2>8. PendingOf(job'[u]) = {tl[i].ts : i \in 1..Len(tl)}
    BY <2>4, <2>6, <2>7 DEF PendingOf
  <2>9. ASSUME NEW i \in 1..Len(rs)
        PROVE  rs[i].ts \in handled'[u] \union PendingOf(job'[u])
    <3>1. CASE i = 1
      BY <1>5, <1>7, <3>1
    <3>2. CASE i # 1
      <4>1. PICK m \in 1..Len(tl) : i = m + 1
        <5>1. i - 1 \in 1..Len(tl) /\ i = (i - 1) + 1
          BY <1>3, <2>1, <3>2
        <5> QED
          BY <5>1
      <4>2. rs[i].ts = tl[m].ts
        BY <2>2, <4>1
      <4> QED
        BY <2>8, <4>2
    <3> QED
      BY <3>1, <3>2
  <2>10. tl # <<>>
    <3>1. Len(tl) # 0
      BY <1>3, <1>10, <2>1
    <3> QED
      BY <3>1
  <2> QED
    BY <1>7, <1>8, <2>4, <2>6, <2>9, <2>10
<1> QED
  BY <1>9, <1>10

\* The account gives up its cursor, or keeps it.
LEMMA GivenUpTypes ==
  ASSUME TailInv, NEW u \in Accounts, UNCHANGED <<cur, retired, pins>> \/ Detach(u, pins)
  PROVE  /\ pins' \subseteq Generations
         /\ cur' \in [Accounts -> TailCursors \union {Nothing}]
         /\ retired' \in [Accounts -> SUBSET Generations]
         /\ \A v \in Accounts : cur'[v] = Nothing \/ SameReading(cur'[v], cur[v])
         /\ \A v \in Accounts : v # u => cur'[v] = cur[v]
<1>0. EntryTypes /\ AttachTypes
  BY DEF TailInv, TailTypes
<1>1. CASE UNCHANGED <<cur, retired, pins>>
  BY <1>0, <1>1, SameReadingOfSame DEF EntryTypes, AttachTypes
<1>2. CASE Detach(u, pins)
  <2>1. /\ pins' \subseteq Generations
        /\ cur' \in [Accounts -> TailCursors \union {Nothing}]
        /\ retired' \in [Accounts -> SUBSET Generations]
        /\ cur'[u] = Nothing /\ \A v \in Accounts : v # u => cur'[v] = cur[v]
    BY <1>0, <1>2, DetachEffect DEF EntryTypes
  <2> QED
    BY <1>0, <2>1, SameReadingOfSame
<1> QED
  BY <1>1, <1>2

LEMMA DispatchSteps ==
  ASSUME TailInv, NEW u \in Accounts, job[u] # Nothing, job[u].at = "dispatch",
         NEW hit \in BOOLEAN, Dispatched(u, hit), suspended' \subseteq Accounts,
         UNCHANGED <<cur, retired, pins>> \/ Detach(u, pins)
  PROVE  TailInv'
<1>0. LogTypes /\ EntryTypes /\ AttachTypes /\ JobTypes /\ PhaseInv
  BY DEF TailInv, TailTypes
<1>1. UNCHANGED <<worldVars, files, loopVars, ever, status, snap, excused>>
  BY DEF Dispatched
<1>2. phase = "idle"
  BY <1>0 DEF PhaseInv
<1>3. UNCHANGED <<files, todo, tracked, ever, status, excused>> /\ UNCHANGED logVars /\ phase' = phase
  BY <1>1 DEF worldVars, loopVars
<1>4. /\ pins' \subseteq Generations
      /\ cur' \in [Accounts -> TailCursors \union {Nothing}]
      /\ retired' \in [Accounts -> SUBSET Generations]
      /\ \A v \in Accounts : cur'[v] = Nothing \/ SameReading(cur'[v], cur[v])
      /\ \A v \in Accounts : v # u => cur'[v] = cur[v]
  BY GivenUpTypes
<1>5. /\ handled' \in [Accounts -> SUBSET Nat] /\ job' \in [Accounts -> TailJobs \union {Nothing}]
      /\ job'[u] # Nothing => job'[u].at = "dispatch" /\ job'[u].recs # <<>>
      /\ \A v \in Accounts : v # u => job'[v] = job[v] /\ handled'[v] = handled[v]
      /\ handled[u] \subseteq handled'[u]
      /\ PendingOf(job[u]) \subseteq handled'[u] \union PendingOf(job'[u])
  BY <1>0, DispatchedFacts
<1>6. EntryTypes' /\ AttachTypes'
  BY <1>0, <1>3, <1>4, <1>5 DEF EntryTypes, AttachTypes
<1>7. JobTypes'
  BY <1>0, <1>4, <1>5 DEF JobTypes
<1>8. PhaseInv'
  BY <1>0, <1>2, <1>3 DEF PhaseInv
<1>9. \A v \in Accounts : Settled(v) \subseteq Settled(v)'
  BY <1>3, <1>5, SettledGrows
<1> QED
  BY <1>2, <1>3, <1>4, <1>6, <1>7, <1>8, <1>9, ReaderStep

LEMMA AnyDispatchStep ==
  ASSUME TailInv, NEW u \in Accounts,
         \/ DispatchSeenDisconnect(u) \/ DispatchOldDisconnect(u) \/ DispatchDisconnect(u)
         \/ DispatchSeedMerchant(u) \/ DispatchMerchant(u)
  PROVE  TailInv'
<1>0. JobTypes /\ AttachTypes
  BY DEF TailInv, TailTypes
<1>1. job[u] # Nothing /\ job[u].at = "dispatch"
  BY DEF DispatchSeenDisconnect, DispatchOldDisconnect, DispatchDisconnect, DispatchSeedMerchant,
         DispatchMerchant, NextIs
<1>2. job[u].hit \in BOOLEAN
  BY <1>0, <1>1 DEF JobTypes, TailJobs
<1>3. CASE DispatchDisconnect(u)
  <2>1. Dispatched(u, TRUE) /\ Detach(u, pins) /\ suspended' = suspended \union {u}
    BY <1>3 DEF DispatchDisconnect
  <2>2. suspended' \subseteq Accounts
    BY <1>0, <2>1 DEF AttachTypes
  <2> QED
    BY <1>1, <2>1, <2>2, DispatchSteps
<1>4. CASE \/ DispatchSeenDisconnect(u) \/ DispatchOldDisconnect(u)
           \/ DispatchSeedMerchant(u) \/ DispatchMerchant(u)
  <2>1. /\ Dispatched(u, job[u].hit) \/ Dispatched(u, FALSE)
        /\ UNCHANGED <<cur, retired, pins>> /\ suspended' = suspended
    BY <1>4 DEF DispatchSeenDisconnect, DispatchOldDisconnect, DispatchSeedMerchant, DispatchMerchant
  <2>2. suspended' \subseteq Accounts
    BY <1>0, <2>1 DEF AttachTypes
  <2> QED
    BY <1>1, <1>2, <2>1, <2>2, DispatchSteps
<1> QED
  BY <1>3, <1>4

-----------------------------------------------------------------------------
(* Commands *)

LEMMA TickedStep ==
  ASSUME TailInv, NEW u \in Accounts, Ticked(u), suspended' \subseteq Accounts,
         UNCHANGED <<cur, retired, pins>> \/ Detach(u, pins)
  PROVE  TailInv'
<1>0. LogTypes /\ EntryTypes /\ AttachTypes /\ JobTypes /\ PhaseInv
  BY DEF TailInv, TailTypes
<1>1. /\ phase = "idle" /\ (\A v \in Accounts : job[v] = Nothing)
      /\ status' = [status EXCEPT ![u] = proc[u]]
      /\ UNCHANGED <<worldVars, files, loopVars, job, ever, handled, excused>>
  BY DEF Ticked, Idle
<1>2. UNCHANGED <<todo, tracked, phase>> /\ UNCHANGED logVars
  BY <1>1 DEF worldVars, loopVars
<1>3. /\ pins' \subseteq Generations
      /\ cur' \in [Accounts -> TailCursors \union {Nothing}]
      /\ retired' \in [Accounts -> SUBSET Generations]
      /\ \A v \in Accounts : cur'[v] = Nothing \/ SameReading(cur'[v], cur[v])
  BY GivenUpTypes
<1>4. status' \in [Accounts -> 0..MaxFiles]
  BY <1>0, <1>1 DEF AttachTypes, LogTypes
<1>5. EntryTypes' /\ AttachTypes'
  BY <1>0, <1>1, <1>2, <1>3, <1>4 DEF EntryTypes, AttachTypes
<1>6. JobTypes' /\ PhaseInv'
  BY <1>0, <1>1, <1>2 DEF JobTypes, PhaseInv
<1>7. \A v \in Accounts : Settled(v) \subseteq Settled(v)'
  BY <1>1, SettledGrows
<1> QED
  BY <1>1, <1>2, <1>3, <1>5, <1>6, <1>7, ReaderStep

LEMMA TickSteps ==
  ASSUME TailInv, NEW u \in Accounts, Tick(u)
  PROVE  TailInv'
<1>0. suspended \subseteq Accounts
  BY DEF TailInv, TailTypes, AttachTypes
<1>1. /\ Ticked(u) /\ (suspended' = suspended \union {u} \/ suspended' = suspended \ {u})
      /\ UNCHANGED <<cur, retired, pins>> \/ Detach(u, pins)
  BY DEF Tick, TickRunning, TickStopped, TickDisconnected, TickMenuTimeout
<1>2. suspended' \subseteq Accounts
  BY <1>0, <1>1
<1> QED
  BY <1>1, <1>2, TickedStep

LEMMA UntrackStep ==
  ASSUME TailInv, NEW u \in Accounts, Untrack(u)
  PROVE  TailInv'
<1>0. LogTypes /\ EntryTypes /\ AttachTypes /\ JobTypes /\ PhaseInv
  BY DEF TailInv, TailTypes
<1>1. /\ phase = "idle" /\ (\A v \in Accounts : job[v] = Nothing)
      /\ tracked' = tracked \ {u} /\ cur' = [cur EXCEPT ![u] = Nothing]
      /\ pins' \subseteq pins /\ retired' = [retired EXCEPT ![u] = {}]
      /\ ever' = ever \ {u} /\ suspended' = suspended \ {u}
      /\ status' = [status EXCEPT ![u] = NoPath]
      /\ UNCHANGED <<logVars, files, phase, todo, job, snap, tailHistory>>
  BY DEF Untrack, Idle
<1>2. UNCHANGED <<handled, excused>>
  BY <1>1 DEF tailHistory
<1>3. cur' \in [Accounts -> TailCursors \union {Nothing}] /\ cur'[u] = Nothing
        /\ \A v \in Accounts : v # u => cur'[v] = cur[v]
  BY <1>0, <1>1 DEF AttachTypes
<1>4. status' \in [Accounts -> 0..MaxFiles]
  BY <1>0, <1>1, TailNumbers DEF AttachTypes
<1>5. EntryTypes'
  BY <1>0, <1>1 DEF EntryTypes
<1>6. AttachTypes'
  <2>1. retired' \in [Accounts -> SUBSET Generations]
    BY <1>0, <1>1 DEF AttachTypes
  <2>2. todo' = {}
    BY <1>0, <1>1 DEF PhaseInv
  <2>3. tracked' \subseteq Accounts /\ ever' \subseteq Accounts /\ suspended' \subseteq Accounts
    BY <1>0, <1>1 DEF AttachTypes
  <2>4. handled' \in [Accounts -> SUBSET Nat] /\ excused' \in [Accounts -> SUBSET Nat]
    BY <1>0, <1>2 DEF AttachTypes
  <2> QED
    BY <1>3, <1>4, <2>1, <2>2, <2>3, <2>4 DEF AttachTypes
<1>7. JobTypes' /\ PhaseInv'
  BY <1>0, <1>1 DEF JobTypes, PhaseInv
<1>8. \A v \in Accounts : Settled(v) \subseteq Settled(v)'
  BY <1>1, <1>2, SettledGrows
<1>9. \A v \in Accounts : cur'[v] = Nothing \/ SameReading(cur'[v], cur[v])
  BY <1>0, <1>3, SameReadingOfSame
<1> QED
  BY <1>1, <1>5, <1>6, <1>7, <1>8, <1>9, ReaderStep

LEMMA PauseStep ==
  ASSUME TailInv, Pause
  PROVE  TailInv'
<1>0. LogTypes /\ EntryTypes /\ AttachTypes /\ JobTypes /\ PhaseInv
  BY DEF TailInv, TailTypes
<1>1. /\ phase = "idle" /\ phase' = "paused" /\ (\A v \in Accounts : job[v] = Nothing)
      /\ files' = [p \in Paths |-> Unindexed] /\ pins' = {}
      /\ suspended' = {} /\ status' = [u \in Accounts |-> NoPath]
      /\ UNCHANGED <<logVars, todo, tracked, job, cur, ever, retired, tailHistory>>
  BY DEF Pause, Idle
<1>2. snap'.cur = cur /\ snap'.retired = retired /\ snap'.ever = ever
  BY DEF Pause
<1>3. Unindexed \in Entries
  BY DEF Unindexed, Entries
<1>4. UNCHANGED <<handled, excused>>
  BY <1>1 DEF tailHistory
<1>5. EntryTypes'
  BY <1>1, <1>3 DEF EntryTypes
<1>6. AttachTypes'
  BY <1>0, <1>1, <1>4, TailNumbers DEF AttachTypes
<1>7. JobTypes' /\ PhaseInv'
  BY <1>0, <1>1, <1>2 DEF JobTypes, PhaseInv
<1>8. \A v \in Accounts : Settled(v) \subseteq Settled(v)'
  BY <1>1, <1>4, SettledGrows
<1>9. \A v \in Accounts : cur'[v] = Nothing \/ SameReading(cur'[v], cur[v])
  BY <1>0, <1>1, SameReadingOfSame
<1> QED
  BY <1>1, <1>5, <1>6, <1>7, <1>8, <1>9, ReaderStep

-----------------------------------------------------------------------------
(* Reading *)

EndRank(ends, x) == Cardinality({y \in ends : y <= x})

\* The ranks tell the ends apart and follow their order.
LEMMA EndRankFacts ==
  ASSUME NEW ends \in SUBSET Nat, IsFiniteSet(ends)
  PROVE  /\ Cardinality(ends) \in Nat
         /\ \A x, y \in ends : x < y => EndRank(ends, x) < EndRank(ends, y)
         /\ \A i \in 1 .. Cardinality(ends) : \E x \in ends : EndRank(ends, x) = i
<1> DEFINE Upto(x) == {y \in ends : y <= x}
           f == [x \in ends |-> EndRank(ends, x)]
           n == Cardinality(ends)
<1>1. n \in Nat
  BY FS_CardinalityType
<1>2. \A x \in ends : IsFiniteSet(Upto(x)) /\ Cardinality(Upto(x)) \in Nat /\ Cardinality(Upto(x)) <= n
  BY <1>1, FS_Subset, FS_CardinalityType
<1>3. \A x \in ends : Cardinality(Upto(x)) # 0
  BY <1>2, FS_EmptySet
<1>4. \A x \in ends : EndRank(ends, x) \in 1 .. n
  BY <1>1, <1>2, <1>3 DEF EndRank
<1>5. ASSUME NEW x \in ends, NEW y \in ends, x < y
      PROVE  EndRank(ends, x) < EndRank(ends, y)
  <2>0. x \in Nat /\ y \in Nat /\ \A z \in ends : z \in Nat
    OBVIOUS
  <2>4. \A z \in ends : z <= x => z <= y
    BY <2>0, <1>5
  <2>5. ~(y <= x) /\ y <= y
    BY <2>0, <1>5
  <2>1. Upto(x) \subseteq Upto(y) /\ y \notin Upto(x) /\ y \in Upto(y)
    BY <2>4, <2>5, Zenon
  <2>2. Cardinality(Upto(x)) <= Cardinality(Upto(y)) /\ Cardinality(Upto(x)) # Cardinality(Upto(y))
    BY <1>2, <2>1, FS_Subset
  <2> QED
    BY <1>2, <2>2 DEF EndRank
<1>6. f \in Injection(ends, 1 .. n)
  <2>1. f \in [ends -> 1 .. n]
    BY <1>4
  <2>2. ASSUME NEW x \in ends, NEW y \in ends, f[x] = f[y]
        PROVE  x = y
    <3>1. x \in Nat /\ y \in Nat /\ EndRank(ends, x) = EndRank(ends, y)
      BY <2>2
    <3>2. EndRank(ends, x) \in 1 .. n
      BY <1>4
    <3> QED
      BY <1>1, <1>5, <3>1, <3>2
  <2> QED
    BY <2>1, <2>2 DEF Injection, IsInjective
<1>7. f \in Surjection(ends, 1 .. n)
  <2>1. IsFiniteSet(1 .. n) /\ Cardinality(1 .. n) = n
    BY <1>1, FS_Interval
  <2> QED
    BY <1>1, <1>6, <2>1, FS_Injection
<1>8. \A i \in 1 .. n : \E x \in ends : EndRank(ends, x) = i
  BY <1>7 DEF Surjection
<1> QED
  BY <1>1, <1>5, <1>8

\* The ends in their order: each comes, and later ones are greater.
LEMMA AscendingFacts ==
  ASSUME NEW ends \in SUBSET Nat, IsFiniteSet(ends)
  PROVE  /\ Cardinality(ends) \in Nat /\ Ascending(ends) \in [1 .. Cardinality(ends) -> ends]
         /\ \A i, j \in 1 .. Cardinality(ends) : i < j => Ascending(ends)[i] < Ascending(ends)[j]
         /\ \A e \in ends : \E i \in 1 .. Cardinality(ends) : Ascending(ends)[i] = e
<1> DEFINE n == Cardinality(ends)
           s == [i \in 1 .. n |-> CHOOSE x \in ends : EndRank(ends, x) = i]
           Sorted(t) == \A i, j \in DOMAIN t : i < j => t[i] < t[j]
<1>1. n \in Nat /\ \A i \in 1 .. n : s[i] \in ends /\ EndRank(ends, s[i]) = i
  BY EndRankFacts
<1>2. s \in [1 .. n -> ends]
  BY <1>1
<1>3. Sorted(s)
  <2>1. SUFFICES ASSUME NEW i \in 1 .. n, NEW j \in 1 .. n, i < j
                 PROVE  s[i] < s[j]
    OBVIOUS
  <2>2. s[i] \in ends /\ s[j] \in ends /\ EndRank(ends, s[i]) = i /\ EndRank(ends, s[j]) = j
    BY <1>1
  <2>3. s[i] \in Nat /\ s[j] \in Nat
    <3> HIDE DEF s
    <3> QED
      BY <2>2
  <2>4. s[j] < s[i] => j < i
    BY <2>2, EndRankFacts
  <2>5. s[i] # s[j]
    <3> HIDE DEF s
    <3> QED
      BY <2>1, <2>2, <1>1
  <2> HIDE DEF s
  <2> QED
    BY <2>1, <2>3, <2>4, <2>5, <1>1
<1> HIDE DEF s
<1>4. Ascending(ends) \in [1 .. n -> ends] /\ Sorted(Ascending(ends))
  <2>1. \E t \in [1 .. n -> ends] : Sorted(t)
    BY <1>2, <1>3
  <2> QED
    BY <2>1 DEF Ascending
<1>5. PICK t \in [1 .. n -> ends] : t = Ascending(ends)
  BY <1>4
<1>6. \A i, j \in 1 .. n : i < j => t[i] < t[j]
  BY <1>4, <1>5
<1>7. t \in Injection(1 .. n, ends)
  <2>1. ASSUME NEW i \in 1 .. n, NEW j \in 1 .. n, t[i] = t[j]
        PROVE  i = j
    <3>1. t[i] \in Nat /\ t[j] \in Nat
      OBVIOUS
    <3> QED
      BY <1>1, <1>6, <2>1, <3>1
  <2> QED
    BY <2>1 DEF Injection, IsInjective
<1>8. t \in Surjection(1 .. n, ends)
  <2>1. IsFiniteSet(1 .. n) /\ Cardinality(1 .. n) = n
    BY <1>1, FS_Interval
  <2> QED
    BY <1>1, <1>7, <2>1, FS_Injection
<1>9. \A e \in ends : \E i \in 1 .. n : t[i] = e
  BY <1>8 DEF Surjection
<1> QED
  BY <1>1, <1>5, <1>6, <1>9

LEMMA CompletedFacts ==
  ASSUME LogTypes, NEW p \in Paths, NEW from \in Nat, NEW to \in Nat, to <= Size(p), NEW carried
  PROVE  /\ Completed(p, from, to, carried) \in SUBSET Nat
         /\ IsFiniteSet(Completed(p, from, to, carried))
         /\ \A e \in Completed(p, from, to, carried) :
              e \in 1..to /\ (e + 1) \div 2 \in 1..Len(disk[p].recs)
<1>1. \A e \in Completed(p, from, to, carried) : e \in 1..to
  <2>1. \A e \in (from + 1)..to : e \in 1..to
    OBVIOUS
  <2>2. EarlyHead(p, to) => to \in 1..to
    BY DEF EarlyHead
  <2> QED
    BY <2>1, <2>2 DEF Completed
<1>2. Completed(p, from, to, carried) \in SUBSET (1..to)
  BY <1>1
<1>3. IsFiniteSet(1..to)
  BY FS_Interval
<1>4. IsFiniteSet(Completed(p, from, to, carried))
  BY <1>2, <1>3, FS_Subset
<1>0. PICK m \in Nat : m = Size(p)
  BY SizeFacts
<1>5. PICK n \in Nat : n = Len(disk[p].recs) /\ to <= 2 * n
  <2>1. PICK n \in Nat : n = Len(disk[p].recs) /\ m <= 2 * n
    BY <1>0, SizeFacts
  <2> QED
    BY <1>0, <2>1
<1>6. \A e \in 1..to : (e + 1) \div 2 \in 1..n
  BY <1>5
<1> QED
  BY <1>1, <1>2, <1>4, <1>5, <1>6

LEMMA RecordsToFacts ==
  ASSUME LogTypes, NEW p \in Paths, NEW ends \in SUBSET Nat, IsFiniteSet(ends),
         \A e \in ends : (e + 1) \div 2 \in 1..Len(disk[p].recs)
  PROVE  /\ RecordsTo(p, ends) \in Seq(TailRecords) /\ Len(RecordsTo(p, ends)) = Cardinality(ends)
         /\ Cardinality(ends) \in Nat
         /\ \A i \in 1..Cardinality(ends) :
              /\ RecordsTo(p, ends)[i] = RecordEnding(p, Ascending(ends)[i])
              /\ Ascending(ends)[i] \in ends
         /\ \A e \in ends : \E i \in 1..Cardinality(ends) : RecordsTo(p, ends)[i] = RecordEnding(p, e)
<1>1. PICK n \in Nat : n = Cardinality(ends)
  BY AscendingFacts
<1>2. PICK t \in [1..n -> ends] : t = Ascending(ends)
  BY <1>1, AscendingFacts
<1>3. \A e \in ends : RecordEnding(p, e) \in TailRecords
  <2>1. TAKE e \in ends
  <2>2. PICK r \in [kind : Kinds, ts : Nat] : r = disk[p].recs[(e + 1) \div 2]
    BY FileFacts
  <2>3. RecordEnding(p, e) = [kind |-> r.kind, ts |-> r.ts, end |-> e]
    BY <2>2 DEF RecordEnding
  <2> QED
    BY <2>3 DEF TailRecords
<1>4. RecordsTo(p, ends) = [i \in 1..n |-> RecordEnding(p, t[i])]
  BY <1>1, <1>2 DEF RecordsTo
<1>5. \A i \in 1..n : t[i] \in ends /\ RecordEnding(p, t[i]) \in TailRecords
  BY <1>3
<1>6. RecordsTo(p, ends) \in Seq(TailRecords) /\ Len(RecordsTo(p, ends)) = n
  BY <1>4, <1>5
<1>7. \A e \in ends : \E i \in 1..n : t[i] = e
  BY <1>1, <1>2, AscendingFacts
<1> QED
  BY <1>1, <1>2, <1>4, <1>5, <1>6, <1>7

\* A read in numbers: what is behind the cursor afterwards was so before, or ends now.
LEMMA BehindAfterRead ==
  ASSUME LogTypes, NEW p \in Paths, NEW c \in TailCursors, NEW to \in Nat, c.pos \in Nat,
         to > c.pos, to <= Size(p), NEW i \in 1..Len(disk[p].recs), NEW d, d.pos = to,
         d.carry = (to % 2 = 1 /\ ~EarlyHead(p, to)), Behind(d, i), ~Behind(c, i)
  PROVE  \E e \in Completed(p, c.pos, to, c.carry) : (e + 1) \div 2 = i
<1>1. i \in Nat /\ i > 0
  BY SizeFacts
<1>2. PICK from \in Nat : from = c.pos
  OBVIOUS
<1>3. CASE 2 * i <= to
  <2>1. 2 * i > from
    BY <1>1, <1>2 DEF Behind
  <2>2. 2 * i \in (from + 1)..to /\ (2 * i) % 2 = 0 /\ (2 * i + 1) \div 2 = i
    BY <1>1, <1>3, <2>1
  <2>3. 2 * i - 1 > from \/ (2 * i = from + 1 /\ c.carry)
    BY <1>1, <1>2, <2>1 DEF Behind
  <2>4. 2 * i \in Completed(p, from, to, c.carry)
    BY <2>2, <2>3 DEF Completed
  <2> QED
    BY <1>2, <2>2, <2>4
<1>4. CASE 2 * i = to + 1
  <2>1. to % 2 = 1 /\ (to + 1) \div 2 = i
    BY <1>1, <1>4
  <2>2. ~d.carry
    BY <1>1, <1>4 DEF Behind
  <2>3. EarlyHead(p, to)
    BY <2>1, <2>2
  <2>4. to \in Completed(p, from, to, c.carry)
    BY <2>3 DEF Completed
  <2> QED
    BY <1>2, <2>1, <2>4
<1>5. 2 * i <= to \/ 2 * i = to + 1
  BY DEF Behind
<1> QED
  BY <1>3, <1>4, <1>5

\* What a read does to the cursor and the job of its account.
ReadDoes(u, p, c, d, to, ends, j) ==
  /\ c = cur[u] /\ p = c.gen.path /\ c.pos \in Nat /\ c.inc \in Nat
  /\ to > c.pos /\ to <= Size(p) /\ disk[p].on /\ ~StaleHandle(u, p)
  /\ d.gen = c.gen /\ d.pos = to /\ d.inc = disk[p].inc /\ d.anchored
  /\ d.carry = (to % 2 = 1 /\ ~EarlyHead(p, to))
  /\ cur' = [cur EXCEPT ![u] = d]
  /\ ends = Completed(p, c.pos, to, c.carry) /\ IsFiniteSet(ends)
  /\ \A e \in ends : (e + 1) \div 2 \in 1..Len(disk[p].recs)
  /\ j.at = "dispatch" /\ j.recs = RecordsTo(p, ends)
  /\ job' = [job EXCEPT ![u] = IF ends = {} THEN Nothing ELSE j]

LEMMA ReadEffects ==
  ASSUME TailInv, NEW u \in Accounts, Read(u)
  PROVE  \E p \in Paths, c \in TailCursors, d \in TailCursors, to \in Nat, ends \in SUBSET Nat,
            j \in TailJobs : ReadDoes(u, p, c, d, to, ends, j)
<1>0. LogTypes /\ AttachTypes
  BY DEF TailInv, TailTypes
<1>1. job[u] # Nothing /\ job[u].at = "read"
  BY DEF Read
<1>2. PICK p \in Paths : p = cur[u].gen.path
  BY <1>1, AtJob
<1>3. PICK c \in TailCursors : c = cur[u] /\ c.pos \in Nat /\ c # Nothing /\ c.inc \in Nat /\ c.gen \in Generations
  BY <1>0, <1>1, AtJob, CursorFacts
<1>4. PICK size \in Nat : size = job[u].size
  BY <1>1, AtJob
<1>5. PICK n \in Nat : n = Size(p)
  BY <1>0, SizesOf
<1>6. PICK to \in Nat : to = Min({n, size, c.pos + MaxRead}) /\ to <= n
  <2>1. c.pos + MaxRead \in Nat
    BY <1>3, TailNumbers
  <2> QED
    BY <2>1, MinOfThree
<1>7. PICK ends \in SUBSET Nat :
        /\ ends = Completed(p, c.pos, to, c.carry) /\ IsFiniteSet(ends)
        /\ \A e \in ends : (e + 1) \div 2 \in 1..Len(disk[p].recs)
  BY <1>0, <1>3, <1>5, <1>6, CompletedFacts
<1>8. PICK carry \in BOOLEAN : carry = (to % 2 = 1 /\ ~EarlyHead(p, to))
  OBVIOUS
<1>9. PICK inc \in Nat : inc = disk[p].inc
  BY <1>0, FileFacts
<1>10. /\ disk[p].on /\ ~StaleHandle(u, p) /\ to > c.pos
       /\ cur' = [cur EXCEPT ![u].pos = to, ![u].inc = inc, ![u].anchored = TRUE, ![u].carry = carry]
       /\ job' = [job EXCEPT ![u] = IF ends = {} THEN Nothing
                                    ELSE [JobAt("dispatch") EXCEPT !.gen = c.gen,
                                                                   !.recs = RecordsTo(p, ends)]]
  BY <1>2, <1>3, <1>4, <1>5, <1>6, <1>7, <1>8, <1>9 DEF Read
<1>11. PICK d : d = [c EXCEPT !.pos = to, !.inc = inc, !.anchored = TRUE, !.carry = carry]
  OBVIOUS
<1>12. d \in TailCursors /\ d.gen = c.gen /\ d.pos = to /\ d.inc = inc /\ d.anchored /\ d.carry = carry
  BY <1>11 DEF TailCursors
<1>13. cur' = [cur EXCEPT ![u] = d]
  BY <1>3, <1>10, <1>11
<1>15. PICK rs \in Seq(TailRecords) :
         /\ rs = RecordsTo(p, ends) /\ Len(rs) = Cardinality(ends) /\ Cardinality(ends) \in Nat
         /\ \A e \in ends : \E i \in 1..Len(rs) : rs[i] = RecordEnding(p, e)
  BY <1>0, <1>7, RecordsToFacts
<1>17. PICK j : j = [JobAt("dispatch") EXCEPT !.gen = c.gen, !.recs = rs]
  OBVIOUS
<1>18. j \in TailJobs /\ j.at = "dispatch" /\ j.recs = rs /\ j # Nothing
  <2>1. j \in TailJobs /\ j.at = "dispatch" /\ j.recs = rs
    <3>1. PICK k \in TailJobs : k = JobAt("dispatch") /\ k.at = "dispatch"
      BY JobAtType
    <3> QED
      BY <1>3, <1>17, <3>1 DEF TailJobs
  <2> QED
    BY <2>1, NothingIsNoRecord
<1>19. job' = [job EXCEPT ![u] = IF ends = {} THEN Nothing ELSE j]
  BY <1>10, <1>15, <1>17
<1>20. /\ c = cur[u] /\ p = c.gen.path /\ c.pos \in Nat /\ c.inc \in Nat
       /\ to > c.pos /\ to <= Size(p) /\ disk[p].on /\ ~StaleHandle(u, p)
  BY <1>2, <1>3, <1>5, <1>6, <1>10
<1>21. /\ d \in TailCursors /\ d.gen = c.gen /\ d.pos = to /\ d.inc = disk[p].inc /\ d.anchored
       /\ d.carry = (to % 2 = 1 /\ ~EarlyHead(p, to))
  BY <1>8, <1>9, <1>12
<1>22. j \in TailJobs /\ j.at = "dispatch" /\ j.recs = RecordsTo(p, ends)
  BY <1>15, <1>18
<1>23. ReadDoes(u, p, c, d, to, ends, j)
  BY <1>7, <1>13, <1>19, <1>20, <1>21, <1>22 DEF ReadDoes
<1> QED
  BY <1>21, <1>22, <1>23

LEMMA ReadLogStep ==
  ASSUME TailInv, NEW u \in Accounts, Read(u)
  PROVE  TailInv'
<1>0. LogTypes /\ EntryTypes /\ AttachTypes /\ JobTypes /\ PhaseInv /\ CompleteAt(u) /\ ShortAt(u)
        /\ CompleteInv
  BY DEF TailInv, TailTypes, CompleteInv
<1>1. /\ job[u] # Nothing /\ job[u].at = "read"
      /\ UNCHANGED <<worldVars, files, loopVars, ever, retired, pins, suspended, status, snap>>
      /\ UNCHANGED <<handled, excused>>
  BY DEF Read
<1>2. PICK p \in Paths, c \in TailCursors, d \in TailCursors, to \in Nat, ends \in SUBSET Nat,
           j \in TailJobs : ReadDoes(u, p, c, d, to, ends, j)
  BY ReadEffects
<1>3. c = cur[u] /\ p = c.gen.path /\ c # Nothing /\ c.pos \in Nat /\ c.inc \in Nat
  BY <1>2, CursorIsSomething DEF ReadDoes
<1>5. PICK n \in Nat : n = Size(p) /\ to <= n
  BY <1>0, <1>2, SizesOf DEF ReadDoes
<1>7. /\ ends = Completed(p, c.pos, to, c.carry) /\ IsFiniteSet(ends)
      /\ \A e \in ends : (e + 1) \div 2 \in 1..Len(disk[p].recs)
  BY <1>2 DEF ReadDoes
<1>9. PICK inc \in Nat : inc = disk[p].inc
  BY <1>0, FileFacts
<1>10. disk[p].on /\ ~StaleHandle(u, p) /\ to > c.pos
  BY <1>2 DEF ReadDoes
<1>12. d.gen = c.gen /\ d.pos = to /\ d.inc = inc /\ d.carry = (to % 2 = 1 /\ ~EarlyHead(p, to))
  BY <1>2, <1>9 DEF ReadDoes
<1>14. /\ cur' \in [Accounts -> TailCursors \union {Nothing}] /\ cur'[u] = d /\ d # Nothing
       /\ \A v \in Accounts : v # u => cur'[v] = cur[v]
  BY <1>0, <1>2, CursorIsSomething DEF AttachTypes, ReadDoes
<1>15. PICK rs \in Seq(TailRecords) :
         /\ rs = RecordsTo(p, ends) /\ Len(rs) = Cardinality(ends) /\ Cardinality(ends) \in Nat
         /\ \A e \in ends : \E i \in 1..Len(rs) : rs[i] = RecordEnding(p, e)
  BY <1>0, <1>7, RecordsToFacts
<1>16. ends # {} => rs # <<>>
  <2>1. SUFFICES ASSUME NEW e \in ends
                 PROVE  rs # <<>>
    OBVIOUS
  <2>2. PICK i \in 1..Len(rs) : rs[i] = RecordEnding(p, e)
    BY <1>15
  <2>3. Len(rs) # 0
    BY <1>15, <2>2
  <2> QED
    BY <2>3
<1>18. j \in TailJobs /\ j.at = "dispatch" /\ j.recs = rs /\ j # Nothing
  BY <1>2, <1>15, NothingIsNoRecord DEF ReadDoes
<1>20. /\ job' \in [Accounts -> TailJobs \union {Nothing}]
       /\ job'[u] = (IF ends = {} THEN Nothing ELSE j)
       /\ \A v \in Accounts : v # u => job'[v] = job[v]
  BY <1>0, <1>18, <1>2 DEF JobTypes, ReadDoes
<1>21. JobTypes'
  BY <1>0, <1>14, <1>16, <1>18, <1>20 DEF JobTypes
<1>22. phase = "idle" /\ phase' = phase
  BY <1>1, AtJob DEF loopVars
<1>23. UNCHANGED <<files, pins, tracked, todo, ever, suspended, retired, status, handled, excused>>
         /\ UNCHANGED logVars
  BY <1>1 DEF loopVars, worldVars
<1>24. PhaseInv'
  BY <1>0, <1>22, <1>23 DEF PhaseInv
<1>25. EntryTypes' /\ AttachTypes' /\ LogTypes'
  BY <1>0, <1>14, <1>23, LogStays DEF EntryTypes, AttachTypes
\* The others are where they were.
<1>26. ASSUME NEW v \in Accounts, v # u
       PROVE  CompleteAt(v)' /\ ShortAt(v)'
  <2>1. CompleteAt(v) /\ ShortAt(v) /\ cur'[v] = cur[v] /\ disk' = disk /\ phase # "paused"
    BY <1>0, <1>14, <1>22, <1>23, <1>26 DEF CompleteInv, logVars
  <2>2. Settled(v) \subseteq Settled(v)'
    BY <1>20, <1>23, <1>26 DEF Settled
  <2>3. CASE cur[v] = Nothing
    BY <2>1, <2>3 DEF CompleteAt, ShortAt
  <2>4. CASE cur[v] # Nothing
    <3>1. SameReading(cur'[v], cur[v])
      BY <2>1, <2>4 DEF SameReading
    <3> QED
      BY <2>1, <2>2, <3>1, CompleteStays
  <2> QED
    BY <2>3, <2>4
\* What was behind the cursor, if the log is still the one that was read.
<1>27. /\ disk[p].inc > 0 /\ c.pos <= n
       /\ c.inc # inc => c.pos = 0
       /\ c.inc = inc => \A i \in 1..Len(disk[p].recs) : Behind(c, i) => disk[p].recs[i].ts \in Settled(u)
  <2>1. Complete(disk[p], n, c, Settled(u))
    BY <1>0, <1>3, <1>5 DEF CompleteAt
  <2>2. Short(disk[p], n, c)
    BY <1>0, <1>3, <1>5, <1>22 DEF ShortAt
  <2>3. ~(n < c.pos)
    BY <1>3, <1>5, <1>10 DEF StaleHandle
  <2>4. c.inc = 0 => c.pos = 0
    BY <1>2, <2>1 DEF Complete, ReadDoes
  <2>5. c.inc # inc => c.pos = 0
    BY <1>9, <2>2, <2>3, <2>4 DEF Short
  <2>6. /\ disk[p].inc > 0
        /\ c.inc = inc => /\ c.pos <= n
                          /\ \A i \in 1..Len(disk[p].recs) : Behind(c, i) => disk[p].recs[i].ts \in Settled(u)
    BY <1>9, <2>1 DEF Complete
  <2>7. c.pos <= n
    BY <1>5, <2>5, <2>6
  <2> QED
    BY <2>5, <2>6, <2>7
<1>28. \A i \in 1..Len(disk[p].recs) : Behind(c, i) => disk[p].recs[i].ts \in Settled(u)
  <2>1. TAKE i \in 1..Len(disk[p].recs)
  <2>2. CASE c.inc = inc
    BY <1>27, <2>2
  <2>3. CASE c.inc # inc
    <3>1. i \in Nat /\ i > 0
      BY <1>0, SizeFacts
    <3>2. ~Behind(c, i)
      BY <1>27, <2>3, <3>1 DEF Behind
    <3> QED
      BY <3>2
  <2> QED
    BY <2>2, <2>3
<1>29. PendingOf(job[u]) = {}
  BY <1>1 DEF PendingOf
<1>30. ASSUME NEW i \in 1..Len(disk[p].recs), Behind(d, i)
       PROVE  disk[p].recs[i].ts \in Settled(u)'
  <2>1. CASE Behind(c, i)
    BY <1>23, <1>28, <1>29, <2>1 DEF Settled
  <2>2. CASE ~Behind(c, i)
    <3>0. /\ LogTypes /\ c.pos \in Nat /\ to > c.pos /\ to <= Size(p) /\ d.pos = to
          /\ d.carry = (to % 2 = 1 /\ ~EarlyHead(p, to)) /\ Behind(d, i)
      BY <1>0, <1>2, <1>5, <1>30 DEF ReadDoes
    <3>6. \E e \in Completed(p, c.pos, to, c.carry) : (e + 1) \div 2 = i
      BY <2>2, <3>0, BehindAfterRead
    <3>1. PICK e \in ends : (e + 1) \div 2 = i
      BY <1>2, <3>6 DEF ReadDoes
    <3>2. PICK k \in 1..Len(rs) : rs[k] = RecordEnding(p, e)
      BY <1>15
    <3>3. rs[k].ts = disk[p].recs[i].ts
      BY <3>1, <3>2 DEF RecordEnding
    <3>4. job'[u] = j /\ job'[u] # Nothing
      BY <1>18, <1>20, <3>1
    <3>5. rs[k].ts \in PendingOf(job'[u])
      BY <1>18, <3>4 DEF PendingOf
    <3> QED
      BY <3>3, <3>5 DEF Settled
  <2> QED
    BY <2>1, <2>2
<1>31. CompleteAt(u)' /\ ShortAt(u)'
  <2>1. Size(p)' = n /\ disk' = disk
    BY <1>5, <1>23 DEF logVars, Size
  <2>2. PICK s : s = Settled(u)'
    OBVIOUS
  <2>3. Complete(disk[p], n, d, s)
    BY <1>5, <1>9, <1>12, <1>27, <1>30, <2>2 DEF Complete
  <2>4. Short(disk[p], n, d)
    BY <1>9, <1>12 DEF Short
  <2>5. cur'[u] = d /\ d.gen.path = p
    BY <1>3, <1>12, <1>14
  <2> QED
    BY <2>1, <2>2, <2>3, <2>4, <2>5 DEF CompleteAt, ShortAt
<1>32. CompleteInv'
  BY <1>26, <1>31 DEF CompleteInv
<1> QED
  BY <1>21, <1>24, <1>25, <1>32 DEF TailInv, TailTypes

-----------------------------------------------------------------------------
(* A new engine *)

\* What a new engine restores: the generations of the saved cursors, and their index.
RestoredPins(restored) == {[cur[u].gen EXCEPT !.rev = 0] : u \in restored}

RestoredIndex(restored) ==
  [p \in Paths |-> IF \E u \in restored : cur[u].gen.path = p THEN RestoredFile(p) ELSE Unindexed]

\* The index ix and the attachments that a new engine starts with: it restores some and
\* finds the log fnd[u] for others.
ResumeDoes(restored, ix, fnd) ==
  /\ \A u \in restored : Restorable(cur[u])
  /\ \A u \in tracked \ restored : ~Restorable(cur[u])
  /\ \A p \in Paths : ix[p].known => disk[p].on
  /\ \A u \in Accounts : fnd[u] # NoPath =>
       /\ fnd[u] \in Paths /\ u \in owner[fnd[u]] /\ ix[fnd[u]].known
       /\ u \in tracked \ restored /\ fnd[u] = Lookup(ix, RestoredPins(restored), u, NoPath)
  /\ files' = ix /\ pins' \subseteq Generations /\ ever' \subseteq Accounts
  /\ ix = (IF restored = tracked THEN RestoredIndex(restored)
           ELSE Polled(RestoredIndex(restored), RestoredPins(restored), NoPath))
  /\ pins' = RestoredPins(restored)
               \union {Generation(ix, fnd[u]) : u \in {v \in Accounts : fnd[v] # NoPath}}
  /\ ever' = restored \union {u \in Accounts : fnd[u] # NoPath} \union (ever \intersect tracked)
  /\ cur' = [u \in Accounts |->
        IF u \in restored
        THEN [cur[u] EXCEPT !.gen = [cur[u].gen EXCEPT !.rev = 0],
                            !.observed = Size(cur[u].gen.path)]
        ELSE IF fnd[u] = NoPath THEN Nothing
        ELSE IF cur[u] = Nothing THEN WarmCursor(Generation(ix, fnd[u]))
        ELSE Imported(WarmCursor(Generation(ix, fnd[u])), cur[u])]
  /\ excused' = [u \in Accounts |-> excused[u] \union
       IF /\ fnd[u] # NoPath
          /\ \/ cur[u] = Nothing
             \/ /\ ~Continues(WarmCursor(Generation(ix, fnd[u])), cur[u])
                /\ ~Renewed(WarmCursor(Generation(ix, fnd[u])), cur[u])
       THEN TimeStamps(fnd[u]) ELSE {}]

LEMMA ResumeFacts ==
  ASSUME TailInv, Resume
  PROVE  \E restored \in SUBSET tracked, ix \in [Paths -> Entries], fnd \in [Accounts -> 0..MaxFiles] :
           ResumeDoes(restored, ix, fnd)
<1> DEFINE kept == snap.cur
           restored == {u \in tracked : Restorable(kept[u])}
           own == [u \in restored |-> [kept[u].gen EXCEPT !.rev = 0]]
           old == [p \in Paths |-> IF \E u \in restored : own[u].path = p THEN RestoredFile(p)
                                   ELSE Unindexed]
           ix == IF restored = tracked THEN old ELSE Polled(old, Range(own), NoPath)
           Found(u) == IF u \in tracked \ restored THEN Lookup(ix, Range(own), u, NoPath)
                       ELSE NoPath
           found == {u \in Accounts : Found(u) # NoPath}
           Cold(u) == WarmCursor(Generation(ix, Found(u)))
           passed == {u \in found : \/ kept[u] = Nothing
                                    \/ /\ ~Continues(Cold(u), kept[u])
                                       /\ ~Renewed(Cold(u), kept[u])}
           fnd == [u \in Accounts |-> Found(u)]
<1>1. /\ files' = ix
      /\ pins' = Range(own) \union {Generation(ix, Found(u)) : u \in found}
      /\ cur' = [u \in Accounts |->
                   IF u \in restored
                   THEN [kept[u] EXCEPT !.gen = own[u], !.observed = Size(own[u].path)]
                   ELSE IF u \notin found THEN Nothing
                   ELSE IF kept[u] = Nothing THEN Cold(u)
                   ELSE Imported(Cold(u), kept[u])]
      /\ ever' = restored \union found \union (snap.ever \intersect tracked)
      /\ excused' = [u \in Accounts |-> excused[u] \union
                       IF u \in passed THEN TimeStamps(Found(u)) ELSE {}]
  BY DEF Resume
<1>2. kept = cur /\ snap.ever = ever /\ LogTypes /\ AttachTypes /\ tracked \subseteq Accounts
  BY DEF Resume, TailInv, TailTypes, PhaseInv, AttachTypes
<1>3. \A u \in restored : /\ cur[u] # Nothing /\ own[u] \in Generations
                          /\ own[u].path = cur[u].gen.path /\ disk[own[u].path].on
  <2>1. TAKE u \in restored
  <2>2. u \in Accounts /\ Restorable(cur[u])
    BY <1>2
  <2>3. PICK g \in Generations : g = cur[u].gen
    BY <1>2, <2>2, CursorFacts DEF Restorable
  <2>4. own[u] = [g EXCEPT !.rev = 0]
    BY <1>2, <2>3
  <2>5. own[u] \in Generations /\ own[u].path = g.path
    <3>1. [g EXCEPT !.rev = 0] \in Generations /\ [g EXCEPT !.rev = 0].path = g.path
      BY DEF Generations
    <3> HIDE DEF own
    <3> QED
      BY <2>4, <3>1
  <2>6. disk[g.path].on /\ cur[u] # Nothing
    BY <2>2, <2>3 DEF Restorable
  <2> HIDE DEF own
  <2> QED
    BY <2>3, <2>5, <2>6
<1>4. old \in [Paths -> Entries] /\ \A p \in Paths : old[p].known => disk[p].on
  <2>1. ASSUME NEW p \in Paths
        PROVE  RestoredFile(p) \in Entries
    <3>1. Size(p) \in Nat /\ disk[p].ino \in Nat
      BY <1>2, SizesOf, FileFacts
    <3> QED
      BY <3>1 DEF RestoredFile, Entries
  <2>2. Unindexed \in Entries /\ ~Unindexed.known
    BY DEF Unindexed, Entries
  <2>3. ASSUME NEW p \in Paths
        PROVE  old[p] \in Entries /\ (old[p].known => disk[p].on)
    <3>1. CASE \E u \in restored : own[u].path = p
      <4>1. disk[p].on
        <5> HIDE DEF own, restored
        <5> QED
          BY <1>3, <3>1
      <4>2. old[p] = RestoredFile(p)
        <5> HIDE DEF own, restored
        <5> QED
          BY <3>1
      <4> HIDE DEF old
      <4> QED
        BY <2>1, <4>1, <4>2
    <3>2. CASE ~\E u \in restored : own[u].path = p
      <4>1. old[p] = Unindexed
        <5> HIDE DEF own, restored
        <5> QED
          BY <3>2
      <4> HIDE DEF old
      <4> QED
        BY <2>2, <4>1
    <3> QED
      BY <3>1, <3>2
  <2>4. old = [p \in Paths |-> old[p]]
    OBVIOUS
  <2> HIDE DEF old
  <2> QED
    BY <2>3, <2>4
<1>5. ix \in [Paths -> Entries] /\ \A p \in Paths : ix[p].known => disk[p].on
  <2>1. CASE restored = tracked
    <3>1. ix = old
      BY <2>1
    <3> HIDE DEF ix, old
    <3> QED
      BY <1>4, <3>1
  <2>2. CASE restored # tracked
    <3>1. PICK r : r = Range(own)
      OBVIOUS
    <3>2. ix = Polled(old, r, NoPath)
      BY <2>2, <3>1
    <3> HIDE DEF ix, old
    <3>3. Polled(old, r, NoPath) \in [Paths -> Entries]
      BY <1>2, <1>4, RefreshedType
    <3>4. \A p \in Paths : Polled(old, r, NoPath)[p].known => disk[p].on
      <4>1. TAKE p \in Paths
      <4>2. PICK new \in [Paths -> Entries] : new = Refreshed(old, r, NoPath)
        BY <1>2, <1>4, RefreshedType
      <4>3. PICK e \in Entries : e = new[p]
        OBVIOUS
      <4>4. Polled(old, r, NoPath)[p] = [e EXCEPT !.marked = e.known]
        BY <4>2, <4>3 DEF Polled
      <4>5. Polled(old, r, NoPath)[p].known = e.known
        BY <4>4 DEF Entries
      <4>6. e.known => Retained(old, r, p, NoPath)
        BY <4>2, <4>3 DEF Refreshed, Unindexed
      <4> QED
        BY <4>5, <4>6 DEF Retained
    <3> QED
      BY <3>2, <3>3, <3>4
  <2> QED
    BY <2>1, <2>2
<1>6. \A u \in Accounts : /\ Found(u) \in 0..MaxFiles
                          /\ Found(u) # NoPath => Found(u) \in Paths /\ u \in owner[Found(u)]
                                                  /\ ix[Found(u)].known
  <2>1. TAKE u \in Accounts
  <2>2. PICK i, r : i = ix /\ r = Range(own)
    OBVIOUS
  <2>3. Found(u) = Lookup(i, r, u, NoPath) \/ Found(u) = NoPath
    BY <2>2
  <2>4. PICK q : q = Found(u)
    OBVIOUS
  <2> HIDE DEF ix, own, Found
  <2>5. CASE q # NoPath
    BY <2>2, <2>3, <2>4, <2>5, LookupOwned, TailNumbers
  <2>6. CASE q = NoPath
    BY <2>4, <2>6, TailNumbers
  <2> QED
    BY <2>5, <2>6
<1>7. fnd \in [Accounts -> 0..MaxFiles] /\ \A u \in Accounts : fnd[u] = Found(u)
  <2>1. \A u \in Accounts : Found(u) \in 0..MaxFiles
    BY <1>6
  <2> HIDE DEF Found
  <2> QED
    BY <2>1
<1>8. Range(own) \subseteq Generations
  <2>1. DOMAIN own = restored
    OBVIOUS
  <2> HIDE DEF own, restored
  <2> QED
    BY <1>3, <2>1 DEF Range
<1>9. \A u \in found : u \in Accounts /\ Generation(ix, Found(u)) \in Generations
  <2>1. \A u \in found : u \in Accounts /\ Found(u) # NoPath
    OBVIOUS
  <2> HIDE DEF found, Found, ix
  <2> QED
    BY <1>5, <1>6, <2>1, GenerationType
<1>10. pins' \subseteq Generations /\ ever' \subseteq Accounts
  <2>1. restored \subseteq Accounts /\ found \subseteq Accounts /\ snap.ever \subseteq Accounts
    BY <1>2 DEF AttachTypes
  <2> HIDE DEF found, Found, ix, own, restored
  <2> QED
    BY <1>1, <1>8, <1>9, <2>1
<1>11. \A u \in Accounts : (u \in found <=> fnd[u] # NoPath)
          /\ Cold(u) = WarmCursor(Generation(ix, fnd[u]))
  <2>1. \A u \in Accounts : u \in found <=> Found(u) # NoPath
    OBVIOUS
  <2>2. \A u \in Accounts : Cold(u) = WarmCursor(Generation(ix, Found(u)))
    OBVIOUS
  <2> HIDE DEF fnd, found, Found, ix, Cold
  <2> QED
    BY <1>7, <2>1, <2>2
<1>12. \A u \in Accounts : u \in passed <=>
         /\ fnd[u] # NoPath
         /\ \/ cur[u] = Nothing
            \/ /\ ~Continues(WarmCursor(Generation(ix, fnd[u])), cur[u])
               /\ ~Renewed(WarmCursor(Generation(ix, fnd[u])), cur[u])
  <2>1. \A u \in Accounts : u \in passed <=>
          u \in found /\ (kept[u] = Nothing \/ (~Continues(Cold(u), kept[u]) /\ ~Renewed(Cold(u), kept[u])))
    OBVIOUS
  <2> HIDE DEF fnd, found, ix, Cold, passed, kept
  <2> QED
    BY <1>2, <1>11, <2>1
<1>13. excused' = [u \in Accounts |-> excused[u] \union
                IF /\ fnd[u] # NoPath
                   /\ \/ cur[u] = Nothing
                      \/ /\ ~Continues(WarmCursor(Generation(ix, fnd[u])), cur[u])
                         /\ ~Renewed(WarmCursor(Generation(ix, fnd[u])), cur[u])
                THEN TimeStamps(fnd[u]) ELSE {}]
  <2> HIDE DEF fnd, ix, passed, Found
  <2> QED
    BY <1>1, <1>7, <1>12
<1>14. cur' = [u \in Accounts |->
                 IF u \in restored
                 THEN [cur[u] EXCEPT !.gen = [cur[u].gen EXCEPT !.rev = 0],
                                     !.observed = Size(cur[u].gen.path)]
                 ELSE IF fnd[u] = NoPath THEN Nothing
                 ELSE IF cur[u] = Nothing THEN WarmCursor(Generation(ix, fnd[u]))
                 ELSE Imported(WarmCursor(Generation(ix, fnd[u])), cur[u])]
  <2>1. \A u \in restored : own[u] = [kept[u].gen EXCEPT !.rev = 0]
    OBVIOUS
  <2> HIDE DEF fnd, ix, found, Cold, own, restored, kept
  <2> QED
    BY <1>1, <1>2, <1>3, <1>11, <2>1
<1>15. \A u \in restored : Restorable(cur[u])
  BY <1>2
<1>16. restored \in SUBSET tracked
  OBVIOUS
<1>17. \A u \in Accounts : fnd[u] # NoPath =>
         fnd[u] \in Paths /\ u \in owner[fnd[u]] /\ ix[fnd[u]].known
  <2> HIDE DEF ix, fnd, Found
  <2> QED
    BY <1>6, <1>7
<1>18. files' = ix
  BY <1>1
<1>20. \A u \in tracked \ restored : ~Restorable(cur[u])
  BY <1>2
<1>21. Range(own) = RestoredPins(restored)
  <2>1. \A u \in restored : own[u] = [cur[u].gen EXCEPT !.rev = 0]
    BY <1>2
  <2>2. DOMAIN own = restored
    OBVIOUS
  <2> HIDE DEF own, restored
  <2> QED
    BY <2>1, <2>2 DEF Range, RestoredPins
<1>22. old = RestoredIndex(restored)
  <2>1. old = [p \in Paths |-> IF \E u \in restored : own[u].path = p THEN RestoredFile(p) ELSE Unindexed]
    OBVIOUS
  <2> HIDE DEF own, restored, old
  <2>2. \A p \in Paths : (\E u \in restored : own[u].path = p) <=> \E u \in restored : cur[u].gen.path = p
    BY <1>3
  <2> QED
    BY <2>1, <2>2 DEF RestoredIndex
<1>23. ix = (IF restored = tracked THEN RestoredIndex(restored)
            ELSE Polled(RestoredIndex(restored), RestoredPins(restored), NoPath))
  <2>1. ix = IF restored = tracked THEN old ELSE Polled(old, Range(own), NoPath)
    OBVIOUS
  <2> HIDE DEF ix, old, own, restored
  <2> QED
    BY <1>21, <1>22, <2>1
<1>24. \A u \in Accounts : fnd[u] # NoPath =>
         u \in tracked \ restored /\ fnd[u] = Lookup(ix, RestoredPins(restored), u, NoPath)
  <2>1. \A u \in Accounts : Found(u) # NoPath =>
          u \in tracked \ restored /\ Found(u) = Lookup(ix, Range(own), u, NoPath)
    <3> HIDE DEF ix, own, restored
    <3> QED
      OBVIOUS
  <2> HIDE DEF ix, own, restored, fnd, Found
  <2> QED
    BY <1>7, <1>21, <2>1
<1>25. found = {u \in Accounts : fnd[u] # NoPath}
  <2>1. found = {u \in Accounts : Found(u) # NoPath}
    OBVIOUS
  <2> HIDE DEF found, fnd, Found
  <2> QED
    BY <1>7, <2>1
<1>26. ever' = restored \union {u \in Accounts : fnd[u] # NoPath} \union (ever \intersect tracked)
  <2> HIDE DEF found, fnd, restored
  <2> QED
    BY <1>1, <1>2, <1>25
<1>27. pins' = RestoredPins(restored)
                 \union {Generation(ix, fnd[u]) : u \in {v \in Accounts : fnd[v] # NoPath}}
  <2>1. \A u \in found : u \in Accounts /\ Found(u) = fnd[u]
    BY <1>7
  <2> HIDE DEF found, fnd, restored, Found, ix, own
  <2>2. {Generation(ix, Found(u)) : u \in found} = {Generation(ix, fnd[u]) : u \in found}
    BY <2>1
  <2> QED
    BY <1>1, <1>21, <1>25, <2>2
<1> HIDE DEF restored, ix, fnd, Found, own, old, found, Cold, passed, kept
<1>19. restored \in SUBSET tracked /\ ix \in [Paths -> Entries] /\ fnd \in [Accounts -> 0..MaxFiles]
  BY <1>5, <1>7, <1>16
<1>28. \A u \in Accounts : fnd[u] # NoPath =>
         /\ fnd[u] \in Paths /\ u \in owner[fnd[u]] /\ ix[fnd[u]].known
         /\ u \in tracked \ restored /\ fnd[u] = Lookup(ix, RestoredPins(restored), u, NoPath)
  BY <1>17, <1>24
<1>29. ResumeDoes(restored, ix, fnd)
  BY <1>5, <1>10, <1>13, <1>14, <1>15, <1>18, <1>20, <1>23, <1>26, <1>27, <1>28, Zenon DEF ResumeDoes
<1> QED
  BY <1>19, <1>29

\* A saved cursor whose log still holds what it has read goes on where it was.
LEMMA RestoredSettles ==
  ASSUME TailInv, NEW u \in Accounts, Restorable(cur[u]), NEW d,
         d = [cur[u] EXCEPT !.gen = [cur[u].gen EXCEPT !.rev = 0],
                            !.observed = Size(cur[u].gen.path)]
  PROVE  d \in TailCursors /\ Settles(d, Settled(u))
<1>1. LogTypes /\ AttachTypes /\ CompleteAt(u)
  BY DEF TailInv, TailTypes, CompleteInv
<1>2. cur[u] # Nothing
  BY DEF Restorable
<1>3. PICK c \in TailCursors : c = cur[u] /\ c.gen \in Generations /\ c.pos \in Nat /\ c.inc \in Nat
  BY <1>1, <1>2, CursorFacts
<1>4. PICK g \in Generations : g = c.gen
  BY <1>3
<1>5. PICK p \in Paths : p = g.path
  BY DEF Generations
<1>6. PICK n \in Nat : n = Size(p)
  BY <1>1, SizesOf
<1>7. PICK h : h = [g EXCEPT !.rev = 0]
  OBVIOUS
<1>8. h \in Generations /\ h.path = p
  BY <1>5, <1>7 DEF Generations
<1>9. d = [c EXCEPT !.gen = h, !.observed = n]
  BY <1>3, <1>4, <1>5, <1>6, <1>7
<1>10. /\ d \in TailCursors /\ d.gen.path = p /\ d.pos = c.pos /\ d.carry = c.carry
       /\ d.inc = c.inc
  BY <1>3, <1>8, <1>9 DEF TailCursors
<1>11. n >= c.pos /\ disk[p].inc = c.inc
  BY <1>3, <1>4, <1>5, <1>6 DEF Restorable
<1>12. Complete(disk[p], n, c, Settled(u))
  BY <1>1, <1>2, <1>3, <1>4, <1>5, <1>6 DEF CompleteAt
<1>13. \A i : Behind(d, i) <=> Behind(c, i)
  BY <1>10 DEF Behind
<1>14. PICK s : s = Settled(u)
  OBVIOUS
<1>15. Complete(disk[p], n, d, s)
  BY <1>10, <1>12, <1>13, <1>14 DEF Complete
<1>16. Short(disk[p], n, d)
  BY <1>10, <1>11 DEF Short
<1> QED
  BY <1>6, <1>10, <1>14, <1>15, <1>16 DEF Settles

\* A cursor of the discovery takes over the position of the saved one only if the saved
\* cursor cannot have been overtaken by new content; else the log is read from its start or
\* what it holds is passed over.
LEMMA ImportedSettles ==
  ASSUME TailInv, phase = "paused", NEW u \in Accounts, cur[u] # Nothing,
         NEW g \in Generations, disk[g.path].on, disk[g.path].inc > 0,
         NEW s, Settled(u) \subseteq s,
         \/ Continues(WarmCursor(g), cur[u]) \/ Renewed(WarmCursor(g), cur[u])
         \/ TimeStamps(g.path) \subseteq s
  PROVE  Imported(WarmCursor(g), cur[u]) \in TailCursors /\ Settles(Imported(WarmCursor(g), cur[u]), s)
<1>1. LogTypes /\ AttachTypes /\ CompleteAt(u) /\ ShortAt(u)
  BY DEF TailInv, TailTypes, CompleteInv
<1>2. PICK c \in TailCursors : /\ c = cur[u] /\ c.gen \in Generations /\ c.pos \in Nat
                               /\ c.inc \in Nat /\ c.carry \in BOOLEAN
  BY <1>1, CursorFacts
<1>3. PICK p \in Paths : p = g.path
  BY DEF Generations
<1>4. PICK n \in Nat : n = Size(p)
  BY <1>1, SizesOf
<1>5. PICK w \in TailCursors : w = WarmCursor(g)
  BY <1>1, WarmCursorFacts
<1>6. w.gen = g /\ w.pos = n /\ w.inc = disk[p].inc
  BY <1>1, <1>3, <1>4, <1>5, WarmCursorFacts
<1>7. disk[p].inc \in Nat /\ disk[p].inc > 0
  BY <1>1, <1>3, FileFacts
<1>8. CASE Continues(w, c)
  <2>1. c.gen.path = p /\ ~c.anchored /\ n >= c.pos
    BY <1>3, <1>6, <1>8 DEF Continues
  <2>2. Complete(disk[p], n, c, Settled(u)) /\ Short(disk[p], n, c)
    BY <1>1, <1>2, <1>4, <2>1 DEF CompleteAt, ShortAt
  <2>3. c.inc # disk[p].inc => c.pos = 0
    BY <1>2, <1>3, <1>4, <2>1, <2>2 DEF Complete, Short
  <2>4. PICK d : d = [w EXCEPT !.pos = c.pos, !.carry = c.carry, !.anchored = FALSE]
    OBVIOUS
  <2>5. d \in TailCursors /\ d.gen = g /\ d.pos = c.pos /\ d.carry = c.carry /\ d.inc = disk[p].inc
    BY <1>2, <1>6, <2>4 DEF TailCursors
  <2>6. ASSUME NEW i \in 1..Len(disk[p].recs), Behind(d, i)
        PROVE  disk[p].recs[i].ts \in s
    <3>1. Behind(c, i)
      BY <2>5, <2>6 DEF Behind
    <3>2. i \in Nat /\ i > 0
      BY <1>1, SizeFacts
    <3>3. c.inc = disk[p].inc
      <4>1. c.carry \/ c.pos + 1 < 2 * i \/ c.pos # 0 \/ 2 * i = c.pos + 1
        BY <1>2, <3>2
      <4>2. 2 * i # 1
        BY <3>2
      <4> QED
        BY <1>2, <2>3, <3>1, <3>2, <4>2 DEF Behind
    <3> QED
      BY <2>2, <3>1, <3>3 DEF Complete
  <2>7. Complete(disk[p], n, d, s) /\ Short(disk[p], n, d)
    BY <1>7, <2>1, <2>5, <2>6 DEF Complete, Short
  <2>8. Imported(w, c) = d
    BY <1>8, <2>4 DEF Imported
  <2> QED
    BY <1>2, <1>3, <1>4, <1>5, <2>5, <2>7, <2>8 DEF Settles
<1>9. CASE ~Continues(w, c) /\ Renewed(w, c)
  <2>1. PICK d : d = [w EXCEPT !.pos = 0, !.anchored = FALSE, !.inc = 0]
    OBVIOUS
  <2>2. d \in TailCursors /\ d.gen = g /\ d.pos = 0 /\ d.inc = 0
    BY <1>6, <2>1 DEF TailCursors
  <2>3. Settles(d, s)
    BY <1>1, <2>2, StartSettles
  <2>4. Imported(w, c) = d
    BY <1>9, <2>1 DEF Imported
  <2> QED
    BY <1>2, <1>5, <2>2, <2>3, <2>4
<1>10. CASE ~Continues(w, c) /\ ~Renewed(w, c)
  <2>1. PICK d : d = [w EXCEPT !.anchored = FALSE]
    OBVIOUS
  <2>2. d \in TailCursors /\ d.gen = g /\ d.pos = n /\ d.inc = disk[p].inc
    BY <1>6, <2>1 DEF TailCursors
  <2>3. \A i \in 1..Len(disk[p].recs) : disk[p].recs[i].ts \in s
    BY <1>1, <1>2, <1>3, <1>5, <1>10, TimeStampsType
  <2>4. Complete(disk[p], n, d, s) /\ Short(disk[p], n, d)
    BY <1>7, <2>2, <2>3 DEF Complete, Short
  <2>5. Imported(w, c) = d
    BY <1>10, <2>1 DEF Imported
  <2> QED
    BY <1>2, <1>3, <1>4, <1>5, <2>2, <2>4, <2>5 DEF Settles
<1> QED
  BY <1>8, <1>9, <1>10

LEMMA ResumeStep ==
  ASSUME TailInv, Resume
  PROVE  TailInv'
<1>1. LogTypes /\ EntryTypes /\ AttachTypes /\ JobTypes /\ PhaseInv /\ CompleteInv
  BY DEF TailInv, TailTypes
<1>2. /\ phase = "paused" /\ phase' = "idle" /\ retired' = snap.retired
      /\ UNCHANGED <<worldVars, todo, tracked, job, suspended, status, handled>>
  BY DEF Resume
<1>3. (\A u \in Accounts : job[u] = Nothing) /\ todo = {} /\ snap.retired = retired
  BY <1>1, <1>2 DEF PhaseInv
<1>4a. PICK restored \in SUBSET tracked, ix \in [Paths -> Entries], fnd \in [Accounts -> 0..MaxFiles] :
           ResumeDoes(restored, ix, fnd)
  BY ResumeFacts
<1>4. /\ \A u \in restored : Restorable(cur[u])
      /\ \A p \in Paths : ix[p].known => disk[p].on
      /\ \A u \in Accounts : fnd[u] # NoPath =>
           fnd[u] \in Paths /\ u \in owner[fnd[u]] /\ ix[fnd[u]].known
      /\ files' = ix /\ pins' \subseteq Generations /\ ever' \subseteq Accounts
      /\ cur' = [u \in Accounts |->
            IF u \in restored
            THEN [cur[u] EXCEPT !.gen = [cur[u].gen EXCEPT !.rev = 0],
                                !.observed = Size(cur[u].gen.path)]
            ELSE IF fnd[u] = NoPath THEN Nothing
            ELSE IF cur[u] = Nothing THEN WarmCursor(Generation(ix, fnd[u]))
            ELSE Imported(WarmCursor(Generation(ix, fnd[u])), cur[u])]
      /\ excused' = [u \in Accounts |-> excused[u] \union
           IF /\ fnd[u] # NoPath
              /\ \/ cur[u] = Nothing
                 \/ /\ ~Continues(WarmCursor(Generation(ix, fnd[u])), cur[u])
                    /\ ~Renewed(WarmCursor(Generation(ix, fnd[u])), cur[u])
           THEN TimeStamps(fnd[u]) ELSE {}]
  BY <1>4a, Zenon DEF ResumeDoes
<1>5. UNCHANGED logVars /\ UNCHANGED <<disk, job>>
  BY <1>2 DEF worldVars, logVars
<1>6. LogTypes' /\ EntryTypes'
  BY <1>1, <1>4, <1>5, LogStays DEF EntryTypes
\* What is passed over.
<1>7. ASSUME NEW u \in Accounts
      PROVE  /\ excused'[u] \in SUBSET Nat /\ Settled(u) \subseteq Settled(u)'
             /\ excused'[u] \subseteq Settled(u)'
             /\ \/ fnd[u] = NoPath
                \/ cur[u] # Nothing /\ Continues(WarmCursor(Generation(ix, fnd[u])), cur[u])
                \/ cur[u] # Nothing /\ Renewed(WarmCursor(Generation(ix, fnd[u])), cur[u])
                \/ TimeStamps(fnd[u]) \subseteq excused'[u]
  <2>1. PICK b \in BOOLEAN : b =
          (/\ fnd[u] # NoPath
           /\ \/ cur[u] = Nothing
              \/ /\ ~Continues(WarmCursor(Generation(ix, fnd[u])), cur[u])
                 /\ ~Renewed(WarmCursor(Generation(ix, fnd[u])), cur[u]))
    OBVIOUS
  <2>2. excused'[u] = excused[u] \union IF b THEN TimeStamps(fnd[u]) ELSE {}
    BY <1>4, <2>1
  <2>3. excused[u] \in SUBSET Nat
    BY <1>1 DEF AttachTypes
  <2>4. b => TimeStamps(fnd[u]) \subseteq Nat
    BY <1>1, <1>4, <2>1, TimeStampsType
  <2>5. excused'[u] \in SUBSET Nat /\ excused[u] \subseteq excused'[u]
    BY <2>2, <2>3, <2>4
  <2>6. Settled(u) \subseteq Settled(u)' /\ excused'[u] \subseteq Settled(u)'
    BY <1>2, <1>5, <2>5 DEF Settled
  <2>7. b => TimeStamps(fnd[u]) \subseteq excused'[u]
    BY <2>2
  <2> QED
    BY <2>1, <2>5, <2>6, <2>7
\* The cursors.
<1>8. ASSUME NEW u \in Accounts
      PROVE  cur'[u] = Nothing \/ (cur'[u] \in TailCursors /\ Settles(cur'[u], Settled(u)'))
  <2>1. CASE u \in restored
    <3>1. cur'[u] = [cur[u] EXCEPT !.gen = [cur[u].gen EXCEPT !.rev = 0],
                                   !.observed = Size(cur[u].gen.path)]
      BY <1>4, <2>1
    <3>2. PICK d : d = cur'[u]
      OBVIOUS
    <3>3. d \in TailCursors /\ Settles(d, Settled(u))
      BY <1>4, <2>1, <3>1, <3>2, RestoredSettles
    <3>4. PICK s, t : s = Settled(u) /\ t = Settled(u)' /\ s \subseteq t
      BY <1>7
    <3>5. Settles(d, t)
      BY <3>3, <3>4 DEF Settles, Complete
    <3> QED
      BY <3>2, <3>3, <3>4, <3>5
  <2>2. CASE u \notin restored /\ fnd[u] = NoPath
    BY <1>4, <2>2
  <2>3. CASE u \notin restored /\ fnd[u] # NoPath
    <3>1. PICK p \in Paths : p = fnd[u] /\ disk[p].on /\ disk[p].inc > 0
      <4>1. fnd[u] \in Paths /\ disk[fnd[u]].on
        BY <1>4, <2>3
      <4> QED
        BY <1>1, <4>1 DEF LogTypes
    <3>2. PICK g \in Generations : g = Generation(ix, p) /\ g.path = p
      BY GenerationType
    <3>3. PICK s : s = Settled(u)' /\ Settled(u) \subseteq s /\ excused'[u] \subseteq s
      BY <1>7
    <3>4. CASE cur[u] = Nothing
      <4>1. cur'[u] = WarmCursor(g)
        BY <1>4, <2>3, <3>1, <3>2, <3>4
      <4>2. TimeStamps(p) \subseteq s
        BY <1>7, <2>3, <3>1, <3>3, <3>4
      <4>3. WarmCursor(g) \in TailCursors /\ Settles(WarmCursor(g), s)
        BY <1>1, <3>1, <3>2, <4>2, WarmCursorFacts, WarmSettles
      <4> QED
        BY <3>3, <4>1, <4>3
    <3>5. CASE cur[u] # Nothing
      <4>1. cur'[u] = Imported(WarmCursor(g), cur[u])
        BY <1>4, <2>3, <3>1, <3>2, <3>5
      <4>2. \/ Continues(WarmCursor(g), cur[u]) \/ Renewed(WarmCursor(g), cur[u])
            \/ TimeStamps(g.path) \subseteq s
        BY <1>7, <2>3, <3>1, <3>2, <3>3
      <4>3. /\ Imported(WarmCursor(g), cur[u]) \in TailCursors
            /\ Settles(Imported(WarmCursor(g), cur[u]), s)
        BY <1>2, <3>1, <3>2, <3>3, <3>5, <4>2, ImportedSettles
      <4> QED
        BY <3>3, <4>1, <4>3
    <3> QED
      BY <3>4, <3>5
  <2> QED
    BY <2>1, <2>2, <2>3
<1>9. cur' \in [Accounts -> TailCursors \union {Nothing}]
  <2>1. cur' = [u \in Accounts |-> cur'[u]]
    BY <1>4
  <2>2. \A u \in Accounts : cur'[u] \in TailCursors \union {Nothing}
    BY <1>8
  <2> QED
    BY <2>1, <2>2
<1>10. excused' \in [Accounts -> SUBSET Nat]
  <2>1. excused' = [u \in Accounts |-> excused'[u]]
    BY <1>4
  <2>2. \A u \in Accounts : excused'[u] \in SUBSET Nat
    BY <1>7
  <2> QED
    BY <2>1, <2>2
<1>11. AttachTypes'
  BY <1>1, <1>2, <1>3, <1>4, <1>9, <1>10 DEF AttachTypes
<1>12. JobTypes' /\ PhaseInv'
  BY <1>1, <1>2, <1>3, <1>5 DEF JobTypes, PhaseInv
<1>13. ASSUME NEW u \in Accounts
       PROVE  CompleteAt(u)' /\ ShortAt(u)'
  <2>1. CASE cur'[u] = Nothing
    BY <2>1 DEF CompleteAt, ShortAt
  <2>2. CASE cur'[u] # Nothing
    <3>1. PICK p : p = cur'[u].gen.path
      OBVIOUS
    <3>2. Size(p)' = Size(p)
      BY <1>5 DEF Size
    <3>3. Complete(disk[p], Size(p), cur'[u], Settled(u)') /\ Short(disk[p], Size(p), cur'[u])
      BY <1>8, <2>2, <3>1 DEF Settles
    <3> QED
      BY <1>5, <3>1, <3>2, <3>3 DEF CompleteAt, ShortAt
  <2> QED
    BY <2>1, <2>2
<1> QED
  BY <1>6, <1>11, <1>12, <1>13 DEF TailInv, TailTypes, CompleteInv

-----------------------------------------------------------------------------
(* The log reader: the theorems *)

LEMMA TailInitHolds ==
  ASSUME TailInit
  PROVE  TailInv
<1>1. LogTypes
  <2>1. NoFile \in LogFiles /\ ~NoFile.half /\ ~NoFile.on /\ NoFile.inc = 0
    <3>1. PICK s \in Seq([kind : Kinds, ts : Nat]) : s = <<>>
      <4> DEFINE R == [kind : Kinds, ts : Nat]
      <4> HIDE DEF R
      <4>1. <<>> \in Seq(R)
        OBVIOUS
      <4> QED
        BY <4>1 DEF R
    <3>2. NoFile = [on |-> FALSE, ino |-> 0, inc |-> 0, recs |-> s, half |-> FALSE, age |-> "fresh"]
      BY <3>1 DEF NoFile
    <3> QED
      BY <3>2 DEF LogFiles, Ages
  <2>2. disk = [p \in Paths |-> NoFile] /\ owner = [p \in Paths |-> {}]
    BY DEF TailInit, IndexInit
  <2>3. proc \in [Accounts -> 0..MaxFiles] /\ clock \in Nat /\ last \in [Accounts -> Nat]
    BY TailNumbers DEF TailInit, IndexInit
  <2> QED
    BY <2>1, <2>2, <2>3 DEF LogTypes
<1>2. EntryTypes
  <2>1. Unindexed \in Entries
    BY DEF Unindexed, Entries
  <2> QED
    BY <2>1 DEF TailInit, IndexInit, EntryTypes
<1>3. AttachTypes
  <2>1. status \in [Accounts -> 0..MaxFiles]
    BY TailNumbers DEF TailInit
  <2> QED
    BY <2>1 DEF TailInit, AttachTypes
<1>4. JobTypes /\ PhaseInv /\ CompleteInv
  BY DEF TailInit, JobTypes, PhaseInv, CompleteInv, CompleteAt, ShortAt
<1> QED
  BY <1>1, <1>2, <1>3, <1>4 DEF TailInv, TailTypes

LEMMA TailStays ==
  ASSUME TailInv, UNCHANGED tailVars
  PROVE  TailInv'
<1>1. UNCHANGED <<disk, owner, proc, clock, last, files, pins, phase, todo, tracked, job, cur, ever>>
  BY DEF tailVars, worldVars, logVars, loopVars, cursorVars
<1>2. UNCHANGED <<retired, suspended, status, snap, handled, excused>>
  BY DEF tailVars, cursorVars, tailHistory
<1>3. TailTypes'
  BY <1>1, <1>2 DEF TailInv, TailTypes, LogTypes, EntryTypes, AttachTypes, JobTypes, PhaseInv
<1>4. CompleteInv'
  <2>1. \A u \in Accounts : Settled(u)' = Settled(u)
    BY <1>1, <1>2 DEF Settled
  <2>2. \A u \in Accounts : cur'[u] = Nothing \/ SameReading(cur'[u], cur[u])
    BY <1>1 DEF SameReading
  <2> QED
    BY <1>1, <2>1, <2>2, CursorsKept DEF TailInv
<1> QED
  BY <1>3, <1>4 DEF TailInv

LEMMA TailStep ==
  ASSUME TailInv, TailNext
  PROVE  TailInv'
<1>1. CASE World \/ Resume \/ StartBatch \/ Pause
  BY <1>1, WorldSteps, ResumeStep, StartBatchStep, PauseStep
<1>2. CASE Poll(TRUE) \/ Poll(FALSE)
  BY <1>2, PollStep
<1>3. CASE \E u \in Accounts : TailJob(u)
  <2>1. PICK u \in Accounts : TailJob(u)
    BY <1>3
  <2>2. CASE StatMissing(u) \/ StatShrunk(u) \/ Stat(u)
    BY <2>2, StatMissingStep, StatShrunkStep, StatStep
  <2>3. CASE ReadStale(u) \/ ReadNothing(u) \/ Read(u)
    BY <2>3, ReadStaleStep, ReadNothingStep, ReadLogStep
  <2>4. CASE \/ DispatchSeenDisconnect(u) \/ DispatchOldDisconnect(u) \/ DispatchDisconnect(u)
             \/ DispatchSeedMerchant(u) \/ DispatchMerchant(u)
    BY <2>4, AnyDispatchStep
  <2> QED
    BY <2>1, <2>2, <2>3, <2>4 DEF TailJob
<1>4. CASE \E u \in Accounts : Resolve(u) \/ Tick(u) \/ Recover(u) \/ Untrack(u) \/ Track(u)
  BY <1>4, ResolveSteps, TickSteps, RecoverStep, UntrackStep, TrackStep
<1> QED
  BY <1>1, <1>2, <1>3, <1>4 DEF TailNext

\* The invariant of the log reader: what is behind a cursor is settled, and a log that is no
\* longer what was read is shorter than that.
THEOREM TailInvariance == TailSpec => []TailInv
<1>1. TailInit => TailInv
  BY TailInitHolds
<1>2. TailInv /\ [TailNext]_tailVars => TailInv'
  BY TailStep, TailStays
<1> QED
  BY <1>1, <1>2, PTL DEF TailSpec

\* Between two reads no record before the cursor is lost, whatever the log, its size at stat
\* time and the cap cut the reads to (NothingSkipped of _tail_one_serial and
\* _parse_tail_block).
THEOREM NothingIsSkipped == TailSpec => []NothingSkipped
<1>1. ASSUME TailInv
      PROVE  NothingSkipped
  <2>1. SUFFICES ASSUME NEW u \in Accounts, cur[u] # Nothing, job[u] = Nothing,
                        cur[u].inc = disk[cur[u].gen.path].inc,
                        NEW i \in 1..(cur[u].pos \div 2)
                 PROVE  disk[cur[u].gen.path].recs[i].ts \in handled[u] \union excused[u]
    BY DEF NothingSkipped
  <2>2. LogTypes /\ AttachTypes /\ CompleteAt(u)
    BY <1>1 DEF TailInv, TailTypes, CompleteInv
  <2>3. PICK c \in TailCursors : c = cur[u] /\ c.pos \in Nat /\ c.gen.path \in Paths
    BY <2>1, <2>2, CursorFacts
  <2>4. PICK p \in Paths : p = c.gen.path
    BY <2>3
  <2>5. PICK n \in Nat : n = Size(p) /\ n <= 2 * Len(disk[p].recs)
    BY <2>2, SizeFacts
  <2>6. PICK l \in Nat : l = Len(disk[p].recs)
    BY <2>2, SizeFacts
  <2>7. Complete(disk[p], n, c, Settled(u))
    BY <2>1, <2>2, <2>3, <2>4, <2>5 DEF CompleteAt
  <2>8. c.pos <= n /\ \A k \in 1..l : Behind(c, k) => disk[p].recs[k].ts \in Settled(u)
    BY <2>1, <2>3, <2>4, <2>6, <2>7 DEF Complete
  <2>9. i \in 1..l /\ 2 * i <= c.pos
    BY <2>1, <2>3, <2>5, <2>6, <2>8
  <2>10. Settled(u) = handled[u] \union excused[u]
    BY <2>1 DEF Settled, PendingOf
  <2> QED
    BY <2>3, <2>4, <2>8, <2>9, <2>10 DEF Behind
<1> QED
  BY <1>1, TailInvariance, PTL

-----------------------------------------------------------------------------
(* The log reader dispatches a record once, if logs only grow: the invariant *)

\* Logs grow and lie idle, but none is cut, replaced or deleted.
LogsOnlyGrow == Mishaps \subseteq {"age"}

\* The records that were dispatched to an account or are about to be, by their time stamps.
Taken(u) == handled[u] \union PendingOf(job[u])

Untaken(u, p) == \A i \in 1..Len(disk[p].recs) : disk[p].recs[i].ts \notin Taken(u)

\* The generation of a log that was never cut or replaced.
LogGen(p) == [path |-> p, ino |-> 1, rev |-> 0]

\* Logs are created in the order of their paths, each by one account; the newest log of an
\* account is that of its live process; older logs of an account are not written any more,
\* and so lie idle at the latest when a newer one is not fresh.
LogsGrow ==
  /\ \A p \in Paths : IF disk[p].ino = 0 THEN ~disk[p].on /\ disk[p].recs = <<>>
                      ELSE disk[p].on /\ disk[p].ino = 1 /\ disk[p].inc = 1
  /\ \A p, q \in Paths : q < p /\ disk[p].ino # 0 => disk[q].ino # 0
  /\ \A p \in Paths : \A u, v \in owner[p] : u = v
  /\ \A u \in Accounts : proc[u] # NoPath => \A q \in Paths : u \in owner[q] => q <= proc[u]
  /\ \A p, q \in Paths : \A u \in owner[p] :
       u \in owner[q] /\ q < p /\ disk[p].age # "fresh" => disk[q].age = "idle"

\* Two records in the logs of an account are told apart by their time stamps.
StampsDiffer(u) ==
  /\ last[u] <= clock
  /\ \A t \in Taken(u) : t <= last[u]
  /\ \A p \in Paths : u \in owner[p] => \A i \in 1..Len(disk[p].recs) :
       /\ disk[p].recs[i].ts <= last[u]
       /\ \A q \in Paths : u \in owner[q] => \A k \in 1..Len(disk[q].recs) :
            disk[p].recs[i].ts = disk[q].recs[k].ts => p = q /\ i = k

\* The index knows logs that are there.
EntriesFit(ix) ==
  \A p \in Paths : ix[p].known =>
    ix[p].ino = 1 /\ ix[p].rev = 0 /\ ix[p].size <= Size(p) /\ disk[p].ino # 0

\* ... and pins what the cursors read.
IndexFits(ix, pn) ==
  /\ EntriesFit(ix)
  /\ \A g \in pn : \E v \in Accounts : cur[v] # Nothing /\ cur[v].gen = g
  /\ \A v \in Accounts : cur[v] # Nothing /\ phase # "paused" =>
       cur[v].gen \in pn /\ ix[cur[v].gen.path].known /\ ix[cur[v].gen.path].marked

\* Of the log that is read, what was taken is behind the cursor; of newer logs nothing was.
ReadsOn(u) ==
  LET c == cur[u]
      q == c.gen.path
  IN /\ u \in owner[q] /\ c.gen = LogGen(q)
     /\ c.anchored => c.inc = 1
     /\ ~c.anchored => c.pos = 0
     /\ \A i \in 1..Len(disk[q].recs) : disk[q].recs[i].ts \in Taken(u) => Behind(c, i)
     /\ \A p \in Paths : q < p /\ u \in owner[p] => Untaken(u, p)

\* Nothing of a log newer than b was taken, and b itself will not be read from its start.
PassedUpTo(u, b) ==
  /\ \A p \in Paths : b < p /\ u \in owner[p] => Untaken(u, p)
  /\ b # NoPath => /\ u \in owner[b]
                   /\ LogGen(b) \in retired[u] \/ u \notin ever \/ Untaken(u, b)

\* A lookup in the index ix for a process of that start finds b, if it finds anything as old.
Finds(u, b, ix, started) ==
  /\ started = NoPath \/ started >= b
  /\ b # NoPath /\ disk[b].age = "fresh" => ix[b].known /\ ix[b].marked

\* An account without a cursor: b is the newest log that was read for it.
Waits(u, b) ==
  /\ PassedUpTo(u, b)
  /\ status[u] = NoPath \/ status[u] >= b \/ u \in suspended
  /\ phase = "resolve" /\ b # NoPath /\ disk[b].age = "fresh" => files[b].known /\ files[b].marked

ReaderFits(u) == IF cur[u] # Nothing THEN ReadsOn(u) ELSE \E b \in 0..MaxFiles : Waits(u, b)

JobFits(u) ==
  job[u] # Nothing =>
    /\ job[u].at = "read" => job[u].ino = 1
    /\ job[u].at # "dispatch" => job[u].recs = <<>>
    /\ job[u].at = "dispatch" => \A i \in 1..Len(job[u].recs) :
         /\ job[u].recs[i].ts \notin handled[u]
         /\ \A k \in 1..Len(job[u].recs) : job[u].recs[i].ts = job[u].recs[k].ts => i = k

OnceInv ==
  /\ LogsGrow /\ IndexFits(files, pins)
  /\ \A u \in Accounts : StampsDiffer(u) /\ ReaderFits(u) /\ JobFits(u)
  /\ phase = "paused" => \A u \in Accounts : status[u] = NoPath

-----------------------------------------------------------------------------
(* Looking up *)

LEMMA LookupPastCursor ==
  ASSUME AttachTypes, NEW u \in Accounts, NEW ix, NEW pn, NEW started \in 0..MaxFiles,
         phase # "paused", LogsGrow, IndexFits(ix, pn), cur[u] # Nothing, ReadsOn(u)
  PROVE  LET p == Lookup(ix, pn, u, started)
             q == cur[u].gen.path
         IN  IF p = NoPath THEN started # NoPath /\ ~(q >= started) ELSE q <= p
<1>1. PICK q \in Paths : q = cur[u].gen.path
  BY CursorFacts
<1>2. cur[u].gen \in pn /\ ix[q].known /\ ix[q].marked /\ u \in owner[q] /\ cur[u].gen = LogGen(q)
  BY <1>1 DEF IndexFits, ReadsOn
<1>3. Generation(ix, q) = cur[u].gen
  BY <1>2 DEF Generation, LogGen, IndexFits, EntriesFit
<1>4. PICK found : found = Candidates(ix, pn, u, started)
  OBVIOUS
<1>5. started = NoPath \/ q >= started => q \in found
  BY <1>2, <1>3, <1>4 DEF Candidates
<1>6. PICK p : p = Lookup(ix, pn, u, started)
  OBVIOUS
<1>7. /\ p \in Paths \union {NoPath}
      /\ p # NoPath => p \in Paths /\ p \in found /\ \A r \in found : r <= p
      /\ p = NoPath => found = {}
  BY <1>4, <1>6, LookupFacts
<1>8. CASE p = NoPath
  BY <1>1, <1>5, <1>6, <1>7, <1>8
<1>9. CASE p # NoPath
  <2>1. CASE q \in found
    BY <1>1, <1>6, <1>7, <1>9, <2>1
  <2>2. CASE q \notin found
    <3>1. started # NoPath /\ ~(q >= started) /\ p >= started
      BY <1>4, <1>5, <1>7, <1>9, <2>2 DEF Candidates
    <3> QED
      BY <1>1, <1>6, <1>7, <1>9, <3>1, TailNumbers
  <2> QED
    BY <2>1, <2>2
<1> QED
  BY <1>8, <1>9

\* A lookup for an account without a cursor finds nothing older than what was read for it:
\* of older logs only a fresh one is a candidate, and then the newer one is fresh, too; the
\* pinned ones are read for their own account.
LEMMA LookupPastBarrier ==
  ASSUME LogTypes, AttachTypes, NEW u \in Accounts, NEW ix, NEW pn, NEW started \in 0..MaxFiles,
         LogsGrow, IndexFits(ix, pn), cur[u] = Nothing \/ cur[u].gen \notin pn, NEW b \in 0..MaxFiles,
         PassedUpTo(u, b), Finds(u, b, ix, started),
         \A v \in Accounts : cur[v] # Nothing => ReadsOn(v),
         Lookup(ix, pn, u, started) # NoPath
  PROVE  Lookup(ix, pn, u, started) >= b
<1>1. PICK found : found = Candidates(ix, pn, u, started)
  OBVIOUS
<1>2. PICK p \in Paths : /\ p = Lookup(ix, pn, u, started)
                        /\ p \in found /\ \A r \in found : r <= p
  BY <1>1, LookupFacts
<1>3. SUFFICES ASSUME p < b
               PROVE  FALSE
  BY <1>2, TailNumbers
<1>4. b \in Paths /\ b # NoPath /\ u \in owner[b] /\ u \in owner[p]
  <2>1. b \in Paths /\ b # NoPath
    BY <1>2, <1>3, TailNumbers
  <2> QED
    BY <1>1, <1>2, <2>1 DEF PassedUpTo, Candidates
<1>5. started = NoPath
  <2>1. started # NoPath => p >= started /\ started >= b
    BY <1>1, <1>2 DEF Candidates, Finds
  <2> QED
    BY <1>2, <1>3, <2>1, TailNumbers
<1>6. disk[p].age = "fresh" \/ Generation(ix, p) \in pn
  BY <1>1, <1>2, <1>5 DEF Candidates
<1>7. disk[p].age # "fresh"
  <2>1. SUFFICES ASSUME disk[p].age = "fresh"
                 PROVE  FALSE
    OBVIOUS
  <2>2. disk[b].age = "fresh"
    BY <1>2, <1>3, <1>4, <2>1 DEF LogsGrow
  <2>3. b \in found
    BY <1>1, <1>4, <1>5, <2>2 DEF Candidates, Finds
  <2> QED
    BY <1>2, <1>3, <1>4, <2>3, TailNumbers
<1>8. PICK v \in Accounts : cur[v] # Nothing /\ cur[v].gen = Generation(ix, p) /\ Generation(ix, p) \in pn
  BY <1>6, <1>7 DEF IndexFits
<1>9. v \in owner[p]
  BY <1>8 DEF ReadsOn, Generation
<1> QED
  BY <1>4, <1>8, <1>9 DEF LogsGrow

\* A poll keeps what is pinned and finds all that is not idle.
LEMMA PolledFits ==
  ASSUME LogTypes, LogsGrow, NEW ix \in [Paths -> Entries], NEW pn, NEW started, EntriesFit(ix)
  PROVE  LET new == Polled(ix, pn, started)
         IN  /\ EntriesFit(new)
             /\ \A p \in Paths :
                  /\ new[p].known => new[p].marked /\ Generation(new, p) = LogGen(p)
                  /\ disk[p].on /\ disk[p].age # "idle" => new[p].known
                  /\ ix[p].known /\ Generation(ix, p) \in pn => new[p].known
<1>1. PICK ref \in [Paths -> Entries] : ref = Refreshed(ix, pn, started)
  BY RefreshedType
<1>2. PICK new : new = Polled(ix, pn, started)
  OBVIOUS
<1>3. new = [p \in Paths |-> [ref[p] EXCEPT !.marked = ref[p].known]]
  BY <1>1, <1>2 DEF Polled
<1>4. ASSUME NEW p \in Paths
      PROVE  /\ new[p].known = ref[p].known /\ new[p].ino = ref[p].ino /\ new[p].rev = ref[p].rev
             /\ new[p].size = ref[p].size /\ new[p].marked = ref[p].known
  <2>1. new[p] = [ref[p] EXCEPT !.marked = ref[p].known]
    BY <1>3
  <2>2. PICK e \in Entries : e = ref[p]
    OBVIOUS
  <2> QED
    BY <2>1, <2>2 DEF Entries
<1>5. ASSUME NEW p \in Paths
      PROVE  /\ disk[p].on /\ disk[p].age # "idle" => Retained(ix, pn, p, started)
             /\ ix[p].known /\ Generation(ix, p) \in pn => Retained(ix, pn, p, started)
  BY DEF Retained, EntriesFit, LogsGrow
<1>6. ASSUME NEW p \in Paths, Retained(ix, pn, p, started)
      PROVE  /\ ref[p].known /\ ref[p].ino = 1 /\ ref[p].rev = 0 /\ ref[p].size <= Size(p)
             /\ disk[p].ino # 0
  <2>1. PICK e \in Entries : e = ix[p]
    OBVIOUS
  <2>2. PICK n \in Nat : n = Size(p)
    BY SizesOf
  <2>3. disk[p].on /\ disk[p].ino # 0 /\ disk[p].ino = 1
    <3>1. disk[p].on
      BY <1>6 DEF Retained
    <3>2. disk[p].inc > 0 /\ disk[p].ino \in Nat /\ disk[p].ino > 0
      BY <3>1, FileFacts DEF LogTypes
    <3> QED
      BY <3>1, <3>2 DEF LogsGrow
  <2>4. e.known => e.ino = 1 /\ e.rev = 0 /\ e.size <= n
    BY <2>1, <2>2 DEF EntriesFit
  <2>5. ref[p] = Reindexed(ix, p)
    BY <1>1, <1>6 DEF Refreshed
  <2>6. CASE ~e.known
    BY <2>1, <2>2, <2>3, <2>5, <2>6 DEF Reindexed
  <2>7. CASE e.known
    <3>1. ~(n < e.size)
      <4>1. e.size \in Nat
        BY DEF Entries
      <4> QED
        BY <2>4, <2>7, <4>1
    <3>2. ref[p] = [e EXCEPT !.size = n]
      BY <2>1, <2>2, <2>3, <2>4, <2>5, <2>7, <3>1 DEF Reindexed
    <3> QED
      BY <2>2, <2>3, <2>4, <2>7, <3>2 DEF Entries
  <2> QED
    BY <2>6, <2>7 DEF Entries
<1>7. ASSUME NEW p \in Paths, ref[p].known
      PROVE  Retained(ix, pn, p, started)
  <2>1. SUFFICES ASSUME ~Retained(ix, pn, p, started)
                 PROVE  FALSE
    OBVIOUS
  <2>2. ref[p] = Unindexed
    BY <1>1, <2>1 DEF Refreshed
  <2> QED
    BY <1>7, <2>2 DEF Unindexed
<1>8. EntriesFit(new)
  BY <1>4, <1>6, <1>7 DEF EntriesFit
<1>9. ASSUME NEW p \in Paths
      PROVE  /\ new[p].known => new[p].marked /\ Generation(new, p) = LogGen(p)
             /\ disk[p].on /\ disk[p].age # "idle" => new[p].known
             /\ ix[p].known /\ Generation(ix, p) \in pn => new[p].known
  BY <1>4, <1>5, <1>6, <1>7 DEF Generation, LogGen
<1> QED
  BY <1>2, <1>8, <1>9

\* ... so the pins of the cursors are kept.
LEMMA IndexPolled ==
  ASSUME LogTypes, AttachTypes, LogsGrow, phase # "paused", NEW ix \in [Paths -> Entries], NEW pn,
         NEW started, IndexFits(ix, pn), \A v \in Accounts : cur[v] # Nothing => ReadsOn(v)
  PROVE  LET new == Polled(ix, pn, started)
         IN  /\ IndexFits(new, PinsKept(ix, new, pn))
             /\ \A p \in Paths : disk[p].on /\ disk[p].age # "idle" => new[p].known /\ new[p].marked
<1>1. PICK new : new = Polled(ix, pn, started)
  OBVIOUS
<1>2. /\ EntriesFit(new)
      /\ \A p \in Paths :
           /\ new[p].known => new[p].marked /\ Generation(new, p) = LogGen(p)
           /\ disk[p].on /\ disk[p].age # "idle" => new[p].known
           /\ ix[p].known /\ Generation(ix, p) \in pn => new[p].known
  BY <1>1, PolledFits DEF IndexFits
<1>3. ASSUME NEW v \in Accounts, cur[v] # Nothing
      PROVE  cur[v].gen \in PinsKept(ix, new, pn) /\ new[cur[v].gen.path].known /\ new[cur[v].gen.path].marked
  <2>1. PICK q \in Paths : q = cur[v].gen.path
    BY <1>3, CursorFacts
  <2>2. cur[v].gen \in pn /\ ix[q].known /\ cur[v].gen = LogGen(q)
    BY <1>3, <2>1 DEF IndexFits, ReadsOn
  <2>3. Generation(ix, q) = LogGen(q)
    BY <2>2 DEF IndexFits, EntriesFit, Generation, LogGen
  <2>4. new[q].known /\ new[q].marked /\ Generation(new, q) = LogGen(q)
    BY <1>2, <2>2, <2>3
  <2>5. HasGeneration(new, cur[v].gen)
    BY <2>1, <2>2, <2>4 DEF HasGeneration
  <2> QED
    BY <2>1, <2>2, <2>4, <2>5 DEF PinsKept
<1>4. \A g \in PinsKept(ix, new, pn) : \E v \in Accounts : cur[v] # Nothing /\ cur[v].gen = g
  BY DEF PinsKept, IndexFits
<1>5. IndexFits(new, PinsKept(ix, new, pn))
  BY <1>2, <1>3, <1>4 DEF IndexFits
<1> QED
  BY <1>1, <1>2, <1>5

-----------------------------------------------------------------------------
(* The world goes on *)

\* What the engine keeps, when only the logs change.
LEMMA TakenStays ==
  ASSUME NEW u, handled'[u] = handled[u], job'[u] = job[u]
  PROVE  Taken(u)' = Taken(u)
BY DEF Taken

LEMMA TakenType ==
  ASSUME AttachTypes, JobTypes, NEW u \in Accounts
  PROVE  Taken(u) \subseteq Nat
<1>1. PendingOf(job[u]) \subseteq Nat
  <2>1. CASE job[u] # Nothing /\ job[u].at = "dispatch"
    <3>1. PICK j \in TailJobs : j = job[u]
      BY <2>1 DEF JobTypes
    <3>2. j.recs \in Seq(TailRecords)
      BY DEF TailJobs
    <3>3. \A i \in 1..Len(j.recs) : j.recs[i] \in TailRecords
      <4> HIDE DEF TailRecords
      <4> QED
        BY <3>2
    <3>4. \A i \in 1..Len(j.recs) : j.recs[i].ts \in Nat
      BY <3>3 DEF TailRecords
    <3> QED
      BY <3>1, <3>4 DEF PendingOf
  <2>2. CASE ~(job[u] # Nothing /\ job[u].at = "dispatch")
    BY <2>2 DEF PendingOf
  <2> QED
    BY <2>1, <2>2
<1> QED
  BY <1>1 DEF Taken, AttachTypes

\* The logs of an account grow by records that are new to it.
LEMMA ReaderFitsGrown ==
  ASSUME NEW u \in Accounts, LogTypes, AttachTypes, UNCHANGED readerVars, ReaderFits(u),
         \A p \in Paths : u \in owner[p] => u \in owner'[p] /\ (disk'[p].age = "fresh" => disk[p].age = "fresh"),
         \A p \in Paths : u \in owner'[p] => \A i \in 1..Len(disk'[p].recs) :
           \/ u \in owner[p] /\ i \in 1..Len(disk[p].recs) /\ disk'[p].recs[i] = disk[p].recs[i]
           \/ disk'[p].recs[i].ts \notin Taken(u)
  PROVE  ReaderFits(u)'
<1>1. /\ UNCHANGED <<files, phase, job, cur, ever, retired, suspended, status, handled>>
      /\ Taken(u)' = Taken(u)
  BY DEF readerVars, loopVars, cursorVars, tailHistory, Taken
<1>2. ASSUME NEW p \in Paths, u \in owner'[p], u \in owner[p] => Untaken(u, p)
      PROVE  Untaken(u, p)'
  BY <1>1, <1>2 DEF Untaken
<1>3. CASE cur[u] # Nothing
  <2>1. PICK c \in TailCursors, q \in Paths : c = cur[u] /\ q = c.gen.path
    BY <1>3, CursorFacts
  <2>2. ReadsOn(u)
    BY <1>3 DEF ReaderFits
  <2>3. u \in owner'[q] /\ c.gen = LogGen(q) /\ (c.anchored => c.inc = 1) /\ (~c.anchored => c.pos = 0)
    BY <2>1, <2>2 DEF ReadsOn
  <2>4. \A i \in 1..Len(disk'[q].recs) : disk'[q].recs[i].ts \in Taken(u) => Behind(c, i)
    BY <2>1, <2>2, <2>3 DEF ReadsOn
  <2>5. \A p \in Paths : q < p /\ u \in owner'[p] => Untaken(u, p)'
    BY <1>2, <2>1, <2>2 DEF ReadsOn
  <2>6. ReadsOn(u)'
    BY <1>1, <2>1, <2>3, <2>4, <2>5 DEF ReadsOn, LogGen, Behind
  <2> QED
    BY <1>1, <1>3, <2>6 DEF ReaderFits
<1>4. CASE cur[u] = Nothing
  <2>1. PICK b \in 0..MaxFiles : Waits(u, b)
    BY <1>4 DEF ReaderFits
  <2>2. b # NoPath => b \in Paths /\ u \in owner[b] /\ u \in owner'[b]
    BY <2>1, TailNumbers DEF Waits, PassedUpTo
  <2>3. \A p \in Paths : b < p /\ u \in owner'[p] => Untaken(u, p)'
    BY <1>2, <2>1 DEF Waits, PassedUpTo
  <2>4. b # NoPath => LogGen(b) \in retired[u] \/ u \notin ever \/ Untaken(u, b)'
    BY <1>2, <2>1, <2>2 DEF Waits, PassedUpTo
  <2>5. PassedUpTo(u, b)'
    BY <1>1, <2>2, <2>3, <2>4 DEF PassedUpTo, LogGen
  <2>6. Waits(u, b)'
    BY <1>1, <2>1, <2>2, <2>5 DEF Waits
  <2> QED
    BY <1>1, <1>4, <2>6 DEF ReaderFits
<1> QED
  BY <1>3, <1>4

LEMMA IndexFitsGrown ==
  ASSUME LogTypes, EntryTypes, UNCHANGED readerVars, IndexFits(files, pins),
         \A p \in Paths : disk[p].ino # 0 => disk'[p].ino # 0 /\ Continued(p)
  PROVE  IndexFits(files, pins)'
<1>1. UNCHANGED <<files, pins, phase, cur>>
  BY DEF readerVars, loopVars, cursorVars
<1>2. ASSUME NEW p \in Paths, files[p].known
      PROVE  files[p].ino = 1 /\ files[p].rev = 0 /\ files[p].size <= Size(p)' /\ disk'[p].ino # 0
  <2>1. files[p].ino = 1 /\ files[p].rev = 0 /\ files[p].size <= Size(p) /\ disk[p].ino # 0
    BY <1>2 DEF IndexFits, EntriesFit
  <2>2. PICK n \in Nat : n = Size(p)
    BY SizesOf
  <2>3. Size(p)' = Size(p) \/ Size(p)' = Size(p) + 1
    BY <2>1 DEF Continued
  <2>4. PICK m \in Nat : m = Size(p)' /\ m >= n
    BY <2>2, <2>3
  <2>5. files[p].size \in Nat
    <3>1. PICK e \in Entries : e = files[p]
      BY DEF EntryTypes
    <3> QED
      BY <3>1 DEF Entries
  <2> QED
    BY <2>1, <2>2, <2>4, <2>5
<1>3. EntriesFit(files)'
  BY <1>1, <1>2 DEF EntriesFit
<1> QED
  BY <1>1, <1>3 DEF IndexFits

LEMMA StampsStay ==
  ASSUME NEW u \in Accounts, UNCHANGED readerVars, StampsDiffer(u), UNCHANGED <<clock, last>>,
         \A p \in Paths : disk'[p].recs = disk[p].recs /\ (u \in owner'[p] => u \in owner[p] \/ Len(disk[p].recs) = 0)
  PROVE  StampsDiffer(u)'
<1>1. Taken(u)' = Taken(u)
  BY DEF readerVars, tailHistory, Taken
<1>2. \A p \in Paths : u \in owner'[p] => \A i \in 1..Len(disk'[p].recs) :
        /\ disk'[p].recs[i].ts <= last[u]
        /\ \A q \in Paths : u \in owner'[q] => \A k \in 1..Len(disk'[q].recs) :
             disk'[p].recs[i].ts = disk'[q].recs[k].ts => p = q /\ i = k
  BY DEF StampsDiffer
<1> QED
  BY <1>1, <1>2 DEF StampsDiffer

LEMMA JobsFitStay ==
  ASSUME NEW u \in Accounts, UNCHANGED readerVars, JobFits(u)
  PROVE  JobFits(u)'
BY DEF readerVars, tailHistory, JobFits

\* Steps of the world that write nothing.
LEMMA NothingWritten ==
  ASSUME TailTypes, OnceInv, UNCHANGED readerVars, UNCHANGED <<clock, last>>, LogsGrow',
         \A p \in Paths :
           /\ disk'[p].recs = disk[p].recs
           /\ disk[p].ino # 0 => /\ owner'[p] = owner[p] /\ disk'[p].ino # 0 /\ Continued(p)
                                 /\ disk'[p].age = "fresh" => disk[p].age = "fresh"
           /\ disk[p].ino = 0 => Len(disk[p].recs) = 0
  PROVE  OnceInv'
<1>1. ASSUME NEW p \in Paths, owner[p] # {}
      PROVE  disk[p].ino # 0
  <2>1. disk[p].inc > 0 /\ disk[p].inc \in Nat
    BY <1>1, FileFacts DEF TailTypes, LogTypes
  <2> QED
    BY <2>1, FileFacts DEF TailTypes, LogTypes
<1>2. IndexFits(files, pins)'
  BY IndexFitsGrown DEF OnceInv, TailTypes
<1>3. ASSUME NEW u \in Accounts
      PROVE  StampsDiffer(u)' /\ ReaderFits(u)' /\ JobFits(u)'
  <2>1. StampsDiffer(u) /\ ReaderFits(u) /\ JobFits(u)
    BY DEF OnceInv
  <2>2. StampsDiffer(u)'
    <3>1. \A p \in Paths : u \in owner'[p] => u \in owner[p] \/ Len(disk[p].recs) = 0
      OBVIOUS
    <3> QED
      BY <2>1, <3>1, StampsStay
  <2>3. \A p \in Paths : u \in owner[p] => u \in owner'[p] /\ (disk'[p].age = "fresh" => disk[p].age = "fresh")
    BY <1>1
  <2>4. \A p \in Paths : u \in owner'[p] => \A i \in 1..Len(disk'[p].recs) :
          u \in owner[p] /\ i \in 1..Len(disk[p].recs) /\ disk'[p].recs[i] = disk[p].recs[i]
    OBVIOUS
  <2> QED
    BY <2>1, <2>2, <2>3, <2>4, ReaderFitsGrown, JobsFitStay DEF TailTypes
<1>4. UNCHANGED <<phase, status>>
  BY DEF readerVars, loopVars
<1> QED
  BY <1>2, <1>3, <1>4 DEF OnceInv

\* Only the newest log of an account is written.
LEMMA WrittenLogsGrow ==
  ASSUME LogsGrow, NEW p \in Paths, Writable(p), UNCHANGED <<owner, proc>>,
         \A q \in Paths : q # p => disk'[q] = disk[q],
         disk'[p].on = disk[p].on, disk'[p].ino = disk[p].ino, disk'[p].inc = disk[p].inc,
         disk'[p].age = (IF disk[p].age = "idle" THEN "old" ELSE disk[p].age)
  PROVE  LogsGrow'
<1>1. ASSUME NEW a \in Paths, NEW q \in Paths, NEW u \in owner[a], u \in owner[q], q < a,
             disk'[a].age # "fresh"
      PROVE  disk'[q].age = "idle"
  <2>1. disk[a].age # "fresh"
    BY <1>1
  <2>2. disk[q].age = "idle"
    BY <1>1, <2>1 DEF LogsGrow
  <2>3. q # p
    <3>1. owner[a] = owner[q]
      <4>1. owner[a] = {u}
        BY <1>1 DEF LogsGrow
      <4>2. owner[q] = {u}
        BY <1>1 DEF LogsGrow
      <4> QED
        BY <4>1, <4>2
    <3>2. q = p => a <= q
      BY <3>1 DEF Writable
    <3> QED
      BY <1>1, <3>2, TailNumbers
  <2> QED
    BY <2>2, <2>3
<1>2. ASSUME NEW q \in Paths
      PROVE  IF disk'[q].ino = 0 THEN ~disk'[q].on /\ disk'[q].recs = <<>>
             ELSE disk'[q].on /\ disk'[q].ino = 1 /\ disk'[q].inc = 1
  <2>1. CASE q = p
    BY <2>1 DEF LogsGrow, Writable
  <2>2. CASE q # p
    BY <2>2 DEF LogsGrow
  <2> QED
    BY <2>1, <2>2
<1>3. \A a, q \in Paths : q < a /\ disk'[a].ino # 0 => disk'[q].ino # 0
  BY DEF LogsGrow
<1> QED
  BY <1>1, <1>2, <1>3 DEF LogsGrow

LEMMA OnceIdle ==
  ASSUME TailTypes, OnceInv, UNCHANGED readerVars, NEW p \in Paths, GrowIdle(p)
  PROVE  OnceInv'
<1>0. LogTypes
  BY DEF TailTypes
<1>1. /\ disk' = [q \in Paths |-> IF q <= p THEN [disk[q] EXCEPT !.age = "idle"] ELSE disk[q]]
      /\ UNCHANGED <<owner, proc, clock, last>>
  BY DEF GrowIdle, Mishap
<1>2. ASSUME NEW q \in Paths
      PROVE  /\ disk'[q].recs = disk[q].recs /\ disk'[q].on = disk[q].on /\ disk'[q].ino = disk[q].ino
             /\ disk'[q].inc = disk[q].inc
             /\ q <= p => disk'[q].age = "idle"
             /\ ~(q <= p) => disk'[q].age = disk[q].age
  <2>1. PICK f \in LogFiles : f = disk[q]
    BY <1>0 DEF LogTypes
  <2>2. CASE q <= p
    <3>1. disk'[q] = [f EXCEPT !.age = "idle"]
      BY <1>1, <2>1, <2>2
    <3> QED
      BY <2>1, <2>2, <3>1 DEF LogFiles
  <2>3. CASE ~(q <= p)
    BY <1>1, <2>3
  <2> QED
    BY <2>2, <2>3
<1>3. LogsGrow'
  <2>1. LogsGrow
    BY DEF OnceInv
  <2>2. ASSUME NEW a \in Paths, NEW q \in Paths, NEW u \in owner[a], u \in owner[q], q < a,
               disk'[a].age # "fresh"
        PROVE  disk'[q].age = "idle"
    <3>1. CASE q <= p
      BY <1>2, <3>1
    <3>2. CASE ~(q <= p)
      <4>1. ~(a <= p)
        BY <2>2, <3>2, TailNumbers
      <4>2. disk[a].age # "fresh"
        BY <1>2, <2>2, <4>1
      <4>3. disk[q].age = "idle"
        BY <2>1, <2>2, <4>2 DEF LogsGrow
      <4> QED
        BY <1>2, <3>2, <4>3
    <3> QED
      BY <3>1, <3>2
  <2> QED
    BY <1>1, <1>2, <2>1, <2>2 DEF LogsGrow
<1>4. \A q \in Paths : Continued(q)
  BY <1>0, GrowIdleStep
<1>5. ASSUME NEW q \in Paths, disk'[q].age = "fresh"
      PROVE  disk[q].age = "fresh"
  BY <1>2, <1>5
<1>6. \A q \in Paths : disk[q].ino = 0 => Len(disk[q].recs) = 0
  BY DEF OnceInv, LogsGrow
<1> QED
  BY <1>1, <1>2, <1>3, <1>4, <1>5, <1>6, NothingWritten

LEMMA OnceExit ==
  ASSUME TailTypes, OnceInv, UNCHANGED readerVars, NEW u \in Accounts, Exit(u)
  PROVE  OnceInv'
<1>1. proc' = [proc EXCEPT ![u] = NoPath] /\ UNCHANGED <<disk, owner, clock, last>>
  BY DEF Exit
<1>2. proc \in [Accounts -> 0..MaxFiles] /\ LogTypes
  BY DEF TailTypes, LogTypes
<1>3. LogsGrow'
  <2>1. \A v \in Accounts : proc'[v] = NoPath \/ proc'[v] = proc[v]
    BY <1>1, <1>2
  <2> QED
    BY <1>1, <2>1 DEF OnceInv, LogsGrow
<1>4. \A q \in Paths : Continued(q)
  BY <1>2, ExitStep
<1>5. \A q \in Paths : disk[q].ino = 0 => Len(disk[q].recs) = 0
  BY DEF OnceInv, LogsGrow
<1> QED
  BY <1>1, <1>3, <1>4, <1>5, NothingWritten

LEMMA OnceEndRecord ==
  ASSUME TailTypes, OnceInv, UNCHANGED readerVars, NEW p \in Paths, EndRecord(p), Noticeable(p)
  PROVE  OnceInv'
<1>0. LogTypes /\ LogsGrow
  BY DEF TailTypes, OnceInv
<1>1. /\ disk' = [disk EXCEPT ![p].half = FALSE, ![p].age = IF @ = "idle" THEN "old" ELSE @]
      /\ UNCHANGED <<owner, proc, clock, last>> /\ Writable(p) /\ disk[p].on
  BY DEF EndRecord, Writable
<1>2. disk'[p].recs = disk[p].recs /\ disk'[p].on = disk[p].on /\ disk'[p].ino = disk[p].ino
      /\ disk'[p].inc = disk[p].inc
      /\ disk'[p].age = (IF disk[p].age = "idle" THEN "old" ELSE disk[p].age)
  <2>1. PICK f \in LogFiles : f = disk[p]
    BY <1>0 DEF LogTypes
  <2>2. disk \in [Paths -> LogFiles]
    BY <1>0 DEF LogTypes
  <2>3. disk' = [disk EXCEPT ![p] = [f EXCEPT !.half = FALSE, !.age = IF f.age = "idle" THEN "old" ELSE f.age]]
    BY <1>1, <2>1, <2>2 DEF LogFiles
  <2>4. disk'[p] = [f EXCEPT !.half = FALSE, !.age = IF f.age = "idle" THEN "old" ELSE f.age]
    BY <2>2, <2>3
  <2> QED
    BY <2>1, <2>4 DEF LogFiles
<1>3. \A q \in Paths : q # p => disk'[q] = disk[q]
  <2>1. disk \in [Paths -> LogFiles]
    BY <1>0 DEF LogTypes
  <2> QED
    BY <1>1, <2>1
<1>4. LogsGrow'
  BY <1>0, <1>1, <1>2, <1>3, WrittenLogsGrow
<1>5. \A q \in Paths : Continued(q)
  BY <1>0, EndRecordStep
<1>6. \A q \in Paths : disk[q].ino = 0 => Len(disk[q].recs) = 0
  BY DEF OnceInv, LogsGrow
<1>7. \A q \in Paths : disk'[q].age = "fresh" => disk[q].age = "fresh"
  BY <1>2, <1>3
<1>8. \A q \in Paths : disk'[q].recs = disk[q].recs /\ disk'[q].ino = disk[q].ino
  BY <1>2, <1>3
<1> QED
  BY <1>1, <1>4, <1>5, <1>6, <1>7, <1>8, NothingWritten

LEMMA OnceLaunch ==
  ASSUME TailTypes, OnceInv, UNCHANGED readerVars, NEW u \in Accounts, Launch(u)
  PROVE  OnceInv'
<1>0. LogTypes /\ LogsGrow
  BY DEF TailTypes, OnceInv
<1>1. PICK p \in Paths :
        /\ disk[p].ino = 0 /\ \A q \in Paths : q < p => disk[q].ino # 0
        /\ disk' = [disk EXCEPT ![p] = [NoFile EXCEPT !.on = TRUE, !.ino = 1, !.inc = 1]]
        /\ owner' = [owner EXCEPT ![p] = {u}] /\ proc' = [proc EXCEPT ![u] = p]
        /\ UNCHANGED <<clock, last>>
  BY DEF Launch
<1>2. /\ disk'[p].on /\ disk'[p].ino = 1 /\ disk'[p].inc = 1 /\ disk'[p].recs = <<>>
      /\ disk'[p].age = "fresh" /\ owner'[p] = {u} /\ proc'[u] = p
      /\ \A q \in Paths : q # p => disk'[q] = disk[q] /\ owner'[q] = owner[q]
      /\ \A v \in Accounts : v # u => proc'[v] = proc[v]
  BY <1>0, <1>1 DEF LogTypes, NoFile
<1>3. \A q \in Paths : p < q => disk[q].ino = 0
  BY <1>0, <1>1 DEF LogsGrow
<1>4. ASSUME NEW q \in Paths, owner[q] # {}
      PROVE  disk[q].ino # 0
  <2>1. disk[q].inc > 0 /\ disk[q].inc \in Nat
    BY <1>0, <1>4, FileFacts DEF LogTypes
  <2> QED
    BY <1>0, <2>1, FileFacts DEF LogTypes
<1>5. LogsGrow'
  <2>1. ASSUME NEW q \in Paths
        PROVE  IF disk'[q].ino = 0 THEN ~disk'[q].on /\ disk'[q].recs = <<>>
               ELSE disk'[q].on /\ disk'[q].ino = 1 /\ disk'[q].inc = 1
    <3>1. CASE q = p
      BY <1>2, <3>1
    <3>2. CASE q # p
      BY <1>0, <1>2, <3>2 DEF LogsGrow
    <3> QED
      BY <3>1, <3>2
  <2>2. ASSUME NEW a \in Paths, NEW q \in Paths, q < a, disk'[a].ino # 0
        PROVE  disk'[q].ino # 0
    <3>1. CASE a = p
      BY <1>1, <1>2, <2>2, <3>1, TailNumbers
    <3>2. CASE a # p
      BY <1>0, <1>2, <2>2, <3>2 DEF LogsGrow
    <3> QED
      BY <3>1, <3>2
  <2>3. \A q \in Paths : \A v, w \in owner'[q] : v = w
    BY <1>0, <1>2 DEF LogsGrow
  <2>4. ASSUME NEW v \in Accounts, proc'[v] # NoPath, NEW q \in Paths, v \in owner'[q]
        PROVE  q <= proc'[v]
    <3>1. CASE v = u
      <4>1. q = p \/ disk[q].ino # 0
        BY <1>2, <1>4, <2>4
      <4>2. ~(p < q)
        BY <1>3, <4>1, TailNumbers
      <4> QED
        BY <1>2, <3>1, <4>2, TailNumbers
    <3>2. CASE v # u
      <4>1. q # p /\ v \in owner[q] /\ proc'[v] = proc[v]
        BY <1>2, <2>4, <3>2
      <4> QED
        BY <1>0, <2>4, <4>1 DEF LogsGrow
    <3> QED
      BY <3>1, <3>2
  <2>5. ASSUME NEW a \in Paths, NEW q \in Paths, NEW v \in owner'[a], v \in owner'[q], q < a,
               disk'[a].age # "fresh"
        PROVE  disk'[q].age = "idle"
    <3>1. a # p /\ v \in owner[a] /\ disk[a].age # "fresh"
      BY <1>2, <2>5
    <3>2. q # p
      <4>1. disk[a].ino # 0
        BY <1>4, <3>1
      <4> QED
        BY <1>3, <2>5, <4>1
    <3>3. disk[q].age = "idle"
      BY <1>0, <1>2, <2>5, <3>1, <3>2 DEF LogsGrow
    <3> QED
      BY <1>2, <3>2, <3>3
  <2> QED
    BY <2>1, <2>2, <2>3, <2>4, <2>5 DEF LogsGrow
<1>6. ASSUME NEW q \in Paths
      PROVE  /\ disk'[q].recs = disk[q].recs
             /\ disk[q].ino # 0 => /\ owner'[q] = owner[q] /\ disk'[q].ino # 0 /\ Continued(q)
                                   /\ disk'[q].age = "fresh" => disk[q].age = "fresh"
             /\ disk[q].ino = 0 => Len(disk[q].recs) = 0
  <2>1. disk'[q].recs = disk[q].recs
    BY <1>0, <1>1, <1>2 DEF LogsGrow
  <2>2. ASSUME disk[q].ino # 0
        PROVE  /\ owner'[q] = owner[q] /\ disk'[q].ino # 0 /\ Continued(q)
               /\ disk'[q].age = "fresh" => disk[q].age = "fresh"
    <3>1. q # p /\ disk[q].inc > 0
      BY <1>0, <1>1, <2>2 DEF LogsGrow
    <3>2. Continued(q)
      BY <1>0, <3>1, LaunchStep
    <3> QED
      BY <1>2, <2>2, <3>1, <3>2
  <2>3. disk[q].ino = 0 => Len(disk[q].recs) = 0
    BY <1>0 DEF LogsGrow
  <2> QED
    BY <2>1, <2>2, <2>3
<1>7. UNCHANGED <<clock, last>>
  BY <1>1
<1> QED
  BY <1>5, <1>6, <1>7, NothingWritten

\* A record is new to every account whose log it is written to.
LEMMA OnceBeginRecord ==
  ASSUME TailTypes, OnceInv, UNCHANGED readerVars, NEW p \in Paths, NEW kind \in Kinds,
         BeginRecord(p, kind), Noticeable(p)
  PROVE  OnceInv'
<1> LogTypes /\ LogsGrow
  BY DEF TailTypes, OnceInv
<1>0. LogTypes /\ LogsGrow /\ \A q \in Paths : Continued(q)
  BY BeginRecordStep
<1>1. PICK w \in owner[p] : \E t \in TimeStampsFor(w, kind) :
        /\ clock' = Max({clock, t}) /\ last' = [last EXCEPT ![w] = t]
        /\ disk' = [disk EXCEPT ![p].recs = Append(@, [kind |-> kind, ts |-> t]),
                                ![p].half = TRUE,
                                ![p].age = IF @ = "idle" THEN "old" ELSE @]
        /\ UNCHANGED <<owner, proc>> /\ Writable(p)
  BY DEF BeginRecord
<1>11. PICK t \in TimeStampsFor(w, kind) :
        /\ clock' = Max({clock, t}) /\ last' = [last EXCEPT ![w] = t]
        /\ disk' = [disk EXCEPT ![p].recs = Append(@, [kind |-> kind, ts |-> t]),
                                ![p].half = TRUE,
                                ![p].age = IF @ = "idle" THEN "old" ELSE @]
        /\ UNCHANGED <<owner, proc>> /\ Writable(p)
  BY <1>1
<1>2. PICK n \in Nat : n = Len(disk[p].recs)
  BY <1>0, SizeFacts
<1>3. /\ disk'[p].recs = Append(disk[p].recs, [kind |-> kind, ts |-> t])
      /\ disk'[p].on = disk[p].on /\ disk'[p].ino = disk[p].ino /\ disk'[p].inc = disk[p].inc
      /\ disk'[p].age = (IF disk[p].age = "idle" THEN "old" ELSE disk[p].age)
      /\ \A q \in Paths : q # p => disk'[q] = disk[q]
  <2>1. PICK f \in LogFiles : f = disk[p]
    BY <1>0 DEF LogTypes
  <2>2. disk \in [Paths -> LogFiles]
    BY <1>0 DEF LogTypes
  <2>3. PICK s : s = Append(f.recs, [kind |-> kind, ts |-> t])
    OBVIOUS
  <2>4. disk' = [disk EXCEPT ![p] = [f EXCEPT !.recs = s, !.half = TRUE,
                                              !.age = IF f.age = "idle" THEN "old" ELSE f.age]]
    BY <1>11, <2>1, <2>2, <2>3 DEF LogFiles
  <2>5. disk'[p] = [f EXCEPT !.recs = s, !.half = TRUE, !.age = IF f.age = "idle" THEN "old" ELSE f.age]
    BY <2>2, <2>4
  <2>6. \A q \in Paths : q # p => disk'[q] = disk[q]
    BY <2>2, <2>4
  <2> QED
    BY <2>1, <2>3, <2>5, <2>6 DEF LogFiles
<1>4. /\ Len(disk'[p].recs) = n + 1 /\ disk'[p].recs[n + 1].ts = t
      /\ \A i \in 1..n : disk'[p].recs[i] = disk[p].recs[i]
  <2>1. PICK s \in Seq([kind : Kinds, ts : Nat]) : s = disk[p].recs
    BY <1>0, FileFacts
  <2>2. PICK r : r = [kind |-> kind, ts |-> t]
    OBVIOUS
  <2>3. Len(Append(s, r)) = n + 1 /\ Append(s, r)[n + 1] = r /\ \A i \in 1..n : Append(s, r)[i] = s[i]
    <3> DEFINE R == [kind : Kinds, ts : Nat]
    <3>1. s \in Seq(R) /\ n = Len(s)
      BY <1>2, <2>1
    <3> HIDE DEF R
    <3> QED
      BY <3>1
  <2> QED
    BY <1>3, <2>1, <2>2, <2>3
<1>5. w \in Accounts /\ t \in Nat /\ clock \in Nat /\ last \in [Accounts -> Nat]
  BY <1>0, TimeStampsForType DEF LogTypes
<1>6. last[w] < t /\ t <= clock' /\ clock <= clock' /\ clock' \in Nat /\ last'[w] = t
      /\ \A v \in Accounts : v # w => last'[v] = last[v]
  <2>1. clock' \in Nat /\ clock <= clock' /\ t <= clock'
    BY <1>11, <1>5, MaxOfTwo
  <2>2. last[w] <= clock /\ last[w] \in Nat
    BY <1>5 DEF OnceInv, StampsDiffer
  <2>3. t = clock + 1 \/ last[w] < t
    BY <1>11 DEF TimeStampsFor
  <2>4. last[w] < t
    BY <1>5, <2>2, <2>3
  <2> QED
    BY <1>11, <1>5, <2>1, <2>4
<1>7. LogsGrow'
  BY <1>0, <1>11, <1>3, WrittenLogsGrow
<1>8. IndexFits(files, pins)'
  <2>1. \A q \in Paths : disk[q].ino # 0 => disk'[q].ino # 0 /\ Continued(q)
    BY <1>0, <1>3
  <2> QED
    BY <1>0, <2>1, IndexFitsGrown DEF OnceInv, TailTypes
<1>9. ASSUME NEW u \in Accounts
      PROVE  StampsDiffer(u)' /\ ReaderFits(u)' /\ JobFits(u)'
  <2>1. StampsDiffer(u) /\ ReaderFits(u) /\ JobFits(u)
    BY DEF OnceInv
  <2>2. Taken(u)' = Taken(u)
    BY DEF readerVars, tailHistory, Taken
  <2>3. u \in owner[p] => u = w
    BY <1>0, <1>11 DEF LogsGrow
  <2>4. ASSUME NEW q \in Paths, u \in owner[q], NEW i \in 1..Len(disk'[q].recs)
        PROVE  \/ i \in 1..Len(disk[q].recs) /\ disk'[q].recs[i] = disk[q].recs[i]
               \/ u = w /\ q = p /\ i = n + 1 /\ disk'[q].recs[i].ts = t
    <3>1. CASE q # p
      BY <1>3, <2>4, <3>1
    <3>2. CASE q = p
      BY <1>2, <1>4, <2>3, <2>4, <3>2
    <3> QED
      BY <3>1, <3>2
  <2>5. \A s \in Taken(u) : s \in Nat /\ s <= last[u]
    BY <1>5, <2>1, TakenType DEF StampsDiffer, TailTypes
  <2>6. ASSUME NEW q \in Paths, u \in owner[q], NEW i \in 1..Len(disk[q].recs)
        PROVE  disk[q].recs[i].ts \in Nat /\ disk[q].recs[i].ts <= last[u]
    <3>1. disk[q].recs[i] \in [kind : Kinds, ts : Nat]
      BY <1>0, <2>6, FileFacts
    <3> QED
      BY <2>1, <2>6, <3>1 DEF StampsDiffer
  <2>7. last[u] \in Nat /\ last'[u] \in Nat /\ last[u] <= last'[u] /\ last'[u] <= clock'
    <3>1. last[u] \in Nat /\ last[u] <= clock
      BY <1>5, <2>1 DEF StampsDiffer
    <3>2. CASE u = w
      BY <1>5, <1>6, <3>1, <3>2
    <3>3. CASE u # w
      BY <1>5, <1>6, <3>1, <3>3
    <3> QED
      BY <3>2, <3>3
  <2>8. StampsDiffer(u)'
    <3>1. \A s \in Taken(u) : s <= last'[u]
      BY <2>5, <2>7
    <3>2. ASSUME NEW q \in Paths, u \in owner[q], NEW i \in 1..Len(disk'[q].recs)
          PROVE  disk'[q].recs[i].ts <= last'[u]
      <4>1. CASE i \in 1..Len(disk[q].recs) /\ disk'[q].recs[i] = disk[q].recs[i]
        <5>1. disk[q].recs[i].ts \in Nat /\ disk[q].recs[i].ts <= last[u]
          BY <2>6, <3>2, <4>1
        <5> QED
          BY <2>7, <4>1, <5>1
      <4>2. CASE u = w /\ disk'[q].recs[i].ts = t
        BY <1>5, <1>6, <4>2
      <4> QED
        BY <2>4, <3>2, <4>1, <4>2
    <3>3. ASSUME NEW q \in Paths, u \in owner[q], NEW i \in 1..Len(disk'[q].recs),
                 NEW a \in Paths, u \in owner[a], NEW k \in 1..Len(disk'[a].recs),
                 disk'[q].recs[i].ts = disk'[a].recs[k].ts
          PROVE  q = a /\ i = k
      <4>1. CASE /\ i \in 1..Len(disk[q].recs) /\ disk'[q].recs[i] = disk[q].recs[i]
                 /\ k \in 1..Len(disk[a].recs) /\ disk'[a].recs[k] = disk[a].recs[k]
        BY <2>1, <3>3, <4>1 DEF StampsDiffer
      <4>2. ASSUME NEW b \in Paths, u \in owner[b], NEW j \in 1..Len(disk'[b].recs),
                   disk'[b].recs[j].ts = t, u = w
            PROVE  b = p /\ j = n + 1
        <5>1. SUFFICES ASSUME j \in 1..Len(disk[b].recs), disk'[b].recs[j] = disk[b].recs[j]
                       PROVE  FALSE
          BY <2>4, <4>2
        <5>2. disk[b].recs[j].ts \in Nat /\ disk[b].recs[j].ts <= last[w]
          BY <2>6, <4>2, <5>1
        <5> QED
          BY <1>5, <1>6, <4>2, <5>1, <5>2
      <4>3. CASE u = w /\ disk'[q].recs[i].ts = t
        BY <3>3, <4>2, <4>3
      <4> QED
        BY <2>4, <3>3, <4>1, <4>3
    <3>4. ASSUME NEW q \in Paths, u \in owner'[q], NEW i \in 1..Len(disk'[q].recs)
          PROVE  /\ disk'[q].recs[i].ts <= last'[u]
                 /\ \A a \in Paths : u \in owner'[a] => \A k \in 1..Len(disk'[a].recs) :
                      disk'[q].recs[i].ts = disk'[a].recs[k].ts => q = a /\ i = k
      <4>1. owner' = owner
        BY <1>11
      <4>2. disk'[q].recs[i].ts <= last'[u]
        BY <3>2, <3>4, <4>1
      <4>3. ASSUME NEW a \in Paths, u \in owner'[a], NEW k \in 1..Len(disk'[a].recs),
                   disk'[q].recs[i].ts = disk'[a].recs[k].ts
            PROVE  q = a /\ i = k
        BY <3>3, <3>4, <4>1, <4>3
      <4> QED
        BY <4>2, <4>3
    <3> QED
      BY <2>2, <2>7, <3>1, <3>4 DEF StampsDiffer
  <2>9. ReaderFits(u)'
    <3>1. t \notin Taken(u) \/ u # w
      BY <1>5, <1>6, <2>5, <2>7
    <3>2. \A q \in Paths : u \in owner'[q] => \A i \in 1..Len(disk'[q].recs) :
            \/ u \in owner[q] /\ i \in 1..Len(disk[q].recs) /\ disk'[q].recs[i] = disk[q].recs[i]
            \/ disk'[q].recs[i].ts \notin Taken(u)
      BY <1>11, <2>4, <3>1
    <3>3. \A q \in Paths : u \in owner[q] =>
            u \in owner'[q] /\ (disk'[q].age = "fresh" => disk[q].age = "fresh")
      <4>1. disk'[p].age = "fresh" => disk[p].age = "fresh"
        BY <1>3
      <4>2. \A q \in Paths : disk'[q].age = "fresh" => disk[q].age = "fresh"
        BY <1>3, <4>1
      <4> QED
        BY <1>11, <4>2
    <3> QED
      BY <1>0, <2>1, <3>2, <3>3, ReaderFitsGrown DEF TailTypes
  <2> QED
    BY <2>1, <2>8, <2>9, JobsFitStay
<1>10. UNCHANGED <<phase, status>>
  BY DEF readerVars, loopVars
<1> QED
  BY <1>7, <1>8, <1>9, <1>10 DEF OnceInv

LEMMA OnceWorld ==
  ASSUME TailTypes, LogsOnlyGrow, OnceInv, World
  PROVE  OnceInv'
<1>1. UNCHANGED readerVars /\ WorldStep
  BY DEF World, readerVars
<1>2. "reset" \notin Mishaps /\ "vanish" \notin Mishaps
  BY DEF LogsOnlyGrow
<1>3. ASSUME NEW p \in Paths
      PROVE  ~Reset(p) /\ ~Vanish(p)
  BY <1>2 DEF Reset, Vanish, Mishap
<1> QED
  BY <1>1, <1>3, OnceLaunch, OnceExit, OnceBeginRecord, OnceEndRecord, OnceIdle DEF WorldStep

-----------------------------------------------------------------------------
(* Resolving *)

LEMMA ReadsOnStays ==
  ASSUME NEW u \in Accounts, UNCHANGED <<disk, owner>>, Taken(u)' \subseteq Taken(u), ReadsOn(u),
         SameReading(cur'[u], cur[u])
  PROVE  ReadsOn(u)'
<1>1. PICK c, q : c = cur[u] /\ q = c.gen.path
  OBVIOUS
<1>2. PICK d : /\ d = cur'[u] /\ d.gen = c.gen /\ d.pos = c.pos /\ d.carry = c.carry /\ d.inc = c.inc
               /\ d.anchored = c.anchored
  BY <1>1 DEF SameReading
<1>3. /\ u \in owner'[q] /\ d.gen = LogGen(q) /\ (d.anchored => d.inc = 1)
      /\ (~d.anchored => d.pos = 0)
  BY <1>1, <1>2 DEF ReadsOn
<1>4. \A i \in 1..Len(disk'[q].recs) : disk'[q].recs[i].ts \in Taken(u)' => Behind(d, i)
  BY <1>1, <1>2 DEF ReadsOn, Behind
<1>5. \A p \in Paths : q < p /\ u \in owner'[p] => Untaken(u, p)'
  BY <1>1 DEF ReadsOn, Untaken
<1> QED
  BY <1>1, <1>2, <1>3, <1>4, <1>5 DEF ReadsOn, LogGen, Behind

LEMMA PassedStays ==
  ASSUME NEW u \in Accounts, NEW b, UNCHANGED <<disk, owner>>, Taken(u)' \subseteq Taken(u),
         retired[u] \subseteq retired'[u], u \in ever' => u \in ever, PassedUpTo(u, b)
  PROVE  PassedUpTo(u, b)'
<1>1. \A p : Untaken(u, p) => Untaken(u, p)'
  BY DEF Untaken
<1> QED
  BY <1>1 DEF PassedUpTo, LogGen

\* A log that is given up was read as far as it will be.
LEMMA GivenUp ==
  ASSUME AttachTypes, NEW u \in Accounts, UNCHANGED <<disk, owner>>, Taken(u)' \subseteq Taken(u),
         cur[u] # Nothing, ReadsOn(u), cur[u].gen \in retired'[u] \/ u \notin ever'
  PROVE  \E q \in Paths : q = cur[u].gen.path /\ PassedUpTo(u, q)'
<1>1. PICK q \in Paths : q = cur[u].gen.path
  BY CursorFacts
<1>2. u \in owner'[q] /\ cur[u].gen = LogGen(q)
  BY <1>1 DEF ReadsOn
<1>3. \A p \in Paths : q < p /\ u \in owner'[p] => Untaken(u, p)'
  BY <1>1 DEF ReadsOn, Untaken
<1>4. LogGen(q) \in retired'[u] \/ u \notin ever'
  BY <1>2
<1>5. PassedUpTo(u, q)'
  BY <1>2, <1>3, <1>4 DEF PassedUpTo, LogGen
<1> QED
  BY <1>1, <1>5

\* Cursors of different accounts read different logs.
LEMMA OwnGeneration ==
  ASSUME LogsGrow, AttachTypes, NEW u \in Accounts, NEW v \in Accounts, cur[u] # Nothing,
         cur[v] # Nothing, ReadsOn(u), ReadsOn(v), cur[u].gen = cur[v].gen
  PROVE  u = v
<1>1. PICK q \in Paths : q = cur[u].gen.path /\ q = cur[v].gen.path
  BY CursorFacts
<1> QED
  BY <1>1 DEF ReadsOn, LogsGrow

LEMMA EntriesStay ==
  ASSUME disk' = disk, NEW ix, EntriesFit(ix)
  PROVE  EntriesFit(ix)'
<1>1. \A p : Size(p)' = Size(p)
  BY DEF Size
<1> QED
  BY <1>1 DEF EntriesFit

\* The pins follow the cursor of an account that is moved or given up.
LEMMA PinsFollow ==
  ASSUME AttachTypes, LogsGrow, NEW u \in Accounts, NEW ix, NEW pn, IndexFits(ix, pn),
         \A v \in Accounts : cur[v] # Nothing => ReadsOn(v),
         UNCHANGED <<disk, phase>>, \A v \in Accounts : v # u => cur'[v] = cur[v],
         \/ cur'[u] = Nothing /\ pins' = (IF cur[u] = Nothing THEN pn ELSE pn \ {cur[u].gen})
         \/ /\ cur'[u] # Nothing
            /\ pins' = (IF cur[u] = Nothing THEN pn ELSE pn \ {cur[u].gen}) \union {cur'[u].gen}
            /\ ix[cur'[u].gen.path].known /\ ix[cur'[u].gen.path].marked
  PROVE  IndexFits(ix, pins)'
<1>1. EntriesFit(ix)'
  BY EntriesStay DEF IndexFits
<1>2. ASSUME NEW g \in pins'
      PROVE  \E v \in Accounts : cur'[v] # Nothing /\ cur'[v].gen = g
  <2>1. CASE cur'[u] # Nothing /\ g = cur'[u].gen
    BY <2>1
  <2>2. CASE ~(cur'[u] # Nothing /\ g = cur'[u].gen)
    <3>1. g \in pn /\ (cur[u] = Nothing \/ g # cur[u].gen)
      BY <1>2, <2>2
    <3>2. PICK v \in Accounts : cur[v] # Nothing /\ cur[v].gen = g
      BY <3>1 DEF IndexFits
    <3> QED
      BY <3>1, <3>2
  <2> QED
    BY <2>1, <2>2
<1>3. ASSUME NEW v \in Accounts, cur'[v] # Nothing, phase' # "paused"
      PROVE  cur'[v].gen \in pins' /\ ix[cur'[v].gen.path].known /\ ix[cur'[v].gen.path].marked
  <2>1. CASE v = u
    BY <1>3, <2>1
  <2>2. CASE v # u
    <3>1. cur'[v] = cur[v] /\ phase # "paused"
      BY <1>3, <2>2
    <3>2. cur[v].gen \in pn /\ ix[cur[v].gen.path].known /\ ix[cur[v].gen.path].marked
      BY <1>3, <3>1 DEF IndexFits
    <3>3. cur[u] # Nothing => cur[u].gen # cur[v].gen
      BY <1>3, <2>2, <3>1, OwnGeneration
    <3> QED
      BY <3>1, <3>2, <3>3
  <2> QED
    BY <2>1, <2>2
<1> QED
  BY <1>1, <1>2, <1>3 DEF IndexFits

\* What a resolution with the index ix for a process of that start needs, and keeps.
Attachable(u, ix, started) ==
  IF cur[u] # Nothing THEN ReadsOn(u)
  ELSE \E b \in 0..MaxFiles : PassedUpTo(u, b) /\ Finds(u, b, ix, started)

LEMMA FindsStays ==
  ASSUME NEW u, NEW b, NEW ix, NEW started, disk' = disk, Finds(u, b, ix, started)
  PROVE  Finds(u, b, ix, started)'
BY DEF Finds

LEMMA UnresolvedOnce ==
  ASSUME NEW u \in Accounts, NEW ix, NEW pn, NEW started, IndexFits(ix, pn),
         Attachable(u, ix, started), UNCHANGED <<disk, owner, phase, handled, job>>,
         pins' = pn, UNCHANGED <<cur, ever, retired>>
  PROVE  IndexFits(ix, pins)' /\ Attachable(u, ix, started)'
<1>1. IndexFits(ix, pins)'
  BY EntriesStay DEF IndexFits
<1>2. Taken(u)' = Taken(u)
  BY DEF Taken
<1>3. CASE cur[u] # Nothing
  <2>1. SameReading(cur'[u], cur[u])
    BY <1>3 DEF SameReading
  <2>2. ReadsOn(u)'
    BY <1>2, <1>3, <2>1, ReadsOnStays DEF Attachable
  <2> QED
    BY <1>1, <1>3, <2>2 DEF Attachable
<1>4. CASE cur[u] = Nothing
  <2>1. PICK b \in 0..MaxFiles : PassedUpTo(u, b) /\ Finds(u, b, ix, started)
    BY <1>4 DEF Attachable
  <2>2. PassedUpTo(u, b)' /\ Finds(u, b, ix, started)'
    BY <1>2, <2>1, PassedStays, FindsStays
  <2> QED
    BY <1>1, <1>4, <2>2 DEF Attachable
<1> QED
  BY <1>3, <1>4

\* What the cursor of an attached account is read from.
LEMMA AttachOnce ==
  ASSUME LogTypes, AttachTypes, LogsGrow, NEW u \in Accounts, NEW ix \in [Paths -> Entries],
         NEW pn \in SUBSET Generations, NEW p \in Paths, EntriesFit(ix), ix[p].known, u \in owner[p],
         Attach(u, ix, pn, Generation(ix, p)), UNCHANGED <<disk, owner, handled, job>>,
         u \in ever => Untaken(u, p),
         \A q \in Paths : p < q /\ u \in owner[q] => Untaken(u, q)
  PROVE  ReadsOn(u)' /\ cur'[u] # Nothing /\ cur'[u].gen = Generation(ix, p)
<1>1. PICK g \in Generations : g = Generation(ix, p) /\ g.path = p
  BY GenerationType
<1>2. g = LogGen(p)
  BY <1>1 DEF EntriesFit, Generation, LogGen
<1>3. disk[p].on /\ disk[p].inc = 1
  <2>1. disk[p].inc > 0 /\ disk[p].inc \in Nat /\ disk[p].ino > 0
    BY FileFacts DEF LogTypes
  <2> QED
    BY <2>1, FileFacts DEF LogsGrow
<1>4. PICK n \in Nat, l \in Nat : /\ n = Size(p) /\ l = Len(disk[p].recs)
                                  /\ n = 2 * l - (IF disk[p].half THEN 1 ELSE 0)
  BY SizeFacts
<1>5. Taken(u)' = Taken(u)
  BY DEF Taken
<1>6. \A q \in Paths : p < q /\ u \in owner'[q] => Untaken(u, q)'
  BY <1>5 DEF Untaken
<1>7. cur' = [cur EXCEPT ![u] =
                IF u \notin ever THEN WarmCursor(g)
                ELSE CursorAt(g, IF u \in ever THEN 0 ELSE ix[p].size, ix[p].size)]
  BY <1>1, <1>3 DEF Attach
<1>8. cur \in [Accounts -> TailCursors \union {Nothing}]
  BY DEF AttachTypes
<1>9. CASE u \notin ever
  <2>6. PICK a : a = (Size(g.path) > 0)
    OBVIOUS
  <2>1. PICK d \in TailCursors :
          /\ d = WarmCursor(g) /\ d.gen = g /\ d.pos = n /\ d.inc = 1 /\ d.anchored = a
          /\ ~d.carry
    <3>1. WarmCursor(g) \in TailCursors /\ WarmCursor(g).gen = g /\ WarmCursor(g).pos = n
          /\ WarmCursor(g).inc = 1 /\ ~WarmCursor(g).carry
      BY <1>1, <1>3, <1>4, WarmCursorFacts
    <3>2. WarmCursor(g).anchored = a
      BY <2>6, WarmCursorFacts
    <3> QED
      BY <3>1, <3>2
  <2>2. cur'[u] = d
    BY <1>7, <1>8, <1>9, <2>1
  <2>3. \A i \in 1..l : Behind(d, i)
    BY <1>4, <2>1 DEF Behind
  <2>4. ~d.anchored => d.pos = 0
    <3>1. n > 0 \/ n = 0
      OBVIOUS
    <3> QED
      BY <1>1, <1>4, <2>1, <2>6, <3>1
  <2>5. ReadsOn(u)'
    BY <1>1, <1>2, <1>4, <1>6, <2>1, <2>2, <2>3, <2>4 DEF ReadsOn, LogGen, Behind
  <2> QED
    BY <1>1, <2>1, <2>2, <2>5, CursorIsSomething
<1>10. CASE u \in ever
  <2>1. ix[p].size \in Nat
    <3>1. PICK e \in Entries : e = ix[p]
      OBVIOUS
    <3> QED
      BY <3>1 DEF Entries
  <2>2. PICK d \in TailCursors : /\ d = CursorAt(g, 0, ix[p].size) /\ d.gen = g /\ d.pos = 0
                                 /\ ~d.anchored /\ ~d.carry
    BY <2>1, CursorAtFacts
  <2>3. cur'[u] = d
    BY <1>7, <1>8, <1>10, <2>2
  <2>4. \A i \in 1..l : disk[p].recs[i].ts \notin Taken(u)
    BY <1>4, <1>10 DEF Untaken
  <2>5. ReadsOn(u)'
    BY <1>1, <1>2, <1>4, <1>5, <1>6, <2>2, <2>3, <2>4 DEF ReadsOn, LogGen
  <2> QED
    BY <1>1, <2>2, <2>3, <2>5, CursorIsSomething
<1> QED
  BY <1>9, <1>10

LEMMA ResolveSinceOnce ==
  ASSUME LogTypes, AttachTypes, LogsGrow, NEW u \in Accounts, NEW ix \in [Paths -> Entries],
         NEW pn \in SUBSET Generations, NEW started \in 0..MaxFiles, phase # "paused",
         IndexFits(ix, pn), \A v \in Accounts : cur[v] # Nothing => ReadsOn(v),
         Attachable(u, ix, started), ResolveSince(u, ix, pn, started),
         UNCHANGED <<disk, owner, phase, handled, job>>
  PROVE  /\ IndexFits(ix, pins)' /\ Attachable(u, ix, started)'
         /\ \A v \in Accounts : v # u =>
              cur'[v] = cur[v] /\ retired'[v] = retired[v] /\ (v \in ever' => v \in ever)
<1>1. PICK p \in 0..MaxFiles : p = Lookup(ix, pn, u, started)
  BY LookupFacts, TailNumbers
<1>2. cur \in [Accounts -> TailCursors \union {Nothing}] /\ retired \in [Accounts -> SUBSET Generations]
  BY DEF AttachTypes
<1>3. Taken(u)' = Taken(u)
  BY DEF Taken
<1>4. CASE pins' = pn /\ UNCHANGED <<cur, ever, retired>>
  BY <1>4, UnresolvedOnce
<1>5. CASE p = NoPath /\ cur[u] # Nothing /\ ~(pins' = pn /\ UNCHANGED <<cur, ever, retired>>)
  <2>1. Unmatched(u, ix, pn, started)
    BY <1>1, <1>5 DEF ResolveSince
  <2>2. PICK q \in Paths : q = cur[u].gen.path
    BY <1>5, CursorFacts
  <2>3. cur[u].gen = LogGen(q) /\ ix[q].known /\ ReadsOn(u)
    BY <1>5, <2>2 DEF IndexFits, ReadsOn
  <2>4. HasGeneration(ix, cur[u].gen)
    BY <2>2, <2>3 DEF HasGeneration, Generation, LogGen, IndexFits, EntriesFit
  <2>5. q < started /\ Detach(u, pn) /\ ever' = ever
    BY <1>5, <2>1, <2>2, <2>4 DEF Unmatched
  <2>6. /\ cur' = [cur EXCEPT ![u] = Nothing] /\ pins' = pn \ {cur[u].gen}
        /\ retired' = [retired EXCEPT ![u] = @ \union {cur[u].gen}]
    BY <1>5, <2>5 DEF Detach
  <2>7. /\ cur'[u] = Nothing /\ cur[u].gen \in retired'[u]
        /\ \A v \in Accounts : v # u => cur'[v] = cur[v] /\ retired'[v] = retired[v]
    BY <1>2, <2>6
  <2>8. IndexFits(ix, pins)'
    BY <1>5, <2>6, <2>7, PinsFollow
  <2>9. PassedUpTo(u, q)'
    BY <1>3, <1>5, <2>2, <2>3, <2>7, GivenUp
  <2>10. Finds(u, q, ix, started)'
    <3>1. ix[q].known /\ ix[q].marked
      BY <1>5, <2>2 DEF IndexFits
    <3> QED
      BY <2>5, <3>1, TailNumbers DEF Finds
  <2>11. q \in 0..MaxFiles
    BY TailNumbers
  <2>12. Attachable(u, ix, started)'
    BY <2>7, <2>9, <2>10, <2>11 DEF Attachable
  <2> QED
    BY <2>5, <2>7, <2>8, <2>12
<1>6. CASE p # NoPath /\ ~(pins' = pn /\ UNCHANGED <<cur, ever, retired>>)
  <2>1. p \in Paths /\ u \in owner[p] /\ ix[p].known /\ ix[p].marked
    BY <1>1, <1>6, LookupOwned
  <2>2. PICK g \in Generations : g = Generation(ix, p) /\ g.path = p
    BY <2>1, GenerationType
  <2>3. g = LogGen(p)
    BY <2>1, <2>2 DEF IndexFits, EntriesFit, Generation, LogGen
  <2>4. g \notin retired[u]
    BY <1>1, <1>6, <2>2 DEF ResolveSince, Unresolved
  <2>5. CASE cur[u] # Nothing /\ cur[u].gen = g
    <3>1. StayAttached(u, ix, pn, g)
      BY <1>1, <1>6, <2>2, <2>4, <2>5 DEF ResolveSince
    <3>2. pins' = pn \union {g} /\ UNCHANGED <<ever, retired>>
          /\ cur' = [cur EXCEPT ![u].observed = ix[p].size]
      BY <2>2, <3>1 DEF StayAttached
    <3>3. PICK c \in TailCursors : c = cur[u]
      BY <1>2, <2>5
    <3>4. cur' = [cur EXCEPT ![u] = [c EXCEPT !.observed = ix[p].size]]
      BY <3>2, <3>3
    <3>5. cur'[u] = [c EXCEPT !.observed = ix[p].size] /\ \A v \in Accounts : v # u => cur'[v] = cur[v]
      BY <1>2, <3>4
    <3>6. SameReading(cur'[u], cur[u]) /\ cur'[u] # Nothing /\ cur'[u].gen = cur[u].gen
      <4>1. PICK d : d = [c EXCEPT !.observed = ix[p].size]
        OBVIOUS
      <4>2. d.gen = c.gen /\ d.pos = c.pos /\ d.carry = c.carry /\ d.inc = c.inc /\ d.anchored = c.anchored
        BY <4>1 DEF TailCursors
      <4>3. d # Nothing
        <5>1. cur'[u] \in TailCursors \union {Nothing} /\ d \in TailCursors
          <6>1. ix[p].size \in Nat
            <7>1. PICK e \in Entries : e = ix[p]
              BY <2>1
            <7> QED
              BY <7>1 DEF Entries
          <6>2. d \in TailCursors
            BY <4>1, <6>1 DEF TailCursors
          <6> QED
            BY <3>5, <4>1, <6>2
        <5> QED
          BY <5>1, CursorIsSomething
      <4> QED
        BY <3>3, <3>5, <4>1, <4>2, <4>3, CursorIsSomething DEF SameReading
    <3>7. ReadsOn(u)'
      BY <1>3, <2>5, <3>6, ReadsOnStays
    <3>8. IndexFits(ix, pins)'
      <4>1. g \in pn
        BY <2>5 DEF IndexFits
      <4>2. pins' = (IF cur[u] = Nothing THEN pn ELSE pn \ {cur[u].gen}) \union {cur'[u].gen}
        BY <2>5, <3>2, <3>6, <4>1
      <4>3. ix[cur'[u].gen.path].known /\ ix[cur'[u].gen.path].marked
        BY <2>1, <2>2, <2>5, <3>6
      <4> QED
        BY <3>5, <3>6, <4>2, <4>3, PinsFollow
    <3> QED
      BY <3>2, <3>5, <3>6, <3>7, <3>8 DEF Attachable
  <2>6. CASE cur[u] = Nothing \/ cur[u].gen # g
    <3>1. Attach(u, ix, pn, g)
      BY <1>1, <1>6, <2>2, <2>4, <2>6 DEF ResolveSince
    <3>2. (u \in ever => Untaken(u, p)) /\ \A q \in Paths : p < q /\ u \in owner[q] => Untaken(u, q)
      <4>1. CASE cur[u] # Nothing
        <5>1. PICK q \in Paths : q = cur[u].gen.path
          BY <4>1, CursorFacts
        <5>2. q <= p /\ ReadsOn(u) /\ cur[u].gen = LogGen(q)
          BY <1>1, <1>6, <4>1, <5>1, LookupPastCursor DEF ReadsOn
        <5>3. q < p
          BY <2>1, <2>3, <2>6, <4>1, <5>2, TailNumbers
        <5>4. \A r \in Paths : p <= r => q < r
          BY <2>1, <5>3, TailNumbers
        <5> QED
          BY <2>1, <5>1, <5>2, <5>4, TailNumbers DEF ReadsOn
      <4>2. CASE cur[u] = Nothing
        <5>1. PICK b \in 0..MaxFiles : PassedUpTo(u, b) /\ Finds(u, b, ix, started)
          BY <4>2 DEF Attachable
        <5>2. p >= b
          BY <1>1, <1>6, <4>2, <5>1, LookupPastBarrier
        <5>3. \A r \in Paths : p < r => b < r
          BY <2>1, <5>2, TailNumbers
        <5>4. CASE p = b
          BY <1>6, <2>3, <2>4, <5>1, <5>3, <5>4 DEF PassedUpTo
        <5>5. CASE b < p
          BY <2>1, <5>1, <5>3, <5>5 DEF PassedUpTo
        <5> QED
          BY <2>1, <5>2, <5>4, <5>5, TailNumbers
      <4> QED
        BY <4>1, <4>2
    <3>3. ReadsOn(u)' /\ cur'[u] # Nothing /\ cur'[u].gen = g
      BY <2>1, <2>2, <3>1, <3>2, AttachOnce DEF IndexFits
    <3>4. /\ pins' = (IF cur[u] = Nothing THEN pn ELSE pn \ {cur[u].gen}) \union {g}
          /\ \A v \in Accounts : v # u => cur'[v] = cur[v] /\ retired'[v] = retired[v]
          /\ ever' = ever \union {u}
      BY <1>2, <3>1 DEF Attach
    <3>5. IndexFits(ix, pins)'
      BY <2>1, <2>2, <3>3, <3>4, PinsFollow
    <3> QED
      BY <3>3, <3>4, <3>5 DEF Attachable
  <2> QED
    BY <2>5, <2>6
<1>7. CASE p = NoPath /\ cur[u] = Nothing
  <2>1. pins' = pn /\ UNCHANGED <<cur, ever, retired>>
    BY <1>1, <1>7 DEF ResolveSince, Unmatched
  <2> QED
    BY <1>4, <2>1
<1> QED
  BY <1>4, <1>5, <1>6, <1>7

-----------------------------------------------------------------------------
(* The steps between two batches *)

LEMMA StampsKept ==
  ASSUME NEW u \in Accounts, UNCHANGED logVars, Taken(u)' \subseteq Taken(u), StampsDiffer(u)
  PROVE  StampsDiffer(u)'
<1>1. UNCHANGED <<disk, owner, clock, last>>
  BY DEF logVars
<1> QED
  BY <1>1 DEF StampsDiffer

LEMMA LogsGrowStays ==
  ASSUME UNCHANGED logVars, LogsGrow
  PROVE  LogsGrow'
BY DEF logVars, LogsGrow

\* An account whose cursor does not move, or that goes on waiting.
LEMMA ReaderFitsKept ==
  ASSUME NEW u \in Accounts, UNCHANGED <<disk, owner>>, Taken(u)' \subseteq Taken(u), ReaderFits(u),
         (cur[u] = Nothing /\ cur'[u] = Nothing) \/ SameReading(cur'[u], cur[u]),
         retired[u] \subseteq retired'[u], u \in ever' => u \in ever,
         cur'[u] = Nothing =>
           /\ status'[u] = NoPath \/ u \in suspended'
              \/ (status'[u] = status[u] /\ (u \in suspended => u \in suspended'))
           /\ phase' = "resolve" => phase = "resolve" /\ files' = files
  PROVE  ReaderFits(u)'
<1>1. CASE cur[u] # Nothing /\ SameReading(cur'[u], cur[u])
  <2>1. ReadsOn(u)'
    BY <1>1, ReadsOnStays DEF ReaderFits
  <2> QED
    BY <1>1, <2>1 DEF ReaderFits, SameReading
<1>2. CASE cur[u] = Nothing /\ cur'[u] = Nothing
  <2>1. PICK b \in 0..MaxFiles : Waits(u, b)
    BY <1>2 DEF ReaderFits
  <2>2. PassedUpTo(u, b)'
    BY <2>1, PassedStays DEF Waits
  <2>3. Waits(u, b)'
    BY <1>2, <2>1, <2>2 DEF Waits
  <2> QED
    BY <1>2, <2>3 DEF ReaderFits
<1> QED
  BY <1>1, <1>2 DEF SameReading

\* After a resolution for a process of that start.
LEMMA ReattachOnce ==
  ASSUME OnceInv, NEW u \in Accounts, NEW ix, NEW started \in 0..MaxFiles, phase # "paused",
         UNCHANGED logVars, UNCHANGED <<phase, handled, job>>, files' = ix,
         phase = "resolve" => files' = files,
         IndexFits(ix, pins)', Attachable(u, ix, started)', status'[u] = started \/ u \in suspended',
         \A v \in Accounts : v # u =>
           /\ cur'[v] = cur[v] /\ retired'[v] = retired[v] /\ (v \in ever' => v \in ever)
           /\ status'[v] = status[v] /\ (v \in suspended => v \in suspended')
  PROVE  OnceInv'
<1>0. UNCHANGED <<disk, owner>>
  BY DEF logVars
<1>1. \A v \in Accounts : Taken(v)' = Taken(v)
  BY DEF Taken
<1>2. ASSUME NEW v \in Accounts
      PROVE  StampsDiffer(v)' /\ JobFits(v)'
  BY <1>1, StampsKept DEF OnceInv, JobFits
<1>3. ASSUME NEW v \in Accounts, v # u
      PROVE  ReaderFits(v)'
  <2>1. (cur[v] = Nothing /\ cur'[v] = Nothing) \/ SameReading(cur'[v], cur[v])
    BY <1>3 DEF SameReading
  <2>2. ReaderFits(v)
    BY DEF OnceInv
  <2>3. /\ status'[v] = status[v] /\ (v \in suspended => v \in suspended')
        /\ phase' = "resolve" => phase = "resolve" /\ files' = files
        /\ retired[v] \subseteq retired'[v] /\ (v \in ever' => v \in ever)
    BY <1>3
  <2> QED
    BY <1>0, <1>1, <2>1, <2>2, <2>3, ReaderFitsKept
<1>4. ReaderFits(u)'
  <2>1. CASE cur'[u] # Nothing
    BY <2>1 DEF Attachable, ReaderFits
  <2>2. CASE cur'[u] = Nothing
    <3>1. PICK b \in 0..MaxFiles : PassedUpTo(u, b)' /\ Finds(u, b, ix, started)'
      BY <2>2 DEF Attachable
    <3>2. Waits(u, b)'
      BY <3>1 DEF Waits, Finds
    <3> QED
      BY <2>2, <3>2 DEF ReaderFits
  <2> QED
    BY <2>1, <2>2
<1>5. LogsGrow' /\ IndexFits(files, pins)'
  BY LogsGrowStays DEF OnceInv
<1> QED
  BY <1>2, <1>3, <1>4, <1>5 DEF OnceInv

\* A newest log that is fresh is one the index finds.
FindsFresh(b, ix) == b # NoPath /\ disk[b].age = "fresh" => ix[b].known /\ ix[b].marked

LEMMA ResolveWithOnce ==
  ASSUME LogTypes, AttachTypes, LogsGrow, NEW u \in Accounts, NEW ix \in [Paths -> Entries],
         NEW pn \in SUBSET Generations, phase # "paused",
         IndexFits(ix, pn), \A v \in Accounts : cur[v] # Nothing => ReadsOn(v), ReaderFits(u),
         \A b \in 0..MaxFiles : cur[u] = Nothing /\ Waits(u, b) => FindsFresh(b, ix),
         ResolveWith(u, ix, pn), UNCHANGED <<disk, owner, phase, handled, job>>
  PROVE  \E started \in 0..MaxFiles :
           /\ started = status[u] \/ u \in suspended
           /\ IndexFits(ix, pins)' /\ Attachable(u, ix, started)'
           /\ \A v \in Accounts : v # u =>
                cur'[v] = cur[v] /\ retired'[v] = retired[v] /\ (v \in ever' => v \in ever)
<1>1. CASE u \in suspended
  <2>1. pins' = pn /\ UNCHANGED <<cur, ever, retired>>
    BY <1>1 DEF ResolveWith, Unresolved
  <2>2. Attachable(u, ix, NoPath)
    BY DEF Attachable, ReaderFits, Waits, Finds, FindsFresh
  <2>3. NoPath \in 0..MaxFiles
    BY TailNumbers
  <2>4. IndexFits(ix, pins)' /\ Attachable(u, ix, NoPath)'
    <3>1. PICK n : n = NoPath
      OBVIOUS
    <3>2. Attachable(u, ix, n)
      BY <2>2, <3>1
    <3>3. IndexFits(ix, pins)' /\ Attachable(u, ix, n)'
      BY <2>1, <3>2, UnresolvedOnce
    <3> QED
      BY <3>1, <3>3
  <2> QED
    BY <1>1, <2>1, <2>3, <2>4
<1>2. CASE u \notin suspended
  <2>1. PICK s \in 0..MaxFiles : s = status[u]
    BY DEF AttachTypes
  <2>2. ResolveSince(u, ix, pn, s)
    BY <1>2, <2>1 DEF ResolveWith
  <2>3. Attachable(u, ix, s)
    BY <1>2, <2>1 DEF Attachable, ReaderFits, Waits, Finds, FindsFresh
  <2>4. /\ IndexFits(ix, pins)' /\ Attachable(u, ix, s)'
        /\ \A v \in Accounts : v # u =>
             cur'[v] = cur[v] /\ retired'[v] = retired[v] /\ (v \in ever' => v \in ever)
    BY <2>2, <2>3, ResolveSinceOnce
  <2> QED
    BY <2>1, <2>4
<1> QED
  BY <1>1, <1>2

LEMMA OnceFacts ==
  ASSUME OnceInv
  PROVE  /\ LogsGrow /\ IndexFits(files, pins)
         /\ \A v \in Accounts : ReaderFits(v) /\ (cur[v] # Nothing => ReadsOn(v))
BY DEF OnceInv, ReaderFits

LEMMA OwnedLogs ==
  ASSUME LogTypes, LogsGrow, NEW p \in Paths, owner[p] # {}
  PROVE  disk[p].on /\ disk[p].ino = 1 /\ disk[p].inc = 1
<1>1. disk[p].inc > 0 /\ disk[p].inc \in Nat /\ disk[p].ino > 0
  BY FileFacts DEF LogTypes
<1> QED
  BY <1>1, FileFacts DEF LogsGrow

\* A polled index finds every newest log that is fresh.
LEMMA PolledFindsFresh ==
  ASSUME LogTypes, LogsGrow, NEW u \in Accounts, NEW ix, NEW b \in 0..MaxFiles, PassedUpTo(u, b),
         \A p \in Paths : disk[p].on /\ disk[p].age # "idle" => ix[p].known /\ ix[p].marked
  PROVE  FindsFresh(b, ix)
<1>1. SUFFICES ASSUME b # NoPath, disk[b].age = "fresh"
               PROVE  ix[b].known /\ ix[b].marked
  BY DEF FindsFresh
<1>2. b \in Paths /\ u \in owner[b]
  BY <1>1, TailNumbers DEF PassedUpTo
<1>3. disk[b].on
  BY <1>2, OwnedLogs
<1> QED
  BY <1>1, <1>2, <1>3

LEMMA OnceResolve ==
  ASSUME TailInv, OnceInv, NEW u \in Accounts, Resolve(u)
  PROVE  OnceInv'
<1>1. LogTypes /\ AttachTypes /\ EntryTypes /\ PhaseInv
  BY DEF TailInv, TailTypes
<1>2. /\ phase = "resolve" /\ ResolveWith(u, files, pins)
      /\ UNCHANGED <<worldVars, files, phase, job, suspended, status, handled>>
  BY DEF Resolve
<1>3. UNCHANGED logVars /\ UNCHANGED <<disk, owner>>
  BY <1>2 DEF worldVars, logVars
<1>4. PICK ix \in [Paths -> Entries], pn \in SUBSET Generations : ix = files /\ pn = pins
  BY <1>1 DEF EntryTypes
<1>5. \A b \in 0..MaxFiles : cur[u] = Nothing /\ Waits(u, b) => FindsFresh(b, ix)
  BY <1>2, <1>4 DEF Waits, FindsFresh
<1>6. IndexFits(ix, pn) /\ LogsGrow /\ ReaderFits(u) /\ \A v \in Accounts : cur[v] # Nothing => ReadsOn(v)
  BY <1>4, OnceFacts
<1>7. ResolveWith(u, ix, pn) /\ phase # "paused"
  BY <1>2, <1>4
<1>8. PICK started \in 0..MaxFiles :
        /\ started = status[u] \/ u \in suspended
        /\ IndexFits(ix, pins)' /\ Attachable(u, ix, started)'
        /\ \A v \in Accounts : v # u =>
             cur'[v] = cur[v] /\ retired'[v] = retired[v] /\ (v \in ever' => v \in ever)
  BY <1>1, <1>2, <1>3, <1>5, <1>6, <1>7, ResolveWithOnce
<1>9. files' = ix /\ (status'[u] = started \/ u \in suspended')
  BY <1>2, <1>4, <1>8
<1> QED
  BY <1>2, <1>3, <1>7, <1>8, <1>9, ReattachOnce

LEMMA OnceTrack ==
  ASSUME TailInv, OnceInv, NEW u \in Accounts, Track(u)
  PROVE  OnceInv'
<1>1. LogTypes /\ AttachTypes /\ EntryTypes /\ PhaseInv
  BY DEF TailInv, TailTypes
<1>2. PICK ix, pn : /\ ix = Polled(files, pins, NoPath) /\ pn = PinsKept(files, ix, pins)
                    /\ files' = ix /\ ResolveWith(u, ix, pn)
                    /\ UNCHANGED <<worldVars, phase, job, suspended, status, handled>>
                    /\ phase = "idle"
  BY DEF Track, Idle
<1>3. UNCHANGED logVars /\ UNCHANGED <<disk, owner>>
  BY <1>2 DEF worldVars, logVars
<1>4. ix \in [Paths -> Entries] /\ pn \in SUBSET Generations
  BY <1>1, <1>2, RefreshedType, PinsKeptType DEF EntryTypes
<1>5. LogsGrow /\ IndexFits(files, pins) /\ ReaderFits(u) /\ \A v \in Accounts : cur[v] # Nothing => ReadsOn(v)
  BY OnceFacts
<1>6. files \in [Paths -> Entries]
  BY <1>1 DEF EntryTypes
<1>7. IndexFits(ix, pn) /\ \A p \in Paths : disk[p].on /\ disk[p].age # "idle" => ix[p].known /\ ix[p].marked
  BY <1>1, <1>2, <1>5, <1>6, IndexPolled
<1>8. \A b \in 0..MaxFiles : cur[u] = Nothing /\ Waits(u, b) => FindsFresh(b, ix)
  BY <1>1, <1>5, <1>7, PolledFindsFresh DEF Waits
<1>9. phase # "paused" /\ UNCHANGED <<disk, owner, phase, handled, job>>
  BY <1>2, <1>3
<1>10. PICK started \in 0..MaxFiles :
        /\ started = status[u] \/ u \in suspended
        /\ IndexFits(ix, pins)' /\ Attachable(u, ix, started)'
        /\ \A v \in Accounts : v # u =>
             cur'[v] = cur[v] /\ retired'[v] = retired[v] /\ (v \in ever' => v \in ever)
  BY <1>1, <1>2, <1>4, <1>5, <1>7, <1>8, <1>9, ResolveWithOnce
<1> QED
  BY <1>2, <1>3, <1>9, <1>10, ReattachOnce

\* The live process has the newest log.
LEMMA NewestProc ==
  ASSUME LogTypes, LogsGrow, NEW u \in Accounts, proc[u] # NoPath, NEW b \in 0..MaxFiles,
         b # NoPath => u \in owner[b]
  PROVE  proc[u] \in Nat /\ proc[u] >= b
<1>1. proc[u] \in 0..MaxFiles
  BY DEF LogTypes
<1>2. CASE b = NoPath
  BY <1>1, <1>2, TailNumbers
<1>3. CASE b # NoPath
  <2>1. b \in Paths
    BY <1>3, TailNumbers
  <2>2. b <= proc[u]
    BY <1>3, <2>1 DEF LogsGrow
  <2> QED
    BY <1>1, <2>2, TailNumbers
<1> QED
  BY <1>2, <1>3

LEMMA OnceRecover ==
  ASSUME TailInv, OnceInv, NEW u \in Accounts, Recover(u)
  PROVE  OnceInv'
<1>1. LogTypes /\ AttachTypes /\ EntryTypes /\ PhaseInv
  BY DEF TailInv, TailTypes
<1>2. PICK s \in 0..MaxFiles : s = proc[u] /\ s # NoPath
  BY <1>1 DEF Recover, LogTypes
<1>3. PICK ix, pn : /\ ix = Polled(files, pins, s) /\ pn = PinsKept(files, ix, pins) /\ files' = ix
                    /\ (pins' = pn /\ UNCHANGED <<cur, ever, retired>>) \/ ResolveSince(u, ix, pn, s)
  BY <1>2 DEF Recover, PollAndResolve, Unresolved
<1>4. /\ phase = "idle" /\ status' = [status EXCEPT ![u] = s] /\ suspended' = suspended \ {u}
      /\ UNCHANGED <<worldVars, phase, job, handled>>
  BY <1>2 DEF Recover, Idle
<1>5. UNCHANGED logVars /\ UNCHANGED <<disk, owner, phase, handled, job>> /\ phase # "paused"
  BY <1>4 DEF worldVars, logVars
<1>6. ix \in [Paths -> Entries] /\ pn \in SUBSET Generations /\ files \in [Paths -> Entries]
  BY <1>1, <1>3, RefreshedType, PinsKeptType DEF EntryTypes
<1>7. LogsGrow /\ IndexFits(files, pins) /\ ReaderFits(u) /\ \A v \in Accounts : cur[v] # Nothing => ReadsOn(v)
  BY OnceFacts
<1>8. IndexFits(ix, pn) /\ \A p \in Paths : disk[p].on /\ disk[p].age # "idle" => ix[p].known /\ ix[p].marked
  BY <1>1, <1>3, <1>5, <1>6, <1>7, IndexPolled
<1>9. Attachable(u, ix, s)
  <2>1. CASE cur[u] # Nothing
    BY <1>7, <2>1 DEF Attachable
  <2>2. CASE cur[u] = Nothing
    <3>1. PICK b \in 0..MaxFiles : Waits(u, b)
      BY <1>7, <2>2 DEF ReaderFits
    <3>2. FindsFresh(b, ix)
      BY <1>1, <1>7, <1>8, <3>1, PolledFindsFresh DEF Waits
    <3>3. s >= b
      BY <1>1, <1>2, <1>7, <3>1, NewestProc DEF Waits, PassedUpTo
    <3> QED
      BY <2>2, <3>1, <3>2, <3>3 DEF Attachable, Finds, FindsFresh, Waits
  <2> QED
    BY <2>1, <2>2
<1>10. /\ IndexFits(ix, pins)' /\ Attachable(u, ix, s)'
       /\ \A v \in Accounts : v # u =>
            cur'[v] = cur[v] /\ retired'[v] = retired[v] /\ (v \in ever' => v \in ever)
  <2>1. CASE pins' = pn /\ UNCHANGED <<cur, ever, retired>>
    BY <1>5, <1>8, <1>9, <2>1, UnresolvedOnce
  <2>2. CASE ResolveSince(u, ix, pn, s)
    BY <1>1, <1>5, <1>6, <1>7, <1>8, <1>9, <2>2, ResolveSinceOnce
  <2> QED
    BY <1>3, <2>1, <2>2
<1>11. /\ status'[u] = s
       /\ \A v \in Accounts : v # u => status'[v] = status[v] /\ (v \in suspended => v \in suspended')
  BY <1>1, <1>4 DEF AttachTypes
<1> QED
  BY <1>3, <1>4, <1>5, <1>10, <1>11, ReattachOnce

-----------------------------------------------------------------------------
(* Polls, ticks and changes of the list *)

\* Nothing is read or dispatched, and the accounts keep their cursors or give them up.
LEMMA KeptOnce ==
  ASSUME OnceInv, UNCHANGED logVars, \A u \in Accounts : Taken(u)' \subseteq Taken(u),
         IndexFits(files, pins)', \A u \in Accounts : JobFits(u)',
         phase' = "paused" => \A u \in Accounts : status'[u] = NoPath,
         \A u \in Accounts : ReaderFits(u)'
  PROVE  OnceInv'
BY StampsKept, LogsGrowStays DEF OnceInv

LEMMA OncePoll ==
  ASSUME TailInv, OnceInv, NEW due, Poll(due)
  PROVE  OnceInv'
<1>1. LogTypes /\ AttachTypes /\ EntryTypes /\ PhaseInv
  BY DEF TailInv, TailTypes
<1>2. PICK ix : /\ ix = Polled(files, pins, NoPath) /\ files' = ix /\ pins' = PinsKept(files, ix, pins)
                /\ cur' = [u \in Accounts |-> Observed(ix, cur[u])]
                /\ UNCHANGED <<worldVars, job, ever, retired, suspended, status, handled>>
                /\ phase = "idle" /\ phase' = "resolve"
  BY DEF Poll, Idle, tailHistory
<1>3. UNCHANGED logVars /\ UNCHANGED <<disk, owner>>
  BY <1>2 DEF worldVars, logVars
<1>4. ix \in [Paths -> Entries] /\ files \in [Paths -> Entries]
  BY <1>1, <1>2, RefreshedType DEF EntryTypes
<1>5. LogsGrow /\ IndexFits(files, pins) /\ \A v \in Accounts : ReaderFits(v) /\ (cur[v] # Nothing => ReadsOn(v))
  BY OnceFacts
<1>6. PICK pn : /\ pn = PinsKept(files, ix, pins) /\ IndexFits(ix, pn)
                /\ \A p \in Paths : disk[p].on /\ disk[p].age # "idle" => ix[p].known /\ ix[p].marked
  BY <1>1, <1>2, <1>4, <1>5, IndexPolled
<1>7. ASSUME NEW u \in Accounts
      PROVE  /\ (cur[u] = Nothing /\ cur'[u] = Nothing) \/ SameReading(cur'[u], cur[u])
             /\ Taken(u)' = Taken(u)
  BY <1>1, <1>2, <1>4, ObservedFacts DEF AttachTypes, Taken
<1>8. IndexFits(files, pins)'
  <2>1. EntriesFit(ix)'
    BY <1>3, <1>6, EntriesStay DEF IndexFits
  <2>2. ASSUME NEW g \in pn
        PROVE  \E v \in Accounts : cur'[v] # Nothing /\ cur'[v].gen = g
    <3>1. PICK v \in Accounts : cur[v] # Nothing /\ cur[v].gen = g
      BY <1>6, <2>2 DEF IndexFits
    <3> QED
      BY <1>7, <3>1 DEF SameReading
  <2>3. ASSUME NEW v \in Accounts, cur'[v] # Nothing
        PROVE  cur'[v].gen \in pn /\ ix[cur'[v].gen.path].known /\ ix[cur'[v].gen.path].marked
    <3>1. cur[v] # Nothing /\ cur'[v].gen = cur[v].gen
      BY <1>7, <2>3 DEF SameReading
    <3> QED
      BY <1>2, <1>6, <3>1 DEF IndexFits
  <2> QED
    BY <1>2, <1>6, <2>1, <2>2, <2>3 DEF IndexFits
<1>9. ASSUME NEW u \in Accounts
      PROVE  ReaderFits(u)'
  <2>1. CASE cur[u] # Nothing
    <3>1. cur'[u] # Nothing /\ SameReading(cur'[u], cur[u])
      BY <1>7, <2>1 DEF SameReading
    <3>2. ReadsOn(u)'
      BY <1>3, <1>5, <1>7, <2>1, <3>1, ReadsOnStays
    <3> QED
      BY <3>1, <3>2 DEF ReaderFits
  <2>2. CASE cur[u] = Nothing
    <3>1. PICK b \in 0..MaxFiles : Waits(u, b)
      BY <1>5, <2>2 DEF ReaderFits
    <3>2. PassedUpTo(u, b)'
      BY <1>2, <1>3, <1>7, <3>1, PassedStays DEF Waits
    <3>3. FindsFresh(b, ix)
      BY <1>1, <1>5, <1>6, <3>1, PolledFindsFresh DEF Waits
    <3>4. Waits(u, b)'
      BY <1>2, <1>3, <3>1, <3>2, <3>3 DEF Waits, FindsFresh
    <3>5. cur'[u] = Nothing
      BY <1>7, <2>2 DEF SameReading
    <3> QED
      BY <3>4, <3>5 DEF ReaderFits
  <2> QED
    BY <2>1, <2>2
<1>10. \A u \in Accounts : JobFits(u)'
  BY <1>2 DEF OnceInv, JobFits
<1> QED
  BY <1>2, <1>3, <1>7, <1>8, <1>9, <1>10, KeptOnce

LEMMA OnceStartBatch ==
  ASSUME TailInv, OnceInv, StartBatch
  PROVE  OnceInv'
<1>1. /\ phase = "resolve" /\ phase' = "idle"
      /\ job' = [u \in Accounts |->
                   IF u \in tracked /\ cur[u] # Nothing /\ cur[u].observed # cur[u].pos
                   THEN JobAt("stat") ELSE Nothing]
      /\ UNCHANGED <<worldVars, files, cur, ever, retired, pins, suspended, status, handled>>
  BY DEF StartBatch, cursorVars, tailHistory
<1>2. UNCHANGED logVars /\ UNCHANGED <<disk, owner>>
  BY <1>1 DEF worldVars, logVars
<1>3. ASSUME NEW u \in Accounts
      PROVE  JobFits(u)' /\ Taken(u)' \subseteq Taken(u)
  <2>1. job'[u] = Nothing \/ (job'[u].at = "stat" /\ job'[u].recs = <<>>)
    <3>1. job'[u] = Nothing \/ job'[u] = JobAt("stat")
      BY <1>1
    <3>2. JobAt("stat").at = "stat" /\ JobAt("stat").recs = <<>>
      BY DEF JobAt
    <3> QED
      BY <3>1, <3>2
  <2> QED
    BY <1>1, <2>1 DEF JobFits, Taken, PendingOf
<1>4. IndexFits(files, pins)'
  <2>1. EntriesFit(files)'
    BY <1>1, <1>2, EntriesStay DEF OnceInv, IndexFits, EntriesFit
  <2> QED
    BY <1>1, <2>1 DEF OnceInv, IndexFits
<1>5. ASSUME NEW u \in Accounts
      PROVE  ReaderFits(u)'
  <2>1. (cur[u] = Nothing /\ cur'[u] = Nothing) \/ SameReading(cur'[u], cur[u])
    BY <1>1 DEF SameReading
  <2> QED
    BY <1>1, <1>2, <1>3, <2>1, ReaderFitsKept DEF OnceInv
<1> QED
  BY <1>1, <1>2, <1>3, <1>4, <1>5, KeptOnce

\* An account that gives up its cursor, or keeps it, for a status or a suspension.
LEMMA GivenUpOnce ==
  ASSUME TailInv, OnceInv, NEW u \in Accounts, UNCHANGED logVars, UNCHANGED <<files, phase, ever>>,
         phase = "idle", \A v \in Accounts : Taken(v)' \subseteq Taken(v) /\ JobFits(v)',
         UNCHANGED <<cur, retired, pins>> \/ Detach(u, pins),
         \A v \in Accounts : v # u => status'[v] = status[v] /\ (v \in suspended => v \in suspended'),
         \/ u \in suspended'
         \/ proc[u] # NoPath /\ status'[u] = proc[u]
         \/ UNCHANGED <<cur, retired, pins, status, suspended>>
  PROVE  OnceInv'
<1>1. LogTypes /\ AttachTypes /\ EntryTypes /\ PhaseInv
  BY DEF TailInv, TailTypes
<1>2. UNCHANGED <<disk, owner>>
  BY DEF logVars
<1>3. LogsGrow /\ IndexFits(files, pins) /\ \A v \in Accounts : ReaderFits(v) /\ (cur[v] # Nothing => ReadsOn(v))
  BY OnceFacts
<1>4. cur \in [Accounts -> TailCursors \union {Nothing}] /\ retired \in [Accounts -> SUBSET Generations]
  BY <1>1 DEF AttachTypes
<1>5. CASE UNCHANGED <<cur, retired, pins>>
  <2>1. IndexFits(files, pins)'
    <3>1. EntriesFit(files)'
      BY <1>2, <1>3, EntriesStay DEF IndexFits, EntriesFit
    <3> QED
      BY <1>3, <1>5, <3>1 DEF IndexFits
  <2>2. ASSUME NEW v \in Accounts
        PROVE  ReaderFits(v)'
    <3>1. CASE cur[v] # Nothing
      <4>1. SameReading(cur'[v], cur[v])
        BY <1>5, <3>1 DEF SameReading
      <4> QED
        BY <1>2, <1>3, <3>1, <4>1, ReadsOnStays DEF ReaderFits, SameReading
    <3>2. CASE cur[v] = Nothing
      <4>1. PICK b \in 0..MaxFiles : Waits(v, b)
        BY <1>3, <3>2 DEF ReaderFits
      <4>2. PassedUpTo(v, b)'
        BY <1>2, <1>5, <4>1, PassedStays DEF Waits
      <4>3. v = u /\ proc[u] # NoPath => proc[u] >= b
        BY <1>1, <1>3, <4>1, NewestProc DEF Waits, PassedUpTo
      <4>4. status'[v] = NoPath \/ status'[v] >= b \/ v \in suspended'
        BY <4>1, <4>3 DEF Waits
      <4>5. Waits(v, b)'
        BY <4>2, <4>4 DEF Waits
      <4> QED
        BY <1>5, <3>2, <4>5 DEF ReaderFits
    <3> QED
      BY <3>1, <3>2
  <2> QED
    BY <2>1, <2>2, KeptOnce
<1>6. CASE Detach(u, pins) /\ ~UNCHANGED <<cur, retired, pins>>
  <2>1. /\ cur[u] # Nothing /\ cur' = [cur EXCEPT ![u] = Nothing] /\ pins' = pins \ {cur[u].gen}
        /\ retired' = [retired EXCEPT ![u] = @ \union {cur[u].gen}]
    BY <1>6 DEF Detach
  <2>2. /\ cur'[u] = Nothing /\ cur[u].gen \in retired'[u]
        /\ \A v \in Accounts : v # u => cur'[v] = cur[v] /\ retired'[v] = retired[v]
    BY <1>4, <2>1
  <2>3. IndexFits(files, pins)'
    <3>1. PICK ix, pn : ix = files /\ pn = pins
      OBVIOUS
    <3>2. pins' = (IF cur[u] = Nothing THEN pn ELSE pn \ {cur[u].gen}) /\ IndexFits(ix, pn)
      BY <1>3, <2>1, <3>1
    <3>3. IndexFits(ix, pins)'
      BY <1>1, <1>2, <1>3, <2>2, <3>2, PinsFollow
    <3> QED
      BY <3>1, <3>3
  <2>4. ReaderFits(u)'
    <3>1. PICK q \in Paths : q = cur[u].gen.path /\ PassedUpTo(u, q)'
      BY <1>1, <1>2, <1>3, <2>1, <2>2, GivenUp
    <3>2. proc[u] # NoPath => proc[u] >= q
      <4>1. u \in owner[q] /\ q \in 0..MaxFiles
        BY <1>3, <2>1, <3>1, TailNumbers DEF ReadsOn
      <4> QED
        BY <1>1, <1>3, <4>1, NewestProc
    <3>3. u \in suspended' \/ status'[u] >= q
      BY <1>6, <3>2
    <3>4. Waits(u, q)' /\ q \in 0..MaxFiles
      BY <3>1, <3>3, TailNumbers DEF Waits
    <3> QED
      BY <2>2, <3>4 DEF ReaderFits
  <2>5. ASSUME NEW v \in Accounts, v # u
        PROVE  ReaderFits(v)'
    <3>1. (cur[v] = Nothing /\ cur'[v] = Nothing) \/ SameReading(cur'[v], cur[v])
      BY <2>2, <2>5 DEF SameReading
    <3>2. retired[v] \subseteq retired'[v] /\ status'[v] = status[v] /\ (v \in suspended => v \in suspended')
      BY <2>2, <2>5
    <3> QED
      BY <1>2, <1>3, <3>1, <3>2, ReaderFitsKept
  <2> QED
    BY <2>3, <2>4, <2>5, KeptOnce
<1> QED
  BY <1>5, <1>6

LEMMA OnceTick ==
  ASSUME TailInv, OnceInv, NEW u \in Accounts, Tick(u)
  PROVE  OnceInv'
<1>1. AttachTypes
  BY DEF TailInv, TailTypes
<1>2. Ticked(u) /\ (UNCHANGED <<cur, retired, pins>> \/ Detach(u, pins))
  BY DEF Tick, TickRunning, TickStopped, TickDisconnected, TickMenuTimeout
<1>3. /\ phase = "idle" /\ status' = [status EXCEPT ![u] = proc[u]]
      /\ UNCHANGED <<worldVars, files, phase, job, ever, handled>>
  BY <1>2 DEF Ticked, Idle, loopVars
<1>4. UNCHANGED logVars
  BY <1>3 DEF worldVars
<1>5. \A v \in Accounts : Taken(v)' \subseteq Taken(v) /\ JobFits(v)'
  BY <1>3 DEF OnceInv, Taken, JobFits
<1>6. status'[u] = proc[u] /\ \A v \in Accounts : v # u => status'[v] = status[v]
  BY <1>1, <1>3 DEF AttachTypes
<1>7. u \in suspended' \/ (proc[u] # NoPath /\ status'[u] = proc[u])
  BY <1>6 DEF Tick, TickRunning, TickStopped, TickDisconnected, TickMenuTimeout
<1>8. \A v \in Accounts : v # u => (v \in suspended => v \in suspended')
  BY DEF Tick, TickRunning, TickStopped, TickDisconnected, TickMenuTimeout
<1> QED
  BY <1>2, <1>3, <1>4, <1>5, <1>6, <1>7, <1>8, GivenUpOnce

LEMMA OnceUntrack ==
  ASSUME TailInv, OnceInv, NEW u \in Accounts, Untrack(u)
  PROVE  OnceInv'
<1>1. LogTypes /\ AttachTypes /\ EntryTypes /\ PhaseInv
  BY DEF TailInv, TailTypes
<1>2. /\ phase = "idle" /\ cur' = [cur EXCEPT ![u] = Nothing]
      /\ pins' = (IF cur[u] = Nothing THEN pins ELSE pins \ {cur[u].gen})
      /\ retired' = [retired EXCEPT ![u] = {}] /\ ever' = ever \ {u} /\ suspended' = suspended \ {u}
      /\ status' = [status EXCEPT ![u] = NoPath]
      /\ UNCHANGED <<logVars, files, phase, job, handled>>
  BY DEF Untrack, Idle, tailHistory
<1>3. UNCHANGED <<disk, owner>>
  BY <1>2 DEF logVars
<1>4. LogsGrow /\ IndexFits(files, pins) /\ \A v \in Accounts : ReaderFits(v) /\ (cur[v] # Nothing => ReadsOn(v))
  BY OnceFacts
<1>5. /\ cur'[u] = Nothing /\ u \notin ever' /\ status'[u] = NoPath
      /\ \A v \in Accounts : v # u => /\ cur'[v] = cur[v] /\ retired'[v] = retired[v]
                                      /\ status'[v] = status[v] /\ (v \in suspended => v \in suspended')
                                      /\ (v \in ever' => v \in ever)
  BY <1>1, <1>2 DEF AttachTypes
<1>6. \A v \in Accounts : Taken(v)' \subseteq Taken(v) /\ JobFits(v)'
  BY <1>2 DEF OnceInv, Taken, JobFits
<1>7. IndexFits(files, pins)'
  <2>1. PICK ix, pn : ix = files /\ pn = pins
    OBVIOUS
  <2>2. pins' = (IF cur[u] = Nothing THEN pn ELSE pn \ {cur[u].gen}) /\ IndexFits(ix, pn)
    BY <1>2, <1>4, <2>1
  <2>3. IndexFits(ix, pins)'
    BY <1>1, <1>2, <1>3, <1>4, <1>5, <2>2, PinsFollow
  <2> QED
    BY <1>2, <2>1, <2>3
<1>8. ReaderFits(u)'
  <2>1. \E b \in 0..MaxFiles : PassedUpTo(u, b)'
    <3>1. CASE cur[u] # Nothing
      <4>1. PICK q \in Paths : PassedUpTo(u, q)'
        BY <1>1, <1>3, <1>4, <1>5, <1>6, <3>1, GivenUp
      <4> QED
        BY <4>1, TailNumbers
    <3>2. CASE cur[u] = Nothing
      <4>1. PICK b \in 0..MaxFiles : Waits(u, b)
        BY <1>4, <3>2 DEF ReaderFits
      <4>2. \A p : Untaken(u, p) => Untaken(u, p)'
        BY <1>3, <1>6 DEF Untaken
      <4>3. PassedUpTo(u, b)'
        BY <1>3, <1>5, <4>1, <4>2 DEF Waits, PassedUpTo
      <4> QED
        BY <4>3
    <3> QED
      BY <3>1, <3>2
  <2>2. PICK b \in 0..MaxFiles : PassedUpTo(u, b)'
    BY <2>1
  <2>3. Waits(u, b)'
    BY <1>2, <1>5, <2>2 DEF Waits
  <2> QED
    BY <1>5, <2>3 DEF ReaderFits
<1>9. ASSUME NEW v \in Accounts, v # u
      PROVE  ReaderFits(v)'
  <2>1. (cur[v] = Nothing /\ cur'[v] = Nothing) \/ SameReading(cur'[v], cur[v])
    BY <1>5, <1>9 DEF SameReading
  <2>2. retired[v] \subseteq retired'[v] /\ status'[v] = status[v] /\ (v \in suspended => v \in suspended')
        /\ (v \in ever' => v \in ever)
    BY <1>5, <1>9
  <2> QED
    BY <1>2, <1>3, <1>4, <1>6, <2>1, <2>2, ReaderFitsKept
<1> QED
  BY <1>2, <1>6, <1>7, <1>8, <1>9, KeptOnce

LEMMA OncePause ==
  ASSUME TailInv, OnceInv, Pause
  PROVE  OnceInv'
<1>1. AttachTypes
  BY DEF TailInv, TailTypes
<1>2. /\ phase' = "paused" /\ files' = [p \in Paths |-> Unindexed] /\ pins' = {}
      /\ status' = [u \in Accounts |-> NoPath]
      /\ UNCHANGED <<logVars, job, cur, ever, retired, handled>>
  BY DEF Pause, tailHistory
<1>3. UNCHANGED <<disk, owner>>
  BY <1>2 DEF logVars
<1>4. \A v \in Accounts : Taken(v)' \subseteq Taken(v) /\ JobFits(v)'
  BY <1>2 DEF OnceInv, Taken, JobFits
<1>5. IndexFits(files, pins)'
  BY <1>2 DEF IndexFits, EntriesFit, Unindexed
<1>6. ASSUME NEW u \in Accounts
      PROVE  ReaderFits(u)'
  <2>1. (cur[u] = Nothing /\ cur'[u] = Nothing) \/ SameReading(cur'[u], cur[u])
    BY <1>2 DEF SameReading
  <2>2. ReaderFits(u) /\ status'[u] = NoPath
    BY <1>2 DEF OnceInv
  <2> QED
    BY <1>2, <1>3, <1>4, <2>1, <2>2, ReaderFitsKept
<1> QED
  BY <1>2, <1>4, <1>5, <1>6, KeptOnce

-----------------------------------------------------------------------------
(* The tail jobs *)

LEMMA AtCursor ==
  ASSUME TailInv, OnceInv, NEW u \in Accounts, cur[u] # Nothing
  PROVE  \E q \in Paths : /\ q = cur[u].gen.path /\ u \in owner[q] /\ disk[q].on
                          /\ disk[q].ino = 1 /\ disk[q].inc = 1 /\ cur[u].gen.ino = 1
                          /\ ~(Size(q) < cur[u].pos)
<1>1. LogTypes /\ AttachTypes /\ LogsGrow /\ ReadsOn(u) /\ CompleteAt(u)
  BY OnceFacts DEF TailInv, TailTypes, CompleteInv
<1>2. PICK q \in Paths, c \in TailCursors : q = cur[u].gen.path /\ c = cur[u] /\ c.pos \in Nat
  BY <1>1, CursorFacts
<1>3. u \in owner[q] /\ c.gen = LogGen(q) /\ (c.anchored => c.inc = 1) /\ (~c.anchored => c.pos = 0)
  BY <1>1, <1>2 DEF ReadsOn
<1>4. disk[q].on /\ disk[q].ino = 1 /\ disk[q].inc = 1
  BY <1>1, <1>3, OwnedLogs
<1>5. PICK n \in Nat : n = Size(q)
  BY <1>1, SizesOf
<1>6. Complete(disk[q], n, c, Settled(u))
  BY <1>1, <1>2, <1>5 DEF CompleteAt
<1>7. c.pos <= n
  <2>1. CASE c.anchored
    <3>1. c.inc = disk[q].inc
      BY <1>3, <1>4, <2>1
    <3> QED
      BY <1>6, <3>1 DEF Complete
  <2>2. CASE ~c.anchored
    BY <1>3, <1>5, <2>2
  <2> QED
    BY <2>1, <2>2
<1> QED
  BY <1>2, <1>3, <1>4, <1>5, <1>7 DEF LogGen

\* A log that only grows is there, and no shorter than what was read of it.
LEMMA NeverStale ==
  ASSUME TailInv, OnceInv, NEW u \in Accounts
  PROVE  ~StatMissing(u) /\ ~StatShrunk(u) /\ ~ReadStale(u)
<1>1. ~StatMissing(u)
  <2>1. SUFFICES ASSUME StatMissing(u)
                 PROVE  FALSE
    OBVIOUS
  <2>2. job[u] # Nothing /\ job[u].at \in {"stat", "read"} /\ ~disk[cur[u].gen.path].on
    BY <2>1 DEF StatMissing
  <2> QED
    BY <2>2, AtJob, AtCursor
<1>2. ~StatShrunk(u)
  <2>1. SUFFICES ASSUME StatShrunk(u)
                 PROVE  FALSE
    OBVIOUS
  <2>2. job[u] # Nothing /\ job[u].at \in {"stat", "read"} /\ Size(cur[u].gen.path) < cur[u].pos
    BY <2>1 DEF StatShrunk
  <2> QED
    BY <2>2, AtJob, AtCursor
<1>3. ~ReadStale(u)
  <2>1. SUFFICES ASSUME ReadStale(u)
                 PROVE  FALSE
    OBVIOUS
  <2>2. job[u] # Nothing /\ job[u].at = "read" /\ StaleHandle(u, cur[u].gen.path)
    BY <2>1 DEF ReadStale
  <2>3. job[u].ino = 1
    BY <2>2 DEF OnceInv, JobFits
  <2>4. job[u].at \in {"stat", "read"}
    BY <2>2
  <2>5. cur[u] # Nothing
    BY <2>2, <2>4, AtJob
  <2> QED
    BY <2>2, <2>3, <2>5, AtCursor DEF StaleHandle
<1> QED
  BY <1>1, <1>2, <1>3

LEMMA IndexKept ==
  ASSUME IndexFits(files, pins), UNCHANGED <<disk, phase, files, pins>>,
         \A v \in Accounts : /\ cur'[v] # Nothing <=> cur[v] # Nothing
                             /\ cur[v] # Nothing => cur'[v].gen = cur[v].gen
  PROVE  IndexFits(files, pins)'
<1>1. EntriesFit(files)'
  BY EntriesStay DEF IndexFits, EntriesFit
<1> QED
  BY <1>1 DEF IndexFits

LEMMA OnceStat ==
  ASSUME TailInv, OnceInv, NEW u \in Accounts, Stat(u)
  PROVE  OnceInv'
<1>1. LogTypes /\ AttachTypes /\ JobTypes
  BY DEF TailInv, TailTypes
<1>2. /\ job[u] # Nothing /\ job[u].at = "stat" /\ cur' = [cur EXCEPT ![u].observed = Size(cur[u].gen.path)]
      /\ UNCHANGED <<worldVars, files, phase, ever, retired, pins, suspended, status, handled>>
  BY DEF Stat, loopVars, tailHistory
<1>3. /\ phase = "idle" /\ cur[u] # Nothing
  BY <1>2, AtJob
<1>4. UNCHANGED logVars /\ UNCHANGED <<disk, owner>>
  BY <1>2 DEF worldVars, logVars
<1>5. PICK q \in Paths, n \in Nat : q = cur[u].gen.path /\ n = Size(q) /\ disk[q].ino = 1
  BY <1>1, <1>3, AtCursor, SizesOf
<1>6. PICK c \in TailCursors : c = cur[u]
  BY <1>1, <1>3, CursorFacts
<1>7. cur' = [cur EXCEPT ![u] = [c EXCEPT !.observed = n]]
  BY <1>2, <1>5, <1>6
<1>8. PICK d \in TailCursors : d = [c EXCEPT !.observed = n]
  BY <1>5 DEF TailCursors
<1>9. cur'[u] = d /\ \A v \in Accounts : v # u => cur'[v] = cur[v]
  BY <1>1, <1>7, <1>8 DEF AttachTypes
<1>10. SameReading(cur'[u], cur[u])
  BY <1>6, <1>8, <1>9, CursorIsSomething DEF SameReading, TailCursors
<1>11. job' = [job EXCEPT ![u] = Nothing]
       \/ job' = [job EXCEPT ![u].at = "read", ![u].ino = disk[q].ino, ![u].size = n]
  BY <1>5 DEF Stat, EndJob
<1>12. /\ job'[u] = Nothing \/ (job'[u].at = "read" /\ job'[u].ino = 1 /\ job'[u].recs = job[u].recs)
       /\ \A v \in Accounts : v # u => job'[v] = job[v]
  <2>1. PICK j \in TailJobs : j = job[u]
    BY <1>1, <1>2 DEF JobTypes
  <2>2. job \in [Accounts -> TailJobs \union {Nothing}]
    BY <1>1 DEF JobTypes
  <2>3. CASE job' = [job EXCEPT ![u] = Nothing]
    BY <2>2, <2>3
  <2>4. CASE job' = [job EXCEPT ![u].at = "read", ![u].ino = disk[q].ino, ![u].size = n]
    <3>1. job' = [job EXCEPT ![u] = [j EXCEPT !.at = "read", !.ino = 1, !.size = n]]
      BY <1>5, <2>1, <2>2, <2>4 DEF TailJobs
    <3>2. job'[u] = [j EXCEPT !.at = "read", !.ino = 1, !.size = n]
          /\ \A v \in Accounts : v # u => job'[v] = job[v]
      BY <2>2, <3>1
    <3> QED
      BY <2>1, <3>2 DEF TailJobs
  <2> QED
    BY <1>11, <2>3, <2>4
<1>13. ASSUME NEW v \in Accounts
       PROVE  JobFits(v)' /\ Taken(v)' \subseteq Taken(v)
  <2>1. CASE v = u
    <3>1. job[u].recs = <<>>
      BY <1>2 DEF OnceInv, JobFits
    <3> QED
      BY <1>2, <1>12, <2>1, <3>1 DEF JobFits, Taken, PendingOf
  <2>2. CASE v # u
    BY <1>2, <1>12, <2>2 DEF OnceInv, JobFits, Taken
  <2> QED
    BY <2>1, <2>2
<1>14. \A v \in Accounts : (cur[v] = Nothing /\ cur'[v] = Nothing) \/ SameReading(cur'[v], cur[v])
  BY <1>9, <1>10 DEF SameReading
<1>15. IndexFits(files, pins)'
  BY <1>2, <1>4, <1>14, IndexKept DEF OnceInv, SameReading
<1>16. \A v \in Accounts : ReaderFits(v)'
  BY <1>2, <1>3, <1>4, <1>13, <1>14, ReaderFitsKept DEF OnceInv
<1> QED
  BY <1>2, <1>3, <1>4, <1>13, <1>15, <1>16, KeptOnce

LEMMA OnceReadNothing ==
  ASSUME TailInv, OnceInv, NEW u \in Accounts, ReadNothing(u)
  PROVE  OnceInv'
<1>1. JobTypes
  BY DEF TailInv, TailTypes
<1>2. /\ job[u] # Nothing /\ job[u].at = "read" /\ EndJob(u)
      /\ UNCHANGED <<worldVars, files, phase, cur, ever, retired, pins, suspended, status, handled>>
  BY DEF ReadNothing, Unread, loopVars, cursorVars, tailHistory
<1>3. phase = "idle"
  BY <1>2, AtJob
<1>4. job'[u] = Nothing /\ \A v \in Accounts : v # u => job'[v] = job[v]
  BY <1>1, <1>2, EndJobType
<1>5. ASSUME NEW v \in Accounts
      PROVE  JobFits(v)' /\ Taken(v)' \subseteq Taken(v)
  <2>1. CASE v = u
    BY <1>2, <1>4, <2>1 DEF JobFits, Taken, PendingOf
  <2>2. CASE v # u
    BY <1>2, <1>4, <2>2 DEF OnceInv, JobFits, Taken
  <2> QED
    BY <2>1, <2>2
<1>6. UNCHANGED logVars
  BY <1>2 DEF worldVars
<1> QED
  BY <1>2, <1>3, <1>5, <1>6, GivenUpOnce

\* The record that is dispatched was pending, and is handled now.
LEMMA DispatchedOnceMore ==
  ASSUME JobTypes, AttachTypes, NEW u \in Accounts, job[u] # Nothing, job[u].at = "dispatch",
         NEW hit, Dispatched(u, hit), \A v \in Accounts : JobFits(v)
  PROVE  \A v \in Accounts : Taken(v)' \subseteq Taken(v) /\ JobFits(v)'
<1>1. PICK j \in TailJobs : j = job[u] /\ j.recs # <<>> /\ j.at = "dispatch"
  BY DEF JobTypes
<1>2. PICK s \in Seq(TailRecords) : s = j.recs /\ s # <<>>
  BY <1>1 DEF TailJobs
<1>12. PICK n \in Nat : n = Len(s)
  OBVIOUS
<1>13. n > 0 /\ Head(s) = s[1] /\ Len(Tail(s)) = n - 1 /\ \A i \in 1..(n - 1) : Tail(s)[i] = s[i + 1]
  BY <1>2, <1>12
<1>3. PICK t : t = s[1].ts
  OBVIOUS
<1>4. handled' = [handled EXCEPT ![u] = @ \union {t}]
  BY <1>1, <1>2, <1>12, <1>13, <1>3 DEF Dispatched
<1>5. handled'[u] = handled[u] \union {t} /\ \A v \in Accounts : v # u => handled'[v] = handled[v]
  BY <1>4 DEF AttachTypes
<1>6. /\ job'[u] = Nothing \/ (job'[u] # Nothing => job'[u].at = "dispatch" /\ job'[u].recs = Tail(s))
      /\ \A v \in Accounts : v # u => job'[v] = job[v]
  <2>1. job \in [Accounts -> TailJobs \union {Nothing}]
    BY DEF JobTypes
  <2>2. CASE n = 1
    BY <1>1, <1>2, <1>12, <1>13, <2>1, <2>2 DEF Dispatched, EndJob
  <2>3. CASE n # 1
    <3>1. PICK r : r = Tail(s)
      OBVIOUS
    <3>2. job' = [job EXCEPT ![u] = [j EXCEPT !.recs = r, !.hit = hit]]
      BY <1>1, <1>2, <1>12, <1>13, <2>1, <2>3, <3>1 DEF Dispatched, TailJobs
    <3>3. job'[u] = [j EXCEPT !.recs = r, !.hit = hit] /\ \A v \in Accounts : v # u => job'[v] = job[v]
      BY <2>1, <3>2
    <3> QED
      BY <1>1, <3>1, <3>3 DEF TailJobs
  <2> QED
    BY <2>2, <2>3
<1>7. Taken(u) = handled[u] \union {s[i].ts : i \in 1..n}
  BY <1>1, <1>2, <1>12, <1>13 DEF Taken, PendingOf
<1>8. \A i \in 1..n : s[i].ts \notin handled[u] /\ \A k \in 1..n : s[i].ts = s[k].ts => i = k
  BY <1>1, <1>2, <1>12, <1>13 DEF JobFits
<1>9. CASE job'[u] = Nothing
  <2>1. Taken(u)' = handled[u] \union {t}
    BY <1>5, <1>9 DEF Taken, PendingOf
  <2>2. Taken(u)' \subseteq Taken(u)
    BY <1>2, <1>12, <1>13, <1>3, <1>7, <2>1
  <2>3. JobFits(u)'
    BY <1>9 DEF JobFits
  <2>4. \A v \in Accounts : v # u => Taken(v)' = Taken(v) /\ JobFits(v)'
    BY <1>5, <1>6 DEF Taken, JobFits
  <2> QED
    BY <2>2, <2>3, <2>4
<1>10. CASE job'[u] # Nothing
  <2>1. PICK k : k = job'[u] /\ k # Nothing /\ k.at = "dispatch" /\ k.recs = Tail(s)
    BY <1>6, <1>10
  <2>2. Taken(u)' = handled[u] \union {t} \union {Tail(s)[i].ts : i \in 1..(n - 1)}
    BY <1>2, <1>12, <1>13, <1>5, <2>1 DEF Taken, PendingOf
  <2>3. Taken(u)' \subseteq Taken(u)
    <3>1. \A i \in 1..(n - 1) : i + 1 \in 1..n
      BY <1>2, <1>12, <1>13
    <3> QED
      BY <1>2, <1>12, <1>13, <1>3, <1>7, <2>2, <3>1
  <2>4. ASSUME NEW i \in 1..(n - 1)
        PROVE  /\ Tail(s)[i].ts \notin handled'[u]
               /\ \A l \in 1..(n - 1) : Tail(s)[i].ts = Tail(s)[l].ts => i = l
    <3>1. i + 1 \in 1..n /\ i + 1 # 1 /\ 1 \in 1..n /\ Tail(s)[i] = s[i + 1]
      BY <1>2, <1>12, <1>13
    <3>2. Tail(s)[i].ts # t
      BY <1>3, <1>8, <3>1
    <3>3. ASSUME NEW l \in 1..(n - 1), Tail(s)[i].ts = Tail(s)[l].ts
          PROVE  i = l
      <4>1. l + 1 \in 1..n /\ Tail(s)[l] = s[l + 1]
        BY <1>2, <1>12, <1>13
      <4>2. i + 1 = l + 1
        BY <1>8, <3>1, <3>3, <4>1
      <4> QED
        BY <4>2
    <3> QED
      BY <1>5, <1>8, <3>1, <3>2, <3>3
  <2>5. JobFits(u)'
    BY <1>2, <1>12, <1>13, <2>1, <2>4 DEF JobFits
  <2>6. \A v \in Accounts : v # u => Taken(v)' = Taken(v) /\ JobFits(v)'
    BY <1>5, <1>6 DEF Taken, JobFits
  <2> QED
    BY <2>3, <2>5, <2>6
<1> QED
  BY <1>9, <1>10

LEMMA OnceDispatch ==
  ASSUME TailInv, OnceInv, NEW u \in Accounts,
         \/ DispatchSeenDisconnect(u) \/ DispatchOldDisconnect(u) \/ DispatchDisconnect(u)
         \/ DispatchSeedMerchant(u) \/ DispatchMerchant(u)
  PROVE  OnceInv'
<1>1. AttachTypes /\ JobTypes /\ PhaseInv
  BY DEF TailInv, TailTypes
<1>2. job[u] # Nothing /\ job[u].at = "dispatch"
  BY DEF DispatchSeenDisconnect, DispatchOldDisconnect, DispatchDisconnect, DispatchSeedMerchant,
         DispatchMerchant, NextIs
<1>3. PICK hit : Dispatched(u, hit)
  BY DEF DispatchSeenDisconnect, DispatchOldDisconnect, DispatchDisconnect, DispatchSeedMerchant,
         DispatchMerchant
<1>4. UNCHANGED logVars /\ UNCHANGED <<files, phase, ever, status>>
  BY <1>3 DEF Dispatched, worldVars, loopVars
<1>5. phase = "idle"
  BY <1>1, <1>2 DEF PhaseInv
<1>6. \A v \in Accounts : Taken(v)' \subseteq Taken(v) /\ JobFits(v)'
  BY <1>1, <1>2, <1>3, DispatchedOnceMore DEF OnceInv
<1>7. \/ UNCHANGED <<cur, retired, pins, suspended>>
      \/ Detach(u, pins) /\ suspended' = suspended \union {u}
  BY DEF DispatchSeenDisconnect, DispatchOldDisconnect, DispatchDisconnect, DispatchSeedMerchant,
         DispatchMerchant
<1> QED
  BY <1>4, <1>5, <1>6, <1>7, GivenUpOnce

-----------------------------------------------------------------------------
(* Reading *)

\* What ends now was not behind the cursor, is so afterwards, and ends once.
NewEnds(c, d, ends) ==
  /\ \A e \in ends : /\ ~Behind(c, (e + 1) \div 2) /\ Behind(d, (e + 1) \div 2)
                     /\ \A f \in ends : (e + 1) \div 2 = (f + 1) \div 2 => e = f
  /\ \A i \in Nat : Behind(c, i) => Behind(d, i)

LEMMA EndsAreNew ==
  ASSUME LogTypes, NEW p \in Paths, NEW c \in TailCursors, NEW to \in Nat, c.pos \in Nat, to > c.pos,
         NEW d, d.pos = to, d.carry = (to % 2 = 1 /\ ~EarlyHead(p, to)),
         NEW ends, ends = Completed(p, c.pos, to, c.carry), ends \in SUBSET Nat
  PROVE  NewEnds(c, d, ends)
<1>1. PICK from \in Nat : from = c.pos
  OBVIOUS
<1>2. ASSUME NEW e \in ends
      PROVE  /\ e \in Nat /\ e <= to /\ from < e
             /\ (e % 2 = 0 /\ (e - 1 > from \/ c.carry)) \/ (e = to /\ e % 2 = 1 /\ EarlyHead(p, to))
  <2>1. e \in Nat
    OBVIOUS
  <2>2. CASE e \in (from + 1)..to /\ e % 2 = 0 /\ (e - 1 > from \/ c.carry)
    BY <1>1, <2>1, <2>2
  <2>3. CASE e = to /\ EarlyHead(p, e)
    <3>1. e % 2 = 1
      BY <2>3 DEF EarlyHead
    <3> QED
      BY <1>1, <2>1, <2>3, <3>1
  <2> QED
    BY <1>1, <2>2, <2>3 DEF Completed
<1>3. ASSUME NEW e \in ends
      PROVE  ~Behind(c, (e + 1) \div 2) /\ Behind(d, (e + 1) \div 2)
  <2>1. PICK k \in Nat : k = (e + 1) \div 2
    BY <1>2
  <2>2. CASE e % 2 = 0 /\ (e - 1 > from \/ c.carry)
    <3>1. 2 * k = e
      BY <1>2, <2>1, <2>2
    <3> QED
      BY <1>1, <1>2, <2>1, <2>2, <3>1 DEF Behind
  <2>3. CASE e = to /\ e % 2 = 1 /\ EarlyHead(p, to)
    <3>1. 2 * k = e + 1
      BY <1>2, <2>1, <2>3
    <3>2. ~d.carry
      BY <2>3
    <3> QED
      BY <1>1, <1>2, <2>1, <2>3, <3>1, <3>2 DEF Behind
  <2> QED
    BY <1>2, <2>2, <2>3
<1>4. ASSUME NEW e \in ends, NEW f \in ends, (e + 1) \div 2 = (f + 1) \div 2
      PROVE  e = f
  BY <1>2, <1>4
<1>5. ASSUME NEW i \in Nat, Behind(c, i)
      PROVE  Behind(d, i)
  BY <1>1, <1>5 DEF Behind
<1> QED
  BY <1>3, <1>4, <1>5 DEF NewEnds

LEMMA OnceRead ==
  ASSUME TailInv, OnceInv, NEW u \in Accounts, Read(u)
  PROVE  OnceInv'
<1>0. LogTypes /\ AttachTypes /\ JobTypes
  BY DEF TailInv, TailTypes
<1>1. /\ job[u] # Nothing /\ job[u].at = "read"
      /\ UNCHANGED <<worldVars, files, phase, ever, retired, pins, suspended, status, handled>>
  BY DEF Read, loopVars
<1>2. UNCHANGED logVars /\ UNCHANGED <<disk, owner>> /\ phase = "idle"
  BY <1>1, AtJob DEF worldVars, logVars
<1>3. PICK p \in Paths, c \in TailCursors, d \in TailCursors, to \in Nat, ends \in SUBSET Nat,
           j \in TailJobs : ReadDoes(u, p, c, d, to, ends, j)
  BY ReadEffects
<1>4. /\ c = cur[u] /\ c # Nothing /\ p = c.gen.path /\ d # Nothing /\ d.gen = c.gen /\ d.inc = disk[p].inc
      /\ d.anchored /\ j # Nothing /\ j.at = "dispatch" /\ j.recs = RecordsTo(p, ends)
  BY <1>3, CursorIsSomething, NothingIsNoRecord DEF ReadDoes
<1>5. cur'[u] = d /\ \A v \in Accounts : v # u => cur'[v] = cur[v]
  BY <1>0, <1>3 DEF ReadDoes, AttachTypes
<1>6. /\ job'[u] = (IF ends = {} THEN Nothing ELSE j)
      /\ \A v \in Accounts : v # u => job'[v] = job[v]
  BY <1>0, <1>3 DEF ReadDoes, JobTypes
<1>7. /\ \A e \in ends : /\ ~Behind(c, (e + 1) \div 2) /\ Behind(d, (e + 1) \div 2)
                         /\ \A f \in ends : (e + 1) \div 2 = (f + 1) \div 2 => e = f
      /\ \A i \in Nat : Behind(c, i) => Behind(d, i)
  <2>1. c.pos \in Nat /\ to > c.pos /\ d.pos = to /\ d.carry = (to % 2 = 1 /\ ~EarlyHead(p, to))
    BY <1>3 DEF ReadDoes
  <2>2. ends = Completed(p, c.pos, to, c.carry) /\ ends \in SUBSET Nat
    BY <1>3 DEF ReadDoes
  <2>3. NewEnds(c, d, ends)
    BY <1>0, <2>1, <2>2, EndsAreNew
  <2> QED
    BY <2>3 DEF NewEnds
<1>8. PICK l \in Nat : l = Len(disk[p].recs) /\ \A e \in ends : (e + 1) \div 2 \in 1..l
  BY <1>0, <1>3, SizeFacts DEF ReadDoes
<1>9. /\ u \in owner[p] /\ disk[p].inc = 1 /\ c.gen = LogGen(p) /\ ReadsOn(u)
  <2>1. ReadsOn(u)
    BY <1>4, OnceFacts
  <2> QED
    BY <1>4, <2>1, AtCursor DEF ReadsOn
<1>9a. IsFiniteSet(ends) /\ \A e \in ends : (e + 1) \div 2 \in 1..Len(disk[p].recs)
  BY <1>3 DEF ReadDoes
<1>9b. PICK n \in Nat : n = Cardinality(ends)
  BY <1>9a, AscendingFacts
<1>9c. PICK asc \in [1..n -> ends] : asc = Ascending(ends) /\ \A i, k \in 1..n : i < k => asc[i] < asc[k]
  BY <1>9a, <1>9b, AscendingFacts
<1>10. /\ Len(j.recs) = n /\ \A i, k \in 1..n : i < k => asc[i] < asc[k]
       /\ \A i \in 1..n : j.recs[i] = RecordEnding(p, asc[i])
  BY <1>0, <1>4, <1>9a, <1>9b, <1>9c, RecordsToFacts
\* A record that is pending is one of the log that ends now.
<1>11. ASSUME NEW i \in 1..n
       PROVE  \E e \in ends : e = asc[i] /\ j.recs[i].ts = disk[p].recs[(e + 1) \div 2].ts
  <2>1. PICK e \in ends : e = asc[i]
    OBVIOUS
  <2>2. j.recs[i] = RecordEnding(p, e)
    BY <1>10, <2>1
  <2>3. j.recs[i].ts = disk[p].recs[(e + 1) \div 2].ts
    BY <2>2 DEF RecordEnding
  <2> QED
    BY <2>1, <2>3
<1>12. PendingOf(job[u]) = {} /\ Taken(u) = handled[u]
  BY <1>1 DEF Taken, PendingOf
<1>13. ASSUME NEW t \in Taken(u)'
       PROVE  t \in Taken(u) \/ \E e \in ends : t = disk[p].recs[(e + 1) \div 2].ts
  <2>1. t \in handled[u] \/ t \in PendingOf(job'[u])
    BY <1>1, <1>13 DEF Taken
  <2>2. CASE t \in PendingOf(job'[u])
    <3>1. \E i \in 1..n : t = j.recs[i].ts
      BY <1>4, <1>6, <1>10, <2>2 DEF PendingOf
    <3> QED
      BY <1>11, <3>1
  <2> QED
    BY <1>12, <2>1, <2>2
<1>14. StampsDiffer(u) /\ \A v \in Accounts : StampsDiffer(v) /\ ReaderFits(v) /\ JobFits(v)
  BY DEF OnceInv
\* Two records with one time stamp, one of which ends now.
<1>15. ASSUME NEW e \in ends, NEW q \in Paths, u \in owner[q], NEW i \in 1..Len(disk[q].recs),
              disk[q].recs[i].ts = disk[p].recs[(e + 1) \div 2].ts
       PROVE  q = p /\ i = (e + 1) \div 2
  BY <1>8, <1>9, <1>14, <1>15 DEF StampsDiffer
<1>16. ASSUME NEW e \in ends
       PROVE  disk[p].recs[(e + 1) \div 2].ts \notin handled[u]
  <2>1. PICK k \in 1..l : k = (e + 1) \div 2
    BY <1>8
  <2>2. disk[p].recs[k].ts \in Taken(u) => Behind(c, k)
    BY <1>4, <1>8, <1>9 DEF ReadsOn
  <2> QED
    BY <1>7, <1>12, <2>1, <2>2
<1>17. JobFits(u)'
  <2>1. SUFFICES ASSUME job'[u] # Nothing
                 PROVE  /\ job'[u].at = "dispatch"
                        /\ \A i \in 1..Len(job'[u].recs) :
                             /\ job'[u].recs[i].ts \notin handled'[u]
                             /\ \A k \in 1..Len(job'[u].recs) : job'[u].recs[i].ts = job'[u].recs[k].ts => i = k
    BY DEF JobFits
  <2>2. job'[u] = j
    BY <1>6, <2>1
  <2>3. ASSUME NEW i \in 1..n
        PROVE  j.recs[i].ts \notin handled[u]
    BY <1>11, <1>16
  <2>4. ASSUME NEW i \in 1..n, NEW k \in 1..n, j.recs[i].ts = j.recs[k].ts
        PROVE  i = k
    <3>1. PICK e \in ends : e = asc[i] /\ j.recs[i].ts = disk[p].recs[(e + 1) \div 2].ts
      BY <1>11
    <3>2. PICK f \in ends : f = asc[k] /\ j.recs[k].ts = disk[p].recs[(f + 1) \div 2].ts
      BY <1>11
    <3>3. (f + 1) \div 2 = (e + 1) \div 2
      BY <1>8, <1>9, <1>15, <2>4, <3>1, <3>2
    <3>4. asc[i] = asc[k] /\ asc[i] \in Nat
      BY <1>7, <3>1, <3>2, <3>3
    <3>5. ~(i < k) /\ ~(k < i)
      BY <1>10, <3>4
    <3> QED
      BY <3>5
  <2> QED
    BY <1>1, <1>4, <1>10, <2>2, <2>3, <2>4
<1>18. StampsDiffer(u)'
  <2>1. ASSUME NEW t \in Taken(u)'
        PROVE  t <= last[u]
    BY <1>8, <1>9, <1>13, <1>14 DEF StampsDiffer
  <2> QED
    BY <1>2, <1>14, <2>1 DEF StampsDiffer, logVars
<1>19. ReaderFits(u)'
  <2>1. ASSUME NEW i \in 1..l, disk[p].recs[i].ts \in Taken(u)'
        PROVE  Behind(d, i)
    <3>1. CASE disk[p].recs[i].ts \in Taken(u)
      <4>1. Behind(c, i)
        BY <1>4, <1>8, <1>9, <3>1 DEF ReadsOn
      <4> QED
        BY <1>7, <4>1
    <3>2. CASE \E e \in ends : disk[p].recs[i].ts = disk[p].recs[(e + 1) \div 2].ts
      BY <1>7, <1>8, <1>9, <1>15, <3>2
    <3> QED
      BY <1>13, <2>1, <3>1, <3>2
  <2>2. ASSUME NEW q \in Paths, p < q, u \in owner[q]
        PROVE  Untaken(u, q)'
    <3>1. ASSUME NEW i \in 1..Len(disk[q].recs)
          PROVE  disk[q].recs[i].ts \notin Taken(u)'
      <4>1. disk[q].recs[i].ts \notin Taken(u)
        BY <1>4, <1>9, <2>2 DEF ReadsOn, Untaken
      <4>2. p # q
        BY <2>2, TailNumbers
      <4>3. \A e \in ends : disk[q].recs[i].ts # disk[p].recs[(e + 1) \div 2].ts
        BY <1>15, <2>2, <4>2
      <4> QED
        BY <1>13, <4>1, <4>3
    <3> QED
      BY <1>2, <3>1 DEF Untaken
  <2>3. ReadsOn(u)'
    BY <1>2, <1>4, <1>5, <1>8, <1>9, <2>1, <2>2 DEF ReadsOn, LogGen, Behind
  <2> QED
    BY <1>4, <1>5, <2>3 DEF ReaderFits
<1>20. ASSUME NEW v \in Accounts, v # u
       PROVE  StampsDiffer(v)' /\ ReaderFits(v)' /\ JobFits(v)'
  <2>1. Taken(v)' = Taken(v)
    BY <1>1, <1>6, <1>20 DEF Taken
  <2>2. (cur[v] = Nothing /\ cur'[v] = Nothing) \/ SameReading(cur'[v], cur[v])
    BY <1>5, <1>20 DEF SameReading
  <2>3. ReaderFits(v)'
    BY <1>1, <1>2, <1>14, <2>1, <2>2, ReaderFitsKept
  <2>4. StampsDiffer(v)'
    BY <1>2, <1>14, <2>1, StampsKept
  <2>5. JobFits(v)'
    BY <1>1, <1>6, <1>14, <1>20 DEF JobFits
  <2> QED
    BY <2>3, <2>4, <2>5
<1>21. IndexFits(files, pins)'
  <2>1. \A v \in Accounts : /\ cur'[v] # Nothing <=> cur[v] # Nothing
                            /\ cur[v] # Nothing => cur'[v].gen = cur[v].gen
    BY <1>4, <1>5
  <2> QED
    BY <1>1, <1>2, <2>1, IndexKept DEF OnceInv
<1>22. LogsGrow'
  BY <1>2, LogsGrowStays DEF OnceInv
<1> QED
  BY <1>1, <1>2, <1>17, <1>18, <1>19, <1>20, <1>21, <1>22 DEF OnceInv

-----------------------------------------------------------------------------
(* A new engine *)

\* Nothing was taken of a log whose cursor is not anchored.
LEMMA NothingTakenYet ==
  ASSUME LogTypes, AttachTypes, NEW u \in Accounts, cur[u] # Nothing, ReadsOn(u), ~cur[u].anchored
  PROVE  /\ cur[u].gen.path \in Paths /\ cur[u].pos = 0
         /\ Untaken(u, cur[u].gen.path) /\ PassedUpTo(u, cur[u].gen.path)
<1>1. PICK c \in TailCursors, q \in Paths : c = cur[u] /\ q = c.gen.path
  BY CursorFacts
<1>2. /\ c.pos = 0 /\ u \in owner[q]
      /\ \A i \in 1..Len(disk[q].recs) : disk[q].recs[i].ts \in Taken(u) => Behind(c, i)
      /\ \A p \in Paths : q < p /\ u \in owner[p] => Untaken(u, p)
  BY <1>1 DEF ReadsOn
<1>3. PICK l \in Nat : l = Len(disk[q].recs)
  BY SizeFacts
<1>4. \A i \in 1..l : ~Behind(c, i)
  BY <1>2 DEF Behind
<1>5. Untaken(u, q)
  BY <1>2, <1>3, <1>4 DEF Untaken
<1>6. PassedUpTo(u, q)
  BY <1>2, <1>5 DEF PassedUpTo
<1> QED
  BY <1>1, <1>2, <1>5, <1>6

\* What was read of a log that only grows can be restored.
LEMMA AnchoredIsRestorable ==
  ASSUME TailInv, OnceInv, NEW u \in Accounts, cur[u] # Nothing, cur[u].anchored
  PROVE  Restorable(cur[u])
<1>1. LogTypes /\ AttachTypes /\ ReadsOn(u)
  BY OnceFacts DEF TailInv, TailTypes
<1>2. PICK q \in Paths : /\ q = cur[u].gen.path /\ disk[q].on /\ disk[q].ino = 1 /\ disk[q].inc = 1
                         /\ cur[u].gen.ino = 1 /\ ~(Size(q) < cur[u].pos)
  BY AtCursor
<1>3. cur[u].inc = 1
  BY <1>1 DEF ReadsOn
<1>4. Size(q) >= cur[u].pos
  <2>1. PICK n \in Nat : n = Size(q)
    BY <1>1, SizesOf
  <2>2. PICK m \in Nat : m = cur[u].pos
    BY <1>1, CursorFacts
  <2> QED
    BY <1>2, <2>1, <2>2
<1> QED
  BY <1>2, <1>3, <1>4 DEF Restorable

\* The generations that are restored, and their index.
LEMMA RestoredFits ==
  ASSUME TailInv, OnceInv, phase = "paused", NEW restored \in SUBSET Accounts,
         \A u \in restored : Restorable(cur[u])
  PROVE  LET old == RestoredIndex(restored)
             pn == RestoredPins(restored)
         IN  /\ old \in [Paths -> Entries] /\ EntriesFit(old)
             /\ \A g \in pn : \E v \in restored : cur[v] # Nothing /\ cur[v].gen = g
             /\ \A v \in restored : LET q == cur[v].gen.path
                                    IN  /\ cur[v] # Nothing /\ cur[v].gen \in pn /\ cur[v].gen = LogGen(q)
                                        /\ q \in Paths /\ old[q].known /\ old[q].marked
                                        /\ Generation(old, q) = cur[v].gen
<1>1. LogTypes /\ AttachTypes /\ LogsGrow
  BY OnceFacts DEF TailInv, TailTypes
<1>2. ASSUME NEW v \in restored
      PROVE  \E q \in Paths : /\ q = cur[v].gen.path /\ cur[v] # Nothing /\ cur[v].gen = LogGen(q)
                              /\ [cur[v].gen EXCEPT !.rev = 0] = cur[v].gen
                              /\ disk[q].ino = 1
  <2>1. cur[v] # Nothing
    BY <1>2 DEF Restorable
  <2>2. ReadsOn(v)
    BY <2>1, OnceFacts
  <2>3. PICK q \in Paths : q = cur[v].gen.path /\ disk[q].ino = 1
    BY <2>1, AtCursor
  <2>4. cur[v].gen = LogGen(q)
    BY <2>2, <2>3 DEF ReadsOn
  <2>5. [LogGen(q) EXCEPT !.rev = 0] = LogGen(q)
    BY DEF LogGen
  <2> QED
    BY <2>1, <2>3, <2>4, <2>5
<1>3. PICK old : old = RestoredIndex(restored)
  OBVIOUS
<1>4. PICK pn : pn = RestoredPins(restored)
  OBVIOUS
<1>5. old = [p \in Paths |-> IF \E u \in restored : cur[u].gen.path = p THEN RestoredFile(p) ELSE Unindexed]
  BY <1>3 DEF RestoredIndex
<1>6. ASSUME NEW p \in Paths
      PROVE  /\ old[p] \in Entries
             /\ (\E u \in restored : cur[u].gen.path = p) =>
                  old[p].known /\ old[p].marked /\ Generation(old, p) = LogGen(p)
             /\ old[p].known => old[p].ino = 1 /\ old[p].rev = 0 /\ old[p].size <= Size(p) /\ disk[p].ino # 0
  <2>1. PICK n \in Nat : n = Size(p)
    BY <1>1, SizesOf
  <2>2. CASE \E u \in restored : cur[u].gen.path = p
    <3>1. disk[p].ino = 1
      BY <1>2, <2>2
    <3>2. old[p] = [known |-> TRUE, ino |-> 1, rev |-> 0, size |-> n, marked |-> TRUE]
      BY <1>5, <2>1, <2>2, <3>1 DEF RestoredFile
    <3> QED
      BY <2>1, <3>1, <3>2 DEF Entries, Generation, LogGen
  <2>3. CASE ~\E u \in restored : cur[u].gen.path = p
    <3>1. old[p] = Unindexed
      BY <1>5, <2>3
    <3> QED
      BY <2>3, <3>1 DEF Unindexed, Entries
  <2> QED
    BY <2>2, <2>3
<1>7. old \in [Paths -> Entries]
  <2>1. old = [p \in Paths |-> old[p]]
    BY <1>5
  <2> QED
    BY <1>6, <2>1
<1>8. EntriesFit(old)
  BY <1>6 DEF EntriesFit
<1>9. pn = {[cur[u].gen EXCEPT !.rev = 0] : u \in restored}
  BY <1>4 DEF RestoredPins
<1>10. ASSUME NEW g \in pn
       PROVE  \E v \in restored : cur[v] # Nothing /\ cur[v].gen = g
  <2>1. PICK v \in restored : g = [cur[v].gen EXCEPT !.rev = 0]
    BY <1>9, <1>10
  <2> QED
    BY <1>2, <2>1
<1>11. ASSUME NEW v \in restored
       PROVE  LET q == cur[v].gen.path
              IN  /\ cur[v] # Nothing /\ cur[v].gen \in pn /\ cur[v].gen = LogGen(q)
                  /\ q \in Paths /\ old[q].known /\ old[q].marked
                  /\ Generation(old, q) = cur[v].gen
  <2>1. PICK q \in Paths : /\ q = cur[v].gen.path /\ cur[v] # Nothing /\ cur[v].gen = LogGen(q)
                           /\ [cur[v].gen EXCEPT !.rev = 0] = cur[v].gen
    BY <1>2
  <2>2. cur[v].gen \in pn
    BY <1>9, <2>1
  <2>3. old[q].known /\ old[q].marked /\ Generation(old, q) = LogGen(q)
    BY <1>6, <2>1
  <2> QED
    BY <2>1, <2>2, <2>3
<1> QED
  BY <1>3, <1>4, <1>7, <1>8, <1>10, <1>11

\* The index of a new engine knows the restored logs, and all that is not idle if it was polled.
LEMMA ResumedIndex ==
  ASSUME TailInv, OnceInv, phase = "paused", NEW restored \in SUBSET tracked,
         NEW ix \in [Paths -> Entries], NEW fnd \in [Accounts -> 0..MaxFiles],
         ResumeDoes(restored, ix, fnd)
  PROVE  /\ IndexFits(ix, RestoredPins(restored))
         /\ \A v \in restored : ix[cur[v].gen.path].known /\ ix[cur[v].gen.path].marked
         /\ restored # tracked =>
              \A p \in Paths : disk[p].on /\ disk[p].age # "idle" => ix[p].known /\ ix[p].marked
<1>1. LogTypes /\ AttachTypes /\ LogsGrow /\ restored \subseteq Accounts
  BY OnceFacts DEF TailInv, TailTypes, AttachTypes
<1>2. \A u \in restored : Restorable(cur[u])
  BY DEF ResumeDoes
<1>3. PICK old, pn : old = RestoredIndex(restored) /\ pn = RestoredPins(restored)
  OBVIOUS
<1>4. /\ old \in [Paths -> Entries] /\ EntriesFit(old)
      /\ \A g \in pn : \E v \in restored : cur[v] # Nothing /\ cur[v].gen = g
      /\ \A v \in restored : LET q == cur[v].gen.path
                             IN  /\ cur[v] # Nothing /\ cur[v].gen \in pn /\ cur[v].gen = LogGen(q)
                                 /\ q \in Paths /\ old[q].known /\ old[q].marked
                                 /\ Generation(old, q) = cur[v].gen
  BY <1>1, <1>2, <1>3, RestoredFits
<1>5. ix = (IF restored = tracked THEN old ELSE Polled(old, pn, NoPath))
  BY <1>3 DEF ResumeDoes
<1>6. \A g \in pn : \E v \in Accounts : cur[v] # Nothing /\ cur[v].gen = g
  BY <1>1, <1>4
<1>7. CASE restored = tracked
  <2>1. ix = old
    BY <1>5, <1>7
  <2>2. IndexFits(ix, pn)
    BY <1>4, <1>6, <2>1 DEF IndexFits
  <2> QED
    BY <1>3, <1>4, <1>7, <2>1, <2>2
<1>8. CASE restored # tracked
  <2>1. ix = Polled(old, pn, NoPath)
    BY <1>5, <1>8
  <2>2. /\ EntriesFit(ix)
        /\ \A p \in Paths :
             /\ ix[p].known => ix[p].marked /\ Generation(ix, p) = LogGen(p)
             /\ disk[p].on /\ disk[p].age # "idle" => ix[p].known
             /\ old[p].known /\ Generation(old, p) \in pn => ix[p].known
    BY <1>1, <1>4, <2>1, PolledFits
  <2>3. IndexFits(ix, pn)
    BY <1>6, <2>2 DEF IndexFits
  <2>4. \A v \in restored : ix[cur[v].gen.path].known /\ ix[cur[v].gen.path].marked
    BY <1>4, <2>2
  <2> QED
    BY <1>3, <2>2, <2>3, <2>4
<1> QED
  BY <1>7, <1>8

\* What the discovery finds is no older than what was read, and of that nothing was taken.
LEMMA FoundIsUntaken ==
  ASSUME TailInv, OnceInv, phase = "paused", NEW restored \in SUBSET tracked,
         NEW ix \in [Paths -> Entries], NEW fnd \in [Accounts -> 0..MaxFiles],
         ResumeDoes(restored, ix, fnd), NEW u \in Accounts, fnd[u] # NoPath
  PROVE  /\ \A q \in Paths : fnd[u] < q /\ u \in owner[q] => Untaken(u, q)
         /\ cur[u] # Nothing => Untaken(u, fnd[u]) /\ ~cur[u].anchored /\ cur[u].pos = 0
<1>1. LogTypes /\ AttachTypes /\ LogsGrow /\ restored \subseteq Accounts
  BY OnceFacts DEF TailInv, TailTypes, AttachTypes
<1>2. PICK p \in Paths : /\ p = fnd[u] /\ u \in owner[p] /\ u \in tracked \ restored
                         /\ p = Lookup(ix, RestoredPins(restored), u, NoPath)
  BY DEF ResumeDoes
<1>3. PICK pn : pn = RestoredPins(restored)
  OBVIOUS
<1>4. /\ IndexFits(ix, pn)
      /\ \A q \in Paths : disk[q].on /\ disk[q].age # "idle" => ix[q].known /\ ix[q].marked
  BY <1>2, <1>3, ResumedIndex
<1>5. \A v \in Accounts : cur[v] # Nothing => ReadsOn(v)
  BY OnceFacts
<1>6. \A v \in restored : Restorable(cur[v])
  BY DEF ResumeDoes
<1>7. ~Restorable(cur[u])
  BY <1>2 DEF ResumeDoes
<1>8. cur[u] = Nothing \/ cur[u].gen \notin pn
  <2>1. SUFFICES ASSUME cur[u] # Nothing, cur[u].gen \in pn
                 PROVE  FALSE
    OBVIOUS
  <2>2. PICK v \in restored : cur[v] # Nothing /\ cur[v].gen = cur[u].gen
    BY <1>1, <1>3, <1>6, <2>1, RestoredFits
  <2>3. u = v
    BY <1>1, <1>5, <2>1, <2>2, OwnGeneration
  <2> QED
    BY <1>2, <2>2, <2>3
<1>9. PICK b \in 0..MaxFiles : /\ PassedUpTo(u, b)
                               /\ cur[u] # Nothing => Untaken(u, b) /\ ~cur[u].anchored /\ cur[u].pos = 0
  <2>1. CASE cur[u] = Nothing
    <3>1. PICK b \in 0..MaxFiles : Waits(u, b)
      BY <2>1, OnceFacts DEF ReaderFits
    <3> QED
      BY <2>1, <3>1 DEF Waits
  <2>2. CASE cur[u] # Nothing
    <3>1. ~cur[u].anchored
      BY <1>7, <2>2, AnchoredIsRestorable
    <3>2. PICK b \in Paths : b = cur[u].gen.path
      BY <1>1, <2>2, CursorFacts
    <3>3. PassedUpTo(u, b) /\ Untaken(u, b) /\ cur[u].pos = 0
      BY <1>1, <1>5, <2>2, <3>1, <3>2, NothingTakenYet
    <3>4. b \in 0..MaxFiles
      BY TailNumbers
    <3> QED
      BY <3>1, <3>2, <3>3, <3>4
  <2> QED
    BY <2>1, <2>2
<1>9a. PassedUpTo(u, b)
  BY <1>9
<1>9b. cur[u] # Nothing => Untaken(u, b) /\ ~cur[u].anchored /\ cur[u].pos = 0
  BY <1>9
<1>10. Finds(u, b, ix, NoPath)
  <2>1. FindsFresh(b, ix)
    BY <1>1, <1>4, <1>9a, PolledFindsFresh
  <2> QED
    BY <2>1 DEF Finds, FindsFresh
<1>11. p >= b
  <2>1. NoPath \in 0..MaxFiles /\ Lookup(ix, pn, u, NoPath) # NoPath /\ Lookup(ix, pn, u, NoPath) = p
    BY <1>2, <1>3, TailNumbers
  <2>2. PICK none \in 0..MaxFiles : none = NoPath
    BY <2>1
  <2>3. Lookup(ix, pn, u, none) >= b
    BY <1>1, <1>4, <1>5, <1>8, <1>9a, <1>10, <2>1, <2>2, LookupPastBarrier
  <2> QED
    BY <2>1, <2>2, <2>3
<1>12. ASSUME NEW q \in Paths, b < q, u \in owner[q]
       PROVE  Untaken(u, q)
  BY <1>9a, <1>12 DEF PassedUpTo
<1>13. \A q \in Paths : p < q => b < q
  BY <1>11, TailNumbers
<1>14. b < p \/ b = p
  BY <1>11, TailNumbers
<1> QED
  BY <1>2, <1>9b, <1>12, <1>13, <1>14

\* A cursor d of the log p that is newer than what was taken, or has it behind.
LEMMA ReadsFrom ==
  ASSUME NEW u \in Accounts, NEW p \in Paths, NEW d, UNCHANGED <<disk, owner, handled, job>>,
         cur'[u] = d, d.gen = LogGen(p), u \in owner[p], d.anchored => d.inc = 1,
         ~d.anchored => d.pos = 0,
         \A i \in 1..Len(disk[p].recs) : disk[p].recs[i].ts \in Taken(u) => Behind(d, i),
         \A q \in Paths : p < q /\ u \in owner[q] => Untaken(u, q)
  PROVE  ReadsOn(u)'
<1>1. Taken(u)' = Taken(u)
  BY DEF Taken
<1>2. d.gen.path = p
  BY DEF LogGen
<1>3. \A q \in Paths : p < q /\ u \in owner'[q] => Untaken(u, q)'
  BY <1>1 DEF Untaken
<1> QED
  BY <1>1, <1>2, <1>3 DEF ReadsOn, LogGen, Behind

\* A cursor that the discovery makes for an account without one.
LEMMA ColdReads ==
  ASSUME LogTypes, LogsGrow, NEW u \in Accounts, NEW p \in Paths, u \in owner[p],
         UNCHANGED <<disk, owner, handled, job>>, cur'[u] = WarmCursor(LogGen(p)),
         \A q \in Paths : p < q /\ u \in owner[q] => Untaken(u, q)
  PROVE  ReadsOn(u)' /\ cur'[u] # Nothing /\ cur'[u].gen = LogGen(p)
<1>1. PICK g \in Generations : g = LogGen(p) /\ g.path = p
  BY DEF LogGen, Generations
<1>2. disk[p].inc = 1
  BY OwnedLogs
<1>3. PICK n \in Nat, l \in Nat : /\ n = Size(p) /\ l = Len(disk[p].recs)
                                  /\ n = 2 * l - (IF disk[p].half THEN 1 ELSE 0)
  BY SizeFacts
<1>4. PICK a : a = (Size(g.path) > 0)
  OBVIOUS
<1>5. PICK d \in TailCursors :
        /\ d = WarmCursor(g) /\ d.gen = g /\ d.pos = n /\ d.inc = 1 /\ d.anchored = a
        /\ ~d.carry
  <2>1. WarmCursor(g) \in TailCursors /\ WarmCursor(g).gen = g /\ WarmCursor(g).pos = n
        /\ WarmCursor(g).inc = 1 /\ ~WarmCursor(g).carry
    BY <1>1, <1>2, <1>3, WarmCursorFacts
  <2>2. WarmCursor(g).anchored = a
    BY <1>4, WarmCursorFacts
  <2> QED
    BY <2>1, <2>2
<1>6. cur'[u] = d
  BY <1>1, <1>5
<1>7. \A i \in 1..l : Behind(d, i)
  BY <1>3, <1>5 DEF Behind
<1>8. ~d.anchored => d.pos = 0
  <2>1. n > 0 \/ n = 0
    OBVIOUS
  <2> QED
    BY <1>1, <1>3, <1>4, <1>5, <2>1
<1>9. ReadsOn(u)'
  BY <1>1, <1>3, <1>5, <1>6, <1>7, <1>8, ReadsFrom
<1> QED
  BY <1>1, <1>5, <1>6, <1>9, CursorIsSomething

\* A cursor that takes over a saved one of which nothing was taken.
LEMMA ImportedReads ==
  ASSUME LogTypes, AttachTypes, LogsGrow, NEW u \in Accounts, NEW p \in Paths, u \in owner[p],
         UNCHANGED <<disk, owner, handled, job>>, cur[u] # Nothing, ~cur[u].anchored, cur[u].pos = 0,
         cur'[u] = Imported(WarmCursor(LogGen(p)), cur[u]),
         \A q \in Paths : p < q /\ u \in owner[q] => Untaken(u, q), Untaken(u, p)
  PROVE  ReadsOn(u)' /\ cur'[u] # Nothing /\ cur'[u].gen = LogGen(p)
<1>1. PICK g \in Generations : g = LogGen(p) /\ g.path = p
  BY DEF LogGen, Generations
<1>2. PICK n \in Nat : n = Size(p)
  BY SizesOf
<1>3. PICK w \in TailCursors : w = WarmCursor(g) /\ w.gen = g /\ w.pos = n
  BY <1>1, <1>2, WarmCursorFacts
<1>4. PICK c \in TailCursors : /\ c = cur[u] /\ c.pos = 0 /\ ~c.anchored /\ c.observed \in Nat
                               /\ c.carry \in BOOLEAN
  BY CursorFacts
<1>5. PICK d : d = cur'[u]
  OBVIOUS
<1>6. d = Imported(w, c)
  BY <1>1, <1>3, <1>4, <1>5
<1>7. d \in TailCursors /\ d.gen = g /\ d.pos = 0 /\ ~d.anchored
  <2>1. CASE Continues(w, c)
    <3>1. d = [w EXCEPT !.pos = 0, !.carry = c.carry, !.anchored = FALSE]
      BY <1>4, <1>6, <2>1 DEF Imported
    <3> QED
      BY <1>3, <1>4, <3>1 DEF TailCursors
  <2>2. CASE ~Continues(w, c) /\ Renewed(w, c)
    <3>1. d = [w EXCEPT !.pos = 0, !.anchored = FALSE, !.inc = 0]
      BY <1>6, <2>2 DEF Imported
    <3> QED
      BY <1>3, <3>1 DEF TailCursors
  <2>3. CASE ~Continues(w, c) /\ ~Renewed(w, c)
    <3>1. w.gen.path = c.gen.path /\ w.gen.ino = c.gen.ino
      BY <2>3 DEF Renewed
    <3>2. w.pos >= c.pos
      BY <1>3, <1>4
    <3> QED
      BY <1>4, <2>3, <3>1, <3>2 DEF Continues
  <2> QED
    BY <2>1, <2>2, <2>3
<1>8. \A i \in 1..Len(disk[p].recs) : disk[p].recs[i].ts \notin Taken(u)
  BY DEF Untaken
<1>9. ReadsOn(u)'
  BY <1>1, <1>5, <1>7, <1>8, ReadsFrom
<1> QED
  BY <1>1, <1>5, <1>7, <1>9, CursorIsSomething

LEMMA OnceResume ==
  ASSUME TailInv, OnceInv, Resume
  PROVE  OnceInv'
<1>1. LogTypes /\ AttachTypes /\ PhaseInv /\ LogsGrow
  BY OnceFacts DEF TailInv, TailTypes
<1>2. /\ phase = "paused" /\ phase' = "idle" /\ retired' = snap.retired
      /\ UNCHANGED <<worldVars, todo, tracked, job, suspended, status, handled>>
  BY DEF Resume
<1>3. /\ retired' = retired /\ UNCHANGED logVars /\ UNCHANGED <<disk, owner, handled, job>>
      /\ tracked \subseteq Accounts /\ \A u \in Accounts : status'[u] = NoPath
  BY <1>1, <1>2 DEF PhaseInv, worldVars, logVars, AttachTypes, OnceInv
<1>4. PICK restored \in SUBSET tracked, ix \in [Paths -> Entries], fnd \in [Accounts -> 0..MaxFiles] :
           ResumeDoes(restored, ix, fnd)
  BY ResumeFacts
<1>5. restored \in SUBSET Accounts
  BY <1>3
<1>6. \A v \in Accounts : Taken(v)' = Taken(v)
  BY <1>3 DEF Taken
<1>7. \A v \in Accounts : JobFits(v)'
  BY <1>3 DEF OnceInv, JobFits
\* The index.
<1>8. PICK pn : pn = RestoredPins(restored)
  OBVIOUS
<1>9. /\ IndexFits(ix, pn) /\ \A v \in restored : ix[cur[v].gen.path].known /\ ix[cur[v].gen.path].marked
      /\ files' = ix
      /\ pins' = pn \union {Generation(ix, fnd[u]) : u \in {v \in Accounts : fnd[v] # NoPath}}
      /\ ever' = restored \union {u \in Accounts : fnd[u] # NoPath} \union (ever \intersect tracked)
  BY <1>2, <1>4, <1>8, ResumedIndex DEF ResumeDoes
\* Who was restored reads on.
<1>10. ASSUME NEW u \in restored
       PROVE  /\ ReadsOn(u)' /\ cur'[u] # Nothing /\ cur'[u].gen = cur[u].gen
              /\ cur[u].gen \in pn /\ cur[u] # Nothing
  <2>1. u \in Accounts /\ \A v \in restored : Restorable(cur[v])
    BY <1>4, <1>5 DEF ResumeDoes
  <2>2. PICK q \in Paths : q = cur[u].gen.path /\ cur[u].gen = LogGen(q) /\ cur[u].gen \in pn /\ cur[u] # Nothing
    BY <1>2, <1>5, <1>8, <2>1, RestoredFits
  <2>3. cur'[u] = [cur[u] EXCEPT !.gen = [cur[u].gen EXCEPT !.rev = 0],
                                 !.observed = Size(cur[u].gen.path)]
    BY <1>4, <2>1 DEF ResumeDoes
  <2>4. [LogGen(q) EXCEPT !.rev = 0] = LogGen(q)
    BY DEF LogGen
  <2>5. PICK c \in TailCursors, n \in Nat : c = cur[u] /\ n = Size(q) /\ c.gen = LogGen(q)
    BY <1>1, <2>1, <2>2, CursorFacts, SizesOf
  <2>6. cur'[u] = [c EXCEPT !.gen = c.gen, !.observed = n]
    BY <2>2, <2>3, <2>4, <2>5
  <2>7. PICK d \in TailCursors : /\ d = cur'[u] /\ d.gen = c.gen /\ d.pos = c.pos /\ d.carry = c.carry
                                 /\ d.inc = c.inc /\ d.anchored = c.anchored
    <3>1. c.gen \in Generations
      BY DEF TailCursors
    <3> QED
      BY <2>5, <2>6, <3>1 DEF TailCursors
  <2>8. d # Nothing
    BY CursorIsSomething
  <2>9. SameReading(cur'[u], cur[u])
    BY <2>2, <2>5, <2>7, <2>8 DEF SameReading
  <2>10. ReadsOn(u)
    BY <2>1, <2>2, OnceFacts
  <2>11. ReadsOn(u)'
    BY <1>3, <1>6, <2>1, <2>9, <2>10, ReadsOnStays
  <2> QED
    BY <2>2, <2>5, <2>7, <2>8, <2>11
\* Who was found reads from there.
<1>11. ASSUME NEW u \in Accounts, fnd[u] # NoPath
       PROVE  /\ ReadsOn(u)' /\ cur'[u] # Nothing /\ cur'[u].gen = Generation(ix, fnd[u])
              /\ ix[fnd[u]].known /\ ix[fnd[u]].marked /\ cur'[u].gen.path = fnd[u]
  <2>1. PICK p \in Paths : /\ p = fnd[u] /\ u \in owner[p] /\ ix[p].known /\ u \notin restored
                           /\ p = Lookup(ix, pn, u, NoPath)
    BY <1>4, <1>8, <1>11 DEF ResumeDoes
  <2>2. ix[p].marked
    <3>1. p \in Candidates(ix, pn, u, NoPath)
      BY <1>11, <2>1, LookupFacts
    <3> QED
      BY <3>1 DEF Candidates
  <2>3. Generation(ix, p) = LogGen(p)
    BY <1>9, <2>1 DEF IndexFits, EntriesFit, Generation, LogGen
  <2>4. /\ \A q \in Paths : p < q /\ u \in owner[q] => Untaken(u, q)
        /\ cur[u] # Nothing => Untaken(u, p) /\ ~cur[u].anchored /\ cur[u].pos = 0
    BY <1>2, <1>4, <1>11, <2>1, FoundIsUntaken
  <2>5. cur'[u] = IF cur[u] = Nothing THEN WarmCursor(LogGen(p)) ELSE Imported(WarmCursor(LogGen(p)), cur[u])
    BY <1>4, <1>11, <2>1, <2>3 DEF ResumeDoes
  <2>6. ReadsOn(u)' /\ cur'[u] # Nothing /\ cur'[u].gen = LogGen(p)
    <3>1. CASE cur[u] = Nothing
      BY <1>1, <1>3, <2>1, <2>4, <2>5, <3>1, ColdReads
    <3>2. CASE cur[u] # Nothing
      BY <1>1, <1>3, <2>1, <2>4, <2>5, <3>2, ImportedReads
    <3> QED
      BY <3>1, <3>2
  <2>7. cur'[u].gen.path = p
    BY <2>6 DEF LogGen
  <2> QED
    BY <2>1, <2>2, <2>3, <2>6, <2>7
\* Others wait.
<1>12. ASSUME NEW u \in Accounts, u \notin restored, fnd[u] = NoPath
       PROVE  cur'[u] = Nothing /\ \E b \in 0..MaxFiles : Waits(u, b)'
  <2>1. cur'[u] = Nothing
    BY <1>4, <1>12 DEF ResumeDoes
  <2>2. u \in ever' => u \in ever /\ u \in tracked
    BY <1>9, <1>12
  <2>3. PICK b \in 0..MaxFiles : PassedUpTo(u, b)'
    <3>1. CASE cur[u] = Nothing
      <4>1. PICK b \in 0..MaxFiles : Waits(u, b)
        BY <3>1, OnceFacts DEF ReaderFits
      <4>2. PassedUpTo(u, b)'
        BY <1>3, <1>6, <2>2, <4>1, PassedStays DEF Waits
      <4> QED
        BY <4>2
    <3>2. CASE cur[u] # Nothing /\ u \notin ever'
      <4>1. ReadsOn(u)
        BY <3>2, OnceFacts
      <4>2. PICK q \in Paths : q = cur[u].gen.path /\ PassedUpTo(u, q)'
        BY <1>1, <1>3, <1>6, <3>2, <4>1, GivenUp
      <4> QED
        BY <4>2, TailNumbers
    <3>3. CASE cur[u] # Nothing /\ u \in ever'
      <4>1. ReadsOn(u)
        BY <3>3, OnceFacts
      <4>2. ~Restorable(cur[u])
        BY <1>4, <1>12, <2>2, <3>3 DEF ResumeDoes
      <4>3. ~cur[u].anchored
        BY <3>3, <4>2, AnchoredIsRestorable
      <4>4. PICK q \in Paths : PassedUpTo(u, q)
        BY <1>1, <3>3, <4>1, <4>3, NothingTakenYet
      <4>5. PassedUpTo(u, q)'
        BY <1>3, <1>6, <2>2, <4>4, PassedStays
      <4> QED
        BY <4>5, TailNumbers
    <3> QED
      BY <3>1, <3>2, <3>3
  <2>4. Waits(u, b)'
    BY <1>2, <1>3, <2>3 DEF Waits
  <2> QED
    BY <2>1, <2>4
<1>13. ASSUME NEW u \in Accounts
       PROVE  ReaderFits(u)' /\ StampsDiffer(u)'
  <2>1. ReaderFits(u)'
    <3>1. CASE u \in restored
      BY <1>10, <3>1 DEF ReaderFits
    <3>2. CASE fnd[u] # NoPath
      BY <1>11, <3>2 DEF ReaderFits
    <3>3. CASE u \notin restored /\ fnd[u] = NoPath
      BY <1>12, <3>3 DEF ReaderFits
    <3> QED
      BY <3>1, <3>2, <3>3
  <2>2. StampsDiffer(u)'
    BY <1>3, <1>6, StampsKept DEF OnceInv
  <2> QED
    BY <2>1, <2>2
<1>14. IndexFits(files, pins)'
  <2>1. EntriesFit(ix)'
    BY <1>3, <1>9, EntriesStay DEF IndexFits
  <2>2. ASSUME NEW g \in pins'
        PROVE  \E v \in Accounts : cur'[v] # Nothing /\ cur'[v].gen = g
    <3>1. CASE g \in pn
      <4>1. \A v \in restored : Restorable(cur[v])
        BY <1>4 DEF ResumeDoes
      <4>2. PICK v \in restored : cur[v].gen = g
        BY <1>2, <1>5, <1>8, <3>1, <4>1, RestoredFits
      <4> QED
        BY <1>5, <1>10, <4>2
    <3>2. CASE g \in {Generation(ix, fnd[u]) : u \in {v \in Accounts : fnd[v] # NoPath}}
      <4>1. PICK u \in Accounts : fnd[u] # NoPath /\ g = Generation(ix, fnd[u])
        BY <3>2
      <4> QED
        BY <1>11, <4>1
    <3> QED
      BY <1>9, <2>2, <3>1, <3>2
  <2>3. ASSUME NEW v \in Accounts, cur'[v] # Nothing
        PROVE  cur'[v].gen \in pins' /\ ix[cur'[v].gen.path].known /\ ix[cur'[v].gen.path].marked
    <3>1. CASE v \in restored
      BY <1>9, <1>10, <3>1
    <3>2. CASE fnd[v] # NoPath
      <4>1. Generation(ix, fnd[v]) \in pins'
        BY <1>9, <3>2
      <4> QED
        BY <1>11, <3>2, <4>1
    <3>3. CASE v \notin restored /\ fnd[v] = NoPath
      BY <1>12, <2>3, <3>3
    <3> QED
      BY <3>1, <3>2, <3>3
  <2>4. IndexFits(ix, pins)'
    BY <2>1, <2>2, <2>3 DEF IndexFits
  <2> QED
    BY <1>9, <2>4 DEF IndexFits, EntriesFit
<1>15. LogsGrow'
  BY <1>1, <1>3, LogsGrowStays
<1> QED
  BY <1>2, <1>7, <1>13, <1>14, <1>15 DEF OnceInv

-----------------------------------------------------------------------------
(* The log reader dispatches a record once, if logs only grow: the theorem *)

LEMMA OnceInit ==
  ASSUME TailInit
  PROVE  OnceInv
<1>1. /\ disk = [p \in Paths |-> NoFile] /\ owner = [p \in Paths |-> {}]
      /\ proc = [u \in Accounts |-> NoPath] /\ files = [p \in Paths |-> Unindexed] /\ pins = {}
      /\ clock = 0 /\ last = [u \in Accounts |-> 0]
      /\ phase = "idle" /\ status = [u \in Accounts |-> NoPath] /\ job = [u \in Accounts |-> Nothing]
      /\ cur = [u \in Accounts |-> Nothing] /\ handled = [u \in Accounts |-> {}]
  BY DEF TailInit, IndexInit
<1>2. NoFile.ino = 0 /\ ~NoFile.on /\ NoFile.recs = <<>> /\ ~Unindexed.known
  BY DEF NoFile, Unindexed
<1>3. LogsGrow
  BY <1>1, <1>2 DEF LogsGrow
<1>4. IndexFits(files, pins)
  BY <1>1, <1>2 DEF IndexFits, EntriesFit
<1>5. ASSUME NEW u \in Accounts
      PROVE  StampsDiffer(u) /\ ReaderFits(u) /\ JobFits(u)
  <2>1. Taken(u) = {}
    BY <1>1 DEF Taken, PendingOf
  <2>2. StampsDiffer(u)
    BY <1>1, <2>1 DEF StampsDiffer
  <2>3. PassedUpTo(u, NoPath)
    BY <1>1 DEF PassedUpTo
  <2>4. PICK b \in 0..MaxFiles : b = NoPath
    BY TailNumbers
  <2>5. Waits(u, b)
    BY <1>1, <2>3, <2>4 DEF Waits
  <2> QED
    BY <1>1, <2>2, <2>5 DEF ReaderFits, JobFits
<1> QED
  BY <1>1, <1>3, <1>4, <1>5 DEF OnceInv

LEMMA OnceStays ==
  ASSUME TailInv, OnceInv, UNCHANGED tailVars
  PROVE  OnceInv'
<1>1. UNCHANGED <<disk, owner, proc, clock, last, files, pins, phase, job, cur, ever>>
  BY DEF tailVars, worldVars, logVars, loopVars, cursorVars
<1>2. UNCHANGED <<retired, suspended, status, handled>> /\ UNCHANGED logVars /\ UNCHANGED <<disk, owner>>
  BY <1>1 DEF tailVars, cursorVars, tailHistory, logVars
<1>3. ASSUME NEW u \in Accounts
      PROVE  /\ Taken(u)' \subseteq Taken(u) /\ JobFits(u)' /\ ReaderFits(u)
             /\ (cur[u] = Nothing /\ cur'[u] = Nothing) \/ SameReading(cur'[u], cur[u])
  BY <1>1, <1>2 DEF Taken, JobFits, OnceInv, SameReading
<1>4. \A u \in Accounts : ReaderFits(u)'
  BY <1>1, <1>2, <1>3, ReaderFitsKept
<1>5. IndexFits(files, pins)'
  BY <1>1, EntriesStay DEF IndexFits, OnceInv
<1>6. phase' = "paused" => \A u \in Accounts : status'[u] = NoPath
  BY <1>1, <1>2 DEF OnceInv
<1> QED
  BY <1>2, <1>3, <1>4, <1>5, <1>6, KeptOnce

LEMMA OnceStep ==
  ASSUME LogsOnlyGrow, TailInv, OnceInv, TailNext
  PROVE  OnceInv'
<1>1. CASE World \/ Resume \/ StartBatch \/ Pause
  BY <1>1, OnceWorld, OnceResume, OnceStartBatch, OncePause DEF TailInv
<1>2. CASE Poll(TRUE) \/ Poll(FALSE)
  BY <1>2, OncePoll
<1>3. CASE \E u \in Accounts : TailJob(u)
  <2>1. PICK u \in Accounts : TailJob(u)
    BY <1>3
  <2>2. CASE Stat(u) \/ ReadNothing(u) \/ Read(u)
    BY <2>2, OnceStat, OnceReadNothing, OnceRead
  <2>3. CASE \/ DispatchSeenDisconnect(u) \/ DispatchOldDisconnect(u) \/ DispatchDisconnect(u)
             \/ DispatchSeedMerchant(u) \/ DispatchMerchant(u)
    BY <2>3, OnceDispatch
  <2> QED
    BY <2>1, <2>2, <2>3, NeverStale DEF TailJob
<1>4. CASE \E u \in Accounts : Resolve(u) \/ Tick(u) \/ Recover(u) \/ Untrack(u) \/ Track(u)
  BY <1>4, OnceResolve, OnceTick, OnceRecover, OnceUntrack, OnceTrack
<1> QED
  BY <1>1, <1>2, <1>3, <1>4 DEF TailNext

\* If logs only grow, a record is dispatched once to an account, whatever the attachments of
\* the account were: retired after a disconnect and recovered, moved to a newer log, removed
\* and added again, or restored from a snapshot (_dispatch_log_line).
THEOREM OnceEach == LogsOnlyGrow => (TailSpec => []DispatchedOnce)
<1>1. TailInit => OnceInv
  BY OnceInit
<1>2. LogsOnlyGrow /\ TailInv /\ OnceInv /\ [TailNext]_tailVars => OnceInv'
  BY OnceStep, OnceStays
<1>3. ASSUME TailInv, OnceInv
      PROVE  DispatchedOnce
  <2>1. SUFFICES ASSUME NEW u \in Accounts, job[u] # Nothing,
                        NEW r \in Range(job[u].recs), r.ts \in handled[u]
                 PROVE  FALSE
    BY DEF DispatchedOnce
  <2>2. JobFits(u)
    BY <1>3 DEF OnceInv
  <2>3. PICK j \in TailJobs : j = job[u]
    BY <1>3, <2>1 DEF TailInv, TailTypes, JobTypes
  <2>4. DOMAIN j.recs = 1..Len(j.recs)
    BY DEF TailJobs
  <2>5. PICK i \in 1..Len(j.recs) : r = j.recs[i]
    BY <2>1, <2>3, <2>4 DEF Range
  <2>6. j.at = "dispatch"
    BY <2>1, <2>2, <2>3, <2>5 DEF JobFits
  <2> QED
    BY <2>1, <2>2, <2>3, <2>5, <2>6 DEF JobFits
<1>4. ASSUME LogsOnlyGrow
      PROVE  TailSpec => []DispatchedOnce
  <2>1. TailInv /\ OnceInv /\ [TailNext]_tailVars => OnceInv'
    BY <1>2, <1>4
  <2> QED
    BY <1>1, <1>3, <2>1, TailInvariance, PTL DEF TailSpec
<1> QED
  BY <1>4
=============================================================================
