------------------------- MODULE WebhookGate_proofs -------------------------
(***************************************************************************)
(* Proofs about WebhookGate, for any senders and webhooks, any budget,     *)
(* time-out, longest pause, number of retries and number of 429s.          *)
(*                                                                         *)
(* The argument rests on the lock of a webhook: between Acquire and Finish *)
(* a sender has the pause of its webhook to itself, so that what the       *)
(* server asked for (refill) is in the answer not noted yet or in blocked. *)
(* The rest is about one sender: what its place in post says of its age,   *)
(* its counts and its message.                                             *)
(***************************************************************************)
EXTENDS WebhookGate, FiniteSetTheorems, TLAPS

-----------------------------------------------------------------------------
(* The larger and the smaller of two numbers *)

LEMMA LongerIsOne ==
    ASSUME NEW x \in Int, NEW y \in Int
    PROVE  Longer(x, y) = IF x >= y THEN x ELSE y
  <1> DEFINE m == IF x >= y THEN x ELSE y
  <1>1. m \in {x, y} /\ \A z \in {x, y} : m >= z
    OBVIOUS
  <1>2. \A a \in {x, y} : (\A z \in {x, y} : a >= z) => a = m
    OBVIOUS
  <1> QED BY <1>1, <1>2 DEF Longer, Max

LEMMA MinIsOne ==
    ASSUME NEW x \in Int, NEW y \in Int
    PROVE  Min({x, y}) = IF x <= y THEN x ELSE y
  <1> DEFINE m == IF x <= y THEN x ELSE y
  <1>1. m \in {x, y} /\ \A z \in {x, y} : m <= z
    OBVIOUS
  <1>2. \A a \in {x, y} : (\A z \in {x, y} : a <= z) => a = m
    OBVIOUS
  <1> QED BY <1>1, <1>2 DEF Min

-----------------------------------------------------------------------------
(* The inductive invariant *)

PCs == {"idle", "lock", "wait", "sleep", "send", "posting", "answered", "finish"}

\* Where a sender has the lock of its webhook.
Holding == PCs \ {"idle", "lock"}

\* The types, without the bounds that the other parts give.
Types ==
    /\ urlLock \in [Urls -> Senders \union {None}]
    /\ blocked \in [Urls -> 0..MaxPause] /\ globalBlock \in 0..MaxPause
    /\ refill \in [Urls -> 0..MaxPause] /\ refillAll \in 0..MaxPause
    /\ waiting \in Int
    /\ pc \in [Senders -> PCs]
    /\ url \in [Senders -> Urls \union {None}]
    /\ age \in [Senders -> Nat] /\ rest \in [Senders -> Nat]
    /\ tries \in [Senders -> Nat] /\ limited \in [Senders -> Nat] /\ sends \in [Senders -> Nat]
    /\ answer \in [Senders -> Answer]
    /\ posted \in [Senders -> BOOLEAN]

\* _stats['waiting'] is the number of calls.
Busy == {s \in Senders : pc[s] # "idle"}
WaitingIsExact == waiting = Cardinality(Busy)

\* A call has a webhook, and between Acquire and Finish its lock.
Locked(s) ==
    /\ pc[s] # "idle" => url[s] \in Urls
    /\ pc[s] \in Holding => urlLock[url[s]] = s

\* What a sender may still sleep, or its request may take, ends in time.
InTime(s) ==
    /\ age[s] <= MaxWait + SendTime
    /\ pc[s] \in {"lock", "wait", "send"} => age[s] <= MaxWait
    /\ pc[s] = "sleep" => age[s] + rest[s] <= MaxWait
    /\ pc[s] = "posting" => age[s] + rest[s] <= MaxWait + SendTime

\* Every request but the one under way had an answer that was counted.
Counted(s) ==
    /\ pc[s] \in {"idle", "lock"} => tries[s] = 0 /\ limited[s] = 0 /\ sends[s] = 0
    /\ pc[s] \in Holding \ {"finish"} => tries[s] <= Retries /\ limited[s] < MaxLimited
    /\ pc[s] \in {"wait", "sleep", "send"} => sends[s] = tries[s] + limited[s]
    /\ pc[s] \in {"posting", "answered"} => sends[s] = tries[s] + limited[s] + 1
    /\ tries[s] <= Retries + 1 /\ limited[s] <= MaxLimited
    /\ sends[s] <= MaxLimited + Retries

\* A message that may be posted has the answer that says so, or its call is over.
Posted(s) ==
    posted[s] =>
        \/ pc[s] = "finish"
        \/ pc[s] = "answered" /\ answer[s].kind \in {"done", "readTimeout"}

SenderOK(s) == InTime(s) /\ Counted(s) /\ Posted(s)

\* What a server asked for is a pause of its webhook, or is in an answer nobody noted.
Noted(u) ==
    \/ refill[u] <= blocked[u]
    \/ \E s \in Senders :
        pc[s] = "answered" /\ url[s] = u /\ ~answer[s].all /\ refill[u] <= answer[s].pause

\* Whoever is about to send has nothing to wait for.
SendIsClear(s) == pc[s] = "send" => refill[url[s]] = 0

PausesKept ==
    /\ \A u \in Urls : Noted(u)
    /\ \A s \in Senders : SendIsClear(s)
    /\ refillAll = globalBlock

IInv ==
    /\ Types /\ WaitingIsExact
    /\ \A s \in Senders : Locked(s) /\ SenderOK(s)
    /\ PausesKept

-----------------------------------------------------------------------------
(* What the invariant says *)

LEMMA InvariantTypes == IInv => TypeOK
  <1> SUFFICES ASSUME IInv PROVE TypeOK
    OBVIOUS
  <1>1. waiting \in 0..Cardinality(Senders)
    <2>1. Busy \in SUBSET Senders
      BY DEF Busy
    <2>2. Cardinality(Busy) \in Nat /\ Cardinality(Busy) <= Cardinality(Senders)
      BY <2>1, GateAssumption, FS_Subset, FS_CardinalityType
    <2>3. Cardinality(Senders) \in Nat
      BY GateAssumption, FS_CardinalityType
    <2> QED BY <2>2, <2>3 DEF IInv, WaitingIsExact
  <1>2. /\ age \in [Senders -> 0..MaxAge]
        /\ tries \in [Senders -> 0..Retries + 1] /\ limited \in [Senders -> 0..MaxLimited]
        /\ sends \in [Senders -> 0..MaxLimited + Retries]
    BY GateAssumption DEF IInv, Types, SenderOK, InTime, Counted, MaxAge
  <1> QED BY <1>1, <1>2 DEF IInv, Types, TypeOK, PCs

LEMMA InvariantProperties == IInv => WithinBudget /\ NeverPingTwice
  BY DEF IInv, SenderOK, InTime, Posted, WithinBudget, NeverPingTwice

LEMMA InitInvariant == Init => IInv
  <1> SUFFICES ASSUME Init PROVE IInv
    OBVIOUS
  <1>1. Types
    BY GateAssumption DEF Init, Types, PCs, Answer, NoAnswer
  <1>2. WaitingIsExact
    <2>1. Busy = {}
      BY DEF Init, Busy
    <2> QED BY <2>1, FS_EmptySet DEF Init, WaitingIsExact
  <1>3. \A s \in Senders : Locked(s) /\ SenderOK(s)
    BY GateAssumption DEF Init, Locked, SenderOK, InTime, Counted, Posted, Holding, PCs
  <1>4. PausesKept
    BY DEF Init, PausesKept, Noted, SendIsClear
  <1> QED BY <1>1, <1>2, <1>3, <1>4 DEF IInv

-----------------------------------------------------------------------------
(* A step of one sender leaves the others alone *)

\* The locals of every sender but s stay as they are.
Only(s) ==
    \A r \in Senders \ {s} :
        /\ pc'[r] = pc[r] /\ url'[r] = url[r] /\ age'[r] = age[r] /\ rest'[r] = rest[r]
        /\ tries'[r] = tries[r] /\ limited'[r] = limited[r] /\ sends'[r] = sends[r]
        /\ answer'[r] = answer[r] /\ posted'[r] = posted[r]

LEMMA OthersKeep ==
    ASSUME IInv, NEW s \in Senders, Only(s), SenderOK(s)'
    PROVE  \A r \in Senders : SenderOK(r)'
  BY DEF IInv, Only, SenderOK, InTime, Counted, Posted

\* A sender that keeps its webhook, and the lock when it has it, disturbs no lock.
LEMMA LocksKeep ==
    ASSUME IInv, NEW s \in Senders, Only(s), UNCHANGED <<urlLock, url>>,
           pc[s] # "idle", pc'[s] \in Holding => pc[s] \in Holding
    PROVE  \A r \in Senders : Locked(r)'
  BY DEF IInv, Only, Locked

\* Two senders with a lock have different webhooks.
LEMMA LocksExclude ==
    ASSUME IInv, NEW r \in Senders, NEW s \in Senders, r # s,
           pc[r] \in Holding, pc[s] \in Holding
    PROVE  url[r] # url[s]
  BY DEF IInv, Locked

LEMMA WaitingKeeps ==
    ASSUME IInv, NEW s \in Senders, Only(s), waiting' = waiting,
           (pc'[s] = "idle") <=> (pc[s] = "idle")
    PROVE  WaitingIsExact'
  <1>1. Busy' = Busy
    BY DEF Busy, Only
  <1> QED BY <1>1 DEF IInv, WaitingIsExact

\* A step that neither notes an answer nor is about to send leaves the pauses alone.
LEMMA PausesKeep ==
    ASSUME IInv, NEW s \in Senders, Only(s), pc[s] # "answered", pc'[s] # "send",
           UNCHANGED <<blocked, globalBlock, refill, refillAll>>
    PROVE  PausesKept'
  <1>1. ASSUME NEW u \in Urls PROVE Noted(u)'
    <2>1. CASE refill[u] <= blocked[u]
      BY <2>1 DEF Noted
    <2>2. CASE ~(refill[u] <= blocked[u])
      <3>1. PICK r \in Senders : pc[r] = "answered" /\ url[r] = u /\ ~answer[r].all
                                 /\ refill[u] <= answer[r].pause
        BY <1>1, <2>2 DEF IInv, PausesKept, Noted
      <3>2. r # s
        BY <3>1
      <3> QED BY <3>1, <3>2 DEF Only, Noted
    <2> QED BY <2>1, <2>2
  <1>2. \A r \in Senders : SendIsClear(r)'
    BY DEF IInv, PausesKept, SendIsClear, Only
  <1> QED BY <1>1, <1>2 DEF IInv, PausesKept

-----------------------------------------------------------------------------
(* One lemma per action *)

LEMMA CallStep ==
    ASSUME IInv, NEW s \in Senders, NEW u \in Urls, Call(s, u) PROVE IInv'
  <1>1. Types'
    BY DEF Call, Goto, IInv, Types, PCs, gate, history
  <1>2. Only(s)
    BY DEF Call, Goto, IInv, Types, Only, history
  <1>3. SenderOK(s)'
    BY GateAssumption DEF Call, Goto, IInv, Types, SenderOK, InTime, Counted, Posted, Holding, history
  <1>4. \A r \in Senders : Locked(r)'
    BY DEF Call, Goto, IInv, Types, Locked, Holding, gate
  <1>5. WaitingIsExact'
    <2>1. Busy' = Busy \union {s} /\ s \notin Busy
      BY DEF Call, Goto, IInv, Types, Busy
    <2>2. IsFiniteSet(Busy)
      BY GateAssumption, FS_Subset DEF Busy
    <2>3. Cardinality(Busy') = Cardinality(Busy) + 1
      BY <2>1, <2>2, FS_AddElement
    <2> QED BY <2>3 DEF Call, IInv, WaitingIsExact
  <1>6. PausesKept'
    <2>1. /\ pc[s] # "answered" /\ pc'[s] # "send"
          /\ UNCHANGED <<blocked, globalBlock, refill, refillAll>>
      BY DEF Call, Goto, IInv, Types, gate, history
    <2> QED BY <1>2, <2>1, PausesKeep
  <1> QED BY <1>1, <1>2, <1>3, <1>4, <1>5, <1>6, OthersKeep DEF IInv

LEMMA AcquireStep ==
    ASSUME IInv, NEW s \in Senders, Acquire(s) PROVE IInv'
  <1>1. Types'
    BY DEF Acquire, Goto, IInv, Types, PCs, locals, history
  <1>2. Only(s)
    BY DEF Acquire, Goto, IInv, Types, Only, locals, history
  <1>3. SenderOK(s)'
    BY GateAssumption
    DEF Acquire, Goto, IInv, Types, SenderOK, InTime, Counted, Posted, Holding, locals, history
  <1>4. \A r \in Senders : Locked(r)'
    BY GateAssumption DEF Acquire, Goto, IInv, Types, Locked, Holding, locals
  <1>5. /\ pc[s] = "lock" /\ pc'[s] = "wait" /\ waiting' = waiting
        /\ UNCHANGED <<blocked, globalBlock, refill, refillAll>>
    BY DEF Acquire, Goto, IInv, Types, history
  <1>6. PausesKept' /\ WaitingIsExact'
    BY <1>2, <1>5, PausesKeep, WaitingKeeps
  <1> QED BY <1>1, <1>2, <1>3, <1>4, <1>6, OthersKeep DEF IInv

LEMMA NoAnswerTyped == NoAnswer \in Answer
  BY GateAssumption DEF NoAnswer, Answer

\* The end of a call, with or without the lock.
LEMMA ForgetTypes ==
    ASSUME IInv, NEW s \in Senders, Goto(s, "idle"), Forget(s), waiting' = waiting - 1,
           UNCHANGED <<blocked, globalBlock, rest, refill, refillAll>>, pc[s] # "idle",
           urlLock' \in [Urls -> Senders \union {None}],
           \A r \in Senders \ {s} : pc[r] \in Holding => urlLock'[url[r]] = urlLock[url[r]]
    PROVE  /\ Types' /\ Only(s) /\ SenderOK(s)' /\ WaitingIsExact'
           /\ \A r \in Senders : Locked(r)'
  <1>1. Types'
    BY NoAnswerTyped DEF Goto, Forget, IInv, Types, PCs
  <1>2. Only(s)
    BY DEF Goto, Forget, IInv, Types, Only
  <1>3. SenderOK(s)'
    BY GateAssumption
    DEF Goto, Forget, IInv, Types, SenderOK, InTime, Counted, Posted, Holding
  <1>4. \A r \in Senders : Locked(r)'
    BY DEF Goto, Forget, IInv, Types, Locked, Holding
  <1>5. WaitingIsExact'
    <2>1. Busy' = Busy \ {s} /\ s \in Busy
      BY DEF Goto, IInv, Types, Busy
    <2>2. IsFiniteSet(Busy)
      BY GateAssumption, FS_Subset DEF Busy
    <2>3. Cardinality(Busy') = Cardinality(Busy) - 1
      BY <2>1, <2>2, FS_RemoveElement
    <2> QED BY <2>3 DEF IInv, WaitingIsExact
  <1> QED BY <1>1, <1>2, <1>3, <1>4, <1>5

LEMMA LockTimeoutStep ==
    ASSUME IInv, NEW s \in Senders, LockTimeout(s) PROVE IInv'
  <1>1. /\ Goto(s, "idle") /\ Forget(s) /\ waiting' = waiting - 1 /\ pc[s] = "lock"
        /\ UNCHANGED <<blocked, globalBlock, rest, refill, refillAll>>
        /\ urlLock' = urlLock
    BY DEF LockTimeout, gate
  <1>2. /\ Types' /\ Only(s) /\ SenderOK(s)' /\ WaitingIsExact'
        /\ \A r \in Senders : Locked(r)'
    BY <1>1, ForgetTypes DEF IInv, Types
  <1>3. pc'[s] # "send"
    BY <1>1 DEF Goto, IInv, Types
  <1>4. PausesKept'
    BY <1>1, <1>2, <1>3, PausesKeep
  <1> QED BY <1>2, <1>4, OthersKeep DEF IInv

LEMMA FinishStep ==
    ASSUME IInv, NEW s \in Senders, Finish(s) PROVE IInv'
  <1>1. /\ Goto(s, "idle") /\ Forget(s) /\ waiting' = waiting - 1 /\ pc[s] = "finish"
        /\ UNCHANGED <<blocked, globalBlock, rest, refill, refillAll>>
        /\ urlLock' = [urlLock EXCEPT ![url[s]] = None]
    BY DEF Finish
  <1>2. pc[s] \in Holding
    BY <1>1 DEF Holding, PCs
  <1>3. urlLock' \in [Urls -> Senders \union {None}]
    BY <1>1 DEF IInv, Types
  <1>4. \A r \in Senders \ {s} : pc[r] \in Holding => urlLock'[url[r]] = urlLock[url[r]]
    <2> SUFFICES ASSUME NEW r \in Senders \ {s}, pc[r] \in Holding
                 PROVE  urlLock'[url[r]] = urlLock[url[r]]
      OBVIOUS
    <2>1. url[r] # url[s]
      BY <1>2, LocksExclude
    <2> QED BY <1>1, <2>1 DEF IInv, Types
  <1>5. /\ Types' /\ Only(s) /\ SenderOK(s)' /\ WaitingIsExact'
        /\ \A r \in Senders : Locked(r)'
    BY <1>1, <1>3, <1>4, ForgetTypes
  <1>6. pc'[s] # "send"
    BY <1>1 DEF Goto, IInv, Types
  <1>7. PausesKept'
    BY <1>1, <1>5, <1>6, PausesKeep
  <1> QED BY <1>5, <1>7, OthersKeep DEF IInv

\* Nobody else has an answer for the webhook of a sender with its lock.
LEMMA HolderNotes ==
    ASSUME IInv, NEW s \in Senders, pc[s] \in Holding, pc[s] # "answered"
    PROVE  refill[url[s]] <= blocked[url[s]]
  <1>1. url[s] \in Urls
    BY DEF IInv, Locked, Holding
  <1>2. \A r \in Senders : ~(pc[r] = "answered" /\ url[r] = url[s])
    BY LocksExclude DEF Holding, PCs
  <1> QED BY <1>1, <1>2 DEF IInv, PausesKept, Noted

LEMMA ClearStep ==
    ASSUME IInv, NEW s \in Senders, Clear(s) PROVE IInv' /\ refillAll = 0
  <1>1. Types'
    BY DEF Clear, Goto, IInv, Types, PCs, gate, locals, history
  <1>2. Only(s)
    BY DEF Clear, Goto, IInv, Types, Only, locals, history
  <1>3. SenderOK(s)'
    BY DEF Clear, Goto, IInv, Types, SenderOK, InTime, Counted, Posted, Holding, locals, history
  <1>4. /\ pc[s] = "wait" /\ pc'[s] = "send" /\ waiting' = waiting
        /\ UNCHANGED <<urlLock, blocked, globalBlock, refill, refillAll, url, answer>>
    BY DEF Clear, Goto, IInv, Types, gate, locals, history
  <1>5. \A r \in Senders : Locked(r)'
    BY <1>2, <1>4, LocksKeep DEF Holding, PCs
  <1>6. WaitingIsExact'
    BY <1>2, <1>4, WaitingKeeps
  <1>7. refill[url[s]] = 0 /\ globalBlock = 0
    <2>1. url[s] \in Urls /\ pc[s] \in Holding
      BY <1>4 DEF IInv, Locked, Holding, PCs
    <2>2. /\ blocked[url[s]] \in 0..MaxPause /\ globalBlock \in 0..MaxPause
          /\ refill[url[s]] \in 0..MaxPause
      BY <2>1 DEF IInv, Types
    <2>3. Longer(blocked[url[s]], globalBlock) = 0
      BY DEF Clear, Until
    <2>4. blocked[url[s]] = 0 /\ globalBlock = 0
      BY <2>2, <2>3, LongerIsOne, GateAssumption
    <2> QED BY <1>4, <2>1, <2>2, <2>4, HolderNotes
  <1>8. PausesKept'
    <2>1. \A u \in Urls : Noted(u)'
      <3> SUFFICES ASSUME NEW u \in Urls PROVE Noted(u)'
        OBVIOUS
      <3>1. CASE refill[u] <= blocked[u]
        BY <1>4, <3>1 DEF Noted
      <3>2. CASE ~(refill[u] <= blocked[u])
        <4>1. PICK r \in Senders : pc[r] = "answered" /\ url[r] = u /\ ~answer[r].all
                                   /\ refill[u] <= answer[r].pause
          BY <3>2 DEF IInv, PausesKept, Noted
        <4>2. r # s
          BY <1>4, <4>1
        <4> QED BY <1>2, <1>4, <4>1, <4>2 DEF Only, Noted
      <3> QED BY <3>1, <3>2
    <2>2. \A r \in Senders : SendIsClear(r)'
      BY <1>2, <1>4, <1>7 DEF IInv, PausesKept, SendIsClear, Only
    <2> QED BY <1>4, <2>1, <2>2 DEF IInv, PausesKept
  <1> QED BY <1>1, <1>2, <1>3, <1>5, <1>6, <1>7, <1>8, OthersKeep DEF IInv, PausesKept

LEMMA PauseStep ==
    ASSUME IInv, NEW s \in Senders, Pause(s) PROVE IInv'
  <1>0. Until(s) \in Nat
    <2>1. blocked[url[s]] \in 0..MaxPause /\ globalBlock \in 0..MaxPause
      BY DEF Pause, IInv, Types, Locked
    <2> QED BY <2>1, LongerIsOne, GateAssumption DEF Until
  <1>1. Types'
    BY <1>0 DEF Pause, Goto, IInv, Types, PCs, gate, locals, history
  <1>2. Only(s)
    BY DEF Pause, Goto, IInv, Types, Only, locals, history
  <1>3. SenderOK(s)'
    <2>1. InTime(s)'
      BY <1>0, GateAssumption DEF Pause, TooLate, Goto, IInv, Types, SenderOK, InTime, locals, history
    <2>2. Counted(s)' /\ Posted(s)'
      BY GateAssumption DEF Pause, Goto, IInv, Types, SenderOK, Counted, Posted, Holding, locals, history
    <2> QED BY <2>1, <2>2 DEF SenderOK
  <1>4. /\ pc[s] = "wait" /\ pc'[s] \in {"sleep", "finish"} /\ waiting' = waiting
        /\ UNCHANGED <<urlLock, blocked, globalBlock, refill, refillAll, url>>
    BY DEF Pause, Goto, IInv, Types, gate, locals, history
  <1>5. /\ \A r \in Senders : Locked(r)'
        /\ WaitingIsExact' /\ PausesKept'
    BY <1>2, <1>4, LocksKeep, WaitingKeeps, PausesKeep DEF Holding, PCs
  <1> QED BY <1>1, <1>2, <1>3, <1>5, OthersKeep DEF IInv

LEMMA WakeStep ==
    ASSUME IInv, NEW s \in Senders, Wake(s) PROVE IInv'
  <1>1. Types'
    BY DEF Wake, Goto, IInv, Types, PCs, gate, locals, history
  <1>2. Only(s)
    BY DEF Wake, Goto, IInv, Types, Only, locals, history
  <1>3. SenderOK(s)'
    BY DEF Wake, Goto, IInv, Types, SenderOK, InTime, Counted, Posted, Holding, locals, history
  <1>4. /\ pc[s] = "sleep" /\ pc'[s] = "wait" /\ waiting' = waiting
        /\ UNCHANGED <<urlLock, blocked, globalBlock, refill, refillAll, url>>
    BY DEF Wake, Goto, IInv, Types, gate, locals, history
  <1>5. /\ \A r \in Senders : Locked(r)'
        /\ WaitingIsExact' /\ PausesKept'
    BY <1>2, <1>4, LocksKeep, WaitingKeeps, PausesKeep DEF Holding, PCs
  <1> QED BY <1>1, <1>2, <1>3, <1>5, OthersKeep DEF IInv

LEMMA SendStep ==
    ASSUME IInv, NEW s \in Senders, Send(s) PROVE IInv' /\ refill[url[s]] = 0
  <1>1. Types'
    BY GateAssumption DEF Send, Goto, IInv, Types, PCs, gate, history
  <1>2. Only(s)
    BY DEF Send, Goto, IInv, Types, Only, history
  <1>3. SenderOK(s)'
    BY GateAssumption
    DEF Send, Goto, IInv, Types, SenderOK, InTime, Counted, Posted, Holding, PCs, history
  <1>4. /\ pc[s] = "send" /\ pc'[s] = "posting" /\ waiting' = waiting
        /\ UNCHANGED <<urlLock, blocked, globalBlock, refill, refillAll, url>>
    BY DEF Send, Goto, IInv, Types, gate, history
  <1>5. /\ \A r \in Senders : Locked(r)'
        /\ WaitingIsExact' /\ PausesKept'
    BY <1>2, <1>4, LocksKeep, WaitingKeeps, PausesKeep DEF Holding, PCs
  <1>6. refill[url[s]] = 0
    BY <1>4 DEF IInv, PausesKept, SendIsClear
  <1> QED BY <1>1, <1>2, <1>3, <1>5, <1>6, OthersKeep DEF IInv

-----------------------------------------------------------------------------
(* The answer *)

\* Noting an answer keeps what the servers asked for: it moves into a pause.
LEMMA NoteKeepsPauses ==
    ASSUME IInv, NEW s \in Senders, Note(s), Only(s), pc[s] = "answered", pc'[s] # "send"
    PROVE  /\ blocked' \in [Urls -> 0..MaxPause] /\ globalBlock' \in 0..MaxPause
           /\ refillAll' \in 0..MaxPause
           /\ PausesKept'
  <1>0. /\ url[s] \in Urls /\ MaxPause \in Nat
        /\ blocked \in [Urls -> 0..MaxPause] /\ globalBlock \in 0..MaxPause
        /\ refill \in [Urls -> 0..MaxPause] /\ refill' = refill /\ refillAll = globalBlock
    BY GateAssumption DEF IInv, Types, Locked, Note, PausesKept
  <1>1. PICK p, all : /\ p = answer[s].pause /\ all = answer[s].all
                      /\ p \in 0..MaxPause /\ all \in BOOLEAN
    BY DEF IInv, Types, Answer
  <1>2. NotePause(url[s], p, all) /\ refillAll' = IF all THEN Longer(refillAll, p) ELSE refillAll
    BY <1>1 DEF Note
  <1>3. \A x \in 0..MaxPause : /\ Longer(x, p) \in 0..MaxPause
                                /\ Longer(x, p) >= x /\ Longer(x, p) >= p
    BY <1>0, <1>1, LongerIsOne
  <1>4. CASE all
    <2>1. /\ globalBlock' = Longer(globalBlock, p) /\ blocked' = blocked
          /\ refillAll' = Longer(refillAll, p)
      BY <1>2, <1>4 DEF NotePause
    <2>2. /\ blocked' \in [Urls -> 0..MaxPause] /\ globalBlock' \in 0..MaxPause
          /\ refillAll' \in 0..MaxPause /\ refillAll' = globalBlock'
      BY <1>0, <1>3, <2>1
    <2>3. \A u \in Urls : Noted(u)'
      <3> SUFFICES ASSUME NEW u \in Urls, ~(refill[u] <= blocked[u]) PROVE Noted(u)'
        BY <1>0, <2>1 DEF Noted
      <3>1. PICK r \in Senders : pc[r] = "answered" /\ url[r] = u /\ ~answer[r].all
                                 /\ refill[u] <= answer[r].pause
        BY DEF IInv, PausesKept, Noted
      <3>2. r # s
        BY <1>1, <1>4, <3>1
      <3> QED BY <1>0, <3>1, <3>2 DEF Only, Noted
    <2>4. \A r \in Senders : SendIsClear(r)'
      BY <1>0 DEF IInv, PausesKept, SendIsClear, Only
    <2> QED BY <2>2, <2>3, <2>4 DEF PausesKept
  <1>5. CASE ~all
    <2>1. /\ blocked' = [blocked EXCEPT ![url[s]] = Longer(@, p)] /\ globalBlock' = globalBlock
          /\ refillAll' = refillAll
      BY <1>2, <1>5 DEF NotePause
    <2>2. /\ blocked' \in [Urls -> 0..MaxPause] /\ globalBlock' \in 0..MaxPause
          /\ refillAll' \in 0..MaxPause /\ refillAll' = globalBlock'
      BY <1>0, <1>3, <2>1
    <2>3. \A u \in Urls : Noted(u)'
      <3> SUFFICES ASSUME NEW u \in Urls PROVE Noted(u)'
        OBVIOUS
      <3>1. CASE refill[u] <= blocked[u]
        <4>1. blocked'[u] >= blocked[u]
          BY <1>0, <1>3, <2>1
        <4>2. refill'[u] <= blocked'[u]
          BY <1>0, <2>2, <3>1, <4>1
        <4> QED BY <4>2 DEF Noted
      <3>2. CASE ~(refill[u] <= blocked[u])
        <4>1. PICK r \in Senders : pc[r] = "answered" /\ url[r] = u /\ ~answer[r].all
                                   /\ refill[u] <= answer[r].pause
          BY <3>2 DEF IInv, PausesKept, Noted
        <4>2. CASE r = s
          <5>1. blocked'[u] >= p /\ refill[u] <= p
            BY <1>0, <1>1, <1>3, <2>1, <4>1, <4>2
          <5>2. refill'[u] <= blocked'[u]
            BY <1>0, <1>1, <2>2, <5>1
          <5> QED BY <5>2 DEF Noted
        <4>3. CASE r # s
          BY <1>0, <4>1, <4>3 DEF Only, Noted
        <4> QED BY <4>2, <4>3
      <3> QED BY <3>1, <3>2
    <2>4. \A r \in Senders : SendIsClear(r)'
      BY <1>0 DEF IInv, PausesKept, SendIsClear, Only
    <2> QED BY <2>2, <2>3, <2>4 DEF PausesKept
  <1> QED BY <1>1, <1>4, <1>5

\* Every way to go on after an answer.
LEMMA AnswerStep ==
    ASSUME IInv, NEW s \in Senders, OnLimited(s) \/ OnDone(s) \/ OnReadTimeout(s) \/ OnError(s)
    PROVE  IInv'
  <1>1. Note(s) /\ pc[s] = "answered"
    BY DEF OnLimited, OnDone, OnReadTimeout, OnError
  <1>2. /\ pc' \in [Senders -> PCs] /\ pc'[s] \in {"wait", "sleep", "finish"}
        /\ \A r \in Senders \ {s} : pc'[r] = pc[r]
    BY DEF OnLimited, OnDone, OnReadTimeout, OnError, Goto, IInv, Types, PCs
  <1>3. Only(s)
    BY <1>2 DEF OnLimited, OnDone, OnReadTimeout, OnError, Note, IInv, Types, Only
  <1>4. /\ blocked' \in [Urls -> 0..MaxPause] /\ globalBlock' \in 0..MaxPause
        /\ refillAll' \in 0..MaxPause
        /\ PausesKept'
    BY <1>1, <1>2, <1>3, NoteKeepsPauses
  <1>5. Types'
    <2>1. /\ rest' \in [Senders -> Nat] /\ tries' \in [Senders -> Nat]
          /\ limited' \in [Senders -> Nat]
      BY DEF OnLimited, OnDone, OnReadTimeout, OnError, Backoff, IInv, Types
    <2> QED BY <1>1, <1>2, <1>4, <2>1, NoAnswerTyped DEF Note, IInv, Types
  <1>6. SenderOK(s)'
    <2>1. CASE OnLimited(s)
      <3>1. /\ limited'[s] = limited[s] + 1 /\ tries' = tries /\ sends' = sends /\ age' = age
            /\ posted' = posted /\ answer[s].kind = "limited"
            /\ \/ pc'[s] = "finish"
               \/ pc'[s] = "wait" /\ limited[s] + 1 < MaxLimited /\ age[s] < MaxWait
        <4>1. pc'[s] = IF limited[s] + 1 >= MaxLimited \/ age[s] >= MaxWait THEN "finish" ELSE "wait"
          BY <2>1 DEF OnLimited, Goto, IInv, Types
        <4>2. limited[s] \in Nat /\ age[s] \in Nat
          BY DEF IInv, Types
        <4> QED BY <2>1, <4>1, <4>2, GateAssumption DEF OnLimited, Note, IInv, Types
      <3>2. InTime(s)'
        BY <3>1, GateAssumption DEF IInv, Types, SenderOK, InTime
      <3>3. Counted(s)'
        BY <1>1, <3>1, GateAssumption DEF IInv, Types, SenderOK, Counted, Holding, PCs
      <3>4. Posted(s)'
        BY <1>1, <3>1 DEF IInv, SenderOK, Posted
      <3> QED BY <3>2, <3>3, <3>4 DEF SenderOK
    <2>2. CASE OnDone(s) \/ OnReadTimeout(s)
      BY <2>2, GateAssumption
      DEF OnDone, OnReadTimeout, Note, Goto, IInv, Types, SenderOK, InTime, Counted, Posted, Holding, PCs
    <2>3. CASE OnError(s)
      <3>1. /\ tries'[s] = tries[s] + 1 /\ limited' = limited /\ sends' = sends /\ age' = age
            /\ posted' = posted /\ answer[s].kind = "error"
            /\ \/ pc'[s] = "finish"
               \/ /\ pc'[s] = "sleep" /\ tries[s] + 1 <= Retries
                  /\ age[s] + rest'[s] <= MaxWait
        <4>1. age[s] \in Nat /\ tries[s] \in Nat
          BY DEF IInv, Types
        <4>2. CASE tries[s] + 1 > Retries \/ TooLate(s, Backoff(tries[s] + 1))
          BY <2>3, <4>2 DEF OnError, Note, Goto, IInv, Types
        <4>3. CASE ~(tries[s] + 1 > Retries \/ TooLate(s, Backoff(tries[s] + 1)))
          <5>1. rest'[s] = tries[s] + 1 /\ age[s] + (tries[s] + 1) <= MaxWait /\ tries[s] + 1 <= Retries
            BY <2>3, <4>1, <4>3, GateAssumption DEF OnError, TooLate, Backoff, IInv, Types
          <5> QED BY <2>3, <4>3, <5>1 DEF OnError, Note, Goto, IInv, Types
        <4> QED BY <4>2, <4>3
      <3>2. InTime(s)'
        BY <3>1, GateAssumption DEF IInv, Types, SenderOK, InTime
      <3>3. Counted(s)'
        BY <1>1, <3>1, GateAssumption DEF IInv, Types, SenderOK, Counted, Holding, PCs
      <3>4. Posted(s)'
        BY <1>1, <3>1 DEF IInv, SenderOK, Posted
      <3> QED BY <3>2, <3>3, <3>4 DEF SenderOK
    <2> QED BY <2>1, <2>2, <2>3
  <1>7. /\ \A r \in Senders : Locked(r)'
        /\ WaitingIsExact'
    <2>1. UNCHANGED <<urlLock, url, waiting>>
      BY <1>1 DEF Note
    <2> QED BY <1>1, <1>2, <1>3, <2>1, LocksKeep, WaitingKeeps DEF Holding, PCs
  <1> QED BY <1>3, <1>4, <1>5, <1>6, <1>7, OthersKeep DEF IInv

\* The end of a request: the answer keeps what the server asks for until it is noted.
LEMMA RespondStep ==
    ASSUME IInv, NEW s \in Senders, NEW kind, NEW pause \in 0..MaxPause, NEW all \in BOOLEAN,
           kind \in {"done", "limited", "error", "readTimeout"}, Respond(s, kind, pause, all)
    PROVE  IInv'
  <1>0. /\ pc[s] = "posting" /\ pc[s] \in Holding /\ url[s] \in Urls /\ MaxPause \in Nat
        /\ ~posted[s]
    BY GateAssumption DEF Respond, Holding, PCs, IInv, Locked, SenderOK, Posted
  <1>1. /\ pc'[s] = "answered" /\ answer'[s].pause = pause /\ answer'[s].all = all
        /\ answer'[s].kind = kind
        /\ UNCHANGED <<urlLock, blocked, globalBlock, waiting, url, refillAll>>
    BY DEF Respond, Goto, IInv, Types, gate
  <1>2. Only(s)
    BY DEF Respond, Goto, IInv, Types, Only
  <1>3. refill' \in [Urls -> 0..MaxPause]
    BY <1>0, LongerIsOne DEF Respond, IInv, Types
  <1>4. Types'
    <2>1. answer' \in [Senders -> Answer]
      BY DEF Respond, IInv, Types, Answer
    <2>2. posted' \in [Senders -> BOOLEAN]
      BY DEF Respond, IInv, Types
    <2>3. pc' \in [Senders -> PCs] /\ rest' \in [Senders -> Nat]
      BY DEF Respond, Goto, IInv, Types, PCs
    <2> QED BY <1>3, <2>1, <2>2, <2>3 DEF Respond, gate, IInv, Types
  <1>5. SenderOK(s)'
    <2>1. InTime(s)' /\ Counted(s)'
      BY GateAssumption DEF Respond, Goto, IInv, Types, SenderOK, InTime, Counted, Holding, PCs
    <2>2. Posted(s)'
      <3>1. posted'[s] => kind \in {"done", "readTimeout"}
        BY <1>0 DEF Respond, IInv, Types
      <3> QED BY <1>1, <3>1 DEF Posted
    <2> QED BY <2>1, <2>2 DEF SenderOK
  <1>6. /\ \A r \in Senders : Locked(r)'
        /\ WaitingIsExact'
    BY <1>0, <1>1, <1>2, LocksKeep, WaitingKeeps DEF Holding, PCs
  <1>7. PausesKept'
    <2>1. \A u \in Urls \ {url[s]} : refill'[u] = refill[u]
      BY <1>0 DEF Respond, IInv, Types
    <2>2. \A u \in Urls : Noted(u)'
      <3> SUFFICES ASSUME NEW u \in Urls PROVE Noted(u)'
        OBVIOUS
      <3>1. CASE u = url[s]
        <4>1. refill[u] <= blocked[u]
          BY <1>0, <3>1, HolderNotes
        <4>2. refill' = IF all THEN refill ELSE [refill EXCEPT ![u] = Longer(@, pause)]
          BY <3>1 DEF Respond
        <4>3. CASE all
          <5>1. refill' = refill
            BY <4>2, <4>3, Zenon
          <5> QED BY <1>1, <4>1, <5>1 DEF Noted
        <4>4. CASE ~all
          <5>1. refill' = [refill EXCEPT ![u] = Longer(@, pause)] /\ ~answer'[s].all
            BY <1>1, <4>2, <4>4, Zenon
          <5>2. refill[u] \in 0..MaxPause /\ refill \in [Urls -> 0..MaxPause]
            BY DEF IInv, Types
          <5>3. Longer(refill[u], pause) = refill[u] \/ Longer(refill[u], pause) = pause
            BY <1>0, <5>2, LongerIsOne
          <5>4. refill'[u] <= blocked'[u] \/ refill'[u] <= answer'[s].pause
            BY <1>1, <4>1, <5>1, <5>2, <5>3
          <5> QED BY <1>1, <3>1, <5>1, <5>4 DEF Noted
        <4> QED BY <4>3, <4>4
      <3>2. CASE u # url[s] /\ refill[u] <= blocked[u]
        BY <1>1, <2>1, <3>2 DEF Noted
      <3>3. CASE u # url[s] /\ ~(refill[u] <= blocked[u])
        <4>1. PICK r \in Senders : pc[r] = "answered" /\ url[r] = u /\ ~answer[r].all
                                   /\ refill[u] <= answer[r].pause
          BY <3>3 DEF IInv, PausesKept, Noted
        <4> QED BY <1>0, <1>2, <2>1, <3>3, <4>1 DEF Only, Noted
      <3> QED BY <3>1, <3>2, <3>3
    <2>3. \A r \in Senders : SendIsClear(r)'
      <3> SUFFICES ASSUME NEW r \in Senders, pc'[r] = "send" PROVE refill'[url'[r]] = 0
        BY DEF SendIsClear
      <3>1. r # s /\ pc[r] = "send" /\ url'[r] = url[r] /\ pc[r] \in Holding
        BY <1>1, <1>2 DEF Only, Holding, PCs
      <3>2. url[r] \in Urls \ {url[s]}
        BY <1>0, <3>1, LocksExclude DEF IInv, Locked
      <3> QED BY <2>1, <3>1, <3>2 DEF IInv, PausesKept, SendIsClear
    <2> QED BY <1>1, <2>2, <2>3 DEF IInv, PausesKept
  <1> QED BY <1>2, <1>4, <1>5, <1>6, <1>7, OthersKeep DEF IInv

LEMMA NetworkStep ==
    ASSUME IInv, NEW s \in Senders, Network(s) PROVE IInv'
  <1>0. /\ 0 \in 0..MaxPause /\ \A p \in 1..MaxPause : p \in 0..MaxPause
        /\ FALSE \in BOOLEAN
    BY GateAssumption
  <1>1. ASSUME NEW kind \in {"done", "error"}, NEW pause \in 0..MaxPause,
               Respond(s, kind, pause, FALSE)
        PROVE  IInv'
    BY <1>0, <1>1, RespondStep
  <1>2. ASSUME NEW pause \in 1..MaxPause, NEW all \in BOOLEAN, Respond(s, "limited", pause, all)
        PROVE  IInv'
    BY <1>0, <1>2, RespondStep
  <1>3. CASE Respond(s, "readTimeout", 0, FALSE)
    BY <1>0, <1>3, RespondStep
  <1> QED BY <1>1, <1>2, <1>3 DEF Network

-----------------------------------------------------------------------------
(* Time *)

LEMMA TickStep ==
    ASSUME IInv, Tick PROVE IInv'
  <1>0. \A x \in Nat : Less(x) \in Nat /\ Less(x) <= x /\ (x > 0 => Less(x) = x - 1)
    BY DEF Less
  <1>1. \A x \in 0..MaxPause : Less(x) \in 0..MaxPause
    BY GateAssumption DEF Less
  <1>2. \A s \in Senders : age'[s] = IF pc[s] = "idle" THEN 0 ELSE age[s] + 1
    <2> SUFFICES ASSUME NEW s \in Senders
                 PROVE  age'[s] = IF pc[s] = "idle" THEN 0 ELSE age[s] + 1
      OBVIOUS
    <2>1. age[s] \in Nat /\ age[s] + 1 <= MaxAge /\ MaxAge \in Nat
      BY GateAssumption DEF IInv, Types, SenderOK, InTime, MaxAge
    <2>2. Min({age[s] + 1, MaxAge}) = age[s] + 1
      BY <2>1, MinIsOne
    <2> QED BY <2>2 DEF Tick
  <1>3. Types'
    <2>1. age' \in [Senders -> Nat]
      BY <1>2 DEF Tick, IInv, Types
    <2>2. rest' \in [Senders -> Nat]
      BY <1>0 DEF Tick, IInv, Types
    <2>3. /\ blocked' \in [Urls -> 0..MaxPause] /\ globalBlock' \in 0..MaxPause
          /\ refill' \in [Urls -> 0..MaxPause] /\ refillAll' \in 0..MaxPause
      BY <1>1 DEF Tick, IInv, Types
    <2> QED BY <2>1, <2>2, <2>3 DEF Tick, IInv, Types, locals
  <1>4. WaitingIsExact'
    BY DEF Tick, IInv, WaitingIsExact, Busy
  <1>5. ASSUME NEW s \in Senders PROVE Locked(s)' /\ SenderOK(s)'
    <2>1. Passive(s) /\ UNCHANGED <<pc, url, urlLock, tries, limited, sends, answer, posted>>
      BY DEF Tick, locals
    <2>2. Locked(s)' /\ Counted(s)' /\ Posted(s)'
      BY <2>1 DEF IInv, Locked, SenderOK, Counted, Posted
    <2>3. InTime(s)'
      <3>1. rest'[s] = Less(rest[s]) /\ rest[s] \in Nat /\ age[s] \in Nat
        BY DEF Tick, IInv, Types
      <3>2. rest[s] > 0 => rest'[s] = rest[s] - 1
        BY <1>0, <3>1
      <3> QED BY <1>2, <2>1, <3>1, <3>2, GateAssumption DEF Passive, IInv, SenderOK, InTime
    <2> QED BY <2>2, <2>3 DEF SenderOK
  <1>6. PausesKept'
    <2>1. \A s \in Senders : pc[s] # "answered" /\ pc[s] # "send"
      BY DEF Tick, Passive
    <2>2. \A u \in Urls : Noted(u)'
      <3> SUFFICES ASSUME NEW u \in Urls PROVE Noted(u)'
        OBVIOUS
      <3>1. refill[u] <= blocked[u]
        BY <2>1 DEF IInv, PausesKept, Noted
      <3>2. refill'[u] = Less(refill[u]) /\ blocked'[u] = Less(blocked[u])
        BY DEF Tick
      <3>3. Less(refill[u]) <= Less(blocked[u])
        BY <3>1, GateAssumption DEF Less, IInv, Types
      <3> QED BY <3>2, <3>3 DEF Noted
    <2>3. \A s \in Senders : SendIsClear(s)'
      BY <2>1 DEF Tick, SendIsClear
    <2> QED BY <2>2, <2>3 DEF Tick, IInv, PausesKept
  <1> QED BY <1>3, <1>4, <1>5, <1>6 DEF IInv

-----------------------------------------------------------------------------
(* The theorems *)

LEMMA NextInvariant == IInv /\ [Next]_vars => IInv'
  <1> SUFFICES ASSUME IInv, [Next]_vars PROVE IInv'
    OBVIOUS
  <1>1. CASE UNCHANGED vars
    BY <1>1
    DEF vars, gate, locals, history, IInv, Types, WaitingIsExact, Busy, Locked, SenderOK, InTime,
        Counted, Posted, PausesKept, Noted, SendIsClear
  <1>2. ASSUME NEW s \in Senders, Step(s) PROVE IInv'
    BY <1>2, AcquireStep, LockTimeoutStep, ClearStep, PauseStep, WakeStep, SendStep, AnswerStep,
       FinishStep DEF Step
  <1>3. ASSUME NEW s \in Senders, Network(s) PROVE IInv'
    BY <1>3, NetworkStep
  <1>4. ASSUME NEW s \in Senders, NEW u \in Urls, Call(s, u) PROVE IInv'
    BY <1>4, CallStep
  <1>5. CASE Tick
    BY <1>5, TickStep
  <1> QED BY <1>1, <1>2, <1>3, <1>4, <1>5 DEF Next

\* The inductive invariant holds in every reachable state: locks, ages, counts and
\* pauses agree with where each sender is in post.
THEOREM Invariance == Spec => []IInv
  BY InitInvariant, NextInvariant, PTL DEF Spec

\* Every variable has its type.  Among them: "waiting" counts the calls exactly, and
\* one call never sends more than MaxLimited + Retries requests, whatever mixture of
\* 429s, server errors and cut connections it meets.
THEOREM TypeCorrect == Spec => []TypeOK
  BY Invariance, InvariantTypes, PTL

\* No call outlasts max_wait_s by more than one request, however it is spent.
THEOREM BudgetKept == Spec => []WithinBudget
  BY Invariance, InvariantProperties, PTL

\* A message that was answered, or whose answer came too late, is never sent again.
THEOREM NobodyPingedTwice == Spec => []NeverPingTwice
  BY Invariance, InvariantProperties, PTL

\* No request starts while its webhook has to pause, counted from the moment the server
\* asked for it, and none leaves _wait_for during a global pause that was noted.
THEOREM PausesAreRespected == Spec => PausesRespected
  <1>1. IInv /\ [Next]_vars =>
            \A s \in Senders :
                /\ pc[s] = "send" /\ pc'[s] = "posting" => refill[url[s]] = 0
                /\ pc[s] = "wait" /\ pc'[s] = "send" => refillAll = 0
    <2> SUFFICES ASSUME IInv, [Next]_vars, NEW s \in Senders
                 PROVE  /\ pc[s] = "send" /\ pc'[s] = "posting" => refill[url[s]] = 0
                        /\ pc[s] = "wait" /\ pc'[s] = "send" => refillAll = 0
      OBVIOUS
    <2>1. pc[s] = "send" => refill[url[s]] = 0
      BY DEF IInv, PausesKept, SendIsClear
    <2>2. ASSUME pc[s] = "wait", pc'[s] = "send" PROVE refillAll = 0
      <3>1. Clear(s)
        BY <2>2
        DEF Next, vars, Step, Network, Call, Acquire, LockTimeout, Clear, Pause, Wake, Send, Finish,
            OnLimited, OnDone, OnReadTimeout, OnError, Respond, Tick, Goto, IInv, Types
      <3> QED BY <3>1, ClearStep
    <2> QED BY <2>1, <2>2
  <1> QED BY <1>1, Invariance, PTL DEF Spec, PausesRespected
=============================================================================
