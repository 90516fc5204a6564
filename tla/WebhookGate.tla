---------------------------- MODULE WebhookGate ----------------------------
(***************************************************************************)
(* The rate limit gate of src/webhook_gate.py through which every webhook  *)
(* message is posted.  Senders call post(url): they queue on the lock of   *)
(* the webhook, wait for its pause and for the global one, send, and       *)
(* depending on the answer wait, back off, or end.                         *)
(*                                                                         *)
(* Time is counted in ticks of two seconds, the unit of the back-off.  A   *)
(* pause, a sleep and a request are kept as the time they have left, and a *)
(* call as its age.  Steps of a thread take no time: Tick waits until      *)
(* every thread sleeps, waits for an answer, or waits for a lock it cannot *)
(* have.  In one instant the threads interleave in any order.              *)
(*                                                                         *)
(* Left out: the counters of the performance page other than "waiting",    *)
(* the notice to the user, the rewinding of attachments, channel_info.     *)
(***************************************************************************)
EXTENDS Integers, FiniteSets, FiniteSetsExt

CONSTANTS
    Senders,      \* the threads that call post
    Urls,         \* the webhooks
    MaxWait,      \* max_wait_s, in ticks
    SendTime,     \* bound: the longest a request takes (its time-outs), in ticks
    MaxPause,     \* bound: the longest pause a server asks for, in ticks
    Retries,      \* retries: how often an error is tried again
    MaxLimited,   \* how many 429 answers end a call: 5 in the code
    None          \* nobody

ASSUME GateAssumption ==
    /\ IsFiniteSet(Senders)
    /\ MaxWait \in Nat /\ SendTime \in Nat /\ MaxPause \in Nat
    /\ Retries \in Nat /\ MaxLimited \in Nat \ {0}
    /\ None \notin Senders \union Urls

VARIABLES
    urlLock,     \* _url_locks: the holder of each
    blocked,     \* _blocked_until, as the ticks left
    globalBlock, \* _global_until, as the ticks left
    waiting,     \* _stats['waiting']
    pc,          \* where each sender is
    url,         \* the webhook of its call
    age,         \* the ticks since its call
    rest,        \* the ticks it still sleeps, or its request may take
    tries,       \* its local tries
    limited,     \* its local limited
    sends,       \* its local sends
    answer,      \* the answer to its request: kind, pause, and if it is global
    refill,      \* history: the ticks left of what the servers asked for, per webhook
    refillAll,   \* history: the same for global pauses, once noted
    posted       \* history: the message may be posted, by a request that was not cut

locals == <<url, tries, limited, sends, answer>>
history == <<refill, refillAll, posted>>
gate == <<urlLock, blocked, globalBlock>>
vars == <<gate, waiting, pc, age, rest, locals, history>>

Answer == [kind: {"none", "done", "limited", "error", "readTimeout"},
           pause: 0..MaxPause, all: BOOLEAN]

NoAnswer == [kind |-> "none", pause |-> 0, all |-> FALSE]

Init ==
    /\ urlLock = [u \in Urls |-> None]
    /\ blocked = [u \in Urls |-> 0]
    /\ globalBlock = 0
    /\ waiting = 0
    /\ pc = [s \in Senders |-> "idle"]
    /\ url = [s \in Senders |-> None]
    /\ age = [s \in Senders |-> 0]
    /\ rest = [s \in Senders |-> 0]
    /\ tries = [s \in Senders |-> 0]
    /\ limited = [s \in Senders |-> 0]
    /\ sends = [s \in Senders |-> 0]
    /\ answer = [s \in Senders |-> NoAnswer]
    /\ refill = [u \in Urls |-> 0]
    /\ refillAll = 0
    /\ posted = [s \in Senders |-> FALSE]

Goto(s, l) == pc' = [pc EXCEPT ![s] = l]

Longer(x, y) == Max({x, y})

\* MUTANT of TooLate: the budget is counted from now.
TooLateFromNow(s, t) == t > MaxWait

\* time.monotonic() + t > deadline
TooLate(s, t) == age[s] + t > MaxWait

\* 2.0 * tries seconds; the cap of 8 s is never reached with two retries.
Backoff(n) == n

-----------------------------------------------------------------------------
(* post *)

\* The deadline is fixed, the lock of the webhook looked up, the call counted.
Call(s, u) ==
    /\ pc[s] = "idle"
    /\ Goto(s, "lock")
    /\ url' = [url EXCEPT ![s] = u]
    /\ age' = [age EXCEPT ![s] = 0]
    /\ waiting' = waiting + 1
    /\ UNCHANGED <<gate, rest, tries, limited, sends, answer, history>>

Acquire(s) ==
    /\ pc[s] = "lock"
    /\ urlLock[url[s]] = None
    /\ urlLock' = [urlLock EXCEPT ![url[s]] = s]
    /\ Goto(s, "wait")
    /\ UNCHANGED <<blocked, globalBlock, waiting, age, rest, locals, history>>

\* What a call leaves of its locals when it is over.
Forget(s) ==
    /\ url' = [url EXCEPT ![s] = None]
    /\ age' = [age EXCEPT ![s] = 0]
    /\ tries' = [tries EXCEPT ![s] = 0]
    /\ limited' = [limited EXCEPT ![s] = 0]
    /\ sends' = [sends EXCEPT ![s] = 0]
    /\ answer' = [answer EXCEPT ![s] = NoAnswer]
    /\ posted' = [posted EXCEPT ![s] = FALSE]

\* The budget was spent behind other senders: the call raises.
LockTimeout(s) ==
    /\ pc[s] = "lock"
    /\ urlLock[url[s]] # None
    /\ age[s] >= MaxWait
    /\ waiting' = waiting - 1
    /\ Goto(s, "idle")
    /\ Forget(s)
    /\ UNCHANGED <<gate, rest, refill, refillAll>>

Until(s) == Longer(blocked[url[s]], globalBlock)

\* _wait_for returns True.
Clear(s) ==
    /\ pc[s] = "wait"
    /\ Until(s) = 0
    /\ Goto(s, "send")
    /\ UNCHANGED <<gate, waiting, age, rest, locals, history>>

\* MUTANT of Pause: the deadline is not tested.
PauseForever(s) ==
    /\ pc[s] = "wait" /\ Until(s) > 0
    /\ Goto(s, "sleep") /\ rest' = [rest EXCEPT ![s] = Until(s)]
    /\ UNCHANGED <<gate, waiting, age, locals, history>>

\* _wait_for sleeps to the end of the pause, or returns False if that is too late.
Pause(s) ==
    /\ pc[s] = "wait"
    /\ Until(s) > 0
    /\ IF TooLate(s, Until(s))
       THEN Goto(s, "finish") /\ UNCHANGED rest
       ELSE Goto(s, "sleep") /\ rest' = [rest EXCEPT ![s] = Until(s)]
    /\ UNCHANGED <<gate, waiting, age, locals, history>>

\* The end of a sleep: _wait_for reads the pauses again.
Wake(s) ==
    /\ pc[s] = "sleep"
    /\ rest[s] = 0
    /\ Goto(s, "wait")
    /\ UNCHANGED <<gate, waiting, age, rest, locals, history>>

\* requests.post begins.
Send(s) ==
    /\ pc[s] = "send"
    /\ Goto(s, "posting")
    /\ sends' = [sends EXCEPT ![s] = @ + 1]
    /\ rest' = [rest EXCEPT ![s] = SendTime]
    /\ UNCHANGED <<gate, waiting, age, url, tries, limited, answer, history>>

\* MUTANT of NotePause: the last pause replaces a longer one.
NotePauseLast(u, p, all) ==
    IF all THEN globalBlock' = (IF p = 0 THEN globalBlock ELSE p) /\ UNCHANGED blocked
    ELSE blocked' = [blocked EXCEPT ![u] = IF p = 0 THEN @ ELSE p] /\ UNCHANGED globalBlock

\* _note: a pause is only ever made longer; the code caps it at 600 seconds.
NotePause(u, p, all) ==
    IF all
    THEN globalBlock' = Longer(globalBlock, p) /\ UNCHANGED blocked
    ELSE blocked' = [blocked EXCEPT ![u] = Longer(@, p)] /\ UNCHANGED globalBlock

\* The answer is noted; with no answer (an exception) there is no pause in it.
Note(s) ==
    /\ NotePause(url[s], answer[s].pause, answer[s].all)
    /\ refillAll' = IF answer[s].all THEN Longer(refillAll, answer[s].pause) ELSE refillAll
    /\ answer' = [answer EXCEPT ![s] = NoAnswer]
    /\ UNCHANGED <<urlLock, waiting, age, url, sends, refill, posted>>

\* A 429: wait and send again, unless it is the last one allowed or too late.
OnLimited(s) ==
    /\ pc[s] = "answered"
    /\ answer[s].kind = "limited"
    /\ Note(s)
    /\ limited' = [limited EXCEPT ![s] = @ + 1]
    /\ Goto(s, IF limited[s] + 1 >= MaxLimited \/ age[s] >= MaxWait THEN "finish" ELSE "wait")
    /\ UNCHANGED <<rest, tries>>

\* A 2xx or another 4xx is returned to the caller.
OnDone(s) ==
    /\ pc[s] = "answered"
    /\ answer[s].kind = "done"
    /\ Note(s)
    /\ Goto(s, "finish")
    /\ UNCHANGED <<rest, tries, limited>>

\* MUTANT of OnReadTimeout: it is sent again at once.
OnReadTimeoutResends(s) ==
    /\ pc[s] = "answered" /\ answer[s].kind = "readTimeout"
    /\ Note(s)
    /\ tries' = [tries EXCEPT ![s] = @ + 1]
    /\ Goto(s, IF tries[s] + 1 > Retries \/ age[s] >= MaxWait THEN "finish" ELSE "wait")
    /\ UNCHANGED <<rest, limited>>

\* A read timeout may have been posted: never sent again.
OnReadTimeout(s) ==
    /\ pc[s] = "answered"
    /\ answer[s].kind = "readTimeout"
    /\ Note(s)
    /\ Goto(s, "finish")
    /\ UNCHANGED <<rest, tries, limited>>

\* A 5xx or a network error: back off and try again while both tries and time last.
OnError(s) ==
    /\ pc[s] = "answered"
    /\ answer[s].kind = "error"
    /\ Note(s)
    /\ tries' = [tries EXCEPT ![s] = @ + 1]
    /\ IF tries[s] + 1 > Retries \/ TooLate(s, Backoff(tries[s] + 1))
       THEN Goto(s, "finish") /\ UNCHANGED rest
       ELSE Goto(s, "sleep") /\ rest' = [rest EXCEPT ![s] = Backoff(tries[s] + 1)]
    /\ UNCHANGED limited

\* The finally clause and the return or raise.
Finish(s) ==
    /\ pc[s] = "finish"
    /\ urlLock' = [urlLock EXCEPT ![url[s]] = None]
    /\ waiting' = waiting - 1
    /\ Goto(s, "idle")
    /\ Forget(s)
    /\ UNCHANGED <<blocked, globalBlock, rest, refill, refillAll>>

-----------------------------------------------------------------------------
(* The server and the network *)

\* The end of a request.  What the server asks for starts now.  A request that
\* was answered, or whose answer is late, is taken as posted; one that ends in
\* a network error is not, although the server may have seen it: nobody knows.
Respond(s, kind, pause, all) ==
    /\ pc[s] = "posting"
    /\ Goto(s, "answered")
    /\ answer' = [answer EXCEPT ![s] = [kind |-> kind, pause |-> pause, all |-> all]]
    /\ rest' = [rest EXCEPT ![s] = 0]
    /\ posted' = [posted EXCEPT ![s] = @ \/ kind \in {"done", "readTimeout"}]
    /\ refill' = IF all THEN refill
                 ELSE [refill EXCEPT ![url[s]] = Longer(@, pause)]
    /\ UNCHANGED <<gate, waiting, age, url, tries, limited, sends, refillAll>>

Network(s) ==
    \/ \E kind \in {"done", "error"}, pause \in 0..MaxPause : Respond(s, kind, pause, FALSE)
    \/ \E pause \in 1..MaxPause, all \in BOOLEAN : Respond(s, "limited", pause, all)
    \/ rest[s] = 0 /\ Respond(s, "readTimeout", 0, FALSE)

\* Bound: ages beyond the budget and one request are not told apart.
MaxAge == MaxWait + SendTime + 1

Less(x) == IF x = 0 THEN 0 ELSE x - 1

\* The sender has nothing to do at this instant.
Passive(s) ==
    \/ pc[s] = "idle"
    \/ pc[s] = "lock" /\ urlLock[url[s]] # None /\ age[s] < MaxWait
    \/ pc[s] \in {"sleep", "posting"} /\ rest[s] > 0

Tick ==
    /\ \A s \in Senders : Passive(s)
    /\ \/ \E s \in Senders : pc[s] # "idle"
       \/ globalBlock > 0
       \/ \E u \in Urls : blocked[u] > 0
    /\ age' = [s \in Senders |-> IF pc[s] = "idle" THEN 0 ELSE Min({age[s] + 1, MaxAge})]
    /\ rest' = [s \in Senders |-> Less(rest[s])]
    /\ blocked' = [u \in Urls |-> Less(blocked[u])]
    /\ globalBlock' = Less(globalBlock)
    /\ refill' = [u \in Urls |-> Less(refill[u])]
    /\ refillAll' = Less(refillAll)
    /\ UNCHANGED <<urlLock, waiting, pc, locals, posted>>

-----------------------------------------------------------------------------
Step(s) ==
    \/ Acquire(s) \/ LockTimeout(s) \/ Clear(s) \/ Pause(s) \/ Wake(s) \/ Send(s)
    \/ OnLimited(s) \/ OnDone(s) \/ OnReadTimeout(s) \/ OnError(s) \/ Finish(s)

Next ==
    \/ \E s \in Senders : Step(s) \/ Network(s) \/ \E u \in Urls : Call(s, u)
    \/ Tick

Spec == Init /\ [][Next]_vars

\* Threads go on, requests end (they have a time-out) and time passes: calls do
\* not follow each other for ever in one instant, hence SF of Tick.  A lock
\* goes to any of its waiters: nothing keeps one from losing it for ever but
\* its own time-out.
Fairness ==
    /\ \A s \in Senders : WF_vars(Step(s)) /\ WF_vars(Network(s))
    /\ SF_vars(Tick)

FairSpec == Spec /\ Fairness

-----------------------------------------------------------------------------
(* Properties *)

\* Every variable has its type; one call sends at most MaxLimited + Retries
\* requests, whatever mixture of 429s, errors and cut connections it meets.
TypeOK ==
    /\ urlLock \in [Urls -> Senders \union {None}]
    /\ blocked \in [Urls -> 0..MaxPause]
    /\ globalBlock \in 0..MaxPause
    /\ waiting \in 0..Cardinality(Senders)
    /\ pc \in [Senders -> {"idle", "lock", "wait", "sleep", "send", "posting", "answered", "finish"}]
    /\ url \in [Senders -> Urls \union {None}]
    /\ age \in [Senders -> 0..MaxAge]
    /\ rest \in [Senders -> Nat]
    /\ tries \in [Senders -> 0..Retries + 1]
    /\ limited \in [Senders -> 0..MaxLimited]
    /\ sends \in [Senders -> 0..MaxLimited + Retries]
    /\ answer \in [Senders -> Answer]
    /\ refill \in [Urls -> 0..MaxPause]
    /\ refillAll \in 0..MaxPause
    /\ posted \in [Senders -> BOOLEAN]

\* A request starts only when the pause its webhook was last asked for is
\* over, from the moment the answer came and not only from when it was noted:
\* the lock keeps other senders of the webhook out until then.  And it leaves
\* _wait_for only when every global pause noted so far is over.
PausesRespected ==
    [][\A s \in Senders :
          /\ pc[s] = "send" /\ pc'[s] = "posting" => refill[url[s]] = 0
          /\ pc[s] = "wait" /\ pc'[s] = "send" => refillAll = 0]_vars

\* No call outlasts its budget by more than one request, whether it is spent
\* behind other senders, in pauses, or in back-offs.
WithinBudget == \A s \in Senders : age[s] <= MaxWait + SendTime

\* "A resend would ping everyone twice": a message that may be posted is never
\* sent again.  (One whose connection was cut is: the code takes it as unsent.)
NeverPingTwice == \A s \in Senders : posted[s] => pc[s] \in {"answered", "finish"}

\* Every call of post returns or raises, although the lock of its webhook may
\* always go to somebody else.
CallEnds == \A s \in Senders : (pc[s] # "idle") ~> (pc[s] = "idle")
=============================================================================
