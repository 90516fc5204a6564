------------------------ MODULE LaunchPacing_proofs ------------------------
(***************************************************************************)
(* Proofs about LaunchPacing, for any accounts, delays, failsafe, length   *)
(* of a drain and number of manual launches, with the gate or without:     *)
(* its types, the conservation of manual launches, and the spacing after a *)
(* launch that succeeded.                                                  *)
(*                                                                         *)
(* The timer of the code (sinceLaunch) is reset at a reservation, a        *)
(* success and some failures, so it never runs ahead of the time since the *)
(* last success (Behind): a slot that is free by the timer is free by the  *)
(* successes of either thread.                                             *)
(***************************************************************************)
EXTENDS LaunchPacing, TLAPS

\* The timer of the code is not ahead of the last success.
Behind == sinceLaunch <= sinceSuccess

LEMMA HorizonCovers ==
    /\ Horizon \in Nat
    /\ boot \in BOOLEAN => Delay \in 0..Horizon
  BY PacingAssumption DEF Horizon, Delay

\* What the parts of a sequence contribute to a count of launches.
LEMMA SeqCounts ==
    ASSUME NEW S
    PROVE  /\ <<>> \in Seq(S) /\ Len(<<>>) = 0
           /\ \A s \in Seq(S) : Len(s) \in Nat
           /\ \A s, t \in Seq(S) : s \o t \in Seq(S) /\ Len(s \o t) = Len(s) + Len(t)
           /\ \A s \in Seq(S), x \in S : Append(s, x) \in Seq(S) /\ Len(Append(s, x)) = Len(s) + 1
           /\ \A s \in Seq(S) : s # <<>> =>
                Head(s) \in S /\ Tail(s) \in Seq(S) /\ Len(Tail(s)) = Len(s) - 1
  OBVIOUS

-----------------------------------------------------------------------------
(* Types *)

LEMMA InitTypes == Init => TypeOK
  <1> SUFFICES ASSUME Init PROVE TypeOK
    OBVIOUS
  <1>1. Horizon \in Nat /\ None \in Accounts \union {None}
    BY HorizonCovers
  <1>2. gate \in Gates
    BY <1>1 DEF Init, Gates, NoGate
  <1>3. instances \in [Accounts -> Nat] /\ needs \in [Accounts -> BOOLEAN]
    <2>1. instances \in [Accounts -> IF boot THEN {0} ELSE {0, 1}]
          /\ needs \in [Accounts -> IF boot THEN {FALSE} ELSE BOOLEAN]
      BY DEF Init
    <2>2. PICK I, N : /\ I = IF boot THEN {0} ELSE {0, 1}
                      /\ N = IF boot THEN {FALSE} ELSE BOOLEAN
      OBVIOUS
    <2>3. I \subseteq {0, 1}
      BY <2>2
    <2>4. N \subseteq BOOLEAN
      BY <2>2, Zenon
    <2>5. instances \in [Accounts -> I] /\ needs \in [Accounts -> N]
      BY <2>1, <2>2
    <2>6. instances \in [Accounts -> Nat]
      <3>1. \A i \in I : i \in Nat
        BY <2>3
      <3>2. I \subseteq Nat
        BY <3>1, Zenon
      <3> QED BY <2>5, <3>2, Zenon
    <2> QED BY <2>4, <2>5, <2>6
  <1>4. queue \in Seq(Accounts) /\ deferred \in Seq(Accounts)
    BY SeqCounts DEF Init
  <1>5. toDrain \in 0..MaxActions /\ submitted \in 0..MaxRequests
    BY PacingAssumption DEF Init
  <1>6. pc \in [Actors -> {"top", "drain", "manual", "kill", "start", "schedule",
                          "launching", "next", "delay", "gate", "reserve", "done"}]
    BY DEF Init, Actors
  <1>7. /\ runTime \in [Actors -> 0..Horizon] /\ job \in [Actors -> Accounts \union {None}]
        /\ sinceLaunch \in 0..Horizon /\ sinceSuccess \in 0..Horizon
    BY <1>1 DEF Init
  <1> QED BY <1>2, <1>3, <1>4, <1>5, <1>6, <1>7 DEF Init, TypeOK

\* What a launch that succeeded writes has its types.
LEMMA LaunchedTypes ==
    ASSUME TypeOK, NEW a \in Actors, NEW u \in Accounts \union {None}, NEW n,
           u \in Accounts => n \in Nat, Launched(a, u, n)
    PROVE  /\ instances' \in [Accounts -> Nat] /\ gate' \in Gates
           /\ needs' \in [Accounts -> BOOLEAN] /\ resting' \in [Accounts -> BOOLEAN]
           /\ sinceLaunch' \in 0..Horizon /\ sinceSuccess' \in 0..Horizon
  <1>1. Horizon \in Nat /\ Delay \in 0..Horizon /\ runTime[a] \in 0..Horizon
    BY HorizonCovers DEF TypeOK
  <1>2. gate' \in Gates
    BY <1>1 DEF Launched, Register, Gates, NoGate
  <1>3. instances' \in [Accounts -> Nat]
    BY PacingAssumption DEF TypeOK, Launched
  <1> QED BY <1>1, <1>2, <1>3 DEF TypeOK, Launched

LEMMA ClearedTypes ==
    ASSUME TypeOK, ClearGate PROVE gate' \in Gates
  BY HorizonCovers DEF TypeOK, ClearGate, Gates, NoGate

LEMMA RampTypes ==
    ASSUME TypeOK, NEW readerDown \in BOOLEAN, Ramp(readerDown) PROVE TypeOK'
  <1>0. Horizon \in Nat /\ Delay \in 0..Horizon
    BY HorizonCovers DEF TypeOK
  <1>1. CASE RampNext
    BY <1>1 DEF RampNext, TypeOK, Goto, Actors, accountVars, loopVars, listVars, clockVars, historyVars
  <1>2. CASE RampDelayReady
    BY <1>2 DEF RampDelayReady, TypeOK, Goto, Actors, accountVars, loopVars, listVars, clockVars, historyVars
  <1>3. CASE RampGateReady(readerDown)
    BY <1>3, ClearedTypes
    DEF RampGateReady, TypeOK, Goto, Actors, accountVars, loopVars, listVars, clockVars, historyVars
  <1>4. CASE RampReserve(readerDown)
    <2>1. gate' \in Gates
      BY <1>4, ClearedTypes DEF RampReserve, TypeOK
    <2>2. sinceLaunch' \in 0..Horizon
      BY <1>0, <1>4 DEF RampReserve, TypeOK
    <2>3. /\ job' \in [Actors -> Accounts \union {None}]
          /\ runTime' \in [Actors -> 0..Horizon]
          /\ pc' \in [Actors -> {"top", "drain", "manual", "kill", "start", "schedule",
                                "launching", "next", "delay", "gate", "reserve", "done"}]
      BY <1>0, <1>4 DEF RampReserve, StartAttempt, Goto, TypeOK, Actors
    <2> QED BY <1>4, <2>1, <2>2, <2>3 DEF RampReserve, TypeOK, accountVars, loopVars, listVars, historyVars
  <1>5. CASE RampEnd
    <2>0. PICK u, n : u = job["ramp"] /\ n = instances[u] + 1
      OBVIOUS
    <2>1. /\ instances' \in [Accounts -> Nat] /\ gate' \in Gates
          /\ needs' \in [Accounts -> BOOLEAN] /\ resting' \in [Accounts -> BOOLEAN]
          /\ sinceLaunch' \in 0..Horizon /\ sinceSuccess' \in 0..Horizon
      <3>1. "ramp" \in Actors /\ u \in Accounts \union {None} /\ (u \in Accounts => n \in Nat)
        BY <2>0 DEF TypeOK, Actors
      <3>2. CASE Launched("ramp", u, n)
        BY <3>1, <3>2, LaunchedTypes
      <3>3. CASE /\ needs' = [needs EXCEPT ![u] = TRUE]
                 /\ resting' = [resting EXCEPT ![u] = TRUE]
                 /\ sinceLaunch' = 0
                 /\ UNCHANGED <<instances, gate, sinceSuccess>>
        <4>1. needs' \in [Accounts -> BOOLEAN]
          BY <3>3 DEF TypeOK
        <4>2. resting' \in [Accounts -> BOOLEAN]
          BY <3>3 DEF TypeOK
        <4>3. instances' \in [Accounts -> Nat] /\ gate' \in Gates
          BY <3>3 DEF TypeOK
        <4>4. sinceLaunch' \in 0..Horizon /\ sinceSuccess' \in 0..Horizon
          BY <1>0, <3>3 DEF TypeOK
        <4> QED BY <4>1, <4>2, <4>3, <4>4
      <3> QED BY <1>5, <2>0, <3>2, <3>3 DEF RampEnd, Launched, Register
    <2>2. /\ job' \in [Actors -> Accounts \union {None}] /\ runTime' \in [Actors -> 0..Horizon]
          /\ pc' \in [Actors -> {"top", "drain", "manual", "kill", "start", "schedule",
                                "launching", "next", "delay", "gate", "reserve", "done"}]
      BY <1>0, <1>5 DEF RampEnd, Finish, Goto, TypeOK, Actors
    <2>3. overtaken' \in BOOLEAN /\ attempted' \in Nat /\ dropped' \in Nat
      BY <1>5 DEF RampEnd, Overtake, TypeOK
    <2> QED BY <1>5, <2>1, <2>2, <2>3 DEF RampEnd, TypeOK, loopVars, listVars
  <1>6. CASE RampDone
    BY <1>6 DEF RampDone, Overtake, TypeOK, Goto, Actors, accountVars, loopVars, listVars, clockVars
  <1> QED BY <1>1, <1>2, <1>3, <1>4, <1>5, <1>6 DEF Ramp

LEMMA DrainTypes ==
    ASSUME TypeOK, NEW readerDown \in BOOLEAN,
           LoopTop \/ DrainAction(readerDown) \/ DrainDone
    PROVE  TypeOK'
  <1>1. CASE LoopTop
    BY <1>1 DEF LoopTop, TypeOK, Goto, Actors, accountVars, loopVars, listVars, clockVars, historyVars
  <1>2. CASE DrainAction(readerDown)
    <2>1. gate' \in Gates
      BY <1>2, ClearedTypes DEF DrainAction, TypeOK
    <2>2. /\ queue' \in Seq(Accounts) /\ deferred' \in Seq(Accounts)
          /\ job' \in [Actors -> Accounts \union {None}]
      <3>1. /\ queue \in Seq(Accounts) /\ queue # <<>> /\ deferred \in Seq(Accounts)
            /\ job \in [Actors -> Accounts \union {None}]
        BY <1>2 DEF DrainAction, TypeOK
      <3>2. PICK x, t : x = Head(queue) /\ t = Tail(queue) /\ x \in Accounts /\ t \in Seq(Accounts)
        BY <3>1, SeqCounts
      <3>3. Append(deferred, x) \in Seq(Accounts)
        BY <3>1, <3>2, SeqCounts
      <3>4. /\ queue' = t
            /\ deferred' = deferred \/ deferred' = Append(deferred, x)
            /\ job' = job \/ job' = [job EXCEPT !["worker"] = x]
        BY <1>2, <3>2 DEF DrainAction
      <3> QED BY <3>1, <3>2, <3>3, <3>4 DEF Actors
    <2>3. toDrain' \in 0..MaxActions
      BY <1>2, PacingAssumption DEF DrainAction, TypeOK
    <2>4. pc' \in [Actors -> {"top", "drain", "manual", "kill", "start", "schedule",
                                "launching", "next", "delay", "gate", "reserve", "done"}]
      BY <1>2 DEF DrainAction, Goto, TypeOK, Actors
    <2> QED BY <1>2, <2>1, <2>2, <2>3, <2>4 DEF DrainAction, TypeOK, accountVars, clockVars, historyVars
  <1>3. CASE DrainDone
    <2>1. queue' \in Seq(Accounts) /\ deferred' \in Seq(Accounts)
      BY <1>3, SeqCounts DEF DrainDone, TypeOK
    <2>2. toDrain' \in 0..MaxActions
      BY <1>3, PacingAssumption DEF DrainDone
    <2>3. pc' \in [Actors -> {"top", "drain", "manual", "kill", "start", "schedule",
                                "launching", "next", "delay", "gate", "reserve", "done"}]
      BY <1>3 DEF DrainDone, Goto, TypeOK, Actors
    <2> QED BY <1>3, <2>1, <2>2, <2>3 DEF DrainDone, TypeOK, accountVars, clockVars, historyVars
  <1> QED BY <1>1, <1>2, <1>3

LEMMA ManualTypes ==
    ASSUME TypeOK, NEW readerDown \in BOOLEAN,
           ManualTest(readerDown) \/ ManualKill \/ ManualStart \/ ManualEnd
    PROVE  TypeOK'
  <1>0. Horizon \in Nat /\ Delay \in 0..Horizon
    BY HorizonCovers DEF TypeOK
  <1>1. CASE ManualTest(readerDown)
    <2>1. gate' \in Gates
      BY <1>1, ClearedTypes DEF ManualTest, TypeOK
    <2>2. /\ dropped' \in Nat /\ job' \in [Actors -> Accounts \union {None}]
          /\ pc' \in [Actors -> {"top", "drain", "manual", "kill", "start", "schedule",
                                "launching", "next", "delay", "gate", "reserve", "done"}]
      BY <1>1 DEF ManualTest, Goto, TypeOK, Actors
    <2> QED BY <1>1, <2>1, <2>2 DEF ManualTest, TypeOK, accountVars, loopVars, listVars, clockVars
  <1>3. CASE ManualKill
    <2>1. PICK u, left : /\ u = job["worker"] /\ left \in {0, instances[u] \div 2}
                         /\ instances' = [instances EXCEPT ![u] = left]
      BY <1>3 DEF ManualKill
    <2>2. instances' \in [Accounts -> Nat]
      <3>1. ASSUME u \in Accounts PROVE left \in Nat
        BY <2>1, <3>1 DEF TypeOK
      <3> QED BY <2>1, <3>1 DEF TypeOK
    <2>3. pc' \in [Actors -> {"top", "drain", "manual", "kill", "start", "schedule",
                              "launching", "next", "delay", "gate", "reserve", "done"}]
      BY <1>3 DEF ManualKill, Goto, TypeOK, Actors
    <2> QED BY <1>3, <2>2, <2>3 DEF ManualKill, TypeOK, loopVars, listVars, clockVars, historyVars
  <1>4. CASE ManualStart
    <2>1. /\ job' \in [Actors -> Accounts \union {None}]
          /\ runTime' \in [Actors -> 0..Horizon]
          /\ pc' \in [Actors -> {"top", "drain", "manual", "kill", "start", "schedule",
                                "launching", "next", "delay", "gate", "reserve", "done"}]
      BY <1>0, <1>4 DEF ManualStart, StartAttempt, Goto, TypeOK, Actors
    <2>2. attempted' \in Nat /\ dropped' \in Nat
      BY <1>4 DEF ManualStart, TypeOK
    <2>4. overtaken' \in BOOLEAN
      BY <1>4, Zenon DEF ManualStart
    <2>3. path' \in {"manual", "scheduled"}
      BY <1>4 DEF ManualStart
    <2> QED BY <1>4, <2>1, <2>2, <2>3, <2>4 DEF ManualStart, TypeOK, accountVars, loopVars, listVars, clockVars
  <1>2. CASE ManualEnd
    <2>1. PICK u, n : u = job["worker"] /\ n = instances[u] + 1
      OBVIOUS
    <2>2. "worker" \in Actors /\ u \in Accounts \union {None} /\ (u \in Accounts => n \in Nat)
      BY <2>1 DEF TypeOK, Actors
    <2>3. \/ Launched("worker", u, n)
          \/ UNCHANGED <<instances, needs, resting, sinceLaunch, sinceSuccess, gate>>
      BY <1>2, <2>1 DEF ManualEnd, Launched, Register
    <2>4. /\ instances' \in [Accounts -> Nat] /\ gate' \in Gates
          /\ needs' \in [Accounts -> BOOLEAN] /\ resting' \in [Accounts -> BOOLEAN]
          /\ sinceLaunch' \in 0..Horizon /\ sinceSuccess' \in 0..Horizon
      <3>1. CASE Launched("worker", u, n)
        BY <2>2, <3>1, LaunchedTypes
      <3>2. CASE UNCHANGED <<instances, needs, resting, sinceLaunch, sinceSuccess, gate>>
        BY <3>2 DEF TypeOK
      <3> QED BY <2>3, <3>1, <3>2
    <2>5. /\ job' \in [Actors -> Accounts \union {None}] /\ runTime' \in [Actors -> 0..Horizon]
          /\ pc' \in [Actors -> {"top", "drain", "manual", "kill", "start", "schedule",
                                "launching", "next", "delay", "gate", "reserve", "done"}]
      BY <1>0, <1>2 DEF ManualEnd, Finish, Goto, TypeOK, Actors
    <2> QED BY <1>2, <2>4, <2>5 DEF ManualEnd, TypeOK, loopVars, listVars, historyVars
  <1> QED BY <1>1, <1>2, <1>3, <1>4

LEMMA ScheduleTypes ==
    ASSUME TypeOK, NEW readerDown \in BOOLEAN, NEW v \in Accounts,
           \/ Heartbeat(v) \/ ScheduleConflict(v) \/ ScheduleStart(v, readerDown)
           \/ ScheduleNone \/ ScheduleEnd
    PROVE  TypeOK'
  <1>0. Horizon \in Nat /\ Delay \in 0..Horizon
    BY HorizonCovers DEF TypeOK
  <1>1. CASE Heartbeat(v)
    <2>1. needs' \in [Accounts -> BOOLEAN]
      BY <1>1 DEF Heartbeat, TypeOK
    <2> QED BY <1>1, <2>1 DEF Heartbeat, TypeOK, loopVars, listVars, clockVars, historyVars
  <1>2. CASE ScheduleConflict(v)
    <2>1. resting' \in [Accounts -> BOOLEAN]
      BY <1>2 DEF ScheduleConflict, TypeOK
    <2> QED BY <1>2, <2>1 DEF ScheduleConflict, TypeOK, listVars, clockVars, historyVars
  <1>3. CASE ScheduleStart(v, readerDown)
    <2>1. gate' \in Gates
      BY <1>3, ClearedTypes DEF ScheduleStart, TypeOK
    <2>2. sinceLaunch' \in 0..Horizon
      BY <1>0, <1>3 DEF ScheduleStart, TypeOK
    <2>3. /\ job' \in [Actors -> Accounts \union {None}] /\ path' \in {"manual", "scheduled"}
          /\ runTime' \in [Actors -> 0..Horizon]
          /\ pc' \in [Actors -> {"top", "drain", "manual", "kill", "start", "schedule",
                                "launching", "next", "delay", "gate", "reserve", "done"}]
      BY <1>0, <1>3 DEF ScheduleStart, StartAttempt, Goto, TypeOK, Actors
    <2> QED BY <1>3, <2>1, <2>2, <2>3 DEF ScheduleStart, TypeOK, accountVars, loopVars, listVars, historyVars
  <1>4. CASE ScheduleNone
    BY <1>4 DEF ScheduleNone, TypeOK, Goto, Actors, accountVars, loopVars, listVars, clockVars, historyVars
  <1>5. CASE ScheduleEnd
    <2>1. PICK u : u = job["worker"]
      OBVIOUS
    <2>2. "worker" \in Actors /\ u \in Accounts \union {None} /\ (u \in Accounts => 1 \in Nat)
      BY <2>1 DEF TypeOK, Actors
    <2>3. \/ Launched("worker", u, 1)
          \/ /\ resting' = [resting EXCEPT ![u] = TRUE]
             /\ UNCHANGED <<instances, needs, sinceLaunch, sinceSuccess, gate>>
      BY <1>5, <2>1 DEF ScheduleEnd, Launched, Register
    <2>4. /\ instances' \in [Accounts -> Nat] /\ gate' \in Gates
          /\ needs' \in [Accounts -> BOOLEAN] /\ resting' \in [Accounts -> BOOLEAN]
          /\ sinceLaunch' \in 0..Horizon /\ sinceSuccess' \in 0..Horizon
      <3>1. CASE Launched("worker", u, 1)
        BY <2>2, <3>1, LaunchedTypes
      <3>2. CASE /\ resting' = [resting EXCEPT ![u] = TRUE]
                 /\ UNCHANGED <<instances, needs, sinceLaunch, sinceSuccess, gate>>
        <4>1. resting' \in [Accounts -> BOOLEAN]
          BY <3>2 DEF TypeOK
        <4> QED BY <3>2, <4>1 DEF TypeOK
      <3> QED BY <2>3, <3>1, <3>2
    <2>5. /\ job' \in [Actors -> Accounts \union {None}] /\ runTime' \in [Actors -> 0..Horizon]
          /\ pc' \in [Actors -> {"top", "drain", "manual", "kill", "start", "schedule",
                                "launching", "next", "delay", "gate", "reserve", "done"}]
      BY <1>0, <1>5 DEF ScheduleEnd, Finish, Goto, TypeOK, Actors
    <2> QED BY <1>5, <2>4, <2>5 DEF ScheduleEnd, TypeOK, loopVars, listVars, historyVars
  <1> QED BY <1>1, <1>2, <1>3, <1>4, <1>5

LEMMA EnvironmentTypes ==
    ASSUME TypeOK, Environment PROVE TypeOK'
  <1>0. Horizon \in Nat /\ \A n \in 0..Horizon : Later(n) \in 0..Horizon
    BY HorizonCovers DEF Later
  <1>1. CASE LogConfirmed
    <2>1. gate' \in Gates
      BY <1>1 DEF LogConfirmed, TypeOK, Gates
    <2> QED BY <1>1, <2>1 DEF LogConfirmed, TypeOK, accountVars, loopVars, listVars, clockVars, historyVars
  <1>2. CASE Tick
    <2>1. gate' \in Gates
      BY <1>0, <1>2 DEF Tick, TypeOK, Gates
    <2>2. /\ sinceLaunch' \in 0..Horizon /\ sinceSuccess' \in 0..Horizon
          /\ runTime' \in [Actors -> 0..Horizon]
      BY <1>0, <1>2 DEF Tick, TypeOK
    <2> QED BY <1>2, <2>1, <2>2 DEF Tick, TypeOK, accountVars, loopVars, listVars, historyVars
  <1>3. CASE Stop
    BY <1>3 DEF Stop, TypeOK, accountVars, loopVars, listVars, clockVars, historyVars
  <1>4. ASSUME NEW u \in Accounts, Submit(u) PROVE TypeOK'
    <2>1. queue' \in Seq(Accounts)
      BY <1>4, SeqCounts DEF Submit, TypeOK
    <2>2. submitted' \in 0..MaxRequests
      BY <1>4, PacingAssumption DEF Submit, TypeOK
    <2> QED BY <1>4, <2>1, <2>2 DEF Submit, TypeOK, accountVars, clockVars, historyVars
  <1>5. ASSUME NEW u \in Accounts, ProcessExits(u) PROVE TypeOK'
    <2>1. instances' \in [Accounts -> Nat]
      BY <1>5 DEF ProcessExits, Live, TypeOK
    <2> QED BY <1>5, <2>1 DEF ProcessExits, TypeOK, loopVars, listVars, clockVars, historyVars
  <1>6. ASSUME NEW u \in Accounts, SetFlag(u) PROVE TypeOK'
    <2>1. flagged' \in [Accounts -> BOOLEAN]
      BY <1>6 DEF SetFlag, TypeOK
    <2> QED BY <1>6, <2>1 DEF SetFlag, TypeOK, loopVars, listVars, clockVars, historyVars
  <1>7. ASSUME NEW u \in Accounts, TimerExpires(u) PROVE TypeOK'
    <2>1. resting' \in [Accounts -> BOOLEAN]
      BY <1>7 DEF TimerExpires, TypeOK
    <2> QED BY <1>7, <2>1 DEF TimerExpires, TypeOK, loopVars, listVars, clockVars, historyVars
  <1> QED BY <1>1, <1>2, <1>3, <1>4, <1>5, <1>6, <1>7 DEF Environment

LEMMA NextTypes == TypeOK /\ [Next]_vars => TypeOK'
  <1> SUFFICES ASSUME TypeOK, [Next]_vars PROVE TypeOK'
    OBVIOUS
  <1>1. CASE UNCHANGED vars
    BY <1>1 DEF vars, TypeOK
  <1>2. ASSUME NEW readerDown \in BOOLEAN, Ramp(readerDown) PROVE TypeOK'
    BY <1>2, RampTypes
  <1>3. ASSUME NEW readerDown \in BOOLEAN, Worker(readerDown) PROVE TypeOK'
    <2>1. PICK v \in Accounts : TRUE
      BY PacingAssumption
    <2> QED BY <1>3, DrainTypes, ManualTypes, ScheduleTypes DEF Worker
  <1>4. CASE Environment
    BY <1>4, EnvironmentTypes
  <1> QED BY <1>1, <1>2, <1>3, <1>4 DEF Next

\* In every reachable state the variables of the launch pacing have their types:
\* the clocks stop at the horizon, and the two lists of manual launches hold accounts.
THEOREM TypeCorrect == Spec => []TypeOK
  BY InitTypes, NextTypes, PTL DEF Spec

-----------------------------------------------------------------------------
(* No manual launch is lost or run twice *)

\* The worker has taken a manual launch from the queue and not started it yet.
InHand == pc["worker"] \in {"manual", "kill", "start"}

\* A step that touches neither a list nor a count, nor a launch in hand.
LEMMA NothingMoves ==
    ASSUME RequestsConserved,
           UNCHANGED <<queue, deferred, submitted, attempted, dropped>>,
           InHand' <=> InHand
    PROVE  RequestsConserved'
  BY DEF RequestsConserved, InHand

LEMMA RampMovesNothing ==
    ASSUME TypeOK, RequestsConserved, NEW readerDown \in BOOLEAN, Ramp(readerDown)
    PROVE  RequestsConserved'
  <1>1. UNCHANGED <<queue, deferred, submitted, attempted, dropped>>
    BY DEF Ramp, RampNext, RampDelayReady, RampGateReady, RampReserve, RampEnd, RampDone,
           loopVars, listVars, historyVars
  <1>2. pc'["worker"] = pc["worker"]
    <2>1. \A l : "ramp" # "worker" /\ (Goto("ramp", l) => pc'["worker"] = pc["worker"])
      BY DEF Goto, TypeOK, Actors
    <2> QED
      BY <2>1 DEF Ramp, RampNext, RampDelayReady, RampGateReady, RampReserve, RampEnd,
                  RampDone, StartAttempt, Finish
  <1> QED BY <1>1, <1>2, NothingMoves DEF InHand

LEMMA DrainConserves ==
    ASSUME TypeOK, RequestsConserved, NEW readerDown \in BOOLEAN,
           DrainAction(readerDown) \/ DrainDone
    PROVE  RequestsConserved'
  <1>1. /\ queue \in Seq(Accounts) /\ deferred \in Seq(Accounts)
        /\ Len(queue) \in Nat /\ Len(deferred) \in Nat
        /\ attempted \in Nat /\ dropped \in Nat /\ submitted \in Int
    BY SeqCounts, PacingAssumption DEF TypeOK
  <1>2. /\ pc["worker"] = "drain"
        /\ submitted = Len(queue) + Len(deferred) + attempted + dropped
    <2>1. pc["worker"] = "drain"
      BY DEF DrainAction, DrainDone
    <2>2. submitted = Len(queue) + Len(deferred) + attempted + dropped
      BY <1>1, <2>1 DEF RequestsConserved
    <2> QED BY <2>1, <2>2
  <1>3. CASE DrainAction(readerDown)
    <2>1. PICK x, t : /\ x = Head(queue) /\ t = Tail(queue) /\ x \in Accounts
                      /\ Len(t) = Len(queue) - 1
      BY <1>1, <1>3, SeqCounts DEF DrainAction
    <2>2. UNCHANGED <<submitted, attempted, dropped>> /\ queue' = t
      BY <1>3, <2>1 DEF DrainAction, historyVars
    <2>3. CASE SlotReady(readerDown)
      <3>1. pc'["worker"] = "manual" /\ deferred' = deferred
        BY <1>3, <2>3 DEF DrainAction, Goto, TypeOK, Actors
      <3> QED BY <1>1, <1>2, <2>1, <2>2, <3>1 DEF RequestsConserved
    <2>4. CASE ~SlotReady(readerDown)
      <3>1. PICK d : d = Append(deferred, x) /\ Len(d) = Len(deferred) + 1
        BY <1>1, <2>1, SeqCounts
      <3>2. pc'["worker"] = "drain" /\ deferred' = d
        BY <1>2, <1>3, <2>1, <2>4, <3>1 DEF DrainAction
      <3>3. Len(queue') = Len(queue) - 1 /\ Len(deferred') = Len(deferred) + 1
        BY <2>1, <2>2, <3>1, <3>2
      <3>4. submitted' = Len(queue') + Len(deferred') + attempted' + dropped'
        BY <1>1, <1>2, <2>2, <3>3
      <3> QED BY <1>1, <3>2, <3>3, <3>4, <2>2 DEF RequestsConserved
    <2> QED BY <2>3, <2>4
  <1>4. CASE DrainDone
    <2>1. /\ Len(queue \o deferred) = Len(queue) + Len(deferred)
          /\ Len(<<>>) = 0
      BY <1>1, SeqCounts
    <2>2. /\ UNCHANGED <<submitted, attempted, dropped>>
          /\ Len(queue') = Len(queue) + Len(deferred) /\ Len(deferred') = 0
      BY <1>4, <2>1 DEF DrainDone, historyVars
    <2>3. pc'["worker"] = "schedule"
      BY <1>4 DEF DrainDone, Goto, TypeOK, Actors
    <2> QED BY <1>1, <1>2, <2>1, <2>2, <2>3 DEF RequestsConserved
  <1> QED BY <1>3, <1>4

LEMMA ManualConserves ==
    ASSUME TypeOK, RequestsConserved, NEW readerDown \in BOOLEAN,
           ManualTest(readerDown) \/ ManualKill \/ ManualStart
    PROVE  RequestsConserved'
  <1>1. /\ Len(queue) \in Nat /\ Len(deferred) \in Nat
        /\ attempted \in Nat /\ dropped \in Nat
    BY SeqCounts DEF TypeOK
  <1>2. submitted = Len(queue) + Len(deferred) + attempted + dropped + 1
    BY DEF ManualTest, ManualKill, ManualStart, RequestsConserved
  <1>3. UNCHANGED <<queue, deferred, submitted>>
    BY DEF ManualTest, ManualKill, ManualStart, loopVars, listVars
  <1>4. \/ InHand' /\ attempted' = attempted /\ dropped' = dropped
        \/ ~InHand' /\ attempted' = attempted + 1 /\ dropped' = dropped
        \/ ~InHand' /\ attempted' = attempted /\ dropped' = dropped + 1
    BY DEF ManualTest, ManualKill, ManualStart, StartAttempt, Goto, TypeOK, Actors, InHand,
           historyVars
  <1> QED BY <1>1, <1>2, <1>3, <1>4 DEF RequestsConserved, InHand

LEMMA WorkerMovesNothing ==
    ASSUME TypeOK, RequestsConserved, NEW readerDown \in BOOLEAN, NEW u \in Accounts,
           \/ LoopTop \/ ManualEnd \/ ScheduleNone \/ ScheduleEnd
           \/ Heartbeat(u) \/ ScheduleConflict(u) \/ ScheduleStart(u, readerDown)
    PROVE  RequestsConserved'
  <1>1. UNCHANGED <<queue, deferred, submitted, attempted, dropped>>
    BY DEF LoopTop, ManualEnd, ScheduleNone, ScheduleEnd, Heartbeat, ScheduleConflict,
           ScheduleStart, loopVars, listVars, historyVars
  <1>2. ~InHand
    BY DEF InHand, LoopTop, ManualEnd, ScheduleNone, ScheduleEnd, Heartbeat, ScheduleConflict,
           ScheduleStart
  <1>3. ~InHand'
    <2>1. \A l : Goto("worker", l) => pc'["worker"] = l
      BY DEF Goto, TypeOK, Actors
    <2>2. CASE Heartbeat(u) \/ ScheduleConflict(u)
      BY <1>2, <2>2 DEF Heartbeat, ScheduleConflict, InHand
    <2>3. CASE LoopTop \/ ManualEnd \/ ScheduleNone \/ ScheduleEnd
      BY <2>1, <2>3 DEF LoopTop, ManualEnd, ScheduleNone, ScheduleEnd, Finish, InHand
    <2>4. CASE ScheduleStart(u, readerDown)
      BY <2>1, <2>4 DEF ScheduleStart, StartAttempt, InHand
    <2> QED BY <2>2, <2>3, <2>4
  <1> QED BY <1>1, <1>2, <1>3, NothingMoves

LEMMA EnvironmentConserves ==
    ASSUME TypeOK, RequestsConserved, Environment PROVE RequestsConserved'
  <1>1. ASSUME NEW u \in Accounts, Submit(u) PROVE RequestsConserved'
    <2>1. /\ queue \in Seq(Accounts) /\ Len(queue) \in Nat /\ Len(deferred) \in Nat
          /\ attempted \in Nat /\ dropped \in Nat /\ submitted \in Int
      BY SeqCounts, PacingAssumption DEF TypeOK
    <2>2. Len(Append(queue, u)) = Len(queue) + 1
      BY <1>1, <2>1, SeqCounts
    <2>3. /\ submitted' = submitted + 1 /\ Len(queue') = Len(queue) + 1
          /\ UNCHANGED <<deferred, pc, attempted, dropped>>
      BY <1>1, <2>2 DEF Submit, historyVars
    <2> QED BY <2>1, <2>3 DEF RequestsConserved
  <1>2. CASE \/ LogConfirmed \/ Tick \/ Stop
             \/ \E u \in Accounts : ProcessExits(u) \/ SetFlag(u) \/ TimerExpires(u)
    <2>1. UNCHANGED <<queue, deferred, submitted, attempted, dropped, pc>>
      BY <1>2 DEF LogConfirmed, Tick, Stop, ProcessExits, SetFlag, TimerExpires,
                  loopVars, listVars, historyVars
    <2> QED BY <2>1, NothingMoves DEF InHand
  <1> QED BY <1>1, <1>2 DEF Environment

\* Every manual launch the window asked for is in one of the two lists, in the
\* worker's hand, was attempted or was turned down: _drain_action_queue loses none
\* and runs none twice, however its passes, the ramp and submit_action interleave.
THEOREM RequestsAreConserved == Spec => []RequestsConserved
  <1>1. Init => RequestsConserved
    BY SeqCounts DEF Init, RequestsConserved, Actors
  <1>2. TypeOK /\ RequestsConserved /\ [Next]_vars => RequestsConserved'
    <2> SUFFICES ASSUME TypeOK, RequestsConserved, [Next]_vars PROVE RequestsConserved'
      OBVIOUS
    <2>1. CASE UNCHANGED vars
      BY <2>1 DEF vars, RequestsConserved
    <2>2. ASSUME NEW readerDown \in BOOLEAN, Ramp(readerDown) PROVE RequestsConserved'
      BY <2>2, RampMovesNothing
    <2>3. ASSUME NEW readerDown \in BOOLEAN, Worker(readerDown) PROVE RequestsConserved'
      <3>1. PICK v \in Accounts : TRUE
        BY PacingAssumption
      <3> QED BY <2>3, DrainConserves, ManualConserves, WorkerMovesNothing DEF Worker
    <2>4. CASE Environment
      BY <2>4, EnvironmentConserves
    <2> QED BY <2>1, <2>2, <2>3, <2>4 DEF Next
  <1> QED BY <1>1, <1>2, TypeCorrect, PTL DEF Spec

-----------------------------------------------------------------------------
(* Two launches are spaced after a success *)

\* What each step does to the two clocks: nothing, both later by one tick, both to
\* zero, or only the timer of the code to zero.
ClockStep ==
    \/ UNCHANGED <<sinceLaunch, sinceSuccess>>
    \/ sinceLaunch' = Later(sinceLaunch) /\ sinceSuccess' = Later(sinceSuccess)
    \/ sinceLaunch' = 0 /\ sinceSuccess' \in {0, sinceSuccess}

LEMMA ClockStepBehind ==
    ASSUME TypeOK, Behind, ClockStep PROVE Behind'
  BY HorizonCovers DEF TypeOK, Behind, ClockStep, Later

LEMMA NextClockStep == ASSUME [Next]_vars PROVE ClockStep
  <1>1. CASE UNCHANGED vars
    BY <1>1 DEF vars, ClockStep
  <1>2. ASSUME NEW readerDown \in BOOLEAN, Ramp(readerDown) PROVE ClockStep
    BY <1>2 DEF Ramp, RampNext, RampDelayReady, RampGateReady, RampReserve, RampEnd,
                RampDone, Launched, clockVars, ClockStep
  <1>3. ASSUME NEW readerDown \in BOOLEAN, Worker(readerDown) PROVE ClockStep
    BY <1>3 DEF Worker, LoopTop, DrainAction, DrainDone, ManualTest, ManualKill, ManualStart,
                ManualEnd, ScheduleNone, ScheduleEnd, Heartbeat, ScheduleConflict, ScheduleStart,
                Launched, clockVars, ClockStep
  <1>4. CASE Environment
    BY <1>4 DEF Environment, LogConfirmed, Tick, Stop, Submit, ProcessExits, SetFlag,
                TimerExpires, clockVars, ClockStep
  <1> QED BY <1>1, <1>2, <1>3, <1>4 DEF Next

\* A manual launch that was let through and not overtaken since: the test still holds.
TestHolds ==
    pc["worker"] \in {"kill", "start"} => sinceSuccess >= Delay \/ overtaken

\* What each step does to the place of a thread.
LEMMA GotoMoves ==
    ASSUME TypeOK, NEW b \in Actors, NEW l, Goto(b, l)
    PROVE  pc'[b] = l /\ \A c \in Actors \ {b} : pc'[c] = pc[c]
  BY DEF Goto, TypeOK

\* The boot phase ends with the ramp and nowhere else; a launch of the ramp that
\* succeeds and its end are noted.
LEMMA RampNotes ==
    ASSUME TypeOK, NEW readerDown \in BOOLEAN, Ramp(readerDown)
    PROVE  /\ pc'["worker"] = pc["worker"]
           /\ Overtake \/ UNCHANGED <<boot, sinceSuccess, overtaken>>
           /\ Starts("ramp") => DelayReady
  <1>0. \A l : "ramp" # "worker" /\ (Goto("ramp", l) => pc'["ramp"] = l /\ pc'["worker"] = pc["worker"])
    BY GotoMoves DEF Actors
  <1>1. CASE RampNext
    BY <1>0, <1>1 DEF RampNext, Starts, clockVars, historyVars
  <1>2. CASE RampDelayReady \/ RampGateReady(readerDown)
    BY <1>0, <1>2 DEF RampDelayReady, RampGateReady, Starts, clockVars, historyVars
  <1>3. CASE RampReserve(readerDown)
    BY <1>0, <1>3 DEF RampReserve, SlotReady, StartAttempt, Starts, historyVars
  <1>4. CASE RampEnd
    BY <1>0, <1>4 DEF RampEnd, Finish, Starts
  <1>5. CASE RampDone
    BY <1>0, <1>5 DEF RampDone, Starts
  <1> QED BY <1>1, <1>2, <1>3, <1>4, <1>5 DEF Ramp

\* The worker leaves the boot phase alone; it begins a launch from a slot it has just
\* tested, or as the last of the three steps of a manual launch.
LEMMA WorkerNotes ==
    ASSUME TypeOK, NEW readerDown \in BOOLEAN, Worker(readerDown)
    PROVE  /\ pc'["ramp"] = pc["ramp"] /\ UNCHANGED boot
           /\ Starts("worker") => pc["worker"] = "start" \/ DelayReady
           /\ pc'["worker"] \in {"kill", "start"} =>
                /\ UNCHANGED <<sinceSuccess, overtaken>>
                /\ pc["worker"] \in {"kill", "start"} \/ DelayReady
  <1>0. \A l : "ramp" # "worker" /\ (Goto("worker", l) => pc'["worker"] = l /\ pc'["ramp"] = pc["ramp"])
    BY GotoMoves DEF Actors
  <1>1. CASE LoopTop \/ DrainAction(readerDown) \/ DrainDone
    <2>1. \/ UNCHANGED pc /\ pc["worker"] = "drain"
          \/ \E l \in {"drain", "done", "manual", "schedule"} : Goto("worker", l)
      BY <1>1 DEF LoopTop, DrainAction, DrainDone
    <2>2. pc'["ramp"] = pc["ramp"] /\ pc'["worker"] \in {"drain", "done", "manual", "schedule"}
      BY <1>0, <2>1
    <2> QED BY <1>1, <2>2 DEF LoopTop, DrainAction, DrainDone, Starts
  <1>2. CASE ManualTest(readerDown)
    BY <1>0, <1>2 DEF ManualTest, SlotReady, Starts, clockVars
  <1>3. CASE ManualKill \/ ManualStart
    BY <1>0, <1>3 DEF ManualKill, ManualStart, StartAttempt, Starts, clockVars, historyVars
  <1>4. CASE ManualEnd \/ ScheduleNone \/ ScheduleEnd
    BY <1>0, <1>4 DEF ManualEnd, ScheduleNone, ScheduleEnd, Finish, Starts
  <1>5. ASSUME NEW u \in Accounts, Heartbeat(u) \/ ScheduleConflict(u)
        PROVE  /\ pc' = pc /\ pc["worker"] = "schedule" /\ UNCHANGED boot
    BY <1>5 DEF Heartbeat, ScheduleConflict
  <1>6. ASSUME NEW u \in Accounts, ScheduleStart(u, readerDown)
        PROVE  /\ pc'["ramp"] = pc["ramp"] /\ pc'["worker"] \in {"launching", "top"}
               /\ UNCHANGED boot /\ (Starts("worker") => DelayReady)
    BY <1>0, <1>6 DEF ScheduleStart, SlotReady, StartAttempt, Starts
  <1> QED BY <1>1, <1>2, <1>3, <1>4, <1>5, <1>6 DEF Worker, Starts

\* The environment starts nothing; of the clocks it only advances time.
LEMMA EnvironmentNotes ==
    ASSUME Environment
    PROVE  /\ UNCHANGED <<pc, boot, overtaken>>
           /\ sinceSuccess' \in {sinceSuccess, Later(sinceSuccess)}
  BY DEF Environment, LogConfirmed, Tick, Stop, Submit, ProcessExits, SetFlag, TimerExpires,
         clockVars, historyVars

LEMMA TestHoldsOn ==
    ASSUME TypeOK, Behind, TestHolds, [Next]_vars PROVE TestHolds'
  <1>0. /\ Horizon \in Nat /\ Delay \in 0..Horizon
        /\ sinceSuccess \in 0..Horizon /\ sinceLaunch \in 0..Horizon
    BY HorizonCovers DEF TypeOK
  <1>1. CASE UNCHANGED vars
    BY <1>1 DEF vars, TestHolds, Delay
  <1>2. ASSUME NEW readerDown \in BOOLEAN, Ramp(readerDown) PROVE TestHolds'
    <2>1. CASE Overtake
      BY <1>2, <2>1, RampNotes DEF Overtake, TestHolds
    <2>2. CASE UNCHANGED <<boot, sinceSuccess, overtaken>>
      BY <1>2, <2>2, RampNotes DEF TestHolds, Delay
    <2> QED BY <1>2, <2>1, <2>2, RampNotes
  <1>3. ASSUME NEW readerDown \in BOOLEAN, Worker(readerDown) PROVE TestHolds'
    <2>1. DelayReady => sinceSuccess >= Delay
      BY <1>0 DEF DelayReady, Behind
    <2>2. Delay' = Delay
      BY <1>3, WorkerNotes DEF Delay
    <2> QED BY <1>3, <2>1, <2>2, WorkerNotes DEF TestHolds
  <1>4. CASE Environment
    <2>1. Delay' = Delay /\ UNCHANGED <<pc, overtaken>>
      BY <1>4, EnvironmentNotes DEF Delay
    <2>2. sinceSuccess' \in {sinceSuccess, Later(sinceSuccess)}
      BY <1>4, EnvironmentNotes
    <2>3. sinceSuccess >= Delay => sinceSuccess' >= Delay
      BY <1>0, <2>2 DEF Later
    <2> QED BY <2>1, <2>3 DEF TestHolds
  <1> QED BY <1>1, <1>2, <1>3, <1>4 DEF Next

\* A launch of the ramp, the queue or the scheduler is not attempted within the launch
\* delay of the last success of any of them, for every pair of delays, but for a manual
\* launch that was overtaken between its test of the slot and its start.  The timer the
\* tests read is never ahead of the last success (Behind), and what the test of a manual
\* launch found stays true until the ramp launches or ends (TestHolds).
THEOREM SuccessesAreSpaced == Spec => SuccessSpacesLaunches
  <1>1. Init => Behind /\ TestHolds
    BY HorizonCovers DEF Init, Behind, TestHolds, Actors
  <1>2. TypeOK /\ Behind /\ [Next]_vars => Behind'
    BY NextClockStep, ClockStepBehind
  <1>3. TypeOK /\ Behind /\ TestHolds /\ [Next]_vars => TestHolds'
    BY TestHoldsOn
  <1>4. TypeOK /\ Behind /\ TestHolds /\ [Next]_vars =>
            \A a \in Actors : Starts(a) => sinceSuccess >= Delay \/ (a = "worker" /\ overtaken)
    <2> SUFFICES ASSUME TypeOK, Behind, TestHolds, [Next]_vars, NEW a \in Actors, Starts(a)
                 PROVE  sinceSuccess >= Delay \/ (a = "worker" /\ overtaken)
      OBVIOUS
    <2>1. DelayReady => sinceSuccess >= Delay
      BY HorizonCovers DEF DelayReady, Behind, TypeOK
    <2>2. CASE UNCHANGED vars
      BY <2>2 DEF vars, Starts
    <2>3. ASSUME NEW readerDown \in BOOLEAN, Ramp(readerDown)
          PROVE  sinceSuccess >= Delay \/ (a = "worker" /\ overtaken)
      BY <2>1, <2>3, RampNotes DEF Starts, Actors
    <2>4. ASSUME NEW readerDown \in BOOLEAN, Worker(readerDown)
          PROVE  sinceSuccess >= Delay \/ (a = "worker" /\ overtaken)
      BY <2>1, <2>4, WorkerNotes DEF Starts, Actors, TestHolds
    <2>5. CASE Environment
      BY <2>5, EnvironmentNotes DEF Starts
    <2> QED BY <2>2, <2>3, <2>4, <2>5 DEF Next
  <1> QED BY <1>1, <1>2, <1>3, <1>4, TypeCorrect, PTL DEF Spec, SuccessSpacesLaunches
=============================================================================
