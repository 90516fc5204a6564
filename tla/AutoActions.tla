---------------------------- MODULE AutoActions ----------------------------
(***************************************************************************)
(* The Auto-Actions engine (src/auto_actions_automation.py): one thread    *)
(* visits the users, finds the action rows that are due in the window of   *)
(* each, and plays them as a batch under the action lock.  A second thread *)
(* (test_once) plays rows on demand.  OCR and merchant readers record      *)
(* trigger events, a kill step ends the process it plays on, the window    *)
(* comes and goes and is in the main menu at times, and the configuration  *)
(* is edited while all this runs.                                          *)
(*                                                                         *)
(* Time is relative: what is left of a cooldown and what has passed since  *)
(* the menu was left, both saturated, advanced by Tick.                    *)
(***************************************************************************)
EXTENDS Naturals, Sequences, FiniteSets, Functions

CONSTANTS
  Users,        \* the accounts of the configuration, in any order
  NRows,        \* the rows of the configuration, in its order
  EventRows,    \* rows with an OCR filter or merchant trigger
  OncePerPid,   \* rows with repeat_mode "once_per_pid"
  CountRows,    \* rows with repeat_mode "count": once per manager session
  KillRows,     \* rows whose step is kill_user (or disable_user)
  CallerRows,      \* rows whose step plays the row Callee ...
  Callee,       \* ... which has the trigger "action_row"
  Startup,      \* [Rows -> Nat]: seconds out of the menu before a row plays
  Cooldown,     \* [Rows -> Nat]
  TestRows,     \* the rows test_once is asked for
  EditedRows,   \* the rows whose settings are edited
  MaxPid, MaxSeq, MaxTests,   \* bounds: windows, trigger events, tests,
  MaxChanges    \* menu visits, edits, switches, sessions, refused pauses

Rows == 1 .. NRows

ASSUME RowsAssumption ==
  /\ Users # {} /\ NRows \in Nat \ {0}
  /\ EventRows \subseteq Rows /\ OncePerPid \subseteq Rows
  /\ CountRows \subseteq Rows \ OncePerPid /\ KillRows \subseteq Rows
  /\ CallerRows \subseteq Rows \ KillRows
  /\ Callee \in Rows \ (CallerRows \cup EventRows)
  /\ MaxPid \in Nat /\ MaxSeq \in Nat /\ MaxTests \in Nat /\ MaxChanges \in Nat
  /\ Startup \in [Rows -> Nat] /\ Cooldown \in [Rows -> Nat]
  /\ TestRows \in Seq(Rows) /\ EditedRows \subseteq Rows

VARIABLES
  pid,       \* user -> its Roblox process, 0 when there is none
  menu,      \* user -> the log says that it is in the main menu
  enabled,   \* the engine's switch in the configuration
  edits,     \* row -> edits so far; two settings of a row alternate
  out,       \* _not_in_menu_since, as [pid, t]; pid 0 when unset
  state,     \* user -> row -> what the engine remembers of the row
  event,     \* user -> the retained trigger event
  gen,       \* _sequence_cancel_generation
  blocked,   \* _kill_blocked_pid, 0 when unset
  eng,       \* the engine thread
  test,      \* the thread of test_once
  batch,     \* the rows that are played under _action_lock
  seqs, pids, tests, changes,    \* counters
  marked,    \* history: rows marked complete for this window or session
  fired,     \* history: user -> row -> the last event it was picked for;
             \* both without the rows that an evaluation forgot since
  killed     \* history: processes a kill was queued for

env  == <<pid, menu, enabled, edits, pids>>
work == <<eng, test, batch>>
mem  == <<out, state, event, gen, blocked, seqs>>
hist == <<marked, fired, killed>>
actionVars == <<env, work, mem, hist, tests, changes>>

NoSetting == 2
Setting(r) == edits[r] % 2

Blank == [ready |-> 0, consumed |-> 0, donePid |-> 0, done |-> FALSE,
          setting |-> NoSetting]
NoEvent == [seq |-> 0, pid |-> 0, for |-> {}]
Unset   == [pid |-> 0, t |-> 0]
NoBatch == [by |-> "none", u |-> CHOOSE u \in Users : TRUE, pid |-> 0,
            rest |-> <<>>, used |-> {}, row |-> 0, inner |-> 0, token |-> 0,
            asked |-> FALSE]
Idle    == [pc |-> "idle", u |-> CHOOSE u \in Users : TRUE, pid |-> 0]
AtTop   == [pc |-> "top", todo |-> {}, u |-> CHOOSE u \in Users : TRUE,
            pid |-> 0, rows |-> {}, due |-> {}, edits |-> [r \in Rows |-> 0]]

LongestStartup == CHOOSE n \in {Startup[r] : r \in Rows} :
                    \A r \in Rows : Startup[r] <= n

ActionsInit ==
  /\ pid = [u \in Users |-> 0] /\ pids = 0
  /\ menu = [u \in Users |-> TRUE]
  /\ enabled = TRUE
  /\ edits = [r \in Rows |-> 0]
  /\ out = [u \in Users |-> Unset]
  /\ state = [u \in Users |-> [r \in Rows |-> Blank]]
  /\ event = [u \in Users |-> NoEvent] /\ seqs = 0
  /\ gen = [u \in Users |-> 0] /\ blocked = [u \in Users |-> 0]
  /\ eng = AtTop /\ test = Idle /\ batch = NoBatch
  /\ tests = 0 /\ changes = 0
  /\ marked = [u \in Users |-> {}] /\ killed = {}
  /\ fired = [u \in Users |-> [r \in Rows |-> 0]]

(***************************************************************************)
(* The surroundings: windows, menus, the configuration, the readers.       *)
(***************************************************************************)
Change == changes < MaxChanges /\ changes' = changes + 1

\* A window opens in the main menu, as a process with a new identifier.
OpenWindow(u) ==
  /\ pid[u] = 0 /\ pids < MaxPid
  /\ pids' = pids + 1
  /\ pid' = [pid EXCEPT ![u] = pids + 1]
  /\ menu' = [menu EXCEPT ![u] = TRUE]
  /\ marked' = [marked EXCEPT ![u] = @ \ OncePerPid]
  /\ UNCHANGED <<enabled, edits, work, mem, fired, killed, tests, changes>>

\* The process ends by itself, or the window carries out a queued kill.
CloseWindow(u) ==
  /\ pid[u] # 0
  /\ pid' = [pid EXCEPT ![u] = 0]
  /\ UNCHANGED <<menu, enabled, edits, pids, work, mem, hist, tests, changes>>

LeaveMenu(u) ==
  /\ pid[u] # 0 /\ menu[u]
  /\ menu' = [menu EXCEPT ![u] = FALSE]
  /\ UNCHANGED <<pid, enabled, edits, pids, work, mem, hist, tests,
                 changes>>

EnterMenu(u) ==
  /\ pid[u] # 0 /\ ~menu[u]
  /\ Change
  /\ menu' = [menu EXCEPT ![u] = TRUE]
  /\ UNCHANGED <<pid, enabled, edits, pids, work, mem, hist, tests>>

\* update_config with another setting of a row, or with the switch turned.
EditRow(r) ==
  /\ Change
  /\ edits' = [edits EXCEPT ![r] = @ + 1]
  /\ UNCHANGED <<pid, menu, enabled, pids, work, mem, hist, tests>>

SwitchOff ==
  /\ enabled /\ Change
  /\ enabled' = FALSE
  /\ UNCHANGED <<pid, menu, edits, pids, work, mem, hist, tests>>

SwitchOn ==
  /\ ~enabled
  /\ enabled' = TRUE
  /\ UNCHANGED <<pid, menu, edits, pids, work, mem, hist, tests,
                 changes>>

\* A new manager session: reset_manager_startup_counts.
ResetStartupCounts ==
  /\ CountRows # {} /\ Change
  /\ state' = [u \in Users |-> [r \in Rows |-> [state[u][r] EXCEPT !.done = FALSE]]]
  /\ marked' = [u \in Users |-> marked[u] \ CountRows]
  /\ UNCHANGED <<env, work, out, event, gen, blocked, seqs, fired, killed, tests>>

\* record_ocr_filter_trigger and record_merchant_trigger: the event replaces
\* the retained one and names the settings of the rows that accept it now.
RecordTrigger(u) ==
  /\ pid[u] # 0 /\ enabled /\ seqs < MaxSeq
  /\ EventRows # {} /\ blocked[u] # pid[u]
  /\ seqs' = seqs + 1
  /\ event' = [event EXCEPT ![u] =
                 [seq |-> seqs + 1, pid |-> pid[u],
                  for |-> {<<r, Setting(r)>> : r \in EventRows}]]
  /\ UNCHANGED <<env, work, out, state, gen, blocked, hist, tests, changes>>

Tick ==
  /\ state' = [u \in Users |-> [r \in Rows |->
       [state[u][r] EXCEPT !.ready = IF @ = 0 THEN 0 ELSE @ - 1]]]
  /\ out' = [u \in Users |->
       IF out[u].pid # 0 /\ out[u].t < LongestStartup
         THEN [out[u] EXCEPT !.t = @ + 1] ELSE out[u]]
  /\ UNCHANGED <<env, work, event, gen, blocked, seqs, hist, tests, changes>>

\* Mutant: every reading restarts the timer.
GatedAnew(u, p) == IF menu[u] THEN Unset ELSE [pid |-> p, t |-> 0]

(***************************************************************************)
(* The menu gate.  A reading in the menu unsets the timer of the user; one *)
(* outside starts it, for this process, if it is not running.              *)
(***************************************************************************)
Gated(u, p) ==
  IF menu[u] THEN Unset
  ELSE IF out[u].pid = p THEN out[u] ELSE [pid |-> p, t |-> 0]

Allows(u, p, r) == ~menu[u] /\ Gated(u, p).t >= Startup[r]

\* May the row be played, as far as its cooldown and its repeats go?
Playable(s, r, p) ==
  /\ s.ready = 0
  /\ ~(r \in CountRows /\ s.done)
  /\ ~(r \in OncePerPid /\ s.donePid = p)

(***************************************************************************)
(* _evaluate_rules_for_user for the rows "rules" whose gate is open, with  *)
(* the settings the engine read at the top of its cycle.                   *)
(***************************************************************************)
CycleSetting(r) == eng.edits[r] % 2

\* _latest_trigger_event
Latest(u, p, r) ==
  IF event[u].pid = p /\ <<r, CycleSetting(r)>> \in event[u].for
    THEN event[u].seq ELSE 0

\* A row that is not among the rules is forgotten (_prune_state_for_user).
Pruned(u, p, rules, r) ==
  IF r \notin rules THEN Blank
  ELSE [state[u][r] EXCEPT !.donePid = IF @ = p THEN p ELSE 0]

\* Mutant: an edit forgets which event was consumed.
RefreshedBlank(u, p, r, s) ==
  IF s.setting = CycleSetting(r) THEN s
  ELSE [Blank EXCEPT !.setting = CycleSetting(r)]

\* A row with another setting starts afresh; an event of the setting before
\* must not look new to it.
Refreshed(u, p, r, s) ==
  IF s.setting = CycleSetting(r) THEN s
  ELSE [Blank EXCEPT
         !.setting  = CycleSetting(r),
         !.consumed = IF r \notin EventRows THEN 0
                      ELSE IF Latest(u, p, r) # 0 THEN s.consumed
                      ELSE IF s.consumed > seqs THEN s.consumed ELSE seqs]

Considered(u, p, rules, r) ==
  IF r \in rules THEN Refreshed(u, p, r, Pruned(u, p, rules, r))
                 ELSE Pruned(u, p, rules, r)

IsDue(u, p, rules, r) ==
  LET s == Considered(u, p, rules, r)
  IN  /\ r \in rules /\ r # Callee
      /\ Playable(s, r, p)
      /\ r \in EventRows => Latest(u, p, r) > s.consumed

Evaluated(u, p, rules) ==
  [r \in Rows |->
     LET s == Considered(u, p, rules, r)
     IN  IF r \in EventRows /\ IsDue(u, p, rules, r)
           THEN [s EXCEPT !.consumed = Latest(u, p, r)] ELSE s]

Due(u, p, rules) == {r \in rules : IsDue(u, p, rules, r)}

(***************************************************************************)
(* The engine's cycle (_run).                                              *)
(***************************************************************************)
Top ==
  /\ eng.pc = "top" /\ enabled
  /\ eng' = [eng EXCEPT !.pc = "users", !.todo = Users, !.edits = edits]
  /\ UNCHANGED <<env, test, batch, mem, hist, tests, changes>>

\* The end of the list, or the switch was turned off meanwhile.
EndCycle ==
  /\ eng.pc = "users" /\ (eng.todo = {} \/ ~enabled)
  /\ eng' = AtTop
  /\ UNCHANGED <<env, test, batch, mem, hist, tests, changes>>

\* The loop goes on to the next user.
NextUser == [AtTop EXCEPT !.pc = "users", !.todo = eng.todo, !.edits = eng.edits]

\* A user without a process, or with one that waits to be killed.
PassUser(u) ==
  /\ eng.pc = "users" /\ enabled /\ u \in eng.todo
  /\ pid[u] = 0 \/ blocked[u] = pid[u]
  /\ blocked' = [blocked EXCEPT ![u] = IF @ = pid[u] THEN @ ELSE 0]
  /\ eng' = [eng EXCEPT !.todo = @ \ {u}]
  /\ UNCHANGED <<env, test, batch, out, state, event, gen, seqs, hist, tests,
                 changes>>

\* The engine knows the row with another setting.
TakesOver(u, r) == state[u][r].setting \notin {NoSetting, CycleSetting(r)}

\* The history of the marks: what is left of them by an evaluation, which
\* forgets the rows whose gates were closed and the windows but that of p.
StillMarked(u, p, rules) ==
  {r \in marked[u] \cap rules : ~TakesOver(u, r) /\ (r \in OncePerPid => p = pid[u])}

\* The process of a user is looked up, and is used as such from here on.
VisitUser(u) ==
  /\ eng.pc = "users" /\ enabled /\ u \in eng.todo
  /\ pid[u] # 0 /\ blocked[u] # pid[u]
  /\ blocked' = [blocked EXCEPT ![u] = 0]
  /\ eng' = [eng EXCEPT !.pc = "menu", !.todo = @ \ {u}, !.u = u, !.pid = pid[u]]
  /\ UNCHANGED <<env, test, batch, out, state, event, gen, seqs, hist, tests,
                 changes>>

\* A first reading of the gate skips a user in the menu ...
ReadMenu ==
  /\ eng.pc = "menu"
  /\ out' = [out EXCEPT ![eng.u] = Gated(eng.u, eng.pid)]
  /\ eng' = IF menu[eng.u] THEN NextUser
            ELSE [eng EXCEPT !.pc = "gates", !.rows = Rows]
  /\ UNCHANGED <<env, test, batch, state, event, gen, blocked, seqs, hist,
                 tests, changes>>

\* ... and then every row has a reading of its own, of the menu and of the
\* clock: before the evaluation, and again after the pre-action hook and its
\* lead time.
ReadGate ==
  LET u == eng.u
      r == CHOOSE x \in eng.rows : \A y \in eng.rows : x <= y
  IN
  /\ eng.pc \in {"gates", "hook"} /\ eng.rows # {}
  /\ out' = [out EXCEPT ![u] = Gated(u, eng.pid)]
  /\ eng' = [eng EXCEPT !.rows = @ \ {r},
                        !.due = IF Allows(u, eng.pid, r) THEN @ \cup {r} ELSE @]
  /\ UNCHANGED <<env, test, batch, state, event, gen, blocked, seqs, hist,
                 tests, changes>>

\* No gate was open: nothing is evaluated, and nothing is forgotten.
NoRules ==
  /\ eng.pc = "gates" /\ eng.rows = {} /\ eng.due = {}
  /\ eng' = NextUser
  /\ UNCHANGED <<env, test, batch, mem, hist, tests, changes>>

\* The rows whose gates were open are evaluated, the others forgotten.
EvaluateRules ==
  LET u == eng.u
      p == eng.pid
      rules == eng.due
  IN
  /\ eng.pc = "gates" /\ eng.rows = {} /\ rules # {}
  /\ state' = [state EXCEPT ![u] = Evaluated(u, p, rules)]
  /\ eng' = IF Due(u, p, rules) = {} THEN NextUser
            ELSE [eng EXCEPT !.pc = "pause", !.due = Due(u, p, rules)]
  /\ fired' = [fired EXCEPT ![u] = [r \in Rows |->
       IF r \notin rules THEN 0
       ELSE IF r \in EventRows /\ IsDue(u, p, rules, r) THEN event[u].seq ELSE @[r]]]
  /\ marked' = [marked EXCEPT ![u] = StillMarked(u, p, rules)]
  /\ UNCHANGED <<env, test, batch, out, event, gen, blocked, seqs, killed,
                 tests, changes>>

\* Anti-AFK is paused for the rest of the cycle ...
PauseAntiAfk ==
  /\ eng.pc = "pause"
  /\ eng' = [eng EXCEPT !.pc = "hook", !.rows = eng.due, !.due = {}]
  /\ UNCHANGED <<env, test, batch, mem, hist, tests, changes>>

\* ... or it is due soon, or refuses: the cycle ends with this batch.
RefusePause ==
  /\ eng.pc = "pause" /\ Change
  /\ eng' = [NextUser EXCEPT !.todo = {}]
  /\ UNCHANGED <<env, test, batch, mem, hist, tests>>

\* The rows whose gates are still open are played.
Regate ==
  /\ eng.pc = "hook" /\ eng.rows = {}
  /\ eng' = IF eng.due = {} THEN NextUser ELSE [eng EXCEPT !.pc = "lock"]
  /\ UNCHANGED <<env, test, batch, mem, hist, tests, changes>>

\* The rows are played in the order of the configuration.
InOrder(rows) ==
  CHOOSE s \in [1 .. Cardinality(rows) -> rows] :
    \A i, j \in DOMAIN s : i < j => s[i] < s[j]

EngineLocks ==
  /\ eng.pc = "lock" /\ batch.by = "none"
  /\ eng' = [eng EXCEPT !.pc = "batch"]
  /\ batch' = [NoBatch EXCEPT !.by = "engine", !.u = eng.u, !.pid = eng.pid,
                              !.rest = InOrder(eng.due)]
  /\ UNCHANGED <<env, test, mem, hist, tests, changes>>

\* Mutant: the mark forgets the process.
UsedForget(s, r, p) ==
  [s EXCEPT !.ready = Cooldown[r], !.done = @ \/ r \in CountRows]

\* _mark_used for the rows of a finished batch.
Used(s, r, p) ==
  [s EXCEPT !.ready = Cooldown[r],
            !.done = @ \/ r \in CountRows,
            !.donePid = IF r \in OncePerPid THEN p ELSE @]

\* The history of the marks: a row that the engine knows is complete for the
\* session, or for the window of now; a batch that still plays on a former
\* process takes over the memory of the window.
MarkedBy(u, p, rows) ==
  (marked[u] \ {r \in rows \cap OncePerPid : p # pid[u]})
     \cup {r \in rows : /\ state[u][r].setting # NoSetting
                        /\ r \in CountRows \/ (r \in OncePerPid /\ p = pid[u])}

Mark ==
  LET u == eng.u IN
  /\ eng.pc = "mark"
  /\ state' = [state EXCEPT ![u] = [r \in Rows |->
                 IF r \in eng.due THEN Used(@[r], r, eng.pid) ELSE @[r]]]
  /\ marked' = [marked EXCEPT ![u] = MarkedBy(u, eng.pid, eng.due)]
  /\ eng' = NextUser
  /\ UNCHANGED <<env, test, batch, out, event, gen, blocked, seqs, fired, killed,
                 tests, changes>>

(***************************************************************************)
(* test_once: the target is resolved and its menu read first, then the     *)
(* thread waits for the action lock.                                       *)
(***************************************************************************)
TestOnce(u) ==
  /\ test.pc = "idle" /\ tests < MaxTests
  /\ pid[u] # 0 /\ ~menu[u]
  /\ tests' = tests + 1
  /\ test' = [pc |-> "lock", u |-> u, pid |-> pid[u]]
  /\ UNCHANGED <<env, eng, batch, mem, hist, changes>>

TestLocks ==
  /\ test.pc = "lock" /\ batch.by = "none"
  /\ test' = [test EXCEPT !.pc = "batch"]
  /\ batch' = [NoBatch EXCEPT !.by = "test", !.u = test.u, !.pid = test.pid,
                              !.rest = TestRows]
  /\ UNCHANGED <<env, eng, mem, hist, tests, changes>>

(***************************************************************************)
(* A batch under the lock (_run_rule_on_window for each row).              *)
(***************************************************************************)
Playing == batch.by # "none" /\ batch.row # 0
Current == IF batch.inner # 0 THEN batch.inner ELSE batch.row

\* The lock is given back: the engine goes on as "next", a test is over.
UnlockActions(next) ==
  /\ batch' = NoBatch
  /\ IF batch.by = "engine"
       THEN eng' = next /\ UNCHANGED test
       ELSE test' = Idle /\ UNCHANGED eng

\* _MenuGateBlocked is raised before a step: the whole batch is given up,
\* without a mark for the rows it has played.
Abort ==
  /\ batch.by # "none" /\ menu[batch.u]
  /\ batch.row # 0 \/ batch.rest # <<>>
  /\ ~batch.asked
  /\ UnlockActions(NextUser)
  /\ out' = [out EXCEPT ![batch.u] = Unset]
  /\ UNCHANGED <<env, state, event, gen, blocked, seqs, hist, tests, changes>>

StartRow ==
  /\ batch.by # "none" /\ batch.row = 0 /\ batch.rest # <<>>
  /\ ~menu[batch.u]
  /\ batch' = [batch EXCEPT !.row = Head(batch.rest), !.rest = Tail(@),
                            !.token = gen[batch.u]]
  /\ UNCHANGED <<env, eng, test, mem, hist, tests, changes>>

\* Mutant: the rest of a cancelled batch is played.
RowReturnsOn(g) ==
  LET u == batch.u
      r == batch.inner
  IN
  /\ batch' = [batch EXCEPT !.row = 0, !.inner = 0, !.asked = FALSE,
                            !.used = @ \cup {batch.row}]
  /\ state' = IF r = 0 THEN state
              ELSE [state EXCEPT ![u][r] = Used(@, r, batch.pid)]
  /\ marked' = IF r = 0 THEN marked
               ELSE [marked EXCEPT ![u] = MarkedBy(u, batch.pid, {r})]

\* The row, or the row it called, has returned: a changed generation
\* cancels the rows after it, and the called row is marked at once.
RowReturns(g) ==
  LET u == batch.u
      r == batch.inner
  IN
  /\ batch' = [batch EXCEPT !.row = 0, !.inner = 0, !.asked = FALSE,
                            !.used = @ \cup {batch.row},
                            !.rest = IF g # batch.token THEN <<>> ELSE @]
  /\ state' = IF r = 0 THEN state
              ELSE [state EXCEPT ![u][r] = Used(@, r, batch.pid)]
  /\ marked' = IF r = 0 THEN marked
               ELSE [marked EXCEPT ![u] = MarkedBy(u, batch.pid, {r})]

\* A row of input steps, called or not, has been played.
PlayInput ==
  /\ Playing /\ ~menu[batch.u]
  /\ Current \notin KillRows \cup CallerRows
  /\ RowReturns(gen[batch.u])
  /\ UNCHANGED <<env, eng, test, out, event, gen, blocked, seqs, fired, killed,
                 tests, changes>>

\* _kill_user_step and _disable_user_step: the user's events are dropped,
\* the generation moves, and the window is asked to end the process ...
KillStep ==
  LET u == batch.u IN
  /\ Playing /\ ~menu[u] /\ Current \in KillRows /\ ~batch.asked
  /\ event' = [event EXCEPT ![u] = NoEvent]
  /\ gen' = [gen EXCEPT ![u] = @ + 1]
  /\ batch' = [batch EXCEPT !.asked = TRUE]
  /\ killed' = killed \cup {batch.pid}
  /\ UNCHANGED <<env, eng, test, out, state, blocked, seqs, marked, fired,
                 tests, changes>>

\* ... and after the hand-off the process is blocked.
KillReturns ==
  /\ batch.asked
  /\ blocked' = [blocked EXCEPT ![batch.u] = batch.pid]
  /\ RowReturns(gen[batch.u])
  /\ UNCHANGED <<env, eng, test, out, event, gen, seqs, fired, killed, tests,
                 changes>>

\* _play_action_row_now: the called row has its own gates.
CallRow ==
  LET u == batch.u IN
  /\ Playing /\ ~menu[u] /\ Current \in CallerRows
  /\ out' = IF enabled THEN [out EXCEPT ![u] = Gated(u, batch.pid)] ELSE out
  /\ IF /\ enabled /\ Allows(u, batch.pid, Callee)
        /\ Playable(state[u][Callee], Callee, batch.pid)
       THEN batch' = [batch EXCEPT !.inner = Callee] /\ UNCHANGED <<state, marked>>
       ELSE RowReturns(gen[u])
  /\ UNCHANGED <<env, eng, test, event, gen, blocked, seqs, fired, killed,
                 tests, changes>>

FinishBatch ==
  /\ batch.by # "none" /\ batch.row = 0 /\ batch.rest = <<>>
  /\ UnlockActions([eng EXCEPT !.pc = "mark", !.due = @ \cap batch.used])
  /\ UNCHANGED <<env, mem, hist, tests, changes>>

-----------------------------------------------------------------------------
Surroundings ==
  \/ \E u \in Users : \/ OpenWindow(u) \/ CloseWindow(u) \/ LeaveMenu(u)
                      \/ EnterMenu(u) \/ RecordTrigger(u)
  \/ \E r \in EditedRows : EditRow(r)
  \/ SwitchOff \/ SwitchOn \/ ResetStartupCounts \/ Tick

Engine ==
  \/ Top \/ EndCycle \/ ReadMenu \/ ReadGate \/ NoRules \/ EvaluateRules
  \/ PauseAntiAfk \/ RefusePause \/ Regate \/ EngineLocks \/ Mark
  \/ \E u \in Users : PassUser(u) \/ VisitUser(u)

Batch ==
  \/ Abort \/ StartRow \/ PlayInput \/ KillStep \/ KillReturns \/ CallRow
  \/ FinishBatch

Tester == TestLocks \/ \E u \in Users : TestOnce(u)

ActionsNext == Surroundings \/ Engine \/ Batch \/ Tester

ActionsSpec == ActionsInit /\ [][ActionsNext]_actionVars

\* The threads run, a batch goes on once it has the lock, and time passes.
FairActionsSpec ==
  ActionsSpec /\ WF_actionVars(Engine) /\ WF_actionVars(Batch) /\ WF_actionVars(TestLocks) /\ WF_actionVars(Tick)

(***************************************************************************)
(* Properties.                                                             *)
(***************************************************************************)
\* The step starts row r of the engine's batch, or the called row r.
EngineStarts(r) == batch.by = "engine" /\ batch.row = 0 /\ batch'.row = r
CallStarts(r)   == batch.inner = 0 /\ batch'.inner = r

\* The records have their shapes, and a thread plays rows exactly while it
\* holds the action lock.
ActionsTypeOK ==
  /\ pid \in [Users -> 0 .. MaxPid] /\ menu \in [Users -> BOOLEAN]
  /\ state \in [Users -> [Rows ->
       [ready : Nat, consumed : 0 .. MaxSeq, donePid : 0 .. MaxPid,
        done : BOOLEAN, setting : 0 .. NoSetting]]]
  /\ eng.pc \in {"top", "users", "menu", "gates", "pause", "hook", "lock",
                "batch", "mark"}
  /\ (eng.pc = "batch") <=> (batch.by = "engine")
  /\ (test.pc = "batch") <=> (batch.by = "test")

\* No row of a test ends the process, nor does a row that it calls.
TestsDoNotKill ==
  \A r \in Range(TestRows) : /\ r \notin KillRows
                             /\ r \in CallerRows => Callee \notin KillRows

\* A trigger event plays a row once: while a setting is edited back and
\* forth, a batch waits for the lock or is refused, and windows change, the
\* engine never picks a row for an event it, or a later one, was picked for
\* before (_evaluate_rules_for_user, consumed, the signatures of the event).
\* One exception: an evaluation forgets the rows whose gates were closed when
\* that of another row was open (_prune_state_for_user), be it for a longer
\* delay or for a menu or clock that changed between two readings; a row that
\* was forgotten may be picked for the same event again.
Picks == eng.pc = "gates" /\ eng'.pc = "pause"

EventFiresOnce ==
  [][Picks => \A r \in eng'.due \cap EventRows :
                event[eng'.u].seq > fired[eng'.u][r]]_actionVars

\* A row that was marked as complete for this window (once_per_pid) or this
\* session (count) is not played again, by the engine or by a calling row,
\* before a new window, a new session, another setting of the row, or an
\* evaluation that forgets it: as above, or because the process it looked up
\* was replaced since (4232).  For a batch that outlives its window only
\* "count" rows count: what it plays it plays on the former process.
CompletedRests ==
  [][\A r \in Rows : /\ EngineStarts(r) \/ CallStarts(r)
                     /\ r \in CountRows \/ batch.pid = pid[batch.u]
                     => r \notin marked[batch.u]]_actionVars

\* "Clear queued work first so another row cannot start during that handoff"
\* (_kill_user_step): the engine, which alone may kill here, starts no further
\* row on a process whose end it asked for.  (A test that waits for the lock
\* does: test_once reads the block of the process nowhere.)
KilledIsQuiet ==
  [][\A r \in Rows : /\ batch.by = "engine"
                     /\ EngineStarts(r) \/ CallStarts(r)
                     => batch.pid \notin killed]_actionVars

\* The engine answers a trigger event: while the switch is on and the window
\* stays out of the menu and is not being killed, an event that a row waits
\* for does not wait for ever (the loop of _run, its gates and cooldowns).
Waiting(u, r) ==
  /\ enabled /\ pid[u] # 0 /\ ~menu[u] /\ blocked[u] # pid[u]
  /\ event[u].pid = pid[u] /\ <<r, Setting(r)>> \in event[u].for
  /\ event[u].seq > state[u][r].consumed

EventAnswered == \A u \in Users, r \in EventRows : []<>~Waiting(u, r)

=============================================================================
