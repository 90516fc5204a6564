--------------------------- MODULE BESEventHolds ---------------------------
(***************************************************************************)
(* While an event (a biome, a merchant) lasts, the limiter BES must not    *)
(* throttle the account that found it (src/bes_event_holds.py).  The       *)
(* controller in the MultiScope child keeps a session per account; its     *)
(* client sends numbered holds and one release; four pool threads of the   *)
(* window hand them to the bridge in any order; the bridge places holds    *)
(* with an absolute end in the native limiter.                             *)
(*                                                                         *)
(* An owner is the unique name of a client.  The clock is in ticks.  The   *)
(* two seconds between refreshes are the set due, filled whenever          *)
(* something a refresh can see has changed; a refresh in between repeats   *)
(* the last one and is left out.                                           *)
(***************************************************************************)
EXTENDS Naturals, FiniteSets

CONSTANTS
    Users,       \* accounts
    Pids,        \* processes
    Owners,      \* names of clients
    Places,      \* the log generation and the server an account is read on
    Games,       \* the processes a context may name
    Duration,    \* longest event, in ticks
    Retention,   \* how long the bridge remembers an owner after its end
    MaxTime, MaxEvents, MaxChanges,   \* bounds of the model
    None

ASSUME TimesAreNatural == {Duration, Retention, MaxTime, MaxEvents, MaxChanges} \subseteq Nat
ASSUME NoneIsNothing == None \notin Owners \cup Pids \cup Games

Contexts == [place : Places, game : Games \cup {None}]

Session == [owner : Owners, until : Nat, context : Contexts]
Client == [uid : Users \cup {None}, sequence : Nat, until : Nat, released : BOOLEAN]
Message == [kind : {"hold", "release"}, owner : Owners, sequence : Nat, until : Nat]
Memory == [sequence : Nat, until : Nat, pids : SUBSET Pids, closed : BOOLEAN]
Request == [owner : Owners, until : Nat, pids : SUBSET Pids, tested : BOOLEAN]

ASSUME NoneIsNoRecord == None \notin Session \cup Memory \cup Request

VARIABLES
    now,        \* time.time()
    alive,      \* the child runs
    config,     \* the events are selected and BES is on, as the child was told
    context,    \* per account: _context
    tracked,    \* accounts that are tracked and not suspended
    session,    \* _sessions: owner, until and context, or None
    client,     \* per owner: uid (None before it is made), sequence, until, released
    due,        \* owners whose next refresh is due
    wire,       \* messages on their way from the client to the bridge
    lost,       \* owners of which a message was lost with the child
    bridge,     \* _owners: sequence, until, pids and closed, or None
    call,       \* the call of the limiter the bridge makes, its lock held
    pids,       \* per account: its processes as the window knows them
    enabled,    \* enabled_ of the limiter
    hold,       \* hold_until_by_owner_: the end of a hold, 0 for none
    events, changes

engine == <<alive, config, context, tracked, session, client, due, lost>>
window == <<bridge, call, hold>>
env == <<now, pids, enabled, events, changes>>
vars == <<engine, wire, window, env>>

Unmade == [uid |-> None, sequence |-> 0, until |-> 0, released |-> FALSE]

Init == /\ now = 0 /\ alive = TRUE /\ config = TRUE /\ events = 0 /\ changes = 0
        /\ context \in [Users -> Contexts]
        /\ tracked = Users /\ session = [u \in Users |-> None]
        /\ client = [o \in Owners |-> Unmade]
        /\ due = {} /\ wire = {} /\ lost = {}
        /\ bridge = [o \in Owners |-> None] /\ call = None
        /\ pids = [u \in Users |-> {}]
        /\ enabled = TRUE /\ hold = [p \in Pids |-> [o \in Owners |-> 0]]

Later(a, b) == IF a >= b THEN a ELSE b

-----------------------------------------------------------------------------
(* The controller and its clients, in the child. *)

Same(c, d) == /\ c.place = d.place
              /\ None \in {c.game, d.game} \/ c.game = d.game

\* MUTANT of Refreshes: a hold is sent when its end changes only.
RefreshesOnce(o, until) == until > now /\ until # client[o].until

\* A refresh is sent unless the hold has ended or nothing is new.
Refreshes(o, until) == until > now /\ (until # client[o].until \/ o \in due)

\* What release() of the owners R and refresh() of the owners F, with the ends and
\* the accounts given, leave behind.
Tell(R, F, until, uid) ==
    LET open == {o \in R : ~client[o].released}
        sent == {o \in F : Refreshes(o, until[o])}
        End(o) == IF o \in sent THEN Later(client[o].until, until[o]) ELSE client[o].until
        Line(o) == [kind |-> IF o \in sent THEN "hold" ELSE "release", owner |-> o,
                    sequence |-> client[o].sequence + 1, until |-> End(o)]
    IN  /\ client' = [o \in Owners |->
                         [uid |-> IF o \in F THEN uid[o] ELSE client[o].uid,
                          sequence |-> client[o].sequence + (IF o \in open \cup sent THEN 1 ELSE 0),
                          until |-> End(o),
                          released |-> client[o].released \/ o \in open]]
        /\ wire' = wire \cup {Line(o) : o \in open \cup sent}
        /\ due' = due \ sent

OwnersOf(U) == {session[u].owner : u \in {v \in U : session[v] # None}}
Nobody == [o \in {} |-> 0]
Drop(U) == session' = [u \in Users |-> IF u \in U THEN None ELSE session[u]]
ReleaseAll(U) == Drop(U) /\ Tell(OwnersOf(U), {}, Nobody, Nobody)

\* A new client draws a name nobody had before.
Fresh == IF \E o \in Owners : client[o] = Unmade
         THEN {CHOOSE o \in Owners : client[o] = Unmade} ELSE {}

\* trigger: an event that is not over extends the session of its account, or begins
\* a new one if there is none or it was of another server or process.
Trigger(u, until) ==
    LET old == session[u]
        keeps == old # None /\ Same(old.context, context[u])
        end == IF keeps THEN Later(old.until, until) ELSE until
    IN  /\ alive /\ config /\ until > now /\ events < MaxEvents
        /\ events' = events + 1
        /\ \E o \in IF keeps THEN {old.owner} ELSE Fresh :
              /\ session' = [session EXCEPT
                                ![u] = [owner |-> o, until |-> end, context |-> context[u]]]
              /\ Tell(OwnersOf({u}) \ {o}, {o}, [x \in {o} |-> end], [x \in {o} |-> u])
        /\ UNCHANGED <<alive, config, context, tracked, lost, window, now, pids, enabled, changes>>

Ends(u) == /\ session[u] # None
           /\ \/ session[u].until <= now
              \/ u \notin tracked
              \/ ~Same(session[u].context, context[u])

\* tick, before every cycle of the reader.
Tick ==
    LET over == {u \in Users : Ends(u)}
        kept == {u \in Users \ over : session[u] # None}
        UserOf(o) == CHOOSE u \in kept : session[u].owner = o
    IN  /\ alive
        /\ over # {} \/ \E u \in kept : Refreshes(session[u].owner, session[u].until)
        /\ session' = [u \in Users |->
                          IF u \in over THEN None
                          ELSE IF u \in kept THEN [session[u] EXCEPT !.context = context[u]]
                          ELSE None]
        /\ Tell(OwnersOf(over), OwnersOf(kept),
                [o \in OwnersOf(kept) |-> session[UserOf(o)].until],
                [o \in OwnersOf(kept) |-> UserOf(o)])
        /\ UNCHANGED <<alive, config, context, tracked, lost, window, env>>

\* configure ends every session when the settings differ.
Configure == /\ alive /\ changes < MaxChanges /\ changes' = changes + 1
             /\ config' = ~config /\ ReleaseAll(Users)
             /\ UNCHANGED <<alive, context, tracked, lost, window, now, pids, enabled, events>>

\* _drop_user_log_tracking and update_users release the account themselves.
Untrack(u) == /\ alive /\ u \in tracked /\ changes < MaxChanges /\ changes' = changes + 1
              /\ tracked' = tracked \ {u} /\ ReleaseAll({u})
              /\ UNCHANGED <<alive, config, context, lost, window, now, pids, enabled, events>>

\* The account is found again, perhaps on another server or in another process.
Track(u, c) == /\ alive /\ changes < MaxChanges /\ changes' = changes + 1
               /\ tracked' = tracked \cup {u} /\ context' = [context EXCEPT ![u] = c]
               /\ u \notin tracked \/ c # context[u]
               /\ UNCHANGED <<alive, config, session, client, due, lost, wire, window, now, pids, enabled, events>>

\* The child releases every session as it ends (shutdown), or it crashes.
Stop(U) == /\ alive /\ changes < MaxChanges /\ changes' = changes + 1
           /\ alive' = FALSE /\ lost' = lost \cup OwnersOf(Users \ U)
           /\ Drop(Users) /\ Tell(OwnersOf(U), {}, Nobody, Nobody)
           /\ UNCHANGED <<config, context, tracked, window, now, pids, enabled, events>>
Shutdown == Stop(Users)
Crash == Stop({})

\* What the pool has not handled when it is shut down is cancelled; a new child begins.
Restart == /\ ~alive /\ alive' = TRUE
           /\ wire' = {} /\ lost' = lost \cup {m.owner : m \in wire}
           /\ UNCHANGED <<config, context, tracked, session, client, due, window, env>>

-----------------------------------------------------------------------------
(* The bridge, under its lock, and the limiter it calls. *)

Forgotten(o) == bridge[o] = None \/ bridge[o].until + Retention < now
Remembered == [o \in Owners |-> IF Forgotten(o) THEN None ELSE bridge[o]]
StateOf(m) == IF Forgotten(m.owner)
              THEN [sequence |-> 0, until |-> m.until, pids |-> {}, closed |-> FALSE]
              ELSE bridge[m.owner]
\* MUTANT of Outdated: the numbers of the messages are not compared.
OutdatedWhenClosed(m) == StateOf(m).closed /\ m.kind = "hold"

Outdated(m) == \/ m.sequence <= StateOf(m).sequence
               \/ StateOf(m).closed /\ m.kind = "hold"
Closes(m) == m.kind = "release" \/ m.until <= now
Noted(m) == [StateOf(m) EXCEPT !.sequence = m.sequence, !.until = Later(@, m.until)]

\* release_hold_many
Unhold(P, o) == hold' = [p \in Pids |-> IF p \in P THEN [hold[p] EXCEPT ![o] = 0] ELSE hold[p]]

Remember(m, state) == bridge' = [Remembered EXCEPT ![m.owner] = state]

Handle(m) ==
    LET own == pids[client[m.owner].uid]
        old == StateOf(m).pids
    IN  /\ m \in wire /\ call = None
        /\ wire' = wire \ {m}
        /\ \/ /\ Outdated(m)
              /\ Remember(m, StateOf(m))
              /\ UNCHANGED <<hold, call>>
           \/ /\ ~Outdated(m) /\ Closes(m)
              /\ Remember(m, [Noted(m) EXCEPT !.closed = TRUE, !.pids = {}])
              /\ Unhold(old, m.owner) /\ UNCHANGED call
           \/ /\ ~Outdated(m) /\ ~Closes(m) /\ ~enabled
              /\ Remember(m, Noted(m))
              /\ UNCHANGED <<hold, call>>
           \/ /\ ~Outdated(m) /\ ~Closes(m) /\ enabled
              /\ Remember(m, [Noted(m) EXCEPT !.pids = @ \cap own])
              /\ Unhold(old \ own, m.owner)
              /\ call' = IF own = {} THEN None
                         ELSE [owner |-> m.owner, until |-> m.until, pids |-> own, tested |-> FALSE]
        /\ UNCHANGED <<engine, env>>

\* hold_unthrottled_many: a test of enabled_ without the mutex, and the holds under it.
Test == /\ call # None /\ ~call.tested
        /\ call' = IF enabled THEN [call EXCEPT !.tested = TRUE] ELSE None
        /\ UNCHANGED <<engine, wire, bridge, hold, env>>

\* MUTANT of Hold: the bridge does not remember what it holds.
HoldUnrecorded ==
    /\ call # None /\ call.tested
    /\ hold' = [p \in Pids |->
                   IF p \in call.pids THEN [hold[p] EXCEPT ![call.owner] = Later(@, call.until)]
                   ELSE hold[p]]
    /\ call' = None
    /\ UNCHANGED <<engine, wire, bridge, env>>

Hold == /\ call # None /\ call.tested
        /\ hold' = [p \in Pids |->
                       IF p \in call.pids THEN [hold[p] EXCEPT ![call.owner] = Later(@, call.until)]
                       ELSE hold[p]]
        /\ bridge' = [bridge EXCEPT ![call.owner].pids = call.pids]
        /\ call' = None
        /\ UNCHANGED <<engine, wire, env>>

\* set_enabled(false) clears all holds.
Enable == /\ changes < MaxChanges /\ changes' = changes + 1
          /\ enabled' = ~enabled /\ due' = Owners
          /\ hold' = IF enabled THEN [p \in Pids |-> [o \in Owners |-> 0]] ELSE hold
          /\ UNCHANGED <<alive, config, context, tracked, session, client, lost, wire, bridge, call,
                         now, pids, events>>

-----------------------------------------------------------------------------
(* The rest of the world. *)

Clock == /\ now < MaxTime /\ now' = now + 1 /\ due' = Owners
         /\ UNCHANGED <<alive, config, context, tracked, session, client, lost, wire, window,
                        pids, enabled, events, changes>>

Processes(u, P) == /\ changes < MaxChanges /\ changes' = changes + 1
                   /\ P # pids[u] /\ \A v \in Users \ {u} : P \cap pids[v] = {}
                   /\ pids' = [pids EXCEPT ![u] = P] /\ due' = Owners
                   /\ UNCHANGED <<alive, config, context, tracked, session, client, lost, wire, window,
                                  now, enabled, events>>

Child == \/ \E u \in Users, until \in 1 .. MaxTime + Duration :
               until <= now + Duration /\ Trigger(u, until)
         \/ Tick \/ Configure \/ Restart \/ Shutdown \/ Crash
         \/ \E u \in Users : Untrack(u) \/ \E c \in Contexts : Track(u, c)
Bridge == (\E m \in wire : Handle(m)) \/ Test \/ Hold
World == Enable \/ Clock \/ \E u \in Users, P \in SUBSET Pids : Processes(u, P)

Next == Child \/ Bridge \/ World

Spec == Init /\ [][Next]_vars

\* The reader's cycles go on, the pool handles what it is given, and a child that ended
\* is replaced by the user's next start of the manager, which need not come.
FairSpec == Spec /\ WF_vars(Tick) /\ WF_vars(Bridge)

-----------------------------------------------------------------------------
Live(p, o) == hold[p][o] > now

(***************************************************************************)
(* Once a client has released and its messages are handled, nothing is     *)
(* held in its name: neither an older hold that comes late, nor a process  *)
(* the account has left, nor a limiter switched off and on keeps a hold    *)
(* alive (BESHoldBridge.handle), unless a message was lost with the child. *)
(***************************************************************************)
Settled(o) == /\ client[o].released /\ o \notin lost
              /\ \A m \in wire : m.owner # o
              /\ call = None \/ call.owner # o
ReleasedIsQuiet == \A o \in Owners : Settled(o) => \A p \in Pids : ~Live(p, o)

(***************************************************************************)
(* A hold that has not ended is taken away only when its client released   *)
(* it, the limiter was switched off, or the process is no longer one of    *)
(* the account's, whatever order the messages come in (handle).            *)
(***************************************************************************)
Excused(p, o) == client[o].released \/ ~enabled' \/ p \notin pids[client[o].uid]
NotCutShort == [][\A p \in Pids, o \in Owners :
                     Live(p, o) /\ hold'[p][o] = 0 => Excused(p, o)]_vars

(***************************************************************************)
(* While an event goes on, every process of the account is held in the     *)
(* end, also one that appears later or after the limiter was off, unless   *)
(* the bridge closed the owner at the end of an event before (handle       *)
(* closes for good; trigger may extend a session whose end has passed).    *)
(***************************************************************************)
Spent(o) == bridge[o] # None /\ bridge[o].closed
Wanted(u) == /\ session[u] # None /\ session[u].until > now /\ u \in tracked
             /\ Same(session[u].context, context[u])
             /\ enabled /\ alive /\ ~Spent(session[u].owner)
Covered(u) == session[u] # None /\ \A p \in pids[u] : Live(p, session[u].owner)
EventHeld == \A u \in Users : <>[]Wanted(u) => <>[]Covered(u)

=============================================================================
