------------------------------ MODULE LogTail ------------------------------
(***************************************************************************)
(* The log reader of the MultiScope engine (src/multiscope.py) over        *)
(* RobloxLogIndex: accounts are attached to the newest log that names      *)
(* them, a batch of tail jobs reads what was appended, and every complete  *)
(* record is dispatched.  The engine is paused with a snapshot and a new   *)
(* engine resumes from it.  That a range of a log is claimed before its    *)
(* event is emitted (_claim_event_range) is left out: DispatchedOnce shows *)
(* that one engine meets no record of an account twice.                    *)
(*                                                                         *)
(* The main loop polls the index, resolves the accounts, starts the batch  *)
(* and waits for it; commands (ticks, recovery, account changes, the       *)
(* snapshot) come between two batches.  Tail jobs of different accounts    *)
(* interleave with each other and with the writing processes.  A record is *)
(* dispatched under the lock of its server, here one server.               *)
(***************************************************************************)
EXTENDS RobloxLogIndex

CONSTANTS
    MaxRead,        \* _per_read_cap, in halves of records
    Nothing

ASSUME TailAssumption ==
    MaxRead \in Nat \ {0}

Generations == [path : Paths, ino : Nat, rev : Nat]
TailCursors == [gen : Generations, pos : Nat, carry : BOOLEAN, observed : Nat, inc : Nat,
                anchored : BOOLEAN]
TailRecords == [kind : Kinds, ts : Nat, end : Nat]
TailJobs == [at : {"stat", "read", "dispatch"}, ino : Nat, size : Nat, recs : Seq(TailRecords),
             gen : Generations \union {Nothing}, hit : BOOLEAN]

ASSUME NothingIsNoRecord == Nothing \notin TailCursors \union TailJobs \union Generations

VARIABLES
    phase,      \* "idle", "resolve" (the index is polled), or "paused"
    todo,       \* accounts still to resolve in this cycle
    job,        \* account -> its tail job, or Nothing
    tracked,    \* _tracked_uids
    cur,        \* _cur: account -> cursor, or Nothing
    ever,       \* _ever_attached_uids
    retired,    \* _retired_generations_by_uid
    suspended,  \* _log_resolution_suspended_uids
    status,     \* the live process in _status_snapshot, or NoPath
    sig,        \* _last_disconnect_sig_by_uid: path and end, or Nothing
    seeded,     \* _first_merchant_scan_done
    watermark,  \* _last_merchant_ts_by_scope, of the one server and merchant
    snap,       \* the exported state, or Nothing
    \* history
    handled,    \* account -> time stamps of the records dispatched
    excused,    \* account -> those passed over on purpose: old, or unverifiable
    outdated    \* accounts read under a generation the index gives up, or will

loopVars == <<phase, todo, tracked>>
cursorVars == <<cur, ever, retired, pins>>
dedupVars == <<sig, seeded, watermark>>
tailHistory == <<handled, excused, outdated>>
tailVars == <<worldVars, files, loopVars, job, cursorVars, suspended, status, dedupVars, snap,
              tailHistory>>

TailInit ==
    /\ IndexInit
    /\ phase = "idle" /\ todo = {} /\ tracked = Accounts
    /\ job = [u \in Accounts |-> Nothing]
    /\ cur = [u \in Accounts |-> Nothing]
    /\ ever = {} /\ suspended = {} /\ seeded = {}
    /\ retired = [u \in Accounts |-> {}]
    /\ status = [u \in Accounts |-> NoPath]
    /\ sig = [u \in Accounts |-> Nothing]
    /\ watermark = 0
    /\ snap = Nothing
    /\ handled = [u \in Accounts |-> {}]
    /\ excused = [u \in Accounts |-> {}]
    /\ outdated = {}

(* The owner thread takes a command: no batch is out. *)
Idle == phase = "idle" /\ \A u \in Accounts : job[u] = Nothing

(***************************************************************************)
(* Attaching.                                                              *)
(***************************************************************************)
(* A cursor.  inc is the content pos refers to, 0 if nothing was read; it  *)
(* is anchored if the bytes before pos are remembered (anchor_tail).       *)
CursorAt(g, pos, observed) ==
    [gen |-> g, pos |-> pos, carry |-> FALSE, observed |-> observed, inc |-> 0,
     anchored |-> FALSE]

(* _warmstart_user_tail: what the log holds is state, not news. *)
WarmCursor(g) ==
    [CursorAt(g, Size(g.path), Size(g.path)) EXCEPT !.inc = disk[g.path].inc,
                                                    !.anchored = Size(g.path) > 0]

Warmstart(u, p) ==
    /\ excused' = [excused EXCEPT ![u] = @ \union TimeStamps(p)]
    /\ seeded' = seeded \union {u}
    /\ watermark' = IF Merchants(p) = {} THEN watermark ELSE Max(Merchants(p))

(* Unpin and retire: the cursor is given up and its generation never read again. *)
Detach(u, pn) ==
    IF cur[u] = Nothing
    THEN cur' = cur /\ pins' = pn /\ retired' = retired
    ELSE /\ cur' = [cur EXCEPT ![u] = Nothing]
         /\ pins' = pn \ {cur[u].gen}
         /\ retired' = [retired EXCEPT ![u] = @ \union {cur[u].gen}]

Unresolved(pn) == pins' = pn /\ UNCHANGED <<cur, ever, retired, seeded, watermark, excused>>

(* _resolve_current_log without a log. *)
Unmatched(u, ix, pn, started) ==
    /\ IF cur[u] # Nothing /\ (~HasGeneration(ix, cur[u].gen) \/ cur[u].gen.path < started)
       THEN Detach(u, pn)
       ELSE pins' = pn /\ UNCHANGED <<cur, retired>>
    /\ UNCHANGED <<ever, seeded, watermark, excused>>

(* ... with the log of generation g, attached already or to attach now. *)
StayAttached(u, ix, pn, g) ==
    /\ pins' = pn \union {g}
    /\ cur' = [cur EXCEPT ![u].observed = ix[g.path].size]
    /\ UNCHANGED <<ever, retired, seeded, watermark, excused>>

Attach(u, ix, pn, g) ==
    LET given == IF cur[u] = Nothing THEN {} ELSE {cur[u].gen}
        warm == u \notin ever /\ disk[g.path].on
    IN /\ pins' = (pn \ given) \union {g}
       /\ retired' = [retired EXCEPT ![u] = @ \union given]
       /\ ever' = ever \union {u}
       /\ cur' = [cur EXCEPT ![u] =
                    IF warm THEN WarmCursor(g)
                    ELSE CursorAt(g, IF u \in ever THEN 0 ELSE ix[g.path].size, ix[g.path].size)]
       /\ IF warm THEN Warmstart(u, g.path) ELSE UNCHANGED <<seeded, watermark, excused>>

\* MUTANT of ResolveSince: a retired generation is attached again.
ResolveRetired(u, ix, pn, started) ==
    LET p == Lookup(ix, pn, u, started)
        g == Generation(ix, p)
    IN IF p = NoPath THEN Unmatched(u, ix, pn, started)
       ELSE IF cur[u] # Nothing /\ cur[u].gen = g THEN StayAttached(u, ix, pn, g)
       ELSE Attach(u, ix, pn, g)

(* _resolve_current_log with the index ix and the pins pn, for a process started then. *)
ResolveSince(u, ix, pn, started) ==
    LET p == Lookup(ix, pn, u, started)
        g == Generation(ix, p)
    IN IF p = NoPath THEN Unmatched(u, ix, pn, started)
       ELSE IF g \in retired[u] THEN Unresolved(pn)
       ELSE IF cur[u] # Nothing /\ cur[u].gen = g THEN StayAttached(u, ix, pn, g)
       ELSE Attach(u, ix, pn, g)

ResolveWith(u, ix, pn) ==
    IF u \in suspended THEN Unresolved(pn) ELSE ResolveSince(u, ix, pn, status[u])

(* ... with refresh_index: the lookup polls the index first. *)
PollAndResolve(u, ix, pn, started) ==
    LET new == Polled(ix, pn, started)
    IN  files' = new /\ ResolveSince(u, new, PinsKept(ix, new, pn), started)

ResolveAfresh(u, ix, pn) ==
    IF u \in suspended THEN files' = ix /\ Unresolved(pn)
    ELSE PollAndResolve(u, ix, pn, status[u])

(***************************************************************************)
(* _poll_logs_cycle: poll, resolve, start the batch.                       *)
(***************************************************************************)
Observed(ix, c) ==
    IF c # Nothing /\ HasGeneration(ix, c.gen) THEN [c EXCEPT !.observed = ix[c.gen.path].size]
    ELSE c

(* The index is polled; the accounts are resolved only when their timer is due. *)
Poll(due) ==
    /\ Idle
    /\ LET ix == Polled(files, pins, NoPath)
       IN /\ files' = ix
          /\ pins' = PinsKept(files, ix, pins)
          /\ cur' = [u \in Accounts |-> Observed(ix, cur[u])]
    /\ todo' = IF due THEN tracked ELSE {}
    /\ phase' = "resolve"
    /\ UNCHANGED <<worldVars, tracked, job, ever, retired, suspended, status, dedupVars,
                   snap, tailHistory>>

Resolve(u) ==
    /\ phase = "resolve" /\ u \in todo
    /\ ResolveWith(u, files, pins)
    /\ todo' = todo \ {u}
    /\ UNCHANGED <<worldVars, files, phase, tracked, job, suspended, status, sig,
                   snap, handled,
                   outdated>>

JobAt(at) == [at |-> at, ino |-> 0, size |-> 0, recs |-> <<>>, gen |-> Nothing, hit |-> FALSE]

StartBatch ==
    /\ phase = "resolve" /\ todo = {}
    /\ job' = [u \in Accounts |->
                 IF u \in tracked /\ cur[u] # Nothing /\ cur[u].observed # cur[u].pos
                 THEN JobAt("stat") ELSE Nothing]
    /\ phase' = "idle"
    /\ UNCHANGED <<worldVars, files, todo, tracked, cursorVars, suspended, status,
                   dedupVars, snap, tailHistory>>

(***************************************************************************)
(* _tail_one_serial, in the steps between which the log may change.        *)
(***************************************************************************)
EndJob(u) == job' = [job EXCEPT ![u] = Nothing]

(* The log is not what it was: the read is left to the next cycle. *)
Rediscovered(u) ==
    /\ EndJob(u)
    /\ UNCHANGED <<worldVars, loopVars, suspended, status, sig, snap, handled,
                   outdated>>

Unread(u) ==
    /\ EndJob(u)
    /\ UNCHANGED <<worldVars, files, loopVars, cursorVars, suspended, status, dedupVars, snap,
                   tailHistory>>

(* The log is gone: resolve, and go on with another one if there is one. *)
StatMissing(u) ==
    /\ job[u] # Nothing /\ job[u].at = "stat"
    /\ ~disk[cur[u].gen.path].on
    /\ ResolveAfresh(u, files, pins)
    /\ IF cur'[u] # Nothing /\ disk[cur'[u].gen.path].on
       THEN UNCHANGED job
       ELSE EndJob(u)
    /\ UNCHANGED <<worldVars, loopVars, suspended, status, sig, snap, handled,
                   outdated>>

StatShrunk(u) ==
    /\ job[u] # Nothing /\ job[u].at = "stat"
    /\ LET p == cur[u].gen.path
       IN /\ disk[p].on
          /\ Size(p) < cur[u].pos
          /\ LET pn == InvalidatedPins(files, pins, p)
                 ix == Refreshed(InvalidatedFile(files, p), pn, NoPath)
             IN ResolveAfresh(u, ix, PinsKept(files, ix, pn))
    /\ Rediscovered(u)

Stat(u) ==
    /\ job[u] # Nothing /\ job[u].at = "stat"
    /\ LET p == cur[u].gen.path
       IN /\ disk[p].on
          /\ Size(p) >= cur[u].pos
          /\ cur' = [cur EXCEPT ![u].observed = Size(p)]
          /\ IF Size(p) = cur[u].pos THEN EndJob(u)
             ELSE job' = [job EXCEPT ![u].at = "read", ![u].ino = disk[p].ino,
                                     ![u].size = Size(p)]
    /\ UNCHANGED <<worldVars, files, loopVars, ever, retired, pins, suspended, status, dedupVars,
                   snap, tailHistory>>

(* What fstat of the handle says against the stat before and the generation. *)
StaleHandle(u, p) ==
    \/ disk[p].ino # job[u].ino
    \/ Size(p) < cur[u].pos
    \/ cur[u].gen.ino # job[u].ino

ReadStale(u) ==
    /\ job[u] # Nothing /\ job[u].at = "read"
    /\ LET p == cur[u].gen.path
           shrunk == disk[p].ino = job[u].ino /\ Size(p) < cur[u].pos
           ix == IF shrunk THEN InvalidatedFile(files, p) ELSE files
           pn == IF shrunk THEN InvalidatedPins(files, pins, p) ELSE pins
       IN /\ disk[p].on
          /\ StaleHandle(u, p)
          /\ LET new == Refreshed(ix, pn, NoPath)
             IN files' = new /\ ResolveWith(u, new, PinsKept(ix, new, pn))
    /\ Rediscovered(u)

ReadNothing(u) ==
    /\ job[u] # Nothing /\ job[u].at = "read"
    /\ LET p == cur[u].gen.path
       IN ~disk[p].on \/ (~StaleHandle(u, p) /\ Size(p) = cur[u].pos)
    /\ Unread(u)

(* The ends of the records that the halves from..to complete.  The head of *)
(* a record read before must have been carried.  The head of a disconnect  *)
(* is proof enough, the head of a merchant is carried to the next read.    *)
EarlyHead(p, e) == e % 2 = 1 /\ disk[p].recs[(e + 1) \div 2].kind = "disconnect"

\* MUTANT of Completed: what was carried is forgotten.
CompletedWithoutCarry(p, from, to, carried) ==
    {e \in (from + 1)..to : e % 2 = 0 /\ e - 1 > from} \union {e \in {to} : EarlyHead(p, e)}

Completed(p, from, to, carried) ==
    {e \in (from + 1)..to : e % 2 = 0 /\ (e - 1 > from \/ carried)}
        \union {e \in {to} : EarlyHead(p, e)}

Ascending(ends) ==
    CHOOSE s \in [1..Cardinality(ends) -> ends] : \A i, j \in DOMAIN s : i < j => s[i] < s[j]

RecordEnding(p, e) ==
    [kind |-> disk[p].recs[(e + 1) \div 2].kind, ts |-> disk[p].recs[(e + 1) \div 2].ts, end |-> e]

RecordsTo(p, ends) == [i \in 1..Cardinality(ends) |-> RecordEnding(p, Ascending(ends)[i])]

(* The log was truncated or replaced since it was resolved, whether the index knows or not. *)
Superseded(g) == ~HasGeneration(Refreshed(files, pins, NoPath), g)

Read(u) ==
    /\ job[u] # Nothing /\ job[u].at = "read"
    /\ LET p == cur[u].gen.path
           from == cur[u].pos
           to == Min({Size(p), job[u].size, from + MaxRead})
           ends == Completed(p, from, to, cur[u].carry)
       IN /\ disk[p].on /\ ~StaleHandle(u, p) /\ to > from
          /\ cur' = [cur EXCEPT ![u].pos = to, ![u].inc = disk[p].inc, ![u].anchored = TRUE,
                                ![u].carry = to % 2 = 1 /\ ~EarlyHead(p, to)]
          /\ job' = [job EXCEPT ![u] = IF ends = {} THEN Nothing
                                       ELSE [JobAt("dispatch") EXCEPT !.gen = cur[u].gen,
                                                                      !.recs = RecordsTo(p, ends)]]
    /\ outdated' = IF Superseded(cur[u].gen) THEN outdated \union {u} ELSE outdated
    /\ UNCHANGED <<worldVars, files, loopVars, ever, retired, pins, suspended, status, dedupVars,
                   snap, handled, excused>>

(***************************************************************************)
(* _dispatch_log_line, one record.                                         *)
(***************************************************************************)
NextIs(u, kind) == job[u] # Nothing /\ job[u].at = "dispatch" /\ Head(job[u].recs).kind = kind

Dispatched(u, hit) ==
    /\ handled' = [handled EXCEPT ![u] = @ \union {Head(job[u].recs).ts}]
    /\ IF Len(job[u].recs) = 1 THEN EndJob(u)
       ELSE job' = [job EXCEPT ![u].recs = Tail(@), ![u].hit = hit]
    /\ UNCHANGED <<worldVars, files, loopVars, ever, status, snap, excused, outdated>>

(* _scan_disconnect_in_text: of the log read before, of an older process, or news. *)
SeenDisconnect(u, r) ==
    \/ job[u].hit
    \/ sig[u] # Nothing /\ sig[u].path = job[u].gen.path /\ r.end <= sig[u].end

DispatchSeenDisconnect(u) ==
    /\ NextIs(u, "disconnect")
    /\ SeenDisconnect(u, Head(job[u].recs))
    /\ Dispatched(u, job[u].hit)
    /\ UNCHANGED <<cur, retired, pins, suspended, dedupVars>>

DispatchOldDisconnect(u) ==
    /\ NextIs(u, "disconnect")
    /\ LET r == Head(job[u].recs)
       IN /\ ~SeenDisconnect(u, r)
          /\ job[u].gen.path < status[u]
          /\ sig' = [sig EXCEPT ![u] = [path |-> job[u].gen.path, end |-> r.end]]
    /\ Dispatched(u, FALSE)
    /\ UNCHANGED <<cur, retired, pins, suspended, seeded, watermark>>

DispatchDisconnect(u) ==
    /\ NextIs(u, "disconnect")
    /\ LET r == Head(job[u].recs)
       IN /\ ~SeenDisconnect(u, r)
          /\ job[u].gen.path >= status[u]
          /\ sig' = [sig EXCEPT ![u] = [path |-> job[u].gen.path, end |-> r.end]]
    /\ suspended' = suspended \union {u}
    /\ Detach(u, pins)
    /\ Dispatched(u, TRUE)
    /\ UNCHANGED <<seeded, watermark>>

(* A merchant seeds the watermark, or is news if it is newer. *)
DispatchSeedMerchant(u) ==
    /\ NextIs(u, "merchant")
    /\ u \notin seeded
    /\ watermark' = Head(job[u].recs).ts
    /\ seeded' = seeded \union {u}
    /\ Dispatched(u, job[u].hit)
    /\ UNCHANGED <<cur, retired, pins, suspended, sig>>

DispatchMerchant(u) ==
    /\ NextIs(u, "merchant")
    /\ u \in seeded
    /\ LET r == Head(job[u].recs)
           news == r.ts > watermark
       IN /\ watermark' = IF news THEN r.ts ELSE watermark
    /\ Dispatched(u, job[u].hit)
    /\ UNCHANGED <<cur, retired, pins, suspended, sig, seeded>>

(***************************************************************************)
(* Commands of the owner thread.                                           *)
(***************************************************************************)
(* tick: what the manager says of the account. *)
Ticked(u) ==
    /\ Idle /\ u \in tracked
    /\ status' = [status EXCEPT ![u] = proc[u]]
    /\ UNCHANGED <<worldVars, files, loopVars, job, ever, dedupVars, snap, handled, excused,
                   outdated>>

\* MUTANT of TickRunning: a process that runs again does not end the suspension.
TickRunningKeepsSuspended(u) ==
    /\ proc[u] # NoPath
    /\ Ticked(u)
    /\ UNCHANGED <<suspended, cur, retired, pins>>

TickRunning(u) ==
    /\ proc[u] # NoPath
    /\ Ticked(u)
    /\ suspended' = suspended \ {u}
    /\ UNCHANGED <<cur, retired, pins>>

TickStopped(u) ==
    /\ proc[u] = NoPath
    /\ Ticked(u)
    /\ suspended' = suspended \union {u}
    /\ UNCHANGED <<cur, retired, pins>>

(* The label says Disconnected: the process ended, or is to be ended. *)
TickDisconnected(u) ==
    /\ proc[u] = NoPath \/ u \in suspended
    /\ Ticked(u)
    /\ suspended' = suspended \union {u}
    /\ Detach(u, pins)

(* The menu state stayed unknown for too long: that is a disconnect, too. *)
TickMenuTimeout(u) ==
    /\ proc[u] # NoPath
    /\ cur[u] # Nothing /\ disk[cur[u].gen.path].on /\ cur[u].gen.path >= proc[u]
    /\ Ticked(u)
    /\ suspended' = suspended \ {u}
    /\ Detach(u, pins)

(* recover_user_log_tracking: the manager has found the log of the live process. *)
Recover(u) ==
    /\ Idle
    /\ proc[u] # NoPath
    /\ tracked' = tracked \union {u}
    /\ status' = [status EXCEPT ![u] = proc[u]]
    /\ suspended' = suspended \ {u}
    /\ sig' = [sig EXCEPT ![u] = Nothing]
    /\ LET ix == Polled(files, pins, proc[u])
           pn == PinsKept(files, ix, pins)
           p == Lookup(ix, pn, u, proc[u])
       IN IF p # NoPath /\ cur[u] # Nothing /\ cur[u].gen = Generation(ix, p)
          THEN files' = ix /\ Unresolved(pn)
          ELSE PollAndResolve(u, files, pins, proc[u])
    /\ UNCHANGED <<worldVars, phase, todo, job, snap, handled,
                   outdated>>

(* update_users: an account is removed with all that is known of it, or added. *)
Untrack(u) ==
    /\ Idle
    /\ u \in tracked /\ troubles < MaxTroubles
    /\ troubles' = troubles + 1
    /\ tracked' = tracked \ {u}
    /\ cur' = [cur EXCEPT ![u] = Nothing]
    /\ pins' = IF cur[u] = Nothing THEN pins ELSE pins \ {cur[u].gen}
    /\ retired' = [retired EXCEPT ![u] = {}]
    /\ ever' = ever \ {u}
    /\ sig' = [sig EXCEPT ![u] = Nothing]
    /\ suspended' = suspended \ {u}
    /\ seeded' = seeded \ {u}
    /\ status' = [status EXCEPT ![u] = NoPath]
    /\ UNCHANGED <<logVars, files, phase, todo, job, watermark, snap, tailHistory>>

Track(u) ==
    /\ Idle
    /\ u \notin tracked
    /\ tracked' = tracked \union {u}
    /\ LET ix == Polled(files, pins, NoPath)
       IN files' = ix /\ ResolveWith(u, ix, PinsKept(files, ix, pins))
    /\ UNCHANGED <<worldVars, phase, todo, job, suspended, status, sig, snap,
                   handled,
                   outdated>>

(* pause: export_state, and the engine goes away. *)
Pause ==
    /\ Idle
    /\ troubles < MaxTroubles
    /\ troubles' = troubles + 1
    /\ phase' = "paused"
    /\ LET attached == {u \in Accounts : cur[u] # Nothing}
           known == IF attached = {} THEN Accounts ELSE attached
       IN snap' = [cur |-> cur, retired |-> retired, ever |-> ever, watermark |-> watermark,
                   seeded |-> seeded \intersect known,
                   sig |-> [u \in Accounts |-> IF u \in known THEN sig[u] ELSE Nothing]]
    /\ files' = [p \in Paths |-> Unindexed] /\ pins' = {}
    /\ suspended' = {} /\ status' = [u \in Accounts |-> NoPath]
    /\ UNCHANGED <<logVars, todo, tracked, job, cur, ever, retired, dedupVars, tailHistory>>

(* restore_match: the log is there, is the same file, and holds what was read. *)
Restorable(c) ==
    /\ c # Nothing /\ c.anchored
    /\ LET p == c.gen.path
       IN disk[p].on /\ disk[p].ino = c.gen.ino /\ Size(p) >= c.pos /\ disk[p].inc = c.inc

RestoredFile(p) ==
    [known |-> TRUE, ino |-> disk[p].ino, rev |-> 0, size |-> Size(p), marked |-> TRUE]

(* import_state, for a cursor c the discovery made and the saved one. *)
Continues(c, saved) ==
    /\ c.gen.path = saved.gen.path /\ c.gen.ino = saved.gen.ino
    /\ ~saved.anchored /\ c.pos >= saved.pos

Renewed(c, saved) ==
    \/ c.gen.path # saved.gen.path \/ c.gen.ino # saved.gen.ino
    \/ c.pos < Max({saved.pos, saved.observed})

Imported(c, saved) ==
    IF Continues(c, saved)
    THEN [c EXCEPT !.pos = saved.pos, !.carry = saved.carry, !.anchored = FALSE]
    ELSE IF Renewed(c, saved) THEN [c EXCEPT !.pos = 0, !.anchored = FALSE, !.inc = 0]
    ELSE [c EXCEPT !.anchored = FALSE]

(* A new engine: saved attachments are restored, the others discovered. *)
Resume ==
    /\ phase = "paused"
    /\ LET saved == snap.cur
           restored == {u \in tracked : Restorable(saved[u])}
           own == [u \in restored |-> [saved[u].gen EXCEPT !.rev = 0]]
           old == [p \in Paths |-> IF \E u \in restored : own[u].path = p THEN RestoredFile(p)
                                   ELSE Unindexed]
           ix == IF restored = tracked THEN old ELSE Polled(old, Range(own), NoPath)
           Found(u) == IF u \in tracked \ restored THEN Lookup(ix, Range(own), u, NoPath)
                       ELSE NoPath
           found == {u \in Accounts : Found(u) # NoPath}
           Cold(u) == WarmCursor(Generation(ix, Found(u)))
           passed == {u \in found : \/ saved[u] = Nothing
                                    \/ /\ ~Continues(Cold(u), saved[u])
                                       /\ ~Renewed(Cold(u), saved[u])}
       IN /\ files' = ix
          /\ pins' = Range(own) \union {Generation(ix, Found(u)) : u \in found}
          /\ cur' = [u \in Accounts |->
                       IF u \in restored
                       THEN [saved[u] EXCEPT !.gen = own[u],
                                             !.observed = Size(own[u].path)]
                       ELSE IF u \notin found THEN Nothing
                       ELSE IF saved[u] = Nothing THEN Cold(u)
                       ELSE Imported(Cold(u), saved[u])]
          /\ ever' = restored \union found \union (snap.ever \intersect tracked)
          /\ excused' = [u \in Accounts |-> excused[u] \union
                           IF u \in passed THEN TimeStamps(Found(u)) ELSE {}]
    /\ retired' = snap.retired
    /\ sig' = snap.sig
    /\ seeded' = snap.seeded
    /\ watermark' = snap.watermark
    /\ snap' = Nothing
    /\ phase' = "idle"
    /\ UNCHANGED <<worldVars, todo, tracked, job, suspended, status, handled,
                   outdated>>

(***************************************************************************)
(* The world goes on.  A log that lost its content does not grow past what *)
(* was read before the reader has noticed, and no log is deleted while the *)
(* engine is paused: neither can be told from a log that just grew.        *)
(***************************************************************************)
Noticeable(p) ==
    \A u \in Accounts :
        LET c == cur[u]
        IN c # Nothing /\ c.gen.path = p /\ c.inc \notin {0, disk[p].inc} /\ c.pos > 0
              /\ (phase # "paused" \/ ~c.anchored)
           => Size(p) + 1 < c.pos

WorldStep ==
    \/ \E u \in Accounts : Launch(u) \/ Exit(u)
    \/ \E p \in Paths :
         \/ Noticeable(p) /\ \E kind \in Kinds : BeginRecord(p, kind)
         \/ Noticeable(p) /\ EndRecord(p)
         \/ Reset(p) \/ GrowIdle(p)
         \/ phase # "paused" /\ Vanish(p)

World ==
    WorldStep /\ UNCHANGED <<files, loopVars, job, cursorVars, suspended, status, dedupVars, snap,
                             tailHistory>>

TailJob(u) ==
    \/ StatMissing(u) \/ StatShrunk(u) \/ Stat(u)
    \/ ReadStale(u) \/ ReadNothing(u) \/ Read(u)
    \/ DispatchSeenDisconnect(u) \/ DispatchOldDisconnect(u) \/ DispatchDisconnect(u)
    \/ DispatchSeedMerchant(u) \/ DispatchMerchant(u)

Tick(u) == TickRunning(u) \/ TickStopped(u) \/ TickDisconnected(u) \/ TickMenuTimeout(u)

TailNext ==
    \/ World
    \/ Poll(TRUE) \/ Poll(FALSE) \/ StartBatch \/ Pause \/ Resume
    \/ \E u \in Accounts :
         Resolve(u) \/ TailJob(u) \/ Tick(u) \/ Recover(u) \/ Untrack(u) \/ Track(u)

TailSpec == TailInit /\ [][TailNext]_tailVars

(* The engine goes on, the resolve timer comes due, the manager ticks and resumes. *)
Engine ==
    StartBatch \/ Resume \/ \E u \in Accounts : Resolve(u) \/ TailJob(u)

TailFairness ==
    WF_tailVars(Engine) /\ SF_tailVars(Poll(TRUE)) /\ \A u \in Accounts : SF_tailVars(TickRunning(u))

FairTailSpec == TailSpec /\ TailFairness

(***************************************************************************)
(* Properties.                                                             *)
(***************************************************************************)
(* Types; the accounts to resolve are tracked ones, although commands come *)
(* between cycles that add and remove accounts (update_users).             *)
TailTypeOK ==
    /\ IndexTypeOK
    /\ phase \in {"idle", "resolve", "paused"}
    /\ tracked \subseteq Accounts /\ todo \subseteq tracked
    /\ \A u \in Accounts : cur[u] # Nothing => cur[u].pos \in 0..(2 * MaxStamps)

(* A record is dispatched once to an account, whatever the attachments of the account    *)
(* were: retired after a disconnect and recovered, rotated to a newer log, restored from *)
(* a snapshot, or given up because the log was truncated (_dispatch_log_line).           *)
(* Known exception: a read that met the new content of a truncated log under its old     *)
(* generation; the log is then read again under the new one.                             *)
DispatchedOnce ==
    \A u \in Accounts :
        job[u] # Nothing /\ u \notin outdated => {r.ts : r \in Range(job[u].recs)} \intersect handled[u] = {}

(* Between two reads, every record before the cursor was dispatched, or was passed over  *)
(* by a cold start: no record is lost at the edge of a read that was cut by the size at  *)
(* stat time, the read cap or a half-written record (the carry of _parse_tail_block).    *)
NothingSkipped ==
    \A u \in Accounts :
        cur[u] # Nothing /\ job[u] = Nothing /\ cur[u].inc = disk[cur[u].gen.path].inc =>
            \A i \in 1..(cur[u].pos \div 2) :
                disk[cur[u].gen.path].recs[i].ts \in handled[u] \union excused[u]

(* Again and again the reader has read all of the log of a live process, unless a        *)
(* disconnect retired that log or it lay idle beyond discovery_seconds: neither a        *)
(* suspension, a truncation, a lost file, a pause, nor a change of the list leaves an    *)
(* account behind for good (_poll_logs_cycle).                                           *)
CaughtUp ==
    \A u \in Accounts :
        []<>(\/ u \notin tracked \/ proc[u] = NoPath
             \/ proc[u] \in {g.path : g \in retired[u]}
             \/ Size(proc[u]) = 0 \/ disk[proc[u]].age = "idle"
             \/ cur[u] # Nothing /\ cur[u].gen.path = proc[u] /\ cur[u].pos = Size(proc[u]))
=============================================================================
