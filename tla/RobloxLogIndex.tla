--------------------------- MODULE RobloxLogIndex ---------------------------
(***************************************************************************)
(* The Roblox log directory and the incremental index over it              *)
(* (RobloxLogIndex of src/log_utils.py): which file generation belongs to  *)
(* which account.                                                          *)
(*                                                                         *)
(* A log is a sequence of records.  A record is written in two halves, so  *)
(* a reader may meet it cut in the middle; positions count halves.  The    *)
(* session a log belongs to is its path number: a later process has a      *)
(* greater one.  A generation is (path, file identity, revision), as in    *)
(* _generation_id.  A log begins with the marker that names its account.   *)
(* An index poll is a complete one: its rate limits only delay it.         *)
(* The accounts play on one server: a merchant that appears is a record,   *)
(* with one time stamp, in the log of every account that is there.         *)
(***************************************************************************)
EXTENDS Integers, Sequences, FiniteSets, FiniteSetsExt, Functions

CONSTANTS
    Accounts,
    MaxFiles,       \* bound: sessions, each with a log of its own
    MaxStamps,      \* bound: records ever written
    MaxTroubles,    \* bound: mishaps of a log, pauses of the reader, accounts removed
    Mishaps         \* the mishaps that happen: a subset of {"reset", "vanish", "age"}

ASSUME IndexAssumption ==
    /\ MaxFiles \in Nat /\ MaxStamps \in Nat /\ MaxTroubles \in Nat
    /\ Mishaps \subseteq {"reset", "vanish", "age"}

Paths == 1..MaxFiles

(* Bound: while an account is suspended its truncated log is invalidated again *)
(* in every cycle; that many revisions are told apart.                         *)
MaxRevision == MaxTroubles + 2

NoPath == 0
Kinds == {"merchant", "disconnect"}
Ages == {"fresh", "old", "idle"}

VARIABLES
    \* the log directory
    disk,       \* path -> the file: there, identity, content number, records, age
    owner,      \* path -> the account whose marker is in the log, if any yet
    proc,       \* account -> the session of its live process, or NoPath
    clock,      \* the newest time stamp
    last,       \* account -> the newest time stamp in a log of its own
    troubles,   \* mishaps, pauses and removals so far
    \* the index
    files,      \* _files: path -> what the index knows of it
    pins        \* _pinned_generations

logVars == <<disk, owner, proc, clock, last>>
worldVars == <<logVars, troubles>>
indexVars == <<files, pins>>

NoFile == [on |-> FALSE, ino |-> 0, inc |-> 0, recs |-> <<>>, half |-> FALSE, age |-> "fresh"]
Unindexed == [known |-> FALSE, ino |-> 0, rev |-> 0, size |-> 0, marked |-> FALSE]

IndexInit ==
    /\ disk = [p \in Paths |-> NoFile]
    /\ owner = [p \in Paths |-> {}]
    /\ proc = [u \in Accounts |-> NoPath]
    /\ clock = 0
    /\ last = [u \in Accounts |-> 0]
    /\ troubles = 0
    /\ files = [p \in Paths |-> Unindexed]
    /\ pins = {}

(* The size of a log, in halves of records. *)
Size(p) == 2 * Len(disk[p].recs) - (IF disk[p].half THEN 1 ELSE 0)

(***************************************************************************)
(* The world: Roblox processes and their logs.                             *)
(***************************************************************************)
(* A process starts and creates its log. *)
Launch(u) ==
    /\ proc[u] = NoPath
    /\ \E p \in Paths :
         /\ disk[p].ino = 0
         /\ \A q \in Paths : q < p => disk[q].ino # 0
         /\ disk' = [disk EXCEPT ![p] = [NoFile EXCEPT !.on = TRUE, !.ino = 1, !.inc = 1]]
         /\ owner' = [owner EXCEPT ![p] = {u}]
         /\ proc' = [proc EXCEPT ![u] = p]
    /\ UNCHANGED <<clock, last, troubles>>

(* Bound: the session of the last log does not end. *)
Exit(u) ==
    /\ proc[u] \notin {NoPath, MaxFiles}
    /\ proc' = [proc EXCEPT ![u] = NoPath]
    /\ UNCHANGED <<disk, owner, clock, last, troubles>>

(* A process writes, and one that ended may still flush, until the next one starts. *)
Writable(p) == disk[p].on /\ \A q \in Paths : owner[q] = owner[p] => q <= p

TimeStamps(p) == {r.ts : r \in Range(disk[p].recs)}
Merchants(p) == {r.ts : r \in {s \in Range(disk[p].recs) : s.kind = "merchant"}}

(* Something new happens, or a merchant that others have seen already. *)
TimeStampsFor(u, kind) ==
    {t \in {clock + 1} : t <= MaxStamps} \union
    {t \in UNION {Merchants(q) : q \in {q \in Paths : u \notin owner[q]}} :
        kind = "merchant" /\ last[u] < t}

BeginRecord(p, kind) ==
    /\ Writable(p)
    /\ ~disk[p].half
    /\ \E u \in owner[p] : \E t \in TimeStampsFor(u, kind) :
         /\ clock' = Max({clock, t})
         /\ last' = [last EXCEPT ![u] = t]
         /\ disk' = [disk EXCEPT ![p].recs = Append(@, [kind |-> kind, ts |-> t]),
                                 ![p].half = TRUE,
                                 ![p].age = IF @ = "idle" THEN "old" ELSE @]
    /\ UNCHANGED <<owner, proc, troubles>>

EndRecord(p) ==
    /\ Writable(p)
    /\ disk[p].half
    /\ disk' = [disk EXCEPT ![p].half = FALSE, ![p].age = IF @ = "idle" THEN "old" ELSE @]
    /\ UNCHANGED <<owner, proc, clock, last, troubles>>

Mishap(kind, p) ==
    /\ kind \in Mishaps /\ troubles < MaxTroubles
    /\ disk[p].on
    /\ troubles' = troubles + 1
    /\ UNCHANGED <<owner, proc, clock, last>>

(* The content of a log is thrown away, in place or by a file of the same name. *)
Reset(p) ==
    /\ Mishap("reset", p)
    /\ Size(p) > 0
    /\ \E ino \in {disk[p].ino, disk[p].ino + 1} :
         disk' = [disk EXCEPT ![p].ino = ino, ![p].inc = @ + 1, ![p].recs = <<>>,
                              ![p].half = FALSE]

Vanish(p) ==
    /\ Mishap("vanish", p)
    /\ \A u \in Accounts : proc[u] # p
    /\ disk' = [disk EXCEPT ![p].on = FALSE]

(* Time passes: neither this log nor an older one was started or written   *)
(* within discovery_seconds.  A write makes an "idle" log an "old" one.    *)
GrowIdle(p) ==
    /\ Mishap("age", p)
    /\ disk' = [q \in Paths |-> IF q <= p THEN [disk[q] EXCEPT !.age = "idle"] ELSE disk[q]]

(***************************************************************************)
(* The index.  It is passed as a value, because one handler refreshes it   *)
(* and looks up in the result.                                             *)
(***************************************************************************)
Generation(ix, p) == [path |-> p, ino |-> ix[p].ino, rev |-> ix[p].rev]

HasGeneration(ix, g) == ix[g.path].known /\ Generation(ix, g.path) = g

(* refresh keeps what was modified lately, or since the process in question *)
(* started (not_before), and what is pinned.                                *)
Retained(ix, pn, p, started) ==
    /\ disk[p].on
    /\ \/ disk[p].age # "idle"
       \/ started # NoPath /\ p >= started
       \/ ix[p].known /\ Generation(ix, p) \in pn

Reindexed(ix, p) ==
    IF ~ix[p].known \/ ix[p].ino # disk[p].ino
    THEN [known |-> TRUE, ino |-> disk[p].ino, rev |-> 0, size |-> Size(p), marked |-> FALSE]
    ELSE IF Size(p) < ix[p].size
    THEN [ix[p] EXCEPT !.rev = Min({@ + 1, MaxRevision}), !.size = Size(p), !.marked = FALSE]
    ELSE [ix[p] EXCEPT !.size = Size(p)]

Refreshed(ix, pn, started) ==
    [p \in Paths |-> IF Retained(ix, pn, p, started) THEN Reindexed(ix, p) ELSE Unindexed]

(* poll: the scan reads what is not classified and finds the marker. *)
Polled(ix, pn, started) ==
    LET new == Refreshed(ix, pn, started)
    IN  [p \in Paths |-> [new[p] EXCEPT !.marked = new[p].known]]

(* A generation the refresh gave up loses its pin. *)
PinsKept(old, new, pn) ==
    {g \in pn : HasGeneration(old, g) => HasGeneration(new, g)}

(* invalidate_generation: a new revision of the same file, to be scanned again. *)
InvalidatedFile(ix, p) ==
    IF ix[p].known THEN [ix EXCEPT ![p].rev = Min({@ + 1, MaxRevision}), ![p].marked = FALSE]
    ELSE ix

InvalidatedPins(ix, pn, p) == IF ix[p].known THEN pn \ {Generation(ix, p)} ELSE pn

(* lookup: the newest log that names the account and is young enough, or, *)
(* if the process is known, not older than it.                            *)
Candidates(ix, pn, u, started) ==
    {p \in Paths :
        /\ ix[p].known /\ ix[p].marked
        /\ u \in owner[p]
        /\ IF started = NoPath
           THEN disk[p].age = "fresh" \/ Generation(ix, p) \in pn
           ELSE p >= started}

Lookup(ix, pn, u, started) ==
    LET found == Candidates(ix, pn, u, started)
    IN  IF found = {} THEN NoPath ELSE Max(found)

IndexTypeOK ==
    /\ disk \in [Paths -> [on : BOOLEAN, ino : 0..(MaxTroubles + 1), inc : 0..(MaxTroubles + 1),
                           recs : Seq([kind : Kinds, ts : 1..MaxStamps]), half : BOOLEAN,
                           age : Ages]]
    /\ owner \in [Paths -> SUBSET Accounts]
    /\ proc \in [Accounts -> Paths \union {NoPath}]
    /\ clock \in 0..MaxStamps
    /\ last \in [Accounts -> 0..MaxStamps]
    /\ troubles \in 0..MaxTroubles
    /\ \A p \in Paths : files[p].known => files[p].ino \in 1..disk[p].ino
    /\ \A g \in pins : g.path \in Paths
=============================================================================
