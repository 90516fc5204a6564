---------------------- MODULE BESEventHolds_proofs ----------------------
(***************************************************************************)
(* Proofs about BESEventHolds, for any accounts, processes and clients and *)
(* any bounds: what was released is not held, and a hold is not cut short. *)
(*                                                                         *)
(* Nothing in the bridge orders the messages, so the argument goes through *)
(* their numbers.  A client's ends grow with its numbers and its release   *)
(* has the highest (Channel); a hold never outlasts what the bridge        *)
(* remembers of its owner (Recorded), so a bridge that forgets an owner    *)
(* forgets no hold, and an owner whose release it has seen stays closed,   *)
(* or is long over (Over).                                                 *)
(***************************************************************************)
EXTENDS BESEventHolds, TLAPS

Types ==
    /\ now \in Nat
    /\ context \in [Users -> Contexts]
    /\ session \in [Users -> Session \cup {None}]
    /\ client \in [Owners -> Client]
    /\ wire \subseteq Message
    /\ bridge \in [Owners -> Memory \cup {None}]
    /\ call \in Request \cup {None}
    /\ pids \in [Users -> SUBSET Pids]
    /\ hold \in [Pids -> [Owners -> Nat]]

\* The client of a session has spoken, has not released, and serves that session only.
Sessions ==
    \A u \in Users : session[u] # None =>
        /\ ~client[session[u].owner].released
        /\ client[session[u].owner].sequence > 0
        /\ client[session[u].owner].uid \in Users
        /\ \A v \in Users : session[v] # None /\ session[v].owner = session[u].owner => u = v

\* A message is as old as its number says.
Dated(m) ==
    /\ 0 < m.sequence /\ m.sequence <= client[m.owner].sequence
    /\ m.until <= client[m.owner].until
    /\ client[m.owner].uid \in Users
    /\ m.kind = "release" =>
         /\ client[m.owner].released
         /\ m.sequence = client[m.owner].sequence
         /\ m.until = client[m.owner].until
    /\ m.kind = "hold" /\ client[m.owner].released => m.sequence < client[m.owner].sequence

\* What the bridge remembers comes from the messages it has handled.
Learnt(o) ==
    bridge[o] # None =>
        /\ bridge[o].sequence <= client[o].sequence
        /\ bridge[o].until <= client[o].until
        /\ \A m \in wire : m.owner = o =>
             /\ m.sequence > bridge[o].sequence => bridge[o].until <= m.until
             /\ m.kind = "release" => bridge[o].sequence < m.sequence

Channel ==
    /\ \A m \in wire : Dated(m)
    /\ \A m, n \in wire : m.owner = n.owner /\ m.sequence < n.sequence => m.until <= n.until
    /\ \A o \in Owners : Learnt(o)

\* A hold that is not over is one the bridge can take away.
Recorded ==
    \A p \in Pids, o \in Owners : Live(p, o) =>
        bridge[o] # None /\ p \in bridge[o].pids /\ hold[p][o] <= bridge[o].until

Closed == \A o \in Owners : bridge[o] # None /\ bridge[o].closed => bridge[o].pids = {}

\* While the limiter is called, the owner is remembered and open.
Calling ==
    call # None =>
        /\ bridge[call.owner] # None
        /\ ~bridge[call.owner].closed
        /\ bridge[call.owner].pids \subseteq call.pids
        /\ call.until <= bridge[call.owner].until

Done(o) == /\ client[o].released /\ o \notin lost
           /\ \A m \in wire : ~(m.owner = o /\ m.kind = "release")

\* The release is handled: no call is made again, and the bridge knows it or all is past.
Over(o) ==
    /\ call = None \/ call.owner # o
    /\ \/ client[o].until < now
       \/ /\ bridge[o] # None /\ bridge[o].closed
          /\ bridge[o].sequence = client[o].sequence
          /\ bridge[o].until = client[o].until

IInv == /\ Types /\ Sessions /\ Channel
        /\ Recorded /\ Closed /\ Calling
        /\ \A o \in Owners : Done(o) => Over(o)

-----------------------------------------------------------------------------
(* What a step of the child does to the channel. *)

\* The owners R release and others may send a hold.
Told(R) ==
    /\ client' \in [Owners -> Client]
    /\ wire \subseteq wire'
    /\ \A o \in Owners :
         /\ client'[o].released <=> client[o].released \/ o \in R
         /\ client'[o].sequence >= client[o].sequence
         /\ client'[o].until >= client[o].until
         /\ client[o].uid \in Users => client'[o].uid \in Users
         /\ client[o].released => /\ client'[o].sequence = client[o].sequence
                                 /\ client'[o].until = client[o].until
    /\ \A m \in wire' \ wire :
         /\ m \in Message
         /\ ~client[m.owner].released
         /\ m.sequence = client[m.owner].sequence + 1
         /\ m.sequence = client'[m.owner].sequence
         /\ m.until = client'[m.owner].until
         /\ client'[m.owner].uid \in Users
         /\ m.kind = "release" <=> m.owner \in R
    /\ \A o \in R : client[o].released \/ \E m \in wire' : m.owner = o /\ m.kind = "release"

\* A client that is new or not yet released may send; releases and holds are of
\* different clients.
LEMMA TellTold ==
    ASSUME client \in [Owners -> Client], wire \subseteq Message,
           NEW R \in SUBSET Owners, NEW F \in SUBSET Owners, NEW until, NEW uid,
           R \cap F = {},
           \A o \in R : client[o].uid \in Users,
           \A o \in F : until[o] \in Nat /\ uid[o] \in Users /\ ~client[o].released,
           Tell(R, F, until, uid)
    PROVE  /\ Told(R)
           /\ \A o \in F : /\ client'[o].uid \in Users
                           /\ client'[o].sequence > client[o].sequence \/ ~Refreshes(o, until[o])
  <1> DEFINE open == {o \in R : ~client[o].released}
             sent == {o \in F : Refreshes(o, until[o])}
             End(o) == IF o \in sent THEN Later(client[o].until, until[o]) ELSE client[o].until
             Line(o) == [kind |-> IF o \in sent THEN "hold" ELSE "release", owner |-> o,
                         sequence |-> client[o].sequence + 1, until |-> End(o)]
  <1>1. \A o \in Owners : client[o] \in Client
    OBVIOUS
  <1>2. \A o \in Owners : /\ client[o].uid \in Users \cup {None} /\ client[o].sequence \in Nat
                           /\ client[o].until \in Nat /\ client[o].released \in BOOLEAN
    BY <1>1 DEF Client
  <1>3. \A o \in Owners : End(o) \in Nat /\ End(o) >= client[o].until
    BY <1>2 DEF Later
  <1>4. /\ client' = [o \in Owners |->
                         [uid |-> IF o \in F THEN uid[o] ELSE client[o].uid,
                          sequence |-> client[o].sequence + (IF o \in open \cup sent THEN 1 ELSE 0),
                          until |-> End(o),
                          released |-> client[o].released \/ o \in open]]
        /\ wire' = wire \cup {Line(o) : o \in open \cup sent}
    BY DEF Tell
  <1> HIDE DEF End
  <1>5. \A o \in Owners :
           /\ client'[o] \in Client
           /\ client'[o].sequence = client[o].sequence + (IF o \in open \cup sent THEN 1 ELSE 0)
           /\ client'[o].until = End(o)
           /\ client'[o].uid = IF o \in F THEN uid[o] ELSE client[o].uid
           /\ client'[o].released = (client[o].released \/ o \in open)
    BY <1>2, <1>3, <1>4 DEF Client
  <1>6. client' \in [Owners -> Client]
    BY <1>4, <1>5
  <1>7. \A m \in wire' \ wire : \E o \in open \cup sent : m = Line(o)
    BY <1>4
  <1>8. \A o \in open \cup sent : /\ Line(o) \in Message /\ o \in Owners /\ ~client[o].released
                                  /\ Line(o).kind = "release" <=> o \in R
    BY <1>2, <1>3 DEF Message
  <1>9. \A m \in wire' \ wire :
           /\ m \in Message
           /\ ~client[m.owner].released
           /\ m.sequence = client[m.owner].sequence + 1
           /\ m.sequence = client'[m.owner].sequence
           /\ m.until = client'[m.owner].until
           /\ client'[m.owner].uid \in Users
           /\ m.kind = "release" <=> m.owner \in R
    BY <1>5, <1>7, <1>8
  <1>10. \A o \in R : client[o].released \/ \E m \in wire' : m.owner = o /\ m.kind = "release"
    <2> SUFFICES ASSUME NEW o \in R, ~client[o].released
                 PROVE  \E m \in wire' : m.owner = o /\ m.kind = "release"
      OBVIOUS
    <2>1. Line(o) \in wire' /\ Line(o).owner = o /\ Line(o).kind = "release"
      BY <1>4, <1>8
    <2> QED BY <2>1
  <1>11. \A o \in Owners : client[o].released => o \notin open \cup sent /\ End(o) = client[o].until
    BY DEF End
  <1>12. \A o \in Owners :
         /\ client'[o].released <=> client[o].released \/ o \in R
         /\ client'[o].sequence >= client[o].sequence
         /\ client'[o].until >= client[o].until
         /\ client[o].uid \in Users => client'[o].uid \in Users
         /\ client[o].released => /\ client'[o].sequence = client[o].sequence
                                 /\ client'[o].until = client[o].until
    <2> TAKE o \in Owners
    <2> HIDE DEF open, sent, Line
    <2>1. client'[o].released <=> client[o].released \/ o \in R
      BY <1>2, <1>5 DEF open
    <2>2. client'[o].sequence >= client[o].sequence
      BY <1>2, <1>5
    <2>3. client'[o].until >= client[o].until
      BY <1>3, <1>5
    <2>4. client[o].released => client'[o].sequence = client[o].sequence
      BY <1>2, <1>5, <1>11
    <2>5. client[o].released => client'[o].until = client[o].until
      BY <1>5, <1>11
    <2>6. client[o].uid \in Users => client'[o].uid \in Users
      BY <1>5
    <2> QED BY <2>1, <2>2, <2>3, <2>4, <2>5, <2>6
  <1>13. \A o \in F : /\ client'[o].uid \in Users
                      /\ client'[o].sequence > client[o].sequence \/ ~Refreshes(o, until[o])
    BY <1>2, <1>5
  <1> QED BY <1>4, <1>6, <1>9, <1>10, <1>12, <1>13 DEF Told

-----------------------------------------------------------------------------
(* The facts of the channel and of the bridge through a step of the child. *)

\* Messages sent in one step have numbers the bridge has not seen, above all older ones.
LEMMA ToldKeepsChannel ==
    ASSUME Types, Channel, NEW R, Told(R), bridge' = bridge
    PROVE  Channel' /\ wire' \subseteq Message
  <1>1. /\ \A m \in wire : m \in Message /\ m.owner \in Owners /\ m.sequence \in Nat
                           /\ m.until \in Nat /\ m.kind \in {"hold", "release"}
        /\ \A m \in wire' : m \in Message /\ m.owner \in Owners /\ m.sequence \in Nat
                            /\ m.until \in Nat /\ m.kind \in {"hold", "release"}
    BY DEF Types, Told, Message
  <1>2. \A o \in Owners :
           /\ client[o].sequence \in Nat /\ client[o].until \in Nat
           /\ client'[o].sequence \in Nat /\ client'[o].until \in Nat
           /\ client'[o].sequence >= client[o].sequence
           /\ client'[o].until >= client[o].until
           /\ client[o].uid \in Users => client'[o].uid \in Users
    BY DEF Types, Told, Client
  <1>3. \A o \in Owners : bridge[o] # None => bridge[o].sequence \in Nat /\ bridge[o].until \in Nat
    BY DEF Types, Memory
  <1>4. ASSUME NEW m \in wire' PROVE Dated(m)'
    <2>1. CASE m \in wire
      <3>1. Dated(m)
        BY <2>1 DEF Channel
      <3>2. CASE client[m.owner].released
        <4>1. /\ client'[m.owner].released
              /\ client'[m.owner].sequence = client[m.owner].sequence
              /\ client'[m.owner].until = client[m.owner].until
          BY <1>1, <3>2 DEF Told
        <4> QED BY <1>1, <1>2, <3>1, <3>2, <4>1 DEF Dated
      <3>3. CASE ~client[m.owner].released
        <4>1. m.kind = "hold" /\ m.sequence <= client[m.owner].sequence
          BY <1>1, <3>1, <3>3 DEF Dated
        <4>2. CASE client'[m.owner].released
          <5>1. PICK n \in wire' : n.owner = m.owner /\ n.kind = "release"
            BY <1>1, <3>3, <4>2 DEF Told
          <5>2. n \notin wire
            BY <3>3, <5>1 DEF Channel, Dated
          <5>3. client'[m.owner].sequence = client[m.owner].sequence + 1
            BY <5>1, <5>2 DEF Told
          <5>4. m.sequence < client'[m.owner].sequence
            BY <1>1, <1>2, <4>1, <5>3
          <5>5. /\ 0 < m.sequence /\ m.until <= client'[m.owner].until
                /\ client'[m.owner].uid \in Users
            BY <1>1, <1>2, <3>1 DEF Dated
          <5> QED BY <1>1, <1>2, <4>1, <5>4, <5>5 DEF Dated
        <4>3. CASE ~client'[m.owner].released
          BY <1>1, <1>2, <3>1, <4>1, <4>3 DEF Dated
        <4> QED BY <4>2, <4>3
      <3> QED BY <3>2, <3>3
    <2>2. CASE m \notin wire
      <3>1. /\ m.sequence = client[m.owner].sequence + 1
            /\ m.sequence = client'[m.owner].sequence
            /\ m.until = client'[m.owner].until
            /\ client'[m.owner].uid \in Users
            /\ ~client[m.owner].released
            /\ m.kind = "release" <=> m.owner \in R
        BY <2>2 DEF Told
      <3>2. m.kind = "release" <=> client'[m.owner].released
        BY <1>1, <3>1 DEF Told
      <3> QED BY <1>1, <1>2, <3>1, <3>2 DEF Dated
    <2> QED BY <2>1, <2>2
  <1>5. ASSUME NEW m \in wire', NEW n \in wire', m.owner = n.owner, m.sequence < n.sequence
        PROVE  m.until <= n.until
    <2>1. CASE n \in wire
      <3>1. n.sequence <= client[n.owner].sequence
        BY <2>1 DEF Channel, Dated
      <3>2. m \in wire
        <4> SUFFICES ASSUME m \notin wire PROVE FALSE
          OBVIOUS
        <4>1. m.sequence = client[m.owner].sequence + 1
          BY DEF Told
        <4> QED BY <1>1, <1>2, <1>5, <3>1, <4>1
      <3> QED BY <1>5, <2>1, <3>2 DEF Channel
    <2>2. CASE n \notin wire
      <3>1. n.until = client'[n.owner].until
        BY <2>2 DEF Told
      <3>2. m.until <= client'[m.owner].until
        BY <1>4 DEF Dated
      <3> QED BY <1>5, <3>1, <3>2
    <2> QED BY <2>1, <2>2
  <1>6. ASSUME NEW o \in Owners PROVE Learnt(o)'
    <2> SUFFICES ASSUME bridge[o] # None
                 PROVE  /\ bridge[o].sequence <= client'[o].sequence
                        /\ bridge[o].until <= client'[o].until
                        /\ \A m \in wire' : m.owner = o =>
                             /\ m.sequence > bridge[o].sequence => bridge[o].until <= m.until
                             /\ m.kind = "release" => bridge[o].sequence < m.sequence
      BY DEF Learnt
    <2>1. Learnt(o)
      BY DEF Channel
    <2>2. /\ bridge[o].sequence <= client'[o].sequence
          /\ bridge[o].until <= client'[o].until
      BY <1>2, <1>3, <2>1 DEF Learnt
    <2>3. ASSUME NEW m \in wire', m.owner = o
          PROVE  /\ m.sequence > bridge[o].sequence => bridge[o].until <= m.until
                 /\ m.kind = "release" => bridge[o].sequence < m.sequence
      <3>1. CASE m \in wire
        BY <2>1, <2>3, <3>1 DEF Learnt
      <3>2. CASE m \notin wire
        <4>1. m.until = client'[o].until /\ m.sequence = client[o].sequence + 1
          BY <2>3, <3>2 DEF Told
        <4> QED BY <1>2, <1>3, <2>1, <2>2, <4>1 DEF Learnt
      <3> QED BY <3>1, <3>2
    <2> QED BY <2>2, <2>3
  <1>7. wire' \subseteq Message
    BY <1>1
  <1> QED BY <1>4, <1>5, <1>6, <1>7 DEF Channel

LEMMA ToldKeepsRest ==
    ASSUME IInv, NEW R, Told(R), UNCHANGED window, now' = now, lost \subseteq lost'
    PROVE  /\ Channel' /\ wire' \subseteq Message
           /\ Recorded' /\ Closed' /\ Calling'
           /\ \A o \in Owners : Done(o)' => Over(o)'
  <1>1. Channel' /\ wire' \subseteq Message
    BY ToldKeepsChannel DEF IInv, window
  <1>2. Recorded' /\ Closed' /\ Calling'
    BY DEF IInv, window, Recorded, Live, Closed, Calling
  <1>3. ASSUME NEW o \in Owners, Done(o)' PROVE Over(o)'
    <2>1. client[o].released
      <3> SUFFICES ASSUME ~client[o].released PROVE FALSE
        OBVIOUS
      <3>1. o \in R
        BY <1>3 DEF Done, Told
      <3> QED BY <1>3, <3>1 DEF Done, Told
    <2>2. Done(o)
      BY <1>3, <2>1 DEF Done, Told
    <2>3. Over(o)
      BY <2>2 DEF IInv
    <2>4. client'[o].sequence = client[o].sequence /\ client'[o].until = client[o].until
      BY <2>1 DEF Told
    <2> QED BY <2>3, <2>4 DEF Over, window
  <1> QED BY <1>1, <1>2, <1>3

LEMMA ToldKeeps ==
    ASSUME IInv, NEW R, Told(R), UNCHANGED <<window, pids>>, now' = now, lost \subseteq lost',
           context' \in [Users -> Contexts],
           session' \in [Users -> Session \cup {None}], Sessions'
    PROVE  IInv'
  <1>1. Types'
    BY ToldKeepsRest DEF IInv, Types, Told, window
  <1> QED BY <1>1, ToldKeepsRest DEF IInv

-----------------------------------------------------------------------------
(* The steps of the child. *)

LEMMA OwnersAreOwners ==
    ASSUME Types, NEW U \in SUBSET Users PROVE OwnersOf(U) \in SUBSET Owners
  BY DEF OwnersOf, Types, Session

LEMMA OwnersSpeak ==
    ASSUME IInv, NEW U \in SUBSET Users, NEW o \in OwnersOf(U) PROVE client[o].uid \in Users
  <1>1. PICK u \in U : session[u] # None /\ o = session[u].owner
    BY DEF OwnersOf
  <1> QED BY <1>1 DEF IInv, Sessions

LEMMA ReleasesTold ==
    ASSUME IInv, NEW U \in SUBSET Users, Tell(OwnersOf(U), {}, Nobody, Nobody)
    PROVE  \E R \in SUBSET Owners : R = OwnersOf(U) /\ Told(R)
  <1>1. PICK R : R = OwnersOf(U)
    OBVIOUS
  <1>2. R \in SUBSET Owners
    BY <1>1, OwnersAreOwners DEF IInv
  <1>3. PICK f : f = Nobody
    OBVIOUS
  <1>4. Tell(R, {}, f, f)
    BY <1>1, <1>3 DEF Tell
  <1>5. Told(R)
    <2>1. client \in [Owners -> Client] /\ wire \subseteq Message
      BY DEF IInv, Types
    <2>2. {} \in SUBSET Owners /\ R \cap {} = {}
      OBVIOUS
    <2>3. \A o \in {} : f[o] \in Nat /\ f[o] \in Users /\ ~client[o].released
      OBVIOUS
    <2>4. \A o \in R : client[o].uid \in Users
      BY <1>1, OwnersSpeak
    <2> QED BY <1>2, <1>4, <2>1, <2>2, <2>3, <2>4, TellTold
  <1> QED BY <1>1, <1>2, <1>5

LEMMA ReleaseAllKeeps ==
    ASSUME IInv, NEW U \in SUBSET Users, ReleaseAll(U), UNCHANGED <<window, pids>>, now' = now,
           lost' = lost, context' \in [Users -> Contexts]
    PROVE  IInv'
  <1>1. PICK R \in SUBSET Owners : R = OwnersOf(U) /\ Told(R)
    BY ReleasesTold DEF ReleaseAll
  <1>2. session' = [u \in Users |-> IF u \in U THEN None ELSE session[u]]
    BY DEF ReleaseAll, Drop
  <1>3. session' \in [Users -> Session \cup {None}]
    BY <1>2 DEF IInv, Types
  <1>4. Sessions'
    <2> SUFFICES ASSUME NEW u \in Users, session'[u] # None
                 PROVE  /\ ~client'[session'[u].owner].released
                        /\ client'[session'[u].owner].sequence > 0
                        /\ client'[session'[u].owner].uid \in Users
                        /\ \A v \in Users : session'[v] # None /\ session'[v].owner = session'[u].owner
                                            => u = v
      BY DEF Sessions
    <2>1. u \notin U /\ session'[u] = session[u] /\ session[u] # None
      BY <1>2
    <2>2. PICK o \in Owners : o = session[u].owner
      BY <2>1 DEF IInv, Types, Session
    <2>3. /\ ~client[o].released /\ client[o].sequence > 0 /\ client[o].uid \in Users
          /\ \A v \in Users : session[v] # None /\ session[v].owner = o => u = v
      BY <2>1, <2>2 DEF IInv, Sessions
    <2>4. o \notin R
      BY <1>1, <2>1, <2>3 DEF OwnersOf
    <2>5. ~client'[o].released /\ client'[o].uid \in Users
      BY <1>1, <2>3, <2>4 DEF Told
    <2>6. client'[o].sequence > 0
      <3>1. client[o] \in Client /\ client'[o] \in Client /\ client'[o].sequence >= client[o].sequence
        BY <1>1 DEF Told, IInv, Types
      <3> QED BY <2>3, <3>1 DEF Client
    <2>7. ASSUME NEW v \in Users, session'[v] # None, session'[v].owner = session'[u].owner
          PROVE  u = v
      BY <1>2, <2>1, <2>2, <2>3, <2>7
    <2> QED BY <2>1, <2>2, <2>5, <2>6, <2>7
  <1> QED BY <1>1, <1>3, <1>4, ToldKeeps

LEMMA StopKeeps ==
    ASSUME IInv, NEW U \in SUBSET Users, Stop(U) PROVE IInv'
  <1>1. PICK R \in SUBSET Owners : R = OwnersOf(U) /\ Told(R)
    BY ReleasesTold DEF Stop
  <1>2. session' = [u \in Users |-> None]
    BY DEF Stop, Drop
  <1>3. session' \in [Users -> Session \cup {None}] /\ Sessions'
    BY <1>2 DEF Sessions
  <1>4. context' \in [Users -> Contexts] /\ now' = now /\ UNCHANGED <<window, pids>> /\ lost \subseteq lost'
    BY DEF Stop, IInv, Types
  <1> QED BY <1>1, <1>3, <1>4, ToldKeeps

\* A fresh name is no session's: the client of a session has spoken.
LEMMA FreshIsUnmade ==
    \A o \in Fresh : o \in Owners /\ client[o] = Unmade
  BY DEF Fresh

LEMMA TriggerKeeps ==
    ASSUME IInv, NEW u \in Users, NEW until \in Nat, Trigger(u, until) PROVE IInv'
  <1> DEFINE old == session[u]
             keeps == old # None /\ Same(old.context, context[u])
             end == IF keeps THEN Later(old.until, until) ELSE until
  <1>1. PICK o \in IF keeps THEN {old.owner} ELSE Fresh :
              /\ session' = [session EXCEPT
                                ![u] = [owner |-> o, until |-> end, context |-> context[u]]]
              /\ Tell(OwnersOf({u}) \ {o}, {o}, [x \in {o} |-> end], [x \in {o} |-> u])
    BY DEF Trigger
  <1>2. session \in [Users -> Session \cup {None}] /\ context[u] \in Contexts /\ now \in Nat
    BY DEF IInv, Types
  <1>3. end \in Nat
    BY <1>2 DEF Session, Later
  <1>4. PICK e : e = end
    OBVIOUS
  <1> HIDE DEF end
  <1>5. /\ o \in Owners /\ ~client[o].released
        /\ \A v \in Users \ {u} : session[v] # None => session[v].owner # o
    <2>1. CASE keeps
      BY <1>1, <1>2, <2>1 DEF IInv, Sessions, Session
    <2>2. CASE ~keeps
      <3>1. o \in Owners /\ client[o] = Unmade
        BY <1>1, <2>2, FreshIsUnmade
      <3>2. ~client[o].released /\ ~(client[o].sequence > 0)
        BY <3>1 DEF Unmade
      <3> QED BY <3>1, <3>2 DEF IInv, Sessions
    <2> QED BY <2>1, <2>2
  <1>6. PICK R : R = OwnersOf({u}) \ {o}
    OBVIOUS
  <1>7. R \in SUBSET Owners
    BY <1>6, OwnersAreOwners DEF IInv
  <1>8. PICK f, g : f = [x \in {o} |-> e] /\ g = [x \in {o} |-> u]
    OBVIOUS
  <1>9. Tell(R, {o}, f, g)
    BY <1>1, <1>4, <1>6, <1>8 DEF Tell
  <1>10. Told(R) /\ client'[o].uid \in Users /\ (client'[o].sequence > client[o].sequence \/ ~Refreshes(o, f[o]))
    <2>1. client \in [Owners -> Client] /\ wire \subseteq Message
      BY DEF IInv, Types
    <2>2. {o} \in SUBSET Owners /\ R \cap {o} = {}
      BY <1>5, <1>6
    <2>3. \A x \in {o} : f[x] \in Nat /\ g[x] \in Users /\ ~client[x].released
      BY <1>3, <1>4, <1>5, <1>8
    <2>4. \A x \in R : client[x].uid \in Users
      BY <1>6, OwnersSpeak
    <2>5. /\ Told(R)
          /\ \A x \in {o} : /\ client'[x].uid \in Users
                            /\ client'[x].sequence > client[x].sequence \/ ~Refreshes(x, f[x])
      BY <1>7, <1>9, <2>1, <2>2, <2>3, <2>4, TellTold
    <2> QED BY <2>5
  <1>11. client[o] \in Client /\ client'[o] \in Client /\ client'[o].sequence >= client[o].sequence
    BY <1>5, <1>10 DEF IInv, Types, Told
  <1>12. ~client'[o].released /\ client'[o].sequence > 0
    <2>1. ~client'[o].released
      BY <1>5, <1>6, <1>10 DEF Told
    <2>2. CASE keeps
      <3>1. client[o].sequence > 0
        BY <1>1, <2>2 DEF IInv, Sessions
      <3> QED BY <1>11, <2>1, <3>1 DEF Client
    <2>3. CASE ~keeps
      <3>1. client[o].until = 0
        BY <1>1, <2>3, FreshIsUnmade DEF Unmade
      <3>2. e > now
        BY <1>4, <2>3 DEF Trigger, end
      <3>3. Refreshes(o, f[o])
        BY <1>2, <1>3, <1>4, <1>8, <3>1, <3>2 DEF Refreshes
      <3> QED BY <1>10, <1>11, <2>1, <3>3 DEF Client
    <2> QED BY <2>2, <2>3
  <1>13. session' = [session EXCEPT ![u] = [owner |-> o, until |-> e, context |-> context[u]]]
    BY <1>1, <1>4
  <1>14. session' \in [Users -> Session \cup {None}]
    BY <1>2, <1>3, <1>4, <1>5, <1>13 DEF Session
  <1>15. session'[u].owner = o /\ \A v \in Users \ {u} : session'[v] = session[v]
    BY <1>2, <1>13
  <1>16. Sessions'
    <2> SUFFICES ASSUME NEW v \in Users, session'[v] # None
                 PROVE  /\ ~client'[session'[v].owner].released
                        /\ client'[session'[v].owner].sequence > 0
                        /\ client'[session'[v].owner].uid \in Users
                        /\ \A w \in Users : session'[w] # None /\ session'[w].owner = session'[v].owner
                                            => v = w
      BY DEF Sessions
    <2>1. CASE v = u
      BY <1>5, <1>10, <1>12, <1>15, <2>1
    <2>2. CASE v # u
      <3>1. session'[v] = session[v]
        BY <1>15, <2>2
      <3>2. PICK c \in Owners : c = session[v].owner
        BY <1>2, <3>1 DEF Session
      <3>3. /\ ~client[c].released /\ client[c].sequence > 0 /\ client[c].uid \in Users
            /\ \A w \in Users : session[w] # None /\ session[w].owner = c => v = w
        BY <3>1, <3>2 DEF IInv, Sessions
      <3>4. c \notin R /\ c # o
        BY <1>5, <1>6, <2>2, <3>1, <3>2, <3>3 DEF OwnersOf
      <3>5. ~client'[c].released /\ client'[c].uid \in Users
        BY <1>10, <3>3, <3>4 DEF Told
      <3>6. client'[c].sequence > 0
        <4>1. client[c] \in Client /\ client'[c] \in Client /\ client'[c].sequence >= client[c].sequence
          BY <1>10 DEF Told, IInv, Types
        <4> QED BY <3>3, <4>1 DEF Client
      <3> QED BY <1>15, <3>1, <3>2, <3>3, <3>4, <3>5, <3>6
    <2> QED BY <2>1, <2>2
  <1>17. context' \in [Users -> Contexts] /\ now' = now /\ UNCHANGED <<window, pids>> /\ lost \subseteq lost'
    BY DEF Trigger, IInv, Types
  <1> QED BY <1>10, <1>14, <1>16, <1>17, ToldKeeps

LEMMA TickKeeps ==
    ASSUME IInv, Tick PROVE IInv'
  <1> DEFINE over == {u \in Users : Ends(u)}
             kept == {u \in Users \ over : session[u] # None}
             UserOf(o) == CHOOSE u \in kept : session[u].owner = o
  <1>1. session \in [Users -> Session \cup {None}] /\ context \in [Users -> Contexts]
    BY DEF IInv, Types
  <1>2. /\ session' = [u \in Users |->
                          IF u \in over THEN None
                          ELSE IF u \in kept THEN [session[u] EXCEPT !.context = context[u]]
                          ELSE None]
        /\ Tell(OwnersOf(over), OwnersOf(kept),
                [o \in OwnersOf(kept) |-> session[UserOf(o)].until],
                [o \in OwnersOf(kept) |-> UserOf(o)])
    BY DEF Tick
  <1>3. over \in SUBSET Users /\ kept \in SUBSET Users /\ over \cap kept = {}
    OBVIOUS
  <1>4. \A u \in over \cup kept : session[u] # None
    BY DEF Ends
  <1>5. \A u \in kept : session[u] \in Session
    BY <1>1
  <1>6. PICK R, F : R = OwnersOf(over) /\ F = OwnersOf(kept)
    OBVIOUS
  <1>7. PICK f, g : /\ f = [o \in F |-> session[UserOf(o)].until]
                    /\ g = [o \in F |-> UserOf(o)]
    OBVIOUS
  <1>8. Tell(R, F, f, g)
    BY <1>2, <1>6, <1>7 DEF Tell
  <1>9. \A o \in F : \E u \in kept : session[u].owner = o
    BY <1>6 DEF OwnersOf
  <1>10. \A o \in F : UserOf(o) \in kept /\ session[UserOf(o)].owner = o
    BY <1>9
  <1>11. Told(R)
    <2>1. client \in [Owners -> Client] /\ wire \subseteq Message
      BY DEF IInv, Types
    <2>2. R \in SUBSET Owners /\ F \in SUBSET Owners
      BY <1>3, <1>6, OwnersAreOwners DEF IInv
    <2>3. R \cap F = {}
      <3> SUFFICES ASSUME NEW o \in R, o \in F PROVE FALSE
        OBVIOUS
      <3>1. PICK u \in over : o = session[u].owner
        BY <1>6 DEF OwnersOf
      <3>2. PICK v \in kept : o = session[v].owner
        BY <1>9
      <3> QED BY <1>3, <1>4, <3>1, <3>2 DEF IInv, Sessions
    <2>4. \A o \in F : f[o] \in Nat /\ g[o] \in Users /\ ~client[o].released
      <3> SUFFICES ASSUME NEW o \in F
                   PROVE  f[o] \in Nat /\ g[o] \in Users /\ ~client[o].released
        OBVIOUS
      <3>1. PICK u \in kept : u = UserOf(o) /\ session[u].owner = o
        BY <1>10
      <3>2. f[o] = session[u].until /\ g[o] = u
        BY <1>7, <3>1
      <3>3. session[u].until \in Nat
        BY <1>5 DEF Session
      <3>4. ~client[o].released
        BY <1>3, <1>4, <3>1 DEF IInv, Sessions
      <3> QED BY <1>3, <3>2, <3>3, <3>4
    <2>5. \A o \in R : client[o].uid \in Users
      BY <1>3, <1>6, OwnersSpeak
    <2> QED BY <1>8, <2>1, <2>2, <2>3, <2>4, <2>5, TellTold
  <1>12. ASSUME NEW u \in Users, session'[u] # None
         PROVE  u \in kept /\ session'[u].owner = session[u].owner /\ session'[u] \in Session
    <2>1. u \in kept /\ session'[u] = [session[u] EXCEPT !.context = context[u]]
      BY <1>2, <1>12
    <2> QED BY <1>1, <1>5, <2>1 DEF Session
  <1> HIDE DEF over, kept, UserOf
  <1>13. session' \in [Users -> Session \cup {None}]
    BY <1>2, <1>12
  <1>14. Sessions'
    <2> SUFFICES ASSUME NEW u \in Users, session'[u] # None
                 PROVE  /\ ~client'[session'[u].owner].released
                        /\ client'[session'[u].owner].sequence > 0
                        /\ client'[session'[u].owner].uid \in Users
                        /\ \A v \in Users : session'[v] # None /\ session'[v].owner = session'[u].owner
                                            => u = v
      BY DEF Sessions
    <2>1. u \in kept /\ session'[u].owner = session[u].owner /\ session[u] # None
      BY <1>4, <1>12
    <2>2. PICK o \in Owners : o = session[u].owner
      BY <1>5, <2>1 DEF Session
    <2>3. /\ ~client[o].released /\ client[o].sequence > 0 /\ client[o].uid \in Users
          /\ \A v \in Users : session[v] # None /\ session[v].owner = o => u = v
      BY <2>1, <2>2 DEF IInv, Sessions
    <2>4. o \notin R
      BY <1>3, <1>4, <1>6, <2>1, <2>3 DEF OwnersOf
    <2>5. ~client'[o].released /\ client'[o].uid \in Users
      BY <1>11, <2>3, <2>4 DEF Told
    <2>6. client'[o].sequence > 0
      <3>1. client[o] \in Client /\ client'[o] \in Client /\ client'[o].sequence >= client[o].sequence
        BY <1>11 DEF Told, IInv, Types
      <3> QED BY <2>3, <3>1 DEF Client
    <2>7. ASSUME NEW v \in Users, session'[v] # None, session'[v].owner = session'[u].owner
          PROVE  u = v
      <3>1. session[v] # None /\ session[v].owner = o
        BY <1>4, <1>12, <2>1, <2>2, <2>7
      <3> QED BY <2>3, <3>1
    <2> QED BY <2>1, <2>2, <2>5, <2>6, <2>7
  <1>15. context' \in [Users -> Contexts] /\ now' = now /\ UNCHANGED <<window, pids>> /\ lost \subseteq lost'
    BY <1>1 DEF Tick, env
  <1> QED BY <1>11, <1>13, <1>14, <1>15, ToldKeeps

\* A message that is cancelled loses its owner, so that owner is not settled.
LEMMA RestartKeeps ==
    ASSUME IInv, Restart PROVE IInv'
  <1>1. /\ wire' = {} /\ lost' = lost \cup {m.owner : m \in wire}
        /\ UNCHANGED <<context, session, client, now, hold, bridge, call, pids>>
    BY DEF Restart, window, env
  <1>2. Types' /\ Sessions' /\ Channel' /\ Recorded' /\ Closed' /\ Calling'
    BY <1>1 DEF IInv, Types, Sessions, Channel, Learnt, Recorded, Live, Closed, Calling
  <1>3. ASSUME NEW o \in Owners, Done(o)' PROVE Over(o)'
    <2>1. Done(o)
      BY <1>1, <1>3 DEF Done
    <2> QED BY <1>1, <2>1 DEF IInv, Over
  <1> QED BY <1>2, <1>3 DEF IInv

LEMMA TrackKeeps ==
    ASSUME IInv, NEW u \in Users, NEW c \in Contexts, Track(u, c) PROVE IInv'
  <1>1. /\ context' = [context EXCEPT ![u] = c]
        /\ UNCHANGED <<session, client, lost, wire, now, hold, bridge, call, pids>>
    BY DEF Track, window
  <1>2. Types'
    BY <1>1 DEF IInv, Types
  <1> QED BY <1>1, <1>2 DEF IInv, Sessions, Channel, Dated, Learnt, Recorded, Live, Closed,
                            Calling, Done, Over

-----------------------------------------------------------------------------
(* The steps of the rest of the world. *)

LEMMA WorldKeeps ==
    ASSUME IInv, World PROVE IInv'
  <1>1. CASE Enable
    <2>1. /\ hold' = IF enabled THEN [p \in Pids |-> [o \in Owners |-> 0]] ELSE hold
          /\ UNCHANGED <<context, session, client, lost, wire, now, bridge, call, pids>>
      BY <1>1 DEF Enable
    <2>2. Types'
      BY <2>1 DEF IInv, Types
    <2>3. Recorded'
      BY <2>1 DEF IInv, Types, Recorded, Live
    <2> QED BY <2>1, <2>2, <2>3 DEF IInv, Sessions, Channel, Dated, Learnt, Closed, Calling, Done, Over
  <1>2. CASE Clock
    <2>1. now' = now + 1 /\ UNCHANGED <<context, session, client, lost, wire, hold, bridge, call, pids>>
      BY <1>2 DEF Clock, window
    <2>2. Types'
      BY <2>1 DEF IInv, Types
    <2>3. Recorded'
      BY <2>1 DEF IInv, Types, Recorded, Live
    <2>4. ASSUME NEW o \in Owners, Over(o) PROVE Over(o)'
      BY <2>1, <2>4 DEF IInv, Types, Client, Over
    <2>5. \A o \in Owners : Done(o)' => Over(o)'
      BY <2>1, <2>4 DEF IInv, Done
    <2> QED BY <2>1, <2>2, <2>3, <2>5 DEF IInv, Sessions, Channel, Dated, Learnt, Closed, Calling
  <1>3. ASSUME NEW u \in Users, NEW P \in SUBSET Pids, Processes(u, P) PROVE IInv'
    <2>1. /\ pids' = [pids EXCEPT ![u] = P]
          /\ UNCHANGED <<context, session, client, lost, wire, now, hold, bridge, call>>
      BY <1>3 DEF Processes, window
    <2> QED BY <2>1 DEF IInv, Types, Sessions, Channel, Dated, Learnt, Recorded, Live, Closed,
                        Calling, Done, Over
  <1> QED BY <1>1, <1>2, <1>3 DEF World

-----------------------------------------------------------------------------
(* The steps of the bridge. *)

\* What the bridge knows of the owner of a message when it handles it.
LEMMA StateIsKnown ==
    ASSUME IInv, NEW m \in wire
    PROVE  LET s == StateOf(m) IN
           /\ s \in Memory
           /\ s.sequence <= client[m.owner].sequence /\ s.until <= client[m.owner].until
           /\ Forgotten(m.owner) => s.pids = {} /\ ~s.closed /\ s.sequence = 0 /\ s.until = m.until
           /\ ~Forgotten(m.owner) => s = bridge[m.owner] /\ bridge[m.owner] # None
           /\ s.closed => s.pids = {}
  <1>1. /\ m \in Message /\ m.owner \in Owners /\ m.until \in Nat
        /\ client[m.owner] \in Client /\ bridge[m.owner] \in Memory \cup {None}
    BY DEF IInv, Types, Message
  <1>2. m.until <= client[m.owner].until
    BY DEF IInv, Channel, Dated
  <1>3. CASE Forgotten(m.owner)
    <2>1. StateOf(m) = [sequence |-> 0, until |-> m.until, pids |-> {}, closed |-> FALSE]
      BY <1>3 DEF StateOf
    <2> QED BY <1>1, <1>2, <1>3, <2>1 DEF Memory, Client
  <1>4. CASE ~Forgotten(m.owner)
    <2>1. StateOf(m) = bridge[m.owner] /\ bridge[m.owner] # None
      BY <1>4 DEF StateOf, Forgotten
    <2> QED BY <1>1, <1>4, <2>1 DEF IInv, Channel, Learnt, Closed
  <1> QED BY <1>3, <1>4

\* An owner that is forgotten has no hold and no event left.
LEMMA ForgottenIsPast ==
    ASSUME IInv, NEW o \in Owners, Forgotten(o)
    PROVE  /\ \A p \in Pids : ~Live(p, o)
           /\ Over(o) => client[o].until < now
  <1>1. /\ now \in Nat /\ Retention \in Nat /\ client[o].until \in Nat
        /\ bridge[o] # None => bridge[o].until \in Nat
    BY TimesAreNatural DEF IInv, Types, Client, Memory
  <1>2. CASE bridge[o] = None
    BY <1>2 DEF IInv, Recorded, Over
  <1>3. CASE bridge[o] # None
    <2>1. bridge[o].until < now
      BY <1>1, <1>3 DEF Forgotten
    <2>2. ASSUME NEW p \in Pids, Live(p, o) PROVE FALSE
      <3>1. hold[p][o] \in Nat /\ hold[p][o] > now /\ hold[p][o] <= bridge[o].until
        BY <2>2 DEF IInv, Types, Recorded, Live
      <3> QED BY <1>1, <1>3, <2>1, <3>1
    <2>3. Over(o) => client[o].until < now
      BY <2>1 DEF Over
    <2> QED BY <2>2, <2>3
  <1> QED BY <1>2, <1>3

\* The bridge remembers s of the owner of m and forgets who is past.
LEMMA RememberKeeps ==
    ASSUME IInv, NEW m \in wire, NEW s \in Memory,
           call = None, wire' = wire \ {m}, bridge' = [Remembered EXCEPT ![m.owner] = s],
           UNCHANGED <<now, context, session, client, lost, pids>>,
           s.sequence <= client[m.owner].sequence, s.until <= client[m.owner].until,
           \A n \in wire \ {m} : n.owner = m.owner =>
               /\ n.sequence > s.sequence => s.until <= n.until
               /\ n.kind = "release" => s.sequence < n.sequence,
           s.closed => s.pids = {},
           hold' \in [Pids -> [Owners -> Nat]],
           \A p \in Pids, o \in Owners : hold'[p][o] = hold[p][o] \/ hold'[p][o] = 0,
           \A p \in Pids : hold'[p][m.owner] > now =>
               p \in s.pids /\ hold'[p][m.owner] <= s.until,
           call' \in Request \cup {None},
           call' # None => /\ call'.owner = m.owner /\ ~s.closed
                           /\ s.pids \subseteq call'.pids /\ call'.until <= s.until,
           Done(m.owner)' => Over(m.owner)'
    PROVE  IInv'
  <1>1. m.owner \in Owners /\ now \in Nat
    BY DEF IInv, Types, Message
  <1>2. /\ bridge'[m.owner] = s
        /\ \A o \in Owners \ {m.owner} : bridge'[o] = IF Forgotten(o) THEN None ELSE bridge[o]
    BY <1>1 DEF Remembered
  <1>3. s # None
    BY NoneIsNoRecord
  <1>4. Types'
    <2>1. bridge' \in [Owners -> Memory \cup {None}]
      BY <1>1 DEF Remembered, IInv, Types
    <2> QED BY <2>1 DEF IInv, Types
  <1>5. Sessions'
    BY DEF IInv, Sessions
  <1>6. Channel'
    <2>1. ASSUME NEW o \in Owners PROVE Learnt(o)'
      <3>1. CASE o = m.owner
        BY <1>2, <3>1 DEF Learnt
      <3>2. CASE o # m.owner
        <4>1. Learnt(o)
          BY DEF IInv, Channel
        <4> QED BY <1>2, <3>2, <4>1 DEF Learnt
      <3> QED BY <3>1, <3>2
    <2>2. \A n \in wire' : Dated(n)'
      BY DEF IInv, Channel, Dated
    <2>3. \A n, l \in wire' : n.owner = l.owner /\ n.sequence < l.sequence => n.until <= l.until
      BY DEF IInv, Channel
    <2> QED BY <2>1, <2>2, <2>3 DEF Channel
  <1>7. Recorded'
    <2> SUFFICES ASSUME NEW p \in Pids, NEW o \in Owners, hold'[p][o] > now
                 PROVE  bridge'[o] # None /\ p \in bridge'[o].pids /\ hold'[p][o] <= bridge'[o].until
      BY DEF Recorded, Live
    <2>1. CASE o = m.owner
      BY <1>2, <1>3, <2>1
    <2>2. CASE o # m.owner
      <3>1. hold'[p][o] = hold[p][o] /\ Live(p, o)
        BY <1>1 DEF Live
      <3>2. ~Forgotten(o)
        BY <3>1, ForgottenIsPast
      <3> QED BY <1>2, <2>2, <3>1, <3>2 DEF IInv, Recorded
    <2> QED BY <2>1, <2>2
  <1>8. Closed'
    BY <1>2 DEF IInv, Closed
  <1>9. Calling'
    BY <1>2, <1>3 DEF Calling
  <1>10. ASSUME NEW o \in Owners, Done(o)' PROVE Over(o)'
    <2>1. CASE o = m.owner
      BY <1>10, <2>1
    <2>2. CASE o # m.owner
      <3>1. Done(o)
        BY <1>10, <2>2 DEF Done
      <3>2. Over(o)
        BY <3>1 DEF IInv
      <3>3. call' = None \/ call'.owner # o
        BY <2>2
      <3>4. CASE Forgotten(o)
        BY <3>2, <3>3, <3>4, ForgottenIsPast DEF Over
      <3>5. CASE ~Forgotten(o)
        BY <1>2, <2>2, <3>2, <3>3, <3>5 DEF Over
      <3> QED BY <3>4, <3>5
    <2> QED BY <2>1, <2>2
  <1> QED BY <1>4, <1>5, <1>6, <1>7, <1>8, <1>9, <1>10 DEF IInv

\* A message that is not outdated: its number and its end are the latest there are, and
\* if it is the release it is the last.
LEMMA NotedIsLatest ==
    ASSUME IInv, NEW m \in wire, ~Outdated(m)
    PROVE  LET s == Noted(m) IN
           /\ s \in Memory /\ s.sequence = m.sequence /\ s.until = Later(StateOf(m).until, m.until)
           /\ s.pids = StateOf(m).pids /\ s.closed = StateOf(m).closed
           /\ s.sequence <= client[m.owner].sequence /\ s.until <= client[m.owner].until
           /\ \A n \in wire \ {m} : n.owner = m.owner =>
                /\ n.sequence > s.sequence => s.until <= n.until
                /\ n.kind = "release" => s.sequence < n.sequence
  <1>1. /\ m \in Message /\ m.until \in Nat /\ m.sequence \in Nat
        /\ m.owner \in Owners /\ client[m.owner] \in Client /\ Dated(m)
    BY DEF IInv, Types, Message, Channel
  <1>2. PICK k : k = StateOf(m)
    OBVIOUS
  <1>3. /\ k \in Memory /\ k.until <= client[m.owner].until
        /\ Forgotten(m.owner) => k.until = m.until
        /\ ~Forgotten(m.owner) => k = bridge[m.owner] /\ bridge[m.owner] # None
    BY <1>2, StateIsKnown
  <1>4. m.sequence > k.sequence
    BY <1>1, <1>2, <1>3 DEF Outdated, Memory
  <1>5. PICK s : s = Noted(m)
    OBVIOUS
  <1>6. s = [k EXCEPT !.sequence = m.sequence, !.until = Later(k.until, m.until)]
    BY <1>2, <1>5 DEF Noted
  <1>7. /\ s \in Memory /\ s.sequence = m.sequence /\ s.until = Later(k.until, m.until)
        /\ s.pids = k.pids /\ s.closed = k.closed
    BY <1>1, <1>3, <1>6 DEF Memory, Later
  <1>8. s.sequence <= client[m.owner].sequence /\ s.until <= client[m.owner].until
    BY <1>1, <1>3, <1>7 DEF Dated, Later
  <1>9. ASSUME NEW n \in wire \ {m}, n.owner = m.owner
        PROVE  /\ n.sequence > s.sequence => s.until <= n.until
               /\ n.kind = "release" => s.sequence < n.sequence
    <2>1. n \in Message /\ n.sequence \in Nat /\ n.until \in Nat /\ Dated(n)
      BY DEF IInv, Types, Message, Channel
    <2>2. ASSUME n.sequence > m.sequence PROVE s.until <= n.until
      <3>1. m.until <= n.until
        BY <1>1, <1>9, <2>1, <2>2 DEF IInv, Channel
      <3>2. k.until <= n.until
        <4>1. CASE Forgotten(m.owner)
          BY <1>3, <3>1, <4>1
        <4>2. CASE ~Forgotten(m.owner)
          <5>1. n.sequence > k.sequence
            BY <1>1, <1>3, <1>4, <2>1, <2>2 DEF Memory
          <5> QED BY <1>1, <1>3, <1>9, <4>2, <5>1 DEF IInv, Channel, Learnt
        <4> QED BY <4>1, <4>2
      <3> QED BY <1>7, <3>1, <3>2 DEF Later
    <2>3. ASSUME n.kind = "release" PROVE m.sequence < n.sequence
      <3>1. /\ client[m.owner].released /\ n.sequence = client[m.owner].sequence
            /\ n.until = client[m.owner].until
        BY <1>9, <2>1, <2>3 DEF Dated
      <3>2. CASE m.kind = "release"
        <4>1. m.sequence = n.sequence /\ m.until = n.until /\ m.kind = n.kind
          BY <1>1, <2>3, <3>1, <3>2 DEF Dated
        <4>2. m = n
          BY <1>1, <1>9, <2>1, <4>1 DEF Message
        <4> QED BY <4>2
      <3>3. CASE m.kind = "hold"
        BY <1>1, <3>1, <3>3 DEF Dated
      <3> QED BY <1>1, <3>2, <3>3 DEF Message
    <2> QED BY <1>7, <2>2, <2>3
  <1> QED BY <1>2, <1>5, <1>7, <1>8, <1>9

\* Once the release is handled, a hold is outdated or over.
LEMMA LateHold ==
    ASSUME IInv, NEW m \in wire, m.kind = "hold", Done(m.owner), ~Outdated(m)
    PROVE  client[m.owner].until < now /\ Closes(m)
  <1>1. /\ m.owner \in Owners /\ m.until \in Nat /\ client[m.owner].until \in Nat /\ now \in Nat
        /\ m.until <= client[m.owner].until
    BY DEF IInv, Types, Message, Client, Channel, Dated
  <1>2. Over(m.owner)
    BY <1>1 DEF IInv
  <1>3. client[m.owner].until < now
    <2>1. CASE Forgotten(m.owner)
      BY <1>1, <1>2, <2>1, ForgottenIsPast
    <2>2. CASE ~Forgotten(m.owner)
      <3>1. ~bridge[m.owner].closed
        BY <2>2 DEF Outdated, StateOf
      <3> QED BY <1>2, <3>1 DEF Over
    <2> QED BY <2>1, <2>2
  <1> QED BY <1>1, <1>3 DEF Closes

LEMMA HandleKeeps ==
    ASSUME IInv, NEW m \in wire, Handle(m) PROVE IInv'
  <1> DEFINE own == pids[client[m.owner].uid]
  <1>1. /\ call = None /\ wire' = wire \ {m}
        /\ UNCHANGED <<now, context, session, client, lost, pids>>
    BY DEF Handle, engine, env
  <1>2. /\ m \in Message /\ m.until \in Nat /\ m.sequence \in Nat /\ now \in Nat
        /\ m.owner \in Owners /\ client[m.owner] \in Client /\ Dated(m)
        /\ hold \in [Pids -> [Owners -> Nat]] /\ own \in SUBSET Pids
        /\ m.kind \in {"hold", "release"}
    BY DEF IInv, Types, Message, Channel, Dated
  <1>3. PICK k : k = StateOf(m)
    OBVIOUS
  <1>4. /\ k \in Memory
        /\ k.sequence <= client[m.owner].sequence /\ k.until <= client[m.owner].until
        /\ Forgotten(m.owner) => k.pids = {} /\ ~k.closed /\ k.sequence = 0
        /\ ~Forgotten(m.owner) => k = bridge[m.owner] /\ bridge[m.owner] # None
        /\ k.closed => k.pids = {}
    BY <1>3, StateIsKnown
  <1>5. ASSUME NEW p \in Pids, hold[p][m.owner] > now
        PROVE  p \in k.pids /\ hold[p][m.owner] <= k.until
    <2>1. ~Forgotten(m.owner)
      BY <1>2, <1>5, ForgottenIsPast DEF Live
    <2> QED BY <1>2, <1>4, <1>5, <2>1 DEF IInv, Recorded, Live
  <1>6. ASSUME NEW P, Unhold(P, m.owner)
        PROVE  /\ hold' \in [Pids -> [Owners -> Nat]]
               /\ \A p \in Pids, o \in Owners : hold'[p][o] = hold[p][o] \/ hold'[p][o] = 0
               /\ \A p \in Pids : hold'[p][m.owner] > now => p \notin P /\ hold[p][m.owner] > now
                                                           /\ hold'[p][m.owner] = hold[p][m.owner]
    BY <1>2, <1>6 DEF Unhold
  <1>7. m.kind = "hold" /\ Done(m.owner)' => Done(m.owner)
    BY <1>1 DEF Done
  <1>8. Noted(m) \in Memory
    BY <1>2, <1>3, <1>4 DEF Noted, Memory, Later
  <1>9. CASE /\ Outdated(m) /\ Remember(m, StateOf(m)) /\ UNCHANGED <<hold, call>>
    <2>1. ~Forgotten(m.owner)
      BY <1>2, <1>3, <1>4, <1>9 DEF Outdated, Dated
    <2>2. k = bridge[m.owner] /\ bridge[m.owner] # None
      BY <1>4, <2>1
    <2>3. Learnt(m.owner)
      BY <1>2 DEF IInv, Channel
    <2>4. m.kind = "hold"
      <3>1. CASE m.kind = "release"
        <4>1. bridge[m.owner].sequence < m.sequence
          BY <2>2, <2>3, <3>1 DEF Learnt
        <4> QED BY <1>2, <1>3, <1>4, <1>9, <2>2, <3>1, <4>1 DEF Outdated, Memory
      <3> QED BY <1>2, <3>1
    <2>5. bridge' = [Remembered EXCEPT ![m.owner] = k]
      BY <1>3, <1>9 DEF Remember
    <2>6. bridge'[m.owner] = bridge[m.owner]
      BY <1>2, <2>2, <2>5 DEF Remembered
    <2>7. Done(m.owner)' => Over(m.owner)'
      BY <1>1, <1>2, <1>7, <1>9, <2>4, <2>6 DEF IInv, Over
    <2>8. \A n \in wire \ {m} : n.owner = m.owner =>
               /\ n.sequence > k.sequence => k.until <= n.until
               /\ n.kind = "release" => k.sequence < n.sequence
      BY <2>2, <2>3 DEF Learnt
    <2> QED BY <1>1, <1>2, <1>4, <1>5, <1>9, <2>5, <2>7, <2>8, RememberKeeps
  <1>10. CASE /\ ~Outdated(m) /\ Closes(m)
              /\ Remember(m, [Noted(m) EXCEPT !.closed = TRUE, !.pids = {}])
              /\ Unhold(StateOf(m).pids, m.owner) /\ UNCHANGED call
    <2>1. PICK s : s = [Noted(m) EXCEPT !.closed = TRUE, !.pids = {}]
      OBVIOUS
    <2>2. /\ s \in Memory /\ s.closed /\ s.pids = {} /\ s.sequence = m.sequence
          /\ s.until = Noted(m).until /\ s.sequence = Noted(m).sequence
      BY <1>2, <1>8, <1>10, <2>1, NotedIsLatest DEF Memory
    <2>3. /\ s.sequence <= client[m.owner].sequence /\ s.until <= client[m.owner].until
          /\ \A n \in wire \ {m} : n.owner = m.owner =>
               /\ n.sequence > s.sequence => s.until <= n.until
               /\ n.kind = "release" => s.sequence < n.sequence
      BY <1>10, <2>2, NotedIsLatest
    <2>4. bridge' = [Remembered EXCEPT ![m.owner] = s]
      BY <1>10, <2>1 DEF Remember
    <2>5. /\ hold' \in [Pids -> [Owners -> Nat]]
          /\ \A p \in Pids, o \in Owners : hold'[p][o] = hold[p][o] \/ hold'[p][o] = 0
          /\ \A p \in Pids : ~(hold'[p][m.owner] > now)
      BY <1>3, <1>5, <1>6, <1>10
    <2>6. ASSUME Done(m.owner)' PROVE Over(m.owner)'
      <3>1. CASE m.kind = "release"
        <4>1. m.sequence = client[m.owner].sequence /\ m.until = client[m.owner].until
          BY <1>2, <3>1 DEF Dated
        <4>2. s.until = Later(k.until, m.until)
          BY <1>3, <1>10, <2>2, NotedIsLatest
        <4>3. s.until = client[m.owner].until
          BY <1>2, <1>4, <4>1, <4>2 DEF Later, Memory
        <4>4. bridge'[m.owner] = s /\ s # None
          BY <1>2, <2>2, <2>4, NoneIsNoRecord DEF Remembered
        <4> QED BY <1>1, <1>10, <2>2, <4>1, <4>3, <4>4 DEF Over
      <3>2. CASE m.kind = "hold"
        BY <1>1, <1>7, <1>10, <2>6, <3>2, LateHold DEF Over
      <3> QED BY <1>2, <3>1, <3>2
    <2>7. call' = None
      BY <1>1, <1>10
    <2> QED BY <1>1, <2>2, <2>3, <2>4, <2>5, <2>6, <2>7, RememberKeeps
  <1>11. ASSUME ~Outdated(m), ~Closes(m)
         PROVE  /\ m.kind = "hold" /\ ~k.closed /\ ~Done(m.owner)'
                /\ k.until <= Noted(m).until
    <2>1. m.kind = "hold"
      BY <1>2, <1>11 DEF Closes
    <2>2. ~k.closed
      BY <1>3, <1>11, <2>1 DEF Outdated
    <2>3. ~Done(m.owner)'
      BY <1>7, <1>11, <2>1, LateHold
    <2>4. k.until <= Noted(m).until
      <3>1. Noted(m).until = Later(k.until, m.until)
        BY <1>3, <1>11, NotedIsLatest
      <3> QED BY <1>2, <1>4, <3>1 DEF Later, Memory
    <2> QED BY <2>1, <2>2, <2>3, <2>4
  <1>12. CASE ~Outdated(m) /\ ~Closes(m) /\ ~enabled /\ Remember(m, Noted(m)) /\ UNCHANGED <<hold, call>>
    <2>1. PICK s : s = Noted(m)
      OBVIOUS
    <2>2. /\ s \in Memory /\ s.pids = k.pids /\ ~s.closed /\ k.until <= s.until
          /\ s.sequence <= client[m.owner].sequence /\ s.until <= client[m.owner].until
          /\ \A n \in wire \ {m} : n.owner = m.owner =>
               /\ n.sequence > s.sequence => s.until <= n.until
               /\ n.kind = "release" => s.sequence < n.sequence
      BY <1>3, <1>8, <1>11, <1>12, <2>1, NotedIsLatest
    <2>3. bridge' = [Remembered EXCEPT ![m.owner] = s]
      BY <1>12, <2>1 DEF Remember
    <2>4. \A p \in Pids : hold'[p][m.owner] > now => p \in s.pids /\ hold'[p][m.owner] <= s.until
      <3> SUFFICES ASSUME NEW p \in Pids, hold[p][m.owner] > now
                   PROVE  p \in s.pids /\ hold[p][m.owner] <= s.until
        BY <1>12
      <3>1. hold[p][m.owner] \in Nat /\ k.until \in Nat /\ s.until \in Nat
        BY <1>2, <1>4, <2>2 DEF Memory
      <3> QED BY <1>5, <2>2, <3>1
    <2>5. call' = None /\ hold' = hold
      BY <1>1, <1>12
    <2> QED BY <1>1, <1>2, <1>11, <1>12, <2>2, <2>3, <2>4, <2>5, RememberKeeps
  <1>13. CASE /\ ~Outdated(m) /\ ~Closes(m) /\ enabled
              /\ Remember(m, [Noted(m) EXCEPT !.pids = @ \cap own])
              /\ Unhold(StateOf(m).pids \ own, m.owner)
              /\ call' = IF own = {} THEN None
                         ELSE [owner |-> m.owner, until |-> m.until, pids |-> own, tested |-> FALSE]
    <2>1. PICK s : s = [Noted(m) EXCEPT !.pids = @ \cap own]
      OBVIOUS
    <2>2. /\ s \in Memory /\ s.pids = k.pids \cap own /\ ~s.closed
          /\ s.until = Noted(m).until /\ s.sequence = Noted(m).sequence
      BY <1>2, <1>3, <1>8, <1>11, <1>13, <2>1, NotedIsLatest DEF Memory
    <2>3. /\ s.sequence <= client[m.owner].sequence /\ s.until <= client[m.owner].until
          /\ \A n \in wire \ {m} : n.owner = m.owner =>
               /\ n.sequence > s.sequence => s.until <= n.until
               /\ n.kind = "release" => s.sequence < n.sequence
      BY <1>13, <2>2, NotedIsLatest
    <2>4. bridge' = [Remembered EXCEPT ![m.owner] = s]
      BY <1>13, <2>1 DEF Remember
    <2>5. /\ hold' \in [Pids -> [Owners -> Nat]]
          /\ \A p \in Pids, o \in Owners : hold'[p][o] = hold[p][o] \/ hold'[p][o] = 0
      BY <1>6, <1>13
    <2>6. ASSUME NEW p \in Pids, hold'[p][m.owner] > now
          PROVE  p \in s.pids /\ hold'[p][m.owner] <= s.until
      <3>1. /\ p \notin k.pids \ own /\ hold[p][m.owner] > now
            /\ hold'[p][m.owner] = hold[p][m.owner]
        BY <1>3, <1>6, <1>13, <2>6
      <3>2. p \in k.pids /\ hold[p][m.owner] <= k.until
        BY <1>5, <3>1
      <3>3. hold[p][m.owner] \in Nat /\ k.until \in Nat /\ s.until \in Nat /\ k.until <= s.until
        BY <1>2, <1>4, <1>11, <1>13, <2>2 DEF Memory
      <3> QED BY <2>2, <3>1, <3>2, <3>3
    <2>7. m.until <= s.until
      <3>1. s.until = Later(k.until, m.until)
        BY <1>3, <1>13, <2>2, NotedIsLatest
      <3> QED BY <1>2, <1>4, <3>1 DEF Later, Memory
    <2>8. /\ call' \in Request \cup {None}
          /\ call' # None => /\ call'.owner = m.owner /\ ~s.closed
                             /\ s.pids \subseteq call'.pids /\ call'.until <= s.until
      <3>1. CASE own = {}
        BY <1>13, <3>1
      <3>2. CASE own # {}
        BY <1>2, <1>13, <2>2, <2>7, <3>2 DEF Request
      <3> QED BY <3>1, <3>2
    <2>9. ~Done(m.owner)'
      BY <1>11, <1>13
    <2> QED BY <1>1, <2>2, <2>3, <2>4, <2>5, <2>6, <2>8, <2>9, RememberKeeps
  <1> QED BY <1>9, <1>10, <1>12, <1>13 DEF Handle

LEMMA TestKeeps ==
    ASSUME IInv, Test PROVE IInv'
  <1>1. UNCHANGED <<now, context, session, client, lost, pids, wire, bridge, hold>>
    BY DEF Test, engine, env
  <1>2. call' = None \/ (call # None /\ call' = [call EXCEPT !.tested = TRUE])
    BY DEF Test
  <1>3. call \in Request \cup {None}
    BY DEF IInv, Types
  <1>4. call' \in Request \cup {None}
    BY <1>2, <1>3 DEF Request
  <1>5. call' # None => /\ call # None /\ call'.owner = call.owner /\ call'.pids = call.pids
                        /\ call'.until = call.until
    BY <1>2, <1>3 DEF Request
  <1>6. Types'
    BY <1>1, <1>4 DEF IInv, Types
  <1>7. Calling'
    BY <1>1, <1>5 DEF IInv, Calling
  <1>8. \A o \in Owners : Done(o)' => Over(o)'
    BY <1>1, <1>5 DEF IInv, Done, Over
  <1> QED BY <1>1, <1>6, <1>7, <1>8 DEF IInv, Sessions, Channel, Dated, Learnt, Recorded, Live, Closed

LEMMA HoldKeeps ==
    ASSUME IInv, Hold PROVE IInv'
  <1>1. /\ call # None /\ call' = None
        /\ hold' = [p \in Pids |->
                       IF p \in call.pids THEN [hold[p] EXCEPT ![call.owner] = Later(@, call.until)]
                       ELSE hold[p]]
        /\ bridge' = [bridge EXCEPT ![call.owner].pids = call.pids]
        /\ UNCHANGED <<now, context, session, client, lost, pids, wire>>
    BY DEF Hold, engine, env
  <1>2. /\ call \in Request /\ call.owner \in Owners /\ call.until \in Nat /\ call.pids \in SUBSET Pids
        /\ bridge \in [Owners -> Memory \cup {None}]
        /\ hold \in [Pids -> [Owners -> Nat]] /\ now \in Nat
    BY <1>1 DEF IInv, Types, Request
  <1>3. /\ bridge[call.owner] \in Memory /\ ~bridge[call.owner].closed
        /\ bridge[call.owner].pids \subseteq call.pids
        /\ call.until <= bridge[call.owner].until
    BY <1>1, <1>2 DEF IInv, Calling
  <1>4. PICK s : s = [bridge[call.owner] EXCEPT !.pids = call.pids]
    OBVIOUS
  <1>5. /\ s \in Memory /\ s # None /\ s.pids = call.pids /\ ~s.closed
        /\ s.until = bridge[call.owner].until /\ s.sequence = bridge[call.owner].sequence
    BY <1>2, <1>3, <1>4, NoneIsNoRecord DEF Memory
  <1>6. /\ bridge' \in [Owners -> Memory \cup {None}]
        /\ bridge'[call.owner] = s
        /\ \A o \in Owners \ {call.owner} : bridge'[o] = bridge[o]
    BY <1>1, <1>2, <1>4, <1>5
  <1>7. /\ hold' \in [Pids -> [Owners -> Nat]]
        /\ \A p \in Pids, o \in Owners :
              hold'[p][o] = IF o = call.owner /\ p \in call.pids THEN Later(hold[p][o], call.until)
                            ELSE hold[p][o]
    BY <1>1, <1>2 DEF Later
  <1>8. Types'
    BY <1>1, <1>6, <1>7 DEF IInv, Types
  <1>9. Channel'
    <2>1. ASSUME NEW o \in Owners PROVE Learnt(o)'
      <3>1. Learnt(o)
        BY DEF IInv, Channel
      <3>2. bridge[call.owner] # None
        BY <1>1 DEF IInv, Calling
      <3> QED BY <1>1, <1>5, <1>6, <3>1, <3>2 DEF Learnt
    <2> QED BY <1>1, <2>1 DEF IInv, Channel, Dated
  <1>10. Recorded'
    <2> SUFFICES ASSUME NEW p \in Pids, NEW o \in Owners, hold'[p][o] > now
                 PROVE  bridge'[o] # None /\ p \in bridge'[o].pids /\ hold'[p][o] <= bridge'[o].until
      BY <1>1 DEF Recorded, Live
    <2>1. hold[p][o] > now => bridge[o] # None /\ p \in bridge[o].pids /\ hold[p][o] <= bridge[o].until
      BY DEF IInv, Recorded, Live
    <2>2. CASE o # call.owner
      BY <1>6, <1>7, <2>1, <2>2
    <2>3. CASE o = call.owner
      <3>1. CASE p \in call.pids
        <4>1. hold'[p][o] = Later(hold[p][o], call.until)
          BY <1>7, <2>3, <3>1
        <4>2. hold[p][o] \in Nat /\ bridge[o].until \in Nat
          BY <1>2, <1>3, <2>3 DEF Memory
        <4>3. hold'[p][o] <= bridge[o].until
          BY <1>2, <1>3, <2>1, <2>3, <4>1, <4>2 DEF Later
        <4> QED BY <1>5, <1>6, <2>3, <3>1, <4>3
      <3>2. CASE p \notin call.pids
        BY <1>3, <1>7, <2>1, <2>3, <3>2
      <3> QED BY <3>1, <3>2
    <2> QED BY <2>2, <2>3
  <1>11. Closed' /\ Calling' /\ Sessions'
    BY <1>1, <1>5, <1>6 DEF IInv, Closed, Calling, Sessions
  <1>12. \A o \in Owners : Done(o)' => Over(o)'
    BY <1>1, <1>6 DEF IInv, Done, Over
  <1> QED BY <1>8, <1>9, <1>10, <1>11, <1>12 DEF IInv

-----------------------------------------------------------------------------
LEMMA InitIInv == Init => IInv
  <1> SUFFICES ASSUME Init PROVE IInv
    OBVIOUS
  <1>1. Types
    BY DEF Init, Types, Client, Unmade
  <1>2. /\ wire = {} /\ call = None /\ now = 0
        /\ \A u \in Users : session[u] = None
        /\ \A o \in Owners : bridge[o] = None /\ client[o] = Unmade
        /\ \A p \in Pids, o \in Owners : hold[p][o] = 0
    BY DEF Init
  <1>3. Recorded
    BY <1>2 DEF Recorded, Live
  <1> QED BY <1>1, <1>2, <1>3 DEF IInv, Sessions, Channel, Learnt, Closed, Calling, Done, Unmade

LEMMA ChildKeeps ==
    ASSUME IInv, Child PROVE IInv'
  <1>1. ASSUME NEW u \in Users, NEW until \in 1 .. MaxTime + Duration, Trigger(u, until) PROVE IInv'
    <2>1. until \in Nat
      BY TimesAreNatural
    <2> QED BY <1>1, <2>1, TriggerKeeps
  <1>2. CASE Configure
    <2>1. ReleaseAll(Users) /\ UNCHANGED <<window, pids>> /\ now' = now /\ lost' = lost
      BY <1>2 DEF Configure
    <2>2. context' \in [Users -> Contexts]
      BY <1>2 DEF Configure, IInv, Types
    <2> QED BY <2>1, <2>2, ReleaseAllKeeps
  <1>3. ASSUME NEW u \in Users, Untrack(u) PROVE IInv'
    <2>1. ReleaseAll({u}) /\ UNCHANGED <<window, pids>> /\ now' = now /\ lost' = lost
      BY <1>3 DEF Untrack
    <2>2. context' \in [Users -> Contexts] /\ {u} \in SUBSET Users
      BY <1>3 DEF Untrack, IInv, Types
    <2> QED BY <2>1, <2>2, ReleaseAllKeeps
  <1>4. CASE Shutdown \/ Crash
    BY <1>4, StopKeeps DEF Shutdown, Crash
  <1> QED BY <1>1, <1>2, <1>3, <1>4, TickKeeps, RestartKeeps, TrackKeeps DEF Child

LEMMA NextIInv == IInv /\ [Next]_vars => IInv'
  <1> SUFFICES ASSUME IInv, [Next]_vars PROVE IInv'
    OBVIOUS
  <1>1. CASE UNCHANGED vars
    BY <1>1 DEF vars, engine, window, env, IInv, Types, Sessions, Channel, Dated, Learnt, Recorded,
                Live, Closed, Calling, Done, Over
  <1>2. CASE Child
    BY <1>2, ChildKeeps
  <1>3. CASE Bridge
    BY <1>3, HandleKeeps, TestKeeps, HoldKeeps DEF Bridge
  <1>4. CASE World
    BY <1>4, WorldKeeps
  <1> QED BY <1>1, <1>2, <1>3, <1>4 DEF Next

(***************************************************************************)
(* The inductive invariant: the clients, their messages, the bridge and    *)
(* the limiter of src/bes_event_holds.py agree as Channel, Recorded and    *)
(* Over say, in any order of the messages.                                 *)
(***************************************************************************)
THEOREM Invariance == Spec => []IInv
  <1>1. Init => IInv
    BY InitIInv
  <1>2. IInv /\ [Next]_vars => IInv'
    BY NextIInv
  <1> QED BY <1>1, <1>2, PTL DEF Spec

(***************************************************************************)
(* Nothing is held in the name of a client that has released and whose     *)
(* messages are handled: its owner is closed, or its last end has passed   *)
(* (BESHoldBridge.handle).                                                 *)
(***************************************************************************)
THEOREM QuietAfterRelease == Spec => []ReleasedIsQuiet
  <1>1. IInv => ReleasedIsQuiet
    <2> SUFFICES ASSUME IInv, NEW o \in Owners, Settled(o), NEW p \in Pids, Live(p, o) PROVE FALSE
      BY DEF ReleasedIsQuiet
    <2>1. Done(o)
      BY DEF Settled, Done
    <2>2. Over(o)
      BY <2>1 DEF IInv
    <2>3. /\ bridge[o] # None /\ p \in bridge[o].pids /\ hold[p][o] <= bridge[o].until
          /\ bridge[o].until <= client[o].until
      BY DEF IInv, Recorded, Channel, Learnt
    <2>4. ~(client[o].until < now)
      <3>1. bridge[o] \in Memory /\ client[o] \in Client /\ hold[p][o] \in Nat /\ now \in Nat
        BY <2>3 DEF IInv, Types
      <3> QED BY <2>3, <3>1 DEF Live, Memory, Client
    <2> QED BY <2>2, <2>3, <2>4 DEF IInv, Over, Closed
  <1> QED BY <1>1, Invariance, PTL

\* A message that closes its owner comes from a release, or no hold outlasts it.
LEMMA ClosingIsExcused ==
    ASSUME IInv, NEW m \in wire, ~Outdated(m), Closes(m), NEW p \in Pids, Live(p, m.owner)
    PROVE  client[m.owner].released
  <1>1. /\ m \in Message /\ m.owner \in Owners /\ m.until \in Nat /\ m.sequence \in Nat /\ now \in Nat
        /\ Dated(m) /\ hold[p][m.owner] \in Nat
    BY DEF IInv, Types, Message, Channel
  <1>2. /\ bridge[m.owner] \in Memory /\ bridge[m.owner] # None
        /\ hold[p][m.owner] <= bridge[m.owner].until
    BY <1>1 DEF IInv, Types, Recorded
  <1>3. ~Forgotten(m.owner)
    BY <1>1, ForgottenIsPast
  <1>4. m.sequence > bridge[m.owner].sequence
    BY <1>1, <1>2, <1>3 DEF Outdated, StateOf, Memory
  <1>5. bridge[m.owner].until <= m.until
    BY <1>1, <1>2, <1>4 DEF IInv, Channel, Learnt
  <1>6. ~(m.until <= now)
    BY <1>1, <1>2, <1>5 DEF Live, Memory
  <1> QED BY <1>1, <1>6 DEF Closes, Dated

(***************************************************************************)
(* A hold that is not over is taken away only for a reason: an end that a  *)
(* later message brings is never earlier, so what closes an owner early is *)
(* its release (BESHoldBridge.handle).                                     *)
(***************************************************************************)
THEOREM HoldsLast == Spec => NotCutShort
  <1>1. ASSUME IInv, [Next]_vars, NEW p \in Pids, NEW o \in Owners, Live(p, o), hold'[p][o] = 0
        PROVE  Excused(p, o)
    <2>1. hold \in [Pids -> [Owners -> Nat]] /\ now \in Nat /\ hold[p][o] > 0
      BY <1>1 DEF IInv, Types, Live
    <2>2. hold' # hold
      BY <1>1, <2>1
    <2>3. CASE UNCHANGED vars \/ Child
      BY <2>2, <2>3 DEF vars, window, env, Child, Trigger, Tick, Configure, Restart, Shutdown, Crash,
                        Stop, Untrack, Track
    <2>4. ASSUME NEW m \in wire, Handle(m) PROVE Excused(p, o)
      <3>1. CASE ~Outdated(m) /\ Closes(m) /\ Unhold(StateOf(m).pids, m.owner)
        <4>1. m.owner = o
          BY <1>1, <2>1, <3>1 DEF Unhold
        <4> QED BY <1>1, <3>1, <4>1, ClosingIsExcused DEF Excused
      <3>2. CASE Unhold(StateOf(m).pids \ pids[client[m.owner].uid], m.owner)
        <4>1. m.owner = o /\ p \notin pids[client[o].uid]
          BY <1>1, <2>1, <3>2 DEF Unhold
        <4> QED BY <4>1 DEF Excused
      <3> QED BY <2>2, <2>4, <3>1, <3>2 DEF Handle
    <2>5. CASE Test
      BY <2>2, <2>5 DEF Test
    <2>6. CASE Hold
      <3>1. call \in Request
        BY <1>1, <2>6 DEF IInv, Types, Hold
      <3>2. hold'[p][o] = hold[p][o] \/ hold'[p][o] = Later(hold[p][o], call.until)
        BY <2>1, <2>6 DEF Hold
      <3> QED BY <1>1, <2>1, <3>1, <3>2 DEF Later, Request
    <2>7. CASE World
      BY <1>1, <2>2, <2>7 DEF World, Enable, Clock, Processes, window, Excused
    <2> QED BY <1>1, <2>3, <2>4, <2>5, <2>6, <2>7 DEF Next, Bridge
  <1>2. IInv /\ [Next]_vars =>
          [\A p \in Pids, o \in Owners : Live(p, o) /\ hold'[p][o] = 0 => Excused(p, o)]_vars
    BY <1>1
  <1> QED BY <1>2, Invariance, PTL DEF Spec, NotCutShort
=============================================================================
