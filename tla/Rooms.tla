------------------------------- MODULE Rooms -------------------------------
(***************************************************************************)
(* The room manager of internal/rooms/manager.go: the table of rooms, the  *)
(* admission of two client identities per room, the binding of a client to *)
(* its current connection, expiry, empty-room grace and the room cap.      *)
(*                                                                         *)
(* Every method runs under Manager.mu and is one action, except Create,    *)
(* which reads the clock before it takes the lock (line 119 against line   *)
(* 130) and is therefore two.  The caller is arbitrary: any method may be  *)
(* called at any time with any argument, so what is shown here holds for   *)
(* every use the signaling handler and the HTTP layer make of the manager. *)
(***************************************************************************)
EXTENDS Integers, FiniteSets

CONSTANTS
  RoomIds,    \* values randomToken(18) can return as room ids
  Clients,    \* client ids the browsers present
  Peers,      \* *Peer objects, one per accepted WebSocket
  ClientOf,   \* Peer.ID
  NoPeer,     \* absence of an entry in Room.peers
  TTL,        \* Manager.ttl
  Grace,      \* Manager.emptyGrace
  MaxRooms,   \* Manager.maxRooms, 0 for unbounded
  MaxTime     \* bound of the model: the clock stops here

\* config.Load refuses a non-positive ROOM_TTL and negative grace or cap.
ASSUME RoomsAssumption ==
  /\ NoPeer \notin Peers
  /\ ClientOf \in [Peers -> Clients]
  /\ TTL \in Nat \ {0}
  /\ Grace \in Nat
  /\ MaxRooms \in Nat
  /\ MaxTime \in Nat

\* A map of rooms is finite; so is the set of ids ever drawn.
ASSUME FiniteRoomIds == IsFiniteSet(RoomIds)

VARIABLES
  now,        \* what m.now() returns
  rooms,      \* the keys of m.rooms
  room,       \* room[r]: the fields of m.rooms[r]; Blank when r is no key
  drawn,      \* ids already drawn by randomToken, never drawn again
  creating,   \* creating[r]: clock read by a Create still waiting for mu
  spent,      \* peers already handed to Join, each exactly once
  dead        \* peers whose dead channel is closed

vars == <<now, rooms, room, drawn, creating, spent, dead>>

-----------------------------------------------------------------------------
(* Values *)

NoTime == -1

\* NoRole: the client has no entry in Room.roles.
NoRole == "none"
Roles == {NoRole, "caller", "callee"}

\* A session token is an unguessable fresh string, named here by the room and
\* the client it was minted for; <<>> is the empty string.
NoToken == <<>>
Token(r, c) == <<r, c>>
Tokens == (RoomIds \X Clients) \cup {NoToken}

Room == [expiresAt       : Nat,
         peers           : [Clients -> Peers \cup {NoPeer}],
         roles           : [Clients -> Roles],
         sessionTokens   : [Clients -> Tokens],
         hadParticipants : BOOLEAN,
         emptySince      : Nat \cup {NoTime}]

ExpiryOf(at) == at + TTL

NewRoom(expiry) ==
  [expiresAt       |-> expiry,
   peers           |-> [c \in Clients |-> NoPeer],
   roles           |-> [c \in Clients |-> NoRole],
   sessionTokens   |-> [c \in Clients |-> NoToken],
   hadParticipants |-> FALSE,
   emptySince      |-> NoTime]

\* What the model keeps for an id that is no key of m.rooms.
Blank == NewRoom(0)

\* Clients holding a role, and clients holding a connection.
Members(r) == {c \in Clients : room[r].roles[c] # NoRole}
Connected(r) == {c \in Clients : room[r].peers[c] # NoPeer}

\* The connections of a room, as Broadcast and killPeersLocked range over them.
PeersOf(r) == {room[r].peers[c] : c \in Connected(r)}

IsCurrent(r, p) == r \in rooms /\ room[r].peers[ClientOf[p]] = p

Expired(r, at) == at >= room[r].expiresAt

\* Status.Exists and Status.Participants, the only answer GET /api/rooms gives.
Status(r) == IF r \in rooms /\ ~Expired(r, now)
             THEN [exists |-> TRUE, participants |-> Cardinality(Connected(r))]
             ELSE [exists |-> FALSE, participants |-> 0]

\* evictLocked: the rooms a sweep with clock value `at' removes.
EmptyTooLong(r, at) ==
  /\ room[r].emptySince # NoTime
  /\ at - room[r].emptySince >= Grace

Collectable(at) == {r \in rooms : Expired(r, at) \/ EmptyTooLong(r, at)}

\* MUTANT: rooms are dropped without closing the connections they hold.
KillNobody(rs) == dead' = dead

\* killPeersLocked for every room of a set.
KillPeersOf(rs) == dead' = dead \cup UNION {PeersOf(r) : r \in rs}

\* MUTANT: off by one at the cap.
AtCapLate(rs) == MaxRooms > 0 /\ Cardinality(rs) > MaxRooms

AtCap(rs) == MaxRooms > 0 /\ Cardinality(rs) >= MaxRooms

-----------------------------------------------------------------------------
Init ==
  /\ now = 0
  /\ rooms = {}
  /\ room = [r \in RoomIds |-> Blank]
  /\ drawn = {}
  /\ creating = [r \in RoomIds |-> NoTime]
  /\ spent = {}
  /\ dead = {}

\* Time passes.
Tick ==
  /\ now < MaxTime
  /\ now' = now + 1
  /\ UNCHANGED <<rooms, room, drawn, creating, spent, dead>>

\* Create, up to the lock: draw an id and read the clock.
CreateBegin(r) ==
  /\ r \notin drawn
  /\ drawn' = drawn \cup {r}
  /\ creating' = [creating EXCEPT ![r] = now]
  /\ UNCHANGED <<now, rooms, room, spent, dead>>

\* Create, under the lock: at the cap, first reclaim what is collectable.
CreateLocked(r) ==
  LET at == creating[r]
      evicted == IF AtCap(rooms) THEN Collectable(at) ELSE {}
      kept == rooms \ evicted
      Cleared == [q \in RoomIds |-> IF q \in evicted THEN Blank ELSE room[q]]
  IN /\ creating[r] # NoTime
     /\ creating' = [creating EXCEPT ![r] = NoTime]
     /\ KillPeersOf(evicted)
     /\ \/ /\ AtCap(kept)                                 \* ErrAtCapacity
           /\ rooms' = kept
           /\ room' = Cleared
        \/ /\ ~AtCap(kept)
           /\ rooms' = kept \cup {r}
           /\ room' = [Cleared EXCEPT ![r] = NewRoom(ExpiryOf(at))]
     /\ UNCHANGED <<now, drawn, spent>>

\* MUTANT: the third party is judged by the connections, not by the roles.
JoinByConnections(r, c, secretOK, sessionToken) ==
  IF r \notin rooms THEN "room_not_found"
  ELSE IF Expired(r, now) THEN "room_expired"
  ELSE IF ~secretOK THEN "unauthorized"
  ELSE IF c \notin Members(r)
       THEN IF Cardinality(Connected(r)) >= 2 THEN "room_full" ELSE "ok"
       ELSE IF sessionToken # room[r].sessionTokens[c] THEN "unauthorized" ELSE "ok"

\* The early returns of Join, in their order; "ok" when it goes through.
JoinResult(r, c, secretOK, sessionToken) ==
  IF r \notin rooms THEN "room_not_found"
  ELSE IF Expired(r, now) THEN "room_expired"
  ELSE IF ~secretOK THEN "unauthorized"
  ELSE IF c \notin Members(r)
       THEN IF Cardinality(Members(r)) >= 2 THEN "room_full" ELSE "ok"
       ELSE IF \/ room[r].sessionTokens[c] = NoToken
               \/ sessionToken # room[r].sessionTokens[c]
            THEN "unauthorized" ELSE "ok"

RoleFor(r, c) ==
  IF c \in Members(r) THEN room[r].roles[c]
  ELSE IF Members(r) = {} THEN "caller" ELSE "callee"

\* The room as a successful Join of p leaves it.
Admitted(r, p) ==
  LET c == ClientOf[p]
  IN [room[r] EXCEPT !.roles = [@ EXCEPT ![c] = RoleFor(r, c)],
                     !.sessionTokens = [@ EXCEPT ![c] = Token(r, c)],
                     !.peers = [@ EXCEPT ![c] = p],
                     !.hadParticipants = TRUE,
                     !.emptySince = NoTime]

\* An expired room is dropped on the way out, its peers are not killed.
Join(r, p, secretOK, sessionToken) ==
  LET result == JoinResult(r, ClientOf[p], secretOK, sessionToken)
  IN /\ p \notin spent
     /\ spent' = spent \cup {p}
     /\ \/ /\ result = "ok"
           /\ room' = [room EXCEPT ![r] = Admitted(r, p)]
           /\ UNCHANGED rooms
        \/ /\ result = "room_expired"
           /\ rooms' = rooms \ {r}
           /\ room' = [room EXCEPT ![r] = Blank]
        \/ /\ result \notin {"ok", "room_expired"}
           /\ UNCHANGED <<rooms, room>>
     /\ UNCHANGED <<now, drawn, creating, dead>>

\* MUTANT: any departure starts the grace period.
DepartedAlwaysEmpty(r, c) ==
  [room[r] EXCEPT !.peers = [@ EXCEPT ![c] = NoPeer], !.emptySince = now]

\* The room as a Leave of the current connection of c leaves it.
Departed(r, c) ==
  [room[r] EXCEPT !.peers = [@ EXCEPT ![c] = NoPeer],
                  !.emptySince = IF Connected(r) = {c} /\ room[r].hadParticipants
                                 THEN now ELSE @]

\* MUTANT: the deferred Leave of a replaced socket evicts its successor.
LeaveStale(r, p) ==
  /\ p \in spent
  /\ room' = [room EXCEPT ![r] = IF r \in rooms /\ ClientOf[p] \in Connected(r)
                                 THEN Departed(r, ClientOf[p]) ELSE @]
  /\ UNCHANGED <<now, rooms, drawn, creating, spent, dead>>

\* A Leave by a connection that is not the current one changes nothing.
Leave(r, p) ==
  /\ p \in spent
  /\ room' = [room EXCEPT ![r] = IF IsCurrent(r, p)
                                 THEN Departed(r, ClientOf[p]) ELSE @]
  /\ UNCHANGED <<now, rooms, drawn, creating, spent, dead>>

\* Delete, and a Cleanup that finds the rooms rs collectable.
Remove(rs) ==
  /\ rooms' = rooms \ rs
  /\ room' = [q \in RoomIds |-> IF q \in rs THEN Blank ELSE room[q]]
  /\ KillPeersOf(rs)
  /\ UNCHANGED <<now, drawn, creating, spent>>

\* MUTANT: the sweep forgets rooms that were never joined or are occupied.
CleanupEmptyOnly == Remove({r \in rooms : EmptyTooLong(r, now)})

\* MUTANT: the sweep does not wait for the end of the grace period.
CleanupAtOnce ==
  Remove({r \in rooms : Expired(r, now) \/ room[r].emptySince # NoTime})

Delete(r) == Remove({r} \cap rooms)

Cleanup == Remove(Collectable(now))

\* Enqueue finds the send buffer full and kills the peer.
Kill(p) ==
  /\ p \in spent
  /\ dead' = dead \cup {p}
  /\ UNCHANGED <<now, rooms, room, drawn, creating, spent>>

Next ==
  \/ Tick
  \/ \E r \in RoomIds : CreateBegin(r)
  \/ \E r \in RoomIds : CreateLocked(r)
  \/ \E r \in RoomIds, p \in Peers, s \in BOOLEAN, t \in Tokens : Join(r, p, s, t)
  \/ \E r \in RoomIds, p \in Peers : Leave(r, p)
  \/ \E r \in RoomIds : Delete(r)
  \/ Cleanup
  \/ \E p \in Peers : Kill(p)

\* The clock runs, and main's ticker goroutine calls Cleanup for as long as
\* the process lives.  Nothing obliges a browser to call anything.
Fairness == WF_vars(Tick) /\ WF_vars(Cleanup)

Spec == Init /\ [][Next]_vars

FairSpec == Spec /\ Fairness
-----------------------------------------------------------------------------
(* Properties *)

\* Type invariant: the table's fields have their types, a room exists only
\* under a drawn id that no Create still holds.
TypeOK ==
  /\ now \in 0..MaxTime
  /\ drawn \subseteq RoomIds
  /\ rooms \subseteq drawn
  /\ room \in [RoomIds -> Room]
  /\ creating \in [RoomIds -> 0..MaxTime \cup {NoTime}]
  /\ spent \subseteq Peers
  /\ dead \subseteq Peers
  /\ \A r \in RoomIds : creating[r] # NoTime => r \in drawn \ rooms

\* The separate fields Join and Leave maintain agree with one another: a
\* connection belongs to a member and carries that member's client id; a
\* member holds exactly the token minted for it; hadParticipants says that the
\* room has members; and emptySince is set exactly when a room that had
\* participants has no connection left, never to a time to come.  An id that
\* is no key holds nothing.
CoherentRoom(r) ==
  /\ \A c \in Clients :
       /\ c \in Connected(r) =>
            /\ c \in Members(r)
            /\ room[r].peers[c] \in spent
            /\ ClientOf[room[r].peers[c]] = c
       /\ room[r].sessionTokens[c] = IF c \in Members(r) THEN Token(r, c) ELSE NoToken
  /\ room[r].hadParticipants <=> Members(r) # {}
  /\ room[r].emptySince # NoTime <=> Members(r) # {} /\ Connected(r) = {}
  /\ room[r].emptySince <= now

Coherent ==
  /\ \A r \in rooms : CoherentRoom(r)
  /\ \A r \in RoomIds \ rooms : room[r] = Blank
  /\ \A r \in RoomIds : creating[r] <= now

\* A room is for two: no two identities ever hold the same role, so there are
\* at most two members, through every sequence of drops, rejoins and late
\* arrivals; and there is a callee only where there is a caller.
TwoParty ==
  \A r \in rooms :
    /\ \A c, d \in Members(r) : room[r].roles[c] = room[r].roles[d] => c = d
    /\ Members(r) # {} => \E c \in Members(r) : room[r].roles[c] = "caller"

\* The three together are inductive: TwoParty needs that hadParticipants and
\* the members agree, Coherent needs the types.
IndInv == TypeOK /\ Coherent /\ TwoParty

\* However many Creates race for the last slot, the cap is never exceeded.
Capacity == MaxRooms > 0 => Cardinality(rooms) <= MaxRooms

\* A member keeps the role it was given for as long as the room lives: the
\* caller of a call never comes back as callee after a reconnect.
RoleStable ==
  [][\A r \in rooms \cap rooms' : \A c \in Members(r) :
       room'[r].roles[c] = room[r].roles[c]]_vars

\* The connection of a client is replaced only by a newer one of the same
\* client, and given up only by its own Leave or with the room: the deferred
\* Leave of a replaced socket never evicts its successor.
OwnLeaveOnly ==
  [][\A r \in rooms \cap rooms' : \A c \in Connected(r) :
       LET before == room[r].peers[c]
           after == room'[r].peers[c]
       IN after # before =>
            /\ after = NoPeer \/ after \in Peers \ spent
            /\ \A p \in Peers : Leave(r, p) => p = before]_vars

\* Removing a room closes the connections it holds, so that no handler is left
\* serving a room that is gone.  The one exception in the code is a Join that
\* meets an expired room: it drops the entry and kills nobody.
KilledOnRemoval ==
  [][\A r \in rooms \ rooms' :
       \/ PeersOf(r) \subseteq dead'
       \/ spent' # spent /\ Expired(r, now)]_vars

\* No room outlives its time to live for ever, whatever its clients do.
EveryRoomEnds ==
  \A r \in RoomIds :
    r \in rooms /\ room[r].expiresAt <= MaxTime ~> r \notin rooms

-----------------------------------------------------------------------------
(* Refinement: the seats of a room, see Admission. *)

phase ==
  [r \in RoomIds |->
     IF r \in rooms THEN "open"
     ELSE IF r \in drawn /\ creating[r] = NoTime THEN "gone" ELSE "none"]

holders == [r \in RoomIds |-> {<<room[r].roles[c], c>> : c \in Members(r)}]

A == INSTANCE Admission WITH phase <- phase, holders <- holders

\* The manager implements the admission promise.
AdmissionSpec == A!Spec

=============================================================================
