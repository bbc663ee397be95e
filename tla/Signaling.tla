----------------------------- MODULE Signaling -----------------------------
(***************************************************************************)
(* The WebSocket handler of internal/signaling/handler.go on top of the    *)
(* room manager: one goroutine per connection that joins, announces,       *)
(* relays, leaves and closes, one writePump per connection, and the        *)
(* delayed deletion of a hangup.                                           *)
(*                                                                         *)
(* The manager's state and operations are those of module Rooms, and every *)
(* step here is a step of Rooms or leaves its state alone (RoomsSpec).     *)
(* Each use of the manager's lock is a step of its own: between the        *)
(* IsCurrent test, the snapshot Broadcast takes of the room, the Enqueue   *)
(* calls that follow it and Leave, every other goroutine may run.          *)
(*                                                                         *)
(* A connection is seen here through what Peer shows of it: messages reach *)
(* the browser in the order Enqueue accepted them, up to a point, and a    *)
(* peer whose buffer is found full is killed.  So the queue and the socket *)
(* are one sequence, inbox, and a full buffer is a choice of Enqueue.      *)
(***************************************************************************)
EXTENDS Integers, FiniteSets, Sequences

CONSTANTS
  RoomIds, Clients, Peers, ClientOf, NoPeer,   \* as in Rooms
  TTL, Grace, MaxRooms, MaxTime,               \* as in Rooms
  NoRoom,      \* the connection has joined no room
  Stalling,    \* connections whose send buffer may be found full
  Kinds,       \* kinds of frames the browsers send after joining
  Talkers,     \* bound of the model: connections whose browsers send frames
  MaxFrames    \* bound of the model: how many each of them sends

\* As in Rooms.
ASSUME ManagerAssumption ==
  /\ NoPeer \notin Peers
  /\ ClientOf \in [Peers -> Clients]
  /\ TTL \in Nat \ {0}
  /\ Grace \in Nat
  /\ MaxRooms \in Nat
  /\ MaxTime \in Nat

ASSUME FiniteRoomIds == IsFiniteSet(RoomIds)

ASSUME SignalingAssumption ==
  /\ NoRoom \notin RoomIds
  /\ Stalling \subseteq Peers
  /\ Kinds \subseteq {"reply", "hangup", "relay"}
  /\ Talkers \subseteq Peers
  /\ MaxFrames \in Nat

VARIABLES
  now, rooms, room, drawn, creating, spent, dead,   \* the manager, as in Rooms
  pc,        \* pc[p]: where the ServeHTTP goroutine of p is
  at,        \* at[p]: first.Room
  job,       \* job[p]: the Broadcast p is in the middle of
  frames,    \* frames[p]: frames read since the join
  relayed,   \* relayed[p]: how many of them were handed to Broadcast
  inbox,     \* inbox[p]: messages Enqueue accepted for p, in order
  sock,      \* sock[p]: the socket of p is open
  timers     \* rooms a goroutine of a hangup will delete

roomVars == <<now, rooms, room, drawn, creating, spent, dead>>
vars == <<now, rooms, room, drawn, creating, spent, dead,
          pc, at, job, frames, relayed, inbox, sock, timers>>

R == INSTANCE Rooms

-----------------------------------------------------------------------------
(* Messages; `from' is the connection whose handler sends it. *)

Msg(type, p, n) == [type |-> type, from |-> p, n |-> n]

MsgTypes == {"joined", "peer-ready", "peer-left", "hangup", "relay",
             "reply",          \* pong, bad_json, bad_signal, invalid_candidate
             "unavailable"}    \* peer_unavailable

Message == [type : MsgTypes, from : Peers, n : 0..MaxFrames]

NoMsg == <<>>
NoJob == [msg |-> NoMsg, to |-> {}, sent |-> FALSE]
Job(m) == [NoJob EXCEPT !.msg = m]

Connections == {p \in Peers : pc[p] \notin {"new", "closed"}}

\* MUTANT: a full buffer drops the message and leaves the peer alive.
DeliverOrDrop(p, m, taken) ==
  /\ ~taken => p \in Stalling
  /\ inbox' = IF taken THEN [inbox EXCEPT ![p] = Append(@, m)] ELSE inbox
  /\ UNCHANGED roomVars

\* Peer.Enqueue: take the message, refuse when dead, or kill when full.
Enqueue(p, m, taken) ==
  /\ \/ /\ taken
        /\ p \notin dead
        /\ inbox' = [inbox EXCEPT ![p] = Append(@, m)]
        /\ UNCHANGED dead
     \/ /\ ~taken
        /\ p \in Stalling \cup dead
        /\ dead' = dead \cup {p}
        /\ UNCHANGED inbox
  /\ UNCHANGED <<now, rooms, room, drawn, creating, spent>>

Send(p, m) == \E taken \in BOOLEAN : Enqueue(p, m, taken)

Goto(p, label) == pc' = [pc EXCEPT ![p] = label]

-----------------------------------------------------------------------------
Init ==
  /\ R!Init
  /\ pc = [p \in Peers |-> "new"]
  /\ at = [p \in Peers |-> NoRoom]
  /\ job = [p \in Peers |-> NoJob]
  /\ frames = [p \in Peers |-> 0]
  /\ relayed = [p \in Peers |-> 0]
  /\ inbox = [p \in Peers |-> <<>>]
  /\ sock = [p \in Peers |-> TRUE]
  /\ timers = {}

\* The HTTP handler creates rooms, time passes, main's ticker sweeps.
Manager ==
  /\ \/ R!Tick
     \/ R!Cleanup
     \/ \E r \in RoomIds : R!CreateBegin(r) \/ R!CreateLocked(r)
  /\ UNCHANGED <<pc, at, job, frames, relayed, inbox, sock, timers>>

\* The first frame of a new socket is a join; a refused one is answered on the
\* socket and closes it.
Join(p, r, secretOK, sessionToken) ==
  /\ pc[p] = "new"
  /\ R!Join(r, p, secretOK, sessionToken)
  /\ \/ /\ R!JoinResult(r, ClientOf[p], secretOK, sessionToken) = "ok"
        /\ Goto(p, IF Cardinality(R!Connected(r) \cup {ClientOf[p]}) = 2
                   THEN "second" ELSE "first")
        /\ at' = [at EXCEPT ![p] = r]
        /\ UNCHANGED sock
     \/ /\ R!JoinResult(r, ClientOf[p], secretOK, sessionToken) # "ok"
        /\ Goto(p, "closed")
        /\ sock' = [sock EXCEPT ![p] = FALSE]
        /\ UNCHANGED at
  /\ UNCHANGED <<job, frames, relayed, inbox, timers>>

\* The answer to the join; the second participant then announces the pair.
Welcome(p) ==
  /\ pc[p] \in {"first", "second"}
  /\ Send(p, Msg("joined", p, 0))
  /\ \/ pc[p] = "first" /\ Goto(p, "loop") /\ UNCHANGED job
     \/ /\ pc[p] = "second"
        /\ Goto(p, "snapshot")
        /\ job' = [job EXCEPT ![p] = Job(Msg("peer-ready", p, 0))]
  /\ UNCHANGED <<at, frames, relayed, sock, timers>>

\* MUTANT: peer-ready goes to the other participant only.
AudienceOther(p) ==
  IF at[p] \in rooms
  THEN {x \in R!PeersOf(at[p]) : ClientOf[x] # ClientOf[p]} ELSE {}

\* Broadcast goes to everybody else; peer-ready to everybody.
Audience(p) ==
  IF at[p] \in rooms
  THEN {x \in R!PeersOf(at[p]) :
          job[p].msg.type = "peer-ready" \/ ClientOf[x] # ClientOf[p]}
  ELSE {}

\* Broadcast, under the read lock: who is in the room now.
Snapshot(p) ==
  /\ pc[p] = "snapshot"
  /\ job' = [job EXCEPT ![p].to = Audience(p)]
  /\ Goto(p, "fanout")
  /\ UNCHANGED roomVars
  /\ UNCHANGED <<at, frames, relayed, inbox, sock, timers>>

\* Broadcast, after the lock: one Enqueue after another, in map order.
FanOut(p, x) ==
  /\ pc[p] = "fanout"
  /\ x \in job[p].to
  /\ \E taken \in BOOLEAN :
       /\ Enqueue(x, job[p].msg, taken)
       /\ job' = [job EXCEPT ![p].to = @ \ {x}, ![p].sent = @ \/ taken]
  /\ UNCHANGED <<pc, at, frames, relayed, sock, timers>>

\* MUTANT: neither the delivery count nor the end of a call has a consequence.
FanDoneBare(p) ==
  /\ pc[p] = "fanout"
  /\ job[p].to = {}
  /\ job' = [job EXCEPT ![p] = NoJob]
  /\ Goto(p, CASE job[p].msg.type = "hangup" -> "leaving"
               [] job[p].msg.type = "peer-left" -> "closing"
               [] OTHER -> "loop")
  /\ UNCHANGED roomVars
  /\ UNCHANGED <<at, frames, relayed, inbox, sock, timers>>

\* What follows a Broadcast: the read loop, the delayed Delete of a hangup and
\* the return, or the end.  A relay nobody accepted is answered with an error.
FanDone(p) ==
  LET type == job[p].msg.type
  IN /\ pc[p] = "fanout"
     /\ job[p].to = {}
     /\ job' = [job EXCEPT ![p] = NoJob]
     /\ \/ /\ type = "peer-ready" \/ (type = "relay" /\ job[p].sent)
           /\ Goto(p, "loop")
           /\ UNCHANGED <<roomVars, inbox, timers>>
        \/ /\ type = "relay" /\ ~job[p].sent
           /\ Send(p, Msg("unavailable", p, 0))
           /\ Goto(p, "loop")
           /\ UNCHANGED timers
        \/ /\ type = "hangup"
           /\ timers' = timers \cup {at[p]}
           /\ Goto(p, "leaving")
           /\ UNCHANGED <<roomVars, inbox>>
        \/ /\ type = "peer-left"
           /\ Goto(p, "closing")
           /\ UNCHANGED <<roomVars, inbox, timers>>
     /\ UNCHANGED <<at, frames, relayed, sock>>

-----------------------------------------------------------------------------
(* The read loop *)

Reading(p, kind) ==
  /\ pc[p] = "loop"
  /\ sock[p]
  /\ p \in Talkers
  /\ kind \in Kinds
  /\ frames[p] < MaxFrames

\* A frame from a connection that is not the current one ends the loop.
ReadStale(p) ==
  /\ \E kind \in Kinds : Reading(p, kind)
  /\ ~R!IsCurrent(at[p], p)
  /\ Goto(p, "leaving")
  /\ frames' = [frames EXCEPT ![p] = @ + 1]
  /\ UNCHANGED roomVars
  /\ UNCHANGED <<at, job, relayed, inbox, sock, timers>>

\* ping, invalid JSON and a rejected message are answered on this connection.
ReadReply(p) ==
  /\ Reading(p, "reply")
  /\ R!IsCurrent(at[p], p)
  /\ Send(p, Msg("reply", p, 0))
  /\ frames' = [frames EXCEPT ![p] = @ + 1]
  /\ UNCHANGED <<pc, at, job, relayed, sock, timers>>

ReadHangup(p) ==
  /\ Reading(p, "hangup")
  /\ R!IsCurrent(at[p], p)
  /\ job' = [job EXCEPT ![p] = Job(Msg("hangup", p, 0))]
  /\ Goto(p, "snapshot")
  /\ frames' = [frames EXCEPT ![p] = @ + 1]
  /\ UNCHANGED roomVars
  /\ UNCHANGED <<at, relayed, inbox, sock, timers>>

\* An offer, answer or candidate that passes sanitizeMessage.
ReadRelay(p) ==
  /\ Reading(p, "relay")
  /\ R!IsCurrent(at[p], p)
  /\ job' = [job EXCEPT ![p] = Job(Msg("relay", p, relayed[p] + 1))]
  /\ relayed' = [relayed EXCEPT ![p] = @ + 1]
  /\ Goto(p, "snapshot")
  /\ frames' = [frames EXCEPT ![p] = @ + 1]
  /\ UNCHANGED roomVars
  /\ UNCHANGED <<at, inbox, sock, timers>>

\* MUTANT: a failed read skips Leave.
ReadFailsNoLeave(p) ==
  /\ pc[p] = "loop"
  /\ ~sock[p]
  /\ Goto(p, "closing")
  /\ UNCHANGED roomVars
  /\ UNCHANGED <<at, job, frames, relayed, inbox, sock, timers>>

\* ReadMessage fails once the socket is closed.
ReadFails(p) ==
  /\ pc[p] = "loop"
  /\ ~sock[p]
  /\ Goto(p, "leaving")
  /\ UNCHANGED roomVars
  /\ UNCHANGED <<at, job, frames, relayed, inbox, sock, timers>>

\* MUTANT: the last one to leave takes the room along.
LeaveDropsRoom(p) ==
  LET r == at[p]
      gone == IF R!IsCurrent(r, p) /\ R!Connected(r) = {ClientOf[p]} THEN {r} ELSE {}
  IN /\ pc[p] = "leaving"
     /\ rooms' = rooms \ gone
     /\ room' = [q \in RoomIds |-> IF q \in gone THEN R!Blank ELSE room[q]]
     /\ Goto(p, "closing")
     /\ UNCHANGED <<now, drawn, creating, spent, dead>>
     /\ UNCHANGED <<at, job, frames, relayed, inbox, sock, timers>>

\* The deferred Leave; who remains is told when this was the current connection.
Leave(p) ==
  LET r == at[p]
  IN /\ pc[p] = "leaving"
     /\ R!Leave(r, p)
     /\ \/ /\ R!IsCurrent(r, p)
           /\ R!Connected(r) # {ClientOf[p]}
           /\ job' = [job EXCEPT ![p] = Job(Msg("peer-left", p, 0))]
           /\ Goto(p, "snapshot")
        \/ /\ ~R!IsCurrent(r, p) \/ R!Connected(r) = {ClientOf[p]}
           /\ Goto(p, "closing")
           /\ UNCHANGED job
     /\ UNCHANGED <<at, frames, relayed, inbox, sock, timers>>

\* The other deferred calls: close(done) and conn.Close().
Close(p) ==
  /\ pc[p] = "closing"
  /\ Goto(p, "closed")
  /\ sock' = [sock EXCEPT ![p] = FALSE]
  /\ UNCHANGED roomVars
  /\ UNCHANGED <<at, job, frames, relayed, inbox, timers>>

-----------------------------------------------------------------------------
(* writePump, the network and the timers *)

CloseSock(p) ==
  /\ sock[p]
  /\ sock' = [sock EXCEPT ![p] = FALSE]
  /\ UNCHANGED roomVars
  /\ UNCHANGED <<pc, at, job, frames, relayed, inbox, timers>>

\* MUTANT: writePump does not listen to Dead().
PumpDeafToDead(p) == FALSE /\ CloseSock(p)

PumpDead(p) == p \in dead /\ CloseSock(p)

\* The browser closes or vanishes, a write or a ping fails, pongWait passes.
SockFails(p) == p \in Connections /\ CloseSock(p)

\* The goroutine of a hangup, hangupDrainDelay later.
HangupTimer(r) ==
  /\ r \in timers
  /\ timers' = timers \ {r}
  /\ R!Delete(r)
  /\ UNCHANGED <<pc, at, job, frames, relayed, inbox, sock>>

Handler(p) ==
  \/ Welcome(p)
  \/ Snapshot(p)
  \/ \E x \in Peers : FanOut(p, x)
  \/ FanDone(p)
  \/ ReadFails(p)
  \/ Leave(p)
  \/ Close(p)

Browser(p) ==
  \/ \E r \in RoomIds, s \in BOOLEAN :
       \E t \in {R!NoToken, R!Token(r, ClientOf[p])} : Join(p, r, s, t)
  \/ ReadStale(p)
  \/ ReadReply(p)
  \/ ReadHangup(p)
  \/ ReadRelay(p)
  \/ SockFails(p)

Next ==
  \/ Manager
  \/ \E p \in Peers : Browser(p) \/ Handler(p) \/ PumpDead(p)
  \/ \E r \in RoomIds : HangupTimer(r)

\* Goroutines that can run do run: handlers that are not waiting for a frame,
\* pumps, and the sleeping goroutine of a hangup.  Browsers owe nothing.
Fairness ==
  /\ \A p \in Peers : WF_vars(Handler(p)) /\ WF_vars(PumpDead(p))
  /\ \A r \in RoomIds : WF_vars(HangupTimer(r))

Spec == Init /\ [][Next]_vars

FairSpec == Spec /\ Fairness

-----------------------------------------------------------------------------
(* Properties *)

PCs == {"new", "first", "second", "snapshot", "fanout", "loop", "leaving",
        "closing", "closed"}

\* Type invariant of what the handlers add to the manager's state; a handler
\* is past "new" exactly when its peer was handed to Join, and only a handler
\* that joined a room holds it.
TypeOK ==
  /\ R!TypeOK
  /\ pc \in [Peers -> PCs]
  /\ at \in [Peers -> RoomIds \cup {NoRoom}]
  /\ job \in [Peers -> [msg : Message \cup {NoMsg}, to : SUBSET spent, sent : BOOLEAN]]
  /\ frames \in [Peers -> 0..MaxFrames]
  /\ relayed \in [Peers -> 0..MaxFrames]
  /\ inbox \in [Peers -> Seq(Message)]
  /\ sock \in [Peers -> BOOLEAN]
  /\ timers \subseteq RoomIds
  /\ \A p \in Peers :
       /\ p \in spent <=> pc[p] # "new"
       /\ at[p] = NoRoom => pc[p] \in {"new", "closed"}
       /\ relayed[p] <= frames[p]

\* The handlers use the manager as Rooms describes, so that everything proved
\* about Rooms holds of the whole server.
RoomsSpec == R!Spec

Received(p, type) == {i \in 1..Len(inbox[p]) : inbox[p][i].type = type}

\* No handler is busy and no closed socket is still unnoticed.
Quiet ==
  \A p \in Peers : pc[p] \in {"new", "closed"} \/ (pc[p] = "loop" /\ sock[p] /\ p \notin dead)

\* The caller offers when it is told peer-ready.  When everything has settled
\* and a room has both its connections, both have been told by the one that
\* came last: whoever of the two was replaced, dropped or delayed meanwhile,
\* no pair is left waiting for each other.
PairIsAnnounced ==
  Quiet => \A r \in rooms :
    Cardinality(R!Connected(r)) = 2 =>
      \E last \in R!PeersOf(r) : \A p \in R!PeersOf(r) :
        \E i \in Received(p, "peer-ready") : inbox[p][i].from = last

\* Relayed messages of one connection reach another in the order they were
\* sent and without a hole, so that no candidate overtakes its offer and no
\* offer is skipped, whoever drops or is replaced meanwhile.
RelayedInOrder ==
  \A p, x \in Peers : \A i, j \in Received(x, "relay") :
    /\ inbox[x][i].from = p /\ inbox[x][j].from = p /\ i < j
    /\ \A k \in Received(x, "relay") : inbox[x][k].from = p => ~(i < k /\ k < j)
    => inbox[x][j].n = inbox[x][i].n + 1

\* Each relayed message either was accepted by somebody or is answered by one
\* peer_unavailable, also when the other participant left, was replaced or was
\* killed between the steps of the Broadcast.
NothingLostSilently ==
  Quiet => \A p \in Peers : pc[p] = "loop" =>
    Cardinality({n \in 1..relayed[p] :
        \A x \in Peers : \A i \in Received(x, "relay") :
          <<inbox[x][i].from, inbox[x][i].n>> # <<p, n>>})
      = Cardinality(Received(p, "unavailable"))

\* A handler never outlives its peer: once killed, with its room or because
\* its buffer was full, its connection ends (handler.go:198).
DeadConnectionEnds == \A p \in Peers : p \in dead ~> pc[p] = "closed"

\* A hangup ends the call: the room goes, for the other participant and for
\* whoever comes back while the hangup drains, also when the connection that
\* hung up is gone long before.
HangupEndsCall ==
  \A p \in Peers :
    pc[p] = "fanout" /\ job[p].msg.type = "hangup" ~> at[p] \notin rooms

\* A closed socket is always followed by Leave: no client keeps its seat taken
\* by a connection that is gone.
SeatIsVacated ==
  \A p \in Peers : p \in spent /\ ~sock[p] ~> \A r \in RoomIds : ~R!IsCurrent(r, p)
=============================================================================
