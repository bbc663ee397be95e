-------------------------- MODULE SignalingProofs --------------------------
(***************************************************************************)
(* Proofs about the signaling server, for every set of rooms, clients and  *)
(* connections, every number of frames and every choice of stalling        *)
(* browsers: it uses the room manager as Rooms describes it, relays in     *)
(* order, loses no message silently, and announces every pair.             *)
(***************************************************************************)
EXTENDS Signaling, FiniteSetTheorems, SequenceTheorems, TLAPS

-----------------------------------------------------------------------------
(* The manager of the server is the manager of RoomsProofs: the same       *)
(* operators over the same variables, instantiated twice.  The record that *)
(* RoomsHistory keeps beside them is of no use here and left empty.        *)

RP == INSTANCE RoomsProofs WITH heldAt <- <<>>, hungUp <- {}

LEMMA SameValues ==
  /\ R!NoTime = RP!NoTime /\ R!NoRole = RP!NoRole /\ R!NoToken = RP!NoToken
  /\ R!Tokens = RP!Tokens /\ R!Roles = RP!Roles
  /\ R!Blank = RP!Blank
  /\ \A r, c : R!Token(r, c) = RP!Token(r, c)
  /\ \A e : R!NewRoom(e) = RP!NewRoom(e)
  /\ R!Room = RP!Room
  BY DEF R!NoTime, RP!NoTime, R!NoRole, RP!NoRole, R!NoToken, RP!NoToken, R!Tokens,
         RP!Tokens, R!Roles, RP!Roles, R!Blank, RP!Blank, R!Token, RP!Token,
         R!NewRoom, RP!NewRoom, R!ExpiryOf, RP!ExpiryOf, R!Room, RP!Room

LEMMA SameRoom ==
  ASSUME NEW r
  PROVE  /\ R!Members(r) = RP!Members(r)
         /\ R!Connected(r) = RP!Connected(r)
         /\ R!PeersOf(r) = RP!PeersOf(r)
  BY DEF R!Members, RP!Members, R!Connected, RP!Connected, R!NoRole, RP!NoRole,
         R!PeersOf, RP!PeersOf

LEMMA SameCollectable ==
  ASSUME NEW t
  PROVE  R!Collectable(t) = RP!Collectable(t)
  BY DEF R!Collectable, RP!Collectable, R!Expired, RP!Expired, R!EmptyTooLong,
         RP!EmptyTooLong, R!NoTime, RP!NoTime

LEMMA SameCreate ==
  ASSUME NEW r
  PROVE  /\ R!CreateBegin(r) <=> RP!CreateBegin(r)
         /\ R!CreateLocked(r) <=> RP!CreateLocked(r)
<1>1. \A x : R!KillPeersOf(x) <=> RP!KillPeersOf(x)
  BY SameRoom DEF R!KillPeersOf, RP!KillPeersOf
<1>2. \A x : R!AtCap(x) <=> RP!AtCap(x)
  BY DEF R!AtCap, RP!AtCap, R!Cardinality, RP!Cardinality
<1>3. R!Collectable(creating[r]) = RP!Collectable(creating[r])
  BY SameCollectable
<1>4. R!NewRoom(R!ExpiryOf(creating[r])) = RP!NewRoom(RP!ExpiryOf(creating[r]))
  BY SameValues DEF R!ExpiryOf, RP!ExpiryOf
<1>5. R!CreateLocked(r) <=> RP!CreateLocked(r)
  BY <1>1, <1>2, <1>3, <1>4, SameValues DEF R!CreateLocked, RP!CreateLocked
<1> QED
  BY <1>5 DEF R!CreateBegin, RP!CreateBegin

LEMMA SameJoin ==
  ASSUME NEW r, NEW p, NEW s, NEW t
  PROVE  R!Join(r, p, s, t) <=> RP!Join(r, p, s, t)
<1>1. R!JoinResult(r, ClientOf[p], s, t) = RP!JoinResult(r, ClientOf[p], s, t)
  BY DEF R!JoinResult, RP!JoinResult, R!Expired, RP!Expired, R!Members, RP!Members,
         R!NoRole, RP!NoRole, R!NoToken, RP!NoToken, R!Cardinality, RP!Cardinality
<1>2. R!Admitted(r, p) = RP!Admitted(r, p)
  BY DEF R!Admitted, RP!Admitted, R!RoleFor, RP!RoleFor, R!Token, RP!Token, R!Members,
         RP!Members, R!NoRole, RP!NoRole, R!NoTime, RP!NoTime
<1> QED
  BY <1>1, <1>2, SameValues DEF R!Join, RP!Join

LEMMA SameLeave ==
  ASSUME NEW r, NEW p
  PROVE  R!Leave(r, p) <=> RP!Leave(r, p)
  BY SameValues, SameRoom
  DEF R!Leave, RP!Leave, R!Departed, RP!Departed, R!IsCurrent, RP!IsCurrent

LEMMA SameRemove ==
  ASSUME NEW rs
  PROVE  R!Remove(rs) <=> RP!Remove(rs)
  BY SameValues, SameRoom DEF R!Remove, RP!Remove, R!KillPeersOf, RP!KillPeersOf

LEMMA SameNext == [R!Next]_R!vars <=> [RP!Next]_RP!vars
<1>1. R!Tick <=> RP!Tick
  BY DEF R!Tick, RP!Tick
<1>2. \A p : R!Kill(p) <=> RP!Kill(p)
  BY DEF R!Kill, RP!Kill
<1>3. R!Next <=> RP!Next
  BY <1>1, <1>2, SameCreate, SameJoin, SameLeave, SameRemove, SameValues, SameCollectable
  DEF R!Next, RP!Next, R!Delete, RP!Delete, R!Cleanup, RP!Cleanup
<1> QED
  BY <1>3 DEF R!vars, RP!vars

LEMMA SameInit == R!Init <=> RP!Init
  BY SameValues DEF R!Init, RP!Init

LEMMA SameInv == R!IndInv <=> RP!IndInv
<1>1. R!TypeOK <=> RP!TypeOK
  BY SameValues DEF R!TypeOK, RP!TypeOK
<1>2. R!Coherent <=> RP!Coherent
  BY SameValues, SameRoom DEF R!Coherent, RP!Coherent, R!CoherentRoom, RP!CoherentRoom
<1>3. R!TwoParty <=> RP!TwoParty
  BY SameRoom DEF R!TwoParty, RP!TwoParty
<1> QED
  BY <1>1, <1>2, <1>3 DEF R!IndInv, RP!IndInv

LEMMA SameFinite == IsFiniteSet(RoomIds) <=> RP!IsFiniteSet(RoomIds)
  BY DEF IsFiniteSet, RP!IsFiniteSet

\* What RoomsProofs shows of the manager: IndInv is inductive.
LEMMA RoomsInit == R!Init => R!IndInv
<1>1. RP!Init => RP!IndInv
  BY RP!IndInit, ManagerAssumption, FiniteRoomIds, SameFinite
<1> QED
  BY <1>1, SameInit, SameInv

LEMMA RoomsStep == R!IndInv /\ [R!Next]_(R!vars) => R!IndInv'
<1>1. RP!IndInv /\ [RP!Next]_(RP!vars) => RP!IndInv'
  BY RP!IndStep, ManagerAssumption, FiniteRoomIds, SameFinite
<1> QED
  BY <1>1, SameInv, SameNext, PTL

-----------------------------------------------------------------------------
(* Every step of the server is a step of the manager or none. *)

LEMMA RoomTypes ==
  ASSUME R!TypeOK
  PROVE  spent \subseteq Peers /\ dead \subseteq Peers /\ rooms \subseteq RoomIds
  BY DEF R!TypeOK

LEMMA ClientOfPeer == \A p \in Peers : ClientOf[p] \in Clients
  BY ManagerAssumption

LEMMA EnqueueIsRooms ==
  ASSUME NEW p \in spent, spent \subseteq Peers, NEW m, NEW taken, Enqueue(p, m, taken)
  PROVE  [R!Next]_(R!vars)
<1>1. CASE UNCHANGED dead
  BY <1>1 DEF Enqueue, R!vars
<1>2. CASE dead' = dead \cup {p}
  BY <1>2 DEF Enqueue, R!Next, R!Kill
<1> QED
  BY <1>1, <1>2 DEF Enqueue

LEMMA StepIsRooms == TypeOK /\ [Next]_vars => [R!Next]_(R!vars)
<1> SUFFICES ASSUME TypeOK, [Next]_vars PROVE [R!Next]_(R!vars)
  OBVIOUS
<1>0. spent \subseteq Peers /\ \A p \in Peers : p \in spent <=> pc[p] # "new"
  BY RoomTypes DEF TypeOK
<1> DEFINE Same == UNCHANGED roomVars
<1>s. Same => UNCHANGED R!vars
  BY DEF roomVars, R!vars
<1> HIDE DEF Same
<1>1. CASE Manager
  BY <1>1 DEF Manager, R!Next
<1>2. ASSUME NEW p \in Peers, NEW r \in RoomIds, NEW s \in BOOLEAN,
             NEW t \in {R!NoToken, R!Token(r, ClientOf[p])}, Join(p, r, s, t)
      PROVE R!Next
  <2>1. t \in R!Tokens
    BY ClientOfPeer DEF R!Tokens, R!NoToken, R!Token
  <2> QED
    BY <1>2, <2>1 DEF Join, R!Next
<1>3. ASSUME NEW p \in Peers, Welcome(p) PROVE [R!Next]_(R!vars)
  BY <1>0, <1>3, EnqueueIsRooms DEF Welcome, Send
<1>4. ASSUME NEW p \in Peers, NEW x \in Peers, FanOut(p, x) PROVE [R!Next]_(R!vars)
  <2>1. x \in spent
    BY <1>4 DEF FanOut, TypeOK
  <2> QED
    BY <1>0, <1>4, <2>1, EnqueueIsRooms DEF FanOut
<1>5. ASSUME NEW p \in Peers, FanDone(p) PROVE [R!Next]_(R!vars)
  <2>1. p \in spent
    BY <1>0, <1>5 DEF FanDone
  <2>2. Same \/ Send(p, Msg("unavailable", p, 0))
    BY <1>5 DEF FanDone, Same
  <2> QED
    BY <1>0, <1>s, <2>1, <2>2, EnqueueIsRooms DEF Send
<1>6. ASSUME NEW p \in Peers, ReadReply(p) PROVE [R!Next]_(R!vars)
  BY <1>0, <1>6, EnqueueIsRooms DEF ReadReply, Reading, Send
<1>7. ASSUME NEW p \in Peers, Leave(p) PROVE R!Next
  <2>1. at[p] \in RoomIds
    BY <1>7 DEF Leave, TypeOK
  <2> QED
    BY <1>7, <2>1 DEF Leave, R!Next
<1>8. ASSUME NEW r \in RoomIds, HangupTimer(r) PROVE R!Next
  BY <1>8 DEF HangupTimer, R!Next
<1>9. ASSUME NEW p \in Peers,
             \/ Snapshot(p) \/ ReadFails(p) \/ Close(p) \/ ReadStale(p) \/ ReadHangup(p)
             \/ ReadRelay(p) \/ SockFails(p) \/ PumpDead(p)
      PROVE Same
  BY <1>9 DEF Same, Snapshot, ReadFails, Close, ReadStale, ReadHangup, ReadRelay,
              SockFails, PumpDead, CloseSock
<1>10. CASE UNCHANGED vars
  BY <1>10 DEF vars, R!vars
<1> QED
  BY <1>s, <1>1, <1>2, <1>3, <1>4, <1>5, <1>6, <1>7, <1>8, <1>9, <1>10
  DEF Next, Browser, Handler

\* A peer is spent and dead for ever, and takes a seat only with its Join.
LEMMA SeatStep ==
  ASSUME R!IndInv, [R!Next]_(R!vars)
  PROVE  /\ spent \subseteq spent'
         /\ dead \subseteq dead'
         /\ \A r \in RoomIds, x \in spent : R!IsCurrent(r, x)' => R!IsCurrent(r, x)
<1>0. /\ rooms \subseteq RoomIds /\ spent \subseteq Peers
      /\ room \in [RoomIds -> R!Room]
      /\ \A r \in RoomIds \ rooms : room[r] = R!Blank
  BY DEF R!IndInv, R!TypeOK, R!Coherent
<1>1. \A r \in RoomIds : room[r].peers \in [Clients -> Peers \cup {NoPeer}]
  BY <1>0 DEF R!Room
<1>2. /\ \A e : \A c \in Clients : R!NewRoom(e).peers[c] = NoPeer
      /\ \A c \in Clients : R!Blank.peers[c] = NoPeer
  BY DEF R!NewRoom, R!Blank
<1>3. \A x \in spent : x # NoPeer /\ x \in Peers /\ ClientOf[x] \in Clients
  BY <1>0, ManagerAssumption
<1> DEFINE Kept(rs) == rooms' \subseteq rs /\
             \A r \in rs : room'[r] = room[r] \/ room'[r] = R!Blank
<1>k. ASSUME Kept(rooms), NEW r \in RoomIds, NEW x \in spent, R!IsCurrent(r, x)'
      PROVE  R!IsCurrent(r, x)
  BY <1>k, <1>2, <1>3 DEF R!IsCurrent
<1>4. CASE R!Tick \/ (\E r \in RoomIds : R!CreateBegin(r)) \/ (\E p \in Peers : R!Kill(p))
           \/ UNCHANGED R!vars
  BY <1>4, <1>k DEF R!Tick, R!CreateBegin, R!Kill, R!vars
<1>5. ASSUME NEW q \in RoomIds, R!CreateLocked(q)
      PROVE  /\ spent' = spent /\ dead \subseteq dead'
             /\ \A r \in RoomIds, x \in spent : R!IsCurrent(r, x)' => R!IsCurrent(r, x)
  <2>1. spent' = spent /\ dead \subseteq dead'
    BY <1>5 DEF R!CreateLocked, R!KillPeersOf
  <2>2. ASSUME NEW r \in RoomIds, NEW x \in spent, R!IsCurrent(r, x)'
        PROVE  R!IsCurrent(r, x)
    <3>1. room'[r] = room[r] \/ room'[r] = R!Blank \/ \E e : room'[r] = R!NewRoom(e)
      BY <1>0, <1>5 DEF R!CreateLocked
    <3>2. room'[r].peers[ClientOf[x]] = x
      BY <2>2 DEF R!IsCurrent
    <3>3. room'[r] = room[r]
      BY <3>1, <3>2, <1>2, <1>3
    <3>4. r \in rooms
      BY <3>2, <3>3, <1>0, <1>2, <1>3
    <3> QED
      BY <3>2, <3>3, <3>4 DEF R!IsCurrent
  <2> QED
    BY <2>1, <2>2
<1>6. ASSUME NEW q \in RoomIds, NEW p \in Peers, NEW s, NEW t, R!Join(q, p, s, t)
      PROVE  /\ spent \subseteq spent' /\ dead' = dead
             /\ \A r \in RoomIds, x \in spent : R!IsCurrent(r, x)' => R!IsCurrent(r, x)
  <2>1. spent \subseteq spent' /\ dead' = dead /\ p \notin spent /\ rooms' \subseteq rooms
    BY <1>6 DEF R!Join
  <2>2. ASSUME NEW r \in RoomIds, NEW x \in spent, R!IsCurrent(r, x)'
        PROVE  R!IsCurrent(r, x)
    <3>1. CASE room' = [room EXCEPT ![q] = R!Admitted(q, p)]
      <4>1. R!Admitted(q, p).peers = [room[q].peers EXCEPT ![ClientOf[p]] = p]
        BY DEF R!Admitted
      <4>2. ClientOf[x] # ClientOf[p] => R!Admitted(q, p).peers[ClientOf[x]] = room[q].peers[ClientOf[x]]
        BY <4>1, <1>1, <1>3
      <4>3. R!Admitted(q, p).peers[ClientOf[p]] = p
        BY <4>1, <1>1, ClientOfPeer
      <4>4. room'[r] = IF r = q THEN R!Admitted(q, p) ELSE room[r]
        BY <1>0, <3>1
      <4> QED
        BY <2>1, <2>2, <4>2, <4>3, <4>4 DEF R!IsCurrent
    <3>2. CASE room' = [room EXCEPT ![q] = R!Blank] \/ room' = room
      BY <3>2, <2>1, <2>2, <1>0, <1>2, <1>3 DEF R!IsCurrent
    <3> QED
      BY <1>6, <3>1, <3>2 DEF R!Join
  <2> QED
    BY <2>1, <2>2
<1>7. ASSUME NEW q \in RoomIds, NEW p \in Peers, R!Leave(q, p)
      PROVE  /\ spent' = spent /\ dead' = dead
             /\ \A r \in RoomIds, x \in spent : R!IsCurrent(r, x)' => R!IsCurrent(r, x)
  <2>1. spent' = spent /\ dead' = dead /\ rooms' = rooms
    BY <1>7 DEF R!Leave
  <2>2. R!Departed(q, ClientOf[p]).peers = [room[q].peers EXCEPT ![ClientOf[p]] = NoPeer]
    BY DEF R!Departed
  <2>3. \A x \in spent : R!Departed(q, ClientOf[p]).peers[ClientOf[x]]
                           \in {NoPeer, room[q].peers[ClientOf[x]]}
    BY <2>2, <1>1, <1>3
  <2>4. \A r \in RoomIds : room'[r] = room[r] \/ (r = q /\ room'[r] = R!Departed(q, ClientOf[p]))
    BY <1>0, <1>7 DEF R!Leave
  <2> QED
    BY <2>1, <2>3, <2>4, <1>3 DEF R!IsCurrent
<1>8. ASSUME NEW rs, R!Remove(rs)
      PROVE  /\ spent' = spent /\ dead \subseteq dead'
             /\ \A r \in RoomIds, x \in spent : R!IsCurrent(r, x)' => R!IsCurrent(r, x)
  <2>1. spent' = spent /\ dead \subseteq dead'
    BY <1>8 DEF R!Remove, R!KillPeersOf
  <2>2. Kept(rooms)
    BY <1>0, <1>8 DEF R!Remove
  <2> QED
    BY <1>k, <2>1, <2>2
<1> QED
  BY <1>4, <1>5, <1>6, <1>7, <1>8 DEF R!Next, R!Tick, R!CreateBegin, R!Kill, R!vars,
     R!Delete, R!Cleanup

-----------------------------------------------------------------------------
(* The inductive invariant                                                 *)
(*                                                                         *)
(* Besides the manager's own and the types: what a Broadcast carries, that *)
(* a connection holding a seat is one whose handler will give it up, and   *)
(* for each property how far the handlers are from establishing it.        *)

JobType == [msg : Message \cup {NoMsg}, to : SUBSET spent, sent : BOOLEAN]

\* In the middle of a Broadcast.
Busy == {"snapshot", "fanout"}

\* A handler has a job exactly during a Broadcast, a message of its own; what
\* it relays is the last frame it read, and only peer-ready is for itself.
JobOf(p) ==
  /\ pc[p] = "new" => frames[p] = 0
  /\ pc[p] \notin Busy => job[p] = NoJob
  /\ pc[p] = "snapshot" => job[p].to = {} /\ ~job[p].sent
  /\ pc[p] \in Busy =>
       /\ job[p].msg \in Message
       /\ job[p].msg.from = p
       /\ job[p].msg.type \in {"peer-ready", "relay", "hangup", "peer-left"}
       /\ job[p].msg.type = "relay" => relayed[p] > 0 /\ job[p].msg.n = relayed[p]
       /\ job[p].msg.type # "peer-ready" => \A x \in job[p].to : ClientOf[x] # ClientOf[p]

Jobs == \A p \in Peers : JobOf(p)

\* Only a handler that has joined a room and not yet left it has a seat there.
SeatOf(r, x) ==
  R!IsCurrent(r, x) =>
    /\ at[x] = r
    /\ pc[x] \in {"first", "second", "snapshot", "fanout", "loop", "leaving"}
    /\ pc[x] \in Busy => job[x].msg.type # "peer-left"

Seats == \A r \in RoomIds, x \in Peers : SeatOf(r, x)

\* Where the messages p relayed stand in the inbox of x, and whether the n-th
\* is among them.
Relays(p, x) == {i \in Received(x, "relay") : inbox[x][i].from = p}
Got(p, x, n) == \E i \in Relays(p, x) : inbox[x][i].n = n

Relaying(p) == pc[p] \in Busy /\ job[p].msg.type = "relay"

\* The last relay is still to reach x.
Pending(p, x) == Relaying(p) /\ (pc[p] = "snapshot" \/ x \in job[p].to)
Due(p, x) == IF Pending(p, x) THEN relayed[p] - 1 ELSE relayed[p]

\* What p relays next will be offered to x.
Reached(p, x) == x \notin dead /\ (R!IsCurrent(at[p], x) \/ x \in job[p].to)

\* What x has of p is an interval of what p relayed, in order; and it extends
\* to the last one for as long as x is within reach.  Once out of reach, a
\* connection never comes back.
InOrder(p, x) ==
  /\ \A i \in Relays(p, x) : inbox[x][i].n \in 1..Due(p, x)
  /\ \A i, j \in Relays(p, x) : i < j => inbox[x][i].n < inbox[x][j].n
  /\ \A i, j \in Relays(p, x) :
       \A m \in inbox[x][i].n .. inbox[x][j].n : Got(p, x, m)
  /\ Relays(p, x) # {} =>
       /\ x \in spent
       /\ ClientOf[x] # ClientOf[p]
       /\ Reached(p, x) => Got(p, x, Due(p, x))

Orders == \A p, x \in Peers : InOrder(p, x)

\* The relays whose Broadcast is over, and those of them nobody accepted.
Handed(p) == IF Relaying(p) THEN relayed[p] - 1 ELSE relayed[p]
Lost(p) == {n \in 1..Handed(p) : \A x \in Peers : ~Got(p, x, n)}

\* Every lost relay was answered, and a Broadcast counts what was accepted.
Answered(p) ==
  /\ p \notin dead => Cardinality(Lost(p)) = Cardinality(Received(p, "unavailable"))
  /\ Relaying(p) => (job[p].sent <=> \E x \in Peers : Got(p, x, relayed[p]))

Answers == \A p \in Peers : Answered(p)

\* x was told peer-ready by last, will be, or is gone.
Told(last, x) == \E i \in Received(x, "peer-ready") : inbox[x][i].from = last
Telling(last, x) ==
  \/ pc[last] = "second"
  \/ pc[last] = "snapshot" /\ job[last].msg.type = "peer-ready"
  \/ pc[last] = "fanout" /\ job[last].msg.type = "peer-ready" /\ x \in job[last].to
Tells(last, x) == Told(last, x) \/ x \in dead \/ Telling(last, x)

\* Of two connections in a room, one tells both.
Pair(r, p, q) ==
  p # q /\ R!IsCurrent(r, p) /\ R!IsCurrent(r, q) =>
    \E last \in {p, q} : Tells(last, p) /\ Tells(last, q)

Pairs == \A r \in RoomIds : \A p, q \in Peers : Pair(r, p, q)

IInv == R!IndInv /\ TypeOK /\ Jobs /\ Seats /\ Orders /\ Answers /\ Pairs

-----------------------------------------------------------------------------
(* Types *)

LEMMA MsgType ==
  ASSUME NEW p \in Peers, NEW type \in MsgTypes, NEW n \in 0..MaxFrames
  PROVE  /\ Msg(type, p, n) \in Message
         /\ Msg(type, p, n).type = type
         /\ Msg(type, p, n).from = p
         /\ Msg(type, p, n).n = n
  BY DEF Msg, Message

LEMMA ZeroFrames == 0 \in 0..MaxFrames
  BY SignalingAssumption

\* The job of a new Broadcast.
LEMMA JobFields ==
  ASSUME NEW m
  PROVE  Job(m).msg = m /\ Job(m).to = {} /\ ~Job(m).sent
<1>1. Job(m).msg = m
  BY DEF Job, NoJob
<1>2. Job(m).to = {}
  BY DEF Job, NoJob
<1>3. ~Job(m).sent
  BY DEF Job, NoJob
<1> QED
  BY <1>1, <1>2, <1>3

\* Who a Broadcast is for: connections of the room, and all of them but those
\* of the sender's client.
LEMMA AudienceIs ==
  ASSUME R!IndInv, NEW p \in Peers
  PROVE  \A x : x \in Audience(p) <=>
           /\ x \in spent
           /\ R!IsCurrent(at[p], x)
           /\ job[p].msg.type = "peer-ready" \/ ClientOf[x] # ClientOf[p]
<1>1. rooms \subseteq RoomIds /\ spent \subseteq Peers
      /\ \A r \in rooms : R!CoherentRoom(r)
  BY DEF R!IndInv, R!TypeOK, R!Coherent
<1>2. \A r \in rooms : \A c \in R!Connected(r) :
        room[r].peers[c] \in spent /\ ClientOf[room[r].peers[c]] = c
  BY <1>1 DEF R!CoherentRoom, R!Connected
<1>3. \A r \in rooms : \A x \in spent :
        room[r].peers[ClientOf[x]] = x => ClientOf[x] \in R!Connected(r)
  BY <1>1, ManagerAssumption DEF R!Connected
<1>4. \A r \in rooms : \A x :
        x \in R!PeersOf(r) <=> x \in spent /\ room[r].peers[ClientOf[x]] = x
  BY <1>2, <1>3 DEF R!PeersOf
<1> QED
  BY <1>4 DEF Audience, R!IsCurrent

LEMMA NewJobType ==
  ASSUME NEW m \in Message \cup {NoMsg}
  PROVE  Job(m) \in JobType /\ NoJob \in JobType
<1>1. NoJob \in JobType
  BY DEF JobType, NoJob
<1> QED
  BY <1>1 DEF JobType, Job

\* The jobs of the next state: those of all but p are kept.
LEMMA JobsType ==
  ASSUME job \in [Peers -> JobType], spent \subseteq spent',
         NEW p \in Peers, NEW j \in JobType, job' \in {job, [job EXCEPT ![p] = j]}
  PROVE  job' \in [Peers -> JobType']
<1>1. JobType \subseteq JobType'
  BY DEF JobType
<1> QED
  BY <1>1

LEMMA EnqueueType ==
  ASSUME inbox \in [Peers -> Seq(Message)], NEW p \in Peers, NEW m \in Message,
         NEW taken, Enqueue(p, m, taken)
  PROVE  inbox' \in [Peers -> Seq(Message)] /\ spent' = spent
<1>1. Append(inbox[p], m) \in Seq(Message)
  BY AppendProperties
<1> QED
  BY <1>1 DEF Enqueue

LEMMA TypeInit == Init => TypeOK
<1> SUFFICES ASSUME Init PROVE TypeOK
  OBVIOUS
<1>1. R!TypeOK /\ spent = {}
  BY RoomsInit DEF Init, R!IndInv, R!Init
<1>2. job \in [Peers -> [msg : Message \cup {NoMsg}, to : SUBSET spent, sent : BOOLEAN]]
  BY DEF Init, NoJob
<1>3. inbox \in [Peers -> Seq(Message)]
  BY DEF Init
<1> QED
  BY <1>1, <1>2, <1>3, ZeroFrames DEF Init, TypeOK, PCs

LEMMA Types ==
  ASSUME TypeOK
  PROVE  /\ pc \in [Peers -> PCs]
         /\ at \in [Peers -> RoomIds \cup {NoRoom}]
         /\ job \in [Peers -> JobType]
         /\ frames \in [Peers -> 0..MaxFrames]
         /\ relayed \in [Peers -> 0..MaxFrames]
         /\ inbox \in [Peers -> Seq(Message)]
         /\ sock \in [Peers -> BOOLEAN]
         /\ timers \subseteq RoomIds
         /\ spent \subseteq Peers
         /\ \A p \in Peers :
              /\ p \in spent <=> pc[p] # "new"
              /\ at[p] = NoRoom => pc[p] \in {"new", "closed"}
              /\ relayed[p] <= frames[p]
  BY RoomTypes DEF TypeOK, JobType

LEMMA JobIs ==
  ASSUME TypeOK, NEW p \in Peers
  PROVE  /\ job \in [Peers -> JobType]
         /\ job[p] \in JobType
         /\ DOMAIN job[p] = {"msg", "to", "sent"}
         /\ job[p].msg \in Message \cup {NoMsg}
         /\ job[p].to \subseteq spent
         /\ job[p].sent \in BOOLEAN
  BY DEF TypeOK, JobType

\* Each handler step keeps what the handlers add to the manager's types.
LEMMA TypeStep == R!IndInv /\ TypeOK /\ Jobs /\ [Next]_vars => TypeOK'
<1> SUFFICES ASSUME R!IndInv, TypeOK, Jobs, [Next]_vars PROVE TypeOK'
  OBVIOUS
<1>0. R!TypeOK' /\ spent \subseteq spent' /\ spent' \subseteq Peers
  BY StepIsRooms, RoomsStep, SeatStep DEF R!IndInv, R!TypeOK
<1>t. /\ pc \in [Peers -> PCs]
      /\ at \in [Peers -> RoomIds \cup {NoRoom}]
      /\ job \in [Peers -> JobType]
      /\ frames \in [Peers -> 0..MaxFrames]
      /\ relayed \in [Peers -> 0..MaxFrames]
      /\ inbox \in [Peers -> Seq(Message)]
      /\ sock \in [Peers -> BOOLEAN]
      /\ timers \subseteq RoomIds
      /\ \A p \in Peers :
           /\ p \in spent <=> pc[p] # "new"
           /\ at[p] = NoRoom => pc[p] \in {"new", "closed"}
           /\ relayed[p] <= frames[p]
  BY Types
<1>j. ASSUME job' \in [Peers -> JobType']
      PROVE job' \in [Peers -> [msg : Message \cup {NoMsg}, to : SUBSET spent,
                                sent : BOOLEAN]]'
  BY <1>j DEF JobType
<1>k. ASSUME UNCHANGED job PROVE job' \in [Peers -> JobType']
  BY <1>0, <1>k, <1>t DEF JobType
<1>m. /\ NoMsg \in Message \cup {NoMsg}
      /\ NoRoom \notin RoomIds /\ MaxFrames \in Nat
  BY SignalingAssumption
<1>1. CASE Manager
  <2>1. spent' = spent
    BY <1>1 DEF Manager, R!Tick, R!Cleanup, R!Remove, R!CreateBegin, R!CreateLocked
  <2> QED
    BY <1>0, <1>1, <1>j, <1>k, <2>1, <1>t DEF Manager, TypeOK
<1>2. ASSUME NEW p \in Peers, NEW r \in RoomIds, NEW s \in BOOLEAN,
             NEW t, Join(p, r, s, t)
      PROVE TypeOK'
  <2>1. spent' = spent \cup {p}
    BY <1>2 DEF Join, R!Join
  <2>2. PICK label \in {"first", "second", "closed"}, a \in {r, at[p]} :
          /\ pc' = [pc EXCEPT ![p] = label]
          /\ at' = [at EXCEPT ![p] = a]
          /\ a = NoRoom => label = "closed"
    BY <1>2, <1>m, <1>t DEF Join, Goto
  <2>3. sock' \in [Peers -> BOOLEAN] /\ UNCHANGED <<job, frames, relayed, inbox, timers>>
    BY <1>2, <1>t DEF Join
  <2> QED
    BY <1>0, <1>j, <1>k, <2>1, <2>2, <2>3, <1>t DEF TypeOK, PCs
<1>3. ASSUME NEW p \in Peers, Welcome(p) PROVE TypeOK'
  <2>1. inbox' \in [Peers -> Seq(Message)] /\ spent' = spent
    BY <1>3, <1>t, EnqueueType, MsgType, ZeroFrames DEF Welcome, Send, MsgTypes
  <2>2. Msg("peer-ready", p, 0) \in Message
    BY MsgType, ZeroFrames DEF MsgTypes
  <2>3. job' \in [Peers -> JobType']
    BY <1>0, <1>3, <1>m, <2>2, <1>t, NewJobType, JobsType DEF Welcome
  <2> QED
    BY <1>0, <1>3, <1>j, <2>1, <2>3, <1>t DEF Welcome, Goto, TypeOK, PCs
<1>4. ASSUME NEW p \in Peers, Snapshot(p) PROVE TypeOK'
  <2>1. Audience(p) \in SUBSET spent
    BY AudienceIs
  <2>2. [job[p] EXCEPT !.to = Audience(p)] \in JobType
    BY <2>1, JobIs DEF JobType
  <2>3. job' \in [Peers -> JobType']
    BY <1>0, <1>4, <2>2, <1>t, JobsType DEF Snapshot
  <2> QED
    BY <1>0, <1>4, <1>j, <2>3, <1>t DEF Snapshot, Goto, TypeOK, PCs, roomVars
<1>5. ASSUME NEW p \in Peers, NEW x \in Peers, FanOut(p, x) PROVE TypeOK'
  <2>1. PICK taken \in BOOLEAN :
          /\ Enqueue(x, job[p].msg, taken)
          /\ job' = [job EXCEPT ![p].to = @ \ {x}, ![p].sent = @ \/ taken]
    BY <1>5 DEF FanOut
  <2>2. job[p].msg \in Message
    BY <1>5 DEF FanOut, Jobs, JobOf, Busy
  <2>3. inbox' \in [Peers -> Seq(Message)] /\ spent' = spent
    BY <2>1, <2>2, <1>t, EnqueueType
  <2>4. [job[p] EXCEPT !.to = @ \ {x}, !.sent = @ \/ taken] \in JobType
    BY JobIs DEF JobType
  <2>5. job' = [job EXCEPT ![p] = [job[p] EXCEPT !.to = @ \ {x}, !.sent = @ \/ taken]]
    BY <2>1, <1>t
  <2>6. job' \in [Peers -> JobType']
    BY <1>0, <2>4, <2>5, <1>t, JobsType
  <2> QED
    BY <1>0, <1>5, <1>j, <2>3, <2>6, <1>t DEF FanOut, TypeOK
<1>6. ASSUME NEW p \in Peers, FanDone(p) PROVE TypeOK'
  <2>1. inbox' \in [Peers -> Seq(Message)] /\ spent' = spent
    BY <1>6, <1>t, EnqueueType, MsgType, ZeroFrames
    DEF FanDone, Send, MsgTypes, roomVars
  <2>2. job' \in [Peers -> JobType']
    BY <1>0, <1>6, <1>m, <1>t, NewJobType, JobsType DEF FanDone
  <2>3. timers' \subseteq RoomIds
    <3>1. at[p] \in RoomIds /\ timers' \in {timers, timers \cup {at[p]}}
      BY <1>6, <1>t DEF FanDone
    <3> QED
      BY <3>1, <1>t
  <2>4. pc' \in [Peers -> PCs] /\ \A q \in Peers : pc'[q] = pc[q] \/ (q = p /\ pc'[q] \notin {"new", "closed"})
    BY <1>6, <1>t DEF FanDone, Goto, PCs
  <2>5. pc[p] = "fanout" /\ UNCHANGED <<at, frames, relayed, sock>>
    BY <1>6 DEF FanDone
  <2> QED
    BY <1>0, <1>j, <2>1, <2>2, <2>3, <2>4, <2>5, <1>t DEF TypeOK
<1>7. ASSUME NEW p \in Peers, Leave(p) PROVE TypeOK'
  <2>1. spent' = spent
    BY <1>7 DEF Leave, R!Leave
  <2>2. Msg("peer-left", p, 0) \in Message
    BY MsgType, ZeroFrames DEF MsgTypes
  <2>3. job' \in [Peers -> JobType']
    BY <1>0, <1>7, <1>k, <2>2, <1>t, NewJobType, JobsType DEF Leave
  <2>4. PICK label \in {"snapshot", "closing"} : pc' = [pc EXCEPT ![p] = label]
    BY <1>7 DEF Leave, Goto
  <2>5. pc[p] = "leaving" /\ UNCHANGED <<at, frames, relayed, inbox, sock, timers>>
    BY <1>7 DEF Leave
  <2> QED
    BY <1>0, <1>j, <2>1, <2>3, <2>4, <2>5, <1>t DEF TypeOK, PCs
<1>8. ASSUME NEW p \in Peers, ReadReply(p) PROVE TypeOK'
  <2>1. inbox' \in [Peers -> Seq(Message)] /\ spent' = spent
    BY <1>8, <1>t, EnqueueType, MsgType, ZeroFrames DEF ReadReply, Send, MsgTypes
  <2>2. frames[p] + 1 \in 0..MaxFrames /\ relayed[p] <= frames[p] + 1
    BY <1>8, <1>m, <1>t DEF ReadReply, Reading
  <2>3. /\ frames' = [frames EXCEPT ![p] = frames[p] + 1]
        /\ UNCHANGED <<pc, at, job, relayed, sock, timers>>
    BY <1>8 DEF ReadReply
  <2> QED
    BY <1>0, <1>j, <1>k, <2>1, <2>2, <2>3, <1>t DEF TypeOK
<1>9. ASSUME NEW p \in Peers, ReadHangup(p) PROVE TypeOK'
  <2>1. Msg("hangup", p, 0) \in Message
    BY MsgType, ZeroFrames DEF MsgTypes
  <2>2. job' \in [Peers -> JobType']
    BY <1>0, <1>9, <2>1, <1>t, NewJobType, JobsType DEF ReadHangup
  <2> QED
    BY <1>0, <1>9, <1>j, <1>m, <2>2, <1>t DEF ReadHangup, Reading, Goto, TypeOK, PCs, roomVars
<1>10. ASSUME NEW p \in Peers, ReadRelay(p) PROVE TypeOK'
  <2>1. relayed[p] + 1 \in 0..MaxFrames /\ frames[p] + 1 \in 0..MaxFrames
    BY <1>10, <1>m, <1>t DEF ReadRelay, Reading
  <2>2. Msg("relay", p, relayed[p] + 1) \in Message
    BY <2>1, MsgType DEF MsgTypes
  <2>3. job' \in [Peers -> JobType']
    BY <1>0, <1>10, <2>2, <1>t, NewJobType, JobsType DEF ReadRelay
  <2> QED
    BY <1>0, <1>10, <1>j, <1>m, <2>1, <2>3, <1>t
    DEF ReadRelay, Reading, Goto, TypeOK, PCs, roomVars
<1>11. ASSUME NEW p \in Peers, ReadStale(p) PROVE TypeOK'
  BY <1>0, <1>11, <1>j, <1>k, <1>m, <1>t DEF ReadStale, Reading, Goto, TypeOK, PCs, roomVars
<1>12. ASSUME NEW p \in Peers, ReadFails(p) \/ Close(p) PROVE TypeOK'
  BY <1>0, <1>12, <1>j, <1>k, <1>t DEF ReadFails, Close, Goto, TypeOK, PCs, roomVars
<1>13. ASSUME NEW p \in Peers, CloseSock(p) PROVE TypeOK'
  BY <1>0, <1>13, <1>j, <1>k, <1>t DEF CloseSock, TypeOK, roomVars
<1>14. ASSUME NEW r \in RoomIds, HangupTimer(r) PROVE TypeOK'
  <2>1. spent' = spent
    BY <1>14 DEF HangupTimer, R!Delete, R!Remove
  <2> QED
    BY <1>0, <1>14, <1>j, <1>k, <2>1, <1>t DEF HangupTimer, TypeOK
<1>15. CASE UNCHANGED vars
  BY <1>0, <1>15, <1>j, <1>k, <1>t DEF vars, TypeOK
<1> QED
  BY <1>1, <1>2, <1>3, <1>4, <1>5, <1>6, <1>7, <1>8, <1>9, <1>10, <1>11, <1>12, <1>13,
     <1>14, <1>15 DEF Next, Browser, Handler, SockFails, PumpDead

-----------------------------------------------------------------------------
(* Jobs and seats *)

\* A step of p: the browser, the handler and the pump of one connection.
Of(p) == Browser(p) \/ Handler(p) \/ PumpDead(p)

Local(p) == <<pc[p], at[p], job[p], frames[p], relayed[p]>>

\* A connection's handler is moved by its own steps only.
LEMMA Alone ==
  ASSUME TypeOK, NEW p \in Peers, Of(p), NEW q \in Peers \ {p}
  PROVE  UNCHANGED Local(q)
<1>t. /\ pc \in [Peers -> PCs]
      /\ at \in [Peers -> RoomIds \cup {NoRoom}]
      /\ job \in [Peers -> JobType]
      /\ frames \in [Peers -> 0..MaxFrames]
      /\ relayed \in [Peers -> 0..MaxFrames]
  BY Types
<1>1. ASSUME NEW r, NEW s, NEW t, Join(p, r, s, t) PROVE UNCHANGED Local(q)
  BY <1>1, <1>t DEF Join, Goto, Local
<1>2. CASE Welcome(p) \/ Snapshot(p) \/ (\E x \in Peers : FanOut(p, x)) \/ FanDone(p)
  BY <1>2, <1>t DEF Welcome, Snapshot, FanOut, FanDone, Goto, Local
<1>3. CASE ReadStale(p) \/ ReadReply(p) \/ ReadHangup(p) \/ ReadRelay(p)
  BY <1>3, <1>t DEF ReadStale, ReadReply, ReadHangup, ReadRelay, Goto, Local
<1>4. CASE ReadFails(p) \/ Leave(p) \/ Close(p) \/ CloseSock(p)
  BY <1>4, <1>t DEF ReadFails, Leave, Close, CloseSock, Goto, Local
<1> QED
  BY <1>1, <1>2, <1>3, <1>4 DEF Of, Browser, Handler, SockFails, PumpDead

\* Neither the manager nor a timer moves a handler.
LEMMA Elsewhere ==
  ASSUME Manager \/ (\E r \in RoomIds : HangupTimer(r)) \/ UNCHANGED vars, NEW q
  PROVE  UNCHANGED Local(q) /\ UNCHANGED inbox
  BY DEF Manager, HangupTimer, vars, Local

LEMMA NextIs ==
  ASSUME [Next]_vars
  PROVE  \/ Manager \/ (\E r \in RoomIds : HangupTimer(r)) \/ UNCHANGED vars
         \/ \E p \in Peers : Of(p)
  BY DEF Next, Of

LEMMA JobFrame ==
  ASSUME NEW q \in Peers, JobOf(q), UNCHANGED Local(q)
  PROVE  JobOf(q)'
  BY DEF JobOf, Local

LEMMA JobsInit == Init => Jobs
  BY DEF Init, Jobs, JobOf, Busy

\* The job of p as its new Broadcast sets it.
LEMMA JobBegins ==
  ASSUME TypeOK, NEW p \in Peers, NEW type \in {"peer-ready", "relay", "hangup", "peer-left"},
         NEW n \in 0..MaxFrames, pc'[p] = "snapshot", job'[p] = Job(Msg(type, p, n)),
         type = "relay" => n = relayed'[p] /\ n > 0
  PROVE  JobOf(p)'
  BY JobFields, MsgType DEF JobOf, Busy, MsgTypes

LEMMA JobsStep == R!IndInv /\ TypeOK /\ Jobs /\ [Next]_vars => Jobs'
<1> SUFFICES ASSUME R!IndInv, TypeOK, Jobs, [Next]_vars PROVE Jobs'
  OBVIOUS
<1>t. /\ pc \in [Peers -> PCs]
      /\ job \in [Peers -> JobType]
      /\ frames \in [Peers -> 0..MaxFrames]
      /\ relayed \in [Peers -> 0..MaxFrames]
      /\ \A p \in Peers : relayed[p] <= frames[p]
      /\ MaxFrames \in Nat
  BY Types, SignalingAssumption
<1>1. CASE Manager \/ (\E r \in RoomIds : HangupTimer(r)) \/ UNCHANGED vars
  BY <1>1, Elsewhere, JobFrame DEF Jobs
<1>2. ASSUME NEW p \in Peers, Of(p) PROVE Jobs'
  <2>0. JobOf(p)
    BY DEF Jobs
  <2>1. JobOf(p)'
    <3>1. ASSUME NEW r, NEW s, NEW t, Join(p, r, s, t) PROVE JobOf(p)'
      BY <2>0, <3>1, <1>t DEF Join, Goto, JobOf, Busy
    <3>2. CASE Welcome(p)
      <4>1. CASE pc[p] = "first"
        <5>1. pc'[p] = "loop" /\ job' = job
          BY <3>2, <4>1, <1>t DEF Welcome, Goto
        <5> QED
          BY <2>0, <4>1, <5>1 DEF JobOf, Busy
      <4>2. CASE pc[p] = "second"
        <5>1. pc'[p] = "snapshot" /\ job'[p] = Job(Msg("peer-ready", p, 0))
          BY <3>2, <4>2, <1>t DEF Welcome, Goto
        <5> QED
          BY <5>1, JobBegins, ZeroFrames
      <4> QED
        BY <3>2, <4>1, <4>2 DEF Welcome
    <3>3. CASE Snapshot(p)
      <4>1. /\ pc[p] = "snapshot" /\ pc'[p] = "fanout"
            /\ job'[p] = [job[p] EXCEPT !.to = Audience(p)]
            /\ UNCHANGED relayed
        BY <3>3, <1>t DEF Snapshot, Goto
      <4>2. job'[p].msg = job[p].msg /\ job'[p].to = Audience(p)
        BY <4>1, JobIs
      <4> QED
        BY <2>0, <4>1, <4>2, AudienceIs DEF JobOf, Busy
    <3>4. ASSUME NEW x \in Peers, FanOut(p, x) PROVE JobOf(p)'
      <4>1. PICK taken \in BOOLEAN :
              job' = [job EXCEPT ![p].to = @ \ {x}, ![p].sent = @ \/ taken]
        BY <3>4 DEF FanOut
      <4>2. job'[p] = [job[p] EXCEPT !.to = @ \ {x}, !.sent = @ \/ taken]
        BY <4>1, <1>t
      <4>3. job'[p].msg = job[p].msg /\ job'[p].to = job[p].to \ {x}
        BY <4>2, JobIs
      <4>4. pc'[p] = "fanout" /\ pc[p] = "fanout" /\ relayed' = relayed
        BY <3>4 DEF FanOut
      <4> QED
        BY <2>0, <4>3, <4>4 DEF JobOf, Busy
    <3>5. CASE FanDone(p)
      <4>1. job'[p] = NoJob /\ pc'[p] \in {"loop", "leaving", "closing"}
        BY <3>5, <1>t DEF FanDone, Goto
      <4> QED
        BY <4>1 DEF JobOf, Busy
    <3>6. CASE ReadHangup(p)
      <4>1. pc'[p] = "snapshot" /\ job'[p] = Job(Msg("hangup", p, 0))
        BY <3>6, <1>t DEF ReadHangup, Goto
      <4> QED
        BY <4>1, JobBegins, ZeroFrames
    <3>7. CASE ReadRelay(p)
      <4>1. /\ pc'[p] = "snapshot" /\ job'[p] = Job(Msg("relay", p, relayed[p] + 1))
            /\ relayed'[p] = relayed[p] + 1
            /\ relayed[p] + 1 \in 0..MaxFrames
        BY <3>7, <1>t DEF ReadRelay, Reading, Goto
      <4>2. relayed[p] + 1 > 0
        BY <1>t
      <4> QED
        BY <4>1, <4>2, JobBegins
    <3>8. CASE Leave(p)
      <4>1. \/ pc'[p] = "snapshot" /\ job'[p] = Job(Msg("peer-left", p, 0))
            \/ pc[p] = "leaving" /\ pc'[p] = "closing" /\ job' = job
        BY <3>8, <1>t DEF Leave, Goto
      <4>2. CASE pc'[p] = "snapshot" /\ job'[p] = Job(Msg("peer-left", p, 0))
        BY <4>2, JobBegins, ZeroFrames
      <4>3. CASE pc[p] = "leaving" /\ pc'[p] = "closing" /\ job' = job
        BY <2>0, <4>3 DEF JobOf, Busy
      <4> QED
        BY <4>1, <4>2, <4>3
    <3>9. CASE ReadStale(p) \/ ReadReply(p)
      BY <2>0, <3>9, <1>t DEF ReadStale, ReadReply, Reading, Goto, JobOf, Busy
    <3>10. CASE ReadFails(p) \/ Close(p)
      BY <2>0, <3>10, <1>t DEF ReadFails, Close, Goto, JobOf, Busy
    <3>11. CASE CloseSock(p)
      BY <2>0, <3>11, JobFrame DEF CloseSock, Local
    <3> QED
      BY <1>2, <3>1, <3>2, <3>3, <3>4, <3>5, <3>6, <3>7, <3>8, <3>9, <3>10, <3>11
      DEF Of, Browser, Handler, SockFails, PumpDead
  <2>2. ASSUME NEW q \in Peers \ {p} PROVE JobOf(q)'
    BY <1>2, Alone, JobFrame DEF Jobs
  <2> QED
    BY <2>1, <2>2 DEF Jobs
<1> QED
  BY <1>1, <1>2, NextIs

\* A connection that holds a seat was handed to Join.
LEMMA CurrentIsSpent ==
  ASSUME R!IndInv, NEW r, NEW x \in Peers, R!IsCurrent(r, x)
  PROVE  x \in spent /\ r \in RoomIds
<1>1. r \in rooms /\ rooms \subseteq RoomIds /\ R!CoherentRoom(r)
  BY DEF R!IndInv, R!TypeOK, R!Coherent, R!IsCurrent
<1>2. ClientOf[x] \in R!Connected(r) /\ room[r].peers[ClientOf[x]] = x
  BY ManagerAssumption DEF R!IsCurrent, R!Connected
<1> QED
  BY <1>1, <1>2 DEF R!CoherentRoom, R!Connected

LEMMA CurrentIsSpentNext ==
  ASSUME R!IndInv', NEW r, NEW x \in Peers, R!IsCurrent(r, x)'
  PROVE  x \in spent' /\ r \in RoomIds
<1>1. r \in rooms' /\ rooms' \subseteq RoomIds /\ R!CoherentRoom(r)'
  BY DEF R!IndInv, R!TypeOK, R!Coherent, R!IsCurrent
<1>2. ClientOf[x] \in R!Connected(r)' /\ room'[r].peers[ClientOf[x]] = x
  BY ManagerAssumption DEF R!IsCurrent, R!Connected
<1> QED
  BY <1>1, <1>2 DEF R!CoherentRoom, R!Connected

\* Only Join spends a connection.
LEMMA SpentStep ==
  ASSUME [Next]_vars
  PROVE  \/ spent' = spent
         \/ \E p \in Peers, r \in RoomIds : \E s, t :
              Join(p, r, s, t) /\ spent' = spent \cup {p}
<1>1. CASE Manager \/ (\E r \in RoomIds : HangupTimer(r)) \/ UNCHANGED vars
  BY <1>1 DEF Manager, HangupTimer, vars, R!Tick, R!Cleanup, R!Remove, R!CreateBegin,
              R!CreateLocked, R!Delete
<1>2. ASSUME NEW p \in Peers, Handler(p) PROVE spent' = spent
  BY <1>2 DEF Handler, Welcome, Snapshot, FanOut, FanDone, ReadFails, Leave, Close,
              Send, Enqueue, roomVars, R!Leave
<1>3. ASSUME NEW p \in Peers,
             \/ ReadStale(p) \/ ReadReply(p) \/ ReadHangup(p) \/ ReadRelay(p)
             \/ SockFails(p) \/ PumpDead(p)
      PROVE spent' = spent
  BY <1>3 DEF ReadStale, ReadReply, ReadHangup, ReadRelay, SockFails, PumpDead,
              CloseSock, Send, Enqueue, roomVars
<1>4. ASSUME NEW p \in Peers, NEW r, NEW s, NEW t, Join(p, r, s, t)
      PROVE spent' = spent \cup {p}
  BY <1>4 DEF Join, R!Join
<1> QED
  BY <1>1, <1>2, <1>3, <1>4, NextIs DEF Of, Browser

\* What the steps of the manager and of other connections do to a seat.
LEMMA OldSeat ==
  ASSUME R!IndInv, TypeOK, [Next]_vars, NEW r, NEW x \in Peers, R!IsCurrent(r, x)',
         x \in spent \/ pc'[x] = pc[x]
  PROVE  x \in spent /\ r \in RoomIds /\ R!IsCurrent(r, x)
<1>1. R!IndInv' /\ [R!Next]_(R!vars)
  BY StepIsRooms, RoomsStep
<1>2. x \in spent' /\ r \in RoomIds
  BY <1>1, CurrentIsSpentNext
<1>3. x \in spent
  <2>1. ASSUME NEW p \in Peers, NEW q, NEW s, NEW t, Join(p, q, s, t) PROVE pc'[p] # pc[p]
    BY <2>1, Types DEF Join, Goto
  <2>2. CASE spent' = spent
    BY <2>2, <1>2
  <2> QED
    BY <1>2, <2>1, <2>2, SpentStep
<1> QED
  BY <1>1, <1>2, <1>3, SeatStep

\* A Broadcast carries its message to the end.
LEMMA SameMessage ==
  ASSUME TypeOK, NEW p \in Peers, Snapshot(p) \/ \E y \in Peers : FanOut(p, y)
  PROVE  job'[p].msg = job[p].msg
<1>1. CASE Snapshot(p)
  <2>1. job'[p] = [job[p] EXCEPT !.to = Audience(p)]
    BY <1>1, JobIs DEF Snapshot
  <2> QED
    BY <2>1, JobIs
<1>2. ASSUME NEW y \in Peers, FanOut(p, y) PROVE job'[p].msg = job[p].msg
  <2>1. PICK taken \in BOOLEAN :
          job' = [job EXCEPT ![p].to = @ \ {y}, ![p].sent = @ \/ taken]
    BY <1>2 DEF FanOut
  <2>2. job'[p] = [job[p] EXCEPT !.to = @ \ {y}, !.sent = @ \/ taken]
    BY <2>1, JobIs
  <2> QED
    BY <2>2, JobIs
<1> QED
  BY <1>1, <1>2

LEMMA SeatsInit == Init => Seats
  BY DEF Init, Seats, SeatOf, R!Init, R!IsCurrent

\* A seat that is new: the Join went through, and announces itself when it
\* finds another connection in the room.
LEMMA NewSeat ==
  ASSUME R!IndInv, TypeOK, NEW r \in RoomIds, NEW x \in Peers, NEW q \in RoomIds,
         NEW s, NEW t, Join(x, q, s, t), R!IsCurrent(r, x)'
  PROVE  /\ r = q
         /\ at'[x] = r
         /\ pc'[x] = IF Cardinality(R!Connected(r) \cup {ClientOf[x]}) = 2
                     THEN "second" ELSE "first"
         /\ rooms' = rooms
         /\ room' = [room EXCEPT ![r] = R!Admitted(r, x)]
<1>1. x \notin spent
  BY DEF Join, R!Join
<1>2. ~R!IsCurrent(r, x)
  BY <1>1, CurrentIsSpent
<1>3. CASE R!JoinResult(q, ClientOf[x], s, t) = "ok"
  <2>1. /\ at'[x] = q
        /\ pc'[x] = IF Cardinality(R!Connected(q) \cup {ClientOf[x]}) = 2
                    THEN "second" ELSE "first"
    BY <1>3, Types DEF Join, Goto
  <2>2. rooms' = rooms /\ room' = [room EXCEPT ![q] = R!Admitted(q, x)]
    BY <1>3 DEF Join, R!Join
  <2>3. r = q
    BY <1>2, <2>2 DEF R!IsCurrent
  <2> QED
    BY <2>1, <2>2, <2>3
<1>4. CASE R!JoinResult(q, ClientOf[x], s, t) # "ok"
  <2>1. rooms' \subseteq rooms /\ \A u \in rooms' : room'[u] = room[u]
    <3>1. room \in [RoomIds -> R!Room] /\ rooms \subseteq RoomIds
      BY DEF R!IndInv, R!TypeOK
    <3> QED
      BY <1>4, <3>1 DEF Join, R!Join
  <2> QED
    BY <1>2, <2>1 DEF R!IsCurrent
<1> QED
  BY <1>3, <1>4

LEMMA SeatFrame ==
  ASSUME R!IndInv, TypeOK, [Next]_vars, NEW r \in RoomIds, NEW x \in Peers, SeatOf(r, x),
         UNCHANGED Local(x)
  PROVE  SeatOf(r, x)'
  BY OldSeat DEF SeatOf, Local

LEMMA SeatsStep == R!IndInv /\ TypeOK /\ Jobs /\ Seats /\ [Next]_vars => Seats'
<1> SUFFICES ASSUME R!IndInv, TypeOK, Jobs, Seats, [Next]_vars,
                    NEW r \in RoomIds, NEW x \in Peers
             PROVE  SeatOf(r, x)'
  BY DEF Seats
<1>0. SeatOf(r, x)
  BY DEF Seats
<1>t. /\ pc \in [Peers -> PCs]
      /\ job \in [Peers -> JobType]
      /\ at \in [Peers -> RoomIds \cup {NoRoom}]
  BY Types
<1>1. CASE Manager \/ (\E q \in RoomIds : HangupTimer(q)) \/ UNCHANGED vars
  BY <1>0, <1>1, Elsewhere, SeatFrame
<1>2. ASSUME NEW p \in Peers \ {x}, Of(p) PROVE SeatOf(r, x)'
  BY <1>0, <1>2, Alone, SeatFrame
<1>3. CASE Of(x)
  <2> SUFFICES ASSUME R!IsCurrent(r, x)' PROVE SeatOf(r, x)'
    BY DEF SeatOf
  <2>o. ASSUME pc[x] # "new" PROVE R!IsCurrent(r, x) /\ at[x] = r
    <3>1. x \in spent
      BY <2>o, Types
    <3> QED
      BY <1>0, <3>1, OldSeat DEF SeatOf
  <2>1. ASSUME NEW q \in RoomIds, NEW s, NEW t, Join(x, q, s, t) PROVE SeatOf(r, x)'
    <3>1. at'[x] = r /\ pc'[x] \in {"first", "second"}
      BY <2>1, NewSeat
    <3> QED
      BY <3>1 DEF SeatOf, Busy
  <2>2. CASE Welcome(x)
    <3>1. \/ pc'[x] = "loop"
          \/ pc'[x] = "snapshot" /\ job'[x] = Job(Msg("peer-ready", x, 0))
      BY <2>2, <1>t DEF Welcome, Goto
    <3>2. Job(Msg("peer-ready", x, 0)).msg.type # "peer-left"
      BY JobFields, MsgType, ZeroFrames DEF MsgTypes
    <3> QED
      BY <2>2, <2>o, <3>1, <3>2 DEF Welcome, SeatOf, Busy
  <2>3. CASE Snapshot(x) \/ \E y \in Peers : FanOut(x, y)
    <3>1. pc[x] \in Busy /\ pc'[x] \in Busy /\ at' = at
      BY <2>3, <1>t DEF Snapshot, FanOut, Goto, Busy
    <3>2. job'[x].msg = job[x].msg
      BY <2>3, SameMessage
    <3> QED
      BY <1>0, <2>o, <3>1, <3>2 DEF SeatOf, Busy
  <2>4. CASE FanDone(x)
    <3>1. pc[x] = "fanout" /\ at' = at
      BY <2>4 DEF FanDone
    <3>2. job[x].msg.type # "peer-left"
      BY <1>0, <2>o, <3>1 DEF SeatOf, Busy
    <3>3. pc'[x] \in {"loop", "leaving"}
      BY <2>4, <3>2, <1>t DEF FanDone, Goto
    <3> QED
      BY <2>o, <3>1, <3>3 DEF SeatOf, Busy
  <2>5. CASE ReadHangup(x) \/ ReadRelay(x)
    <3>1. pc[x] = "loop" /\ at' = at
      BY <2>5 DEF ReadHangup, ReadRelay, Reading
    <3>2. /\ pc'[x] = "snapshot"
          /\ \E type \in {"hangup", "relay"} : \E n : job'[x] = Job(Msg(type, x, n))
      BY <2>5, <1>t DEF ReadHangup, ReadRelay, Goto
    <3>3. job'[x].msg.type \in {"hangup", "relay"}
      BY <3>2, JobFields DEF Msg
    <3> QED
      BY <2>o, <3>1, <3>2, <3>3 DEF SeatOf
  <2>6. CASE ReadStale(x) \/ ReadReply(x) \/ ReadFails(x)
    BY <2>6, <2>o, <1>t DEF ReadStale, ReadReply, ReadFails, Reading, Goto, SeatOf, Busy
  <2>7. CASE Leave(x)
    <3>1. pc[x] = "leaving" /\ at[x] = r /\ r \in rooms
      BY <2>7, <2>o DEF Leave, R!IsCurrent
    <3>2. R!IsCurrent(r, x) /\ R!Leave(r, x)
      BY <2>7, <2>o, <3>1 DEF Leave
    <3>3. room \in [RoomIds -> R!Room] /\ room'[r] = R!Departed(r, ClientOf[x])
      BY <3>2 DEF R!Leave, R!IndInv, R!TypeOK
    <3>4. room[r].peers \in [Clients -> Peers \cup {NoPeer}]
      BY <3>3 DEF R!Room
    <3>5. room'[r].peers[ClientOf[x]] = NoPeer
      BY <3>3, <3>4, ClientOfPeer DEF R!Departed
    <3> QED
      BY <3>5, ManagerAssumption DEF R!IsCurrent
  <2>8. CASE Close(x)
    BY <1>0, <2>8, <2>o DEF Close, SeatOf
  <2>9. CASE CloseSock(x)
    BY <1>0, <2>9, SeatFrame DEF CloseSock, Local
  <2> QED
    BY <1>3, <2>1, <2>2, <2>3, <2>4, <2>5, <2>6, <2>7, <2>8, <2>9
    DEF Of, Browser, Handler, SockFails, PumpDead
<1> QED
  BY <1>1, <1>2, <1>3, NextIs

-----------------------------------------------------------------------------
(* Inboxes *)

Appends(x, m) == inbox' = [inbox EXCEPT ![x] = Append(inbox[x], m)]

\* What a step may append, and which step it is.
LEMMA Inboxes ==
  ASSUME TypeOK, Jobs, [Next]_vars
  PROVE  \/ inbox' = inbox
         \/ \E x \in Peers \ dead, m \in Message :
              /\ Appends(x, m)
              /\ \/ m.type \in {"joined", "reply"}
                 \/ m.type = "unavailable" /\ m.from = x /\ FanDone(x)
                 \/ \E p \in Peers : FanOut(p, x) /\ m = job[p].msg
<1>e. ASSUME NEW x \in Peers, NEW m \in Message, NEW taken, Enqueue(x, m, taken)
      PROVE  inbox' = inbox \/ (x \notin dead /\ Appends(x, m))
  BY <1>e DEF Enqueue, Appends
<1>m. ASSUME NEW p \in Peers, NEW type \in MsgTypes
      PROVE  Msg(type, p, 0) \in Message /\ Msg(type, p, 0).type = type
             /\ Msg(type, p, 0).from = p
  BY MsgType, ZeroFrames
<1>1. CASE Manager \/ (\E r \in RoomIds : HangupTimer(r)) \/ UNCHANGED vars
  BY <1>1 DEF Manager, HangupTimer, vars
<1>2. ASSUME NEW p \in Peers, Welcome(p)
      PROVE  \/ inbox' = inbox
             \/ \E m \in Message : p \notin dead /\ Appends(p, m) /\ m.type = "joined"
  BY <1>2, <1>e, <1>m DEF Welcome, Send, MsgTypes
<1>3. ASSUME NEW p \in Peers, ReadReply(p)
      PROVE  \/ inbox' = inbox
             \/ \E m \in Message : p \notin dead /\ Appends(p, m) /\ m.type = "reply"
  BY <1>3, <1>e, <1>m DEF ReadReply, Send, MsgTypes
<1>4. ASSUME NEW p \in Peers, FanDone(p)
      PROVE  \/ inbox' = inbox
             \/ \E m \in Message : p \notin dead /\ Appends(p, m) /\ m.type = "unavailable"
                                   /\ m.from = p
  BY <1>4, <1>e, <1>m DEF FanDone, Send, MsgTypes
<1>5. ASSUME NEW p \in Peers, NEW x \in Peers, FanOut(p, x)
      PROVE  inbox' = inbox \/ (x \notin dead /\ job[p].msg \in Message /\ Appends(x, job[p].msg))
  <2>1. job[p].msg \in Message
    BY <1>5 DEF FanOut, Jobs, JobOf, Busy
  <2> QED
    BY <1>5, <1>e, <2>1 DEF FanOut
<1>6. ASSUME NEW p \in Peers,
             \/ \E r, s, t : Join(p, r, s, t)
             \/ Snapshot(p) \/ ReadFails(p) \/ Leave(p) \/ Close(p) \/ ReadStale(p)
             \/ ReadHangup(p) \/ ReadRelay(p) \/ CloseSock(p)
      PROVE  inbox' = inbox
  BY <1>6 DEF Join, Snapshot, ReadFails, Leave, Close, ReadStale, ReadHangup, ReadRelay,
              CloseSock
<1>7. ASSUME NEW p \in Peers, Of(p)
      PROVE  \/ Welcome(p) \/ ReadReply(p) \/ FanDone(p) \/ \E x \in Peers : FanOut(p, x)
             \/ \E r, s, t : Join(p, r, s, t)
             \/ Snapshot(p) \/ ReadFails(p) \/ Leave(p) \/ Close(p) \/ ReadStale(p)
             \/ ReadHangup(p) \/ ReadRelay(p) \/ CloseSock(p)
  BY <1>7 DEF Of, Browser, Handler, SockFails, PumpDead
<1>8. ASSUME NEW p \in Peers, Of(p), inbox' # inbox
      PROVE  \E x \in Peers \ dead, m \in Message :
               /\ Appends(x, m)
               /\ \/ m.type \in {"joined", "reply"}
                  \/ m.type = "unavailable" /\ m.from = x /\ FanDone(x)
                  \/ \E q \in Peers : FanOut(q, x) /\ m = job[q].msg
  BY <1>2, <1>3, <1>4, <1>5, <1>6, <1>7, <1>8
<1> QED
  BY <1>1, <1>8, NextIs

\* What an inbox has after an Append.
LEMMA AppendGives ==
  ASSUME TypeOK, NEW x \in Peers, NEW m \in Message, Appends(x, m), NEW y \in Peers
  PROVE  LET new == Len(inbox[x]) + 1
         IN /\ \A type : Received(y, type)' =
                 IF y = x /\ m.type = type THEN Received(y, type) \cup {new}
                 ELSE Received(y, type)
            /\ \A i \in 1..Len(inbox[y]) : inbox'[y][i] = inbox[y][i]
            /\ inbox'[x][new] = m
            /\ Len(inbox[y]) \in Nat /\ new \in Nat
<1>1. inbox \in [Peers -> Seq(Message)] /\ inbox[x] \in Seq(Message)
  BY Types
<1>2. /\ Len(inbox[x]) \in Nat /\ Len(inbox[y]) \in Nat
      /\ Len(Append(inbox[x], m)) = Len(inbox[x]) + 1
      /\ \A i \in 1..Len(inbox[x]) : Append(inbox[x], m)[i] = inbox[x][i]
      /\ Append(inbox[x], m)[Len(inbox[x]) + 1] = m
  BY <1>1, AppendProperties, LenProperties
<1>3. inbox'[x] = Append(inbox[x], m)
  BY <1>1 DEF Appends
<1>4. CASE y = x
  <2>1. ASSUME NEW type
        PROVE  Received(x, type)' = IF m.type = type
                 THEN Received(x, type) \cup {Len(inbox[x]) + 1} ELSE Received(x, type)
    BY <1>2, <1>3 DEF Received
  <2> QED
    BY <1>2, <1>3, <1>4, <2>1
<1>5. CASE y # x
  <2>1. inbox'[y] = inbox[y]
    BY <1>1, <1>5 DEF Appends
  <2> QED
    BY <1>2, <1>3, <1>5, <2>1 DEF Received
<1> QED
  BY <1>4, <1>5

\* What was received stays.
LEMMA KeptMessages ==
  ASSUME TypeOK, Jobs, [Next]_vars, NEW y \in Peers
  PROVE  \A type : \A i \in Received(y, type) :
           i \in Received(y, type)' /\ inbox'[y][i] = inbox[y][i]
<1>1. CASE inbox' = inbox
  BY <1>1 DEF Received
<1>2. ASSUME NEW x \in Peers, NEW m \in Message, Appends(x, m)
      PROVE  \A type : \A i \in Received(y, type) :
               i \in Received(y, type)' /\ inbox'[y][i] = inbox[y][i]
  <2>1. ASSUME NEW type, NEW i \in Received(y, type)
        PROVE  i \in Received(y, type)' /\ inbox'[y][i] = inbox[y][i]
    <3>1. i \in 1..Len(inbox[y])
      BY DEF Received
    <3>2. Received(y, type) \subseteq Received(y, type)'
      BY <1>2, AppendGives
    <3> QED
      BY <1>2, <3>1, <3>2, AppendGives
  <2> QED
    BY <2>1
<1>3. inbox' = inbox \/ \E x \in Peers, m \in Message : Appends(x, m)
  BY Inboxes
<1> QED
  BY <1>1, <1>2, <1>3, Zenon

\* Nothing p relays arrives at y, or anywhere, in this step.
NoRelay(p, y) ==
  /\ Relays(p, y)' = Relays(p, y)
  /\ \A i \in Relays(p, y) : inbox'[y][i] = inbox[y][i]

NoRelayOf(p) == \A y \in Peers : NoRelay(p, y)

LEMMA RelaysKept ==
  ASSUME TypeOK, Jobs, [Next]_vars, NEW p \in Peers,
         job[p].msg.type = "relay" => \A y \in Peers : ~FanOut(p, y)
  PROVE  NoRelayOf(p)
<1>1. CASE inbox' = inbox
  BY <1>1 DEF NoRelayOf, NoRelay, Relays, Received
<1>2. ASSUME NEW x \in Peers, NEW m \in Message, Appends(x, m),
             ~(m.type = "relay" /\ m.from = p)
      PROVE NoRelayOf(p)
  <2> SUFFICES ASSUME NEW y \in Peers
               PROVE  /\ Relays(p, y)' = Relays(p, y)
                      /\ \A i \in Relays(p, y) : inbox'[y][i] = inbox[y][i]
    BY DEF NoRelayOf, NoRelay
  <2>1. \A i \in Received(y, "relay") : inbox'[y][i] = inbox[y][i]
    BY <1>2, AppendGives DEF Received
  <2>2. \/ Received(y, "relay")' = Received(y, "relay")
        \/ /\ x = y /\ m.type = "relay"
           /\ Received(y, "relay")' = Received(y, "relay") \cup {Len(inbox[x]) + 1}
           /\ inbox'[x][Len(inbox[x]) + 1] = m
    BY <1>2, AppendGives
  <2> QED
    BY <1>2, <2>1, <2>2 DEF Relays
<1>3. ASSUME NEW q \in Peers, NEW x \in Peers, FanOut(q, x)
      PROVE  ~(job[q].msg.type = "relay" /\ job[q].msg.from = p)
  <2>1. job[q].msg.from = q
    BY <1>3 DEF FanOut, Jobs, JobOf, Busy
  <2> QED
    BY <1>3, <2>1
<1>4. CASE inbox' # inbox
  <2>1. PICK x \in Peers \ dead, m \in Message :
          /\ Appends(x, m)
          /\ \/ m.type \in {"joined", "reply"}
             \/ m.type = "unavailable" /\ m.from = x /\ FanDone(x)
             \/ \E q \in Peers : FanOut(q, x) /\ m = job[q].msg
    BY <1>4, Inboxes
  <2>2. ~(m.type = "relay" /\ m.from = p)
    BY <1>3, <2>1
  <2> QED
    BY <1>2, <2>1, <2>2
<1> QED
  BY <1>1, <1>4

\* A connection that is not moved fans nothing out.
LEMMA FanOutMoves ==
  ASSUME TypeOK, NEW p \in Peers, NEW y, FanOut(p, y)
  PROVE  job'[p] # job[p]
<1>1. PICK taken \in BOOLEAN :
        job' = [job EXCEPT ![p].to = @ \ {y}, ![p].sent = @ \/ taken]
  BY DEF FanOut
<1>2. job'[p].to = job[p].to \ {y}
  <2>1. job'[p] = [job[p] EXCEPT !.to = @ \ {y}, !.sent = @ \/ taken]
    BY <1>1, JobIs
  <2> QED
    BY <2>1, JobIs
<1> QED
  BY <1>2 DEF FanOut

-----------------------------------------------------------------------------
(* Order of the relays *)

\* A connection out of reach stays so until p takes another snapshot.
LEMMA ReachedStep ==
  ASSUME R!IndInv, TypeOK, [Next]_vars, NEW p \in Peers, NEW x \in spent,
         at'[p] = at[p], x \in job'[p].to => x \in job[p].to \/ R!IsCurrent(at[p], x),
         Reached(p, x)'
  PROVE  Reached(p, x)
<1>0. x \in Peers /\ dead \subseteq dead'
  BY StepIsRooms, SeatStep, Types
<1>1. PICK r : r = at[p]
  OBVIOUS
<1>2. R!IsCurrent(at[p], x)' => R!IsCurrent(r, x)'
  BY <1>1 DEF R!IsCurrent
<1>3. R!IsCurrent(r, x)' => R!IsCurrent(at[p], x)
  BY <1>0, <1>1, OldSeat
<1>4. x \notin dead' /\ (R!IsCurrent(at[p], x)' \/ x \in job'[p].to)
  BY DEF Reached
<1> QED
  BY <1>0, <1>2, <1>3, <1>4 DEF Reached

\* The steps in which nothing p relays arrives.
LEMMA OrderFrame ==
  ASSUME R!IndInv, TypeOK, [Next]_vars, NEW p \in Peers, NEW x \in Peers, InOrder(p, x),
         NoRelay(p, x),
         Relays(p, x) # {} =>
           /\ Due(p, x) \in Int /\ Due(p, x)' \in Int /\ Due(p, x) <= Due(p, x)'
           /\ Reached(p, x)' => Reached(p, x) /\ Due(p, x)' = Due(p, x)
  PROVE  InOrder(p, x)'
<1>1. spent \subseteq spent'
  BY StepIsRooms, SeatStep
<1>2. /\ Relays(p, x)' = Relays(p, x)
      /\ \A i \in Relays(p, x) : inbox'[x][i] = inbox[x][i]
  BY DEF NoRelay
<1>3. \A n : Got(p, x, n)' <=> Got(p, x, n)
  BY <1>2 DEF Got
<1>4. CASE Relays(p, x) = {}
  <2>1. Relays(p, x)' = {}
    BY <1>2, <1>4
  <2> QED
    BY <2>1 DEF InOrder
<1>5. CASE Relays(p, x) # {}
  <2>1. \A i \in Relays(p, x)' : inbox'[x][i].n \in 1..Due(p, x)'
    BY <1>2, <1>5 DEF InOrder
  <2>2. \A i, j \in Relays(p, x)' : i < j => inbox'[x][i].n < inbox'[x][j].n
    BY <1>2 DEF InOrder
  <2>3. \A i, j \in Relays(p, x)' :
           \A m \in inbox'[x][i].n .. inbox'[x][j].n : Got(p, x, m)'
    BY <1>2, <1>3 DEF InOrder
  <2>4. Reached(p, x)' => Got(p, x, Due(p, x))' 
    <3>1. Reached(p, x)' => Got(p, x, Due(p, x)) /\ Due(p, x)' = Due(p, x)
      BY <1>5 DEF InOrder
    <3> QED
      BY <1>2, <3>1 DEF Got
  <2>5. x \in spent' /\ ClientOf[x] # ClientOf[p]
    BY <1>1, <1>5 DEF InOrder
  <2> QED
    BY <2>1, <2>2, <2>3, <2>4, <2>5 DEF InOrder
<1> QED
  BY <1>4, <1>5

\* What is due is a number.
LEMMA DueType ==
  ASSUME TypeOK, NEW p \in Peers, NEW x
  PROVE  Due(p, x) \in Int /\ relayed[p] \in Nat
  BY Types, SignalingAssumption DEF Due

LEMMA DueTypeNext ==
  ASSUME TypeOK', NEW p \in Peers, NEW x
  PROVE  Due(p, x)' \in Int
<1>1. relayed' \in [Peers -> 0..MaxFrames] /\ MaxFrames \in Nat
  BY SignalingAssumption DEF TypeOK
<1> QED
  BY <1>1 DEF Due

\* Nothing is received from a connection that relayed nothing.
LEMMA NothingYet ==
  ASSUME TypeOK, NEW p \in Peers, NEW x \in Peers, InOrder(p, x), relayed[p] = 0,
         ~Relaying(p)
  PROVE  Relays(p, x) = {}
  BY DEF InOrder, Due, Pending

LEMMA OrdersInit == Init => Orders
<1> SUFFICES ASSUME Init, NEW p \in Peers, NEW x \in Peers PROVE InOrder(p, x)
  BY DEF Orders
<1>1. Relays(p, x) = {}
  BY DEF Init, Relays, Received
<1> QED
  BY <1>1 DEF InOrder

\* The steps of others leave the order of what p relays alone.
LEMMA OrderOthers ==
  ASSUME R!IndInv, TypeOK, Jobs, [Next]_vars, NEW p \in Peers, NEW x \in Peers,
         InOrder(p, x), UNCHANGED Local(p)
  PROVE  InOrder(p, x)'
<1>1. NoRelay(p, x)
  BY FanOutMoves, RelaysKept DEF Local, NoRelayOf
<1>2. Due(p, x)' = Due(p, x)
  BY DEF Due, Pending, Relaying, Local
<1>3. x \in spent => (Reached(p, x)' => Reached(p, x))
  BY ReachedStep DEF Local
<1> QED
  BY <1>1, <1>2, <1>3, DueType, OrderFrame DEF InOrder

\* Outside the Broadcast of a relay, no step of p changes what is due.
LEMMA OrderPlain ==
  ASSUME R!IndInv, TypeOK, Jobs, [Next]_vars, NEW p \in Peers, NEW x \in Peers,
         InOrder(p, x), ~Relaying(p), ~Relaying(p)',
         \A y \in Peers : FanOut(p, y) => job[p].msg.type # "relay",
         relayed'[p] = relayed[p], at'[p] = at[p],
         x \in job'[p].to => x \in job[p].to \/ R!IsCurrent(at[p], x)
  PROVE  InOrder(p, x)'
<1>1. NoRelay(p, x)
  BY RelaysKept DEF NoRelayOf
<1>2. Due(p, x)' = Due(p, x)
  BY DEF Due, Pending
<1>3. x \in spent => (Reached(p, x)' => Reached(p, x))
  BY ReachedStep
<1> QED
  BY <1>1, <1>2, <1>3, DueType, OrderFrame DEF InOrder

\* Broadcast looks at the room.
LEMMA OrderSnapshot ==
  ASSUME R!IndInv, TypeOK, Jobs, [Next]_vars, NEW p \in Peers, NEW x \in Peers,
         InOrder(p, x), Snapshot(p)
  PROVE  InOrder(p, x)'
<1>1. /\ pc[p] = "snapshot" /\ pc'[p] = "fanout" /\ job[p].to = {}
      /\ at' = at /\ relayed' = relayed
  BY Types DEF Snapshot, Goto, Jobs, JobOf
<1>2. job'[p].msg = job[p].msg /\ job'[p].to = Audience(p)
  <2>1. job'[p] = [job[p] EXCEPT !.to = Audience(p)]
    BY JobIs DEF Snapshot
  <2> QED
    BY <2>1, JobIs
<1>3. x \in job'[p].to => R!IsCurrent(at[p], x)
  BY <1>2, AudienceIs
<1>4. CASE job[p].msg.type = "relay"
  <2>1. NoRelay(p, x)
    BY <1>1, RelaysKept DEF FanOut, NoRelayOf
  <2>2. Due(p, x) = relayed[p] - 1
        /\ Due(p, x)' = IF x \in Audience(p) THEN relayed[p] - 1 ELSE relayed[p]
    BY <1>1, <1>2, <1>4 DEF Due, Pending, Relaying, Busy
  <2>3. ASSUME Relays(p, x) # {}, Reached(p, x)' PROVE Reached(p, x) /\ x \in Audience(p)
    <3>1. x \in spent /\ ClientOf[x] # ClientOf[p]
      BY <2>3 DEF InOrder
    <3>2. Reached(p, x)
      BY <1>1, <1>3, <2>3, <3>1, ReachedStep
    <3>3. R!IsCurrent(at[p], x)
      BY <1>1, <3>2 DEF Reached
    <3> QED
      BY <3>1, <3>2, <3>3, AudienceIs
  <2>4. Due(p, x) \in Int /\ Due(p, x)' \in Int /\ Due(p, x) <= Due(p, x)'
    BY <2>2, DueType
  <2>5. Reached(p, x)' /\ Relays(p, x) # {} => Reached(p, x) /\ Due(p, x)' = Due(p, x)
    BY <2>2, <2>3
  <2> QED
    BY <2>1, <2>4, <2>5, OrderFrame
<1>5. CASE job[p].msg.type # "relay"
  BY <1>1, <1>2, <1>3, <1>5, OrderPlain DEF Relaying, FanOut
<1> QED
  BY <1>4, <1>5

\* What is due goes to x.
LEMMA OrderAppend ==
  ASSUME TypeOK, NEW p \in Peers, NEW x \in spent, x \in Peers, InOrder(p, x),
         NEW m \in Message, Appends(x, m), m.type = "relay", m.from = p,
         m.n = Due(p, x) + 1, Due(p, x)' = Due(p, x) + 1, Due(p, x) \in Nat,
         Reached(p, x), ClientOf[x] # ClientOf[p], spent \subseteq spent'
  PROVE  InOrder(p, x)'
<1> DEFINE new == Len(inbox[x]) + 1
<1>d. PICK due \in Nat : due = Due(p, x)
  OBVIOUS
<1>1. /\ Relays(p, x)' = Relays(p, x) \cup {new}
      /\ \A i \in Relays(p, x) : inbox'[x][i] = inbox[x][i] /\ i \in Nat /\ i < new
      /\ inbox'[x][new].n = due + 1
      /\ inbox'[x][new].from = p
      /\ new \in Nat
  <2>1. Received(x, "relay")' = Received(x, "relay") \cup {new}
    BY AppendGives
  <2>2. /\ \A i \in 1..Len(inbox[x]) : inbox'[x][i] = inbox[x][i]
        /\ inbox'[x][new] = m
        /\ Len(inbox[x]) \in Nat /\ new \in Nat
    BY AppendGives
  <2>3. Received(x, "relay") \subseteq 1..Len(inbox[x])
    BY DEF Received
  <2>4. Relays(p, x)' = Relays(p, x) \cup {new}
    BY <2>1, <2>2, <2>3 DEF Relays
  <2> QED
    BY <1>d, <2>2, <2>3, <2>4 DEF Relays
<1> DEFINE Num(i) == inbox'[x][i].n
<1>2. \A i \in Relays(p, x) : Num(i) \in 1..due /\ Num(i) = inbox[x][i].n
  BY <1>1, <1>d DEF InOrder
<1>3. Num(new) = due + 1
  BY <1>1
<1>4. \A i, j \in Relays(p, x) : i < j => Num(i) < Num(j)
  BY <1>2 DEF InOrder
<1>5. \A n : Got(p, x, n) => Got(p, x, n)'
  BY <1>1 DEF Got
<1>6. Got(p, x, due + 1)'
  BY <1>1, <1>3 DEF Got
<1>7. \A i, j \in Relays(p, x) : \A k \in Num(i) .. Num(j) : Got(p, x, k)'
  BY <1>2, <1>5 DEF InOrder
<1>8. \A i \in Relays(p, x) : \A k \in Num(i) .. due : Got(p, x, k)'
  <2> SUFFICES ASSUME NEW i \in Relays(p, x), NEW k \in Num(i) .. due
               PROVE  Got(p, x, k)'
    OBVIOUS
  <2>1. PICK j \in Relays(p, x) : Num(j) = due
    BY <1>2, <1>d DEF InOrder, Got
  <2> QED
    BY <1>7, <2>1
<1> HIDE DEF Num, new
<1>9. \A i \in Relays(p, x)' : Num(i) \in 1..(due + 1)
  BY <1>1, <1>2, <1>3
<1>10. \A i, j \in Relays(p, x)' : i < j => Num(i) < Num(j)
  BY <1>1, <1>2, <1>3, <1>4
<1>11. \A i, j \in Relays(p, x)' : \A k \in Num(i) .. Num(j) : Got(p, x, k)'
  <2> SUFFICES ASSUME NEW i \in Relays(p, x)', NEW j \in Relays(p, x)',
                      NEW k \in Num(i) .. Num(j)
               PROVE  Got(p, x, k)'
    OBVIOUS
  <2>1. k = due + 1 \/ (i \in Relays(p, x) /\ k \in Num(i) .. due)
    BY <1>1, <1>2, <1>3
  <2> QED
    BY <1>6, <1>8, <2>1
<1>12. Got(p, x, Due(p, x))'
  BY <1>1, <1>3, <1>d DEF Got, Num
<1> QED
  BY <1>9, <1>10, <1>11, <1>12, <1>d DEF InOrder, Num

\* Broadcast hands the message to one of those it found.
LEMMA OrderFanOut ==
  ASSUME R!IndInv, TypeOK, Jobs, [Next]_vars, NEW p \in Peers, NEW x \in Peers,
         InOrder(p, x), NEW y \in Peers, FanOut(p, y)
  PROVE  InOrder(p, x)'
<1>1. PICK taken \in BOOLEAN :
        /\ Enqueue(y, job[p].msg, taken)
        /\ job' = [job EXCEPT ![p].to = @ \ {y}, ![p].sent = @ \/ taken]
  BY DEF FanOut
<1>2. job'[p].msg = job[p].msg /\ job'[p].to = job[p].to \ {y}
  <2>1. job'[p] = [job[p] EXCEPT !.to = @ \ {y}, !.sent = @ \/ taken]
    BY <1>1, JobIs
  <2> QED
    BY <2>1, JobIs
<1>3. /\ pc[p] = "fanout" /\ pc'[p] = "fanout" /\ y \in job[p].to /\ y \in spent
      /\ at' = at /\ relayed' = relayed
  BY JobIs DEF FanOut
<1>4. job[p].msg \in Message /\ job[p].msg.from = p
  BY <1>3 DEF Jobs, JobOf, Busy
<1>5. CASE job[p].msg.type # "relay"
  BY <1>2, <1>3, <1>5, OrderPlain DEF Relaying
<1>6. CASE job[p].msg.type = "relay"
  <2>1. Relaying(p) /\ Relaying(p)'
    BY <1>2, <1>3, <1>6 DEF Relaying, Busy
  <2>2. /\ relayed[p] > 0 /\ job[p].msg.n = relayed[p] /\ relayed[p] \in Nat
        /\ ClientOf[y] # ClientOf[p]
    BY <1>3, <1>6, DueType DEF Jobs, JobOf, Busy
  <2>3. CASE y # x
    <3>1. inbox'[x] = inbox[x]
      BY <1>1, <2>3, Types DEF Enqueue
    <3>2. NoRelay(p, x)
      BY <3>1 DEF NoRelay, Relays, Received
    <3>3. Due(p, x)' = Due(p, x)
      BY <1>2, <1>3, <2>1, <2>3 DEF Due, Pending
    <3>4. x \in spent => (Reached(p, x)' => Reached(p, x))
      BY <1>2, <1>3, ReachedStep
    <3> QED
      BY <3>2, <3>3, <3>4, DueType, OrderFrame DEF InOrder
  <2>4. CASE y = x /\ x \in dead'
    <3>1. inbox' = inbox
      BY <1>1, <2>4 DEF Enqueue
    <3>2. NoRelay(p, x)
      BY <3>1 DEF NoRelay, Relays, Received
    <3>3. Due(p, x) = relayed[p] - 1 /\ Due(p, x)' = relayed[p]
      BY <1>2, <1>3, <2>1, <2>4 DEF Due, Pending
    <3>4. ~Reached(p, x)'
      BY <2>4 DEF Reached
    <3> QED
      BY <2>2, <3>2, <3>3, <3>4, OrderFrame
  <2>5. CASE y = x /\ x \notin dead'
    <3>1. x \notin dead /\ Appends(x, job[p].msg) /\ spent' = spent
      BY <1>1, <2>5 DEF Enqueue, Appends
    <3>2. Due(p, x) = relayed[p] - 1 /\ Due(p, x)' = relayed[p]
      BY <1>2, <1>3, <2>1, <2>5 DEF Due, Pending
    <3>3. Reached(p, x)
      BY <1>3, <2>5, <3>1 DEF Reached
    <3>4. Due(p, x) \in Nat /\ Due(p, x)' = Due(p, x) + 1
          /\ job[p].msg.n = Due(p, x) + 1
      BY <2>2, <3>2
    <3> QED
      BY <1>3, <1>4, <1>6, <2>2, <2>5, <3>1, <3>3, <3>4, OrderAppend
  <2> QED
    BY <2>3, <2>4, <2>5
<1> QED
  BY <1>5, <1>6

LEMMA OrdersStep ==
  R!IndInv /\ TypeOK /\ Jobs /\ Orders /\ [Next]_vars => Orders'
<1> SUFFICES ASSUME R!IndInv, TypeOK, Jobs, Orders, [Next]_vars,
                    NEW p \in Peers, NEW x \in Peers
             PROVE  InOrder(p, x)'
  BY DEF Orders
<1>0. InOrder(p, x) /\ JobOf(p)
  BY DEF Orders, Jobs
<1>t. /\ pc \in [Peers -> PCs]
      /\ job \in [Peers -> JobType]
      /\ at \in [Peers -> RoomIds \cup {NoRoom}]
      /\ frames \in [Peers -> 0..MaxFrames]
      /\ relayed \in [Peers -> 0..MaxFrames]
      /\ relayed[p] <= frames[p]
      /\ MaxFrames \in Nat
  BY Types, SignalingAssumption
<1>1. CASE Manager \/ (\E r \in RoomIds : HangupTimer(r)) \/ UNCHANGED vars
  BY <1>0, <1>1, Elsewhere, OrderOthers
<1>2. ASSUME NEW q \in Peers \ {p}, Of(q) PROVE InOrder(p, x)'
  BY <1>0, <1>2, Alone, OrderOthers
<1>3. CASE Of(p)
  <2>1. ASSUME NEW r, NEW s, NEW t, Join(p, r, s, t) PROVE InOrder(p, x)'
    <3>1. /\ pc[p] = "new" /\ relayed'[p] = relayed[p]
          /\ pc'[p] \in {"first", "second", "closed"}
      BY <2>1, <1>t DEF Join, Goto
    <3>2. relayed[p] = 0 /\ ~Relaying(p)
      BY <1>0, <1>t, <3>1 DEF JobOf, Relaying, Busy
    <3>3. Relays(p, x) = {} /\ NoRelay(p, x)
      BY <1>0, <3>1, <3>2, NothingYet, RelaysKept DEF FanOut, NoRelayOf
    <3> QED
      BY <1>0, <3>3, OrderFrame
  <2>2. CASE ReadRelay(p)
    <3>1. /\ pc[p] = "loop" /\ pc'[p] = "snapshot"
          /\ relayed'[p] = relayed[p] + 1 /\ relayed[p] \in Int
          /\ job'[p] = Job(Msg("relay", p, relayed[p] + 1))
          /\ at' = at
      BY <2>2, <1>t DEF ReadRelay, Reading, Goto
    <3>2. job'[p].to = {} /\ job'[p].msg.type = "relay"
      BY <3>1, JobFields DEF Msg
    <3>3. Due(p, x) = relayed[p] /\ Due(p, x)' = relayed[p]
      BY <3>1, <3>2 DEF Due, Pending, Relaying, Busy
    <3>4. NoRelay(p, x)
      BY <3>1, RelaysKept DEF FanOut, NoRelayOf
    <3>5. x \in spent => (Reached(p, x)' => Reached(p, x))
      BY <3>1, <3>2, ReachedStep
    <3> QED
      BY <1>0, <3>1, <3>3, <3>4, <3>5, OrderFrame DEF InOrder
  <2>3. CASE FanDone(p)
    <3>1. /\ pc[p] = "fanout" /\ job[p].to = {} /\ job'[p] = NoJob
          /\ pc'[p] \in {"loop", "leaving", "closing"}
          /\ at' = at /\ relayed' = relayed
      BY <2>3, <1>t DEF FanDone, Goto
    <3>2. Due(p, x) = relayed[p] /\ Due(p, x)' = relayed[p] /\ job'[p].to = {}
      BY <3>1 DEF Due, Pending, Relaying, Busy, NoJob
    <3>3. NoRelay(p, x)
      BY <3>1, RelaysKept DEF FanOut, NoRelayOf
    <3>4. x \in spent => (Reached(p, x)' => Reached(p, x))
      BY <3>1, <3>2, ReachedStep
    <3> QED
      BY <1>0, <3>2, <3>3, <3>4, DueType, OrderFrame DEF InOrder
  <2>4. CASE Welcome(p) \/ ReadHangup(p) \/ Leave(p)
    <3>1. /\ pc[p] \in {"first", "second", "loop", "leaving"}
          /\ at' = at /\ relayed' = relayed
          /\ \/ job'[p] = job[p] /\ pc'[p] \notin Busy
             \/ \E type \in {"peer-ready", "hangup", "peer-left"} :
                  job'[p] = Job(Msg(type, p, 0))
      BY <2>4, <1>t DEF Welcome, ReadHangup, Leave, Reading, Goto, Busy
    <3>2. ~Relaying(p) /\ ~Relaying(p)' /\ (x \in job'[p].to => x \in job[p].to)
      BY <3>1, JobFields DEF Relaying, Busy, Msg
    <3> QED
      BY <1>0, <3>1, <3>2, OrderPlain DEF FanOut
  <2>5. CASE \/ ReadStale(p) \/ ReadReply(p) \/ ReadFails(p) \/ Close(p)
    <3>1. /\ pc[p] \notin Busy /\ pc'[p] \notin Busy
          /\ at' = at /\ relayed' = relayed /\ job' = job
      BY <2>5, <1>t DEF ReadStale, ReadReply, ReadFails, Close, Reading, Goto, Busy
    <3> QED
      BY <1>0, <3>1, OrderPlain DEF FanOut, Relaying, Busy
  <2>6. CASE CloseSock(p)
    BY <1>0, <2>6, OrderOthers DEF CloseSock, Local
  <2>7. CASE Snapshot(p) \/ \E y \in Peers : FanOut(p, y)
    BY <1>0, <2>7, OrderSnapshot, OrderFanOut
  <2> QED
    BY <1>3, <2>1, <2>2, <2>3, <2>4, <2>5, <2>6, <2>7
    DEF Of, Browser, Handler, SockFails, PumpDead
<1> QED
  BY <1>1, <1>2, <1>3, NextIs

\* Consecutive relays in an inbox are consecutive relays of the sender.
LEMMA OrdersGives == TypeOK /\ Orders => RelayedInOrder
<1> SUFFICES ASSUME TypeOK, Orders, NEW p \in Peers, NEW x \in Peers,
                    NEW i \in Relays(p, x), NEW j \in Relays(p, x), i < j,
                    \A k \in Relays(p, x) : ~(i < k /\ k < j)
             PROVE  inbox[x][j].n = inbox[x][i].n + 1
  BY DEF RelayedInOrder, Relays
<1> DEFINE Num(k) == inbox[x][k].n
<1>1. /\ \A k \in Relays(p, x) : Num(k) \in Int /\ k \in Int
      /\ \A k, l \in Relays(p, x) : k < l => Num(k) < Num(l)
      /\ \A m \in Num(i) .. Num(j) : \E k \in Relays(p, x) : Num(k) = m
  BY DEF Orders, InOrder, Got, Relays, Received
<1> HIDE DEF Num
<1>2. ASSUME Num(i) + 1 # Num(j) PROVE FALSE
  <2>1. PICK k \in Relays(p, x) : Num(k) = Num(i) + 1
    BY <1>1
  <2>2. Num(i) < Num(k) /\ Num(k) < Num(j)
    BY <1>1, <1>2, <2>1
  <2> QED
    BY <1>1, <2>2
<1> QED
  BY <1>2 DEF Num

-----------------------------------------------------------------------------
(* Answers to the lost relays *)

LEMMA AnswersFinite ==
  ASSUME TypeOK, NEW p \in Peers
  PROVE  /\ IsFiniteSet(Received(p, "unavailable"))
         /\ IsFiniteSet(Lost(p))
         /\ Handed(p) \in Int
<1>1. Len(inbox[p]) \in Nat
  BY Types, LenProperties
<1>2. Handed(p) \in Int
  BY DueType DEF Handed
<1>3. IsFiniteSet(1..Len(inbox[p])) /\ IsFiniteSet(1..Handed(p))
  BY <1>1, <1>2, FS_Interval
<1>4. Received(p, "unavailable") \in SUBSET (1..Len(inbox[p])) /\ Lost(p) \in SUBSET (1..Handed(p))
  BY DEF Received, Lost
<1> QED
  BY <1>2, <1>3, <1>4, FS_Subset

\* Only the end of a Broadcast answers peer_unavailable.
LEMMA UnavailableKept ==
  ASSUME TypeOK, Jobs, [Next]_vars, NEW p \in Peers, inbox' = inbox \/ ~FanDone(p)
  PROVE  Received(p, "unavailable")' = Received(p, "unavailable")
<1>1. CASE inbox' = inbox
  BY <1>1 DEF Received
<1>2. CASE inbox' # inbox
  <2>1. PICK x \in Peers \ dead, m \in Message :
          /\ Appends(x, m)
          /\ \/ m.type \in {"joined", "reply"}
             \/ m.type = "unavailable" /\ m.from = x /\ FanDone(x)
             \/ \E q \in Peers : FanOut(q, x) /\ m = job[q].msg
    BY <1>2, Inboxes
  <2>2. \A q \in Peers : FanOut(q, x) => job[q].msg.type # "unavailable"
    BY DEF FanOut, Jobs, JobOf, Busy
  <2>3. ~(p = x /\ m.type = "unavailable")
    BY <1>2, <2>1, <2>2
  <2> QED
    BY <2>1, <2>3, AppendGives
<1> QED
  BY <1>1, <1>2

LEMMA GotKept ==
  ASSUME NEW p, NoRelayOf(p)
  PROVE  \A x \in Peers : \A n : Got(p, x, n)' <=> Got(p, x, n)
  BY DEF NoRelayOf, NoRelay, Got

\* The steps in which p neither sends nor loses a relay, nor is answered.
LEMMA AnsweredFrame ==
  ASSUME NEW p \in Peers, Answered(p), NoRelayOf(p), dead \subseteq dead',
         Handed(p)' = Handed(p),
         Received(p, "unavailable")' = Received(p, "unavailable"),
         Relaying(p)' => /\ Relaying(p) /\ relayed'[p] = relayed[p]
                         /\ job'[p].sent <=> job[p].sent
  PROVE  Answered(p)'
<1>0. \A x \in Peers : \A n : Got(p, x, n)' <=> Got(p, x, n)
  BY GotKept
<1>1. Lost(p)' = Lost(p)
  <2>1. \A n : n \in Lost(p)' <=> n \in Lost(p)
    BY <1>0 DEF Lost
  <2> QED
    BY <2>1 DEF Lost
<1>2. ASSUME Relaying(p)'
      PROVE  job'[p].sent <=> (\E x \in Peers : Got(p, x, relayed[p]))'
  <2>1. PICK n : n = relayed[p]
    OBVIOUS
  <2>2. \A x \in Peers : Got(p, x, relayed[p])' <=> Got(p, x, n)
    BY <1>0, <1>2, <2>1 DEF Got
  <2> QED
    BY <1>2, <2>1, <2>2 DEF Answered
<1> QED
  BY <1>1, <1>2 DEF Answered

LEMMA AnswersInit == Init => Answers
<1> SUFFICES ASSUME Init, NEW p \in Peers PROVE Answered(p)
  BY DEF Answers
<1>1. Handed(p) = 0 /\ ~Relaying(p)
  BY DEF Init, Handed, Relaying, Busy
<1>2. Lost(p) = {} /\ Received(p, "unavailable") = {}
  BY <1>1 DEF Lost, Init, Received
<1> QED
  BY <1>1, <1>2 DEF Answered

LEMMA AnsweredOthers ==
  ASSUME R!IndInv, TypeOK, Jobs, [Next]_vars, NEW p \in Peers, Answered(p),
         UNCHANGED Local(p)
  PROVE  Answered(p)'
<1>1. NoRelayOf(p)
  BY FanOutMoves, RelaysKept DEF Local
<1>2. ~FanDone(p)
  BY Types DEF FanDone, Goto, Local
<1>3. dead \subseteq dead'
  BY StepIsRooms, SeatStep
<1> QED
  BY <1>1, <1>2, <1>3, UnavailableKept, AnsweredFrame DEF Handed, Relaying, Local

LEMMA AnsweredPlain ==
  ASSUME R!IndInv, TypeOK, Jobs, [Next]_vars, NEW p \in Peers, Answered(p),
         inbox' = inbox \/ ~FanDone(p), ~Relaying(p), ~Relaying(p)',
         \A y \in Peers : FanOut(p, y) => job[p].msg.type # "relay",
         relayed'[p] = relayed[p]
  PROVE  Answered(p)'
<1>1. NoRelayOf(p)
  BY RelaysKept
<1>2. dead \subseteq dead'
  BY StepIsRooms, SeatStep
<1> QED
  BY <1>1, <1>2, UnavailableKept, AnsweredFrame DEF Handed

\* A Broadcast that ends: its relay joins the lost ones unless it was accepted.
LEMMA LostGrows ==
  ASSUME TypeOK, NEW p \in Peers, NoRelayOf(p), Relaying(p), ~Relaying(p)',
         relayed'[p] = relayed[p], relayed[p] > 0
  PROVE  Lost(p)' = IF \E x \in Peers : Got(p, x, relayed[p]) THEN Lost(p)
                    ELSE Lost(p) \cup {relayed[p]}
<1>0. \A x \in Peers : \A n : Got(p, x, n)' <=> Got(p, x, n)
  BY GotKept
<1>1. Handed(p) = relayed[p] - 1 /\ Handed(p)' = relayed[p] /\ relayed[p] \in Nat
  BY DueType DEF Handed
<1>2. \A n : n \in Lost(p)' <=> n \in 1..relayed[p] /\ \A x \in Peers : ~Got(p, x, n)
  BY <1>0, <1>1 DEF Lost
<1>3. \A n : n \in Lost(p) <=> n \in 1..(relayed[p] - 1) /\ \A x \in Peers : ~Got(p, x, n)
  BY <1>1 DEF Lost
<1>4. \A n : n \in Lost(p)' <=>
        \/ n \in Lost(p)
        \/ n = relayed[p] /\ ~\E x \in Peers : Got(p, x, relayed[p])
  BY <1>1, <1>2, <1>3
<1>5. CASE \E x \in Peers : Got(p, x, relayed[p])
  <2>1. \A n : n \in Lost(p)' <=> n \in Lost(p)
    BY <1>4, <1>5
  <2> QED
    BY <1>5, <2>1 DEF Lost
<1>6. CASE ~\E x \in Peers : Got(p, x, relayed[p])
  <2>1. \A n : n \in Lost(p)' <=> n \in Lost(p) \cup {relayed[p]}
    BY <1>4, <1>6
  <2> QED
    BY <1>6, <2>1 DEF Lost
<1> QED
  BY <1>5, <1>6

LEMMA AnsweredDone ==
  ASSUME R!IndInv, TypeOK, Jobs, [Next]_vars, NEW p \in Peers, Answered(p), FanDone(p)
  PROVE  Answered(p)'
<1>1. /\ pc[p] = "fanout" /\ job[p].to = {} /\ pc'[p] \in {"loop", "leaving", "closing"}
      /\ relayed' = relayed
  BY Types DEF FanDone, Goto
<1>2. ~Relaying(p)' /\ NoRelayOf(p)
  BY <1>1, RelaysKept DEF Relaying, Busy, FanOut
<1>3. dead \subseteq dead'
  BY StepIsRooms, SeatStep
<1>4. CASE job[p].msg.type # "relay"
  <2>1. ~Relaying(p) /\ inbox' = inbox
    BY <1>4 DEF Relaying, FanDone
  <2> QED
    BY <1>1, <1>2, <1>4, <2>1, AnsweredPlain
<1>5. CASE job[p].msg.type = "relay"
  <2>1. Relaying(p) /\ relayed[p] > 0 /\ relayed[p] \in Nat
    BY <1>1, <1>5, DueType DEF Relaying, Busy, Jobs, JobOf
  <2>2. job[p].sent <=> \E x \in Peers : Got(p, x, relayed[p])
    BY <2>1 DEF Answered
  <2>3. CASE job[p].sent
    <3>1. inbox' = inbox
      BY <1>5, <2>3 DEF FanDone
    <3>2. Lost(p)' = Lost(p)
      BY <1>1, <1>2, <2>1, <2>2, <2>3, LostGrows
    <3>3. Received(p, "unavailable")' = Received(p, "unavailable")
      BY <3>1, UnavailableKept
    <3> QED
      BY <1>2, <1>3, <3>2, <3>3 DEF Answered
  <2>4. CASE ~job[p].sent
    <3>1. Lost(p)' = Lost(p) \cup {relayed[p]}
      BY <1>1, <1>2, <2>1, <2>2, <2>4, LostGrows
    <3>2. relayed[p] \notin Lost(p)
      BY <2>1 DEF Lost, Handed
    <3>3. Cardinality(Lost(p)') = Cardinality(Lost(p)) + 1
      BY <3>1, <3>2, AnswersFinite, FS_AddElement
    <3>4. PICK taken \in BOOLEAN : Enqueue(p, Msg("unavailable", p, 0), taken)
      BY <1>5, <2>4 DEF FanDone, Send
    <3>5. CASE p \in dead'
      BY <1>2, <3>5 DEF Answered
    <3>6. CASE p \notin dead'
      <4>1. p \notin dead /\ Appends(p, Msg("unavailable", p, 0))
        BY <1>3, <3>4, <3>6 DEF Enqueue, Appends
      <4>2. Msg("unavailable", p, 0) \in Message /\ Msg("unavailable", p, 0).type = "unavailable"
        BY MsgType, ZeroFrames DEF MsgTypes
      <4>3. Received(p, "unavailable")'
              = Received(p, "unavailable") \cup {Len(inbox[p]) + 1}
        BY <4>1, <4>2, AppendGives
      <4>4. Len(inbox[p]) + 1 \notin Received(p, "unavailable")
        BY Types, LenProperties DEF Received
      <4>5. Cardinality(Received(p, "unavailable")')
              = Cardinality(Received(p, "unavailable")) + 1
        BY <4>3, <4>4, AnswersFinite, FS_AddElement
      <4>6. Cardinality(Lost(p)) = Cardinality(Received(p, "unavailable"))
        BY <4>1 DEF Answered
      <4> QED
        BY <1>2, <3>3, <4>5, <4>6 DEF Answered
    <3> QED
      BY <3>5, <3>6
  <2> QED
    BY <2>3, <2>4
<1> QED
  BY <1>4, <1>5

LEMMA AnsweredFanOut ==
  ASSUME R!IndInv, TypeOK, Jobs, Orders, [Next]_vars, NEW p \in Peers, Answered(p),
         NEW y \in Peers, FanOut(p, y)
  PROVE  Answered(p)'
<1>1. PICK taken \in BOOLEAN :
        /\ Enqueue(y, job[p].msg, taken)
        /\ job' = [job EXCEPT ![p].to = @ \ {y}, ![p].sent = @ \/ taken]
  BY DEF FanOut
<1>2. job'[p].msg = job[p].msg /\ (job'[p].sent <=> job[p].sent \/ taken)
  <2>1. job'[p] = [job[p] EXCEPT !.to = @ \ {y}, !.sent = @ \/ taken]
    BY <1>1, JobIs
  <2>2. job'[p].sent = (job[p].sent \/ taken)
    BY <2>1, JobIs
  <2> QED
    BY <2>1, <2>2, JobIs
<1>3. /\ pc[p] = "fanout" /\ pc'[p] = "fanout" /\ relayed' = relayed
      /\ ~FanDone(p)
  BY Types DEF FanOut, FanDone, Goto
<1>4. dead \subseteq dead'
  BY StepIsRooms, SeatStep
<1>5. Received(p, "unavailable")' = Received(p, "unavailable")
  BY <1>3, UnavailableKept
<1>6. CASE job[p].msg.type # "relay"
  BY <1>2, <1>3, <1>6, AnsweredPlain DEF Relaying
<1>7. CASE job[p].msg.type = "relay"
  <2>1. Relaying(p) /\ Relaying(p)'
    BY <1>2, <1>3, <1>7 DEF Relaying, Busy
  <2>2. /\ relayed[p] \in Nat /\ job[p].msg.n = relayed[p]
        /\ job[p].msg \in Message /\ job[p].msg.from = p
    BY <1>3, <1>7, DueType DEF Jobs, JobOf, Busy
  <2>3. Handed(p) = relayed[p] - 1 /\ Handed(p)' = relayed[p] - 1
    BY <1>3, <2>1 DEF Handed
  <2>4. CASE ~taken
    <3>1. NoRelayOf(p)
      BY <1>1, <2>4 DEF Enqueue, NoRelayOf, NoRelay, Relays, Received
    <3> QED
      BY <1>2, <1>3, <1>4, <1>5, <2>1, <2>3, <2>4, <3>1, AnsweredFrame
  <2>5. CASE taken
    <3>1. Appends(y, job[p].msg)
      BY <1>1, <2>5 DEF Enqueue, Appends
    <3> DEFINE new == Len(inbox[y]) + 1
    <3>2. /\ Received(y, "relay")' = Received(y, "relay") \cup {new}
          /\ \A i \in Received(y, "relay") : inbox'[y][i] = inbox[y][i]
          /\ inbox'[y][new] = job[p].msg
          /\ \A x \in Peers \ {y} : Received(x, "relay")' = Received(x, "relay")
          /\ \A x \in Peers : \A i \in 1..Len(inbox[x]) : inbox'[x][i] = inbox[x][i]
      <4>1. \A i \in Received(y, "relay") : i \in 1..Len(inbox[y])
        BY DEF Received
      <4> QED
        BY <1>7, <2>2, <3>1, <4>1, AppendGives
    <3> HIDE DEF new
    <3>3. \A x \in Peers : \A n : Got(p, x, n)' <=> Got(p, x, n) \/ (x = y /\ n = relayed[p])
      <4> SUFFICES ASSUME NEW x \in Peers, NEW n
                   PROVE  Got(p, x, n)' <=> Got(p, x, n) \/ (x = y /\ n = relayed[p])
        OBVIOUS
      <4>1. CASE x = y
        <5>1. Relays(p, y)' = Relays(p, y) \cup {new}
          BY <2>2, <3>2 DEF Relays
        <5> QED
          BY <2>2, <3>2, <4>1, <5>1 DEF Got, Relays
      <4>2. CASE x # y
        <5>1. \A i \in Received(x, "relay") : inbox'[x][i] = inbox[x][i]
          BY <3>2 DEF Received
        <5>2. Received(x, "relay")' = Received(x, "relay")
          BY <3>2, <4>2
        <5> QED
          BY <4>2, <5>1, <5>2 DEF Got, Relays
      <4> QED
        BY <4>1, <4>2
    <3>4. Lost(p)' = Lost(p)
      <4>1. \A n : n \in Lost(p)' <=> n \in 1..(relayed[p] - 1) /\ \A x \in Peers : ~Got(p, x, n)'
        BY <2>3 DEF Lost
      <4>2. \A n : n \in Lost(p) <=> n \in 1..(relayed[p] - 1) /\ \A x \in Peers : ~Got(p, x, n)
        BY <2>3 DEF Lost
      <4>3. \A n \in 1..(relayed[p] - 1) : n # relayed[p]
        BY <2>2
      <4>4. \A n : n \in Lost(p)' <=> n \in Lost(p)
        BY <3>3, <4>1, <4>2, <4>3
      <4> QED
        BY <4>4 DEF Lost
    <3>5. (\E x \in Peers : Got(p, x, relayed[p]))'
      <4>1. PICK n : n = relayed[p]
        OBVIOUS
      <4>2. Got(p, y, n)'
        BY <3>3, <4>1
      <4>3. Got(p, y, relayed[p])'
        BY <1>3, <4>1, <4>2 DEF Got
      <4> QED
        BY <4>3
    <3>6. job'[p].sent
      BY <1>2, <2>5
    <3> QED
      BY <1>4, <1>5, <3>4, <3>5, <3>6 DEF Answered
  <2> QED
    BY <2>4, <2>5
<1> QED
  BY <1>6, <1>7

LEMMA AnswersStep ==
  R!IndInv /\ TypeOK /\ Jobs /\ Orders /\ Answers /\ [Next]_vars => Answers'
<1> SUFFICES ASSUME R!IndInv, TypeOK, Jobs, Orders, Answers, [Next]_vars, NEW p \in Peers
             PROVE  Answered(p)'
  BY DEF Answers
<1>0. Answered(p) /\ JobOf(p)
  BY DEF Answers, Jobs
<1>t. /\ pc \in [Peers -> PCs]
      /\ job \in [Peers -> JobType]
      /\ relayed \in [Peers -> 0..MaxFrames]
  BY Types
<1>1. CASE Manager \/ (\E r \in RoomIds : HangupTimer(r)) \/ UNCHANGED vars
  BY <1>0, <1>1, Elsewhere, AnsweredOthers
<1>2. ASSUME NEW q \in Peers \ {p}, Of(q) PROVE Answered(p)'
  BY <1>0, <1>2, Alone, AnsweredOthers
<1>3. CASE Of(p)
  <2>1. CASE \/ \E r, s, t : Join(p, r, s, t)
             \/ ReadStale(p) \/ ReadReply(p) \/ ReadFails(p) \/ Close(p)
    <3>1. /\ pc[p] \notin Busy /\ pc'[p] \notin Busy
          /\ relayed' = relayed
      BY <2>1, <1>t DEF Join, ReadStale, ReadReply, ReadFails, Close, Reading, Goto, Busy
    <3> QED
      BY <1>0, <3>1, AnsweredPlain DEF FanOut, FanDone, Relaying, Busy
  <2>2. CASE Welcome(p) \/ ReadHangup(p) \/ Leave(p)
    <3>1. /\ pc[p] \in {"first", "second", "loop", "leaving"}
          /\ relayed' = relayed
          /\ \/ job'[p] = job[p] /\ pc'[p] \notin Busy
             \/ \E type \in {"peer-ready", "hangup", "peer-left"} :
                  job'[p] = Job(Msg(type, p, 0))
      BY <2>2, <1>t DEF Welcome, ReadHangup, Leave, Reading, Goto, Busy
    <3>2. ~Relaying(p) /\ ~Relaying(p)'
      BY <3>1, JobFields DEF Relaying, Busy, Msg
    <3> QED
      BY <1>0, <3>1, <3>2, AnsweredPlain DEF FanOut, FanDone
  <2>3. CASE ReadRelay(p)
    <3>1. /\ pc[p] = "loop" /\ pc'[p] = "snapshot"
          /\ relayed'[p] = relayed[p] + 1 /\ relayed[p] \in Int
          /\ job'[p] = Job(Msg("relay", p, relayed[p] + 1))
          /\ dead' = dead
      BY <2>3, <1>t, SignalingAssumption DEF ReadRelay, Reading, Goto, roomVars
    <3>2. ~job'[p].sent /\ job'[p].msg.type = "relay"
      BY <3>1, JobFields DEF Msg
    <3>3. Handed(p)' = relayed[p] /\ Handed(p) = relayed[p]
      BY <3>1, <3>2 DEF Handed, Relaying, Busy
    <3>4. NoRelayOf(p) /\ Received(p, "unavailable")' = Received(p, "unavailable")
      BY <3>1, RelaysKept, UnavailableKept DEF FanOut, FanDone
    <3>5. \A x \in Peers : \A n : Got(p, x, n)' <=> Got(p, x, n)
      BY <3>4, GotKept
    <3>6. Lost(p)' = Lost(p)
      <4>1. \A n : n \in Lost(p)' <=> n \in Lost(p)
        BY <3>3, <3>5 DEF Lost
      <4> QED
        BY <4>1 DEF Lost
    <3>7. \A x \in Peers : ~Got(p, x, relayed[p])'
      <4>1. PICK n : n = relayed[p] + 1
        OBVIOUS
      <4>2. \A x \in Peers : Due(p, x) = relayed[p]
        BY <3>1 DEF Due, Pending, Relaying, Busy
      <4>3. \A x \in Peers : ~Got(p, x, n)
        BY <3>1, <4>1, <4>2 DEF Orders, InOrder, Got
      <4> QED
        BY <3>1, <3>5, <4>1, <4>3 DEF Got
    <3> QED
      BY <1>0, <3>1, <3>2, <3>4, <3>6, <3>7 DEF Answered
  <2>4. CASE FanDone(p)
    BY <1>0, <2>4, AnsweredDone
  <2>5. CASE Snapshot(p)
    <3>1. /\ pc[p] = "snapshot" /\ pc'[p] = "fanout" /\ relayed' = relayed /\ dead' = dead
      BY <2>5, <1>t DEF Snapshot, Goto, roomVars
    <3>2. job'[p].msg = job[p].msg /\ (job'[p].sent <=> job[p].sent)
      <4>1. job'[p] = [job[p] EXCEPT !.to = Audience(p)]
        BY <2>5, <1>t DEF Snapshot
      <4> QED
        BY <4>1, JobIs
    <3>3. NoRelayOf(p) /\ Received(p, "unavailable")' = Received(p, "unavailable")
      BY <3>1, RelaysKept, UnavailableKept DEF FanOut, FanDone
    <3> QED
      BY <1>0, <3>1, <3>2, <3>3, AnsweredFrame DEF Handed, Relaying, Busy
  <2>6. ASSUME NEW y \in Peers, FanOut(p, y) PROVE Answered(p)'
    BY <1>0, <2>6, AnsweredFanOut
  <2>7. CASE CloseSock(p)
    BY <1>0, <2>7, AnsweredOthers DEF CloseSock, Local
  <2> QED
    BY <1>3, <2>1, <2>2, <2>3, <2>4, <2>5, <2>6, <2>7
    DEF Of, Browser, Handler, SockFails, PumpDead
<1> QED
  BY <1>1, <1>2, <1>3, NextIs

\* Once everything is quiet, every lost relay was handed to a Broadcast that
\* is over, and its sender is alive.
LEMMA AnswersGive == TypeOK /\ Answers => NothingLostSilently
<1> SUFFICES ASSUME TypeOK, Answers, Quiet, NEW p \in Peers, pc[p] = "loop"
             PROVE  Cardinality({n \in 1..relayed[p] :
                        \A x \in Peers : \A i \in Received(x, "relay") :
                          <<inbox[x][i].from, inbox[x][i].n>> # <<p, n>>})
                      = Cardinality(Received(p, "unavailable"))
  BY DEF NothingLostSilently
<1>1. Handed(p) = relayed[p]
  BY DEF Handed, Relaying, Busy
<1>2. {n \in 1..relayed[p] :
         \A x \in Peers : \A i \in Received(x, "relay") :
           <<inbox[x][i].from, inbox[x][i].n>> # <<p, n>>} = Lost(p)
  BY <1>1 DEF Lost, Got, Relays
<1>3. p \notin dead
  BY DEF Quiet
<1> QED
  BY <1>2, <1>3 DEF Answers, Answered

-----------------------------------------------------------------------------
(* Pairs *)

\* An announcement under way to a connection in the room arrives, or finds it
\* dead.
LEMMA TellsStep ==
  ASSUME R!IndInv, TypeOK, Jobs, Seats, [Next]_vars, NEW r \in RoomIds,
         NEW last \in Peers, NEW y \in Peers, R!IsCurrent(r, last), R!IsCurrent(r, y),
         Tells(last, y)
  PROVE  Tells(last, y)'
<1>t. /\ pc \in [Peers -> PCs]
      /\ job \in [Peers -> JobType]
  BY Types
<1>1. CASE Told(last, y)
  <2>1. PICK i \in Received(y, "peer-ready") : inbox[y][i].from = last
    BY <1>1 DEF Told
  <2>2. i \in Received(y, "peer-ready")' /\ inbox'[y][i].from = last
    BY <2>1, KeptMessages
  <2> QED
    BY <2>2 DEF Told, Tells
<1>2. CASE y \in dead
  BY <1>2, StepIsRooms, SeatStep DEF Tells
<1>3. CASE Telling(last, y)
  <2>1. CASE UNCHANGED Local(last)
    BY <1>3, <2>1 DEF Telling, Tells, Local
  <2>2. CASE Of(last)
    <3>1. CASE pc[last] = "second"
      <4>1. Welcome(last) \/ CloseSock(last)
        BY <2>2, <3>1, Types DEF Of, Browser, Handler, SockFails, PumpDead, Join, Snapshot,
           FanOut, FanDone, ReadFails, Leave, Close, ReadStale, ReadReply, ReadHangup,
           ReadRelay, Reading
      <4>2. CASE Welcome(last)
        <5>1. pc'[last] = "snapshot" /\ job'[last] = Job(Msg("peer-ready", last, 0))
          BY <3>1, <4>2, <1>t DEF Welcome, Goto
        <5>2. job'[last].msg.type = "peer-ready"
          BY <5>1, JobFields DEF Msg
        <5> QED
          BY <5>1, <5>2 DEF Tells, Telling
      <4> QED
        BY <2>1, <4>1, <4>2 DEF CloseSock, Local
    <3>2. CASE pc[last] = "snapshot" /\ job[last].msg.type = "peer-ready"
      <4>1. Snapshot(last) \/ CloseSock(last)
        BY <2>2, <3>2, Types DEF Of, Browser, Handler, SockFails, PumpDead, Join, Welcome,
           FanOut, FanDone, ReadFails, Leave, Close, ReadStale, ReadReply, ReadHangup,
           ReadRelay, Reading
      <4>2. CASE Snapshot(last)
        <5>1. pc'[last] = "fanout" /\ job'[last] = [job[last] EXCEPT !.to = Audience(last)]
          BY <4>2, <1>t DEF Snapshot, Goto
        <5>2. job'[last].msg = job[last].msg /\ job'[last].to = Audience(last)
          BY <5>1, JobIs
        <5>3. at[last] = r /\ y \in spent
          BY CurrentIsSpent DEF Seats, SeatOf
        <5>4. y \in Audience(last)
          BY <3>2, <5>3, AudienceIs
        <5> QED
          BY <3>2, <5>1, <5>2, <5>4 DEF Tells, Telling
      <4> QED
        BY <2>1, <4>1, <4>2 DEF CloseSock, Local
    <3>3. CASE pc[last] = "fanout" /\ job[last].msg.type = "peer-ready" /\ y \in job[last].to
      <4>1. (\E z \in Peers : FanOut(last, z)) \/ CloseSock(last)
        BY <2>2, <3>3, Types DEF Of, Browser, Handler, SockFails, PumpDead, Join, Welcome,
           Snapshot, FanDone, ReadFails, Leave, Close, ReadStale, ReadReply, ReadHangup,
           ReadRelay, Reading
      <4>2. ASSUME NEW z \in Peers, FanOut(last, z) PROVE Tells(last, y)'
        <5>1. PICK taken \in BOOLEAN :
                /\ Enqueue(z, job[last].msg, taken)
                /\ job' = [job EXCEPT ![last].to = @ \ {z}, ![last].sent = @ \/ taken]
          BY <4>2 DEF FanOut
        <5>2. job'[last].msg = job[last].msg /\ job'[last].to = job[last].to \ {z}
          <6>1. job'[last] = [job[last] EXCEPT !.to = @ \ {z}, !.sent = @ \/ taken]
            BY <5>1, JobIs
          <6> QED
            BY <6>1, JobIs
        <5>3. CASE z # y
          BY <3>3, <4>2, <5>2, <5>3 DEF FanOut, Tells, Telling
        <5>4. CASE z = y /\ ~taken
          BY <5>1, <5>4 DEF Enqueue, Tells
        <5>5. CASE z = y /\ taken
          <6>1. Appends(y, job[last].msg)
            BY <5>1, <5>5 DEF Enqueue, Appends
          <6>2. job[last].msg \in Message /\ job[last].msg.from = last
            BY <3>3 DEF Jobs, JobOf, Busy
          <6>3. /\ Received(y, "peer-ready")'
                     = Received(y, "peer-ready") \cup {Len(inbox[y]) + 1}
                /\ inbox'[y][Len(inbox[y]) + 1] = job[last].msg
            BY <3>3, <6>1, <6>2, AppendGives
          <6> QED
            BY <6>2, <6>3 DEF Tells, Told
        <5> QED
          BY <5>3, <5>4, <5>5
      <4> QED
        BY <2>1, <4>1, <4>2 DEF CloseSock, Local
    <3> QED
      BY <1>3, <3>1, <3>2, <3>3 DEF Telling
  <2> QED
    BY <2>1, <2>2, Elsewhere, Alone, NextIs
<1> QED
  BY <1>1, <1>2, <1>3 DEF Tells

\* Who joins a room that has a connection of the other client finds exactly
\* one there, and announces itself to both.
LEMMA JoinAnnounces ==
  ASSUME R!IndInv, R!IndInv', TypeOK, NEW r \in RoomIds, NEW p \in Peers, NEW q \in Peers \ {p},
         NEW u \in RoomIds, NEW s, NEW t, Join(p, u, s, t),
         R!IsCurrent(r, p)', R!IsCurrent(r, q)', R!IsCurrent(r, q)
  PROVE  pc'[p] = "second"
<1> DEFINE a == ClientOf[p]
           b == ClientOf[q]
<1>1. /\ pc'[p] = IF Cardinality(R!Connected(r) \cup {a}) = 2 THEN "second" ELSE "first"
      /\ rooms' = rooms /\ room' = [room EXCEPT ![r] = R!Admitted(r, p)]
  BY NewSeat
<1>2. a \in Clients /\ b \in Clients /\ p # NoPeer /\ q # NoPeer
  BY ManagerAssumption
<1>3. r \in rooms' /\ room'[r].peers[a] = p /\ room'[r].peers[b] = q /\ a # b
  BY DEF R!IsCurrent
<1>4. b \in R!Connected(r)
  BY <1>2 DEF R!IsCurrent, R!Connected
<1>5. ASSUME NEW d \in R!Connected(r) PROVE d \in R!Connected(r)'
  <2>1. room \in [RoomIds -> R!Room] /\ room[r].peers \in [Clients -> Peers \cup {NoPeer}]
    BY DEF R!IndInv, R!TypeOK, R!Room
  <2>2. room'[r].peers = [room[r].peers EXCEPT ![a] = p]
    BY <1>1, <2>1 DEF R!Admitted
  <2> QED
    BY <1>2, <1>5, <2>1, <2>2 DEF R!Connected
<1>6. a \in R!Connected(r)' /\ b \in R!Connected(r)'
  BY <1>2, <1>3 DEF R!Connected
<1>7. ASSUME NEW d \in R!Connected(r)' PROVE d \in {a, b}
  <2>1. R!CoherentRoom(r)' /\ room'[r] \in R!Room
    BY <1>3 DEF R!IndInv, R!Coherent, R!TypeOK
  <2>2. \A c \in R!Connected(r)' : c \in Clients /\ c \in R!Members(r)'
    BY <2>1 DEF R!CoherentRoom, R!Connected
  <2>3. \A c \in R!Members(r)' : room'[r].roles[c] \in {"caller", "callee"}
    BY <2>1 DEF R!Members, R!Room, R!Roles
  <2>4. \A c, e \in R!Members(r)' : room'[r].roles[c] = room'[r].roles[e] => c = e
    BY <1>3 DEF R!IndInv, R!TwoParty
  <2> QED
    BY <1>3, <1>6, <1>7, <2>2, <2>3, <2>4
<1>8. R!Connected(r) \cup {a} = {a} \cup {b}
  BY <1>4, <1>5, <1>7
<1> HIDE DEF a, b
<1>9. Cardinality({a} \cup {b}) = 2
  <2>1. IsFiniteSet({a}) /\ Cardinality({a}) = 1 /\ b \notin {a}
    BY <1>3, FS_Singleton
  <2>2. Cardinality({a} \cup {b}) = IF b \in {a} THEN Cardinality({a}) ELSE Cardinality({a}) + 1
    BY <2>1, FS_AddElement, Zenon
  <2> QED
    BY <2>1, <2>2
<1> QED
  BY <1>1, <1>8, <1>9

LEMMA PairSwap ==
  ASSUME NEW r, NEW p, NEW q, Pair(r, q, p)'
  PROVE  Pair(r, p, q)'
  BY DEF Pair

LEMMA PairNew ==
  ASSUME R!IndInv, TypeOK, [Next]_vars, NEW r \in RoomIds, NEW p \in Peers, NEW q \in Peers,
         p \notin spent
  PROVE  Pair(r, p, q)'
<1> SUFFICES ASSUME p # q, R!IsCurrent(r, p)', R!IsCurrent(r, q)'
             PROVE  Tells(p, p)' /\ Tells(p, q)'
  BY DEF Pair
<1>1. R!IndInv'
  BY StepIsRooms, RoomsStep
<1>2. p \in spent' /\ q \in spent'
  BY <1>1, CurrentIsSpentNext
<1>3. PICK u \in RoomIds : \E s, t : Join(p, u, s, t) /\ spent' = spent \cup {p}
  BY <1>2, SpentStep
<1>4. R!IsCurrent(r, q)
  BY <1>2, <1>3, OldSeat
<1>5. pc'[p] = "second"
  BY <1>1, <1>3, <1>4, JoinAnnounces
<1> QED
  BY <1>5 DEF Tells, Telling

LEMMA PairsInit == Init => Pairs
  BY DEF Init, Pairs, Pair, R!Init, R!IsCurrent

LEMMA PairsStep ==
  R!IndInv /\ TypeOK /\ Jobs /\ Seats /\ Pairs /\ [Next]_vars => Pairs'
<1> SUFFICES ASSUME R!IndInv, TypeOK, Jobs, Seats, Pairs, [Next]_vars,
                    NEW r \in RoomIds, NEW p \in Peers, NEW q \in Peers
             PROVE  Pair(r, p, q)'
  BY DEF Pairs
<1>1. CASE p \notin spent
  BY <1>1, PairNew
<1>2. CASE q \notin spent
  BY <1>2, PairNew, PairSwap
<1>3. CASE p \in spent /\ q \in spent
  <2> SUFFICES ASSUME p # q, R!IsCurrent(r, p)', R!IsCurrent(r, q)'
               PROVE  \E last \in {p, q} : Tells(last, p)' /\ Tells(last, q)'
    BY DEF Pair
  <2>1. R!IsCurrent(r, p) /\ R!IsCurrent(r, q)
    BY <1>3, OldSeat
  <2>2. PICK last \in {p, q} : Tells(last, p) /\ Tells(last, q)
    BY <2>1 DEF Pairs, Pair
  <2>3. Tells(last, p)' /\ Tells(last, q)'
    BY <2>1, <2>2, TellsStep
  <2> QED
    BY <2>3
<1> QED
  BY <1>1, <1>2, <1>3

\* A room has two connections at most.
LEMMA ConnectedTwo ==
  ASSUME R!IndInv, NEW r \in rooms, NEW a \in R!Connected(r), NEW b \in R!Connected(r), a # b
  PROVE  R!Connected(r) = {a, b}
<1>1. R!CoherentRoom(r) /\ room[r] \in R!Room
  BY DEF R!IndInv, R!Coherent, R!TypeOK
<1>2. \A c \in R!Connected(r) : c \in Clients /\ c \in R!Members(r)
  BY <1>1 DEF R!CoherentRoom, R!Connected
<1>3. \A c \in R!Members(r) : room[r].roles[c] \in {"caller", "callee"}
  BY <1>1 DEF R!Members, R!Room, R!Roles
<1>4. \A c, e \in R!Members(r) : room[r].roles[c] = room[r].roles[e] => c = e
  BY DEF R!IndInv, R!TwoParty
<1>5. \A c \in R!Connected(r) : c \in {a, b}
  BY <1>2, <1>3, <1>4
<1> QED
  BY <1>5

\* When nobody is busy, to be told is to have been told.
LEMMA PairsGive ==
  R!IndInv /\ TypeOK /\ Seats /\ Pairs => PairIsAnnounced
<1> SUFFICES ASSUME R!IndInv, TypeOK, Seats, Pairs, Quiet, NEW r \in rooms,
                    Cardinality(R!Connected(r)) = 2
             PROVE  \E last \in R!PeersOf(r) : \A p \in R!PeersOf(r) :
                      \E i \in Received(p, "peer-ready") : inbox[p][i].from = last
  BY DEF PairIsAnnounced
<1>0. r \in RoomIds /\ R!CoherentRoom(r) /\ spent \subseteq Peers
  BY DEF R!IndInv, R!TypeOK, R!Coherent
<1>1. PICK c, d : c # d /\ R!Connected(r) = {c, d}
  <2>1. R!Connected(r) # {}
    BY FS_EmptySet
  <2>2. PICK c : c \in R!Connected(r)
    BY <2>1
  <2>3. R!Connected(r) # {c}
    BY FS_Singleton
  <2>4. PICK d \in R!Connected(r) : c # d
    BY <2>2, <2>3
  <2> QED
    BY <2>2, <2>4, ConnectedTwo
<1> DEFINE p == room[r].peers[c]
           q == room[r].peers[d]
<1>2. p \in Peers /\ q \in Peers /\ ClientOf[p] = c /\ ClientOf[q] = d
  BY <1>0, <1>1 DEF R!CoherentRoom, R!Connected
<1>3. R!IsCurrent(r, p) /\ R!IsCurrent(r, q) /\ p # q
  BY <1>1, <1>2 DEF R!IsCurrent
<1>4. R!PeersOf(r) = {p, q}
  BY <1>1 DEF R!PeersOf
<1> HIDE DEF p, q
<1>5. \A x \in {p, q} : pc[x] = "loop" /\ x \notin dead
  BY <1>0, <1>2, <1>3 DEF Quiet, Seats, SeatOf
<1>6. PICK last \in {p, q} : Tells(last, p) /\ Tells(last, q)
  BY <1>0, <1>2, <1>3 DEF Pairs, Pair
<1>7. Told(last, p) /\ Told(last, q)
  BY <1>5, <1>6 DEF Tells, Telling
<1> QED
  BY <1>4, <1>7 DEF Told

-----------------------------------------------------------------------------
(* The theorems *)

LEMMA IInvInit == Init => IInv
  BY RoomsInit, TypeInit, JobsInit, SeatsInit, OrdersInit, AnswersInit, PairsInit
  DEF IInv, Init

LEMMA IInvStep == IInv /\ [Next]_vars => IInv'
<1> SUFFICES ASSUME IInv, [Next]_vars PROVE IInv'
  OBVIOUS
<1>1. R!IndInv'
  BY StepIsRooms, RoomsStep DEF IInv
<1> QED
  BY <1>1, TypeStep, JobsStep, SeatsStep, OrdersStep, AnswersStep, PairsStep DEF IInv

\* The handlers keep their types and every intermediate claim.
THEOREM Inductive == Spec => []IInv
  BY IInvInit, IInvStep, PTL DEF Spec

\* The goroutine of each connection is at a step of ServeHTTP, and what it
\* sends, holds and has received are messages of the protocol.
THEOREM TypeCorrect == Spec => []TypeOK
  BY Inductive, PTL DEF IInv

\* Whatever the handlers, the pumps and the timers of the connections do, they
\* do to the manager what its methods allow: all that is proved of Rooms holds
\* of the server.
THEOREM ImplementsRooms == Spec => RoomsSpec
<1>1. Init => R!Init
  BY DEF Init
<1>2. TypeOK /\ [Next]_vars => [R!Next]_(R!vars)
  BY StepIsRooms
<1> QED
  BY <1>1, <1>2, TypeCorrect, PTL DEF Spec, RoomsSpec, R!Spec

\* A room of the running server is for two, and its fields agree.
COROLLARY ServerRooms == Spec => [](R!Coherent /\ R!TwoParty)
  BY Inductive, PTL DEF IInv, R!IndInv

\* No candidate overtakes its offer, and no offer is skipped.
THEOREM AlwaysRelayedInOrder == Spec => []RelayedInOrder
<1>1. IInv => RelayedInOrder
  BY OrdersGives DEF IInv
<1> QED
  BY <1>1, Inductive, PTL

\* Every relay was accepted by somebody or is answered.
THEOREM AlwaysNothingLostSilently == Spec => []NothingLostSilently
<1>1. IInv => NothingLostSilently
  BY AnswersGive DEF IInv
<1> QED
  BY <1>1, Inductive, PTL

\* No pair is left waiting for each other.
THEOREM AlwaysPairIsAnnounced == Spec => []PairIsAnnounced
<1>1. IInv => PairIsAnnounced
  BY PairsGive DEF IInv
<1> QED
  BY <1>1, Inductive, PTL
=============================================================================
