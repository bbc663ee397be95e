---------------------------- MODULE RoomsProofs ----------------------------
(***************************************************************************)
(* Proofs about the room manager, for every set of rooms, clients and      *)
(* connections, every time to live, grace period, cap and horizon.         *)
(***************************************************************************)
EXTENDS RoomsHistory, FiniteSetTheorems, TLAPS

\* A fresh room is a room.
LEMMA NewRoomType ==
  ASSUME NEW e \in Nat
  PROVE  NewRoom(e) \in Room
  BY DEF NewRoom, Room, Roles, NoRole, Tokens, NoTime

\* What Create puts into it.
LEMMA NewRoomFields ==
  ASSUME NEW x, NEW e, x = NewRoom(e)
  PROVE  /\ x.roles = [c \in Clients |-> NoRole]
         /\ x.peers = [c \in Clients |-> NoPeer]
         /\ x.sessionTokens = [c \in Clients |-> NoToken]
         /\ ~x.hadParticipants
         /\ x.emptySince = NoTime
  BY DEF NewRoom

\* Join leaves a well-formed room behind.
LEMMA AdmittedType ==
  ASSUME TypeOK, NEW r \in RoomIds, NEW p \in Peers
  PROVE  Admitted(r, p) \in Room
<1> DEFINE c == ClientOf[p]
<1>1. c \in Clients
  BY RoomsAssumption
<1>2. room[r] \in Room
  BY DEF TypeOK
<1>3. RoleFor(r, c) \in Roles
  BY <1>1, <1>2 DEF RoleFor, Roles, Room
<1>4. Token(r, c) \in Tokens
  BY <1>1 DEF Token, Tokens
<1> HIDE DEF c
<1>5. [room[r] EXCEPT !.roles = [@ EXCEPT ![c] = RoleFor(r, c)],
                      !.sessionTokens = [@ EXCEPT ![c] = Token(r, c)],
                      !.peers = [@ EXCEPT ![c] = p],
                      !.hadParticipants = TRUE,
                      !.emptySince = NoTime] \in Room
  BY <1>1, <1>2, <1>3, <1>4 DEF Room
<1> QED
  BY <1>5 DEF Admitted, c

\* So does Leave.
LEMMA DepartedType ==
  ASSUME TypeOK, NEW r \in RoomIds, NEW c \in Clients
  PROVE  Departed(r, c) \in Room
<1>1. room[r] \in Room /\ now \in Nat
  BY RoomsAssumption DEF TypeOK
<1> QED
  BY <1>1 DEF Departed, Room

\* A Join, whatever its outcome, keeps the table well-formed.
LEMMA JoinType ==
  ASSUME TypeOK, NEW r \in RoomIds, NEW p \in Peers, NEW s, NEW t, Join(r, p, s, t)
  PROVE  TypeOK'
<1>1. Blank \in Room
  BY NewRoomType DEF Blank
<1>2. Admitted(r, p) \in Room
  BY AdmittedType
<1>3. room' \in [RoomIds -> Room]
  BY <1>1, <1>2 DEF TypeOK, Join
<1>4. rooms' \subseteq rooms
  BY DEF Join
<1> QED
  BY <1>3, <1>4 DEF TypeOK, Join

\* What a set of rooms kills are connections.
LEMMA PeersOfType ==
  ASSUME TypeOK, NEW r \in RoomIds
  PROVE  PeersOf(r) \subseteq Peers
  BY DEF TypeOK, PeersOf, Connected, Room

\* No step breaks the types.
LEMMA TypeStep == TypeOK /\ [Next]_vars => TypeOK'
<1> SUFFICES ASSUME TypeOK, [Next]_vars PROVE TypeOK'
  OBVIOUS
<1>0. Blank \in Room
  BY NewRoomType DEF Blank
<1>1. CASE Tick
  BY <1>1, RoomsAssumption DEF TypeOK, Tick
<1>2. ASSUME NEW r \in RoomIds, CreateBegin(r) PROVE TypeOK'
  BY <1>2 DEF TypeOK, CreateBegin
<1>3. ASSUME NEW r \in RoomIds, CreateLocked(r) PROVE TypeOK'
  <2>1. creating[r] \in Nat
    BY <1>3 DEF CreateLocked, TypeOK, NoTime
  <2>2. NewRoom(ExpiryOf(creating[r])) \in Room
    BY <2>1, NewRoomType, RoomsAssumption DEF ExpiryOf
  <2>3. room' \in [RoomIds -> Room]
    BY <2>2, <1>0, <1>3 DEF CreateLocked, TypeOK
  <2>4. rooms' \subseteq rooms \cup {r}
    BY <1>3 DEF CreateLocked
  <2>5. dead' \subseteq Peers
    BY <1>3, PeersOfType DEF CreateLocked, KillPeersOf, Collectable, TypeOK
  <2>6. creating' \in [RoomIds -> 0..MaxTime \cup {NoTime}]
    BY <1>3 DEF CreateLocked, TypeOK
  <2>7. \A q \in RoomIds : creating'[q] # NoTime => q \in drawn \ rooms'
    BY <1>3, <2>4 DEF CreateLocked, TypeOK
  <2>8. rooms' \subseteq drawn
    BY <1>3, <2>1, <2>4 DEF CreateLocked, TypeOK
  <2>9. UNCHANGED <<now, drawn, spent>>
    BY <1>3 DEF CreateLocked
  <2> QED
    BY <2>3, <2>5, <2>6, <2>7, <2>8, <2>9 DEF TypeOK
<1>4. ASSUME NEW r \in RoomIds, NEW p \in Peers, NEW s \in BOOLEAN, NEW t \in Tokens,
             Join(r, p, s, t)
      PROVE  TypeOK'
  BY <1>4, JoinType
<1>5. ASSUME NEW r \in RoomIds, NEW p \in Peers, Leave(r, p) PROVE TypeOK'
  <2>1. Departed(r, ClientOf[p]) \in Room
    BY DepartedType, RoomsAssumption
  <2> QED
    BY <2>1, <1>5 DEF TypeOK, Leave
<1>6. ASSUME NEW rs \in SUBSET rooms, Remove(rs) PROVE TypeOK'
  <2>1. room' \in [RoomIds -> Room]
    BY <1>0, <1>6 DEF Remove, TypeOK
  <2>2. dead' \subseteq Peers
    BY <1>6, PeersOfType DEF Remove, KillPeersOf, TypeOK
  <2> QED
    BY <1>6, <2>1, <2>2 DEF Remove, TypeOK
<1>7. ASSUME NEW r \in RoomIds, Delete(r) PROVE TypeOK'
  BY <1>6, <1>7 DEF Delete
<1>8. CASE Cleanup
  BY <1>0, <1>6, <1>8 DEF Cleanup, Collectable
<1>9. ASSUME NEW p \in Peers, Kill(p) PROVE TypeOK'
  BY <1>9 DEF Kill, TypeOK
<1>10. CASE UNCHANGED vars
  BY <1>10 DEF TypeOK, vars
<1> QED
  BY <1>1, <1>2, <1>3, <1>4, <1>5, <1>7, <1>8, <1>9, <1>10 DEF Next

\* Type correctness: in every reachable state of the manager its fields have
\* their types, and rooms live only under ids that have been drawn.
THEOREM TypeCorrect == Spec => []TypeOK
<1>1. Init => TypeOK
  <2>1. Blank \in Room
    BY NewRoomType DEF Blank
  <2> QED
    BY <2>1, RoomsAssumption DEF Init, TypeOK, NoTime
<1> QED
  BY <1>1, TypeStep, PTL DEF Spec

-----------------------------------------------------------------------------
(* The fields of a room agree, and a room is for two. *)

\* A room that a step leaves alone stays coherent while time and the set of
\* joined peers only grow.
LEMMA CoherentFrame ==
  ASSUME TypeOK, TypeOK', NEW r \in RoomIds, CoherentRoom(r),
         room'[r] = room[r], spent \subseteq spent', now <= now'
  PROVE  CoherentRoom(r)'
<1>1. now \in Int /\ now' \in Int /\ room[r].emptySince \in Int
  BY RoomsAssumption DEF TypeOK, Room, NoTime
<1>2. Members(r)' = Members(r) /\ Connected(r)' = Connected(r)
  BY DEF Members, Connected
<1> QED
  BY <1>1, <1>2 DEF CoherentRoom

\* A room fresh from Create is coherent.
LEMMA CoherentFresh ==
  ASSUME TypeOK', NEW r \in RoomIds, NEW e, room'[r] = NewRoom(e)
  PROVE  CoherentRoom(r)'
<1>1. now' \in Nat
  BY RoomsAssumption DEF TypeOK
<1>2. /\ room'[r].roles = [c \in Clients |-> NoRole]
      /\ room'[r].peers = [c \in Clients |-> NoPeer]
      /\ room'[r].sessionTokens = [c \in Clients |-> NoToken]
      /\ ~room'[r].hadParticipants
      /\ room'[r].emptySince = NoTime
  BY NewRoomFields
<1>3. Members(r)' = {} /\ Connected(r)' = {}
  BY <1>2 DEF Members, Connected
<1> QED
  BY <1>1, <1>2, <1>3 DEF CoherentRoom, NoTime

\* Who is in the room after an admission.
LEMMA AdmittedWho ==
  ASSUME TypeOK, NEW r \in RoomIds, NEW p \in Peers, room'[r] = Admitted(r, p)
  PROVE  /\ ClientOf[p] \in Clients
         /\ \A c \in Clients : c # ClientOf[p] =>
              /\ room'[r].roles[c] = room[r].roles[c]
              /\ room'[r].peers[c] = room[r].peers[c]
              /\ room'[r].sessionTokens[c] = room[r].sessionTokens[c]
         /\ room'[r].roles[ClientOf[p]] = RoleFor(r, ClientOf[p])
         /\ RoleFor(r, ClientOf[p]) # NoRole
         /\ room'[r].peers[ClientOf[p]] = p
         /\ room'[r].sessionTokens[ClientOf[p]] = Token(r, ClientOf[p])
         /\ room'[r].hadParticipants
         /\ room'[r].emptySince = NoTime
<1>1. room[r] \in Room /\ ClientOf[p] \in Clients
  BY RoomsAssumption DEF TypeOK
<1>2. RoleFor(r, ClientOf[p]) # NoRole
  BY <1>1 DEF RoleFor, Members, NoRole
<1>3. /\ room'[r].roles = [room[r].roles EXCEPT ![ClientOf[p]] = RoleFor(r, ClientOf[p])]
      /\ room'[r].peers = [room[r].peers EXCEPT ![ClientOf[p]] = p]
      /\ room'[r].sessionTokens =
           [room[r].sessionTokens EXCEPT ![ClientOf[p]] = Token(r, ClientOf[p])]
      /\ room'[r].hadParticipants
      /\ room'[r].emptySince = NoTime
  BY <1>1 DEF Admitted, Room
<1> QED
  BY <1>1, <1>2, <1>3 DEF Room

\* An admitted room is coherent.
LEMMA CoherentAdmitted ==
  ASSUME TypeOK, TypeOK', NEW r \in RoomIds, NEW p \in Peers, CoherentRoom(r),
         room'[r] = Admitted(r, p), spent' = spent \cup {p}
  PROVE  CoherentRoom(r)'
<1> DEFINE d == ClientOf[p]
<1>1. d \in Clients /\ NoPeer \notin Peers /\ now' \in Nat
  BY RoomsAssumption DEF TypeOK
<1>2. Members(r)' = Members(r) \cup {d} /\ Connected(r)' = Connected(r) \cup {d}
  BY <1>1, AdmittedWho DEF Members, Connected
<1>3. ASSUME NEW c \in Clients
      PROVE  /\ c \in Connected(r)' =>
                  /\ c \in Members(r)'
                  /\ room'[r].peers[c] \in spent'
                  /\ ClientOf[room'[r].peers[c]] = c
             /\ room'[r].sessionTokens[c] =
                  IF c \in Members(r)' THEN Token(r, c) ELSE NoToken
  <2>1. CASE c = d
    BY <1>2, <2>1, AdmittedWho
  <2>2. CASE c # d
    BY <1>2, <2>2, AdmittedWho DEF CoherentRoom
  <2> QED
    BY <2>1, <2>2
<1>4. room'[r].hadParticipants <=> Members(r)' # {}
  BY <1>2, AdmittedWho
<1>5. room'[r].emptySince # NoTime <=> Members(r)' # {} /\ Connected(r)' = {}
  BY <1>2, AdmittedWho
<1>6. room'[r].emptySince <= now'
  BY <1>1, AdmittedWho DEF NoTime
<1> QED
  BY <1>3, <1>4, <1>5, <1>6 DEF CoherentRoom

\* A room left by one of its connections is coherent.
LEMMA CoherentDeparted ==
  ASSUME TypeOK, TypeOK', NEW r \in RoomIds, NEW d \in Clients, CoherentRoom(r),
         d \in Connected(r), room'[r] = Departed(r, d), spent' = spent, now' = now
  PROVE  CoherentRoom(r)'
<1>1. room[r] \in Room /\ now \in Nat
  BY RoomsAssumption DEF TypeOK
<1>2. /\ room'[r].roles = room[r].roles
      /\ room'[r].sessionTokens = room[r].sessionTokens
      /\ room'[r].hadParticipants = room[r].hadParticipants
      /\ room'[r].peers = [room[r].peers EXCEPT ![d] = NoPeer]
      /\ room'[r].emptySince = IF Connected(r) = {d} /\ room[r].hadParticipants
                               THEN now ELSE room[r].emptySince
  BY <1>1 DEF Departed, Room
<1>3. Members(r)' = Members(r)
  BY <1>2 DEF Members
<1>4. Connected(r)' = Connected(r) \ {d}
  BY <1>1, <1>2 DEF Connected, Room
<1>5. ASSUME NEW c \in Clients
      PROVE  /\ c \in Connected(r)' =>
                  /\ c \in Members(r)'
                  /\ room'[r].peers[c] \in spent'
                  /\ ClientOf[room'[r].peers[c]] = c
             /\ room'[r].sessionTokens[c] =
                  IF c \in Members(r)' THEN Token(r, c) ELSE NoToken
  BY <1>1, <1>2, <1>3, <1>4 DEF CoherentRoom, Room
<1>6. room'[r].hadParticipants <=> Members(r)' # {}
  BY <1>2, <1>3 DEF CoherentRoom
<1>7. d \in Members(r) /\ room[r].hadParticipants
  BY <1>1 DEF CoherentRoom, Room
<1>8. room'[r].emptySince # NoTime <=> Members(r)' # {} /\ Connected(r)' = {}
  BY <1>1, <1>2, <1>3, <1>4, <1>7 DEF CoherentRoom, NoTime
<1>9. room'[r].emptySince <= now'
  BY <1>1, <1>2 DEF CoherentRoom
<1> QED
  BY <1>5, <1>6, <1>8, <1>9 DEF CoherentRoom
\* The two-party condition of one room.
TwoPartyRoom(r) ==
  /\ \A c, d \in Members(r) : room[r].roles[c] = room[r].roles[d] => c = d
  /\ Members(r) # {} => \E c \in Members(r) : room[r].roles[c] = "caller"

\* A two-party room has finitely many members.
LEMMA MembersFinite ==
  ASSUME TypeOK, NEW r \in rooms, TwoPartyRoom(r)
  PROVE  IsFiniteSet(Members(r))
<1>1. \A x \in Members(r) : room[r].roles[x] \in {"caller", "callee"}
  BY DEF TypeOK, Members, Room, Roles
<1>2. CASE Members(r) = {}
  BY <1>2, FS_EmptySet
<1>3. CASE \E c, d \in Members(r) : Members(r) = {c, d}
  <2>1. PICK c, d \in Members(r) : Members(r) = {c, d}
    BY <1>3
  <2>2. IsFiniteSet({c} \cup {d})
    BY FS_Singleton, FS_AddElement
  <2>3. {c, d} = {c} \cup {d}
    OBVIOUS
  <2> QED
    BY <2>1, <2>2, <2>3
<1>4. ASSUME Members(r) # {}
      PROVE  \E c, d \in Members(r) : Members(r) = {c, d}
  <2>1. PICK c \in Members(r) : room[r].roles[c] = "caller"
    BY <1>4 DEF TwoPartyRoom
  <2>2. CASE \A d \in Members(r) : d = c
    BY <2>1, <2>2
  <2>3. ASSUME NEW d \in Members(r), d # c PROVE Members(r) = {c, d}
    BY <1>1, <2>1, <2>3 DEF TwoPartyRoom
  <2> QED
    BY <2>2, <2>3
<1> QED
  BY <1>2, <1>3, <1>4

\* A newcomer that is not turned away meets an empty room or a caller alone:
\* the room counts its roles, and two different members have the two roles.
LEMMA NewcomerMeets ==
  ASSUME TypeOK, NEW r \in rooms, TwoPartyRoom(r), Cardinality(Members(r)) < 2,
         Members(r) # {}
  PROVE  \E c \in Members(r) : room[r].roles[c] = "caller" /\ Members(r) = {c}
<1>1. PICK c \in Members(r) : room[r].roles[c] = "caller"
  BY DEF TwoPartyRoom
<1>2. ASSUME NEW d \in Members(r), d # c PROVE FALSE
  <2>1. \A x \in Members(r) : room[r].roles[x] \in {"caller", "callee"}
    BY DEF TypeOK, Members, Room, Roles
  <2>2. Members(r) = {c, d}
    BY <1>1, <1>2, <2>1 DEF TwoPartyRoom
  <2>3. IsFiniteSet({c}) /\ Cardinality({c}) = 1
    BY FS_Singleton
  <2>4. Cardinality({c} \cup {d}) = 2
    BY <1>2, <2>3, FS_AddElement
  <2>5. {c, d} = {c} \cup {d}
    OBVIOUS
  <2> QED
    BY <2>2, <2>4, <2>5
<1> QED
  BY <1>1, <1>2

\* Join keeps a room two-party.
LEMMA TwoPartyAdmitted ==
  ASSUME TypeOK, NEW r \in rooms, NEW p \in Peers, NEW s, NEW t, TwoPartyRoom(r),
         JoinResult(r, ClientOf[p], s, t) = "ok", room'[r] = Admitted(r, p)
  PROVE  TwoPartyRoom(r)'
<1> DEFINE d == ClientOf[p]
<1>0. r \in RoomIds /\ d \in Clients
  BY RoomsAssumption DEF TypeOK
<1>1. Members(r)' = Members(r) \cup {d}
  BY <1>0, AdmittedWho DEF Members
<1>2. /\ \A c \in Members(r) \ {d} : room'[r].roles[c] = room[r].roles[c]
      /\ room'[r].roles[d] = RoleFor(r, d)
  BY <1>0, AdmittedWho DEF Members
<1>3. CASE d \in Members(r)
  <2>1. RoleFor(r, d) = room[r].roles[d]
    BY <1>3 DEF RoleFor
  <2>2. \A c \in Members(r) : room'[r].roles[c] = room[r].roles[c]
    BY <1>2, <2>1
  <2> QED
    BY <1>1, <1>3, <2>2 DEF TwoPartyRoom
<1>4. CASE d \notin Members(r)
  <2>1. ~(Cardinality(Members(r)) >= 2)
    BY <1>4 DEF JoinResult
  <2>2. CASE Members(r) = {}
    <3>1. RoleFor(r, d) = "caller" /\ Members(r)' = {d}
      BY <1>1, <2>2 DEF RoleFor
    <3> QED
      BY <1>2, <3>1 DEF TwoPartyRoom
  <2>3. CASE Members(r) # {}
    <3>1. RoleFor(r, d) = "callee"
      BY <1>4, <2>3 DEF RoleFor
    <3>2. Members(r) \subseteq Clients
      BY DEF Members
    <3>3. Cardinality(Members(r)) < 2
      BY <2>1, MembersFinite, FS_CardinalityType
    <3>4. PICK c \in Members(r) : room[r].roles[c] = "caller" /\ Members(r) = {c}
      BY <2>3, <3>3, NewcomerMeets
    <3>5. Members(r)' = {c, d} /\ room'[r].roles[c] = "caller" /\ room'[r].roles[d] = "callee"
      BY <1>1, <1>2, <1>4, <3>1, <3>4
    <3> QED
      BY <3>5 DEF TwoPartyRoom
  <2> QED
    BY <2>2, <2>3
<1> QED
  BY <1>3, <1>4
\* What one room must satisfy, and what an absent one.
GoodRoom(r) == CoherentRoom(r) /\ TwoPartyRoom(r)

LEMMA GoodRoomFrame ==
  ASSUME TypeOK, TypeOK', NEW r \in RoomIds, GoodRoom(r),
         room'[r] = room[r], spent \subseteq spent', now <= now'
  PROVE  GoodRoom(r)'
<1>1. TwoPartyRoom(r)'
  BY DEF GoodRoom, TwoPartyRoom, Members
<1> QED
  BY <1>1, CoherentFrame DEF GoodRoom

\* The rooms that are kept stay as they are, the others are blanked: what
\* Tick, CreateBegin, Delete, Cleanup and Kill do to the table.
LEMMA KeptRooms ==
  ASSUME TypeOK, TypeOK', Coherent, TwoParty,
         rooms' \subseteq rooms, spent \subseteq spent', now <= now',
         \A r \in rooms' : room'[r] = room[r],
         \A r \in RoomIds \ rooms' : room'[r] = Blank,
         \A r \in RoomIds : creating'[r] <= now'
  PROVE  Coherent' /\ TwoParty'
<1>1. \A r \in rooms' : GoodRoom(r)'
  <2> SUFFICES ASSUME NEW r \in rooms' PROVE GoodRoom(r)'
    OBVIOUS
  <2>1. r \in RoomIds /\ GoodRoom(r)
    BY DEF TypeOK, Coherent, TwoParty, GoodRoom, TwoPartyRoom
  <2> QED
    BY <2>1, GoodRoomFrame
<1> QED
  BY <1>1 DEF Coherent, TwoParty, GoodRoom, TwoPartyRoom

\* The table after a step that changes one live room r only.
LEMMA OneRoom ==
  ASSUME TypeOK, TypeOK', Coherent, TwoParty, NEW r \in RoomIds,
         GoodRoom(r)', rooms' \subseteq rooms \cup {r}, r \in rooms',
         spent \subseteq spent', now <= now',
         \A q \in rooms' \ {r} : room'[q] = room[q],
         \A q \in RoomIds \ rooms' : room'[q] = Blank,
         \A q \in RoomIds : creating'[q] <= now'
  PROVE  Coherent' /\ TwoParty'
<1>1. \A q \in rooms' : GoodRoom(q)'
  <2> SUFFICES ASSUME NEW q \in rooms', q # r PROVE GoodRoom(q)'
    OBVIOUS
  <2>1. q \in RoomIds /\ GoodRoom(q)
    BY DEF TypeOK, Coherent, TwoParty, GoodRoom, TwoPartyRoom
  <2> QED
    BY <2>1, GoodRoomFrame
<1> QED
  BY <1>1 DEF Coherent, TwoParty, GoodRoom, TwoPartyRoom

\* The inductive step, one case per action.
LEMMA IndStep == IndInv /\ [Next]_vars => IndInv'
<1> SUFFICES ASSUME TypeOK, Coherent, TwoParty, [Next]_vars
             PROVE  TypeOK' /\ Coherent' /\ TwoParty'
  BY DEF IndInv
<1>0. TypeOK'
  BY TypeStep
<1>t. now \in Nat /\ now' \in Nat /\ \A q \in RoomIds : creating[q] \in Int
  BY <1>0, RoomsAssumption DEF TypeOK, NoTime
<1>1. CASE Tick
  <2>1. now <= now' /\ \A q \in RoomIds : creating'[q] <= now'
    BY <1>1, <1>t DEF Tick, Coherent
  <2> QED
    BY <1>0, <1>1, <2>1, KeptRooms DEF Tick, Coherent
<1>2. ASSUME NEW r \in RoomIds, CreateBegin(r) PROVE Coherent' /\ TwoParty'
  <2>1. now <= now' /\ \A q \in RoomIds : creating'[q] <= now'
    BY <1>2, <1>t DEF CreateBegin, Coherent, TypeOK
  <2> QED
    BY <1>0, <1>2, <2>1, KeptRooms DEF CreateBegin, Coherent
<1>3. ASSUME NEW r \in RoomIds, CreateLocked(r) PROVE Coherent' /\ TwoParty'
  <2>1. now <= now' /\ \A q \in RoomIds : creating'[q] <= now'
    BY <1>3, <1>t DEF CreateLocked, Coherent, TypeOK, NoTime
  <2>2. r \in drawn \ rooms
    BY <1>3 DEF CreateLocked, TypeOK
  <2>3. CASE r \notin rooms'
    <3>1. /\ rooms' \subseteq rooms
          /\ \A q \in rooms' : room'[q] = room[q]
          /\ \A q \in RoomIds \ rooms' : room'[q] = Blank
          /\ spent' = spent
      BY <1>3, <2>3 DEF CreateLocked, Coherent, TypeOK
    <3> QED
      BY <1>0, <2>1, <3>1, KeptRooms
  <2>4. CASE r \in rooms'
    <3>1. /\ rooms' \subseteq rooms \cup {r}
          /\ \A q \in rooms' \ {r} : room'[q] = room[q]
          /\ \A q \in RoomIds \ rooms' : room'[q] = Blank
          /\ room'[r] = NewRoom(ExpiryOf(creating[r]))
          /\ spent' = spent
      BY <1>3, <2>2, <2>4 DEF CreateLocked, Coherent, TypeOK
    <3>2. CoherentRoom(r)'
      BY <1>0, <3>1, CoherentFresh
    <3>3. Members(r)' = {}
      BY <3>1, NewRoomFields DEF Members
    <3>4. TwoPartyRoom(r)'
      BY <3>3 DEF TwoPartyRoom
    <3> QED
      BY <1>0, <2>1, <2>4, <3>1, <3>2, <3>4, OneRoom DEF GoodRoom
  <2> QED
    BY <2>3, <2>4
<1>4. ASSUME NEW r \in RoomIds, NEW p \in Peers, NEW s \in BOOLEAN, NEW t \in Tokens,
             Join(r, p, s, t)
      PROVE  Coherent' /\ TwoParty'
  <2>1. /\ now <= now' /\ \A q \in RoomIds : creating'[q] <= now'
        /\ spent' = spent \cup {p}
    BY <1>4, <1>t DEF Join, Coherent
  <2>2. CASE JoinResult(r, ClientOf[p], s, t) = "ok"
    <3>1. r \in rooms
      BY <2>2 DEF JoinResult
    <3>2. room' = [room EXCEPT ![r] = Admitted(r, p)] /\ rooms' = rooms
      BY <1>4, <2>2 DEF Join
    <3>3. /\ room'[r] = Admitted(r, p)
          /\ \A q \in RoomIds \ {r} : room'[q] = room[q]
      BY <3>2 DEF TypeOK
    <3>4. GoodRoom(r)
      BY <3>1 DEF Coherent, TwoParty, GoodRoom, TwoPartyRoom
    <3>5. CoherentRoom(r)'
      BY <1>0, <2>1, <3>3, <3>4, CoherentAdmitted DEF GoodRoom
    <3>6. TwoPartyRoom(r)'
      BY <2>2, <3>1, <3>3, <3>4, TwoPartyAdmitted DEF GoodRoom
    <3>7. /\ \A q \in rooms' \ {r} : room'[q] = room[q]
          /\ \A q \in RoomIds \ rooms' : room'[q] = Blank
      BY <3>1, <3>2, <3>3 DEF Coherent, TypeOK
    <3> QED
      BY <1>0, <2>1, <3>1, <3>2, <3>5, <3>6, <3>7, OneRoom DEF GoodRoom
  <2>3. CASE JoinResult(r, ClientOf[p], s, t) # "ok"
    <3>1. /\ rooms' \subseteq rooms
          /\ \A q \in rooms' : room'[q] = room[q]
          /\ \A q \in RoomIds \ rooms' : room'[q] = Blank
      BY <1>4, <2>3 DEF Join, Coherent, TypeOK
    <3> QED
      BY <1>0, <2>1, <3>1, KeptRooms
  <2> QED
    BY <2>2, <2>3
<1>5. ASSUME NEW r \in RoomIds, NEW p \in Peers, Leave(r, p) PROVE Coherent' /\ TwoParty'
  <2>1. /\ now <= now' /\ \A q \in RoomIds : creating'[q] <= now'
        /\ spent' = spent /\ now' = now /\ rooms' = rooms
    BY <1>5, <1>t DEF Leave, Coherent
  <2>2. CASE IsCurrent(r, p)
    <3> DEFINE d == ClientOf[p]
    <3>1. r \in rooms /\ d \in Clients /\ d \in Connected(r)
      BY <2>2, RoomsAssumption DEF IsCurrent, Connected
    <3>2. /\ room'[r] = Departed(r, d)
          /\ \A q \in RoomIds \ {r} : room'[q] = room[q]
      BY <1>5, <2>2 DEF Leave, TypeOK
    <3>3. GoodRoom(r)
      BY <3>1 DEF Coherent, TwoParty, GoodRoom, TwoPartyRoom
    <3>4. CoherentRoom(r)'
      BY <1>0, <2>1, <3>1, <3>2, <3>3, CoherentDeparted DEF GoodRoom
    <3>5. room'[r].roles = room[r].roles
      BY <3>2 DEF Departed, TypeOK, Room
    <3>6. TwoPartyRoom(r)'
      BY <3>3, <3>5 DEF GoodRoom, TwoPartyRoom, Members
    <3>7. /\ \A q \in rooms' \ {r} : room'[q] = room[q]
          /\ \A q \in RoomIds \ rooms' : room'[q] = Blank
      BY <2>1, <3>1, <3>2 DEF Coherent, TypeOK
    <3> QED
      BY <1>0, <2>1, <3>1, <3>4, <3>6, <3>7, OneRoom DEF GoodRoom
  <2>3. CASE ~IsCurrent(r, p)
    <3>1. room' = room
      BY <1>5, <2>3 DEF Leave, TypeOK
    <3> QED
      BY <1>0, <2>1, <3>1, KeptRooms DEF Coherent
  <2> QED
    BY <2>2, <2>3
<1>6. ASSUME NEW rs \in SUBSET rooms, Remove(rs) PROVE Coherent' /\ TwoParty'
  <2>1. /\ now <= now' /\ \A q \in RoomIds : creating'[q] <= now'
        /\ spent' = spent
    BY <1>6, <1>t DEF Remove, Coherent
  <2>2. /\ rooms' \subseteq rooms
        /\ \A q \in rooms' : room'[q] = room[q]
        /\ \A q \in RoomIds \ rooms' : room'[q] = Blank
    BY <1>6 DEF Remove, Coherent, TypeOK
  <2> QED
    BY <1>0, <2>1, <2>2, KeptRooms
<1>7. ASSUME NEW r \in RoomIds, Delete(r) PROVE Coherent' /\ TwoParty'
  BY <1>6, <1>7 DEF Delete
<1>8. CASE Cleanup
  BY <1>0, <1>6, <1>8 DEF Cleanup, Collectable
<1>9. ASSUME NEW p \in Peers, Kill(p) PROVE Coherent' /\ TwoParty'
  <2>1. now <= now' /\ \A q \in RoomIds : creating'[q] <= now'
    BY <1>9, <1>t DEF Kill, Coherent
  <2> QED
    BY <1>0, <1>9, <2>1, KeptRooms DEF Kill, Coherent
<1>10. CASE UNCHANGED vars
  <2>1. now <= now' /\ \A q \in RoomIds : creating'[q] <= now'
    BY <1>10, <1>t DEF vars, Coherent
  <2> QED
    BY <1>0, <1>10, <2>1, KeptRooms DEF vars, Coherent
<1> QED
  BY <1>0, <1>1, <1>2, <1>3, <1>4, <1>5, <1>7, <1>8, <1>9, <1>10 DEF Next

\* The empty table satisfies it.
LEMMA IndInit == Init => IndInv
<1> SUFFICES ASSUME Init PROVE TypeOK /\ Coherent /\ TwoParty
  BY DEF IndInv
<1>1. Blank \in Room
  BY NewRoomType DEF Blank
<1>2. TypeOK
  BY <1>1, RoomsAssumption DEF Init, TypeOK, NoTime
<1> QED
  BY <1>2 DEF Init, Coherent, TwoParty, NoTime

\* The inductive invariant of the manager.
THEOREM Inductive == Spec => []IndInv
  BY IndInit, IndStep, PTL DEF Spec

\* The fields Join and Leave maintain agree in every reachable state.
THEOREM AlwaysCoherent == Spec => []Coherent
  BY Inductive, PTL DEF IndInv

\* No sequence of drops, rejoins and late arrivals brings a third identity, or
\* a second holder of a role, into a room.
THEOREM AlwaysTwoParty == Spec => []TwoParty
  BY Inductive, PTL DEF IndInv
-----------------------------------------------------------------------------
(* The cap. *)

\* Only CreateLocked adds a room.
LEMMA OnlyCreateAdds ==
  ASSUME [Next]_vars, ~(rooms' \subseteq rooms)
  PROVE  \E r \in RoomIds : CreateLocked(r)
  BY DEF Next, vars, Tick, CreateBegin, Join, Leave, Delete, Cleanup, Remove, Kill

\* However many Creates wait for the lock, the table never exceeds the cap.
THEOREM AlwaysCapacity == Spec => []Capacity
<1>1. Init => Capacity
  <2>1. Cardinality({}) = 0
    BY FS_EmptySet
  <2> QED
    BY <2>1, RoomsAssumption DEF Init, Capacity
<1>2. TypeOK /\ TypeOK' /\ Capacity /\ [Next]_vars => Capacity'
  <2> SUFFICES ASSUME TypeOK, TypeOK', Capacity, [Next]_vars, MaxRooms > 0
               PROVE  Cardinality(rooms') <= MaxRooms
    BY DEF Capacity
  <2>1. IsFiniteSet(rooms) /\ IsFiniteSet(rooms')
    BY FiniteRoomIds, FS_Subset DEF TypeOK
  <2>2. Cardinality(rooms) \in Nat /\ Cardinality(rooms') \in Nat /\ MaxRooms \in Nat
    BY <2>1, FS_CardinalityType, RoomsAssumption
  <2>3. CASE rooms' \subseteq rooms
    <3>1. Cardinality(rooms') <= Cardinality(rooms)
      BY <2>1, <2>3, FS_Subset
    <3> QED
      BY <2>2, <3>1 DEF Capacity
  <2>4. ASSUME NEW r \in RoomIds, CreateLocked(r), ~(rooms' \subseteq rooms)
        PROVE  Cardinality(rooms') <= MaxRooms
    <3>1. PICK kept \in SUBSET rooms : rooms' = kept \cup {r} /\ ~AtCap(kept)
      BY <2>4 DEF CreateLocked
    <3>2. IsFiniteSet(kept)
      BY <2>1, <3>1, FS_Subset
    <3>3. Cardinality(kept) \in Nat /\ Cardinality(kept) < MaxRooms
      BY <2>2, <3>1, <3>2, FS_CardinalityType DEF AtCap
    <3>4. Cardinality(kept \cup {r}) <= Cardinality(kept) + 1
      <4>1. \/ Cardinality(kept \cup {r}) = Cardinality(kept)
            \/ Cardinality(kept \cup {r}) = Cardinality(kept) + 1
        BY <3>2, FS_AddElement
      <4> QED
        BY <3>3, <4>1
    <3> QED
      BY <2>2, <3>1, <3>3, <3>4
  <2> QED
    BY <2>3, <2>4, OnlyCreateAdds
<1> QED
  BY <1>1, <1>2, TypeCorrect, PTL DEF Spec

-----------------------------------------------------------------------------
(* What a step never does. *)

\* A step removes a room by Delete, by a sweep with a clock value not later
\* than now, or by a Join that finds it expired.
LEMMA HowRoomsGo ==
  ASSUME IndInv, [Next]_vars, NEW r \in rooms \ rooms'
  PROVE  \/ Delete(r)
         \/ \E at \in 0..now : r \in Collectable(at) /\ PeersOf(r) \subseteq dead'
         \/ Expired(r, now) /\ spent' # spent
<1>0. r \in RoomIds /\ now \in Nat
  BY RoomsAssumption DEF IndInv, TypeOK
<1>1. CASE Tick
  BY <1>1 DEF Tick
<1>2. ASSUME NEW q \in RoomIds, CreateBegin(q) PROVE FALSE
  BY <1>2 DEF CreateBegin
<1>3. ASSUME NEW q \in RoomIds, CreateLocked(q)
      PROVE  \E at \in 0..now : r \in Collectable(at) /\ PeersOf(r) \subseteq dead'
  <2>1. creating[q] \in 0..now
    BY <1>0, <1>3 DEF CreateLocked, IndInv, TypeOK, Coherent, NoTime
  <2>2. r \in Collectable(creating[q])
    BY <1>3 DEF CreateLocked
  <2>3. PeersOf(r) \subseteq dead'
    BY <1>3 DEF CreateLocked, KillPeersOf
  <2> QED
    BY <2>1, <2>2, <2>3
<1>4. ASSUME NEW q \in RoomIds, NEW p \in Peers, NEW s \in BOOLEAN, NEW t \in Tokens,
             Join(q, p, s, t)
      PROVE  Expired(r, now) /\ spent' # spent
  <2>1. r = q /\ JoinResult(q, ClientOf[p], s, t) = "room_expired"
    BY <1>4 DEF Join
  <2>2. Expired(r, now)
    BY <2>1 DEF JoinResult
  <2> QED
    BY <1>4, <2>2 DEF Join
<1>5. ASSUME NEW q \in RoomIds, NEW p \in Peers, Leave(q, p) PROVE FALSE
  BY <1>5 DEF Leave
<1>6. ASSUME NEW q \in RoomIds, Delete(q) PROVE Delete(r)
  BY <1>6 DEF Delete, Remove
<1>7. CASE Cleanup
  <2>1. r \in Collectable(now) /\ PeersOf(r) \subseteq dead'
    BY <1>7 DEF Cleanup, Remove, KillPeersOf
  <2> QED
    BY <1>0, <2>1
<1>8. ASSUME NEW p \in Peers, Kill(p) PROVE FALSE
  BY <1>8 DEF Kill
<1>9. CASE UNCHANGED vars
  BY <1>9 DEF vars
<1> QED
  BY <1>1, <1>2, <1>3, <1>4, <1>5, <1>6, <1>7, <1>8, <1>9 DEF Next

\* Removing a room kills its connections, but for a Join that finds it expired.
THEOREM AlwaysKilledOnRemoval == Spec => KilledOnRemoval
<1> DEFINE Step == \A r \in rooms \ rooms' :
                     \/ PeersOf(r) \subseteq dead'
                     \/ spent' # spent /\ Expired(r, now)
<1>1. IndInv /\ [Next]_vars => Step
  <2> SUFFICES ASSUME IndInv, [Next]_vars, NEW r \in rooms \ rooms', Delete(r)
               PROVE  PeersOf(r) \subseteq dead'
    BY HowRoomsGo
  <2> QED
    BY DEF Delete, Remove, KillPeersOf
<1> QED
  BY <1>1, Inductive, PTL DEF Spec, KilledOnRemoval

\* A member keeps its role while the room lives.
THEOREM AlwaysRoleStable == Spec => RoleStable
<1> DEFINE Step == \A r \in rooms \cap rooms' : \A c \in Members(r) :
                     room'[r].roles[c] = room[r].roles[c]
<1>1. IndInv /\ [Next]_vars => Step
  <2> SUFFICES ASSUME TypeOK, [Next]_vars, NEW r \in rooms \cap rooms',
                      NEW c \in Members(r)
               PROVE  room'[r].roles[c] = room[r].roles[c]
    BY DEF IndInv
  <2>0. r \in RoomIds /\ c \in Clients
    BY DEF TypeOK, Members
  <2>1. ASSUME NEW q \in RoomIds, CreateLocked(q) PROVE room'[r] = room[r]
    BY <2>0, <2>1 DEF CreateLocked, TypeOK
  <2>2. ASSUME NEW q \in RoomIds, NEW p \in Peers, NEW s \in BOOLEAN, NEW t \in Tokens,
               Join(q, p, s, t)
        PROVE  room'[r].roles[c] = room[r].roles[c]
    <3>1. CASE q = r /\ JoinResult(q, ClientOf[p], s, t) = "ok"
      <4>1. room'[r] = Admitted(r, p)
        BY <2>0, <2>2, <3>1 DEF Join, TypeOK
      <4>2. CASE c = ClientOf[p]
        BY <2>0, <4>1, <4>2, AdmittedWho DEF RoleFor
      <4>3. CASE c # ClientOf[p]
        BY <2>0, <4>1, <4>3, AdmittedWho
      <4> QED
        BY <4>2, <4>3
    <3>2. CASE ~(q = r /\ JoinResult(q, ClientOf[p], s, t) = "ok")
      <4>1. room'[r] = room[r]
        BY <2>0, <2>2, <3>2 DEF Join, TypeOK
      <4> QED
        BY <4>1
    <3> QED
      BY <3>1, <3>2
  <2>3. ASSUME NEW q \in RoomIds, NEW p \in Peers, Leave(q, p)
        PROVE  room'[r].roles = room[r].roles
    <3>1. room'[r] = room[r] \/ room'[r] = Departed(r, ClientOf[p])
      BY <2>0, <2>3 DEF Leave, TypeOK
    <3> QED
      BY <2>0, <3>1 DEF Departed, TypeOK, Room
  <2>4. ASSUME NEW rs \in SUBSET rooms, Remove(rs) PROVE room'[r] = room[r]
    BY <2>0, <2>4 DEF Remove
  <2> QED
    BY <2>1, <2>2, <2>3, <2>4
    DEF Next, vars, Tick, CreateBegin, Delete, Cleanup, Collectable, Kill
<1> QED
  BY <1>1, Inductive, PTL DEF Spec, RoleStable

\* A stale Leave changes nothing, and a connection yields only to a new one.
THEOREM AlwaysOwnLeaveOnly == Spec => OwnLeaveOnly
<1> DEFINE Step == \A r \in rooms \cap rooms' : \A c \in Connected(r) :
                     LET before == room[r].peers[c]
                         after == room'[r].peers[c]
                     IN after # before =>
                          /\ after = NoPeer \/ after \in Peers \ spent
                          /\ \A p \in Peers : Leave(r, p) => p = before
<1>1. IndInv /\ [Next]_vars => Step
  <2> SUFFICES ASSUME IndInv, [Next]_vars, NEW r \in rooms \cap rooms', NEW c \in Connected(r),
                      room'[r].peers[c] # room[r].peers[c]
               PROVE  /\ room'[r].peers[c] = NoPeer \/ room'[r].peers[c] \in Peers \ spent
                      /\ \A p \in Peers : Leave(r, p) => p = room[r].peers[c]
    OBVIOUS
  <2>0. r \in RoomIds /\ c \in Clients /\ TypeOK /\ room[r] \in Room
    BY DEF IndInv, TypeOK, Connected
  <2>1. ASSUME NEW q \in RoomIds, CreateLocked(q) PROVE FALSE
    BY <2>0, <2>1 DEF CreateLocked, TypeOK
  <2>2. ASSUME NEW q \in RoomIds, NEW p \in Peers, NEW s \in BOOLEAN, NEW t \in Tokens,
               Join(q, p, s, t)
        PROVE  room'[r].peers[c] \in Peers \ spent
    <3>1. q = r /\ room'[r] = Admitted(r, p) /\ p \notin spent
      BY <2>0, <2>2 DEF Join, TypeOK
    <3>2. room'[r].peers[c] = IF c = ClientOf[p] THEN p ELSE room[r].peers[c]
      BY <2>0, <3>1, AdmittedWho
    <3> QED
      BY <3>1, <3>2
  <2>3. ASSUME NEW q \in RoomIds, NEW p \in Peers, Leave(q, p)
        PROVE  /\ room'[r].peers[c] = NoPeer
               /\ q = r /\ p = room[r].peers[c]
    <3>1. q = r /\ IsCurrent(r, p) /\ room'[r] = Departed(r, ClientOf[p])
      BY <2>0, <2>3 DEF Leave, TypeOK
    <3>2. room'[r].peers = [room[r].peers EXCEPT ![ClientOf[p]] = NoPeer]
      BY <2>0, <3>1 DEF Departed, Room
    <3>3. c = ClientOf[p] /\ room'[r].peers[c] = NoPeer
      BY <2>0, <3>2 DEF Room
    <3> QED
      BY <3>1, <3>3 DEF IsCurrent
  <2>4. ASSUME NEW rs \in SUBSET rooms, Remove(rs) PROVE FALSE
    BY <2>0, <2>4 DEF Remove
  <2>5. \A p \in Peers : Leave(r, p) => p = room[r].peers[c]
    BY <2>0, <2>3
  <2> QED
    BY <2>1, <2>2, <2>3, <2>4, <2>5
    DEF Next, vars, Tick, CreateBegin, Delete, Cleanup, Collectable, Kill
<1> QED
  BY <1>1, Inductive, PTL DEF Spec, OwnLeaveOnly
-----------------------------------------------------------------------------
(* Refinement of Admission. *)

LEMMA NoHolders ==
  ASSUME NEW r \in RoomIds, room[r].roles = [c \in Clients |-> NoRole]
  PROVE  holders[r] = {}
<1>1. Members(r) = {}
  BY DEF Members
<1> QED
  BY <1>1 DEF holders

LEMMA NoHoldersAfter ==
  ASSUME NEW r \in RoomIds, room'[r].roles = [c \in Clients |-> NoRole]
  PROVE  holders'[r] = {}
<1>1. Members(r)' = {}
  BY DEF Members
<1> QED
  BY <1>1 DEF holders

\* Seats depend on the roles only.
LEMMA HoldersFrame ==
  ASSUME NEW r \in RoomIds, room'[r].roles = room[r].roles
  PROVE  holders'[r] = holders[r]
<1>1. Members(r)' = Members(r)
  BY DEF Members
<1> QED
  BY <1>1 DEF holders

\* A step that keeps the phase and the roles of every room is a stutter.
LEMMA Stutters ==
  ASSUME \A r \in RoomIds : phase'[r] = phase[r],
         \A r \in RoomIds : room'[r].roles = room[r].roles
  PROVE  UNCHANGED A!avars
<1>1. \A r \in RoomIds : holders'[r] = holders[r]
  BY HoldersFrame
<1>2. holders' = holders
  BY <1>1 DEF holders
<1>3. phase' = phase
  BY DEF phase
<1> QED
  BY <1>2, <1>3 DEF A!avars

\* Rooms end, and perhaps an id is opened or refused.
LEMMA TurnsOver ==
  ASSUME NEW ended \in SUBSET rooms, ended \subseteq RoomIds, NEW r \in RoomIds,
         NEW fate \in {"open", "gone"},
         phase[r] = "none" \/ r \in ended,
         \A q \in RoomIds : phase'[q] = IF q \in ended THEN "gone"
                                        ELSE IF q = r THEN fate ELSE phase[q],
         \A q \in ended : room'[q] = Blank,
         \A q \in RoomIds \ ended : room'[q].roles = room[q].roles
  PROVE  A!Next
<1>1. \A q \in ended : phase[q] = "open"
  BY DEF phase
<1>2. phase' = [q \in RoomIds |-> IF q \in ended THEN "gone"
                                  ELSE IF q = r THEN fate ELSE phase[q]]
  BY DEF phase
<1>3. Blank.roles = [c \in Clients |-> NoRole]
  BY NewRoomFields DEF Blank
<1>4. \A q \in RoomIds : holders'[q] = IF q \in ended THEN {} ELSE holders[q]
  BY <1>3, NoHoldersAfter, HoldersFrame
<1>5. holders' = [q \in RoomIds |-> IF q \in ended THEN {} ELSE holders[q]]
  BY <1>4 DEF holders
<1>6. A!Turnover(ended, r)
  BY <1>1, <1>2, <1>5 DEF A!Turnover
<1> QED
  BY <1>6 DEF A!Next

\* A Join that is let in takes the first free seat, or the one it has.
LEMMA TakesSeat ==
  ASSUME IndInv, NEW r \in rooms, NEW p \in Peers, NEW s, NEW t,
         JoinResult(r, ClientOf[p], s, t) = "ok",
         room' = [room EXCEPT ![r] = Admitted(r, p)], phase' = phase
  PROVE  A!Next \/ UNCHANGED A!avars
<1> DEFINE c == ClientOf[p]
<1>0. r \in RoomIds /\ c \in Clients /\ TypeOK /\ room[r] \in Room
  BY RoomsAssumption DEF IndInv, TypeOK
<1>1. room'[r] = Admitted(r, p) /\ \A q \in RoomIds \ {r} : room'[q] = room[q]
  BY <1>0 DEF TypeOK
<1>2. \A d \in Clients : room'[r].roles[d] = IF d = c THEN RoleFor(r, c) ELSE room[r].roles[d]
  BY <1>0, <1>1, AdmittedWho
<1>3. RoleFor(r, c) # NoRole
  BY <1>0, <1>1, AdmittedWho
<1>4. Members(r)' = Members(r) \cup {c}
  BY <1>0, <1>2, <1>3 DEF Members
<1>5. \A q \in RoomIds \ {r} : holders'[q] = holders[q]
  BY <1>1, HoldersFrame
<1>6. CASE c \in Members(r)
  <2>1. \A d \in Members(r) : room'[r].roles[d] = room[r].roles[d]
    BY <1>2, <1>6 DEF RoleFor, Members
  <2>2. Members(r)' = Members(r)
    BY <1>4, <1>6
  <2>3. holders'[r] = holders[r]
    BY <1>0, <2>1, <2>2 DEF holders
  <2>4. holders' = holders
    BY <1>5, <2>3 DEF holders
  <2> QED
    BY <2>4 DEF A!avars
<1>7. CASE c \notin Members(r)
  <2>1. \A seat \in holders[r] : seat[2] # c
    BY <1>0, <1>7 DEF holders
  <2>2. TwoPartyRoom(r)
    BY DEF IndInv, TwoParty, TwoPartyRoom
  <2>3. Cardinality(Members(r)) < 2
    <3>1. Cardinality(Members(r)) \in Nat
      BY <1>0, <2>2, MembersFinite, FS_CardinalityType
    <3> QED
      BY <1>7, <3>1 DEF JoinResult
  <2>4. phase[r] = "open"
    BY <1>0 DEF phase
  <2>5. CASE Members(r) = {}
    <3>1. holders[r] = {}
      BY <1>0, <2>5 DEF holders
    <3>2. Members(r)' = {c} /\ room'[r].roles[c] = "caller"
      BY <1>0, <1>2, <1>4, <1>7, <2>5 DEF RoleFor
    <3>3. holders'[r] = {<<"caller", c>>}
      BY <1>0, <3>2 DEF holders
    <3>4. holders' = [holders EXCEPT ![r] = {<<"caller", c>>}]
      BY <1>5, <3>3 DEF holders
    <3>5. A!Admit(r, c)
      BY <2>1, <2>4, <3>1, <3>4 DEF A!Admit
    <3> QED
      BY <1>0, <3>5 DEF A!Next
  <2>6. CASE Members(r) # {}
    <3>1. PICK d \in Members(r) : room[r].roles[d] = "caller" /\ Members(r) = {d}
      BY <1>0, <2>2, <2>3, <2>6, NewcomerMeets
    <3>2. holders[r] = {<<"caller", d>>} /\ d \in Clients
      BY <1>0, <3>1 DEF holders, Members
    <3>3. /\ Members(r)' = {d, c}
          /\ room'[r].roles[c] = "callee"
          /\ room'[r].roles[d] = "caller"
      BY <1>0, <1>2, <1>4, <1>7, <2>6, <3>1, <3>2 DEF RoleFor
    <3>4. holders'[r] = {<<"caller", d>>} \cup {<<"callee", c>>}
      BY <1>0, <3>3 DEF holders
    <3>5. holders' = [holders EXCEPT ![r] = @ \cup {<<"callee", c>>}]
      BY <1>5, <3>2, <3>4 DEF holders
    <3>6. A!Admit(r, c)
      BY <2>1, <2>4, <3>2, <3>5 DEF A!Admit
    <3> QED
      BY <1>0, <3>6 DEF A!Next
  <2> QED
    BY <2>5, <2>6
<1> QED
  BY <1>6, <1>7

\* Rooms that are removed end for good.
LEMMA RemovalEnds ==
  ASSUME IndInv, NEW rs \in SUBSET rooms, rs \subseteq RoomIds,
         rooms' = rooms \ rs,
         \A q \in RoomIds : room'[q] = IF q \in rs THEN Blank ELSE room[q],
         UNCHANGED <<drawn, creating>>
  PROVE  A!Next \/ UNCHANGED A!avars
<1>1. \A q \in RoomIds : phase'[q] = IF q \in rs THEN "gone" ELSE phase[q]
  BY DEF phase, IndInv, TypeOK
<1>2. CASE rs = {}
  BY <1>1, <1>2, Stutters
<1>3. ASSUME NEW r \in rs PROVE A!Next
  <2>1. \A q \in RoomIds : phase'[q] = IF q \in rs THEN "gone"
                                       ELSE IF q = r THEN "gone" ELSE phase[q]
    BY <1>1
  <2> QED
    BY <2>1, TurnsOver
<1> QED
  BY <1>2, <1>3

\* A Create ends what it evicts, and opens its id or gives it up.
LEMMA CreateTurnsOver ==
  ASSUME IndInv, NEW r \in RoomIds, CreateLocked(r)
  PROVE  A!Next
<1> DEFINE at == creating[r]
           evicted == IF AtCap(rooms) THEN Collectable(at) ELSE {}
           kept == rooms \ evicted
<1>1. /\ rooms \subseteq drawn /\ drawn \subseteq RoomIds
      /\ r \in drawn \ rooms
      /\ \A q \in rooms : creating[q] = NoTime
      /\ creating[r] # NoTime
      /\ creating \in [RoomIds -> 0..MaxTime \cup {NoTime}]
      /\ room \in [RoomIds -> Room]
  BY DEF CreateLocked, IndInv, TypeOK
<1>2. evicted \in SUBSET rooms /\ evicted \subseteq RoomIds /\ r \notin evicted
  BY <1>1 DEF Collectable
<1>3. phase[r] = "none"
  BY <1>1 DEF phase
<1>4. room[r] = Blank
  BY <1>1 DEF IndInv, Coherent
<1>5. creating' = [creating EXCEPT ![r] = NoTime] /\ drawn' = drawn
  BY DEF CreateLocked
<1>6. \/ /\ rooms' = kept
         /\ \A q \in RoomIds : room'[q] = IF q \in evicted THEN Blank ELSE room[q]
      \/ /\ rooms' = kept \cup {r}
         /\ \A q \in RoomIds : room'[q] = IF q \in evicted THEN Blank
                                          ELSE IF q = r THEN NewRoom(ExpiryOf(at)) ELSE room[q]
  BY <1>2 DEF CreateLocked
<1> HIDE DEF at, evicted, kept
<1>7. kept = rooms \ evicted
  BY DEF kept
<1>8. Blank.roles = NewRoom(ExpiryOf(at)).roles
  BY NewRoomFields DEF Blank
<1>9. CASE rooms' = kept /\ \A q \in RoomIds : room'[q] = IF q \in evicted THEN Blank ELSE room[q]
  <2>1. \A q \in RoomIds : phase'[q] = IF q \in evicted THEN "gone"
                                       ELSE IF q = r THEN "gone" ELSE phase[q]
    BY <1>1, <1>2, <1>5, <1>7, <1>9 DEF phase
  <2>2. \A q \in evicted : room'[q] = Blank
    BY <1>2, <1>9
  <2>3. \A q \in RoomIds \ evicted : room'[q].roles = room[q].roles
    BY <1>9
  <2> QED
    BY <1>2, <1>3, <2>1, <2>2, <2>3, TurnsOver
<1>10. CASE /\ rooms' = kept \cup {r}
            /\ \A q \in RoomIds : room'[q] = IF q \in evicted THEN Blank
                                             ELSE IF q = r THEN NewRoom(ExpiryOf(at)) ELSE room[q]
  <2>1. \A q \in RoomIds : phase'[q] = IF q \in evicted THEN "gone"
                                       ELSE IF q = r THEN "open" ELSE phase[q]
    BY <1>1, <1>2, <1>5, <1>7, <1>10 DEF phase
  <2>2. \A q \in evicted : room'[q] = Blank
    BY <1>2, <1>10
  <2>3. \A q \in RoomIds \ evicted : room'[q].roles = room[q].roles
    BY <1>4, <1>8, <1>10
  <2> QED
    BY <1>2, <1>3, <2>1, <2>2, <2>3, TurnsOver
<1> QED
  BY <1>6, <1>9, <1>10

\* Every step of the manager is one of Admission, or none.
LEMMA AdmissionStep == IndInv /\ [Next]_vars => A!Next \/ UNCHANGED A!avars
<1> SUFFICES ASSUME IndInv, [Next]_vars PROVE A!Next \/ UNCHANGED A!avars
  OBVIOUS
<1>0. TypeOK /\ rooms \subseteq RoomIds /\ now # NoTime
  BY RoomsAssumption DEF IndInv, TypeOK, NoTime
<1>1. CASE UNCHANGED <<rooms, room, drawn, creating>>
  BY <1>1, Stutters DEF phase
<1>2. ASSUME NEW r \in RoomIds, CreateBegin(r) PROVE UNCHANGED A!avars
  <2>1. \A q \in RoomIds : phase'[q] = phase[q]
    BY <1>0, <1>2 DEF CreateBegin, phase, TypeOK
  <2> QED
    BY <1>2, <2>1, Stutters DEF CreateBegin
<1>3. ASSUME NEW r \in RoomIds, CreateLocked(r) PROVE A!Next
  BY <1>3, CreateTurnsOver
<1>4. ASSUME NEW r \in RoomIds, NEW p \in Peers, NEW s \in BOOLEAN, NEW t \in Tokens,
             Join(r, p, s, t)
      PROVE  A!Next \/ UNCHANGED A!avars
  <2> DEFINE result == JoinResult(r, ClientOf[p], s, t)
  <2>1. CASE result = "ok"
    <3>1. r \in rooms
      BY <2>1 DEF JoinResult
    <3>2. room' = [room EXCEPT ![r] = Admitted(r, p)] /\ phase' = phase
      BY <1>4, <2>1 DEF Join, phase
    <3> QED
      BY <2>1, <3>1, <3>2, TakesSeat
  <2>2. CASE result = "room_expired"
    <3>1. r \in rooms
      BY <2>2 DEF JoinResult
    <3>2. /\ rooms' = rooms \ {r}
          /\ \A q \in RoomIds : room'[q] = IF q \in {r} THEN Blank ELSE room[q]
          /\ UNCHANGED <<drawn, creating>>
      BY <1>0, <1>4, <2>2 DEF Join, TypeOK
    <3> QED
      BY <3>1, <3>2, RemovalEnds
  <2>3. CASE result \notin {"ok", "room_expired"}
    BY <1>1, <1>4, <2>3 DEF Join
  <2> QED
    BY <2>1, <2>2, <2>3
<1>5. ASSUME NEW r \in RoomIds, NEW p \in Peers, Leave(r, p) PROVE UNCHANGED A!avars
  <2>1. \A q \in RoomIds : room'[q].roles = room[q].roles
    <3> SUFFICES ASSUME NEW q \in RoomIds PROVE room'[q].roles = room[q].roles
      OBVIOUS
    <3>1. room'[q] = room[q] \/ room'[q] = Departed(q, ClientOf[p])
      BY <1>0, <1>5 DEF Leave, TypeOK
    <3> QED
      BY <1>0, <3>1 DEF Departed, TypeOK, Room
  <2> QED
    BY <1>5, <2>1, Stutters DEF Leave, phase
<1>6. ASSUME NEW rs \in SUBSET rooms, Remove(rs) PROVE A!Next \/ UNCHANGED A!avars
  BY <1>0, <1>6, RemovalEnds DEF Remove
<1>7. ASSUME NEW r \in RoomIds, Delete(r) PROVE A!Next \/ UNCHANGED A!avars
  BY <1>6, <1>7 DEF Delete
<1>8. CASE Cleanup
  BY <1>6, <1>8 DEF Cleanup, Collectable
<1> QED
  BY <1>1, <1>2, <1>3, <1>4, <1>5, <1>7, <1>8 DEF Next, vars, Tick, Kill

\* The manager keeps its promise about seats: a room opens once, its caller's
\* seat is taken first, and a seat keeps its client until the room is gone.
THEOREM ImplementsAdmission == Spec => AdmissionSpec
<1>1. Init => A!Init
  <2> SUFFICES ASSUME Init PROVE A!Init
    OBVIOUS
  <2>1. \A r \in RoomIds : holders[r] = {}
    BY NoHolders, NewRoomFields DEF Init, Blank
  <2>2. holders = [r \in RoomIds |-> {}]
    BY <2>1 DEF holders
  <2>3. phase = [r \in RoomIds |-> "none"]
    BY DEF Init, phase
  <2> QED
    BY <2>2, <2>3 DEF A!Init
<1> QED
  BY <1>1, AdmissionStep, Inductive, PTL DEF Spec, AdmissionSpec, A!Spec

-----------------------------------------------------------------------------
(* The record of a room, and the grace period. *)

\* Writing the record is a step of the manager.
LEMMA RecordedStep == [HNext]_hvars => [Next]_vars
  BY DEF HNext, Next, hvars

LEMMA RecordedSpec == HSpec => Spec
<1>1. HInit => Init
  BY DEF HInit
<1> QED
  BY <1>1, RecordedStep, PTL DEF HSpec, Spec

\* What the record says of a live room: an occupied one was held just now, and
\* emptySince is the time at which a room was last held.
Recorded(r) ==
  /\ Connected(r) # {} => heldAt[r] = now
  /\ room[r].emptySince # NoTime => heldAt[r] = room[r].emptySince

HInv ==
  /\ heldAt \in [RoomIds -> Int]
  /\ \A r \in rooms : Recorded(r)

LEMMA HInvInit == HInit => HInv
  BY DEF HInit, Init, HInv, NoTime

\* A live room comes to emptySince by the Leave of its last connection, and
\* keeps it until it is occupied again.
LEMMA HowRoomsEmpty ==
  ASSUME IndInv, [Next]_vars, NEW r \in rooms', room'[r].emptySince # NoTime
  PROVE  /\ r \in rooms
         /\ \/ room'[r].emptySince = room[r].emptySince
            \/ Connected(r) # {} /\ room'[r].emptySince = now
<1> DEFINE Goal == /\ r \in rooms
                   /\ \/ room'[r].emptySince = room[r].emptySince
                      \/ Connected(r) # {} /\ room'[r].emptySince = now
<1>0. TypeOK /\ TypeOK' /\ r \in RoomIds
  BY TypeStep DEF IndInv, TypeOK
<1>1. ASSUME rooms' \subseteq rooms, room'[r] = room[r] PROVE Goal
  BY <1>1
<1> HIDE DEF Goal
<1>2. ASSUME NEW q \in RoomIds, CreateLocked(q) PROVE Goal
  <2>1. CASE r = q
    <3>1. q \notin rooms /\ NewRoom(ExpiryOf(creating[q])).emptySince = NoTime
      BY <1>0, <1>2, NewRoomFields DEF CreateLocked, TypeOK
    <3>2. room'[r] = NewRoom(ExpiryOf(creating[q]))
      BY <1>0, <1>2, <2>1, <3>1 DEF CreateLocked, TypeOK
    <3> QED
      BY <3>1, <3>2
  <2>2. CASE r # q
    <3>1. rooms' \subseteq rooms \cup {q} /\ creating[q] # NoTime
      BY <1>2 DEF CreateLocked
    <3>2. r \in rooms /\ (q \in rooms => FALSE)
      BY <1>0, <2>2, <3>1 DEF TypeOK
    <3>3. room'[r] = room[r] \/ (r \in (IF AtCap(rooms) THEN Collectable(creating[q]) ELSE {}) /\ r \notin rooms')
      BY <1>0, <1>2, <2>2, <3>2 DEF CreateLocked, TypeOK
    <3> QED
      BY <3>2, <3>3 DEF Goal
  <2> QED
    BY <2>1, <2>2
<1>3. ASSUME NEW q \in RoomIds, NEW p \in Peers, NEW s, NEW t, Join(q, p, s, t)
      PROVE  Goal
  <2>1. rooms' \subseteq rooms
    BY <1>3 DEF Join
  <2>2. CASE r = q /\ JoinResult(q, ClientOf[p], s, t) = "ok"
    <3>1. room'[r] = Admitted(r, p)
      BY <1>0, <1>3, <2>2 DEF Join, TypeOK
    <3> QED
      BY <1>0, <3>1, AdmittedWho
  <2>3. CASE ~(r = q /\ JoinResult(q, ClientOf[p], s, t) = "ok")
    <3>1. room'[r] = room[r]
      BY <1>0, <1>3, <2>3 DEF Join, TypeOK
    <3> QED
      BY <1>1, <2>1, <3>1
  <2> QED
    BY <2>2, <2>3
<1>4. ASSUME NEW q \in RoomIds, NEW p \in Peers, Leave(q, p) PROVE Goal
  <2>1. rooms' = rooms
    BY <1>4 DEF Leave
  <2>2. CASE r = q /\ IsCurrent(q, p)
    <3>1. room'[r] = Departed(r, ClientOf[p]) /\ room[r] \in Room
      BY <1>0, <1>4, <2>2 DEF Leave, TypeOK
    <3>2. room'[r].emptySince = IF Connected(r) = {ClientOf[p]} /\ room[r].hadParticipants
                                THEN now ELSE room[r].emptySince
      BY <3>1 DEF Departed, Room
    <3> QED
      BY <2>1, <3>2 DEF Goal
  <2>3. CASE ~(r = q /\ IsCurrent(q, p))
    <3>1. room'[r] = room[r]
      BY <1>0, <1>4, <2>3 DEF Leave, TypeOK
    <3> QED
      BY <1>1, <2>1, <3>1
  <2> QED
    BY <2>2, <2>3
<1>5. ASSUME NEW rs \in SUBSET rooms, Remove(rs) PROVE Goal
  BY <1>0, <1>1, <1>5 DEF Remove
<1>6. ASSUME NEW q \in RoomIds, Delete(q) PROVE Goal
  BY <1>5, <1>6 DEF Delete
<1>7. ASSUME Cleanup PROVE Goal
  <2>1. Collectable(now) \in SUBSET rooms
    BY DEF Collectable
  <2> QED
    BY <1>5, <1>7, <2>1 DEF Cleanup
<1>8. ASSUME rooms' = rooms, room' = room PROVE Goal
  BY <1>1, <1>8
<1>9. CASE UNCHANGED vars
  BY <1>8, <1>9 DEF vars
<1>10. ASSUME Tick \/ (\E q \in RoomIds : CreateBegin(q)) \/ (\E p \in Peers : Kill(p))
       PROVE  Goal
  BY <1>8, <1>10 DEF Tick, CreateBegin, Kill
<1>11. ASSUME Next PROVE Goal
  BY <1>2, <1>3, <1>4, <1>6, <1>7, <1>10, <1>11 DEF Next
<1> QED
  BY <1>9, <1>11 DEF Goal

LEMMA HInvStep == IndInv /\ HInv /\ [HNext]_hvars => HInv'
<1> SUFFICES ASSUME IndInv, HInv, [HNext]_hvars PROVE HInv'
  OBVIOUS
<1>1. [Next]_vars /\ IndInv'
  BY RecordedStep, IndStep
<1>2. TypeOK /\ TypeOK' /\ Coherent /\ Coherent'
  BY <1>1 DEF IndInv
<1>3. CASE UNCHANGED hvars
  <2>1. \A r : Connected(r)' = Connected(r)
    BY <1>3 DEF hvars, vars, Connected
  <2> QED
    BY <1>3, <2>1 DEF HInv, Recorded, hvars, vars
<1>4. CASE HNext
  <2>1. heldAt' = [r \in RoomIds |-> IF r \notin rooms' THEN NoTime
                                     ELSE IF Connected(r)' # {} THEN now'
                                     ELSE heldAt[r]]
    BY <1>4 DEF HNext, Record
  <2>2. heldAt' \in [RoomIds -> Int]
    BY <1>2, <2>1, RoomsAssumption DEF HInv, TypeOK, NoTime
  <2>3. ASSUME NEW r \in rooms' PROVE Recorded(r)'
    <3>1. r \in RoomIds
      BY <1>2 DEF TypeOK
    <3>2. ASSUME room'[r].emptySince # NoTime PROVE heldAt'[r] = room'[r].emptySince
      <4>1. Connected(r)' = {}
        BY <1>2, <3>2 DEF Coherent, CoherentRoom
      <4>2. heldAt'[r] = heldAt[r]
        BY <2>1, <3>1, <4>1
      <4> QED
        BY <1>1, <3>2, <4>2, HowRoomsEmpty DEF HInv, Recorded
    <3> QED
      BY <2>1, <3>1, <3>2 DEF Recorded
  <2> QED
    BY <2>2, <2>3 DEF HInv
<1> QED
  BY <1>3, <1>4

\* A step that is not a hangup takes a room only when its time is over, or when
\* its emptySince lies a grace period back.
LEMMA GraceStep ==
  ASSUME IndInv, HInv, [HNext]_hvars, NEW r \in rooms \ rooms', r \notin hungUp'
  PROVE  Expired(r, now) \/ (Connected(r) = {} /\ heldAt[r] # NoTime /\ now - heldAt[r] >= Grace)
<1>0. r \in RoomIds /\ now \in Nat /\ room[r] \in Room /\ CoherentRoom(r)
  BY RoomsAssumption DEF IndInv, TypeOK, Coherent
<1>1. Expired(r, now) \/ \E t \in 0..now : r \in Collectable(t)
  <2>1. ASSUME NEW q \in RoomIds, CreateLocked(q)
        PROVE  \E t \in 0..now : r \in Collectable(t)
    <3>1. creating[q] \in 0..now
      BY <1>0, <2>1 DEF CreateLocked, IndInv, TypeOK, Coherent, NoTime
    <3> QED
      BY <2>1, <3>1 DEF CreateLocked
  <2>2. ASSUME NEW q \in RoomIds, NEW p \in Peers, NEW s \in BOOLEAN, NEW t \in Tokens,
               Join(q, p, s, t)
        PROVE  Expired(r, now)
    BY <2>2 DEF Join, JoinResult
  <2>3. CASE Cleanup
    BY <1>0, <2>3 DEF Cleanup, Remove
  <2>4. ASSUME NEW q \in RoomIds, Delete(q), Record({q} \cap rooms) PROVE FALSE
    BY <2>4 DEF Delete, Remove, Record
  <2> QED
    BY <2>1, <2>2, <2>3, <2>4
    DEF HNext, hvars, vars, Tick, CreateBegin, Leave, Kill
<1>2. room[r].expiresAt \in Nat /\ room[r].emptySince \in Int /\ Grace \in Nat
  BY <1>0, RoomsAssumption DEF Room, NoTime
<1>3. ASSUME NEW t \in 0..now, Expired(r, t) PROVE Expired(r, now)
  BY <1>0, <1>2, <1>3 DEF Expired
<1>4. ASSUME NEW t \in 0..now, EmptyTooLong(r, t)
      PROVE  Connected(r) = {} /\ heldAt[r] # NoTime /\ now - heldAt[r] >= Grace
  <2>1. room[r].emptySince # NoTime /\ t - room[r].emptySince >= Grace
    BY <1>4 DEF EmptyTooLong
  <2>2. Connected(r) = {} /\ heldAt[r] = room[r].emptySince
    BY <1>0, <2>1 DEF CoherentRoom, HInv, Recorded
  <2> QED
    BY <1>0, <1>2, <2>1, <2>2
<1> QED
  BY <1>1, <1>3, <1>4 DEF Collectable

\* A room goes only by the hangup that asks for it, after its time to live, or
\* when it has been without a connection for a whole grace period since it last
\* held one; no sweep, and no Create with an old clock, takes it earlier.
THEOREM AlwaysGraceHonoured == HSpec => GraceHonoured
<1> DEFINE Step == \A r \in rooms \ rooms' :
                     \/ r \in hungUp'
                     \/ Expired(r, now)
                     \/ /\ Connected(r) = {}
                        /\ heldAt[r] # NoTime
                        /\ now - heldAt[r] >= Grace
<1>1. IndInv /\ HInv /\ [HNext]_hvars => Step
  BY GraceStep
<1>2. HSpec => []IndInv
  BY RecordedSpec, Inductive, PTL
<1>3. HSpec => []HInv
  BY <1>2, HInvInit, HInvStep, PTL DEF HSpec
<1> QED
  BY <1>1, <1>2, <1>3, PTL DEF HSpec, GraceHonoured
=============================================================================
