---------------------------- MODULE LobbyProofs -----------------------------
(***************************************************************************)
(* Type correctness of Lobby and its two invariants, for any set of rooms  *)
(* and any number of requests on their way.                                *)
(***************************************************************************)
EXTENDS Lobby, TLAPS

\* Facts about the steps of routing that several actions take.

\* A route to a room keeps the types.
LEMMA RouteType ==
  ASSUME TypeOK, NEW r \in RoomIds, NEW hash \in BOOLEAN, RouteToRoom(r, hash)
  PROVE  /\ view' = "precall" /\ room' \in RoomIds /\ secret' \in BOOLEAN
         /\ stored' \subseteq RoomIds /\ startOff' \in BOOLEAN
         /\ checks' \subseteq RoomIds /\ refused' \subseteq RoomIds
<1>1. stored' \subseteq RoomIds
  <2>1. stored \subseteq RoomIds
    BY DEF TypeOK
  <2>2. stored' = stored \cup {r} \/ stored' = stored
    BY DEF RouteToRoom
  <2> QED BY <2>1, <2>2
<1>2. secret' \in BOOLEAN
  BY DEF RouteToRoom
<1>3. checks \subseteq RoomIds /\ refused \subseteq RoomIds /\ startOff \in BOOLEAN
  BY DEF TypeOK
<1>4. CASE secret'
  <2>1. checks' = checks \cup {r} /\ startOff' = startOff /\ refused' = refused
    BY <1>4 DEF RouteToRoom
  <2> QED BY <1>1, <1>2, <1>3, <2>1 DEF RouteToRoom
<1>5. CASE ~secret'
  <2>1. startOff' = TRUE /\ refused' = refused \cup {r} /\ checks' = checks
    BY <1>5 DEF RouteToRoom
  <2> QED BY <1>1, <1>2, <1>3, <2>1 DEF RouteToRoom
<1> QED BY <1>2, <1>4, <1>5

-----------------------------------------------------------------------------
(* Types *)

LEMMA TypeInit == Init => TypeOK
<1> SUFFICES ASSUME Init PROVE TypeOK
  OBVIOUS
<1>1. open \subseteq used /\ used \subseteq RoomIds /\ url \in Pages /\ visited \subseteq Pages
  BY DEF Init, Pages
<1>2. /\ stored \subseteq RoomIds /\ checks \subseteq RoomIds /\ refused \subseteq RoomIds
      /\ creates \in Nat
  BY DEF Init, Blank
<1>3. secret \in BOOLEAN /\ startOff \in BOOLEAN /\ createOff \in BOOLEAN
      /\ calling \in BOOLEAN /\ typed \in BOOLEAN /\ moved \in BOOLEAN
  BY DEF Init, Blank
<1>4. /\ view \in {"home", "friends", "precall", "call"} /\ started \in {"no", "asking", "call"}
      /\ room \in RoomIds \cup {NoRoom} /\ socketIn \in RoomIds \cup {NoRoom}
      /\ startedIn \in RoomIds \cup {NoRoom}
  BY DEF Init, Blank
<1> QED BY <1>1, <1>2, <1>3, <1>4 DEF TypeOK

\* Routing by address: what Navigate and PopState share.
LEMMA HandleRouteType ==
  ASSUME TypeOK, NEW u \in Pages, HandleRoute(u, FALSE)
  PROVE  /\ view' \in {"home", "friends", "precall"} /\ room' \in RoomIds \cup {NoRoom}
         /\ secret' \in BOOLEAN /\ stored' \subseteq RoomIds /\ startOff' \in BOOLEAN
         /\ checks' \subseteq RoomIds /\ refused' \subseteq RoomIds
<1>1. CASE u \in RoomIds
  <2>1. RouteToRoom(u, FALSE)
    BY <1>1 DEF HandleRoute
  <2> QED BY <1>1, <2>1, RouteType
<1>2. CASE u \notin RoomIds
  <2>1. view' = u /\ UNCHANGED <<room, secret, stored, checks, startOff, refused>>
    BY <1>2 DEF HandleRoute
  <2>2. u \in {"home", "friends"}
    BY <1>2 DEF Pages
  <2> QED BY <2>1, <2>2 DEF TypeOK
<1> QED BY <1>1, <1>2

LEMMA LoadType ==
  ASSUME TypeOK, NEW u \in Pages, NEW hash \in BOOLEAN, hash => u \in RoomIds, LoadPage(u, hash)
  PROVE  TypeOK'
<1>1. stored' \subseteq RoomIds
  <2>1. stored \subseteq RoomIds
    BY DEF TypeOK
  <2>2. CASE hash
    BY <2>1, <2>2 DEF LoadPage
  <2>3. CASE ~hash
    BY <2>1, <2>3 DEF LoadPage
  <2> QED BY <2>2, <2>3
<1>2. /\ open' \subseteq used' /\ used' \subseteq RoomIds
      /\ url' \in Pages /\ visited' \subseteq Pages
      /\ createOff' \in BOOLEAN /\ creates' \in Nat /\ calling' \in BOOLEAN
      /\ started' \in {"no", "asking", "call"}
      /\ socketIn' \in RoomIds \cup {NoRoom} /\ startedIn' \in RoomIds \cup {NoRoom}
      /\ typed' \in BOOLEAN /\ moved' \in BOOLEAN
  <2>1. visited \subseteq Pages /\ open \subseteq used /\ used \subseteq RoomIds
    BY DEF TypeOK
  <2> QED BY <2>1 DEF LoadPage
<1>3. /\ view' \in {"home", "friends", "precall", "call"}
      /\ room' \in RoomIds \cup {NoRoom} /\ secret' \in BOOLEAN
      /\ startOff' \in BOOLEAN /\ checks' \subseteq RoomIds /\ refused' \subseteq RoomIds
  <2>1. CASE u \in RoomIds
    <3>1. view' = "precall" /\ room' = u /\ secret' \in BOOLEAN
      BY <2>1 DEF LoadPage
    <3>2. CASE secret'
      BY <2>1, <3>1, <3>2 DEF LoadPage
    <3>3. CASE ~secret'
      BY <2>1, <3>1, <3>3 DEF LoadPage
    <3> QED BY <3>1, <3>2, <3>3
  <2>2. CASE u \notin RoomIds
    <3>1. u \in {"home", "friends"}
      BY <2>2 DEF Pages
    <3> QED BY <2>2, <3>1 DEF LoadPage
  <2> QED BY <2>1, <2>2
<1> QED BY <1>1, <1>2, <1>3 DEF TypeOK

LEMMA TypeStep == TypeOK /\ [Next]_vars => TypeOK'
<1> SUFFICES ASSUME TypeOK, [Next]_vars PROVE TypeOK'
  OBVIOUS
<1>1. CASE Navigate
  <2>1. url' \in Pages /\ visited' \subseteq Pages
    BY <1>1 DEF Navigate, Pages, TypeOK
  <2>2. HandleRoute(url', FALSE)
    BY <1>1 DEF Navigate
  <2> QED BY <1>1, <2>1, <2>2, HandleRouteType DEF Navigate, TypeOK, session
<1>2. CASE PopState
  <2>1. PICK u \in visited : url' = u /\ HandleRoute(u, FALSE)
    BY <1>2 DEF PopState
  <2>2. u \in Pages
    BY <2>1 DEF TypeOK
  <2>3. moved' \in BOOLEAN
    BY <1>2 DEF PopState, Moves
  <2> QED BY <1>2, <2>1, <2>2, <2>3, HandleRouteType DEF PopState, TypeOK, session
<1>3. CASE Verdict
  <2>1. PICK r \in checks :
          /\ checks' = checks \ {r}
          /\ \/ UNCHANGED <<startOff, refused>>
             \/ startOff' = TRUE /\ refused' = refused \cup {r}
    BY <1>3 DEF Verdict
  <2>2. checks' \subseteq RoomIds /\ refused' \subseteq RoomIds /\ startOff' \in BOOLEAN
    BY <2>1 DEF TypeOK
  <2> QED BY <1>3, <2>2 DEF Verdict, TypeOK, session
<1>4. CASE CreateCall
  BY <1>4 DEF CreateCall, TypeOK, session
<1>5. ASSUME NEW r \in RoomIds, Made(r) PROVE open' \subseteq used' /\ used' \subseteq RoomIds
  BY <1>5 DEF Made, TypeOK
<1>6. ASSUME NEW r \in RoomIds, GoToNew(r)
      PROVE  /\ url' \in Pages /\ visited' \subseteq Pages /\ view' = "precall"
             /\ room' \in RoomIds /\ secret' \in BOOLEAN /\ stored' \subseteq RoomIds
             /\ moved' \in BOOLEAN
  BY <1>6 DEF GoToNew, GoTo, Moves, TypeOK, Pages
<1>7. CASE Created
  <2>1. creates' \in Nat /\ createOff' \in BOOLEAN
    <3>1. creates > 0 /\ creates' = creates - 1 /\ createOff' = FALSE
      BY <1>7 DEF Created
    <3>2. creates \in Nat
      BY DEF TypeOK
    <3>3. creates' \in Nat
      BY <3>1, <3>2
    <3> QED BY <3>1, <3>3
  <2>2. CASE \E r \in RoomIds : Made(r) /\ GoToNew(r)
    BY <1>5, <1>6, <1>7, <2>1, <2>2 DEF Created, TypeOK, session
  <2>3. CASE UNCHANGED <<open, used, url, visited, view, room, secret, stored, moved>>
    BY <1>7, <2>1, <2>3 DEF Created, TypeOK, session
  <2> QED BY <1>7, <2>2, <2>3 DEF Created
<1>8. CASE CallContact
  BY <1>8 DEF CallContact, TypeOK, session
<1>9. CASE Called
  <2>1. calling' = FALSE /\ UNCHANGED <<startOff, createOff, checks, creates, session, refused, typed>>
    BY <1>9 DEF Called
  <2>2. CASE \E r \in RoomIds : Made(r) /\ GoToNew(r)
    BY <1>5, <1>6, <2>1, <2>2 DEF TypeOK, session
  <2>3. CASE \E r \in RoomIds : Made(r) /\ stored' = stored \cup {r} /\ UNCHANGED <<url, visited, view, room, secret, moved>>
    <3>1. PICK r \in RoomIds : Made(r) /\ stored' = stored \cup {r} /\ UNCHANGED <<url, visited, view, room, secret, moved>>
      BY <2>3
    <3>2. stored' \subseteq RoomIds
      BY <3>1 DEF TypeOK
    <3> QED BY <1>5, <2>1, <3>1, <3>2 DEF TypeOK, session
  <2>4. CASE UNCHANGED <<open, used, url, visited, view, room, secret, stored, moved>>
    BY <2>1, <2>4 DEF TypeOK, session
  <2> QED BY <1>9, <2>2, <2>3, <2>4 DEF Called
<1>10. CASE JoinInput
  <2>1. PICK r \in used, given \in BOOLEAN :
          /\ GoTo(r) /\ secret' = given
          /\ stored' = IF given THEN stored \cup {r} ELSE stored
          /\ typed' = (typed \/ ~given)
    BY <1>10 DEF JoinInput
  <2>2. r \in RoomIds
    BY DEF TypeOK
  <2>3. stored' \subseteq RoomIds
    BY <2>1, <2>2 DEF TypeOK
  <2>4. /\ url' \in Pages /\ visited' \subseteq Pages /\ view' = "precall"
        /\ room' \in RoomIds /\ secret' \in BOOLEAN /\ typed' \in BOOLEAN
    BY <2>1, <2>2 DEF GoTo, TypeOK, Pages
  <2>5. moved' \in BOOLEAN
    BY <1>10 DEF JoinInput, Moves
  <2> QED BY <1>10, <2>3, <2>4, <2>5 DEF JoinInput, TypeOK, session, requests
<1>11. CASE MadeElsewhere
  BY <1>5, <1>11 DEF MadeElsewhere, TypeOK, session, requests
<1>12. CASE Expire
  BY <1>12 DEF Expire, TypeOK, session, requests
<1>13. CASE Load
  <2>1. PICK u \in {"home", "friends"} \cup used, hash \in BOOLEAN :
          (hash => u \in used) /\ LoadPage(u, hash)
    BY <1>13 DEF Load
  <2>2. u \in Pages /\ (hash => u \in RoomIds)
    BY <2>1 DEF TypeOK, Pages
  <2> QED BY <2>1, <2>2, LoadType
<1>14. CASE NotificationClick
  <2>1. PICK r \in used :
          IF url = r
          THEN /\ RouteToRoom(r, TRUE)
               /\ Moves
               /\ UNCHANGED <<open, used, url, visited, createOff, creates, calling, session, typed>>
          ELSE LoadPage(r, TRUE)
    BY <1>14 DEF NotificationClick
  <2>2. r \in RoomIds /\ r \in Pages
    BY DEF TypeOK, Pages
  <2>3. CASE url = r
    <3>1. /\ RouteToRoom(r, TRUE) /\ Moves
          /\ UNCHANGED <<open, used, url, visited, createOff, creates, calling, session, typed>>
      BY <2>1, <2>3
    <3>2. moved' \in BOOLEAN
      BY <3>1 DEF Moves
    <3> QED BY <2>2, <3>1, <3>2, RouteType DEF TypeOK, session
  <2>4. CASE url # r
    BY <2>1, <2>2, <2>4, LoadType
  <2> QED BY <2>3, <2>4
<1>15. CASE Start
  BY <1>15 DEF Start, TypeOK, requests
<1>16. CASE SessionFails
  BY <1>16 DEF SessionFails, TypeOK, requests
<1>17. CASE SessionRuns
  BY <1>17 DEF SessionRuns, TypeOK, requests
<1>18. CASE Reconnect
  BY <1>18 DEF Reconnect, TypeOK, requests
<1>19. CASE UNCHANGED vars
  BY <1>19 DEF vars, TypeOK, session, requests
<1> QED
  BY <1>1, <1>2, <1>3, <1>4, <1>7, <1>8, <1>9, <1>10, <1>11, <1>12, <1>13, <1>14,
     <1>15, <1>16, <1>17, <1>18, <1>19 DEF Next

\* Every variable of the page keeps its type.
THEOREM TypeCorrect == Spec => []TypeOK
  BY TypeInit, TypeStep, PTL DEF Spec

-----------------------------------------------------------------------------
(* The running call *)

\* What leads the page elsewhere while a session starts or runs says so: as
\* long as nothing did, state.room is the room Start was clicked for.
CallInv ==
  /\ started = "asking" /\ ~moved => view = "precall" /\ room = startedIn
  /\ started = "call" /\ ~moved => view = "call" /\ room = startedIn /\ socketIn = startedIn

LEMMA CallInvInit == Init => CallInv
  BY DEF Init, Blank, CallInv

\* A step that stays out of the session, and on the page or saying that it
\* moves, keeps CallInv.
LEMMA CallInvKept ==
  ASSUME CallInv, UNCHANGED session,
         \/ UNCHANGED <<view, room, moved>>
         \/ Moves
         \/ view \in {"home", "friends"} /\ UNCHANGED moved
  PROVE  CallInv'
<1>1. UNCHANGED <<started, socketIn, startedIn>>
  BY DEF session
<1>2. CASE UNCHANGED <<view, room, moved>>
  BY <1>1, <1>2 DEF CallInv
<1>3. CASE Moves
  BY <1>1, <1>3 DEF CallInv, Moves
<1>4. CASE view \in {"home", "friends"} /\ UNCHANGED moved
  BY <1>1, <1>4 DEF CallInv
<1> QED BY <1>2, <1>3, <1>4

LEMMA CallInvStep == CallInv /\ [Next]_vars => CallInv'
<1> SUFFICES ASSUME CallInv, [Next]_vars PROVE CallInv'
  OBVIOUS
<1>1. CASE Navigate
  BY <1>1, CallInvKept DEF Navigate
<1>2. CASE PopState
  BY <1>2, CallInvKept DEF PopState
<1>3. CASE Verdict
  BY <1>3, CallInvKept DEF Verdict
<1>4. CASE Created
  <2>1. UNCHANGED session
    BY <1>4 DEF Created
  <2>2. Moves \/ UNCHANGED <<view, room, moved>>
    BY <1>4 DEF Created, GoToNew
  <2> QED BY <2>1, <2>2, CallInvKept
<1>5. CASE Called
  <2>1. UNCHANGED session
    BY <1>5 DEF Called
  <2>2. Moves \/ UNCHANGED <<view, room, moved>>
    BY <1>5 DEF Called, GoToNew
  <2> QED BY <2>1, <2>2, CallInvKept
<1>6. CASE JoinInput
  BY <1>6, CallInvKept DEF JoinInput
<1>7. CASE CreateCall \/ CallContact \/ MadeElsewhere \/ Expire
  <2>1. UNCHANGED session /\ UNCHANGED <<view, room, moved>>
    BY <1>7 DEF CreateCall, CallContact, MadeElsewhere, Expire
  <2> QED BY <2>1, CallInvKept
<1>8. ASSUME NEW u, NEW hash, LoadPage(u, hash) PROVE CallInv'
  BY <1>8 DEF LoadPage, CallInv
<1>9. CASE Load
  BY <1>8, <1>9 DEF Load
<1>10. CASE NotificationClick
  <2>1. PICK r \in used :
          (Moves /\ UNCHANGED session) \/ LoadPage(r, TRUE)
    BY <1>10 DEF NotificationClick
  <2> QED BY <1>8, <2>1, CallInvKept
<1>11. CASE Start
  BY <1>11 DEF Start, CallInv
<1>12. CASE SessionFails
  BY <1>12 DEF SessionFails, CallInv
<1>13. CASE SessionRuns
  BY <1>13 DEF SessionRuns, CallInv
<1>14. CASE Reconnect
  BY <1>14 DEF Reconnect, CallInv
<1>15. CASE UNCHANGED vars
  BY <1>15 DEF vars, session, CallInv
<1> QED
  BY <1>1, <1>2, <1>3, <1>4, <1>5, <1>6, <1>7, <1>9, <1>10, <1>11, <1>12, <1>13,
     <1>14, <1>15 DEF Next

\* A running call stays on the screen and in its room, reconnects included,
\* for any number of rooms, requests and verdicts still on their way.
THEOREM AlwaysLeftAlone == Spec => []CallIsLeftAlone
<1>1. CallInv => CallIsLeftAlone
  BY DEF CallInv, CallIsLeftAlone
<1> QED BY <1>1, CallInvInit, CallInvStep, PTL DEF Spec

-----------------------------------------------------------------------------
(* The Start button *)

\* Start has been clicked, or can be.
Startable == started = "asking" \/ (started = "no" /\ view = "precall" /\ ~startOff)

StartInv ==
  /\ startOff => refused # {} \/ started # "no"
  /\ Startable => secret \/ typed \/ moved

LEMMA StartInvInit == Init => StartInv
  BY DEF Init, Blank, StartInv, Startable

\* Going to a room with its secret keeps StartInv, whatever the button says.
LEMMA StartInvNew ==
  ASSUME StartInv, NEW r, GoToNew(r), UNCHANGED <<started, startOff, refused, typed>>
  PROVE  StartInv'
  BY DEF StartInv, Startable, GoToNew

LEMMA StartInvRoute ==
  ASSUME StartInv, NEW r, NEW hash, RouteToRoom(r, hash), Moves,
         UNCHANGED <<started, typed>>
  PROVE  StartInv'
<1>1. CASE secret'
  BY <1>1 DEF StartInv, Startable, RouteToRoom
<1>2. CASE ~secret'
  <2>1. startOff' = TRUE /\ refused' = refused \cup {r} /\ view' = "precall"
    BY <1>2 DEF RouteToRoom
  <2>2. refused' # {}
    BY <2>1
  <2> QED BY <2>1, <2>2 DEF StartInv, Startable, Moves
<1> QED BY <1>1, <1>2

LEMMA StartInvLoad ==
  ASSUME NEW u \in Pages, NEW hash, LoadPage(u, hash)
  PROVE  StartInv'
<1>1. CASE u \in RoomIds
  <2>1. CASE secret'
    BY <1>1, <2>1 DEF LoadPage, StartInv, Startable
  <2>2. CASE ~secret'
    BY <1>1, <2>2 DEF LoadPage, StartInv, Startable
  <2> QED BY <2>1, <2>2
<1>2. CASE u \notin RoomIds
  <2>1. u # "precall"
    BY <1>2 DEF Pages
  <2> QED BY <1>2, <2>1 DEF LoadPage, StartInv, Startable
<1> QED BY <1>1, <1>2

LEMMA StartInvStep == TypeOK /\ StartInv /\ [Next]_vars => StartInv'
<1> SUFFICES ASSUME TypeOK, StartInv, [Next]_vars PROVE StartInv'
  OBVIOUS
<1>1. CASE Navigate
  <2>1. url' \in {"home", "friends"} /\ HandleRoute(url', FALSE) /\ UNCHANGED <<started, typed, moved>>
    BY <1>1 DEF Navigate, session
  <2>2. url' \notin RoomIds
    BY <2>1, PagesAssumption
  <2>3. view' # "precall" /\ UNCHANGED <<secret, startOff, refused>>
    BY <2>1, <2>2 DEF HandleRoute
  <2> QED BY <2>1, <2>3 DEF StartInv, Startable
<1>2. CASE PopState
  <2>1. PICK u \in visited : HandleRoute(u, FALSE)
    BY <1>2 DEF PopState
  <2>2. Moves /\ UNCHANGED <<started, typed>>
    BY <1>2 DEF PopState, session
  <2>3. CASE u \in RoomIds
    <3>1. RouteToRoom(u, FALSE)
      BY <2>1, <2>3 DEF HandleRoute
    <3> QED BY <2>2, <3>1, StartInvRoute
  <2>4. CASE u \notin RoomIds
    <3>1. u \in {"home", "friends"}
      BY <2>4 DEF TypeOK, Pages
    <3>2. view' # "precall" /\ UNCHANGED <<secret, startOff, refused>>
      BY <2>1, <2>4, <3>1 DEF HandleRoute
    <3> QED BY <2>2, <3>2 DEF StartInv, Startable, Moves
  <2> QED BY <2>3, <2>4
<1>3. CASE Verdict
  <2>1. UNCHANGED <<started, view, secret, typed, moved>>
    BY <1>3 DEF Verdict, session
  <2>2. \/ UNCHANGED <<startOff, refused>>
        \/ startOff' = TRUE /\ refused' # {}
    BY <1>3 DEF Verdict
  <2> QED BY <2>1, <2>2 DEF StartInv, Startable
<1>4. CASE Created \/ Called
  <2>1. UNCHANGED <<started, startOff, refused, typed>>
    BY <1>4 DEF Created, Called, session
  <2>2. (\E r \in RoomIds : GoToNew(r)) \/ UNCHANGED <<view, secret, moved>>
    BY <1>4 DEF Created, Called
  <2>3. CASE \E r \in RoomIds : GoToNew(r)
    BY <2>1, <2>3, StartInvNew
  <2>4. CASE UNCHANGED <<view, secret, moved>>
    BY <2>1, <2>4 DEF StartInv, Startable
  <2> QED BY <2>2, <2>3, <2>4
<1>5. CASE JoinInput
  <2>1. UNCHANGED <<started, startOff, refused>> /\ Moves
    BY <1>5 DEF JoinInput, session
  <2>2. secret' \/ typed'
    <3>1. PICK given \in BOOLEAN : secret' = given /\ typed' = (typed \/ ~given)
      BY <1>5, Zenon DEF JoinInput
    <3>2. CASE given
      BY <3>1, <3>2
    <3>3. CASE ~given
      BY <3>1, <3>3
    <3> QED BY <3>2, <3>3
  <2>3. Startable' => secret' \/ typed' \/ moved'
    BY <2>2
  <2>4. startOff' => refused' # {} \/ started' # "no"
    BY <2>1 DEF StartInv
  <2> QED BY <2>3, <2>4 DEF StartInv
<1>6. CASE CreateCall \/ CallContact \/ MadeElsewhere \/ Expire \/ Reconnect
  <2>1. UNCHANGED <<started, view, startOff, secret, refused, typed, moved>>
    BY <1>6 DEF CreateCall, CallContact, MadeElsewhere, Expire, Reconnect, session
  <2> QED BY <2>1 DEF StartInv, Startable
<1>7. CASE Load
  <2>1. PICK u \in {"home", "friends"} \cup used, hash \in BOOLEAN : LoadPage(u, hash)
    BY <1>7 DEF Load
  <2>2. u \in Pages
    BY <2>1 DEF TypeOK, Pages
  <2> QED BY <2>1, <2>2, StartInvLoad
<1>8. CASE NotificationClick
  <2>1. PICK r \in used :
          (RouteToRoom(r, TRUE) /\ Moves /\ UNCHANGED <<started, typed>>) \/ LoadPage(r, TRUE)
    BY <1>8 DEF NotificationClick, session
  <2>2. r \in Pages
    BY DEF TypeOK, Pages
  <2> QED BY <2>1, <2>2, StartInvRoute, StartInvLoad
<1>9. CASE Start
  BY <1>9 DEF Start, StartInv, Startable
<1>10. CASE SessionFails
  BY <1>10 DEF SessionFails, StartInv, Startable
<1>11. CASE SessionRuns
  BY <1>11 DEF SessionRuns, StartInv, Startable
<1>12. CASE UNCHANGED vars
  BY <1>12 DEF vars, session, StartInv, Startable
<1> QED
  BY <1>1, <1>2, <1>3, <1>4, <1>5, <1>6, <1>7, <1>8, <1>9, <1>10, <1>11, <1>12 DEF Next

\* The Start button is on or off for a reason, whatever the user, the server
\* and notifications did before.
THEOREM AlwaysStartMatches == Spec => []StartMatchesInvite
<1>1. StartInv => StartMatchesInvite
  BY DEF StartInv, Startable, StartMatchesInvite
<1> QED BY <1>1, TypeInit, TypeStep, StartInvInit, StartInvStep, PTL DEF Spec
=============================================================================
