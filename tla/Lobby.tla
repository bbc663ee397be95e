------------------------------- MODULE Lobby --------------------------------
(***************************************************************************)
(* One window of the page around its call: the four views, the address and *)
(* the history, invitations and their secrets, rooms made and called while *)
(* the user goes on clicking, and the notification that leads to a room.   *)
(* state.room is one variable for all of it, and the signaling socket      *)
(* takes the room it connects to from there, each time it connects.        *)
(*                                                                         *)
(* Rooms are gone when Rooms says so; here any room may go at any time.    *)
(* What the call does once it runs is the subject of Call, what its media  *)
(* do that of Tracks, and what callContact asks of the server that of      *)
(* CallCards.                                                              *)
(***************************************************************************)
EXTENDS Naturals, FiniteSets

CONSTANTS RoomIds, NoRoom

ASSUMPTION NoRoomAssumption == NoRoom \notin RoomIds
\* A room's id is long and random: its address is no other view's.
ASSUMPTION PagesAssumption == {"home", "friends"} \cap RoomIds = {}

VARIABLES
  open,      \* rooms the server holds
  used,      \* rooms ever made
  url,       \* location: "home", "friends" or a room; the secret is hidden from it
  visited,   \* addresses the history can go back or forward to
  view,      \* what show shows: "home", "friends", "precall" or "call"
  room,      \* state.room
  secret,    \* state.secret is not empty
  stored,    \* rooms whose secrets are in sessionStorage
  startOff,  \* startButton.disabled
  createOff, \* createButton.disabled and quickStartBtn.disabled
  checks,    \* rooms handleRoute has asked the server for
  creates,   \* createCalls that await their room
  calling,   \* callContact awaits its room or its push
  started,   \* state.started: "no", "asking" (startSession awaits) or "call"
  socketIn,  \* the room of the last socket, NoRoom before there was one
  \* What happened to this page, for the properties:
  startedIn, \* the room on the page when Start was clicked
  refused,   \* rooms found missing, or without a secret
  typed,     \* a room was typed in without its secret
  moved      \* the history, a notification or a late answer led elsewhere after Start

session == <<started, socketIn, startedIn>>
requests == <<createOff, checks, creates, calling>>
vars == <<open, used, url, visited, view, room, secret, stored, startOff,
          requests, session, refused, typed, moved>>

Pages == {"home", "friends"} \cup RoomIds

Blank ==
  /\ startOff = FALSE /\ createOff = FALSE
  /\ checks = {} /\ creates = 0 /\ calling = FALSE
  /\ started = "no" /\ socketIn = NoRoom /\ startedIn = NoRoom
  /\ refused = {} /\ typed = FALSE /\ moved = FALSE
  /\ room = NoRoom /\ secret = FALSE

Init ==
  /\ Blank
  /\ open = {} /\ used = {}
  /\ url = "home" /\ visited = {"home"} /\ view = "home"
  /\ stored = {}

-----------------------------------------------------------------------------
(* Routing *)

\* The page goes somewhere while a session runs or starts.
Moves == moved' = (moved \/ started # "no")

\* MUTANT: a room without its secret is checked like any other.
RouteToRoomAnyway(r, hash) ==
  /\ view' = "precall"
  /\ room' = r
  /\ stored' = IF hash THEN stored \cup {r} ELSE stored
  /\ secret' = (hash \/ r \in stored)
  /\ checks' = checks \cup {r}
  /\ UNCHANGED <<startOff, refused>>

\* handleRoute with a room: hash says whether the address still has the secret.
RouteToRoom(r, hash) ==
  /\ view' = "precall"
  /\ room' = r
  /\ stored' = IF hash THEN stored \cup {r} ELSE stored
  /\ secret' = (hash \/ r \in stored)
  /\ IF secret'
     THEN checks' = checks \cup {r} /\ UNCHANGED <<startOff, refused>>
     ELSE startOff' = TRUE /\ refused' = refused \cup {r} /\ UNCHANGED checks

HandleRoute(u, hash) ==
  IF u \in RoomIds THEN RouteToRoom(u, hash)
  ELSE view' = u /\ UNCHANGED <<room, secret, stored, checks, startOff, refused>>

\* The buttons to the contacts and back.
Navigate ==
  /\ \/ view = "home" /\ url' = "friends"
     \/ view = "friends" /\ url' = "home"
  /\ visited' = visited \cup {url'}
  /\ HandleRoute(url', FALSE)
  /\ UNCHANGED <<open, used, createOff, creates, calling, session, typed, moved>>

\* Back and forward: popstate.
PopState ==
  /\ \E u \in visited \ {url} :
       /\ url' = u
       /\ HandleRoute(u, FALSE)
  /\ Moves
  /\ UNCHANGED <<open, used, visited, createOff, creates, calling, session, typed>>

\* MUTANT: the page goes to the room when the server's verdict is there.
VerdictLeads ==
  \E r \in checks :
    /\ checks' = checks \ {r}
    /\ \/ r \in open /\ room' = r /\ UNCHANGED <<startOff, refused>>
       \/ startOff' = TRUE /\ refused' = refused \cup {r} /\ UNCHANGED room
    /\ UNCHANGED <<open, used, url, visited, view, secret, stored, createOff,
                   creates, calling, session, typed, moved>>

\* The server's verdict on a room; a request that fails is one against it.
Verdict ==
  \E r \in checks :
    /\ checks' = checks \ {r}
    /\ \/ r \in open /\ UNCHANGED <<startOff, refused>>
       \/ startOff' = TRUE /\ refused' = refused \cup {r}
    /\ UNCHANGED <<open, used, url, visited, view, room, secret, stored, createOff,
                   creates, calling, session, typed, moved>>

-----------------------------------------------------------------------------
(* Ways to a room *)

GoTo(r) ==
  /\ url' = r
  /\ visited' = visited \cup {r}
  /\ view' = "precall"
  /\ room' = r

\* createCall: the buttons of the pre-call view stay enabled.
CreateCall ==
  /\ view = "precall" \/ (view = "home" /\ ~createOff)
  /\ creates + Cardinality(used) < Cardinality(RoomIds)
  /\ creates' = creates + 1
  /\ createOff' = TRUE
  /\ UNCHANGED <<open, used, url, visited, view, room, secret, stored, startOff,
                 checks, calling, session, refused, typed, moved>>

Made(r) ==
  /\ r \notin used
  /\ used' = used \cup {r}
  /\ open' = open \cup {r}

\* A room was made here: the page has its secret and goes to it.
GoToNew(r) ==
  /\ GoTo(r)
  /\ secret' = TRUE
  /\ stored' = stored \cup {r}
  /\ Moves

Created ==
  /\ creates > 0
  /\ creates' = creates - 1
  /\ createOff' = FALSE
  /\ \/ \E r \in RoomIds : Made(r) /\ GoToNew(r)
     \/ UNCHANGED <<open, used, url, visited, view, room, secret, stored, moved>>
  /\ UNCHANGED <<startOff, checks, calling, session, refused, typed>>

\* callContact: the call button of the contact is disabled meanwhile.
CallContact ==
  /\ view = "friends"
  /\ ~calling
  /\ calling' = TRUE
  /\ UNCHANGED <<open, used, url, visited, view, room, secret, stored, startOff,
                 createOff, checks, creates, session, refused, typed, moved>>

\* The room is made, its secret kept and the push sent; any of these may fail.
Called ==
  /\ calling
  /\ calling' = FALSE
  /\ \/ \E r \in RoomIds : Made(r) /\ GoToNew(r)
     \/ /\ \E r \in RoomIds : Made(r) /\ stored' = stored \cup {r}
        /\ UNCHANGED <<url, visited, view, room, secret, moved>>
     \/ UNCHANGED <<open, used, url, visited, view, room, secret, stored, moved>>
  /\ UNCHANGED <<startOff, createOff, checks, creates, session, refused, typed>>

\* handleJoinInput: a link or an id, with the secret or without; the server is
\* not asked.
JoinInput ==
  /\ view = "home"
  /\ \E r \in used, given \in BOOLEAN :
       /\ GoTo(r)
       /\ secret' = given
       /\ stored' = IF given THEN stored \cup {r} ELSE stored
       /\ typed' = (typed \/ ~given)
  /\ Moves
  /\ UNCHANGED <<open, used, startOff, requests, session, refused>>

\* Someone else makes a room, the link of which may reach this user.
MadeElsewhere ==
  /\ \E r \in RoomIds : Made(r)
  /\ UNCHANGED <<url, visited, view, room, secret, stored, startOff, requests,
                 session, refused, typed, moved>>

Expire ==
  /\ \E r \in open : open' = open \ {r}
  /\ UNCHANGED <<used, url, visited, view, room, secret, stored, startOff, requests,
                 session, refused, typed, moved>>

\* A page is loaded: a link, the brand logo, or hangup, which ends the page.
LoadPage(u, hash) ==
  /\ url' = u
  /\ visited' = visited \cup {u}
  /\ stored' = IF hash THEN stored \cup {u} ELSE stored
  /\ createOff' = FALSE /\ creates' = 0 /\ calling' = FALSE
  /\ started' = "no" /\ socketIn' = NoRoom /\ startedIn' = NoRoom
  /\ typed' = FALSE /\ moved' = FALSE
  /\ IF u \in RoomIds
     THEN /\ view' = "precall"
          /\ room' = u
          /\ secret' = (hash \/ u \in stored)
          /\ IF secret' THEN checks' = {u} /\ startOff' = FALSE /\ refused' = {}
                        ELSE checks' = {} /\ startOff' = TRUE /\ refused' = {u}
     ELSE /\ view' = u
          /\ room' = NoRoom /\ secret' = FALSE
          /\ checks' = {} /\ startOff' = FALSE /\ refused' = {}
  /\ UNCHANGED <<open, used>>

Load == \E u \in {"home", "friends"} \cup used : \E hash \in BOOLEAN : 
          (hash => u \in used) /\ LoadPage(u, hash)

\* notificationclick: the page hides the secret from the address, so no window
\* is ever found at the target.  The window last in focus is navigated to it: a
\* new page, or, at the address of that room, the same one with popstate.
NotificationClick ==
  \E r \in used :
    IF url = r
    THEN /\ RouteToRoom(r, TRUE)
         /\ Moves
         /\ UNCHANGED <<open, used, url, visited, createOff, creates, calling, session, typed>>
    ELSE LoadPage(r, TRUE)

-----------------------------------------------------------------------------
(* The session *)

\* startSession
Start ==
  /\ view = "precall"
  /\ ~startOff
  /\ started = "no"
  /\ started' = "asking"
  /\ startOff' = TRUE
  /\ startedIn' = room
  /\ UNCHANGED <<open, used, url, visited, view, room, secret, stored, requests,
                 socketIn, refused, typed, moved>>

\* No config or no media: the button is given back.
SessionFails ==
  /\ started = "asking"
  /\ started' = "no"
  /\ startOff' = FALSE
  /\ view' = "precall"
  /\ UNCHANGED <<open, used, url, visited, room, secret, stored, requests,
                 socketIn, startedIn, refused, typed, moved>>

SessionRuns ==
  /\ started = "asking"
  /\ started' = "call"
  /\ view' = "call"
  /\ socketIn' = room
  /\ UNCHANGED <<open, used, url, visited, room, secret, stored, startOff, requests,
                 startedIn, refused, typed, moved>>

\* connectWebSocket, when the socket was lost.
Reconnect ==
  /\ started = "call"
  /\ socketIn' = room
  /\ UNCHANGED <<open, used, url, visited, view, room, secret, stored, startOff, requests,
                 started, startedIn, refused, typed, moved>>

Next ==
  \/ Navigate \/ PopState \/ Verdict
  \/ CreateCall \/ Created \/ CallContact \/ Called \/ JoinInput
  \/ MadeElsewhere \/ Expire \/ Load \/ NotificationClick
  \/ Start \/ SessionFails \/ SessionRuns \/ Reconnect

Spec == Init /\ [][Next]_vars

-----------------------------------------------------------------------------
(* Properties *)

TypeOK ==
  /\ open \subseteq used /\ used \subseteq RoomIds
  /\ url \in Pages /\ visited \subseteq Pages
  /\ view \in {"home", "friends", "precall", "call"}
  /\ room \in RoomIds \cup {NoRoom} /\ secret \in BOOLEAN /\ stored \subseteq RoomIds
  /\ startOff \in BOOLEAN /\ createOff \in BOOLEAN
  /\ checks \subseteq RoomIds /\ creates \in Nat /\ calling \in BOOLEAN
  /\ started \in {"no", "asking", "call"}
  /\ socketIn \in RoomIds \cup {NoRoom} /\ startedIn \in RoomIds \cup {NoRoom}
  /\ refused \subseteq RoomIds /\ typed \in BOOLEAN /\ moved \in BOOLEAN

\* A running call is on the screen, and its socket, the one of every reconnect
\* included, is in the room that was on the screen when Start was clicked; no
\* verdict on an earlier invitation that comes late changes that.  Unless the
\* history, a notification, or a room made or called before Start that answers
\* after it led the page elsewhere (handleRoute, createCall, callContact).
CallIsLeftAlone ==
  started = "call" /\ ~moved => view = "call" /\ socketIn = startedIn

\* Start can be clicked only for a room whose secret the page has, and is not
\* refused without a reason: before a session the button is off only if some
\* room of this page was refused, and on only with the secret, unless the room
\* was typed in without one or the page was led elsewhere as a session failed
\* (handleRoute, handleJoinInput, startSession).
StartMatchesInvite ==
  view = "precall" /\ started = "no" =>
    /\ startOff => refused # {}
    /\ ~startOff => secret \/ typed \/ moved
=============================================================================
