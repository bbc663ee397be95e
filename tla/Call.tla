-------------------------------- MODULE Call --------------------------------
(***************************************************************************)
(* A call between two browsers: the signaling and media recovery of the    *)
(* page in web/ui.go, on both sides, with the signaling server between     *)
(* them.                                                                   *)
(*                                                                         *)
(* A handler of the page runs to its next await in one step; the awaits of *)
(* makeOffer and of the offer handler are points where anything else may   *)
(* happen.  Timers are armed or not: how long they run is left open.  What *)
(* only changes texts and sounds is left out, with it the timer that waits *)
(* for the peer's return and the count of attempts behind the backoff.     *)
(*                                                                         *)
(* The server is module Signaling reduced to one step for each Join, for   *)
(* the announcements after it, for each relayed frame and for each Leave.  *)
(* The RTCPeerConnection of each browser is external.  What it puts into   *)
(* an offer or an answer is reduced to the number of its ICE credentials:  *)
(* a new connection has new ones, an offer made with iceRestart too, and   *)
(* so has the answer to credentials not seen before.  Two browsers have a  *)
(* path when each knows the credentials the other uses; the network may    *)
(* break it, and a path that has failed comes back with new credentials    *)
(* only.                                                                   *)
(*                                                                         *)
(* Candidates are left out, and hangup frames: no page sends one.          *)
(*                                                                         *)
(* Of the frames a page has sent when its socket is lost, the server may   *)
(* have received any number, the first ones; its handler goes through them *)
(* before it finds the socket closed.  Bound of the model: what it has not *)
(* handled when the page's next socket opens is lost.                      *)
(***************************************************************************)
EXTENDS Integers, Sequences, FiniteSets

CONSTANTS
  Browsers,    \* the two browsers of a call
  Quitters,    \* those whose users may hang up
  Reloaders,   \* those whose users may reload the page
  MaxFaults,   \* bound of the model: lost sockets, reloads and broken paths
  ReloadCost,  \* bound of the model: how many of these a reload counts for
  MaxOffers,   \* bound of the model: offers
  Expires      \* the room may be collected once it is empty

ASSUME CallAssumption ==
  /\ IsFiniteSet(Browsers) /\ Cardinality(Browsers) = 2
  /\ Quitters \subseteq Browsers /\ Reloaders \subseteq Browsers
  /\ MaxFaults \in Nat /\ ReloadCost \in Nat \ {0} /\ MaxOffers \in Nat
  /\ Expires \in BOOLEAN

VARIABLES
  page,      \* page[b]: "green" room, "call", or "left"
  role,      \* page: state.role
  terminal,  \* page: state.terminal
  token,     \* page: a session token is in sessionStorage
  ws,        \* page: readyState of state.ws
  retry,     \* page: reconnectTimer is armed
  grace,     \* page: disconnectTimer is armed
  making,    \* page: makeOffer awaits (makingOffer), or how its last call failed
  answering, \* page: the offer the offer handler is applying, or NoOffer
  ice,       \* external: credentials of state.pc, 0 when there is none
  sig,       \* external: its signalingState
  mine,      \* external: number of the last offer it made, 0 before any
  far,       \* external: the peer's credentials it has been told, 0 before
  media,     \* external: its connectionState
  broken,    \* external: the network has broken the path
  up, down,  \* frames on the way from and to each browser
  seat,      \* server: "none", "live", or "stale" when its socket is gone
  member,    \* server: role given to the client id, "none" before
  welcome,   \* server: participants Join returned and nobody was told yet
  closed,    \* server: the room was collected
  ids, offers, faults   \* how many of each there have been

pageVars == <<page, role, terminal, token, ws, retry, grace, making, answering>>
rtcVars == <<ice, sig, mine, far, media, broken>>
serverVars == <<seat, member, welcome, closed>>
counters == <<ids, offers, faults>>
vars == <<page, role, terminal, token, ws, retry, grace, making, answering,
          ice, sig, mine, far, media, broken, up, down, seat, member, welcome, closed,
          ids, offers, faults>>

Other(b) == CHOOSE x \in Browsers : x # b

NoOffer == [ice |-> 0, n |-> 0]

Set(f, b, v) == [f EXCEPT ![b] = v]

Init ==
  /\ page = [b \in Browsers |-> "green"]
  /\ role = [b \in Browsers |-> "none"]
  /\ terminal = [b \in Browsers |-> FALSE]
  /\ token = [b \in Browsers |-> FALSE]
  /\ ws = [b \in Browsers |-> "none"]
  /\ retry = [b \in Browsers |-> FALSE]
  /\ grace = [b \in Browsers |-> FALSE]
  /\ making = [b \in Browsers |-> "no"]
  /\ answering = [b \in Browsers |-> NoOffer]
  /\ ice = [b \in Browsers |-> 0]
  /\ sig = [b \in Browsers |-> "stable"]
  /\ mine = [b \in Browsers |-> 0]
  /\ far = [b \in Browsers |-> 0]
  /\ media = [b \in Browsers |-> "new"]
  /\ broken = FALSE
  /\ up = [b \in Browsers |-> <<>>]
  /\ down = [b \in Browsers |-> <<>>]
  /\ seat = [b \in Browsers |-> "none"]
  /\ member = [b \in Browsers |-> "none"]
  /\ welcome = [b \in Browsers |-> 0]
  /\ closed = FALSE
  /\ ids = 0 /\ offers = 0 /\ faults = 0

-----------------------------------------------------------------------------
(* The page: starting, sockets and timers *)

\* startSession, once the media devices are granted: a new peer connection and
\* the first socket.
Start(b) ==
  /\ page[b] = "green"
  /\ page' = Set(page, b, "call")
  /\ terminal' = Set(terminal, b, FALSE)
  /\ ids' = ids + 1
  /\ ice' = Set(ice, b, ids + 1)
  /\ ws' = Set(ws, b, "connecting")
  /\ UNCHANGED <<role, token, retry, grace, making, answering>>
  /\ UNCHANGED <<sig, mine, far, media, broken, up, down, serverVars, offers, faults>>

\* onopen: the join goes out with the token in sessionStorage.
Open(b) ==
  /\ ws[b] = "connecting"
  /\ ws' = Set(ws, b, "open")
  /\ up' = Set(up, b, <<[type |-> "join", token |-> token[b]]>>)
  /\ UNCHANGED <<page, role, terminal, token, retry, grace, making, answering>>
  /\ UNCHANGED <<rtcVars, down, serverVars, counters>>

\* MUTANT: the retry gives way to a media restart that is under way.
RetryUnlessRestarting(b) ==
  IF page[b] # "call" \/ terminal[b] \/ grace[b] THEN retry ELSE Set(retry, b, TRUE)

\* scheduleSignalingReconnect: one timer, none after a terminal answer.
Reconnecting(b) ==
  IF page[b] # "call" \/ terminal[b] THEN retry ELSE Set(retry, b, TRUE)

\* The socket of b is gone: what was under way to the page is lost, and what the
\* server has not received yet; its handler will find out.
Disconnect(b) ==
  /\ \E n \in 0..Len(up[b]) : up' = Set(up, b, SubSeq(up[b], 1, n))
  /\ down' = Set(down, b, <<>>)
  /\ seat' = Set(seat, b, IF seat[b] = "live" THEN "stale" ELSE seat[b])

\* The network takes the socket: onclose.
Cut(b) ==
  /\ faults < MaxFaults
  /\ ws[b] \in {"connecting", "open"}
  /\ faults' = faults + 1
  /\ ws' = Set(ws, b, "closed")
  /\ retry' = Reconnecting(b)
  /\ Disconnect(b)
  /\ UNCHANGED <<page, role, terminal, token, grace, making, answering>>
  /\ UNCHANGED <<rtcVars, member, welcome, closed, ids, offers>>

\* The reconnect timer: connectWebSocket.
RetryFires(b) ==
  /\ retry[b]
  /\ retry' = Set(retry, b, FALSE)
  /\ ws' = Set(ws, b, "connecting")
  /\ UNCHANGED <<page, role, terminal, token, grace, making, answering>>
  /\ UNCHANGED <<rtcVars, up, down, serverVars, counters>>

\* state.pc goes with the page, or is closed by closeLocalResources.
CloseConnection(b) ==
  /\ ice' = Set(ice, b, 0)
  /\ mine' = Set(mine, b, 0)
  /\ far' = Set(far, b, 0)
  /\ sig' = Set(sig, b, "stable")
  /\ media' = Set(media, b, "new")

\* The page is reloaded or closed: what is not in sessionStorage is gone.
Unload(b, next) ==
  /\ page[b] = "call"
  /\ page' = Set(page, b, next)
  /\ role' = Set(role, b, "none")
  /\ ws' = Set(ws, b, "none")
  /\ retry' = Set(retry, b, FALSE)
  /\ grace' = Set(grace, b, FALSE)
  /\ making' = Set(making, b, "no")
  /\ answering' = Set(answering, b, NoOffer)
  /\ CloseConnection(b)
  /\ Disconnect(b)
  /\ UNCHANGED <<terminal, token, broken, member, welcome, closed, ids, offers>>

Reload(b) ==
  /\ b \in Reloaders
  /\ faults + ReloadCost <= MaxFaults
  /\ faults' = faults + ReloadCost
  /\ Unload(b, "green")

\* hangup: the leave frame closeLocalResources sends is refused by the server
\* as an unsupported type, and the socket is closed.
Quit(b) ==
  /\ b \in Quitters
  /\ faults' = faults
  /\ Unload(b, "left")

-----------------------------------------------------------------------------
(* The page: offers and media *)

Making(b) == making[b] \in {"plain", "restart"}

\* The early returns of makeOffer.
CanOffer(b) == ~Making(b) /\ ws[b] = "open" /\ sig[b] = "stable"

\* makeOffer, up to its first await; how is "plain", or "restart" with
\* iceRestart.
MakeOffer(b, how) ==
  making' = IF CanOffer(b) THEN Set(making, b, how) ELSE making

\* MUTANT: any role offers.
OfferIfAnyone(b, r, how) == MakeOffer(b, how)

\* Only the caller offers.
OfferIfCaller(b, r, how) ==
  IF r = "caller" THEN MakeOffer(b, how) ELSE UNCHANGED making

\* sendMessage: nothing is sent when the socket is not open.
Send(b, m) == up' = IF ws[b] = "open" THEN Set(up, b, Append(up[b], m)) ELSE up

\* Credentials of b for the next description it makes.
Credentials(b, new) ==
  /\ ids' = IF new THEN ids + 1 ELSE ids
  /\ ice' = IF new THEN Set(ice, b, ids + 1) ELSE ice

\* A remote description with these credentials: new ones start the checks
\* of connectivity again.
Learn(b, credentials) ==
  /\ far' = Set(far, b, credentials)
  /\ media' = IF credentials # far[b] /\ media[b] # "connected"
              THEN Set(media, b, "new") ELSE media

\* makeOffer, after its awaits: the local description is set.
OfferDone(b) ==
  /\ Making(b)
  /\ offers < MaxOffers
  /\ making' = Set(making, b, "no")
  /\ offers' = offers + 1
  /\ sig' = Set(sig, b, "have-local-offer")
  /\ mine' = Set(mine, b, offers + 1)
  /\ Credentials(b, making[b] = "restart")
  /\ Send(b, [type |-> "offer", ice |-> ice'[b], n |-> offers + 1])
  /\ UNCHANGED <<page, role, terminal, token, ws, retry, grace, answering>>
  /\ UNCHANGED <<far, media, broken, down, serverVars, faults>>

\* createOffer or setLocalDescription fails: makeOffer catches that and gives the
\* offer up.  The model remembers which kind it was, the code does not.  At the
\* bound neither way is open: a page that is made to fail would seem to settle.
OfferFails(b) ==
  /\ Making(b)
  /\ offers < MaxOffers
  /\ making' = Set(making, b,
                  IF making[b] = "plain" THEN "plain failed" ELSE "restart failed")
  /\ UNCHANGED <<page, role, terminal, token, ws, retry, grace, answering>>
  /\ UNCHANGED <<rtcVars, up, down, serverVars, counters>>

\* The offer handler, after its awaits: both descriptions are set.
AnswerDone(b) ==
  LET offer == answering[b]
  IN /\ offer # NoOffer
     /\ answering' = Set(answering, b, NoOffer)
     /\ sig' = Set(sig, b, "stable")
     /\ Credentials(b, far[b] \notin {0, offer.ice})
     /\ Learn(b, offer.ice)
     /\ Send(b, [type |-> "answer", ice |-> ice'[b], n |-> offer.n])
     /\ UNCHANGED <<page, role, terminal, token, ws, retry, grace, making>>
     /\ UNCHANGED <<mine, broken, down, serverVars, offers, faults>>

\* The offer handler catches a failure: of setRemoteDescription, or of what comes
\* after it, which leaves the offer pending.  Nothing is sent.
AnswerFails(b) ==
  /\ answering[b] # NoOffer
  /\ answering' = Set(answering, b, NoOffer)
  /\ \/ sig' = sig
     \/ sig' = Set(sig, b, "have-remote-offer")
  /\ UNCHANGED <<page, role, terminal, token, ws, retry, grace, making>>
  /\ UNCHANGED <<ice, mine, far, media, broken, up, down, serverVars, counters>>

\* The two browsers use the credentials they told each other.
Agreed == \A b \in Browsers : ice[b] # 0 /\ far[b] = ice[Other(b)]

Path == Agreed /\ ~broken

\* connectionState becomes connected, late answers to checks included:
\* onMediaStateChange drops the timer.
MediaUp(b) ==
  /\ Path
  /\ media[b] # "connected"
  /\ media' = Set(media, b, "connected")
  /\ grace' = Set(grace, b, FALSE)
  /\ UNCHANGED <<page, role, terminal, token, ws, retry, making, answering>>
  /\ UNCHANGED <<ice, sig, mine, far, broken, up, down, serverVars, counters>>

\* The network breaks the path.
Break ==
  /\ faults < MaxFaults
  /\ Path
  /\ faults' = faults + 1
  /\ broken' = TRUE
  /\ UNCHANGED <<pageVars, ice, sig, mine, far, media, up, down, serverVars>>
  /\ UNCHANGED <<ids, offers>>

\* A broken path that was not given up heals itself.
Heal ==
  /\ broken
  /\ \A b \in Browsers : media[b] # "failed"
  /\ broken' = FALSE
  /\ UNCHANGED <<pageVars, ice, sig, mine, far, media, up, down, serverVars, counters>>

\* connectionState reports a lost path, first as disconnected or at once as
\* failed, and a path never found as failed: onMediaStateChange arms the
\* timer, for failed with no delay.
MediaDown(b, state) ==
  /\ far[b] # 0
  /\ ~Path
  /\ \/ media[b] = "connected" /\ state \in {"disconnected", "failed"}
     \/ media[b] \in {"new", "disconnected"} /\ state = "failed"
  /\ media' = Set(media, b, state)
  /\ grace' = Set(grace, b, TRUE)
  /\ UNCHANGED <<page, role, terminal, token, ws, retry, making, answering>>
  /\ UNCHANGED <<ice, sig, mine, far, broken, up, down, serverVars, counters>>

\* MUTANT: the restart is an offer like any other.
GraceFiresPlain(b) ==
  /\ grace[b]
  /\ grace' = Set(grace, b, FALSE)
  /\ IF media[b] # "connected" /\ ~terminal[b]
     THEN OfferIfCaller(b, role[b], "plain") ELSE UNCHANGED making
  /\ UNCHANGED <<page, role, terminal, token, ws, retry, answering>>
  /\ UNCHANGED <<rtcVars, up, down, serverVars, counters>>

\* The disconnect timer: attemptIceRestart.
GraceFires(b) ==
  /\ grace[b]
  /\ grace' = Set(grace, b, FALSE)
  /\ IF media[b] # "connected" /\ ~terminal[b]
     THEN OfferIfCaller(b, role[b], "restart") ELSE UNCHANGED making
  /\ UNCHANGED <<page, role, terminal, token, ws, retry, answering>>
  /\ UNCHANGED <<rtcVars, up, down, serverVars, counters>>

-----------------------------------------------------------------------------
(* The page: frames from the server *)

Receive(b, type) ==
  /\ ws[b] = "open"
  /\ down[b] # <<>>
  /\ Head(down[b]).type = type
  /\ down' = Set(down, b, Tail(down[b]))
  /\ UNCHANGED <<page, mine, up, serverVars, counters>>

\* joined: with a peer present and no media, the caller offers.
ReceiveJoined(b) ==
  LET m == Head(down[b])
  IN /\ Receive(b, "joined")
     /\ role' = Set(role, b, m.role)
     /\ token' = Set(token, b, TRUE)
     /\ IF m.participants = 2 /\ media[b] # "connected"
        THEN OfferIfCaller(b, m.role, "plain") ELSE UNCHANGED making
     /\ UNCHANGED <<terminal, ws, retry, grace, answering, ice, sig, far, media, broken>>

\* peer-ready: always renegotiate.
ReceivePeerReady(b) ==
  /\ Receive(b, "peer-ready")
  /\ OfferIfCaller(b, role[b], "plain")
  /\ UNCHANGED <<role, terminal, token, ws, retry, grace, answering>>
  /\ UNCHANGED <<ice, sig, far, media, broken>>

\* An offer.  Bound of the model: one is applied at a time, as the browser's
\* own chain of operations has it.
ReceiveOffer(b) ==
  /\ Receive(b, "offer")
  /\ answering[b] = NoOffer
  /\ answering' = Set(answering, b, [ice |-> Head(down[b]).ice, n |-> Head(down[b]).n])
  /\ UNCHANGED <<role, terminal, token, ws, retry, grace, making>>
  /\ UNCHANGED <<ice, sig, far, media, broken>>

\* An answer: ignored unless an offer of ours is pending, and without effect when
\* setRemoteDescription fails.
ReceiveAnswer(b) ==
  /\ Receive(b, "answer")
  /\ IF sig[b] = "have-local-offer"
     THEN /\ sig' = Set(sig, b, "stable")
          /\ Learn(b, Head(down[b]).ice)
          /\ broken' = (broken /\ far'[b] = far[b])
     ELSE UNCHANGED <<sig, far, media, broken>>
  /\ UNCHANGED <<role, terminal, token, ws, retry, grace, making, answering, ice>>

AnswerNotApplied(b) ==
  /\ Receive(b, "answer")
  /\ sig[b] = "have-local-offer"
  /\ UNCHANGED <<role, terminal, token, ws, retry, grace, making, answering>>
  /\ UNCHANGED <<ice, sig, far, media, broken>>

\* peer-left and errors that may be retried change only what is shown.
ReceiveNotice(b) ==
  /\ Receive(b, "peer-left") \/ Receive(b, "error")
  /\ UNCHANGED <<role, terminal, token, ws, retry, grace, making, answering>>
  /\ UNCHANGED <<ice, sig, far, media, broken>>

\* A terminal error, and the onclose that follows it.
ReceiveRefusal(b) ==
  /\ Receive(b, "refused")
  /\ terminal' = Set(terminal, b, TRUE)
  /\ ws' = Set(ws, b, "closed")
  /\ retry' = Set(retry, b, FALSE)
  /\ grace' = Set(grace, b, FALSE)
  /\ UNCHANGED <<role, token, making, answering, ice, sig, far, media, broken>>

-----------------------------------------------------------------------------
(* The server *)

\* Enqueue: what is sent to a socket that is gone is lost.
Deliver(d, b, m) == IF seat'[b] = "live" THEN Set(d, b, Append(d[b], m)) ELSE d

Present(b) == seat[b] # "none"

ServerReads(b, types) ==
  /\ up[b] # <<>>
  /\ Head(up[b]).type \in types
  /\ up' = Set(up, b, Tail(up[b]))
  /\ UNCHANGED <<pageVars, rtcVars, counters>>

\* Manager.Join, refused: the room is gone or the token is missing.
Refuse(b) ==
  /\ ServerReads(b, {"join"})
  /\ closed \/ (member[b] # "none" /\ ~Head(up[b]).token)
  /\ down' = IF ws[b] = "open" THEN Set(down, b, <<[type |-> "refused"]>>) ELSE down
  /\ UNCHANGED serverVars

\* The handler of a socket whose join was refused has ended.
Refused(b) ==
  terminal[b] \/ \E i \in 1..Len(down[b]) : down[b][i].type = "refused"

\* Manager.Join, admitted; a connection that is still there is replaced.
\* Bound of the model: the handler of the previous one has announced it.
Join(b) ==
  /\ ServerReads(b, {"join"})
  /\ ~closed
  /\ member[b] = "none" \/ Head(up[b]).token
  /\ welcome[b] = 0
  /\ seat' = Set(seat, b, IF ws[b] = "open" THEN "live" ELSE "stale")
  /\ member' = IF member[b] # "none" THEN member
               ELSE Set(member, b, IF member[Other(b)] = "none" THEN "caller" ELSE "callee")
  /\ welcome' = Set(welcome, b, IF Present(Other(b)) THEN 2 ELSE 1)
  /\ UNCHANGED <<down, closed>>

\* The handler answers the join; the second participant announces the pair.
Welcome(b) ==
  LET joined == [type |-> "joined", role |-> member[b], participants |-> welcome[b]]
      told == Deliver(down, b, joined)
      ready == [type |-> "peer-ready"]
  IN /\ welcome[b] # 0
     /\ welcome' = Set(welcome, b, 0)
     /\ seat' = seat
     /\ down' = IF welcome[b] = 2
                THEN Deliver(Deliver(told, b, ready), Other(b), ready) ELSE told
     /\ UNCHANGED <<pageVars, rtcVars, up, member, closed, counters>>

\* An offer or an answer is relayed, or answered with peer_unavailable; on a
\* socket that is not the current one of its page nobody reads it.
Relay(b) ==
  LET m == Head(up[b])
  IN /\ ServerReads(b, {"offer", "answer"})
     /\ welcome[b] = 0
     /\ seat' = seat
     /\ down' = IF ~Present(b) \/ Refused(b) THEN down
                ELSE IF Present(Other(b)) THEN Deliver(down, Other(b), m)
                ELSE Deliver(down, b, [type |-> "error"])
     /\ UNCHANGED <<member, welcome, closed>>

\* The read loop of a lost socket ends behind the frames received on it: Leave,
\* and peer-left.
Leave(b) ==
  /\ seat[b] = "stale"
  /\ up[b] # <<>> => Head(up[b]).type = "join"
  /\ welcome[b] = 0
  /\ seat' = Set(seat, b, "none")
  /\ down' = Deliver(down, Other(b), [type |-> "peer-left"])
  /\ UNCHANGED <<pageVars, rtcVars, up, member, welcome, closed, counters>>

\* The sweep collects a room nobody has been in for the grace period.
Collect ==
  /\ Expires
  /\ ~closed
  /\ \A b \in Browsers : ~Present(b)
  /\ \E b \in Browsers : member[b] # "none"
  /\ closed' = TRUE
  /\ UNCHANGED <<pageVars, rtcVars, up, down, seat, member, welcome, counters>>

Page(b) ==
  \/ Start(b) \/ Open(b) \/ RetryFires(b)
  \/ OfferDone(b) \/ OfferFails(b) \/ AnswerDone(b) \/ AnswerFails(b) \/ GraceFires(b)
  \/ ReceiveJoined(b) \/ ReceivePeerReady(b) \/ ReceiveOffer(b)
  \/ ReceiveAnswer(b) \/ AnswerNotApplied(b) \/ ReceiveNotice(b) \/ ReceiveRefusal(b)

Server(b) == Refuse(b) \/ Join(b) \/ Welcome(b) \/ Relay(b) \/ Leave(b)

Ice(b) == MediaUp(b) \/ \E state \in {"disconnected", "failed"} : MediaDown(b, state)

Fault == \/ \E b \in Browsers : Cut(b) \/ Reload(b) \/ Quit(b)
         \/ Break \/ Heal
         \/ Collect

Next == \/ \E b \in Browsers : Page(b) \/ Server(b) \/ Ice(b)
        \/ Fault

\* Pages run their handlers and timers, users who reload start again, the
\* server's goroutines run, and ICE reports what the network does.
Fairness == \A b \in Browsers : WF_vars(Page(b)) /\ WF_vars(Server(b)) /\ WF_vars(Ice(b))

Spec == Init /\ [][Next]_vars
FairSpec == Spec /\ Fairness

-----------------------------------------------------------------------------
(* Properties *)

\* Type invariant: numbers name what exists; only a browser in the call has a
\* peer connection, only a live seat a socket at its other end, and the page
\* knows no other role than the one the server keeps for it.
TypeOK ==
  /\ page \in [Browsers -> {"green", "call", "left"}]
  /\ role \in [Browsers -> {"none", "caller", "callee"}]
  /\ ws \in [Browsers -> {"none", "connecting", "open", "closed"}]
  /\ making \in [Browsers -> {"no", "plain", "restart", "plain failed", "restart failed"}]
  /\ sig \in [Browsers -> {"stable", "have-local-offer", "have-remote-offer"}]
  /\ media \in [Browsers -> {"new", "connected", "disconnected", "failed"}]
  /\ seat \in [Browsers -> {"none", "live", "stale"}]
  /\ welcome \in [Browsers -> 0..2]
  /\ \A b \in Browsers :
       /\ ice[b] \in 0..ids /\ far[b] \in 0..ids /\ mine[b] \in 0..offers
       /\ page[b] = "call" <=> ice[b] # 0
       /\ seat[b] = "live" => ws[b] = "open" /\ member[b] # "none"
       /\ role[b] # "none" => role[b] = member[b]

\* The page keeps trying: a socket that is lost is followed by one armed
\* retry, whatever else the page is busy with, unless the call is over for a
\* reason no retry mends, and then by none (scheduleSignalingReconnect and
\* the terminal codes).
RetriesUnlessTerminal ==
  \A b \in Browsers : page[b] = "call" =>
    (retry[b] <=> ws[b] = "closed" /\ ~terminal[b])

\* Two offers never cross, whatever is lost, reloaded or late: the roles of
\* the server keep the offers of the two pages apart.
NoGlare ==
  \A b \in Browsers : Making(b) \/ sig[b] = "have-local-offer" =>
    ~Making(Other(b)) /\ sig[Other(b)] # "have-local-offer"

\* The call has ended: a browser has left, or was told that the room is gone.
Over == \E b \in Browsers : page[b] = "left" \/ (terminal[b] /\ closed)

\* A page in the call has a place in the room, and was told its role.
Seated(b) == ws[b] = "open" /\ seat[b] = "live" /\ role[b] # "none"

\* The call works: media flows and both sockets are up.
Connected == Path /\ \A b \in Browsers : media[b] = "connected" /\ Seated(b)

-----------------------------------------------------------------------------
(* What can keep a call from coming back: six mishaps *)

\* A page is told of its peer when it knows its role.
Announced ==
  \A b \in Browsers :
    down[b] # <<>> /\ Head(down[b]).type = "peer-ready" => role[b] # "none"

\* A page that has joined before asks to join with the token it was given: the
\* answer that brought the token was not lost.
Remembered ==
  \A b \in Browsers :
    up[b] # <<>> /\ Head(up[b]).type = "join" /\ member[b] # "none" => Head(up[b]).token

Carries(q, n) == \E i \in 1..Len(q) : q[i].type \in {"offer", "answer"} /\ q[i].n = n

\* makeOffer: an offer is applied only when it can be sent, because one that
\* cannot be sent leaves the page in have-local-offer with no answer coming.
OffersAreSent ==
  [][\A b \in Browsers :
       sig[b] # sig'[b] /\ sig'[b] = "have-local-offer" => ws[b] = "open"]_vars

\* An offer that a page has applied, or its answer, is on its way or worked on.
OffersAreAnswered ==
  \A b \in Browsers : sig[b] = "have-local-offer" =>
    \/ answering[Other(b)].n = mine[b]
    \/ \E x \in Browsers : Carries(up[x], mine[b]) \/ Carries(down[x], mine[b])

\* Media is found broken when the caller may offer.
Restartable ==
  \A b \in Browsers : grace[b] /\ role[b] = "caller" => CanOffer(b)

\* An answer that is about to be applied answers the offer that is pending: a
\* late answer to another one finds the page back in stable.
AnswersMatch ==
  \A b \in Browsers :
    down[b] # <<>> /\ Head(down[b]).type = "answer" /\ sig[b] = "have-local-offer"
      => Head(down[b]).n = mine[b]

\* The model has no offer left for a page that is about to make one.
OutOfOffers == offers = MaxOffers /\ \E b \in Browsers : Making(b)

\* The browser makes the offers it is asked for: none with iceRestart fails, and
\* of the others the last one does not.
RestartsSucceed == \A b \in Browsers : making[b] # "restart failed"
OfferSucceeded == \A b \in Browsers : making[b] # "plain failed"

\* When none of the six mishaps happens, a call that nobody ends and whose room
\* is not collected has media in the end and both sockets up, after whatever was
\* lost, reloaded or broken.  Three of them count only when they last: an offer
\* that stays unanswered, which is what a failed answer leaves behind too, one
\* that fails and is not tried again, and late answers of which each leads to
\* the next restart until the model has no offers left.
Mishap ==
  \/ <>~Announced \/ <>~Remembered \/ <>~Restartable
  \/ <>~AnswersMatch /\ <>OutOfOffers
  \/ <>~RestartsSucceed \/ []<>~OfferSucceeded
  \/ []<>~OffersAreAnswered

Settles == ~Mishap => <>[](Connected \/ Over)
=============================================================================
