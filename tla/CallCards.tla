----------------------------- MODULE CallCards ------------------------------
(***************************************************************************)
(* Call Cards and the calls made with them.  The callee's page subscribes  *)
(* at the push service with the server's key and shows a card, which it    *)
(* hands out.  A caller's page makes a room and asks the server to push    *)
(* to a card.  The server may be stopped and started between any two       *)
(* steps, with the key PushKeys gives it.  A card is the number of its     *)
(* subscription; which cards a caller keeps is the subject of Contacts.    *)
(***************************************************************************)
EXTENDS PushKeys

CONSTANTS
  Clicks,     \* runs of subscribePush that may overlap: its button stays enabled
  MaxCards,   \* bound: subscriptions the callee makes
  MaxRooms    \* bound: rooms the caller makes

ASSUMPTION MaxCardsAssumption == MaxCards \in Nat
ASSUMPTION MaxRoomsAssumption == MaxRooms \in Nat

VARIABLES
  madeWith,   \* madeWith[n]: the key subscription n was made with, NoKey if not made
  live,       \* the subscription the callee's browser holds, NoCard if none
  shown,      \* state.pushSubscription: the card on the callee's page
  config,     \* the key in the page's state.config, NoKey before it is fetched
  refresh,    \* refresh[k]: "idle", "config", "existing", "unsubscribe" or "subscribe"
  vapid,      \* vapid[k]: the key this run of subscribePush read
  prior,      \* prior[k]: the subscription it found
  given,      \* cards handed out
  call,       \* the caller's page: "idle", "room", "push" or "waiting" in the room
  to,         \* the card being called
  room,       \* the room made for the call
  answer,     \* what the last request of callContact came back with
  rooms,      \* rooms the server holds
  made        \* rooms made

refreshVars == <<refresh, vapid, prior>>
calleeVars == <<madeWith, live, shown, config, refreshVars, given>>
callerVars == <<call, to, room, answer>>
roomVars == <<rooms, made>>
elsewhere == <<serverVars, given, callerVars, roomVars>>
vars == <<serverVars, calleeVars, callerVars, roomVars>>

NoCard == 0
Card == 1..MaxCards
Made == {n \in Card : madeWith[n] # NoKey}

Init ==
  /\ KeysInit
  /\ madeWith = [n \in Card |-> NoKey]
  /\ live = NoCard /\ shown = NoCard /\ config = NoKey
  /\ refresh = [k \in Clicks |-> "idle"]
  /\ vapid = [k \in Clicks |-> NoKey]
  /\ prior = [k \in Clicks |-> NoCard]
  /\ given = {}
  /\ call = "idle" /\ to = NoCard /\ room = 0 /\ answer = "none"
  /\ rooms = {} /\ made = 0

-----------------------------------------------------------------------------
(* The server *)

\* Rooms are in memory only; subscriptions, cards and pages outlive the stop.
StopServer == Stop /\ rooms' = {} /\ UNCHANGED <<calleeVars, callerVars, made>>

StartServer ==
  /\ Load \/ DieWriting \/ Listen
  /\ UNCHANGED <<calleeVars, callerVars, roomVars>>

\* The sweep takes a room nobody has joined when its TTL is over.
Sweep ==
  /\ proc = "up"
  /\ \E r \in rooms : rooms' = rooms \ {r}
  /\ UNCHANGED <<serverVars, calleeVars, callerVars, made>>

-----------------------------------------------------------------------------
(* The callee's page *)

\* subscribePush: permission is granted and the key is fetched unless the
\* page still has a config.
ClickRefresh(k) ==
  /\ refresh[k] = "idle"
  /\ refresh' = [refresh EXCEPT ![k] = IF config = NoKey THEN "config" ELSE "existing"]
  /\ vapid' = [vapid EXCEPT ![k] = config]
  /\ UNCHANGED <<elsewhere, madeWith, live, shown, config, prior>>

\* GET /api/config answers with the key of the running process.
FetchConfig(k) ==
  /\ refresh[k] = "config"
  /\ proc = "up"
  /\ config' = key
  /\ refresh' = [refresh EXCEPT ![k] = "existing"]
  /\ vapid' = [vapid EXCEPT ![k] = key]
  /\ UNCHANGED <<elsewhere, madeWith, live, shown, prior>>

\* startSession fetches the config of every call.
StartCall ==
  /\ proc = "up"
  /\ config' = key
  /\ UNCHANGED <<elsewhere, madeWith, live, shown, refreshVars>>

FindPrior(k) ==
  /\ refresh[k] = "existing"
  /\ refresh' = [refresh EXCEPT ![k] = "unsubscribe"]
  /\ prior' = [prior EXCEPT ![k] = live]
  /\ UNCHANGED <<elsewhere, madeWith, live, shown, config, vapid>>

\* Only the subscription that was found is given up; a failure is ignored.
Unsubscribe(k) ==
  /\ refresh[k] = "unsubscribe"
  /\ refresh' = [refresh EXCEPT ![k] = "subscribe"]
  /\ live' \in IF prior[k] = live THEN {live, NoCard} ELSE {live}
  /\ UNCHANGED <<elsewhere, madeWith, shown, config, vapid, prior>>

\* A browser that holds no subscription makes a new one.
NewCard(k) ==
  /\ live = NoCard
  /\ \E n \in Card :
       /\ n \notin Made
       /\ \A m \in Card : m < n => m \in Made
       /\ madeWith' = [madeWith EXCEPT ![n] = vapid[k]]
       /\ live' = n
       /\ shown' = n

\* One that holds a subscription returns it if it was made with the same key.
SameCard(k) ==
  /\ live # NoCard
  /\ madeWith[live] = vapid[k]
  /\ shown' = live
  /\ UNCHANGED <<madeWith, live>>

Subscribe(k) ==
  /\ refresh[k] = "subscribe"
  /\ refresh' = [refresh EXCEPT ![k] = "idle"]
  /\ NewCard(k) \/ SameCard(k)
  /\ UNCHANGED <<elsewhere, config, vapid, prior>>

\* A request fails, or the browser refuses: the page keeps the card it shows.
RefreshFails(k) ==
  /\ refresh[k] \in {"config", "subscribe"}
  /\ refresh' = [refresh EXCEPT ![k] = "idle"]
  /\ UNCHANGED <<elsewhere, madeWith, live, shown, config, vapid, prior>>

\* The browser or the push service drops the subscription on its own.
Expire ==
  /\ live # NoCard
  /\ live' = NoCard
  /\ UNCHANGED <<elsewhere, madeWith, shown, config, refreshVars>>

\* initServiceWorkerAndPush shows the subscription the browser holds.
ReloadCallee ==
  /\ shown' = live
  /\ config' = NoKey
  /\ refresh' = [k \in Clicks |-> "idle"]
  /\ UNCHANGED <<elsewhere, madeWith, live, vapid, prior>>

\* updateCallCardLink, copyCallCardLink: the callee sends the card.
GiveCard ==
  /\ shown # NoCard
  /\ given' = given \cup {shown}
  /\ UNCHANGED <<serverVars, madeWith, live, shown, config, refreshVars, callerVars, roomVars>>

-----------------------------------------------------------------------------
(* The caller's page: callContact *)

ClickCall ==
  /\ call = "idle"
  /\ \E n \in given : to' = n
  /\ call' = "room"
  /\ answer' = "none"
  /\ UNCHANGED <<serverVars, calleeVars, room, roomVars>>

\* POST /api/rooms
MakeRoom ==
  /\ call = "room"
  /\ proc = "up"
  /\ made < MaxRooms
  /\ made' = made + 1
  /\ rooms' = rooms \cup {made + 1}
  /\ room' = made + 1
  /\ call' = "push"
  /\ UNCHANGED <<serverVars, calleeVars, to, answer>>

\* Refused by the limiter or the cap, or the server is away: the page stays
\* where it is, with a text.
NoRoom ==
  /\ call = "room"
  /\ call' = "idle"
  /\ answer' = "failed"
  /\ UNCHANGED <<serverVars, calleeVars, to, room, roomVars>>

Gone == to # live
WrongKey == madeWith[to] # key

\* MUTANT: every 401 and 403 is taken for a key that is not the card's.
PushAnswersByStatus ==
  (IF Gone THEN {"expired"} ELSE {})
    \cup (IF ~Gone /\ ~WrongKey THEN {"ok"} ELSE {})
    \cup {"different key"}

\* What Send makes of the push service's answer.  404 and 410 are a card that
\* has expired.  A push service words a key that is not the card's in its own
\* way, which isVAPIDKeyMismatch knows or not; and it may refuse for a reason
\* of its own, in words that hold "expired" (of the token, say) or do not.
PushAnswers ==
  (IF Gone THEN {"expired"} ELSE {})
    \cup (IF WrongKey THEN {"different key"} ELSE {})
    \cup (IF ~Gone /\ ~WrongKey THEN {"ok"} ELSE {})
    \cup {"failed", "failed: expired"}

\* POST /api/push/notify: the server signs with its key and passes the push on.
Pushed ==
  /\ call = "push"
  /\ proc = "up"
  /\ \E result \in PushAnswers :
       /\ answer' = result
       /\ call' = IF result = "ok" THEN "waiting" ELSE "idle"
  /\ UNCHANGED <<serverVars, calleeVars, to, room, roomVars>>

\* The limiter refuses, the server is away, or its answer is lost on its way to
\* the page, which then calls a push failed that may ring all the same.
PushFails ==
  /\ call = "push"
  /\ call' = "idle"
  /\ answer' = "failed"
  /\ UNCHANGED <<serverVars, calleeVars, to, room, roomVars>>

\* The caller gives up waiting and goes back to the contacts.
StopWaiting ==
  /\ call = "waiting"
  /\ call' = "idle"
  /\ UNCHANGED <<serverVars, calleeVars, to, room, answer, roomVars>>

-----------------------------------------------------------------------------
Callee ==
  \/ \E k \in Clicks :
       ClickRefresh(k) \/ FetchConfig(k) \/ FindPrior(k) \/ Unsubscribe(k)
         \/ Subscribe(k) \/ RefreshFails(k)
  \/ StartCall \/ Expire \/ ReloadCallee \/ GiveCard

Caller == ClickCall \/ MakeRoom \/ NoRoom \/ Pushed \/ PushFails \/ StopWaiting

Next == StartServer \/ StopServer \/ Sweep \/ Callee \/ Caller

Spec == Init /\ [][Next]_vars

-----------------------------------------------------------------------------
(* Properties *)

TypeOK ==
  /\ KeysTypeOK
  /\ madeWith \in [Card -> 0..keys]
  /\ live \in 0..MaxCards /\ shown \in 0..MaxCards /\ to \in 0..MaxCards
  /\ config \in 0..keys
  /\ refresh \in [Clicks -> {"idle", "config", "existing", "unsubscribe", "subscribe"}]
  /\ vapid \in [Clicks -> 0..keys] /\ prior \in [Clicks -> 0..MaxCards]
  /\ given \subseteq Card
  /\ call \in {"idle", "room", "push", "waiting"}
  /\ answer \in {"none", "ok", "expired", "different key", "failed", "failed: expired"}
  /\ made \in 0..MaxRooms /\ room \in 0..made
  /\ rooms \subseteq 1..made

\* Keys that have left the server: in a page's config or in a subscription.
Published ==
  ({config} \cup {vapid[k] : k \in Clicks} \cup {madeWith[n] : n \in Card}) \ {NoKey}

\* Over stops, starts and starts that die while they write the key file, the
\* server signs with the one key that was ever given to a page, as long as
\* the key is in the environment or can be saved (config.Load).
OneKey ==
  Durable => \A k \in Published : proc # "down" => key = k

\* The page asks for an updated card: it looks for "expired" in the text, and
\* the server's words for a different key ask for one themselves.
AsksForNewCard == answer \in {"expired", "different key", "failed: expired"}

\* A caller who is asked to get an updated card never needed one in vain: the
\* card called is dead or made with another key, and stays so whatever the
\* callee, the push service and the server do next; unless the push service
\* refused something else in words that hold "expired" (callContact, pushNotify
\* and Sender.Send, which speak to one another in texts).
CallerIsToldTruth ==
  AsksForNewCard => Gone \/ WrongKey \/ answer = "failed: expired"
=============================================================================
