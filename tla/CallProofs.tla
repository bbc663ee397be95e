----------------------------- MODULE CallProofs -----------------------------
(***************************************************************************)
(* Proofs about a call, for any number of lost sockets, reloads, broken    *)
(* paths and offers: a lost socket is retried unless the call is over, and *)
(* the offers of the two pages never cross.                                *)
(***************************************************************************)
EXTENDS Call, FiniteSetTheorems, TLAPS

-----------------------------------------------------------------------------
(* Retries *)

SocketTypes ==
  /\ page \in [Browsers -> {"green", "call", "left"}]
  /\ terminal \in [Browsers -> BOOLEAN]
  /\ ws \in [Browsers -> {"none", "connecting", "open", "closed"}]
  /\ retry \in [Browsers -> BOOLEAN]

\* Away from the call there is neither socket nor timer, and a page that was
\* told that the call is over has closed its socket.
Sockets ==
  /\ SocketTypes
  /\ \A b \in Browsers :
       /\ page[b] # "call" => ws[b] = "none" /\ ~retry[b]
       /\ page[b] = "call" => ws[b] # "none" /\ (terminal[b] => ws[b] = "closed")
  /\ RetriesUnlessTerminal

LEMMA SocketsInit == Init => Sockets
  BY DEF Init, Sockets, SocketTypes, RetriesUnlessTerminal

\* The steps that leave pages, sockets and reconnect timers alone.
LEMMA SocketsStutter ==
  Sockets /\ UNCHANGED <<page, terminal, ws, retry>> => Sockets'
  BY DEF Sockets, SocketTypes, RetriesUnlessTerminal

\* Every step keeps Sockets: only starting, opening, losing, retrying, being
\* refused and unloading touch its variables.
LEMMA SocketsStep == Sockets /\ [Next]_vars => Sockets'
<1> SUFFICES ASSUME Sockets, [Next]_vars PROVE Sockets'
  OBVIOUS
<1>1. ASSUME NEW b \in Browsers, Start(b) PROVE Sockets'
  BY <1>1 DEF Start, Set, Sockets, SocketTypes, RetriesUnlessTerminal
<1>2. ASSUME NEW b \in Browsers, Open(b) PROVE Sockets'
  BY <1>2 DEF Open, Set, Sockets, SocketTypes, RetriesUnlessTerminal
<1>3. ASSUME NEW b \in Browsers, RetryFires(b) PROVE Sockets'
  BY <1>3 DEF RetryFires, Set, Sockets, SocketTypes, RetriesUnlessTerminal
<1>4. ASSUME NEW b \in Browsers, ReceiveRefusal(b) PROVE Sockets'
  BY <1>4 DEF ReceiveRefusal, Receive, Set, Sockets, SocketTypes, RetriesUnlessTerminal
<1>5. ASSUME NEW b \in Browsers, Cut(b) PROVE Sockets'
  BY <1>5 DEF Cut, Reconnecting, Set, Sockets, SocketTypes, RetriesUnlessTerminal
<1>6. ASSUME NEW b \in Browsers, Reload(b) \/ Quit(b) PROVE Sockets'
  <2>1. PICK next \in {"green", "left"} : Unload(b, next)
    BY <1>6 DEF Reload, Quit
  <2> QED
    BY <2>1 DEF Unload, Set, Sockets, SocketTypes, RetriesUnlessTerminal
<1>7. ASSUME NEW b \in Browsers,
             \/ OfferDone(b) \/ OfferFails(b) \/ AnswerDone(b) \/ AnswerFails(b)
             \/ GraceFires(b) \/ ReceiveJoined(b) \/ ReceivePeerReady(b) \/ ReceiveOffer(b)
             \/ ReceiveAnswer(b) \/ AnswerNotApplied(b) \/ ReceiveNotice(b)
      PROVE Sockets'
  <2>1. UNCHANGED <<page, terminal, ws, retry>>
    BY <1>7 DEF OfferDone, OfferFails, AnswerDone, AnswerFails, GraceFires, ReceiveJoined,
                ReceivePeerReady, ReceiveOffer, ReceiveAnswer, AnswerNotApplied,
                ReceiveNotice, Receive
  <2> QED
    BY <2>1, SocketsStutter
<1>8. ASSUME NEW b \in Browsers, Server(b) \/ Ice(b) PROVE Sockets'
  <2>1. UNCHANGED <<page, terminal, ws, retry>>
    BY <1>8 DEF Server, Refuse, Join, Welcome, Relay, Leave, ServerReads, pageVars,
                Ice, MediaUp, MediaDown
  <2> QED
    BY <2>1, SocketsStutter
<1>9. CASE Break \/ Heal \/ Collect \/ UNCHANGED vars
  <2>1. UNCHANGED <<page, terminal, ws, retry>>
    BY <1>9 DEF Break, Heal, Collect, pageVars, vars
  <2> QED
    BY <2>1, SocketsStutter
<1> QED
  BY <1>1, <1>2, <1>3, <1>4, <1>5, <1>6, <1>7, <1>8, <1>9 DEF Next, Page, Fault

\* A page whose socket is lost has an armed retry, and only then, unless it was
\* told that the call is over (scheduleSignalingReconnect): after any faults.
THEOREM AlwaysRetries == Spec => []RetriesUnlessTerminal
<1>1. Sockets => RetriesUnlessTerminal
  BY DEF Sockets
<1> QED
  BY SocketsInit, SocketsStep, <1>1, PTL DEF Spec

-----------------------------------------------------------------------------
(* Offers do not cross *)

Roles == {"caller", "callee"}

Descriptions == [type : {"offer", "answer"}, ice : Nat, n : Nat]

\* What a page sends, and what it is sent.
Requests == [type : {"join"}, token : BOOLEAN] \cup Descriptions

Frames ==
  [type : {"joined"}, role : Roles, participants : Nat]
    \cup [type : {"peer-ready", "peer-left", "error", "refused"}]
    \cup Descriptions

FrameTypes ==
  /\ token \in [Browsers -> BOOLEAN]
  /\ ids \in Nat /\ offers \in Nat
  /\ ice \in [Browsers -> Nat]
  /\ mine \in [Browsers -> Nat]
  /\ answering \in [Browsers -> [ice : Nat, n : Nat]]
  /\ up \in [Browsers -> Seq(Requests)]
  /\ down \in [Browsers -> Seq(Frames)]
  /\ welcome \in [Browsers -> Nat]

Makings == {"no", "plain", "restart", "plain failed", "restart failed"}

RoleTypes ==
  /\ role \in [Browsers -> Roles \cup {"none"}]
  /\ member \in [Browsers -> Roles \cup {"none"}]
  /\ making \in [Browsers -> Makings]
  /\ sig \in [Browsers -> {"stable", "have-local-offer", "have-remote-offer"}]

\* Every announcement in q that names a role names r.
Tells(q, r) == \A i \in 1..Len(q) : q[i].type = "joined" => q[i].role = r

\* All queues tell their page the role that members gives it.
AllTell(d, members) ==
  /\ d \in [Browsers -> Seq(Frames)]
  /\ \A x \in Browsers : Tells(d[x], members[x])

\* The server keeps one caller, and only for a page that has joined.
Seats ==
  \A b \in Browsers :
    /\ welcome[b] # 0 => member[b] # "none"
    /\ member[b] = "caller" => member[Other(b)] # "caller"

\* A page that knows its role knows the one the server keeps for it, and only
\* the caller offers.
Offering ==
  \A b \in Browsers :
    /\ role[b] # "none" => role[b] = member[b]
    /\ Making(b) \/ sig[b] = "have-local-offer" => role[b] = "caller"

OneOfferer == FrameTypes /\ RoleTypes /\ AllTell(down, member) /\ Seats /\ Offering

\* There are two browsers.
LEMMA OtherIsOther == ASSUME NEW b \in Browsers
                      PROVE  Other(b) \in Browsers /\ Other(b) # b /\ Other(Other(b)) = b
<1>1. IsFiniteSet(Browsers \ {b}) /\ Cardinality(Browsers \ {b}) = 1
  BY CallAssumption, FS_RemoveElement
<1>2. PICK o : Browsers \ {b} = {o}
  BY <1>1, FS_Singleton
<1>3. o \in Browsers /\ o # b /\ \A x \in Browsers : x = b \/ x = o
  BY <1>2
<1>4. Other(b) = o
  BY <1>3 DEF Other
<1>5. Other(o) = b
  BY <1>3 DEF Other
<1> QED
  BY <1>3, <1>4, <1>5

LEMMA TellsTail ==
  ASSUME NEW q \in Seq(Frames), NEW r, q # <<>>, Tells(q, r)
  PROVE  /\ Head(q) \in Frames /\ Tail(q) \in Seq(Frames)
         /\ Tells(Tail(q), r)
         /\ Head(q).type = "joined" => Head(q).role = r
<1>1. /\ Len(q) \in Nat /\ 1 \in 1..Len(q) /\ Head(q) = q[1]
      /\ Tail(q) \in Seq(Frames) /\ Len(Tail(q)) = Len(q) - 1
      /\ \A i \in 1..Len(Tail(q)) : Tail(q)[i] = q[i + 1]
  OBVIOUS
<1>2. \A i \in 1..Len(Tail(q)) : i + 1 \in 1..Len(q)
  BY <1>1
<1>3. Head(q) \in Frames
  BY <1>1
<1>4. Head(q).type = "joined" => Head(q).role = r
  BY <1>1 DEF Tells
<1>5. Tells(Tail(q), r)
  <2> SUFFICES ASSUME NEW i \in 1..Len(Tail(q)), Tail(q)[i].type = "joined"
               PROVE  Tail(q)[i].role = r
    BY DEF Tells
  <2>1. i + 1 \in 1..Len(q) /\ Tail(q)[i] = q[i + 1]
    BY <1>1, <1>2
  <2> QED
    BY <2>1 DEF Tells
<1> QED
  BY <1>1, <1>3, <1>4, <1>5

LEMMA TellsAppend ==
  ASSUME NEW q \in Seq(Frames), NEW m \in Frames, NEW r, Tells(q, r),
         m.type = "joined" => m.role = r
  PROVE  Append(q, m) \in Seq(Frames) /\ Tells(Append(q, m), r)
<1>1. /\ Append(q, m) \in Seq(Frames) /\ Len(q) \in Nat
      /\ Len(Append(q, m)) = Len(q) + 1
      /\ \A i \in 1..Len(q) : Append(q, m)[i] = q[i]
      /\ Append(q, m)[Len(q) + 1] = m
  OBVIOUS
<1> SUFFICES ASSUME NEW i \in 1..Len(Append(q, m)), Append(q, m)[i].type = "joined"
             PROVE  Append(q, m)[i].role = r
  BY <1>1 DEF Tells
<1>2. CASE i \in 1..Len(q)
  BY <1>1, <1>2 DEF Tells
<1>3. CASE i = Len(q) + 1
  BY <1>1, <1>3
<1> QED
  BY <1>1, <1>2, <1>3

LEMMA DeliverTells ==
  ASSUME NEW members, NEW d, NEW b \in Browsers, NEW m \in Frames, AllTell(d, members),
         m.type = "joined" => m.role = members[b]
  PROVE  AllTell(Deliver(d, b, m), members)
<1>1. Append(d[b], m) \in Seq(Frames) /\ Tells(Append(d[b], m), members[b])
  BY TellsAppend DEF AllTell
<1>2. CASE Deliver(d, b, m) = d
  BY <1>2
<1>3. CASE Deliver(d, b, m) = [d EXCEPT ![b] = Append(d[b], m)]
  BY <1>1, <1>3 DEF AllTell
<1> QED
  BY <1>2, <1>3 DEF Deliver, Set

LEMMA OneOffererInit == Init => OneOfferer
  BY OtherIsOther DEF Init, OneOfferer, FrameTypes, RoleTypes, AllTell, Tells, Seats, Offering, Making,
     NoOffer, Roles, Requests, Frames, Makings

\* What the roles and the offers of the pages depend on.
LEMMA OneOffererFrame ==
  ASSUME OneOfferer, FrameTypes', UNCHANGED <<role, member, making, sig, welcome>>,
         AllTell(down', member)
  PROVE  OneOfferer'
  BY DEF OneOfferer, RoleTypes, AllTell, Seats, Offering, Making

\* What makeOffer may change.
LEMMA OfferIfCallerKeeps ==
  ASSUME OneOfferer, NEW b \in Browsers, NEW r, NEW how \in {"plain", "restart"},
         OfferIfCaller(b, r, how)
  PROVE  /\ making' \in [Browsers -> Makings]
         /\ \A x \in Browsers : making'[x] # making[x] => x = b /\ r = "caller"
  BY DEF OfferIfCaller, MakeOffer, Set, OneOfferer, RoleTypes, Makings

\* The frame that is received is one that may have been sent, and the queue
\* behind it tells what the queue did.
LEMMA ReceiveTells ==
  ASSUME OneOfferer, NEW b \in Browsers, NEW type, Receive(b, type)
  PROVE  /\ Head(down[b]) \in Frames /\ Head(down[b]).type = type
         /\ type = "joined" => Head(down[b]).role = member[b]
         /\ AllTell(down', member)
         /\ UNCHANGED <<page, mine, up, seat, member, welcome, closed, ids, offers, faults>>
<1>1. down[b] \in Seq(Frames) /\ Tells(down[b], member[b]) /\ down[b] # <<>>
  BY DEF OneOfferer, AllTell, Receive
<1>2. /\ Head(down[b]) \in Frames /\ Tail(down[b]) \in Seq(Frames)
      /\ Tells(Tail(down[b]), member[b])
      /\ Head(down[b]).type = "joined" => Head(down[b]).role = member[b]
  BY <1>1, TellsTail
<1>3. AllTell(down', member)
  BY <1>2 DEF Receive, Set, OneOfferer, AllTell
<1> QED
  BY <1>2, <1>3 DEF Receive, serverVars, counters

\* The page's own steps.
LEMMA PageKeeps == ASSUME OneOfferer, NEW b \in Browsers, Page(b) PROVE OneOfferer'
<1>1. CASE Start(b) \/ RetryFires(b)
  <2>1. /\ \/ ids' = ids + 1 /\ ice' = [ice EXCEPT ![b] = ids + 1]
           \/ UNCHANGED <<ids, ice>>
        /\ UNCHANGED <<token, offers, mine, answering, up, down, welcome>>
        /\ UNCHANGED <<role, member, making, sig>>
    BY <1>1 DEF Start, RetryFires, Set, serverVars, rtcVars, counters
  <2>2. ids' \in Nat /\ ice' \in [Browsers -> Nat]
    <3>1. ids \in Nat /\ ids + 1 \in Nat /\ ice \in [Browsers -> Nat]
      BY DEF OneOfferer, FrameTypes
    <3>2. CASE ids' = ids + 1 /\ ice' = [ice EXCEPT ![b] = ids + 1]
      BY <3>1, <3>2
    <3>3. CASE UNCHANGED <<ids, ice>>
      BY <3>1, <3>3
    <3> QED
      BY <2>1, <3>2, <3>3
  <2>3. FrameTypes'
    BY <2>1, <2>2 DEF OneOfferer, FrameTypes
  <2> QED
    BY <2>1, <2>3, OneOffererFrame DEF OneOfferer
<1>2. CASE Open(b)
  <2>1. <<[type |-> "join", token |-> token[b]]>> \in Seq(Requests)
    BY DEF OneOfferer, FrameTypes, Requests
  <2>2. FrameTypes' /\ UNCHANGED <<role, member, making, sig, welcome, down>>
    BY <1>2, <2>1 DEF Open, Set, OneOfferer, FrameTypes, serverVars, rtcVars, counters
  <2> QED
    BY <2>2, OneOffererFrame DEF OneOfferer
<1>3. CASE OfferDone(b)
  <2>1. ids' \in Nat /\ ice' \in [Browsers -> Nat]
    BY <1>3 DEF OfferDone, Credentials, Set, OneOfferer, FrameTypes
  <2>2. [type |-> "offer", ice |-> ice'[b], n |-> offers + 1] \in Requests
    BY <2>1 DEF Requests, Descriptions, OneOfferer, FrameTypes
  <2>3. up' \in [Browsers -> Seq(Requests)]
    BY <1>3, <2>2 DEF OfferDone, Send, Set, OneOfferer, FrameTypes
  <2>4. FrameTypes'
    <3>1. /\ offers' = offers + 1 /\ mine' = [mine EXCEPT ![b] = offers + 1]
          /\ UNCHANGED <<token, answering, down, welcome>>
      BY <1>3 DEF OfferDone, Set, serverVars
    <3>2. offers' \in Nat /\ mine' \in [Browsers -> Nat]
      BY <3>1 DEF OneOfferer, FrameTypes
    <3> QED
      BY <2>1, <2>3, <3>1, <3>2 DEF OneOfferer, FrameTypes
  <2>5. RoleTypes' /\ Seats' /\ Offering' /\ AllTell(down, member)'
    BY <1>3 DEF OfferDone, Set, OneOfferer, RoleTypes, Makings, Seats, Offering, Making,
                AllTell, serverVars
  <2> QED
    BY <2>4, <2>5 DEF OneOfferer
<1>4. CASE AnswerDone(b)
  <2>1. ids' \in Nat /\ ice' \in [Browsers -> Nat]
    BY <1>4 DEF AnswerDone, Credentials, Set, OneOfferer, FrameTypes
  <2>2. [type |-> "answer", ice |-> ice'[b], n |-> answering[b].n] \in Requests
    BY <2>1 DEF Requests, Descriptions, OneOfferer, FrameTypes
  <2>3. up' \in [Browsers -> Seq(Requests)]
    BY <1>4, <2>2 DEF AnswerDone, Send, Set, OneOfferer, FrameTypes
  <2>4. FrameTypes'
    BY <1>4, <2>1, <2>3 DEF AnswerDone, NoOffer, Set, OneOfferer, FrameTypes, serverVars
  <2>5. RoleTypes' /\ Seats' /\ Offering' /\ AllTell(down, member)'
    BY <1>4 DEF AnswerDone, Set, OneOfferer, RoleTypes, Seats, Offering, Making, AllTell, serverVars
  <2> QED
    BY <2>4, <2>5 DEF OneOfferer
<1>5. CASE GraceFires(b)
  <2>1. /\ making' \in [Browsers -> Makings]
        /\ \A x \in Browsers : making'[x] # making[x] => x = b /\ role[b] = "caller"
    BY <1>5, OfferIfCallerKeeps DEF GraceFires, OneOfferer, RoleTypes
  <2>2. FrameTypes' /\ AllTell(down, member)'
    BY <1>5 DEF GraceFires, OneOfferer, FrameTypes, AllTell, serverVars, rtcVars, counters
  <2>3. RoleTypes' /\ Seats' /\ Offering'
    BY <1>5, <2>1 DEF GraceFires, OneOfferer, RoleTypes, Seats, Offering, Making, serverVars, rtcVars
  <2> QED
    BY <2>2, <2>3 DEF OneOfferer
<1>6. CASE ReceiveJoined(b)
  <2> DEFINE m == Head(down[b])
  <2>1. Receive(b, "joined")
    BY <1>6 DEF ReceiveJoined
  <2>2. /\ m \in Frames /\ m.type = "joined" /\ m.role = member[b] /\ AllTell(down', member)
        /\ UNCHANGED <<mine, up, member, welcome, ids, offers>>
    BY <2>1, ReceiveTells
  <2>3. m.role \in Roles
    BY <2>2 DEF Frames, Descriptions
  <2>4. /\ making' \in [Browsers -> Makings]
        /\ \A x \in Browsers : making'[x] # making[x] => x = b /\ m.role = "caller"
    BY <1>6, OfferIfCallerKeeps DEF ReceiveJoined, OneOfferer, RoleTypes
  <2>5. FrameTypes' /\ AllTell(down, member)'
    BY <1>6, <2>2 DEF ReceiveJoined, Set, OneOfferer, FrameTypes, AllTell
  <2>6. RoleTypes' /\ Seats' /\ Offering'
    BY <1>6, <2>2, <2>3, <2>4 DEF ReceiveJoined, Set, OneOfferer, RoleTypes, Roles, Seats, Offering, Making
  <2> QED
    BY <2>5, <2>6 DEF OneOfferer
<1>7. CASE ReceivePeerReady(b)
  <2>1. Receive(b, "peer-ready")
    BY <1>7 DEF ReceivePeerReady
  <2>2. AllTell(down', member) /\ UNCHANGED <<mine, up, member, welcome, ids, offers>>
    BY <2>1, ReceiveTells
  <2>3. /\ making' \in [Browsers -> Makings]
        /\ \A x \in Browsers : making'[x] # making[x] => x = b /\ role[b] = "caller"
    BY <1>7, OfferIfCallerKeeps DEF ReceivePeerReady
  <2>4. FrameTypes' /\ AllTell(down, member)'
    BY <1>7, <2>2 DEF ReceivePeerReady, OneOfferer, FrameTypes, AllTell
  <2>5. RoleTypes' /\ Seats' /\ Offering'
    BY <1>7, <2>2, <2>3 DEF ReceivePeerReady, OneOfferer, RoleTypes, Seats, Offering, Making
  <2> QED
    BY <2>4, <2>5 DEF OneOfferer
<1>8. CASE ReceiveOffer(b)
  <2>1. Receive(b, "offer")
    BY <1>8 DEF ReceiveOffer
  <2>2. /\ Head(down[b]) \in Frames /\ Head(down[b]).type = "offer" /\ AllTell(down', member)
        /\ UNCHANGED <<mine, up, member, welcome, ids, offers>>
    BY <2>1, ReceiveTells
  <2>3. Head(down[b]).ice \in Nat /\ Head(down[b]).n \in Nat
    BY <2>2 DEF Frames, Descriptions
  <2>4. FrameTypes'
    BY <1>8, <2>2, <2>3 DEF ReceiveOffer, Set, OneOfferer, FrameTypes, AllTell
  <2>5. UNCHANGED <<role, member, making, sig, welcome>>
    BY <1>8, <2>2 DEF ReceiveOffer
  <2> QED
    BY <2>2, <2>4, <2>5, OneOffererFrame
<1>9. CASE ReceiveAnswer(b)
  <2>1. Receive(b, "answer")
    BY <1>9 DEF ReceiveAnswer
  <2>2. AllTell(down', member) /\ UNCHANGED <<mine, up, member, welcome, ids, offers>>
    BY <2>1, ReceiveTells
  <2>3. FrameTypes' /\ AllTell(down, member)'
    BY <1>9, <2>2 DEF ReceiveAnswer, OneOfferer, FrameTypes, AllTell
  <2>4. RoleTypes' /\ Seats' /\ Offering'
    BY <1>9, <2>2 DEF ReceiveAnswer, Set, OneOfferer, RoleTypes, Seats, Offering, Making
  <2> QED
    BY <2>3, <2>4 DEF OneOfferer
<1>11. CASE OfferFails(b)
  <2>1. making' \in [Browsers -> Makings] /\ \A x \in Browsers : Making(x)' => Making(x)
    BY <1>11 DEF OfferFails, Set, OneOfferer, RoleTypes, Makings, Making
  <2>2. /\ UNCHANGED <<role, sig, token, ids, offers, ice, mine, answering>>
        /\ UNCHANGED <<up, down, member, welcome>>
    BY <1>11 DEF OfferFails, rtcVars, serverVars, counters
  <2> QED
    BY <2>1, <2>2 DEF OneOfferer, FrameTypes, RoleTypes, Seats, Offering, AllTell
<1>12. CASE AnswerFails(b)
  <2>1. /\ sig' \in [Browsers -> {"stable", "have-local-offer", "have-remote-offer"}]
        /\ \A x \in Browsers : sig'[x] = "have-local-offer" => sig[x] = "have-local-offer"
    BY <1>12 DEF AnswerFails, Set, OneOfferer, RoleTypes
  <2>2. answering' \in [Browsers -> [ice : Nat, n : Nat]]
    BY <1>12 DEF AnswerFails, NoOffer, Set, OneOfferer, FrameTypes
  <2>3. /\ UNCHANGED <<role, making, token, ids, offers, ice, mine>>
        /\ UNCHANGED <<up, down, member, welcome>>
    BY <1>12 DEF AnswerFails, serverVars, counters
  <2> QED
    BY <2>1, <2>2, <2>3 DEF OneOfferer, FrameTypes, RoleTypes, Seats, Offering, Making, AllTell
<1>13. CASE AnswerNotApplied(b)
  <2>1. AllTell(down', member) /\ UNCHANGED <<mine, up, member, welcome, ids, offers>>
    BY <1>13, ReceiveTells DEF AnswerNotApplied
  <2>2. FrameTypes' /\ UNCHANGED <<role, member, making, sig, welcome>>
    BY <1>13, <2>1 DEF AnswerNotApplied, OneOfferer, FrameTypes, AllTell
  <2> QED
    BY <2>1, <2>2, OneOffererFrame
<1>10. CASE ReceiveNotice(b) \/ ReceiveRefusal(b)
  <2>1. PICK type : Receive(b, type)
    BY <1>10 DEF ReceiveNotice, ReceiveRefusal
  <2>2. AllTell(down', member) /\ UNCHANGED <<mine, up, member, welcome, ids, offers>>
    BY <2>1, ReceiveTells
  <2>3. FrameTypes' /\ UNCHANGED <<role, member, making, sig, welcome>>
    BY <1>10, <2>2 DEF ReceiveNotice, ReceiveRefusal, OneOfferer, FrameTypes, AllTell
  <2> QED
    BY <2>2, <2>3, OneOffererFrame
<1> QED
  BY <1>1, <1>2, <1>3, <1>4, <1>5, <1>6, <1>7, <1>8, <1>9, <1>10, <1>11, <1>12, <1>13
  DEF Page

\* What a page sends is read from the front of its queue.
LEMMA ServerReadsTypes ==
  ASSUME OneOfferer, NEW b \in Browsers, NEW types, ServerReads(b, types)
  PROVE  /\ Head(up[b]) \in Requests /\ Head(up[b]).type \in types
         /\ up' \in [Browsers -> Seq(Requests)]
         /\ UNCHANGED <<role, making, sig, token, ids, offers, ice, mine, answering>>
<1>1. up[b] \in Seq(Requests) /\ up[b] # <<>>
  BY DEF OneOfferer, FrameTypes, ServerReads
<1>2. Head(up[b]) \in Requests /\ Tail(up[b]) \in Seq(Requests)
  BY <1>1
<1>3. up' \in [Browsers -> Seq(Requests)]
  BY <1>2 DEF ServerReads, Set, OneOfferer, FrameTypes
<1> QED
  BY <1>2, <1>3 DEF ServerReads, pageVars, rtcVars, counters

LEMMA PlainFrames ==
  \A t \in {"peer-ready", "peer-left", "error", "refused"} :
    [type |-> t] \in Frames /\ [type |-> t].type # "joined"
  BY DEF Frames

\* The server's steps.
LEMMA ServerKeeps == ASSUME OneOfferer, NEW b \in Browsers, Server(b) PROVE OneOfferer'
<1> USE OtherIsOther
<1>0. AllTell(down, member)
  BY DEF OneOfferer
<1>1. CASE Refuse(b)
  <2>1. ServerReads(b, {"join"}) /\ UNCHANGED serverVars
    BY <1>1 DEF Refuse
  <2>2. /\ up' \in [Browsers -> Seq(Requests)]
        /\ UNCHANGED <<role, making, sig, token, ids, offers, ice, mine, answering>>
        /\ UNCHANGED <<member, welcome>>
    BY <2>1, ServerReadsTypes DEF serverVars
  <2>3. /\ <<[type |-> "refused"]>> \in Seq(Frames)
        /\ Tells(<<[type |-> "refused"]>>, member[b])
    BY PlainFrames DEF Tells
  <2>4. AllTell(down', member)
    BY <1>0, <1>1, <2>3 DEF Refuse, Set, AllTell
  <2>5. FrameTypes'
    BY <2>2, <2>4 DEF OneOfferer, FrameTypes, AllTell
  <2> QED
    BY <2>2, <2>4, <2>5, OneOffererFrame
<1>2. CASE Join(b)
  <2>1. ServerReads(b, {"join"})
    BY <1>2 DEF Join
  <2>2. /\ up' \in [Browsers -> Seq(Requests)]
        /\ UNCHANGED <<role, making, sig, token, ids, offers, ice, mine, answering>>
    BY <2>1, ServerReadsTypes
  <2>3. FrameTypes'
    <3>1. welcome' = [welcome EXCEPT ![b] = 2] \/ welcome' = [welcome EXCEPT ![b] = 1]
      BY <1>2 DEF Join, Set
    <3>2. welcome \in [Browsers -> Nat]
      BY DEF OneOfferer, FrameTypes
    <3>3. welcome' \in [Browsers -> Nat]
      BY <3>1, <3>2
    <3>4. down' = down
      BY <1>2 DEF Join
    <3> QED
      BY <2>2, <3>3, <3>4 DEF OneOfferer, FrameTypes
  <2>4. \A x \in Browsers : x # b => welcome'[x] = welcome[x]
    BY <1>2 DEF Join, Set, OneOfferer, FrameTypes
  <2>5. CASE member[b] # "none"
    <3>1. member' = member
      BY <1>2, <2>5 DEF Join
    <3>2. Seats'
      BY <2>4, <2>5, <3>1 DEF Seats, OneOfferer
    <3>3. AllTell(down, member)'
      BY <1>0, <1>2, <3>1 DEF Join
    <3> QED
      BY <2>2, <2>3, <3>1, <3>2, <3>3 DEF OneOfferer, RoleTypes, Offering, Making
  <2>6. CASE member[b] = "none"
    <3> DEFINE r == IF member[Other(b)] = "none" THEN "caller" ELSE "callee"
    <3>1. member' = [member EXCEPT ![b] = r] /\ r \in Roles /\ (r = "caller" => member[Other(b)] = "none")
      BY <1>2, <2>6 DEF Join, Set, Roles
    <3> HIDE DEF r
    <3>2. member' \in [Browsers -> Roles \cup {"none"}] /\ member'[b] = r
          /\ \A x \in Browsers : x # b => member'[x] = member[x]
      BY <3>1 DEF OneOfferer, RoleTypes
    <3>3. Seats'
      <4> SUFFICES ASSUME NEW x \in Browsers
                   PROVE  /\ welcome'[x] # 0 => member'[x] # "none"
                          /\ member'[x] = "caller" => member'[Other(x)] # "caller"
        BY DEF Seats
      <4>1. CASE x = b
        BY <3>1, <3>2, <4>1 DEF Roles
      <4>2. CASE x # b
        <5>1. member'[x] = member[x] /\ welcome'[x] = welcome[x]
          BY <2>4, <3>2, <4>2
        <5>2. CASE Other(x) = b
          <6>1. Other(b) = x
            BY <5>2
          <6> QED
            BY <3>1, <3>2, <5>1, <5>2, <6>1 DEF OneOfferer, Seats
        <5>3. CASE Other(x) # b
          BY <3>2, <5>1, <5>3 DEF OneOfferer, Seats
        <5> QED
          BY <5>2, <5>3
      <4> QED
        BY <4>1, <4>2
    <3>4. AllTell(down', member')
      <4>1. \A i \in 1..Len(down[b]) : down[b][i].type # "joined"
        <5> SUFFICES ASSUME NEW i \in 1..Len(down[b]), down[b][i].type = "joined"
                     PROVE  FALSE
          OBVIOUS
        <5>1. down[b][i] \in Frames /\ down[b][i].role = "none"
          BY <1>0, <2>6 DEF AllTell, Tells
        <5> QED
          BY <5>1 DEF Frames, Roles, Descriptions
      <4>2. down' = down
        BY <1>2 DEF Join
      <4> QED
        BY <1>0, <3>2, <4>1, <4>2 DEF AllTell, Tells
    <3>5. Offering'
      BY <2>2, <2>6, <3>2 DEF OneOfferer, Offering, Making, RoleTypes
    <3> QED
      BY <2>2, <2>3, <3>2, <3>3, <3>4, <3>5 DEF OneOfferer, RoleTypes
  <2> QED
    BY <2>5, <2>6
<1>3. CASE Welcome(b)
  <2> DEFINE joined == [type |-> "joined", role |-> member[b], participants |-> welcome[b]]
             ready == [type |-> "peer-ready"]
             told == Deliver(down, b, joined)
             once == Deliver(told, b, ready)
  <2>1. joined \in Frames /\ joined.role = member[b]
    BY <1>3 DEF Welcome, Frames, OneOfferer, FrameTypes, RoleTypes, Seats, Roles
  <2>2. ready \in Frames /\ ready.type # "joined"
    BY PlainFrames
  <2>3. AllTell(told, member)
    BY <1>0, <2>1, DeliverTells
  <2>4. AllTell(once, member)
    BY <2>2, <2>3, DeliverTells
  <2>5. AllTell(Deliver(once, Other(b), ready), member)
    BY <2>2, <2>4, DeliverTells
  <2>6. AllTell(down', member)
    BY <1>3, <2>3, <2>5 DEF Welcome
  <2>7. /\ welcome' = [welcome EXCEPT ![b] = 0]
        /\ UNCHANGED <<role, member, making, sig, token, ids, offers, ice, mine, answering, up>>
    BY <1>3 DEF Welcome, Set, pageVars, rtcVars, counters
  <2>8. FrameTypes'
    BY <2>6, <2>7 DEF OneOfferer, FrameTypes, AllTell
  <2>9. Seats'
    BY <2>7 DEF OneOfferer, Seats, FrameTypes
  <2> QED
    BY <2>6, <2>7, <2>8, <2>9 DEF OneOfferer, RoleTypes, Offering, Making
<1>4. CASE Relay(b)
  <2> DEFINE m == Head(up[b])
  <2>1. ServerReads(b, {"offer", "answer"}) /\ UNCHANGED <<member, welcome>>
    BY <1>4 DEF Relay
  <2>2. /\ m \in Requests /\ m.type \in {"offer", "answer"}
        /\ up' \in [Browsers -> Seq(Requests)]
        /\ UNCHANGED <<role, making, sig, token, ids, offers, ice, mine, answering>>
    BY <2>1, ServerReadsTypes
  <2>3. m \in Frames /\ m.type # "joined"
    BY <2>2 DEF Requests, Frames
  <2>4. AllTell(Deliver(down, Other(b), m), member)
    BY <1>0, <2>3, DeliverTells
  <2>5. AllTell(Deliver(down, b, [type |-> "error"]), member)
    BY <1>0, PlainFrames, DeliverTells
  <2>6. AllTell(down', member)
    BY <1>0, <1>4, <2>4, <2>5 DEF Relay
  <2>7. FrameTypes'
    BY <2>1, <2>2, <2>6 DEF OneOfferer, FrameTypes, AllTell
  <2> QED
    BY <2>1, <2>2, <2>6, <2>7, OneOffererFrame
<1>5. CASE Leave(b)
  <2>1. AllTell(down', member)
    BY <1>0, <1>5, PlainFrames, DeliverTells DEF Leave
  <2>2. /\ UNCHANGED <<role, making, sig, token, ids, offers, ice, mine, answering>>
        /\ UNCHANGED <<up, member, welcome>>
    BY <1>5 DEF Leave, pageVars, rtcVars, counters
  <2>3. FrameTypes'
    BY <2>1, <2>2 DEF OneOfferer, FrameTypes, AllTell
  <2> QED
    BY <2>1, <2>2, <2>3, OneOffererFrame
<1> QED
  BY <1>1, <1>2, <1>3, <1>4, <1>5 DEF Server

\* What becomes of the queues of a socket that is lost.
LEMMA DisconnectKeeps ==
  ASSUME OneOfferer, NEW b \in Browsers, Disconnect(b)
  PROVE  up' \in [Browsers -> Seq(Requests)] /\ AllTell(down', member)
<1>1. <<>> \in Seq(Frames) /\ Tells(<<>>, member[b])
  BY DEF Tells
<1>2. AllTell(down', member)
  BY <1>1 DEF Disconnect, Set, OneOfferer, AllTell
<1>3. up \in [Browsers -> Seq(Requests)]
  BY DEF OneOfferer, FrameTypes
<1>4. PICK n \in 0..Len(up[b]) : up' = [up EXCEPT ![b] = SubSeq(up[b], 1, n)]
  BY DEF Disconnect, Set
<1>5. SubSeq(up[b], 1, n) \in Seq(Requests)
  BY <1>3
<1> QED
  BY <1>2, <1>3, <1>4, <1>5

\* Faults, and what ICE reports.
LEMMA FaultKeeps ==
  ASSUME OneOfferer, Fault \/ (\E b \in Browsers : Ice(b)) \/ UNCHANGED vars
  PROVE  OneOfferer'
<1>1. ASSUME NEW b \in Browsers, Cut(b) PROVE OneOfferer'
  <2>1. up' \in [Browsers -> Seq(Requests)] /\ AllTell(down', member)
    BY <1>1, DisconnectKeeps DEF Cut
  <2>2. /\ UNCHANGED <<role, making, sig, token, ids, offers, ice, mine, answering>>
        /\ UNCHANGED <<member, welcome>>
    BY <1>1 DEF Cut, rtcVars
  <2>3. FrameTypes'
    BY <2>1, <2>2 DEF OneOfferer, FrameTypes, AllTell
  <2> QED
    BY <2>1, <2>2, <2>3, OneOffererFrame
<1>2. ASSUME NEW b \in Browsers, Reload(b) \/ Quit(b) PROVE OneOfferer'
  <2>1. PICK next \in {"green", "left"} : Unload(b, next)
    BY <1>2 DEF Reload, Quit
  <2>2. up' \in [Browsers -> Seq(Requests)] /\ AllTell(down', member)
    BY <2>1, DisconnectKeeps DEF Unload
  <2>3. FrameTypes'
    BY <2>1, <2>2 DEF Unload, CloseConnection, NoOffer, Set, OneOfferer, FrameTypes, AllTell
  <2>4. RoleTypes' /\ Seats' /\ Offering' /\ AllTell(down, member)'
    BY <2>1, <2>2 DEF Unload, CloseConnection, Set, OneOfferer, RoleTypes, Makings, Seats,
                      Offering, Making, AllTell
  <2> QED
    BY <2>3, <2>4 DEF OneOfferer
<1>3. CASE \/ Break \/ Heal \/ Collect \/ UNCHANGED vars \/ \E b \in Browsers : Ice(b)
  <2>1. /\ UNCHANGED <<role, making, sig, token, ids, offers, ice, mine, answering>>
        /\ UNCHANGED <<up, down, member, welcome>>
    BY <1>3 DEF Break, Heal, Collect, Ice, MediaUp, MediaDown, vars, pageVars, rtcVars,
                serverVars, counters
  <2>2. FrameTypes' /\ AllTell(down', member)
    BY <2>1 DEF OneOfferer, FrameTypes
  <2> QED
    BY <2>1, <2>2, OneOffererFrame
<1> QED
  BY <1>1, <1>2, <1>3 DEF Fault

LEMMA OneOffererStep == OneOfferer /\ [Next]_vars => OneOfferer'
  BY PageKeeps, ServerKeeps, FaultKeeps DEF Next

\* The offers of the two pages never cross, however many sockets, pages and
\* paths are lost: the server keeps one caller, a page knows no role but its
\* own, and only the caller offers (the guards of ui.go:4565, 4809 and 4824).
THEOREM AlwaysNoGlare == Spec => []NoGlare
<1>1. OneOfferer => NoGlare
  <2> SUFFICES ASSUME OneOfferer, NEW b \in Browsers,
                      Making(b) \/ sig[b] = "have-local-offer"
               PROVE  ~Making(Other(b)) /\ sig[Other(b)] # "have-local-offer"
    BY DEF NoGlare
  <2>1. Other(b) \in Browsers
    BY OtherIsOther
  <2>2. role[b] = "caller" /\ member[b] = "caller" /\ member[Other(b)] # "caller"
    BY DEF OneOfferer, Offering, Making, Seats
  <2>3. role[Other(b)] # "caller"
    BY <2>1, <2>2 DEF OneOfferer, Offering, Making
  <2> QED
    BY <2>1, <2>3 DEF OneOfferer, Offering, Making, RoleTypes
<1> QED
  BY OneOffererInit, OneOffererStep, <1>1, PTL DEF Spec
=============================================================================
