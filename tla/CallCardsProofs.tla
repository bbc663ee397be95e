-------------------------- MODULE CallCardsProofs ---------------------------
(***************************************************************************)
(* Proofs about the server's key and the Call Cards, for any number of     *)
(* keys, cards, rooms and overlapping refreshes: types, the one key of a   *)
(* server that can save it, and what a caller is told about a card.  Then  *)
(* proofs about the contacts, the cards a caller keeps (Contacts), for any *)
(* number of tabs, names and saves: what the list may lose, and that it    *)
(* holds each name and card once.                                          *)
(***************************************************************************)
EXTENDS CallCards, Contacts, WellFoundedInduction, TLAPS

-----------------------------------------------------------------------------
(* Types *)

\* TypeOK in two parts: the pages, whose keys are numbers up to keys, and the
\* rooms.
CalleeTypes ==
  /\ madeWith \in [Card -> 0..keys]
  /\ live \in 0..MaxCards /\ shown \in 0..MaxCards
  /\ config \in 0..keys
  /\ refresh \in [Clicks -> {"idle", "config", "existing", "unsubscribe", "subscribe"}]
  /\ vapid \in [Clicks -> 0..keys] /\ prior \in [Clicks -> 0..MaxCards]
  /\ given \subseteq Card

CallerTypes ==
  /\ to \in 0..MaxCards
  /\ call \in {"idle", "room", "push", "waiting"}
  /\ answer \in {"none", "ok", "expired", "different key", "failed", "failed: expired"}
  /\ made \in 0..MaxRooms /\ room \in 0..made
  /\ rooms \subseteq 1..made

LEMMA TypeParts == TypeOK <=> KeysTypeOK /\ CalleeTypes /\ CallerTypes
  BY DEF TypeOK, CalleeTypes, CallerTypes

LEMMA KeysTypeInit == KeysInit => KeysTypeOK
  BY MaxKeysAssumption DEF KeysInit, KeysTypeOK, NoKey, EnvKey, Key

LEMMA TypeInit == Init => TypeOK
<1> SUFFICES ASSUME Init PROVE TypeOK
  OBVIOUS
<1>1. KeysTypeOK /\ keys = 1
  BY KeysTypeInit DEF Init, KeysInit, EnvKey
<1>2. CalleeTypes
  BY <1>1, MaxCardsAssumption DEF Init, CalleeTypes, NoKey, NoCard
<1>3. CallerTypes
  BY MaxCardsAssumption, MaxRoomsAssumption DEF Init, CallerTypes, NoCard
<1> QED BY <1>1, <1>2, <1>3, TypeParts

\* The server's steps: numbers of keys only grow.
LEMMA ServerTypes ==
  ASSUME KeysTypeOK, Load \/ DieWriting \/ Listen \/ Stop
  PROVE  KeysTypeOK' /\ keys' \in {keys, keys + 1}
<1>0. /\ env \in EnvKeys /\ disk \in Disks /\ keys \in 1..(MaxKeys + 1)
      /\ file \in 0..keys /\ key \in 0..keys /\ MaxKeys \in Nat
  BY MaxKeysAssumption DEF KeysTypeOK, Key
<1>1. CASE Load
  <2>1. UNCHANGED <<env, disk>> /\ proc' = "loaded"
    BY <1>1 DEF Load
  <2>2. CASE LoadFromEnv
    BY <1>0, <2>1, <2>2 DEF LoadFromEnv, KeysTypeOK, Key, EnvKey
  <2>3. CASE LoadFromFile
    BY <1>0, <2>1, <2>3 DEF LoadFromFile, KeysTypeOK, Key
  <2>4. CASE Generate
    <3>1. keys' = keys + 1 /\ key' = keys + 1 /\ keys <= MaxKeys
      BY <2>4 DEF Generate
    <3>2. file' \in {keys + 1, NoKey, file}
      BY <2>4 DEF Generate, Save
    <3> QED BY <1>0, <2>1, <3>1, <3>2 DEF KeysTypeOK, Key, NoKey
  <2> QED BY <1>1, <2>2, <2>3, <2>4 DEF Load
<1>2. CASE DieWriting
  BY <1>0, <1>2 DEF DieWriting, KeysTypeOK, Key
<1>3. CASE Listen
  BY <1>0, <1>3 DEF Listen, KeysTypeOK, Key
<1>4. CASE Stop
  BY <1>0, <1>4 DEF Stop, KeysTypeOK, Key, NoKey
<1> QED BY <1>1, <1>2, <1>3, <1>4

LEMMA CalleeGrows ==
  ASSUME KeysTypeOK, CalleeTypes, UNCHANGED calleeVars, keys' \in {keys, keys + 1}
  PROVE  CalleeTypes'
<1>1. keys \in Nat /\ keys' \in Nat /\ 0..keys \subseteq 0..keys'
  BY MaxKeysAssumption DEF KeysTypeOK, Key
<1>2. UNCHANGED <<madeWith, live, shown, config, refresh, vapid, prior, given>>
  BY DEF calleeVars, refreshVars
<1>3. config \in 0..keys' /\ madeWith \in [Card -> 0..keys'] /\ vapid \in [Clicks -> 0..keys']
  BY <1>1 DEF CalleeTypes
<1> QED BY <1>2, <1>3 DEF CalleeTypes

LEMMA TypeStep == TypeOK /\ [Next]_vars => TypeOK'
<1> SUFFICES ASSUME TypeOK, [Next]_vars PROVE TypeOK'
  OBVIOUS
<1>0. KeysTypeOK /\ CalleeTypes /\ CallerTypes
  BY TypeParts
<1>1. CASE StartServer \/ StopServer
  <2>1. Load \/ DieWriting \/ Listen \/ Stop
    BY <1>1 DEF StartServer, StopServer
  <2>2. UNCHANGED calleeVars
    BY <1>1 DEF StartServer, StopServer
  <2>3. UNCHANGED <<call, to, room, answer, made>> /\ rooms' \in {rooms, {}}
    BY <1>1 DEF StartServer, StopServer, callerVars, roomVars
  <2>4. CallerTypes'
    BY <1>0, <2>3 DEF CallerTypes
  <2>5. KeysTypeOK' /\ CalleeTypes'
    BY <1>0, <2>1, <2>2, ServerTypes, CalleeGrows
  <2> QED BY <2>4, <2>5 DEF TypeOK, CalleeTypes, CallerTypes
<1>2. ASSUME UNCHANGED serverVars, CalleeTypes', CallerTypes' PROVE TypeOK'
  <2>1. KeysTypeOK'
    BY <1>0, <1>2 DEF serverVars, KeysTypeOK
  <2> QED BY <1>2, <2>1 DEF TypeOK, CalleeTypes, CallerTypes
<1>3. CASE Sweep
  <2>1. rooms' \subseteq rooms
    BY <1>3 DEF Sweep
  <2>2. UNCHANGED <<serverVars, calleeVars, callerVars, made>>
    BY <1>3 DEF Sweep
  <2>3. CallerTypes'
    BY <1>0, <2>1, <2>2 DEF CallerTypes, callerVars
  <2>4. CalleeTypes'
    BY <1>0, <2>2 DEF CalleeTypes, calleeVars, serverVars, refreshVars
  <2> QED BY <1>2, <2>2, <2>3, <2>4
<1>4. ASSUME Callee PROVE CallerTypes' /\ UNCHANGED serverVars
  <2>1. UNCHANGED <<serverVars, callerVars, roomVars>>
    BY <1>4 DEF Callee, ClickRefresh, FetchConfig, FindPrior, Unsubscribe, Subscribe,
         RefreshFails, StartCall, Expire, ReloadCallee, GiveCard, elsewhere
  <2> QED BY <1>0, <2>1 DEF CallerTypes, callerVars, roomVars
<1>5. ASSUME Callee PROVE CalleeTypes'
  <2>0. /\ keys' = keys /\ keys \in Nat /\ key \in 0..keys
        /\ MaxCards \in Nat
    BY <1>0, <1>4, <1>5, MaxKeysAssumption, MaxCardsAssumption DEF serverVars, KeysTypeOK, Key
  <2>1. ASSUME NEW k \in Clicks, ClickRefresh(k) PROVE CalleeTypes'
    BY <1>0, <2>0, <2>1 DEF ClickRefresh, CalleeTypes, elsewhere
  <2>2. ASSUME NEW k \in Clicks, FetchConfig(k) PROVE CalleeTypes'
    BY <1>0, <2>0, <2>2 DEF FetchConfig, CalleeTypes, elsewhere
  <2>3. ASSUME NEW k \in Clicks, FindPrior(k) PROVE CalleeTypes'
    BY <1>0, <2>0, <2>3 DEF FindPrior, CalleeTypes, elsewhere
  <2>4. ASSUME NEW k \in Clicks, Unsubscribe(k) PROVE CalleeTypes'
    <3>1. live' \in 0..MaxCards
      BY <1>0, <2>0, <2>4 DEF Unsubscribe, CalleeTypes, NoCard
    <3> QED BY <1>0, <2>0, <2>4, <3>1 DEF Unsubscribe, CalleeTypes, elsewhere
  <2>5. ASSUME NEW k \in Clicks, Subscribe(k) PROVE CalleeTypes'
    <3>1. madeWith' \in [Card -> 0..keys] /\ live' \in 0..MaxCards /\ shown' \in 0..MaxCards
      <4>1. CASE NewCard(k)
        <5>1. PICK n \in Card : madeWith' = [madeWith EXCEPT ![n] = vapid[k]] /\ live' = n /\ shown' = n
          BY <4>1 DEF NewCard
        <5>2. vapid[k] \in 0..keys
          BY <1>0 DEF CalleeTypes
        <5> QED BY <1>0, <2>0, <5>1, <5>2 DEF CalleeTypes, Card
      <4>2. CASE SameCard(k)
        BY <1>0, <4>2 DEF SameCard, CalleeTypes
      <4> QED BY <2>5, <4>1, <4>2 DEF Subscribe
    <3>2. refresh' = [refresh EXCEPT ![k] = "idle"] /\ UNCHANGED <<config, vapid, prior, given>>
      BY <2>5 DEF Subscribe, elsewhere
    <3> QED BY <1>0, <2>0, <3>1, <3>2 DEF CalleeTypes
  <2>6. ASSUME NEW k \in Clicks, RefreshFails(k) PROVE CalleeTypes'
    BY <1>0, <2>0, <2>6 DEF RefreshFails, CalleeTypes, elsewhere
  <2>7. CASE StartCall
    BY <1>0, <2>0, <2>7 DEF StartCall, CalleeTypes, elsewhere, refreshVars
  <2>8. CASE Expire
    BY <1>0, <2>0, <2>8 DEF Expire, CalleeTypes, elsewhere, refreshVars, NoCard
  <2>9. CASE ReloadCallee
    BY <1>0, <2>0, <2>9 DEF ReloadCallee, CalleeTypes, elsewhere, NoKey
  <2>10. CASE GiveCard
    <3>1. shown \in Card /\ given' = given \cup {shown}
      BY <1>0, <2>0, <2>10 DEF GiveCard, CalleeTypes, Card, NoCard
    <3>2. given' \subseteq Card
      BY <1>0, <3>1 DEF CalleeTypes
    <3> QED BY <1>0, <2>0, <2>10, <3>2 DEF GiveCard, CalleeTypes, refreshVars
  <2> QED
    BY <1>5, <2>1, <2>2, <2>3, <2>4, <2>5, <2>6, <2>7, <2>8, <2>9, <2>10 DEF Callee
<1>6. ASSUME Caller PROVE CalleeTypes' /\ UNCHANGED serverVars
  <2>1. UNCHANGED <<serverVars, calleeVars>>
    BY <1>6 DEF Caller, ClickCall, MakeRoom, NoRoom, Pushed, PushFails, StopWaiting
  <2> QED BY <1>0, <2>1 DEF CalleeTypes, calleeVars, refreshVars, serverVars
<1>7. ASSUME Caller PROVE CallerTypes'
  <2>0. /\ made \in 0..MaxRooms /\ MaxRooms \in Nat /\ room \in 0..made
        /\ rooms \subseteq 1..made /\ to \in 0..MaxCards
    BY <1>0, MaxRoomsAssumption DEF CallerTypes
  <2>1. CASE ClickCall
    <3>1. to' \in 0..MaxCards
      BY <1>0, <2>1, MaxCardsAssumption DEF ClickCall, CalleeTypes, Card
    <3> QED BY <1>0, <2>1, <3>1 DEF ClickCall, CallerTypes, roomVars
  <2>2. CASE MakeRoom
    <3>1. /\ made < MaxRooms /\ made' = made + 1 /\ rooms' = rooms \cup {made + 1}
          /\ room' = made + 1 /\ call' = "push" /\ UNCHANGED <<to, answer>>
      BY <2>2 DEF MakeRoom
    <3>2. made' \in 0..MaxRooms /\ room' \in 0..made' /\ rooms' \subseteq 1..made'
      BY <2>0, <3>1
    <3> QED BY <1>0, <3>1, <3>2 DEF CallerTypes
  <2>3. CASE NoRoom
    BY <1>0, <2>3 DEF NoRoom, CallerTypes, roomVars
  <2>4. CASE Pushed \/ PushFails
    <3>1. call' \in {"idle", "waiting"} /\ UNCHANGED <<to, room, rooms, made>>
      BY <2>4 DEF Pushed, PushFails, roomVars
    <3>2. answer' \in {"ok", "expired", "different key", "failed", "failed: expired"}
      BY <2>4 DEF Pushed, PushAnswers, PushFails
    <3> QED BY <1>0, <3>1, <3>2 DEF CallerTypes
  <2>5. CASE StopWaiting
    BY <1>0, <2>5 DEF StopWaiting, CallerTypes, roomVars
  <2> QED BY <1>7, <2>1, <2>2, <2>3, <2>4, <2>5 DEF Caller
<1>8. CASE UNCHANGED vars
  <2>1. UNCHANGED <<serverVars, calleeVars, callerVars, roomVars>>
    BY <1>8 DEF vars
  <2>2. CalleeTypes' /\ CallerTypes'
    BY <1>0, <2>1 DEF CalleeTypes, CallerTypes, calleeVars, refreshVars, callerVars, roomVars, serverVars
  <2> QED BY <1>2, <2>1, <2>2
<1> QED BY <1>1, <1>2, <1>3, <1>4, <1>5, <1>6, <1>7, <1>8 DEF Next

\* The server's key, the pages and the rooms keep their types.
THEOREM TypeCorrect == Spec => []TypeOK
  BY TypeInit, TypeStep, PTL DEF Spec

-----------------------------------------------------------------------------
(* One key *)

\* The key every start comes to when it can be saved.
TheKey == IF env = "pair" THEN EnvKey ELSE file

\* Before a key is saved none is known; then every page that knows one knows
\* this one.
KeyInv ==
  /\ Durable =>
       /\ proc # "down" => key = TheKey /\ key # NoKey
       /\ config \in {NoKey, TheKey}
       /\ \A k \in Clicks : vapid[k] \in {NoKey, TheKey}
       /\ \A n \in Card : madeWith[n] \in {NoKey, TheKey}
  /\ ~Durable => file = NoKey

LEMMA KeyInvInit == Init => KeyInv
  BY DEF Init, KeysInit, KeyInv, TheKey, Durable, NoKey, EnvKey

\* A start leaves the key alone once there is one; before, nobody knew any.
LEMMA KeyInvServer ==
  ASSUME TypeOK, KeyInv, Load \/ DieWriting \/ Listen \/ Stop,
         UNCHANGED <<config, vapid, madeWith>>
  PROVE  KeyInv'
<1>1. UNCHANGED <<env, disk>> /\ (Durable' <=> Durable)
  BY DEF Load, DieWriting, Listen, Stop, Durable
<1>2. CASE Load
  <2>1. proc = "down" /\ proc' = "loaded"
    BY <1>2 DEF Load
  <2>2. CASE LoadFromEnv
    BY <1>1, <2>1, <2>2 DEF LoadFromEnv, KeyInv, TheKey, NoKey, EnvKey
  <2>3. CASE LoadFromFile
    BY <1>1, <2>1, <2>3 DEF LoadFromFile, KeyInv, TheKey
  <2>4. CASE Generate
    <3>1. keys \in Nat /\ env = "none" /\ file = NoKey /\ key' = keys + 1 /\ Save(keys + 1)
      <4>0. keys \in Key
        BY DEF TypeOK, KeysTypeOK
      <4>1. keys \in Nat
        BY <4>0, MaxKeysAssumption DEF Key
      <4> QED BY <2>4, <4>1 DEF Generate
    <3>2. CASE Durable
      <4>1. disk = "durable"
        BY <3>1, <3>2 DEF Durable
      <4>2. file' = keys + 1 /\ file' # NoKey
        BY <3>1, <4>1 DEF Save, NoKey
      <4>3. /\ config = NoKey
            /\ \A k \in Clicks : vapid[k] = NoKey
            /\ \A n \in Card : madeWith[n] = NoKey
        BY <3>1, <3>2 DEF KeyInv, TheKey
      <4> QED BY <1>1, <3>1, <3>2, <4>2, <4>3 DEF KeyInv, TheKey
    <3>3. CASE ~Durable
      <4>1. disk # "durable"
        BY <3>3 DEF Durable
      <4>2. file' = NoKey
        BY <3>1, <4>1 DEF Save
      <4> QED BY <1>1, <3>3, <4>2 DEF KeyInv
    <3> QED BY <3>2, <3>3
  <2> QED BY <1>2, <2>2, <2>3, <2>4 DEF Load
<1>3. CASE DieWriting
  BY <1>1, <1>3 DEF DieWriting, KeyInv, TheKey
<1>4. CASE Listen
  BY <1>1, <1>4 DEF Listen, KeyInv, TheKey
<1>5. CASE Stop
  BY <1>1, <1>5 DEF Stop, KeyInv, TheKey
<1> QED BY <1>2, <1>3, <1>4, <1>5

\* Away from the server a key only passes from one place to another.
LEMMA KeyInvPages ==
  ASSUME TypeOK, KeyInv, UNCHANGED serverVars,
         config' = config \/ (proc = "up" /\ config' = key),
         \A k \in Clicks : vapid'[k] \in {vapid[k], config, config'},
         \A n \in Card : madeWith'[n] = madeWith[n] \/ \E k \in Clicks : madeWith'[n] = vapid[k]
  PROVE  KeyInv'
<1>1. /\ UNCHANGED <<env, disk, file, proc, key>>
      /\ (Durable' <=> Durable) /\ TheKey' = TheKey
  BY DEF serverVars, Durable, TheKey
<1>2. CASE Durable
  <2>1. config' \in {NoKey, TheKey}
    BY <1>2 DEF KeyInv
  <2>2. \A k \in Clicks : vapid'[k] \in {NoKey, TheKey}
    BY <1>2, <2>1 DEF KeyInv
  <2>3. \A n \in Card : madeWith'[n] \in {NoKey, TheKey}
    BY <1>2 DEF KeyInv
  <2> QED BY <1>1, <1>2, <2>1, <2>2, <2>3 DEF KeyInv
<1>3. CASE ~Durable
  BY <1>1, <1>3 DEF KeyInv
<1> QED BY <1>2, <1>3

LEMMA KeyInvStep == TypeOK /\ KeyInv /\ [Next]_vars => KeyInv'
<1> SUFFICES ASSUME TypeOK, KeyInv, [Next]_vars PROVE KeyInv'
  OBVIOUS
<1>0. /\ madeWith \in [Card -> 0..keys] /\ vapid \in [Clicks -> 0..keys]
  BY DEF TypeOK
<1>1. CASE StartServer \/ StopServer
  <2>1. /\ Load \/ DieWriting \/ Listen \/ Stop
        /\ UNCHANGED <<config, vapid, madeWith>>
    BY <1>1 DEF StartServer, StopServer, calleeVars, refreshVars
  <2> QED BY <2>1, KeyInvServer
<1>2. CASE Sweep \/ Caller \/ UNCHANGED vars
  <2>1. UNCHANGED serverVars /\ UNCHANGED <<config, vapid, madeWith>>
    BY <1>2 DEF Sweep, Caller, ClickCall, MakeRoom, NoRoom, Pushed, PushFails, StopWaiting,
         calleeVars, refreshVars, vars
  <2> QED BY <2>1, KeyInvPages
<1>3. ASSUME NEW k \in Clicks, ClickRefresh(k) PROVE KeyInv'
  <2>1. UNCHANGED serverVars /\ UNCHANGED <<config, madeWith>> /\ vapid' = [vapid EXCEPT ![k] = config]
    BY <1>3 DEF ClickRefresh, elsewhere
  <2> QED BY <1>0, <2>1, KeyInvPages
<1>4. ASSUME NEW k \in Clicks, FetchConfig(k) PROVE KeyInv'
  <2>1. /\ UNCHANGED serverVars /\ UNCHANGED madeWith
        /\ proc = "up" /\ config' = key /\ vapid' = [vapid EXCEPT ![k] = key]
    BY <1>4 DEF FetchConfig, elsewhere
  <2> QED BY <1>0, <2>1, KeyInvPages
<1>5. ASSUME NEW k \in Clicks, Subscribe(k) PROVE KeyInv'
  <2>1. UNCHANGED serverVars /\ UNCHANGED <<config, vapid>>
    BY <1>5 DEF Subscribe, elsewhere
  <2>2. CASE NewCard(k)
    <3>1. PICK n \in Card : madeWith' = [madeWith EXCEPT ![n] = vapid[k]]
      BY <2>2 DEF NewCard
    <3> QED BY <1>0, <2>1, <3>1, KeyInvPages
  <2>3. CASE SameCard(k)
    BY <2>1, <2>3, KeyInvPages DEF SameCard
  <2> QED BY <1>5, <2>2, <2>3 DEF Subscribe
<1>6. CASE StartCall
  BY <1>6, KeyInvPages DEF StartCall, elsewhere, refreshVars
<1>7. CASE ReloadCallee
  <2>1. UNCHANGED serverVars /\ UNCHANGED <<vapid, madeWith>> /\ config' = NoKey
    BY <1>7 DEF ReloadCallee, elsewhere
  <2>2. UNCHANGED <<env, disk, file, proc, key>>
    BY <2>1 DEF serverVars
  <2> QED BY <2>1, <2>2 DEF KeyInv, TheKey, Durable
<1>8. ASSUME NEW k \in Clicks, FindPrior(k) \/ Unsubscribe(k) \/ RefreshFails(k) PROVE KeyInv'
  <2>1. UNCHANGED serverVars /\ UNCHANGED <<config, vapid, madeWith>>
    BY <1>8 DEF FindPrior, Unsubscribe, RefreshFails, elsewhere
  <2> QED BY <2>1, KeyInvPages
<1>9. CASE Expire \/ GiveCard
  <2>1. UNCHANGED serverVars /\ UNCHANGED <<config, vapid, madeWith>>
    BY <1>9 DEF Expire, GiveCard, elsewhere, refreshVars
  <2> QED BY <2>1, KeyInvPages
<1> QED
  BY <1>1, <1>2, <1>3, <1>4, <1>5, <1>6, <1>7, <1>8, <1>9 DEF Next, Callee

LEMMA OneKeyFollows == TypeOK /\ KeyInv => OneKey
<1> SUFFICES ASSUME TypeOK, KeyInv, Durable, NEW k \in Published, proc # "down" PROVE key = k
  BY DEF OneKey
<1>1. k # NoKey /\ k \in {config} \cup {vapid[c] : c \in Clicks} \cup {madeWith[n] : n \in Card}
  BY DEF Published
<1>2. k = TheKey
  BY <1>1 DEF KeyInv
<1> QED BY <1>2 DEF KeyInv

\* Over any number of stops, starts and starts cut short, a key that is in the
\* environment or can be saved is the only one a page or a card ever knows.
THEOREM AlwaysOneKey == Spec => []OneKey
  BY TypeInit, TypeStep, KeyInvInit, KeyInvStep, OneKeyFollows, PTL DEF Spec

-----------------------------------------------------------------------------
(* What a caller is told *)

\* A serving process has a key, a run of subscribePush that is past its config
\* has read one, and every card that is held, shown, handed out or called was
\* made; before the first call there is no answer.
CardInv ==
  /\ proc # "down" => key # NoKey
  /\ \A k \in Clicks : refresh[k] \in {"existing", "unsubscribe", "subscribe"} => vapid[k] # NoKey
  /\ live = NoCard \/ live \in Made
  /\ shown = NoCard \/ shown \in Made
  /\ given \subseteq Made
  /\ to \in Made \/ (to = NoCard /\ answer = "none" /\ call = "idle")

\* A dead card stays dead, and only a server that cannot save its key, and so
\* has a new one after every start, can lack the key of a card.
TruthInv ==
  /\ answer = "expired" => to # live
  /\ answer = "different key" => ~Durable /\ madeWith[to] # key

LEMMA CardInvInit == Init => CardInv
  BY DEF Init, KeysInit, CardInv

LEMMA TruthInvInit == Init => TruthInv
  BY DEF Init, TruthInv

\* A new card is one that was not made before, and changes no other.
LEMMA NewCardMakes ==
  ASSUME TypeOK, NEW k \in Clicks, vapid[k] # NoKey, NewCard(k)
  PROVE  /\ live' \in Made' \ Made /\ shown' = live' /\ Made \subseteq Made'
         /\ \A n \in Made : madeWith'[n] = madeWith[n]
<1>1. PICK n \in Card : /\ n \notin Made
                       /\ madeWith' = [madeWith EXCEPT ![n] = vapid[k]]
                       /\ live' = n /\ shown' = n
  BY DEF NewCard
<1>2. madeWith \in [Card -> 0..keys]
  BY DEF TypeOK
<1>3. \A m \in Card : madeWith'[m] = IF m = n THEN vapid[k] ELSE madeWith[m]
  BY <1>1, <1>2
<1> QED BY <1>1, <1>3 DEF Made

LEMMA CardInvStep == TypeOK /\ CardInv /\ [Next]_vars => CardInv'
<1> SUFFICES ASSUME TypeOK, CardInv, [Next]_vars PROVE CardInv'
  OBVIOUS
<1>0. /\ vapid \in [Clicks -> 0..keys] /\ keys \in Key
      /\ refresh \in [Clicks -> {"idle", "config", "existing", "unsubscribe", "subscribe"}]
  BY DEF TypeOK, KeysTypeOK
<1>1. CASE StartServer \/ StopServer
  <2>1. /\ Load \/ DieWriting \/ Listen \/ Stop
        /\ UNCHANGED <<madeWith, live, shown, config, refresh, vapid, given, to, answer, call>>
    BY <1>1 DEF StartServer, StopServer, calleeVars, refreshVars, callerVars
  <2>2. proc' # "down" => key' # NoKey
    <3>1. CASE Load
      <4>1. keys + 1 # NoKey
        BY <1>0, MaxKeysAssumption DEF Key, NoKey
      <4> QED BY <3>1, <4>1 DEF Load, LoadFromEnv, LoadFromFile, Generate, EnvKey, NoKey
    <3>2. CASE DieWriting \/ Listen \/ Stop
      BY <3>2 DEF DieWriting, Listen, Stop, CardInv
    <3> QED BY <2>1, <3>1, <3>2
  <2>3. Made' = Made
    BY <2>1 DEF Made
  <2> QED BY <2>1, <2>2, <2>3 DEF CardInv
<1>2. CASE Sweep \/ UNCHANGED vars
  <2>1. UNCHANGED <<proc, key, madeWith, live, shown, config, refresh, vapid, given, to, answer, call>>
    BY <1>2 DEF Sweep, vars, serverVars, calleeVars, refreshVars, callerVars
  <2>2. Made' = Made
    BY <2>1 DEF Made
  <2> QED BY <2>1, <2>2 DEF CardInv
<1>3. CASE Caller
  <2>1. UNCHANGED <<proc, key, madeWith, live, shown, config, refresh, vapid, given>>
    BY <1>3 DEF Caller, ClickCall, MakeRoom, NoRoom, Pushed, PushFails, StopWaiting,
         serverVars, calleeVars, refreshVars
  <2>2. Made' = Made
    BY <2>1 DEF Made
  <2>3. to' \in Made \/ (to' = NoCard /\ answer' = "none" /\ call' = "idle")
    BY <1>3 DEF Caller, ClickCall, MakeRoom, NoRoom, Pushed, PushFails, StopWaiting, CardInv
  <2> QED BY <2>1, <2>2, <2>3 DEF CardInv
<1>4. ASSUME UNCHANGED <<serverVars, callerVars>>, UNCHANGED <<madeWith, given>>,
             live' \in {live, NoCard}, shown' \in {shown, live},
             \A k \in Clicks : refresh'[k] \in {"existing", "unsubscribe", "subscribe"} => vapid'[k] # NoKey
      PROVE  CardInv'
  <2>1. Made' = Made
    BY <1>4 DEF Made
  <2> QED BY <1>4, <2>1 DEF CardInv, serverVars, callerVars
<1>5. ASSUME NEW k \in Clicks, ClickRefresh(k) PROVE CardInv'
  <2>1. /\ UNCHANGED <<serverVars, callerVars>> /\ UNCHANGED <<madeWith, given, live, shown>>
        /\ refresh' = [refresh EXCEPT ![k] = IF config = NoKey THEN "config" ELSE "existing"]
        /\ vapid' = [vapid EXCEPT ![k] = config]
    BY <1>5 DEF ClickRefresh, elsewhere
  <2>2. \A c \in Clicks : refresh'[c] \in {"existing", "unsubscribe", "subscribe"} => vapid'[c] # NoKey
    BY <1>0, <2>1 DEF CardInv
  <2> QED BY <1>4, <2>1, <2>2
<1>6. ASSUME NEW k \in Clicks, FetchConfig(k) PROVE CardInv'
  <2>1. /\ UNCHANGED <<serverVars, callerVars>> /\ UNCHANGED <<madeWith, given, live, shown>>
        /\ refresh' = [refresh EXCEPT ![k] = "existing"]
        /\ vapid' = [vapid EXCEPT ![k] = key] /\ proc = "up"
    BY <1>6 DEF FetchConfig, elsewhere
  <2>2. \A c \in Clicks : refresh'[c] \in {"existing", "unsubscribe", "subscribe"} => vapid'[c] # NoKey
    BY <1>0, <2>1 DEF CardInv
  <2> QED BY <1>4, <2>1, <2>2
<1>7. ASSUME NEW k \in Clicks, FindPrior(k) \/ Unsubscribe(k) \/ RefreshFails(k) PROVE CardInv'
  <2>1. /\ UNCHANGED <<serverVars, callerVars>> /\ UNCHANGED <<madeWith, given, shown, vapid>>
        /\ live' \in {live, NoCard}
    BY <1>7 DEF FindPrior, Unsubscribe, RefreshFails, elsewhere
  <2>2. \A c \in Clicks : refresh'[c] \in {"existing", "unsubscribe", "subscribe"} => vapid'[c] # NoKey
    <3>1. \/ refresh' = [refresh EXCEPT ![k] = "idle"]
          \/ /\ refresh[k] \in {"existing", "unsubscribe"}
             /\ \E s \in {"unsubscribe", "subscribe"} : refresh' = [refresh EXCEPT ![k] = s]
      BY <1>7 DEF FindPrior, Unsubscribe, RefreshFails
    <3> QED BY <1>0, <2>1, <3>1 DEF CardInv
  <2> QED BY <1>4, <2>1, <2>2
<1>8. ASSUME NEW k \in Clicks, Subscribe(k) PROVE CardInv'
  <2>1. /\ UNCHANGED <<serverVars, callerVars>> /\ UNCHANGED <<given, config, vapid>>
        /\ refresh[k] = "subscribe" /\ refresh' = [refresh EXCEPT ![k] = "idle"]
    BY <1>8 DEF Subscribe, elsewhere
  <2>2. \A c \in Clicks : refresh'[c] \in {"existing", "unsubscribe", "subscribe"} => vapid'[c] # NoKey
    BY <1>0, <2>1 DEF CardInv
  <2>3. CASE NewCard(k)
    <3>1. vapid[k] # NoKey
      BY <2>1 DEF CardInv
    <3>2. live' \in Made' /\ shown' = live' /\ Made \subseteq Made'
      BY <2>3, <3>1, NewCardMakes
    <3>3. given' \subseteq Made' /\ (to' \in Made' \/ (to' = NoCard /\ answer' = "none" /\ call' = "idle"))
      BY <2>1, <3>2 DEF CardInv, callerVars
    <3>4. proc' # "down" => key' # NoKey
      BY <2>1 DEF CardInv, serverVars
    <3> QED BY <2>2, <3>2, <3>3, <3>4 DEF CardInv
  <2>4. CASE SameCard(k)
    BY <1>4, <2>1, <2>2, <2>4 DEF SameCard
  <2> QED BY <1>8, <2>3, <2>4 DEF Subscribe
<1>9. CASE StartCall \/ Expire
  <2>1. /\ UNCHANGED <<serverVars, callerVars>> /\ UNCHANGED <<madeWith, given, shown, refresh, vapid>>
        /\ live' \in {live, NoCard}
    BY <1>9 DEF StartCall, Expire, elsewhere, refreshVars
  <2> QED BY <1>4, <2>1 DEF CardInv
<1>10. CASE ReloadCallee
  <2>1. \A c \in Clicks : refresh'[c] = "idle"
    BY <1>10 DEF ReloadCallee
  <2> QED BY <1>4, <1>10, <2>1 DEF ReloadCallee, elsewhere
<1>11. CASE GiveCard
  <2>1. /\ UNCHANGED <<serverVars, callerVars, madeWith, live, shown, config, refresh, vapid>>
        /\ shown # NoCard /\ given' = given \cup {shown}
    BY <1>11 DEF GiveCard, refreshVars
  <2>2. Made' = Made
    BY <2>1 DEF Made
  <2>3. given' \subseteq Made
    BY <2>1 DEF CardInv
  <2> QED BY <2>1, <2>2, <2>3 DEF CardInv, serverVars, callerVars
<1> QED
  BY <1>1, <1>2, <1>3, <1>5, <1>6, <1>7, <1>8, <1>9, <1>10, <1>11 DEF Next, Callee

LEMMA TruthInvStep ==
  TypeOK /\ KeyInv /\ CardInv /\ TruthInv /\ [Next]_vars => TruthInv'
<1> SUFFICES ASSUME TypeOK, KeyInv, CardInv, TruthInv, [Next]_vars PROVE TruthInv'
  OBVIOUS
<1>0. madeWith \in [Card -> 0..keys] /\ keys \in Key
  BY DEF TypeOK, KeysTypeOK
<1>1. answer \in {"expired", "different key"} => to \in Made /\ to # NoCard /\ madeWith[to] # NoKey
  <2>1. \A n \in Made : n # NoCard /\ madeWith[n] # NoKey
    BY MaxCardsAssumption DEF Made, Card, NoCard
  <2>2. answer \in {"expired", "different key"} => to \in Made
    BY DEF CardInv
  <2> QED BY <2>1, <2>2
<1>2. CASE StartServer \/ StopServer
  <2>1. /\ Load \/ DieWriting \/ Listen \/ Stop
        /\ UNCHANGED <<madeWith, live, to, answer>>
    BY <1>2 DEF StartServer, StopServer, calleeVars, callerVars
  <2>2. UNCHANGED <<env, disk>>
    BY <2>1 DEF Load, DieWriting, Listen, Stop
  <2>3. ASSUME answer = "different key" PROVE madeWith[to] # key'
    <3>1. ~Durable /\ madeWith[to] # key /\ madeWith[to] \in 0..keys /\ madeWith[to] # NoKey
      BY <1>0, <1>1, <2>3 DEF TruthInv, Made
    <3>2. CASE Load
      <4>1. env # "pair" /\ file = NoKey
        BY <3>1 DEF Durable, KeyInv
      <4>2. key' = keys + 1
        BY <3>2, <4>1 DEF Load, LoadFromEnv, LoadFromFile, Generate
      <4>3. keys \in Nat
        BY <1>0, MaxKeysAssumption DEF Key
      <4> QED BY <3>1, <4>2, <4>3
    <3>3. CASE DieWriting \/ Listen \/ Stop
      BY <3>1, <3>3 DEF DieWriting, Listen, Stop
    <3> QED BY <2>1, <3>2, <3>3
  <2> QED BY <2>1, <2>2, <2>3 DEF TruthInv, Durable
<1>3. CASE Sweep \/ UNCHANGED vars
  BY <1>3 DEF Sweep, vars, serverVars, calleeVars, callerVars, TruthInv, Durable
<1>4. CASE ClickCall \/ MakeRoom \/ NoRoom \/ PushFails \/ StopWaiting
  <2>1. /\ UNCHANGED <<serverVars, calleeVars>>
        /\ UNCHANGED <<to, answer>> \/ answer' \in {"none", "failed"}
    BY <1>4 DEF ClickCall, MakeRoom, NoRoom, PushFails, StopWaiting
  <2> QED BY <2>1 DEF TruthInv, serverVars, calleeVars, Durable
<1>5. CASE Pushed
  <2>1. /\ UNCHANGED <<serverVars, calleeVars, to>> /\ call = "push" /\ proc = "up"
        /\ answer' \in PushAnswers
    BY <1>5 DEF Pushed
  <2>2. UNCHANGED <<live, madeWith, key, env, disk>>
    BY <2>1 DEF serverVars, calleeVars
  <2>3. answer' = "expired" => to' # live'
    BY <2>1, <2>2 DEF PushAnswers, Gone
  <2>4. answer' = "different key" => madeWith[to] # key
    BY <2>1 DEF PushAnswers, WrongKey
  <2>5. madeWith[to] # key => ~Durable
    <3>1. to \in Card /\ madeWith[to] # NoKey
      BY <2>1 DEF CardInv, Made
    <3> QED BY <2>1, <3>1 DEF KeyInv
  <2> QED BY <2>1, <2>2, <2>3, <2>4, <2>5 DEF TruthInv, Durable
<1>6. ASSUME UNCHANGED <<serverVars, callerVars>>, UNCHANGED madeWith, live' \in {live, NoCard}
      PROVE  TruthInv'
  BY <1>1, <1>6 DEF TruthInv, serverVars, callerVars, Durable
<1>7. ASSUME NEW k \in Clicks,
             ClickRefresh(k) \/ FetchConfig(k) \/ FindPrior(k) \/ Unsubscribe(k) \/ RefreshFails(k)
      PROVE  TruthInv'
  BY <1>6, <1>7 DEF ClickRefresh, FetchConfig, FindPrior, Unsubscribe, RefreshFails, elsewhere
<1>8. CASE StartCall \/ Expire \/ ReloadCallee \/ GiveCard
  BY <1>6, <1>8 DEF StartCall, Expire, ReloadCallee, GiveCard, elsewhere
<1>9. ASSUME NEW k \in Clicks, Subscribe(k) PROVE TruthInv'
  <2>1. UNCHANGED <<serverVars, callerVars>> /\ refresh[k] = "subscribe"
    BY <1>9 DEF Subscribe, elsewhere
  <2>2. CASE NewCard(k)
    <3>1. vapid[k] # NoKey
      BY <2>1 DEF CardInv
    <3>2. live' \notin Made /\ \A n \in Made : madeWith'[n] = madeWith[n]
      BY <2>2, <3>1, NewCardMakes
    <3> QED BY <1>1, <2>1, <3>2 DEF TruthInv, serverVars, callerVars, Durable
  <2>3. CASE SameCard(k)
    BY <1>6, <2>1, <2>3 DEF SameCard
  <2> QED BY <1>9, <2>2, <2>3 DEF Subscribe
<1> QED
  BY <1>2, <1>3, <1>4, <1>5, <1>7, <1>8, <1>9 DEF Next, Callee, Caller

\* A caller who is asked for an updated card never needed one in vain, for any
\* number of cards, keys, calls and restarts since.
THEOREM AlwaysTold == Spec => []CallerIsToldTruth
<1>1. TruthInv => CallerIsToldTruth
  BY DEF TruthInv, CallerIsToldTruth, AsksForNewCard, Gone, WrongKey
<1> QED
  BY <1>1, TypeInit, TypeStep, KeyInvInit, KeyInvStep, CardInvInit, CardInvStep,
     TruthInvInit, TruthInvStep, PTL DEF Spec

-----------------------------------------------------------------------------
(* The contacts, which are the Call Cards a caller saved (module Contacts): *)
(* the filter of deleteContact.                                            *)

\* The filter's recursion, as far as m: f[n] is what is kept of the first n.
Keeps(s, id, m, f) ==
  f = [n \in 0..m |->
         IF n = 0 THEN <<>>
         ELSE IF s[n].id = id THEN f[n - 1] ELSE Append(f[n - 1], s[n])]

\* u holds the contacts with another id among the first n of s, two of u from
\* two of s.
Sifted(s, id, n, u) ==
  /\ \A i \in DOMAIN u : \E k \in 1..n : u[i] = s[k] /\ s[k].id # id
  /\ \A k \in 1..n : s[k].id # id => \E i \in DOMAIN u : u[i] = s[k]
  /\ \A i, j \in DOMAIN u : i # j => \E k, l \in 1..n : k # l /\ u[i] = s[k] /\ u[j] = s[l]

\* Induction: what holds of 0, and of n + 1 if of n, has no first exception.
LEMMA NoFirstFailure ==
  ASSUME NEW P, P \subseteq Nat, 0 \in P, \A n \in P : n + 1 \in P
  PROVE  \A n \in Nat : n \in P
<1> DEFINE Less == {ss \in Nat \X Nat : ss[1] < ss[2]}
<1> DEFINE Bad == Nat \ P
<1>1. SUFFICES ASSUME Bad # {} PROVE FALSE
  OBVIOUS
<1>2. IsWellFoundedOn(Less, Nat)
  BY NatLessThanWellFounded DEF OpToRel
<1>3. PICK x \in Bad : \A y \in Bad : ~ (<<y, x>> \in Less)
  <2>1. Bad \subseteq Nat
    OBVIOUS
  <2> HIDE DEF Bad, Less
  <2> QED
    BY <1>1, <1>2, <2>1, WFMin
<1>4. x # 0 /\ x - 1 \in Nat /\ <<x - 1, x>> \in Less
  OBVIOUS
<1>5. x - 1 \in P
  BY <1>3, <1>4
<1> QED
  BY <1>3, <1>4, <1>5

\* The recursion defines a function.
LEMMA KeepsExists ==
  ASSUME NEW s, NEW id
  PROVE  \A m \in Nat : \E f : Keeps(s, id, m, f)
<1> DEFINE P == {m \in Nat : \E f : Keeps(s, id, m, f)}
<1>1. 0 \in P
  <2> DEFINE f == [n \in 0..0 |-> <<>>]
  <2>1. f = [n \in 0..0 |->
         IF n = 0 THEN <<>>
         ELSE IF s[n].id = id THEN f[n - 1] ELSE Append(f[n - 1], s[n])]
    OBVIOUS
  <2>2. Keeps(s, id, 0, f)
    BY <2>1, Zenon DEF Keeps
  <2> HIDE DEF f
  <2> QED
    BY <2>2
<1>2. ASSUME NEW m \in P PROVE m + 1 \in P
  <2>1. PICK f : Keeps(s, id, m, f)
    OBVIOUS
  <2> DEFINE next == IF s[m + 1].id = id THEN f[m] ELSE Append(f[m], s[m + 1])
  <2> DEFINE g == [n \in 0..m + 1 |-> IF n = m + 1 THEN next ELSE f[n]]
  <2>2. \A n \in 0..m + 1 : g[n] = IF n = 0 THEN <<>>
                ELSE IF s[n].id = id THEN g[n - 1] ELSE Append(g[n - 1], s[n])
    <3> SUFFICES ASSUME NEW n \in 0..m + 1
                 PROVE  g[n] = IF n = 0 THEN <<>>
                    ELSE IF s[n].id = id THEN g[n - 1] ELSE Append(g[n - 1], s[n])
      OBVIOUS
    <3>1. CASE n = m + 1
      <4>1. n # 0 /\ n - 1 = m /\ m \in 0..m + 1 /\ m # m + 1 /\ n \in 0..m + 1
        BY <3>1
      <4>2. g[m] = f[m]
        BY <4>1
      <4>3. g[n] = next
        BY <3>1
      <4> HIDE DEF g
      <4> QED
        BY <3>1, <4>1, <4>2, <4>3
    <3>2. CASE n # m + 1
      <4>1. n \in 0..m /\ (n # 0 => n - 1 \in 0..m /\ n - 1 # m + 1)
        BY <3>2
      <4>2. f[n] = IF n = 0 THEN <<>>
                ELSE IF s[n].id = id THEN f[n - 1] ELSE Append(f[n - 1], s[n])
        BY <2>1, <4>1 DEF Keeps
      <4>3. g[n] = f[n] /\ (n # 0 => g[n - 1] = f[n - 1])
        BY <3>2, <4>1
      <4> HIDE DEF g
      <4> QED
        BY <4>2, <4>3
    <3> QED
      BY <3>1, <3>2
  <2>3. g = [n \in 0..m + 1 |-> g[n]]
    OBVIOUS
  <2> HIDE DEF g
  <2>4. g = [n \in 0..m + 1 |-> IF n = 0 THEN <<>>
                ELSE IF s[n].id = id THEN g[n - 1] ELSE Append(g[n - 1], s[n])]
    BY <2>2, <2>3
  <2>5. Keeps(s, id, m + 1, g)
    BY <2>4, Zenon DEF Keeps
  <2>6. \E h : Keeps(s, id, m + 1, h)
    BY <2>5
  <2> QED
    BY <2>6
<1> HIDE DEF P
<1>3. \A m \in Nat : m \in P
  <2>1. P \subseteq Nat
    BY DEF P
  <2> QED
    BY <1>1, <1>2, <2>1, NoFirstFailure
<1> QED
  BY <1>3 DEF P

\* What is kept of the first n is those of them with another id.
LEMMA KeepsSifts ==
  ASSUME NEW S, NEW s \in Seq(S), NEW id, NEW f, Keeps(s, id, Len(s), f)
  PROVE  \A n \in 0..Len(s) : f[n] \in Seq(S) /\ Sifted(s, id, n, f[n])
<1> DEFINE P == {n \in Nat : n <= Len(s) => f[n] \in Seq(S) /\ Sifted(s, id, n, f[n])}
<1>0. \A n \in 0..Len(s) : f[n] = IF n = 0 THEN <<>>
         ELSE IF s[n].id = id THEN f[n - 1] ELSE Append(f[n - 1], s[n])
  BY DEF Keeps
<1>1. 0 \in P
  <2>1. f[0] = <<>>
    BY <1>0
  <2>2. <<>> \in Seq(S) /\ DOMAIN <<>> = {} /\ 1..0 = {}
    OBVIOUS
  <2>3. Sifted(s, id, 0, <<>>)
    BY <2>2, Zenon DEF Sifted
  <2> QED
    BY <2>1, <2>2, <2>3
<1>2. ASSUME NEW n \in P PROVE n + 1 \in P
  <2> SUFFICES ASSUME n + 1 <= Len(s)
               PROVE  f[n + 1] \in Seq(S) /\ Sifted(s, id, n + 1, f[n + 1])
    OBVIOUS
  <2>1. /\ n \in Nat /\ n + 1 \in 1..Len(s) /\ s[n + 1] \in S
        /\ f[n] \in Seq(S) /\ Sifted(s, id, n, f[n])
    OBVIOUS
  <2>2. f[n + 1] = IF s[n + 1].id = id THEN f[n] ELSE Append(f[n], s[n + 1])
    BY <1>0, <2>1
  <2>3. CASE s[n + 1].id = id
    BY <2>1, <2>2, <2>3 DEF Sifted
  <2>4. CASE s[n + 1].id # id
    <3> DEFINE u == f[n]
    <3> DEFINE v == Append(u, s[n + 1])
    <3>1. /\ f[n + 1] = v /\ v \in Seq(S) /\ DOMAIN v = 1..Len(u) + 1
          /\ v[Len(u) + 1] = s[n + 1] /\ \A i \in 1..Len(u) : v[i] = u[i]
          /\ DOMAIN u = 1..Len(u) /\ Len(u) \in Nat
      BY <2>1, <2>2, <2>4
    <3> HIDE DEF u, v
    <3>2. Sifted(s, id, n, u)
      BY <2>1 DEF u
    <3>3. \A i \in DOMAIN v : \E k \in 1..n + 1 : v[i] = s[k] /\ s[k].id # id
      BY <2>1, <2>4, <3>1, <3>2 DEF Sifted
    <3>4. \A k \in 1..n + 1 : s[k].id # id => \E i \in DOMAIN v : v[i] = s[k]
      <4> SUFFICES ASSUME NEW k \in 1..n + 1, s[k].id # id
                   PROVE  \E i \in DOMAIN v : v[i] = s[k]
        OBVIOUS
      <4>1. CASE k = n + 1
        <5>1. Len(u) + 1 \in DOMAIN v
          BY <3>1
        <5> QED
          BY <3>1, <4>1, <5>1
      <4>2. CASE k # n + 1
        <5>1. k \in 1..n
          BY <2>1, <4>2
        <5>2. PICK i \in DOMAIN u : u[i] = s[k]
          BY <3>2, <5>1 DEF Sifted
        <5>3. i \in DOMAIN v /\ v[i] = u[i]
          BY <3>1
        <5> QED
          BY <5>2, <5>3
      <4> QED
        BY <4>1, <4>2
    <3>5. ASSUME NEW i \in DOMAIN v, NEW j \in DOMAIN v, i # j
          PROVE  \E k, l \in 1..n + 1 : k # l /\ v[i] = s[k] /\ v[j] = s[l]
      <4>1. CASE i \in 1..Len(u) /\ j \in 1..Len(u)
        <5>1. PICK k, l \in 1..n : k # l /\ u[i] = s[k] /\ u[j] = s[l]
          <6>1. i \in DOMAIN u /\ j \in DOMAIN u
            BY <3>1, <4>1
          <6> QED
            BY <3>2, <3>5, <6>1, Zenon DEF Sifted
        <5>2. k \in 1..n + 1 /\ l \in 1..n + 1
          BY <2>1
        <5> QED
          BY <3>1, <4>1, <5>1, <5>2
      <4>2. CASE i = Len(u) + 1 /\ j \in 1..Len(u)
        <5>1. PICK l \in 1..n : u[j] = s[l]
          BY <3>1, <3>2, <4>2 DEF Sifted
        <5>2. n + 1 # l /\ n + 1 \in 1..n + 1 /\ l \in 1..n + 1
          BY <2>1
        <5> QED
          BY <3>1, <4>2, <5>1, <5>2
      <4>3. CASE i \in 1..Len(u) /\ j = Len(u) + 1
        <5>1. PICK k \in 1..n : u[i] = s[k]
          BY <3>1, <3>2, <4>3 DEF Sifted
        <5>2. n + 1 # k /\ n + 1 \in 1..n + 1 /\ k \in 1..n + 1
          BY <2>1
        <5> QED
          BY <3>1, <4>3, <5>1, <5>2
      <4> QED
        BY <3>1, <3>5, <4>1, <4>2, <4>3
    <3>6. Sifted(s, id, n + 1, v)
      BY <3>3, <3>4, <3>5 DEF Sifted
    <3> QED
      BY <3>1, <3>6
  <2> QED
    BY <2>3, <2>4
<1> HIDE DEF P
<1>3. \A n \in Nat : n \in P
  <2>1. P \subseteq Nat
    BY DEF P
  <2> QED
    BY <1>1, <1>2, <2>1, NoFirstFailure
<1> QED
  BY <1>3 DEF P

\* deleteContact's filter keeps the contacts with another id, each once.
LEMMA WithoutSifts ==
  ASSUME NEW S, NEW s \in Seq(S), NEW id
  PROVE  Without(s, id) \in Seq(S) /\ Sifted(s, id, Len(s), Without(s, id))
<1> DEFINE kept == CHOOSE f : Keeps(s, id, Len(s), f)
<1>1. Len(s) \in Nat /\ Len(s) \in 0..Len(s)
  OBVIOUS
<1>2. Keeps(s, id, Len(s), kept)
  BY <1>1, KeepsExists, Zenon
<1>3. Without(s, id) = kept[Len(s)]
  BY Zenon DEF Without, Keeps
<1> HIDE DEF kept
<1> QED
  BY <1>1, <1>2, <1>3, KeepsSifts

-----------------------------------------------------------------------------
(* The ids, by which a contact is deleted. *)

Lists == {stored} \cup {list[t] : t \in Tabs}
Saved == (UNION {ToSet(s) : s \in Lists}) \cup meant

IdOnce(s) == \A i, j \in DOMAIN s : i # j => s[i].id # s[j].id
NameAndCardOnce(s) ==
  \A i, j \in DOMAIN s : i # j => s[i].name # s[j].name /\ s[i].card # s[j].card

\* An id is that of one contact, wherever it is listed, and no list has it
\* twice.
IdsNameContacts ==
  /\ \A c \in Saved : c.id <= saves
  /\ \A c, d \in Saved : c.id = d.id => c = d
  /\ \A s \in Lists : IdOnce(s)

ContactsInv == ContactsTypeOK /\ IdsNameContacts /\ LostByMishapOnly /\ OneEach

\* What a save and a delete have in common: tab t writes u, in which the
\* contacts gone are replaced by the new one, if any.
Change(t, u, gone, new) ==
  /\ SaveContacts(t, u)
  /\ u \in Seq(Contact) /\ IdOnce(u)
  /\ ToSet(u) = (ToSet(list[t]) \ gone) \cup new
  /\ gone \subseteq ToSet(list[t])
  /\ new \subseteq Contact
  /\ \A c \in new : c.id = saves' /\ saves < saves'
  /\ \A c, d \in new : c = d
  /\ meant' = (meant \ gone) \cup new
  /\ saves' \in 0..MaxSaves /\ saves <= saves'
  /\ matchedTwo' \in BOOLEAN /\ (matchedTwo => matchedTwo')
  /\ ~matchedTwo' => NameAndCardOnce(u)

\* The contacts of a list that is typed.
LEMMA Members ==
  ASSUME NEW s \in Seq(Contact)
  PROVE  /\ ToSet(s) \subseteq Contact
         /\ \A c : c \in ToSet(s) <=> \E i \in DOMAIN s : c = s[i]
  BY DEF ToSet

\* Whatever is listed or meant is a contact.
LEMMA SavedTyped ==
  ASSUME ContactsTypeOK
  PROVE  Saved \subseteq Contact
<1>1. \A s \in Lists : s \in Seq(Contact)
  BY DEF ContactsTypeOK, Lists
<1>2. \A s \in Lists : ToSet(s) \subseteq Contact
  BY <1>1, Members
<1>3. meant \subseteq Contact
  BY DEF ContactsTypeOK
<1> QED
  BY <1>2, <1>3, Zenon DEF Saved

\* Deleting a contact takes it from the list, and nothing else.
LEMMA DeleteChanges ==
  ASSUME ContactsInv, NEW t \in Tabs, NEW c \in ToSet(list[t]), DeleteContact(t, c)
  PROVE  Change(t, Without(list[t], c.id), {c}, {})
<1> DEFINE l == list[t]
<1> DEFINE u == Without(l, c.id)
<1>1. l \in Seq(Contact) /\ l \in Lists /\ c \in ToSet(l)
  BY DEF ContactsInv, ContactsTypeOK, Lists
<1>2. u \in Seq(Contact) /\ Sifted(l, c.id, Len(l), u)
  BY <1>1, WithoutSifts
<1>3. SaveContacts(t, u) /\ meant' = meant \ {c} /\ saves' = saves /\ matchedTwo' = matchedTwo
  BY DEF DeleteContact
<1>4. IdOnce(l) /\ (~matchedTwo => NameAndCardOnce(l))
  BY <1>1, Zenon DEF ContactsInv, IdsNameContacts, OneEach, Lists, NameAndCardOnce
<1>5. \A d \in ToSet(l) : d.id = c.id => d = c
  BY <1>1, Zenon DEF ContactsInv, IdsNameContacts, Saved
<1> HIDE DEF l, u
<1>6. DOMAIN l = 1..Len(l)
  BY <1>1
<1>7. IdOnce(u)
  <2> SUFFICES ASSUME NEW i \in DOMAIN u, NEW j \in DOMAIN u, i # j
               PROVE  u[i].id # u[j].id
    BY DEF IdOnce
  <2>1. PICK k, m \in 1..Len(l) : k # m /\ u[i] = l[k] /\ u[j] = l[m]
    BY <1>2, Zenon DEF Sifted
  <2> QED
    BY <1>4, <1>6, <2>1 DEF IdOnce
<1>8. ~matchedTwo => NameAndCardOnce(u)
  <2> SUFFICES ASSUME ~matchedTwo, NEW i \in DOMAIN u, NEW j \in DOMAIN u, i # j
               PROVE  u[i].name # u[j].name /\ u[i].card # u[j].card
    BY DEF NameAndCardOnce
  <2>1. PICK k, m \in 1..Len(l) : k # m /\ u[i] = l[k] /\ u[j] = l[m]
    BY <1>2, Zenon DEF Sifted
  <2> QED
    BY <1>4, <1>6, <2>1, Zenon DEF NameAndCardOnce
<1>9. ToSet(u) = ToSet(l) \ {c}
  <2>1. ASSUME NEW d \in ToSet(u) PROVE d \in ToSet(l) /\ d # c
    <3>1. PICK i \in DOMAIN u : d = u[i]
      BY <1>2, Members
    <3>2. PICK k \in 1..Len(l) : d = l[k] /\ l[k].id # c.id
      BY <1>2, <3>1 DEF Sifted
    <3> QED
      BY <1>1, <1>6, <3>2, Members
  <2>2. ASSUME NEW d \in ToSet(l), d # c PROVE d \in ToSet(u)
    <3>1. PICK k \in DOMAIN l : d = l[k]
      BY <1>1, Members
    <3>2. d.id # c.id
      BY <1>5, <2>2
    <3>3. PICK i \in DOMAIN u : u[i] = d
      BY <1>2, <1>6, <3>1, <3>2 DEF Sifted
    <3> QED
      BY <1>2, <3>3, Members
  <2> QED
    BY <2>1, <2>2
<1>10. saves' \in 0..MaxSaves /\ saves <= saves'
  BY <1>3 DEF ContactsInv, ContactsTypeOK
<1>11. matchedTwo' \in BOOLEAN
  BY <1>3, Zenon DEF ContactsInv, ContactsTypeOK
<1> QED
  BY <1>1, <1>2, <1>3, <1>7, <1>8, <1>9, <1>10, <1>11, Zenon DEF Change, l, u

\* The contact with the lowest place among some of a list.
LEMMA FirstOf ==
  ASSUME NEW P, P \subseteq Nat, P # {}
  PROVE  \E i \in P : \A j \in P : i <= j
<1> DEFINE Less == {ss \in Nat \X Nat : ss[1] < ss[2]}
<1>1. IsWellFoundedOn(Less, Nat)
  BY NatLessThanWellFounded DEF OpToRel
<1>2. \A x, y \in Nat : <<y, x>> \in Less <=> y < x
  OBVIOUS
<1> HIDE DEF Less
<1>3. PICK x \in P : \A y \in P : ~ (<<y, x>> \in Less)
  BY <1>1, WFMin
<1>4. ASSUME NEW y \in P PROVE x <= y
  <2>1. x \in Nat /\ y \in Nat
    OBVIOUS
  <2>2. ~ (y < x)
    BY <1>2, <1>3, <2>1
  <2> QED
    BY <2>1, <2>2
<1> QED
  BY <1>4

\* What a save writes: the new contact with an id of its own, after the others
\* or in the place of the one it is found to replace.
LEMMA SaveChanges ==
  ASSUME ContactsInv, NEW t \in Tabs, NEW name \in Names \cup {Blank}, NEW text \in Text,
         HandleSaveContact(t, name, text)
  PROVE  \E u, gone, new : Change(t, u, gone, new)
<1> DEFINE l == list[t]
<1> DEFINE card == Parse(text)
<1> DEFINE c == [id |-> saves + 1, name |-> name, card |-> card]
<1> DEFINE found == Matching(t, name, card)
<1> DEFINE first == CHOOSE i \in found : \A j \in found : i <= j
<1>1. /\ name # Blank /\ card # NotACard
      /\ saves < MaxSaves
      /\ saves' = saves + 1
      /\ SaveContacts(t, IF found = {} THEN Append(l, c) ELSE [l EXCEPT ![first] = c])
      /\ meant' = (IF found = {} THEN meant ELSE meant \ {l[first]}) \cup {c}
      /\ matchedTwo' = (matchedTwo \/ \E i, j \in found : i # j)
  BY DEF HandleSaveContact
<1>2. /\ l \in Seq(Contact) /\ l \in Lists
      /\ saves \in 0..MaxSaves /\ MaxSaves \in Int
      /\ found = {i \in DOMAIN l : l[i].card = card \/ l[i].name = name}
  <2>1. l \in Seq(Contact) /\ l \in Lists
    BY DEF ContactsInv, ContactsTypeOK, Lists
  <2>2. saves \in 0..MaxSaves
    BY Zenon DEF ContactsInv, ContactsTypeOK
  <2>3. MaxSaves \in Int
    BY MaxSavesAssumption
  <2>4. found = {i \in DOMAIN l : l[i].card = card \/ l[i].name = name}
    BY Zenon DEF Matching, Matches
  <2> QED
    BY <2>1, <2>2, <2>3, <2>4
<1>3. matchedTwo \in BOOLEAN
  BY Zenon DEF ContactsInv, ContactsTypeOK
<1>4. IdOnce(l) /\ (~matchedTwo => NameAndCardOnce(l))
  BY <1>2, Zenon DEF ContactsInv, IdsNameContacts, OneEach, Lists, NameAndCardOnce
<1>5. \A d \in ToSet(l) : d.id <= saves
  BY <1>2, Zenon DEF ContactsInv, IdsNameContacts, Saved
<1>6. card \in Cards
  BY <1>1 DEF Parse, Text
<1>7. saves + 1 \in 1..MaxSaves /\ saves + 1 \in 0..MaxSaves /\ saves < saves + 1
  BY <1>1, <1>2
<1>8. c \in Contact /\ c.id = saves + 1 /\ c.name = name /\ c.card = card
  BY <1>1, <1>6, <1>7 DEF Contact
<1>9. \A i \in DOMAIN l : l[i] \in ToSet(l) /\ l[i].id # c.id /\ l[i].id <= saves
  <2> SUFFICES ASSUME NEW i \in DOMAIN l PROVE l[i] \in ToSet(l) /\ l[i].id # c.id /\ l[i].id <= saves
    OBVIOUS
  <2>1. l[i] \in Contact /\ l[i] \in ToSet(l)
    BY <1>2, Members
  <2>2. l[i].id \in Int
    BY <2>1 DEF Contact
  <2> QED
    BY <1>2, <1>5, <1>8, <2>1, <2>2
<1>10. matchedTwo' \in BOOLEAN /\ (matchedTwo => matchedTwo')
  BY <1>1, <1>3, Zenon
<1>11. DOMAIN l = 1..Len(l) /\ Len(l) \in Nat
  BY <1>2
<1>12. CASE found = {}
  <2> DEFINE u == Append(l, c)
  <2>1. /\ u \in Seq(Contact) /\ DOMAIN u = 1..Len(l) + 1
        /\ u[Len(l) + 1] = c /\ \A i \in DOMAIN l : u[i] = l[i]
    BY <1>2, <1>8
  <2>2. SaveContacts(t, u) /\ meant' = (meant \ {}) \cup {c}
    BY <1>1, <1>12
  <2>3. \A i \in DOMAIN l : l[i].card # card /\ l[i].name # name
    BY <1>2, <1>12
  <2> HIDE DEF l, c, found, first, u, card
  <2>4. \A i \in DOMAIN u : i \in DOMAIN l \/ i = Len(l) + 1
    BY <1>11, <2>1
  <2>5. IdOnce(u)
    BY <1>4, <1>9, <2>1, <2>4 DEF IdOnce
  <2>6. ~matchedTwo' => NameAndCardOnce(u)
    <3> SUFFICES ASSUME ~matchedTwo', NEW i \in DOMAIN u, NEW j \in DOMAIN u, i # j
                 PROVE  u[i].name # u[j].name /\ u[i].card # u[j].card
      BY DEF NameAndCardOnce
    <3>1. NameAndCardOnce(l)
      BY <1>4, <1>10, Zenon
    <3>2. CASE i \in DOMAIN l /\ j \in DOMAIN l
      BY <2>1, <3>1, <3>2 DEF NameAndCardOnce
    <3>3. CASE i = Len(l) + 1 /\ j \in DOMAIN l
      BY <1>8, <2>1, <2>3, <3>3
    <3>4. CASE i \in DOMAIN l /\ j = Len(l) + 1
      BY <1>8, <2>1, <2>3, <3>4
    <3> QED
      BY <2>4, <3>2, <3>3, <3>4
  <2>7. ToSet(u) = (ToSet(l) \ {}) \cup {c}
    <3>1. \A d : d \in ToSet(u) <=> \E i \in DOMAIN u : d = u[i]
      BY <2>1, Members
    <3>2. \A d : d \in ToSet(l) <=> \E i \in DOMAIN l : d = l[i]
      BY <1>2, Members
    <3>3. DOMAIN l \subseteq DOMAIN u /\ Len(l) + 1 \in DOMAIN u
      BY <1>11, <2>1
    <3>4. ASSUME NEW d \in ToSet(u) PROVE d \in ToSet(l) \/ d = c
      BY <2>1, <2>4, <3>1, <3>2
    <3>5. ASSUME NEW d, d \in ToSet(l) \/ d = c PROVE d \in ToSet(u)
      BY <2>1, <3>1, <3>2, <3>3, <3>5
    <3> QED
      BY <3>4, <3>5
  <2>8. Change(t, u, {}, {c})
    <3>1. /\ saves' \in 0..MaxSaves /\ saves <= saves'
          /\ \A d \in {c} : d.id = saves' /\ saves < saves'
      BY <1>1, <1>2, <1>7, <1>8
    <3>2. {c} \subseteq Contact
      BY <1>8
    <3> QED
      BY <1>10, <2>1, <2>2, <2>5, <2>6, <2>7, <3>1, <3>2, Zenon DEF Change, l
  <2> QED
    BY <2>8
<1>13. CASE found # {}
  <2>1. found \subseteq Nat
    BY <1>2, <1>11
  <2>2. \E i \in found : \A j \in found : i <= j
    BY <1>13, <2>1, FirstOf, Zenon
  <2>3. first \in found
    BY <2>2
  <2> DEFINE u == [l EXCEPT ![first] = c]
  <2>4. /\ first \in DOMAIN l
        /\ SaveContacts(t, u) /\ meant' = (meant \ {l[first]}) \cup {c}
    BY <1>1, <1>2, <1>13, <2>3
  <2>5. ~matchedTwo' => \A i \in DOMAIN l : i # first => l[i].card # card /\ l[i].name # name
    <3> SUFFICES ASSUME ~matchedTwo', NEW i \in DOMAIN l, i # first
                 PROVE  l[i].card # card /\ l[i].name # name
      OBVIOUS
    <3>1. i \notin found
      BY <1>1, <2>3
    <3> QED
      BY <1>2, <3>1
  <2> HIDE DEF first
  <2>6. /\ u \in Seq(Contact) /\ DOMAIN u = DOMAIN l
        /\ u[first] = c /\ \A i \in DOMAIN l : i # first => u[i] = l[i]
    BY <1>2, <1>8, <2>4
  <2> HIDE DEF l, c, found, u, card
  <2>7. IdOnce(u)
    BY <1>4, <1>9, <2>4, <2>6 DEF IdOnce
  <2>8. ~matchedTwo' => NameAndCardOnce(u)
    <3> SUFFICES ASSUME ~matchedTwo', NEW i \in DOMAIN u, NEW j \in DOMAIN u, i # j
                 PROVE  u[i].name # u[j].name /\ u[i].card # u[j].card
      BY DEF NameAndCardOnce
    <3>1. NameAndCardOnce(l)
      BY <1>4, <1>10, Zenon
    <3>2. CASE i # first /\ j # first
      BY <2>6, <3>1, <3>2 DEF NameAndCardOnce
    <3>3. CASE i = first /\ j # first
      BY <1>8, <2>5, <2>6, <3>3
    <3>4. CASE i # first /\ j = first
      BY <1>8, <2>5, <2>6, <3>4
    <3> QED
      BY <3>2, <3>3, <3>4
  <2>9. ToSet(u) = (ToSet(l) \ {l[first]}) \cup {c}
    <3>1. \A d : d \in ToSet(u) <=> \E i \in DOMAIN u : d = u[i]
      BY <2>6, Members
    <3>2. \A d : d \in ToSet(l) <=> \E i \in DOMAIN l : d = l[i]
      BY <1>2, Members
    <3>3. \A i \in DOMAIN l : i # first => l[i] # l[first]
      BY <1>4, <2>4 DEF IdOnce
    <3>4. ASSUME NEW d \in ToSet(u) PROVE d \in ToSet(l) \ {l[first]} \/ d = c
      BY <2>6, <3>1, <3>2, <3>3
    <3>5. ASSUME NEW d, d \in ToSet(l) \ {l[first]} \/ d = c PROVE d \in ToSet(u)
      BY <2>4, <2>6, <3>1, <3>2, <3>5
    <3> QED
      BY <3>4, <3>5
  <2>10. Change(t, u, {l[first]}, {c})
    <3>1. /\ saves' \in 0..MaxSaves /\ saves <= saves'
          /\ \A d \in {c} : d.id = saves' /\ saves < saves'
      BY <1>1, <1>2, <1>7, <1>8
    <3>2. {c} \subseteq Contact
      BY <1>8
    <3>3. {l[first]} \subseteq ToSet(l)
      BY <1>9, <2>4
    <3> QED
      BY <1>10, <2>4, <2>6, <2>7, <2>8, <2>9, <3>1, <3>2, <3>3, Zenon DEF Change, l
  <2> QED
    BY <2>10
<1> QED
  BY <1>12, <1>13

\* The new contact has an id no other one has, so the ids stay as they were.
LEMMA ChangeKeepsIds ==
  ASSUME ContactsInv, NEW t \in Tabs, NEW u, NEW gone, NEW new, Change(t, u, gone, new)
  PROVE  IdsNameContacts'
<1>1. \A s \in Lists' : s = u \/ s \in Lists
  <2>1. ASSUME NEW s \in Lists' PROVE s = u \/ s \in Lists
    <3>1. CASE s = stored'
      BY <3>1 DEF Change, SaveContacts, Lists
    <3>2. CASE \E v \in Tabs : s = list'[v]
      <4>1. PICK v \in Tabs : s = list'[v]
        BY <3>2
      <4> QED
        BY <4>1 DEF Change, SaveContacts, Lists, ContactsInv, ContactsTypeOK
    <3> QED
      BY <3>1, <3>2 DEF Lists
  <2> QED
    BY <2>1
<1>2. list[t] \in Lists
  BY DEF Lists
<1>3. ToSet(u) \subseteq Saved \cup new
  BY <1>2, Zenon DEF Change, Saved
<1>4. meant' \subseteq Saved \cup new
  BY Zenon DEF Change, Saved
<1>5. Saved' \subseteq Saved \cup new
  <2>1. ASSUME NEW d \in Saved' PROVE d \in Saved \cup new
    <3>1. CASE d \in meant'
      BY <1>4, <3>1
    <3>2. CASE \E s \in Lists' : d \in ToSet(s)
      <4>1. PICK s \in Lists' : d \in ToSet(s)
        BY <3>2
      <4>2. CASE s = u
        BY <1>3, <4>1, <4>2
      <4>3. CASE s \in Lists
        BY <4>1, <4>3, Zenon DEF Saved
      <4> QED
        BY <1>1, <4>2, <4>3
    <3>3. \E s \in Lists' : d \in ToSet(s) \/ d \in meant'
      BY <2>1, Zenon DEF Saved, Lists
    <3> QED
      BY <3>1, <3>2, <3>3
  <2> QED
    BY <2>1
<1>6. /\ saves \in Int /\ saves' \in Int /\ saves <= saves'
      /\ \A d \in new : d.id = saves' /\ saves < saves'
      /\ \A d, e \in new : d = e
  BY DEF Change, ContactsInv, ContactsTypeOK
<1>7. \A d \in Saved : d.id \in Int /\ d.id <= saves
  BY SavedTyped DEF ContactsInv, IdsNameContacts, Contact
<1>8. \A d, e \in Saved : d.id = e.id => d = e
  BY Zenon DEF ContactsInv, IdsNameContacts
<1>9. \A d \in Saved \cup new : d.id <= saves'
  BY <1>6, <1>7
<1>10. \A d, e \in Saved \cup new : d.id = e.id => d = e
  BY <1>6, <1>7, <1>8
<1>11. \A s \in Lists' : IdOnce(s)
  BY <1>1, Zenon DEF Change, ContactsInv, IdsNameContacts
<1> QED
  BY <1>5, <1>9, <1>10, <1>11, Zenon DEF IdsNameContacts

\* A write stores the tab's list: what was stored and is not in it is lost to
\* a stale copy, or was meant to go.  A write that fails loses the change.
LEMMA ChangeLosesByMishap ==
  ASSUME ContactsInv, NEW t \in Tabs, NEW u, NEW gone, NEW new, Change(t, u, gone, new)
  PROVE  LostByMishapOnly'
<1> DEFINE l == list[t]
<1> DEFINE S(s) == ToSet(s)
<1>1. /\ meant \ S(stored) \subseteq overwritten \cup unsaved
      /\ S(stored) \ meant \subseteq overwritten \cup unsaved
  BY Zenon DEF ContactsInv, LostByMishapOnly
<1>2. /\ S(u) = (S(l) \ gone) \cup new
      /\ meant' = (meant \ gone) \cup new
      /\ gone \subseteq S(l)
  BY Zenon DEF Change
<1>3. new \cap S(stored) = {}
  <2>1. stored \in Lists
    BY DEF Lists
  <2>2. \A d \in S(stored) : d \in Saved
    BY <2>1, Zenon DEF Saved
  <2>3. \A d \in S(stored) : d.id \in Int /\ d.id <= saves
    BY <2>2, SavedTyped DEF ContactsInv, IdsNameContacts, Contact
  <2>4. \A d \in new : d.id = saves' /\ saves < saves' /\ saves \in Int /\ saves' \in Int
    BY DEF Change, ContactsInv, ContactsTypeOK
  <2> HIDE DEF S
  <2> QED
    BY <2>3, <2>4
<1>4. CASE /\ stored' = u
           /\ overwritten' = overwritten \cup Differ(l, stored)
           /\ unsaved' = unsaved
  <2>1. overwritten' = overwritten \cup (S(l) \ S(stored)) \cup (S(stored) \ S(l))
    BY <1>4, Zenon DEF Differ
  <2> HIDE DEF S, l
  <2>2. meant' \ S(u) \subseteq overwritten' \cup unsaved'
    BY <1>1, <1>2, <1>4, <2>1
  <2>3. S(u) \ meant' \subseteq overwritten' \cup unsaved'
    BY <1>1, <1>2, <1>4, <2>1
  <2> QED
    BY <1>4, <2>2, <2>3 DEF LostByMishapOnly, S
<1>5. CASE /\ stored' = stored
           /\ overwritten' = overwritten
           /\ unsaved' = unsaved \cup Differ(u, stored)
  <2>1. unsaved' = unsaved \cup (S(u) \ S(stored)) \cup (S(stored) \ S(u))
    BY <1>5, Zenon DEF Differ
  <2> HIDE DEF S, l
  <2>2. meant' \ S(stored) \subseteq overwritten' \cup unsaved'
    BY <1>1, <1>2, <1>3, <1>5, <2>1
  <2>3. S(stored) \ meant' \subseteq overwritten' \cup unsaved'
    BY <1>1, <1>2, <1>3, <1>5, <2>1
  <2> QED
    BY <1>5, <2>2, <2>3 DEF LostByMishapOnly, S
<1> QED
  BY <1>4, <1>5 DEF Change, SaveContacts

\* A save or a delete keeps all four, whether or not it could be stored.
LEMMA ChangeKeeps ==
  ASSUME ContactsInv, NEW t \in Tabs, NEW u, NEW gone, NEW new, Change(t, u, gone, new)
  PROVE  ContactsInv'
<1>1. /\ list' = [list EXCEPT ![t] = u] /\ list \in [Tabs -> Seq(Contact)]
      /\ u \in Seq(Contact)
  BY DEF Change, SaveContacts, ContactsInv, ContactsTypeOK
<1>2. stored' = u \/ stored' = stored
  BY DEF Change, SaveContacts
<1>3. ContactsTypeOK'
  <2>1. saves' \in 0..MaxSaves /\ matchedTwo' \in BOOLEAN
    BY Zenon DEF Change
  <2>2. stored' \in Seq(Contact) /\ list' \in [Tabs -> Seq(Contact)]
    BY <1>1, <1>2 DEF ContactsInv, ContactsTypeOK
  <2>3. meant' \subseteq Contact
    BY Zenon DEF Change, ContactsInv, ContactsTypeOK
  <2>4. /\ ToSet(u) \subseteq Contact /\ ToSet(stored) \subseteq Contact
        /\ ToSet(list[t]) \subseteq Contact
    BY <1>1, Members DEF ContactsInv, ContactsTypeOK
  <2>5. overwritten' \subseteq Contact /\ unsaved' \subseteq Contact
    BY <2>4, Zenon DEF Change, SaveContacts, Differ, ContactsInv, ContactsTypeOK
  <2> QED
    BY <2>1, <2>2, <2>3, <2>5, Zenon DEF ContactsTypeOK
<1>4. OneEach'
  <2> SUFFICES ASSUME ~matchedTwo', NEW s \in Lists' PROVE NameAndCardOnce(s)
    BY Zenon DEF OneEach, NameAndCardOnce, Lists
  <2>1. ~matchedTwo
    BY Zenon DEF Change
  <2>2. NameAndCardOnce(u)
    BY Zenon DEF Change
  <2>3. \A r \in Lists : NameAndCardOnce(r)
    BY <2>1, Zenon DEF ContactsInv, OneEach, NameAndCardOnce, Lists
  <2>4. CASE s = stored'
    BY <1>2, <2>2, <2>3, <2>4 DEF Lists
  <2>5. CASE \E v \in Tabs : s = list'[v]
    <3>1. PICK v \in Tabs : s = list'[v]
      BY <2>5
    <3>2. s = u \/ s = list[v]
      BY <1>1, <3>1
    <3> QED
      BY <2>2, <2>3, <3>2 DEF Lists
  <2> QED
    BY <2>4, <2>5 DEF Lists
<1> QED
  BY <1>3, <1>4, ChangeKeepsIds, ChangeLosesByMishap DEF ContactsInv

\* Reading the stored list brings in nothing new.
LEMMA LoadKeeps ==
  ASSUME ContactsInv, NEW t \in Tabs, LoadContacts(t)
  PROVE  ContactsInv'
<1>1. /\ list' = [list EXCEPT ![t] = stored] /\ stored' = stored /\ saves' = saves
      /\ meant' = meant /\ overwritten' = overwritten /\ unsaved' = unsaved
      /\ matchedTwo' = matchedTwo
      /\ list \in [Tabs -> Seq(Contact)] /\ stored \in Seq(Contact)
  BY DEF LoadContacts, history, ContactsInv, ContactsTypeOK
<1>2. Lists' \subseteq Lists
  <2>1. \A v \in Tabs : list'[v] = list[v] \/ list'[v] = stored
    BY <1>1
  <2> QED
    BY <1>1, <2>1 DEF Lists
<1>3. ContactsTypeOK'
  <2>1. list' \in [Tabs -> Seq(Contact)]
    BY <1>1
  <2> QED
    BY <1>1, <2>1, Zenon DEF ContactsInv, ContactsTypeOK
<1>4. Saved' \subseteq Saved
  BY <1>1, <1>2, Zenon DEF Saved
<1>5. IdsNameContacts'
  BY <1>1, <1>2, <1>4, Zenon DEF ContactsInv, IdsNameContacts
<1>6. LostByMishapOnly'
  BY <1>1, Zenon DEF ContactsInv, LostByMishapOnly
<1>7. OneEach'
  BY <1>1, <1>2, Zenon DEF ContactsInv, OneEach, Lists
<1> QED
  BY <1>3, <1>5, <1>6, <1>7 DEF ContactsInv

\* With no contacts there is nothing to show.
LEMMA ContactsInvInit ==
  ASSUME ContactsInit
  PROVE  ContactsInv
<1>1. /\ stored = <<>> /\ list = [t \in Tabs |-> <<>>] /\ saves = 0
      /\ meant = {} /\ overwritten = {} /\ unsaved = {} /\ matchedTwo = FALSE
  BY DEF ContactsInit
<1>2. /\ <<>> \in Seq(Contact) /\ DOMAIN <<>> = {} /\ 0 \in 0..MaxSaves
      /\ ToSet(<<>>) = {}
  BY MaxSavesAssumption DEF ToSet
<1>3. \A s \in Lists : s = <<>>
  BY <1>1 DEF Lists
<1>4. Saved = {}
  BY <1>1, <1>2, <1>3 DEF Saved
<1>5. ContactsTypeOK
  <2>1. list \in [Tabs -> Seq(Contact)]
    BY <1>1, <1>2
  <2> QED
    BY <1>1, <1>2, <2>1 DEF ContactsTypeOK
<1>6. IdsNameContacts
  BY <1>2, <1>3, <1>4 DEF IdsNameContacts, IdOnce
<1>7. LostByMishapOnly
  BY <1>1, <1>2 DEF LostByMishapOnly
<1>8. OneEach
  BY <1>2, <1>3, Zenon DEF OneEach, Lists
<1> QED
  BY <1>5, <1>6, <1>7, <1>8 DEF ContactsInv

\* Every step is a load, a change by a save or a change by a delete.
LEMMA ContactsInvStep ==
  ASSUME ContactsInv, [ContactsNext]_contactsVars
  PROVE  ContactsInv'
<1>1. CASE UNCHANGED contactsVars
  BY <1>1 DEF contactsVars, history, ContactsInv, ContactsTypeOK, IdsNameContacts, Lists, Saved,
              LostByMishapOnly, OneEach
<1>2. ASSUME NEW t \in Tabs, LoadContacts(t) PROVE ContactsInv'
  BY <1>2, LoadKeeps
<1>3. ASSUME NEW t \in Tabs, NEW name \in Names \cup {Blank}, NEW text \in Text,
             HandleSaveContact(t, name, text)
      PROVE  ContactsInv'
  BY <1>3, SaveChanges, ChangeKeeps
<1>4. ASSUME NEW t \in Tabs, NEW c \in ToSet(list[t]), DeleteContact(t, c)
      PROVE  ContactsInv'
  BY <1>4, DeleteChanges, ChangeKeeps
<1> QED
  BY <1>1, <1>2, <1>3, <1>4 DEF ContactsNext

\* The contact list keeps its types, its ids and both of its properties, for
\* any number of tabs, names, cards and contacts saved.
THEOREM ContactsInductive == ContactsSpec => []ContactsInv
<1>1. ContactsInit => ContactsInv
  BY ContactsInvInit
<1>2. ContactsInv /\ [ContactsNext]_contactsVars => ContactsInv'
  BY ContactsInvStep
<1> QED
  BY <1>1, <1>2, PTL DEF ContactsSpec

\* What is stored differs from what the user saved and did not delete or
\* replace only by what a stale tab wrote over or a failed write lost
\* (saveContacts, handleSaveContact, deleteContact).
THEOREM AlwaysLostByMishapOnly == ContactsSpec => []LostByMishapOnly
<1>1. ContactsInv => LostByMishapOnly
  BY DEF ContactsInv
<1> QED
  BY <1>1, ContactsInductive, PTL

\* No list holds a name or a card twice, unless a save matched two contacts
\* (handleSaveContact).
THEOREM AlwaysOneEach == ContactsSpec => []OneEach
<1>1. ContactsInv => OneEach
  BY DEF ContactsInv
<1> QED
  BY <1>1, ContactsInductive, PTL
=============================================================================
