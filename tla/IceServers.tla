----------------------------- MODULE IceServers -----------------------------
(***************************************************************************)
(* The ICE servers on their way from the server's environment into a       *)
(* page's peer connection, and how long the credentials they come with     *)
(* last.  A call fetches the config once, when it starts; the connection   *)
(* is made when the user has granted the media, and gathers candidates     *)
(* then and again at each ICE restart, always with the servers it was made *)
(* with.  The refresh of a Call Card fetches the config too, into the same *)
(* variable, unless there is one; its answer may be slow.                  *)
(*                                                                         *)
(* A page is in a call until it is left, which is its end.  The TURN       *)
(* server is external.                                                     *)
(***************************************************************************)
EXTENDS ServerConfig

CONSTANTS
  Environments,  \* what the server may be started with
  Refreshes,     \* refreshes of the Call Card that may be under way at a time
  Nonces,        \* what rand.Read may give
  LastTick       \* bound: the clock stops here

ASSUMPTION LastTickAssumption == LastTick \in Nat
ASSUMPTION RefreshesAssumption == "session" \notin Refreshes

\* STUN servers, and servers with credentials of their own, are others than
\* those of TURN_URLS.
ASSUMPTION EnvironmentsAssumption ==
  \A e \in Environments :
    /\ csvEnv(e.stunURLs) # csvEnv(e.turnURLs) \/ csvEnv(e.turnURLs) = <<>>
    /\ e.turnTTL \in Int \/ e.turnTTL \in {Unset, Garbage}
    /\ \/ e.iceJSON \in {Unset, Garbage}
       \/ /\ e.iceJSON \in Seq({e.iceJSON[i] : i \in DOMAIN e.iceJSON})
          /\ \A i \in DOMAIN e.iceJSON : e.iceJSON[i].urls # csvEnv(e.turnURLs)

VARIABLES
  env,      \* the environment the server runs with
  clock,
  stage,    \* startSession: "precall", "config", "media" or "call"
  request,  \* the requests for /api/config, of the session and of refreshes
  config,   \* state.config
  conn,     \* what the peer connection was made with
  gathered, \* what its last gathering came to
  began     \* no request under way since Start was sent before this time

iceVars == <<env, clock, stage, request, config, conn, gathered, began>>

Requests == {"session"} \cup Refreshes

\* An answer to /api/config; when it was made is for the properties.
NoConfig == [servers |-> <<>>, made |-> -1]
Idle == [step |-> "idle", sent |-> -1, reply |-> NoConfig]
Sent == [step |-> "sent", sent |-> clock, reply |-> NoConfig]

NotGathered == [time |-> -1, relay |-> FALSE]

IceInit ==
  /\ env \in {e \in Environments : Accepted(e)}
  /\ clock = 0
  /\ stage = "precall"
  /\ request = [r \in Requests |-> Idle]
  /\ config = NoConfig /\ conn = NoConfig
  /\ gathered = NotGathered
  /\ began = 0

-----------------------------------------------------------------------------
(* GET /api/config *)

UnderWay == {r \in Requests : request[r].step # "idle"}

\* clientConfig: the answer is on its way.
Answer(r) ==
  /\ request[r].step = "sent"
  /\ \E nonce \in Nonces :
       request' = [request EXCEPT ![r].step = "answered",
                                  ![r].reply = [servers |-> ClientICEServers(env, clock, nonce),
                                                made |-> clock]]
  /\ UNCHANGED <<env, clock, stage, config, conn, gathered, began>>

\* subscribePush, of a page without a config.
Refresh(k) ==
  /\ request[k].step = "idle"
  /\ config = NoConfig
  /\ request' = [request EXCEPT ![k] = Sent]
  /\ UNCHANGED <<env, clock, stage, config, conn, gathered, began>>

\* The page goes on with the answer, whatever it has by now.
Receive(r) ==
  /\ request[r].step = "answered"
  /\ config' = request[r].reply
  /\ request' = [request EXCEPT ![r] = Idle]
  /\ stage' = IF r = "session" THEN "media" ELSE stage
  /\ UNCHANGED <<env, clock, conn, gathered, began>>

\* No answer, or an error: startSession gives up.
Fail(r) ==
  /\ request[r].step # "idle"
  /\ request' = [request EXCEPT ![r] = Idle]
  /\ stage' = IF r = "session" THEN "precall" ELSE stage
  /\ UNCHANGED <<env, clock, config, conn, gathered, began>>

-----------------------------------------------------------------------------
(* The call *)

\* The earliest request that can still be answered.
Began(t) ==
  /\ t \in {clock} \cup {request[r].sent : r \in UnderWay}
  /\ t <= clock /\ \A r \in UnderWay : t <= request[r].sent

\* MUTANT: a config that is there is used, as the refresh does.
StartIfNone ==
  /\ stage = "precall"
  /\ \/ /\ config = NoConfig
        /\ stage' = "config"
        /\ request' = [request EXCEPT !["session"] = Sent]
     \/ config # NoConfig /\ stage' = "media" /\ UNCHANGED request
  /\ \E t \in 0..clock : Began(t) /\ began' = t
  /\ UNCHANGED <<env, clock, config, conn, gathered>>

\* startSession, up to the config.
Start ==
  /\ stage = "precall"
  /\ stage' = "config"
  /\ request' = [request EXCEPT !["session"] = Sent]
  /\ \E t \in 0..clock : Began(t) /\ began' = t
  /\ UNCHANGED <<env, clock, config, conn, gathered>>

\* coturn takes a username it makes the same credential of, until the second
\* the username holds is over; whether that second counts is left open.
Authentic(server) == server.credential = Mac(env.turnSecret, server.username)
MayAccept(server) == Authentic(server) /\ server.username[1] >= Unix(clock)
MayRefuse(server) == ~Authentic(server) \/ server.username[1] <= Unix(clock)

\* The candidates of the servers: a relay if a TURN server of the operator
\* gives one.
Gather(servers) ==
  LET turns == {server \in {servers[i] : i \in DOMAIN servers} :
                  csvEnv(env.turnURLs) # <<>> /\ server.urls = csvEnv(env.turnURLs)}
  IN \E given \in SUBSET turns :
       /\ \A server \in given : MayAccept(server)
       /\ \A server \in turns \ given : MayRefuse(server)
       /\ gathered' = [time |-> clock, relay |-> given # {}]

\* createPeerConnection, when the media is granted: it gathers at once, with
\* the config the page has by then.
Connect ==
  /\ stage = "media"
  /\ stage' = "call"
  /\ conn' = config
  /\ Gather(config.servers)
  /\ UNCHANGED <<env, clock, request, config, began>>

\* The user refuses, there is no camera, or the connection cannot be made.
NoMedia ==
  /\ stage = "media"
  /\ stage' = "precall"
  /\ UNCHANGED <<env, clock, request, config, conn, gathered, began>>

\* An ICE restart, of this page or of the other: makeOffer, the answer to it.
Restart ==
  /\ stage = "call"
  /\ Gather(conn.servers)
  /\ UNCHANGED <<env, clock, stage, request, config, conn, began>>

IceTick ==
  /\ clock < LastTick
  /\ clock' = clock + 1
  /\ UNCHANGED <<env, stage, request, config, conn, gathered, began>>

IceNext ==
  \/ IceTick
  \/ \E r \in Requests : Answer(r) \/ Receive(r) \/ Fail(r)
  \/ \E k \in Refreshes : Refresh(k)
  \/ Start \/ Connect \/ NoMedia \/ Restart

IceSpec == IceInit /\ [][IceNext]_iceVars

-----------------------------------------------------------------------------
(* Properties *)

Lifetime == Read(env).turnTTL

\* A call has a relay, if the operator names one, for a lifetime from Start,
\* less the second that is cut off: however long the answer and the user took,
\* and whatever config a refresh had fetched before or fetches meanwhile.  It
\* has none much longer than that: an ICE restart once the lifetime is over
\* goes without (ui.go:4303, 4466, config.go:188).
RelayForALifetime ==
  gathered # NotGathered =>
    /\ csvEnv(env.turnURLs) # <<>> /\ gathered.time - began <= Lifetime - Second => gathered.relay
    /\ gathered.relay => gathered.time - conn.made < Lifetime + Second

\* What ClientICEServers may give, and nothing.
Issuable == {<<>>} \cup {ClientICEServers(env, t, n) : t \in 0..LastTick, n \in Nonces}

\* The strengthening that is inductive: what is on its way to a page that has
\* pressed Start, and what it and its connection have, was made after began.
Issued(c) ==
  /\ c.made \in Nat /\ c.made <= clock
  /\ \E nonce \in Nonces : c.servers = ClientICEServers(env, c.made, nonce)

IceTypes ==
  /\ env \in Environments /\ Accepted(env)
  /\ clock \in 0..LastTick /\ began \in Nat /\ began <= clock
  /\ stage \in {"precall", "config", "media", "call"}
  /\ request \in [Requests -> [step : {"idle", "sent", "answered"}, sent : Int,
                              reply : [servers : Issuable, made : Int]]]

FreshRequests ==
  \A r \in UnderWay :
    /\ r = "session" => stage = "config"
    /\ request[r].sent \in Nat /\ request[r].sent <= clock
    /\ stage # "precall" => began <= request[r].sent
    /\ request[r].step = "answered" =>
         Issued(request[r].reply) /\ request[r].sent <= request[r].reply.made

FreshConfigs ==
  /\ stage \in {"media", "call"} => Issued(config) /\ began <= config.made
  /\ stage = "call" => Issued(conn) /\ began <= conn.made
  /\ gathered # NotGathered => stage = "call"

IceInv == IceTypes /\ FreshRequests /\ FreshConfigs /\ RelayForALifetime
=============================================================================
