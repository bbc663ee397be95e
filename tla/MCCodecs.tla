------------------------------ MODULE MCCodecs ------------------------------
(***************************************************************************)
(* Inputs, environments and bounds for Codecs and IceServers.  They share  *)
(* the functions of ServerConfig and no variable, and each property speaks *)
(* of one of them: the run takes the one or the other.                     *)
(***************************************************************************)
EXTENDS Codecs, IceServers

CONSTANTS k1, n1

\* Lifetimes of less than a second, none, and negative ones are accepted by
\* Load; a lifetime that is not set outlasts the run.
Lifetimes == {Unset, -2, 0, 1, 2, 3, 5}
Own == Server(<<"own">>, <<"user">>, <<"password">>)

MCEnvironments ==
  {[NoEnv EXCEPT !.stunURLs = <<"stun">>, !.turnURLs = turn, !.turnSecret = secret,
                 !.turnTTL = ttl, !.iceJSON = ice] :
     turn \in {<<>>, <<"turn", Unset>>}, secret \in {Unset, "secret"}, ttl \in Lifetimes,
     ice \in {Unset, Garbage, <<Own>>}}

MCRefreshes == {k1}
MCNonces == {n1}

VARIABLE side   \* the part that moves

MCInit ==
  /\ CodecsInit /\ IceInit
  /\ side \in {"codecs", "ice"}
  /\ side = "codecs" => env = CHOOSE e \in Environments : Accepted(e)

MCNext ==
  /\ side' = side
  /\ \/ side = "codecs" /\ CodecsNext /\ UNCHANGED iceVars
     \/ side = "ice" /\ IceNext /\ UNCHANGED codecsVars

MCSpec == MCInit /\ [][MCNext]_<<codecsVars, iceVars, side>>
=============================================================================
