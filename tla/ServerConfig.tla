---------------------------- MODULE ServerConfig ----------------------------
(***************************************************************************)
(* config.Load from the environment to what the rest of the server works   *)
(* with, and the ICE servers it hands to the pages.  The VAPID part of     *)
(* Load is in PushKeys.  A setting is unset, does not parse, or is a       *)
(* number; a float may also be infinite or NaN, which is neither less than *)
(* anything nor greater, and a limiter then computes with it.              *)
(*                                                                         *)
(* Time is in ticks, of which a second has several.                        *)
(***************************************************************************)
EXTENDS Integers, SequencesExt

CONSTANTS Unset, Garbage, NaN, Inf, NegInf,
          Second     \* ticks in a second

ASSUMPTION FloatAssumption ==
  /\ NaN \notin Int /\ Inf \notin Int /\ NegInf \notin Int
  /\ NaN # Inf /\ NaN # NegInf /\ Inf # NegInf

ASSUMPTION SecondAssumption == Second \in Nat \ {0}

\* The comparison and the arithmetic of float64, rounding aside.
Less(a, b) ==
  /\ NaN \notin {a, b} /\ a # b /\ a # Inf /\ b # NegInf
  /\ a = NegInf \/ b = Inf \/ a < b

Plus(a, b) ==
  IF NaN \in {a, b} \/ {a, b} = {Inf, NegInf} THEN NaN
  ELSE IF {a, b} \cap {Inf, NegInf} # {} THEN CHOOSE x \in {a, b} : x \in {Inf, NegInf}
  ELSE a + b

\* How often in a time that is not negative, at a rate that is not.
Times(time, rate) ==
  IF rate = NaN \/ (rate = Inf /\ time = 0) THEN NaN
  ELSE IF rate = Inf THEN Inf ELSE time * rate

\* durationOr, intOr, floatOr: a value that does not parse is logged, and the
\* default is used.
Or(raw, fallback) == IF raw \in {Unset, Garbage} THEN fallback ELSE raw

\* csvEnv: entries that are blank are left out.
csvEnv(raw) == SelectSeq(raw, LAMBDA part : part # Unset)

\* Defaults; the ones that are not compared with a clock in units of their own.
Defaults == [roomTTL |-> 7200, grace |-> 45, maxRooms |-> 5000, createRate |-> 1, createBurst |-> 5,
             pushRate |-> 2, pushBurst |-> 10, turnTTL |-> 3600 * Second]

Read(env) ==
  [f \in DOMAIN Defaults |-> Or(env[f], Defaults[f])]


\* A rate of 0 disables a limiter.
LimiterRefused(rate, burst) == Less(rate, 0) \/ (Less(0, rate) /\ Less(burst, 1))

Accepted(env) ==
  LET cfg == Read(env) IN
  /\ env.iceJSON # Garbage
  /\ csvEnv(env.turnURLs) # <<>> => env.turnSecret # Unset
  /\ cfg.roomTTL > 0
  /\ cfg.grace >= 0
  /\ cfg.maxRooms >= 0
  /\ ~LimiterRefused(cfg.createRate, cfg.createBurst)
  /\ ~LimiterRefused(cfg.pushRate, cfg.pushBurst)

-----------------------------------------------------------------------------
(* What allow makes of such settings: one client, one request after the    *)
(* other.  Module RateLimiter has the limiter of finite settings whole.    *)

\* A token is taken if there is one.
Took(tokens, granted) ==
  IF Less(tokens, 1) THEN [tokens |-> tokens, granted |-> granted]
  ELSE [tokens |-> Plus(tokens, -1), granted |-> granted + 1]

\* A request some time after the last one.
AfterGap(bucket, gap, rate, burst) ==
  LET sum == Plus(bucket.tokens, Times(gap, rate))
  IN Took(IF Less(burst, sum) THEN burst ELSE sum, bucket.granted)

\* How many are granted of a first request and of one after each gap.
Granted(rate, burst, gaps) ==
  IF rate # NaN /\ ~Less(0, rate) THEN Len(gaps) + 1
  ELSE FoldLeft(LAMBDA bucket, gap : AfterGap(bucket, gap, rate, burst),
                Took(burst, 0), gaps).granted

\* A limiter that Load accepts is switched off by a rate of 0, and by nothing
\* else that is finite: it lets a client in, and never more often than its
\* burst and what the time refills.  NaN and infinity, which Load accepts,
\* switch it off as well, from a client's second request at the latest.
LimiterAsSet(env, gaps) ==
  LET rate == Read(env).createRate
      burst == Read(env).createBurst
      granted == Granted(rate, burst, gaps)
      elapsed == FoldLeft(LAMBDA sum, gap : sum + gap, 0, gaps)
  IN Accepted(env) =>
       IF rate = 0 THEN granted = Len(gaps) + 1
       ELSE IF {rate, burst} \cap {NaN, Inf, NegInf} = {}
       THEN granted >= 1 /\ granted <= burst + rate * elapsed
       ELSE granted >= Len(gaps)

-----------------------------------------------------------------------------
(* ClientICEServers *)

\* A server without credentials of its own has none.
NoAuth == <<>>

Server(urls, username, credential) ==
  [urls |-> urls, username |-> username, credential |-> credential]

\* Time.Unix: whole seconds.
Unix(time) == time \div Second

Mac(secret, username) == <<"hmac", secret, username>>

\* The username holds the second a credential is good until, and a nonce; the
\* TURN server makes the same credential from the secret it shares.
turnCredentials(secret, expiry, nonce) ==
  LET username == <<Unix(expiry), nonce>>
  IN [username |-> username, credential |-> Mac(secret, username)]

\* The servers of ICE_SERVERS_JSON, with the credentials given there.
StaticICEServers(env) == IF env.iceJSON = Unset THEN <<>> ELSE env.iceJSON

ClientICEServers(env, time, nonce) ==
  LET stun == csvEnv(env.stunURLs)
      turn == csvEnv(env.turnURLs)
      auth == turnCredentials(env.turnSecret, time + Read(env).turnTTL, nonce)
  IN StaticICEServers(env)
       \o (IF stun = <<>> THEN <<>> ELSE <<Server(stun, NoAuth, NoAuth)>>)
       \o (IF turn = <<>> THEN <<>> ELSE <<Server(turn, auth.username, auth.credential)>>)
=============================================================================
