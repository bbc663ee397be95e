---------------------------- MODULE RateLimiter ----------------------------
(***************************************************************************)
(* The token bucket of internal/httpapp/ratelimit.go that guards the       *)
(* creation of rooms and the relaying of push messages.                    *)
(*                                                                         *)
(* allow reads the clock before it waits for the lock, so two requests can *)
(* reach a bucket in the order opposite to their clocks, and a bucket can  *)
(* be refilled by a negative amount.  The model asks what is left of the   *)
(* limit then.                                                             *)
(*                                                                         *)
(* The unit of time is a tick and the unit of tokens what one tick         *)
(* refills, so the rate is 1 and a request costs Cost (1/rate) units.  The *)
(* code's floating-point tokens are exact here.  A non-positive rate,      *)
(* which switches the limiter off, is not an instance of this module.      *)
(***************************************************************************)
EXTENDS Integers

CONSTANTS
  Keys,      \* client addresses, the keys of buckets
  Callers,   \* requests in progress at one time
  Cost,      \* what a request consumes
  Burst,     \* the most a bucket holds
  Margin,    \* the minute added to the idle time before a sweep
  Delay,     \* assumed: no request waits longer for the lock
  MaxTime    \* bound of the model: the clock stops here

\* A minute is far longer than anybody waits for this lock.
ASSUME LimiterAssumption ==
  /\ Cost \in Nat \ {0}
  /\ Burst \in Nat
  /\ Delay \in Nat
  /\ Margin \in Nat /\ Margin >= 2 * Delay
  /\ MaxTime \in Nat

VARIABLES
  now,      \* what l.now() returns
  live,     \* the keys of l.buckets
  tokens,   \* tokens[k]: tokens of the bucket of k
  seen,     \* seen[k]: its last clock
  key,      \* key[c]: the key request c asks for
  at,       \* at[c]: the clock it read, NoTime when it is not in allow
  since,    \* since[k]: when an observer began to count the requests of k
  used      \* used[k]: what the requests of k admitted since then cost

vars == <<now, live, tokens, seen, key, at, since, used>>

NoTime == -1

-----------------------------------------------------------------------------
Init ==
  /\ now = 0
  /\ live = {}
  /\ tokens = [k \in Keys |-> 0]
  /\ seen = [k \in Keys |-> 0]
  /\ key \in [Callers -> Keys]
  /\ at = [c \in Callers |-> NoTime]
  /\ since = [k \in Keys |-> 0]
  /\ used = [k \in Keys |-> 0]

\* Time passes, but nobody waits longer than Delay.
Tick ==
  /\ now < MaxTime
  /\ \A c \in Callers : at[c] # NoTime => now - at[c] < Delay
  /\ now' = now + 1
  /\ UNCHANGED <<live, tokens, seen, key, at, since, used>>

\* allow, up to the lock.
Arrive(c, k) ==
  /\ at[c] = NoTime
  /\ key' = [key EXCEPT ![c] = k]
  /\ at' = [at EXCEPT ![c] = now]
  /\ UNCHANGED <<now, live, tokens, seen, since, used>>

\* MUTANT: the time a bucket needs to refill is forgotten.
IdleMarginOnly(t) == {k \in live : t - seen[k] > Margin}

\* sweepLocked: what a sweep with clock t discards.
IdleAt(t) == {k \in live : t - seen[k] > Burst + Margin}

\* MUTANT: no limit to what accumulates.
RefillUncapped(k, t) == tokens[k] + (t - seen[k])

Refill(k, t) ==
  LET sum == tokens[k] + (t - seen[k])
  IN IF sum > Burst THEN Burst ELSE sum

\* What the request of key k with clock t finds in its bucket.
Found(k, t) == IF k \in live THEN Refill(k, t) ELSE Burst

\* MUTANT: the token is taken before it is known to be there.
AllowTakesFirst(c) ==
  LET k == key[c]
      t == at[c]
      left == Found(k, t) - Cost
  IN /\ at[c] # NoTime
     /\ live' = (IF k \in live THEN live ELSE live \ IdleAt(t)) \cup {k}
     /\ seen' = [seen EXCEPT ![k] = t]
     /\ tokens' = [tokens EXCEPT ![k] = left]
     /\ used' = [used EXCEPT ![k] = IF left < 0 THEN @ ELSE @ + Cost]
     /\ at' = [at EXCEPT ![c] = NoTime]
     /\ UNCHANGED <<now, key, since>>

\* allow, under the lock: a new key first sweeps.
Allow(c) ==
  LET k == key[c]
      t == at[c]
  IN /\ at[c] # NoTime
     /\ live' = (IF k \in live THEN live ELSE live \ IdleAt(t)) \cup {k}
     /\ seen' = [seen EXCEPT ![k] = t]
     /\ \/ /\ Found(k, t) < Cost
           /\ tokens' = [tokens EXCEPT ![k] = Found(k, t)]
           /\ UNCHANGED used
        \/ /\ Found(k, t) >= Cost
           /\ tokens' = [tokens EXCEPT ![k] = Found(k, t) - Cost]
           /\ used' = [used EXCEPT ![k] = @ + Cost]
     /\ at' = [at EXCEPT ![c] = NoTime]
     /\ UNCHANGED <<now, key, since>>

\* The observer starts a new window for k.
Watch(k) ==
  /\ since' = [since EXCEPT ![k] = now]
  /\ used' = [used EXCEPT ![k] = 0]
  /\ UNCHANGED <<now, live, tokens, seen, key, at>>

Next ==
  \/ Tick
  \/ \E c \in Callers, k \in Keys : Arrive(c, k)
  \/ \E c \in Callers : Allow(c)
  \/ \E k \in Keys : Watch(k)

Spec == Init /\ [][Next]_vars

-----------------------------------------------------------------------------
(* Properties *)

\* Type invariant: no bucket holds more than the burst; the clock of a request
\* in progress is at most Delay old.
TypeOK ==
  /\ now \in 0..MaxTime
  /\ live \subseteq Keys
  /\ tokens \in [Keys -> Int]
  /\ seen \in [Keys -> 0..MaxTime]
  /\ key \in [Callers -> Keys]
  /\ at \in [Callers -> 0..MaxTime \cup {NoTime}]
  /\ since \in [Keys -> 0..MaxTime]
  /\ used \in [Keys -> Nat]
  /\ \A k \in Keys : tokens[k] <= Burst /\ seen[k] <= now /\ since[k] <= now
  /\ \A c \in Callers : at[c] # NoTime => at[c] <= now /\ now - at[c] <= Delay

\* The limit: in any window, whenever it begins, a client is granted at most
\* the burst and what the window refills, plus what Delay refills for the
\* requests that were already waiting.  Neither the refills by negative
\* amounts nor the buckets that were swept and created anew add to it.
Quota == \A k \in Keys : used[k] <= Burst + (now - since[k]) + Delay

\* What ratelimit.go:66 claims: a swept bucket has refilled, so that nobody
\* can tell it from a fresh one.  A request with an old clock may have left
\* less than nothing in it; the minute makes up for that.
SweepInvisible ==
  [][\A k \in live \ live' : tokens[k] + (now - seen[k]) >= Burst]_vars

\* A client that waited for a token's worth of time, and Delay, is not refused:
\* refusals and requests with old clocks take nothing lasting from a bucket.
IdleIsAdmitted ==
  [][\A c \in Callers :
       LET k == key[c]
       IN /\ Burst >= Cost
          /\ at[c] # NoTime /\ at'[c] = NoTime /\ k \in live
          /\ at[c] - seen[k] >= Cost + Delay
          => used'[k] # used[k]]_vars

\* The strengthening that is inductive.  Seen from the present no bucket is
\* overdrawn; seen from its last clock by Delay at most.
NotOverdrawn ==
  \A k \in live : tokens[k] + (now - seen[k]) >= 0 /\ tokens[k] >= -Delay

\* What was granted since the window began was paid for: out of the burst and
\* the refill if the bucket was used since, and out of the refill alone before
\* a swept bucket is created anew.
Paid(k) ==
  \/ used[k] = 0 /\ (k \in live => seen[k] < since[k] - Delay)
  \/ k \in live /\ tokens[k] + used[k] <= Burst + (seen[k] - since[k]) + Delay
  \/ k \notin live /\ used[k] <= now - since[k]

IndInv == TypeOK /\ NotOverdrawn /\ (\A k \in Keys : Paid(k)) /\ Quota
=============================================================================
