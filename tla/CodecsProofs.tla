---------------------------- MODULE CodecsProofs ----------------------------
(***************************************************************************)
(* Proofs about the two parts of the project that stand alone: the         *)
(* functions that module Codecs runs, and the rate limiter of module       *)
(* RateLimiter.                                                            *)
(*                                                                         *)
(* Codecs runs each function on the inputs of a small set.  The theorems   *)
(* named ...Always... are about every input: descriptions, lists and       *)
(* payloads of any length, keys of any number, any environment.  What is   *)
(* computed by recursion over a sequence is first shown to be a function   *)
(* of sequences that has a value on <<>> and one on Append(s, x);          *)
(* SeqInduction does the rest.  The last theorems of that part bring the   *)
(* results back to the specification.                                      *)
(*                                                                         *)
(* The rate limiter keeps its limit for any number of clients and          *)
(* concurrent requests, any cost, burst and clock.  The invariant is       *)
(* IndInv.  TypeOK bounds how old a request's clock is; with NotOverdrawn  *)
(* it bounds how far a bucket can be overdrawn; Paid follows a bucket over *)
(* its sweeps and re-creations, which needs a Margin of two Delays; Quota  *)
(* follows from Paid at each grant.                                        *)
(***************************************************************************)
EXTENDS Codecs, IceServers, RateLimiter, SequenceTheorems, WellFoundedInduction, TLAPS

\* STRING.  The literals are in it; the provers do not know that they are.
Text == STRING \cup
  {"useinbandfec", "usedtx", "stereo", "sprop-stereo", "maxaveragebitrate", "cbr", "STEREO",
   "minptime", "1", "0", "28000", "no value", "ice-candidate", "offer", "answer", "leave"}

-----------------------------------------------------------------------------
(* Induction over numbers and over sequences.  The library's theorems take *)
(* a predicate; these take the set of what satisfies it.                   *)

\* What holds of 0, and of n + 1 if of n, has no first exception.
LEMMA NoFirstException ==
  ASSUME NEW P, P \subseteq Nat, 0 \in P, \A n \in P : n + 1 \in P
  PROVE  \A n \in Nat : n \in P
<1> DEFINE Lower2 == {ss \in Nat \X Nat : ss[1] < ss[2]}
<1> DEFINE Rest == Nat \ P
<1>1. SUFFICES ASSUME Rest # {} PROVE FALSE
  OBVIOUS
<1>2. IsWellFoundedOn(Lower2, Nat)
  BY NatLessThanWellFounded DEF OpToRel
<1>3. PICK x \in Rest : \A y \in Rest : ~ (<<y, x>> \in Lower2)
  <2>1. Rest \subseteq Nat
    OBVIOUS
  <2> HIDE DEF Rest, Lower2
  <2> QED
    BY <1>1, <1>2, <2>1, WFMin
<1>4. x # 0 /\ x - 1 \in Nat /\ <<x - 1, x>> \in Lower2
  OBVIOUS
<1>5. x - 1 \in P
  BY <1>3, <1>4
<1> QED
  BY <1>3, <1>4, <1>5

\* What holds of the empty sequence, and of Append(s, x) if of s, holds of all.
LEMMA SeqInduction ==
  ASSUME NEW S, NEW P, <<>> \in P,
         \A s \in Seq(S), x \in S : s \in P => Append(s, x) \in P
  PROVE  \A s \in Seq(S) : s \in P
<1> DEFINE L == {n \in Nat : \A s \in Seq(S) : Len(s) = n => s \in P}
<1>1. 0 \in L
  BY EmptySeq
<1>2. ASSUME NEW n \in L PROVE n + 1 \in L
  <2> SUFFICES ASSUME NEW s \in Seq(S), Len(s) = n + 1 PROVE s \in P
    OBVIOUS
  <2>1. s # <<>>
    BY EmptySeq
  <2>2. PICK t \in Seq(S), x \in S : s = Append(t, x)
    BY <2>1, SequenceEmptyOrAppend
  <2>3. Len(t) = n
    BY <2>2
  <2> QED
    BY <2>2, <2>3
<1>3. L \subseteq Nat
  OBVIOUS
<1> HIDE DEF L
<1>4. \A n \in Nat : n \in L
  BY <1>1, <1>2, <1>3, NoFirstException
<1> QED
  BY <1>4 DEF L

\* Numbers that are not none have a least one.
LEMMA LeastOfMany ==
  ASSUME NEW I, I \subseteq Nat, I # {}
  PROVE  \E i \in I : \A j \in I : i <= j
<1> DEFINE Before == {ss \in Nat \X Nat : ss[1] < ss[2]}
<1>1. IsWellFoundedOn(Before, Nat)
  BY NatLessThanWellFounded DEF OpToRel
<1>2. PICK i \in I : \A j \in I : ~ (<<j, i>> \in Before)
  <2> HIDE DEF Before
  <2> QED
    BY <1>1, WFMin
<1>3. \A j \in I : ~ (j < i)
  BY <1>2
<1> QED
  BY <1>3

\* The elements of a sequence and of one that is longer by one.
LEMMA AppendedElements ==
  ASSUME NEW S, NEW s \in Seq(S), NEW x \in S
  PROVE  /\ Append(s, x) \in Seq(S)
         /\ DOMAIN s = 1..Len(s) /\ DOMAIN Append(s, x) = 1..(Len(s) + 1) /\ Len(s) \in Nat
         /\ Len(Append(s, x)) = Len(s) + 1
         /\ Append(s, x)[Len(s) + 1] = x
         /\ \A i \in 1..Len(s) : Append(s, x)[i] = s[i] /\ i \in 1..(Len(s) + 1) /\ i # Len(s) + 1
         /\ Len(s) + 1 \in 1..(Len(s) + 1)
         /\ \A i \in 1..(Len(s) + 1) : i \in 1..Len(s) \/ i = Len(s) + 1
  OBVIOUS

\* A sequence before one that is longer by one.
LEMMA AppendToConcat ==
  ASSUME NEW S, NEW s \in Seq(S), NEW t \in Seq(S), NEW x \in S
  PROVE  s \o Append(t, x) = Append(s \o t, x)
<1>1. Append(t, x) = t \o <<x>> /\ <<x>> \in Seq(S)
  BY AppendIsConcat
<1>2. s \o t \in Seq(S)
  BY ConcatProperties
<1>3. Append(s \o t, x) = (s \o t) \o <<x>>
  BY <1>2, AppendIsConcat
<1> QED
  BY <1>1, <1>3, ConcatAssociative

-----------------------------------------------------------------------------
(* Picked: what a filter keeps. *)

\* The recursion of Picked, as far as m.
Picks(s, I, m, f) ==
  f = [n \in 0..m |->
         IF n = 0 THEN <<>>
         ELSE IF n \in I THEN Append(f[n - 1], s[n]) ELSE f[n - 1]]

\* The recursion defines a function.
LEMMA PicksExists ==
  ASSUME NEW s, NEW I
  PROVE  \A m \in Nat : \E f : Picks(s, I, m, f)
<1> DEFINE P == {m \in Nat : \E f : Picks(s, I, m, f)}
<1>1. 0 \in P
  <2> DEFINE f == [n \in 0..0 |-> <<>>]
  <2>1. f = [n \in 0..0 |->
         IF n = 0 THEN <<>>
         ELSE IF n \in I THEN Append(f[n - 1], s[n]) ELSE f[n - 1]]
    OBVIOUS
  <2>2. Picks(s, I, 0, f)
    BY <2>1, Zenon DEF Picks
  <2> HIDE DEF f
  <2> QED
    BY <2>2
<1>2. ASSUME NEW m \in P PROVE m + 1 \in P
  <2>1. PICK f : Picks(s, I, m, f)
    OBVIOUS
  <2> DEFINE next == IF m + 1 \in I THEN Append(f[m], s[m + 1]) ELSE f[m]
  <2> DEFINE g == [n \in 0..m + 1 |-> IF n = m + 1 THEN next ELSE f[n]]
  <2>2. \A n \in 0..m + 1 : g[n] = IF n = 0 THEN <<>>
                ELSE IF n \in I THEN Append(g[n - 1], s[n]) ELSE g[n - 1]
    <3> SUFFICES ASSUME NEW n \in 0..m + 1
                 PROVE  g[n] = IF n = 0 THEN <<>>
                    ELSE IF n \in I THEN Append(g[n - 1], s[n]) ELSE g[n - 1]
      OBVIOUS
    <3>1. CASE n = m + 1
      <4>1. n # 0 /\ n - 1 = m /\ m \in 0..m + 1 /\ m # m + 1 /\ n \in 0..m + 1
        BY <3>1
      <4>2. g[m] = f[m]
        BY <4>1
      <4>3. g[n] = next
        BY <3>1
      <4> HIDE DEF g
      <4> QED
        BY <3>1, <4>1, <4>2, <4>3
    <3>2. CASE n # m + 1
      <4>1. n \in 0..m /\ (n # 0 => n - 1 \in 0..m /\ n - 1 # m + 1)
        BY <3>2
      <4>2. f[n] = IF n = 0 THEN <<>>
                ELSE IF n \in I THEN Append(f[n - 1], s[n]) ELSE f[n - 1]
        BY <2>1, <4>1 DEF Picks
      <4>3. g[n] = f[n] /\ (n # 0 => g[n - 1] = f[n - 1])
        BY <3>2, <4>1
      <4> HIDE DEF g
      <4> QED
        BY <4>2, <4>3
    <3> QED
      BY <3>1, <3>2
  <2>3. g = [n \in 0..m + 1 |-> g[n]]
    OBVIOUS
  <2> HIDE DEF g
  <2>4. g = [n \in 0..m + 1 |-> IF n = 0 THEN <<>>
                ELSE IF n \in I THEN Append(g[n - 1], s[n]) ELSE g[n - 1]]
    BY <2>2, <2>3
  <2>5. Picks(s, I, m + 1, g)
    BY <2>4, Zenon DEF Picks
  <2>6. \E h : Picks(s, I, m + 1, h)
    BY <2>5
  <2> QED
    BY <2>6
<1> HIDE DEF P
<1>3. \A m \in Nat : m \in P
  <2>1. P \subseteq Nat
    BY DEF P
  <2> QED
    BY <1>1, <1>2, <2>1, NoFirstException
<1> QED
  BY <1>3 DEF P

\* Picked is where that function ends.
LEMMA PickedIs ==
  ASSUME NEW s, NEW I, Len(s) \in Nat
  PROVE  \E f : Picks(s, I, Len(s), f) /\ Picked(s, I) = f[Len(s)]
<1> DEFINE kept == CHOOSE f : Picks(s, I, Len(s), f)
<1>1. Picks(s, I, Len(s), kept)
  BY PicksExists, Zenon
<1>2. Picked(s, I) = kept[Len(s)]
  BY Zenon DEF Picked, Picks
<1> QED
  BY <1>1, <1>2, Zenon

\* Two sequences that agree on their first n elements, as far as these are
\* picked, give the same so far.
LEMMA PicksAgree ==
  ASSUME NEW s, NEW I, NEW f, NEW k \in Nat, Picks(s, I, k, f),
         NEW t, NEW J, NEW g, NEW l \in Nat, Picks(t, J, l, g),
         NEW m \in Nat, m <= k, m <= l,
         \A i \in 1..m : (i \in I <=> i \in J) /\ (i \in I => s[i] = t[i])
  PROVE  f[m] = g[m]
<1> DEFINE P == {n \in Nat : n <= m => f[n] = g[n]}
<1>1. \A n \in 0..k : f[n] = IF n = 0 THEN <<>>
         ELSE IF n \in I THEN Append(f[n - 1], s[n]) ELSE f[n - 1]
  BY DEF Picks
<1>2. \A n \in 0..l : g[n] = IF n = 0 THEN <<>>
         ELSE IF n \in J THEN Append(g[n - 1], t[n]) ELSE g[n - 1]
  BY DEF Picks
<1>3. 0 \in P
  BY <1>1, <1>2
<1>4. ASSUME NEW n \in P PROVE n + 1 \in P
  <2> SUFFICES ASSUME n + 1 <= m PROVE f[n + 1] = g[n + 1]
    OBVIOUS
  <2>1. n \in Nat /\ f[n] = g[n] /\ n + 1 \in 0..k /\ n + 1 \in 0..l /\ n + 1 \in 1..m
        /\ n + 1 # 0 /\ (n + 1) - 1 = n
    OBVIOUS
  <2>2. f[n + 1] = IF n + 1 \in I THEN Append(f[n], s[n + 1]) ELSE f[n]
    BY <1>1, <2>1
  <2>3. g[n + 1] = IF n + 1 \in J THEN Append(g[n], t[n + 1]) ELSE g[n]
    BY <1>2, <2>1
  <2> QED
    BY <2>1, <2>2, <2>3
<1>5. P \subseteq Nat
  OBVIOUS
<1> HIDE DEF P
<1>6. m \in P
  BY <1>3, <1>4, <1>5, NoFirstException
<1> QED
  BY <1>6 DEF P

\* Only what is picked, and where, matters.
LEMMA PickedAgree ==
  ASSUME NEW s, NEW I, NEW t, NEW J, Len(s) \in Nat, Len(t) = Len(s),
         \A i \in 1..Len(s) : (i \in I <=> i \in J) /\ (i \in I => s[i] = t[i])
  PROVE  Picked(s, I) = Picked(t, J)
<1>1. PICK f : Picks(s, I, Len(s), f) /\ Picked(s, I) = f[Len(s)]
  BY PickedIs
<1>2. PICK g : Picks(t, J, Len(s), g) /\ Picked(t, J) = g[Len(s)]
  BY PickedIs
<1>3. f[Len(s)] = g[Len(s)]
  BY <1>1, <1>2, PicksAgree
<1> QED
  BY <1>1, <1>2, <1>3

\* The recursion in terms of sequences: empty, and one element more.
LEMMA PickedEmpty == \A I : Picked(<<>>, I) = <<>>
<1> SUFFICES ASSUME NEW I PROVE Picked(<<>>, I) = <<>>
  OBVIOUS
<1>1. Len(<<>>) = 0
  OBVIOUS
<1>2. PICK f : Picks(<<>>, I, 0, f) /\ Picked(<<>>, I) = f[0]
  BY <1>1, PickedIs
<1> QED
  BY <1>2 DEF Picks

\* The last element is picked, or it is not.
LEMMA PickedAppend ==
  ASSUME NEW S, NEW s \in Seq(S), NEW x \in S, NEW I
  PROVE  Picked(Append(s, x), I) =
           IF Len(s) + 1 \in I THEN Append(Picked(s, I), x) ELSE Picked(s, I)
<1> DEFINE t == Append(s, x)
<1>1. /\ t \in Seq(S) /\ Len(t) = Len(s) + 1 /\ Len(s) \in Nat /\ Len(t) \in Nat
      /\ t[Len(s) + 1] = x /\ \A i \in 1..Len(s) : t[i] = s[i]
  OBVIOUS
<1> HIDE DEF t
<1>2. PICK f : Picks(s, I, Len(s), f) /\ Picked(s, I) = f[Len(s)]
  BY <1>1, PickedIs
<1>3. PICK g : Picks(t, I, Len(t), g) /\ Picked(t, I) = g[Len(t)]
  BY <1>1, PickedIs
<1>4. f[Len(s)] = g[Len(s)]
  <2>1. Len(s) <= Len(s) /\ Len(s) <= Len(t)
    BY <1>1
  <2>2. \A i \in 1..Len(s) : (i \in I <=> i \in I) /\ (i \in I => s[i] = t[i])
    BY <1>1
  <2> QED
    BY <1>1, <1>2, <1>3, <2>1, <2>2, PicksAgree
<1>5. g[Len(t)] = IF Len(t) \in I THEN Append(g[Len(t) - 1], t[Len(t)]) ELSE g[Len(t) - 1]
  <2>1. Len(t) \in 0..Len(t) /\ Len(t) # 0
    BY <1>1
  <2> QED
    BY <1>3, <2>1 DEF Picks
<1>6. Len(t) - 1 = Len(s)
  BY <1>1
<1> QED
  BY <1>1, <1>2, <1>3, <1>4, <1>5, <1>6 DEF t

-----------------------------------------------------------------------------
(* Only: what a filter keeps that looks at the elements. *)

Only(s, A) == Picked(s, {i \in DOMAIN s : s[i] \in A})

\* The recursion of Only: empty, and one element more.
LEMMA OnlyEmpty == \A A : Only(<<>>, A) = <<>>
  BY PickedEmpty, Zenon DEF Only

\* The last element is kept if it is in A.
LEMMA OnlyAppend ==
  ASSUME NEW S, NEW s \in Seq(S), NEW x \in S, NEW A
  PROVE  Only(Append(s, x), A) = IF x \in A THEN Append(Only(s, A), x) ELSE Only(s, A)
<1> DEFINE t == Append(s, x)
<1> DEFINE I == {i \in DOMAIN s : s[i] \in A}
<1> DEFINE J == {i \in DOMAIN t : t[i] \in A}
<1>1. /\ t \in Seq(S) /\ Len(t) = Len(s) + 1 /\ Len(s) \in Nat /\ Len(t) \in Nat
      /\ t[Len(s) + 1] = x /\ \A i \in 1..Len(s) : t[i] = s[i]
      /\ DOMAIN s = 1..Len(s) /\ DOMAIN t = 1..Len(s) + 1
  OBVIOUS
<1>2. \A i \in 1..Len(s) : i \in I <=> i \in J
  BY <1>1
<1>3. Len(s) + 1 \in J <=> x \in A
  BY <1>1
<1>4. Picked(s, I) = Picked(s, J)
  <2> HIDE DEF I, J
  <2> QED
    BY <1>1, <1>2, PickedAgree
<1>5. Picked(t, J) = IF Len(s) + 1 \in J THEN Append(Picked(s, J), x) ELSE Picked(s, J)
  <2> HIDE DEF J
  <2> QED
    BY PickedAppend DEF t
<1>6. Only(s, A) = Picked(s, I) /\ Only(t, A) = Picked(t, J)
  BY Zenon DEF Only
<1> HIDE DEF I, J, t
<1>7. Only(t, A) = IF x \in A THEN Append(Only(s, A), x) ELSE Only(s, A)
  BY <1>3, <1>4, <1>5, <1>6
<1> QED
  BY <1>7 DEF t

\* It keeps elements of A, as sequences go.
LEMMA OnlySeq ==
  ASSUME NEW S, NEW A
  PROVE  \A s \in Seq(S) : Only(s, A) \in Seq(S \cap A)
<1> DEFINE P == {s \in Seq(S) : Only(s, A) \in Seq(S \cap A)}
<1>1. <<>> \in P
  BY OnlyEmpty, EmptySeq
<1>2. ASSUME NEW s \in Seq(S), NEW x \in S, s \in P PROVE Append(s, x) \in P
  <2>1. Append(s, x) \in Seq(S) /\ Only(s, A) \in Seq(S \cap A)
    BY <1>2
  <2>2. Only(Append(s, x), A) = IF x \in A THEN Append(Only(s, A), x) ELSE Only(s, A)
    BY OnlyAppend
  <2>3. Only(Append(s, x), A) \in Seq(S \cap A)
    BY <2>1, <2>2
  <2> QED
    BY <2>1, <2>3
<1> HIDE DEF P
<1>3. \A s \in Seq(S) : s \in P
  BY <1>1, <1>2, SeqInduction
<1> QED
  BY <1>3 DEF P

\* It keeps each of them.
LEMMA OnlyKeeps ==
  ASSUME NEW S, NEW A
  PROVE  \A s \in Seq(S) : (\E i \in DOMAIN s : s[i] \in A) => Only(s, A) # <<>>
<1> DEFINE P == {s \in Seq(S) : (\E i \in DOMAIN s : s[i] \in A) => Only(s, A) # <<>>}
<1>1. <<>> \in P
  BY OnlyEmpty
<1>2. ASSUME NEW s \in Seq(S), NEW x \in S, s \in P PROVE Append(s, x) \in P
  <2>1. /\ Append(s, x) \in Seq(S) /\ DOMAIN Append(s, x) = 1..Len(s) + 1
        /\ DOMAIN s = 1..Len(s) /\ Len(s) \in Nat
        /\ Append(s, x)[Len(s) + 1] = x /\ \A i \in 1..Len(s) : Append(s, x)[i] = s[i]
        /\ (\E i \in DOMAIN s : s[i] \in A) => Only(s, A) # <<>>
    BY <1>2
  <2>2. Only(Append(s, x), A) = IF x \in A THEN Append(Only(s, A), x) ELSE Only(s, A)
    BY OnlyAppend
  <2>3. Only(s, A) \in Seq(S \cap A)
    BY OnlySeq
  <2>4. ASSUME \E i \in DOMAIN Append(s, x) : Append(s, x)[i] \in A
        PROVE  Only(Append(s, x), A) # <<>>
    <3>1. CASE x \in A
      <4>1. Append(Only(s, A), x) # <<>>
        BY <2>3, <3>1, AppendProperties
      <4> QED
        BY <2>2, <3>1, <4>1
    <3>2. CASE x \notin A
      <4>1. \E i \in DOMAIN s : s[i] \in A
        BY <2>1, <2>4, <3>2
      <4> QED
        BY <2>1, <2>2, <3>2, <4>1
    <3> QED
      BY <3>1, <3>2
  <2> QED
    BY <2>1, <2>4
<1> HIDE DEF P
<1>3. \A s \in Seq(S) : s \in P
  BY <1>1, <1>2, SeqInduction
<1> QED
  BY <1>3 DEF P

\* It keeps all if all are in A.
LEMMA OnlyAll ==
  ASSUME NEW A
  PROVE  \A s \in Seq(A) : Only(s, A) = s
<1> DEFINE P == {s \in Seq(A) : Only(s, A) = s}
<1>1. <<>> \in P
  BY OnlyEmpty
<1>2. ASSUME NEW s \in Seq(A), NEW x \in A, s \in P PROVE Append(s, x) \in P
  BY <1>2, OnlyAppend
<1> HIDE DEF P
<1>3. \A s \in Seq(A) : s \in P
  BY <1>1, <1>2, SeqInduction
<1> QED
  BY <1>3 DEF P

\* It keeps of two sequences what it keeps of each.
LEMMA OnlyConcat ==
  ASSUME NEW S, NEW A, NEW s \in Seq(S)
  PROVE  \A t \in Seq(S) : Only(s \o t, A) = Only(s, A) \o Only(t, A)
<1> DEFINE P == {t \in Seq(S) : Only(s \o t, A) = Only(s, A) \o Only(t, A)}
<1>1. <<>> \in P
  <2>1. s \o <<>> = s /\ Only(<<>>, A) = <<>> /\ Only(s, A) \in Seq(S \cap A)
    BY OnlyEmpty, OnlySeq, ConcatEmptySeq
  <2>2. Only(s, A) \o <<>> = Only(s, A)
    BY <2>1, ConcatEmptySeq
  <2> QED
    BY <2>1, <2>2
<1>2. ASSUME NEW t \in Seq(S), NEW x \in S, t \in P PROVE Append(t, x) \in P
  <2>1. /\ Append(t, x) \in Seq(S) /\ s \o t \in Seq(S)
        /\ Only(s \o t, A) = Only(s, A) \o Only(t, A)
    BY <1>2
  <2>2. s \o Append(t, x) = Append(s \o t, x)
    BY AppendToConcat
  <2>3. /\ Only(Append(s \o t, x), A) =
             IF x \in A THEN Append(Only(s \o t, A), x) ELSE Only(s \o t, A)
        /\ Only(Append(t, x), A) = IF x \in A THEN Append(Only(t, A), x) ELSE Only(t, A)
    <3> DEFINE u == s \o t
    <3>1. u \in Seq(S)
      BY <2>1
    <3> HIDE DEF u
    <3>2. Only(Append(u, x), A) = IF x \in A THEN Append(Only(u, A), x) ELSE Only(u, A)
      BY <3>1, OnlyAppend
    <3> QED
      BY <3>2, OnlyAppend DEF u
  <2>4. Only(s, A) \in Seq(S \cap A) /\ Only(t, A) \in Seq(S \cap A)
    BY OnlySeq
  <2>5. x \in A => Append(Only(s, A) \o Only(t, A), x) = Only(s, A) \o Append(Only(t, A), x)
    <3> DEFINE T == S \cap A
    <3> DEFINE u == Only(s, A)
    <3> DEFINE v == Only(t, A)
    <3>1. u \in Seq(T) /\ v \in Seq(T) /\ (x \in A => x \in T)
      BY <2>4
    <3> HIDE DEF T, u, v
    <3>2. x \in A => u \o Append(v, x) = Append(u \o v, x)
      BY <3>1, AppendToConcat
    <3> QED
      BY <3>2 DEF u, v
  <2>6. Only(s \o Append(t, x), A) = Only(s, A) \o Only(Append(t, x), A)
    BY <2>1, <2>2, <2>3, <2>5
  <2> QED
    BY <2>1, <2>6
<1> HIDE DEF P
<1>3. \A t \in Seq(S) : t \in P
  BY <1>1, <1>2, SeqInduction
<1> QED
  BY <1>3 DEF P

\* Filtering twice keeps what is in both sets.
LEMMA OnlyOnly ==
  ASSUME NEW S, NEW A, NEW B
  PROVE  \A s \in Seq(S) : Only(Only(s, A), B) = Only(s, A \cap B)
<1> DEFINE P == {s \in Seq(S) : Only(Only(s, A), B) = Only(s, A \cap B)}
<1>1. <<>> \in P
  BY OnlyEmpty
<1>2. ASSUME NEW s \in Seq(S), NEW x \in S, s \in P PROVE Append(s, x) \in P
  <2>1. Append(s, x) \in Seq(S) /\ Only(Only(s, A), B) = Only(s, A \cap B)
    BY <1>2
  <2>2. /\ Only(Append(s, x), A) = IF x \in A THEN Append(Only(s, A), x) ELSE Only(s, A)
        /\ Only(Append(s, x), A \cap B) =
             IF x \in A \cap B THEN Append(Only(s, A \cap B), x) ELSE Only(s, A \cap B)
    BY OnlyAppend
  <2>3. Only(s, A) \in Seq(S)
    <3>1. Only(s, A) \in Seq(S \cap A)
      BY OnlySeq
    <3> QED
      BY <3>1, SeqMonotonic
  <2>4. Only(Append(Only(s, A), x), B) =
          IF x \in B THEN Append(Only(Only(s, A), B), x) ELSE Only(Only(s, A), B)
    <3> DEFINE u == Only(s, A)
    <3>1. u \in Seq(S)
      BY <2>3
    <3> HIDE DEF u
    <3>2. Only(Append(u, x), B) = IF x \in B THEN Append(Only(u, B), x) ELSE Only(u, B)
      BY <3>1, OnlyAppend
    <3> QED
      BY <3>2 DEF u
  <2>5. Only(Only(Append(s, x), A), B) = Only(Append(s, x), A \cap B)
    <3>1. CASE x \in A
      <4>1. x \in A \cap B <=> x \in B
        BY <3>1
      <4> QED
        BY <2>1, <2>2, <2>4, <3>1, <4>1, Zenon
    <3>2. CASE x \notin A
      <4>1. x \notin A \cap B
        BY <3>2
      <4> QED
        BY <2>1, <2>2, <3>2, <4>1, Zenon
    <3> QED
      BY <3>1, <3>2
  <2> QED
    BY <2>1, <2>5
<1> HIDE DEF P
<1>3. \A s \in Seq(S) : s \in P
  BY <1>1, <1>2, SeqInduction
<1> QED
  BY <1>3 DEF P

\* What is kept and what is not are together as many as there were.
LEMMA OnlyLen ==
  ASSUME NEW S, NEW A
  PROVE  \A s \in Seq(S) : Len(Only(s, A)) + Len(Only(s, S \ A)) = Len(s)
<1> DEFINE P == {s \in Seq(S) : Len(Only(s, A)) + Len(Only(s, S \ A)) = Len(s)}
<1>1. <<>> \in P
  BY OnlyEmpty
<1>2. ASSUME NEW s \in Seq(S), NEW x \in S, s \in P PROVE Append(s, x) \in P
  <2>1. /\ Append(s, x) \in Seq(S) /\ Len(Append(s, x)) = Len(s) + 1 /\ Len(s) \in Nat
        /\ Len(Only(s, A)) + Len(Only(s, S \ A)) = Len(s)
    BY <1>2
  <2>2. /\ Only(Append(s, x), A) = IF x \in A THEN Append(Only(s, A), x) ELSE Only(s, A)
        /\ Only(Append(s, x), S \ A) =
             IF x \in S \ A THEN Append(Only(s, S \ A), x) ELSE Only(s, S \ A)
    BY OnlyAppend
  <2>3. Only(s, A) \in Seq(S \cap A) /\ Only(s, S \ A) \in Seq(S \cap (S \ A))
    BY OnlySeq
  <2>4. CASE x \in A
    <3>1. Len(Append(Only(s, A), x)) = Len(Only(s, A)) + 1
          /\ Len(Only(s, A)) \in Nat /\ Len(Only(s, S \ A)) \in Nat
      BY <2>3, <2>4
    <3> QED
      BY <2>1, <2>2, <2>4, <3>1
  <2>5. CASE x \notin A
    <3>1. Len(Append(Only(s, S \ A), x)) = Len(Only(s, S \ A)) + 1
          /\ Len(Only(s, A)) \in Nat /\ Len(Only(s, S \ A)) \in Nat
      BY <2>3, <2>5
    <3> QED
      BY <2>1, <2>2, <2>5, <3>1
  <2> QED
    BY <2>4, <2>5
<1> HIDE DEF P
<1>3. \A s \in Seq(S) : s \in P
  BY <1>1, <1>2, SeqInduction
<1> QED
  BY <1>3 DEF P

-----------------------------------------------------------------------------
(* preferVideoCodec *)

\* The codecs of S of a kind.
Kind(S, m) == {c \in S : c.mime = m}

OfKind(s, m) == Picked(s, {i \in DOMAIN s : s[i].mime = m})

\* preferVideoCodec is two filters by what the codecs are.
LEMMA PreferIsOnly ==
  ASSUME NEW S, NEW all \in Seq(S)
  PROVE  preferVideoCodec(all) =
           Only(all, Kind(S, PREFERRED_VIDEO_CODEC)) \o Only(all, S \ Kind(S, PREFERRED_VIDEO_CODEC))
<1> DEFINE K == Kind(S, PREFERRED_VIDEO_CODEC)
<1> DEFINE I == {i \in DOMAIN all : all[i].mime = PREFERRED_VIDEO_CODEC}
<1> DEFINE J == DOMAIN all \ I
<1> DEFINE IK == {i \in DOMAIN all : all[i] \in K}
<1> DEFINE JK == {i \in DOMAIN all : all[i] \in S \ K}
<1>1. DOMAIN all = 1..Len(all) /\ Len(all) \in Nat /\ \A i \in DOMAIN all : all[i] \in S
  OBVIOUS
<1>2. \A i \in DOMAIN all : (i \in I <=> i \in IK) /\ (i \in J <=> i \in JK)
  BY <1>1 DEF Kind
<1>3. preferVideoCodec(all) = Picked(all, I) \o Picked(all, J)
  BY DEF preferVideoCodec
<1>4. Only(all, K) = Picked(all, IK) /\ Only(all, S \ K) = Picked(all, JK)
  BY DEF Only
<1> HIDE DEF I, J, IK, JK
<1>5. Picked(all, I) = Picked(all, IK)
  BY <1>1, <1>2, PickedAgree
<1>6. Picked(all, J) = Picked(all, JK)
  BY <1>1, <1>2, PickedAgree
<1> QED
  BY <1>3, <1>4, <1>5, <1>6

\* However many codecs a browser has, all are on offer, each kind in its
\* order, the preferred ones first (preferVideoCodec).
THEOREM CodecsAlwaysKept ==
  ASSUME NEW S, NEW all \in Seq(S)
  PROVE  CodecsAreKept(all)
<1> DEFINE K == Kind(S, PREFERRED_VIDEO_CODEC)
<1> DEFINE first == Only(all, K)
<1> DEFINE rest == Only(all, S \ K)
<1> DEFINE out == preferVideoCodec(all)
<1>1. out = first \o rest
  BY PreferIsOnly
<1>2. first \in Seq(S \cap K) /\ rest \in Seq(S \cap (S \ K))
  BY OnlySeq
<1>3. first \in Seq(S) /\ rest \in Seq(S)
  BY <1>2, SeqMonotonic
<1>4. Len(first) + Len(rest) = Len(all)
  BY OnlyLen
<1>5. \A s \in Seq(S) : \A m : OfKind(s, m) = Only(s, Kind(S, m))
  <2> SUFFICES ASSUME NEW s \in Seq(S), NEW m PROVE OfKind(s, m) = Only(s, Kind(S, m))
    OBVIOUS
  <2> DEFINE I == {i \in DOMAIN s : s[i].mime = m}
  <2> DEFINE J == {i \in DOMAIN s : s[i] \in Kind(S, m)}
  <2>1. Len(s) \in Nat /\ \A i \in 1..Len(s) : i \in I <=> i \in J
    BY DEF Kind
  <2>2. Only(s, Kind(S, m)) = Picked(s, J)
    BY DEF Only
  <2> HIDE DEF I, J
  <2>3. Picked(s, I) = Picked(s, J)
    BY <2>1, PickedAgree
  <2> QED
    BY <2>2, <2>3 DEF I, OfKind
<1>6. K \subseteq S
  BY DEF Kind
<1>7. \A m : Only(out, Kind(S, m)) = Only(all, Kind(S, m))
  <2> SUFFICES ASSUME NEW m PROVE Only(out, Kind(S, m)) = Only(all, Kind(S, m))
    OBVIOUS
  <2> DEFINE M == Kind(S, m)
  <2>1. Only(out, M) = Only(first, M) \o Only(rest, M)
    <3> HIDE DEF first, rest, out, M
    <3> QED
      BY <1>1, <1>3, OnlyConcat
  <2>2. Only(first, M) = Only(all, K \cap M) /\ Only(rest, M) = Only(all, (S \ K) \cap M)
    BY OnlyOnly
  <2>3. Only(all, M) \in Seq(S \cap M)
    BY OnlySeq
  <2>4. Only(all, {}) = <<>>
    <3>1. Only(all, {}) \in Seq(S \cap {})
      BY OnlySeq
    <3>2. S \cap {} = {}
      OBVIOUS
    <3>3. \A s \in Seq({}) : Len(s) = 0
      <4> SUFFICES ASSUME NEW s \in Seq({}), Len(s) # 0 PROVE FALSE
        OBVIOUS
      <4>1. 1 \in 1..Len(s)
        BY LenProperties
      <4> QED
        BY <4>1, ElementOfSeq
    <3> QED
      BY <3>1, <3>2, <3>3, EmptySeq
  <2>5. CASE m = PREFERRED_VIDEO_CODEC
    <3>1. K \cap M = M /\ (S \ K) \cap M = {}
      BY <2>5 DEF Kind
    <3>2. Only(all, M) \o <<>> = Only(all, M)
      BY <2>3, ConcatEmptySeq
    <3> QED
      BY <2>1, <2>2, <2>4, <3>1, <3>2
  <2>6. CASE m # PREFERRED_VIDEO_CODEC
    <3>1. K \cap M = {} /\ (S \ K) \cap M = M
      BY <2>6 DEF Kind
    <3>2. <<>> \o Only(all, M) = Only(all, M)
      BY <2>3, ConcatEmptySeq
    <3> QED
      BY <2>1, <2>2, <2>4, <3>1, <3>2
  <2> QED
    BY <2>5, <2>6
<1>8. out \in Seq(S)
  BY <1>1, <1>3
<1>9. Len(out) = Len(all)
  BY <1>1, <1>3, <1>4
<1>10. ASSUME NEW i \in DOMAIN all, all[i].mime = PREFERRED_VIDEO_CODEC
       PROVE  out[1].mime = PREFERRED_VIDEO_CODEC
  <2>1. all[i] \in K
    BY <1>10 DEF Kind
  <2>2. first # <<>>
    BY <2>1, OnlyKeeps
  <2> HIDE DEF first, rest, K, out
  <2>3. Len(first) \in Nat \ {0}
    BY <1>3, <2>2, EmptySeq
  <2>4. out[1] = first[1] /\ first[1] \in S \cap K
    BY <1>1, <1>2, <1>3, <2>3
  <2> QED
    BY <2>4 DEF K, Kind
<1> HIDE DEF out
<1>11. \A m : OfKind(out, m) = OfKind(all, m)
  BY <1>5, <1>7, <1>8
<1> DEFINE Mimes(s) == {s[i].mime : i \in DOMAIN s}
<1>12. PREFERRED_VIDEO_CODEC \in Mimes(all) => out[1].mime = PREFERRED_VIDEO_CODEC
  BY <1>10
<1> QED
  BY <1>9, <1>11, <1>12, Zenon DEF CodecsAreKept, OfKind, out

-----------------------------------------------------------------------------
(* sanitizeMessage *)

\* All lines but the last end the same way.
Uniform(s, c) == \A i \in DOMAIN s : i < Len(s) => s[i].sep = c

\* Then each line is a piece of its own.
LEMMA EachItsPiece ==
  ASSUME NEW S, NEW sdp \in Seq(S), \A line \in S : line.sep \in {"crlf", "lf"},
         ~MixesSeparators(sdp)
  PROVE  \A i \in DOMAIN sdp : PieceOf(sdp, i) = i
<1> SUFFICES ASSUME NEW i \in DOMAIN sdp PROVE PieceOf(sdp, i) = i
  OBVIOUS
<1>1. DOMAIN sdp = 1..Len(sdp) /\ Len(sdp) \in Nat /\ \A j \in DOMAIN sdp : sdp[j].sep \in {"crlf", "lf"}
  OBVIOUS
<1>2. \A j \in DOMAIN sdp : j < Len(sdp) => sdp[j].sep = Pieces(sdp)
  BY <1>1 DEF MixesSeparators, Pieces
<1> DEFINE starts == {j \in 1..i : j = 1 \/ sdp[j - 1].sep = Pieces(sdp)}
<1>3. i \in starts
  BY <1>1, <1>2
<1>4. \A h \in starts : h <= i
  BY <1>1
<1>5. \A j \in starts : (\A h \in starts : h <= j) => j = i
  BY <1>1, <1>3, <1>4
<1>6. PieceOf(sdp, i) = CHOOSE j \in starts : \A h \in starts : h <= j
  BY DEF PieceOf
<1> HIDE DEF starts
<1> QED
  BY <1>3, <1>4, <1>5, <1>6

Fine(S) == {line \in S : ~IsBad(line)}

\* sanitizeSDP is a filter by what the lines are, if each is a piece.
LEMMA SanitizeIsOnly ==
  ASSUME NEW S, NEW sdp \in Seq(S), \A line \in S : line.sep \in {"crlf", "lf"},
         ~MixesSeparators(sdp)
  PROVE  sanitizeSDP(sdp) = Only(sdp, Fine(S))
<1> DEFINE I == {i \in DOMAIN sdp : ~Drops(sdp, i)}
<1> DEFINE J == {i \in DOMAIN sdp : sdp[i] \in Fine(S)}
<1>1. DOMAIN sdp = 1..Len(sdp) /\ Len(sdp) \in Nat /\ \A j \in DOMAIN sdp : sdp[j] \in S
  OBVIOUS
<1>2. \A i \in DOMAIN sdp : i \in I <=> i \in J
  BY <1>1, EachItsPiece DEF Drops, Fine
<1>3. sanitizeSDP(sdp) = Picked(sdp, I) /\ Only(sdp, Fine(S)) = Picked(sdp, J)
  BY DEF sanitizeSDP, Only
<1> HIDE DEF I, J
<1> QED
  BY <1>1, <1>2, <1>3, PickedAgree

\* What is kept of a uniform description is uniform.
LEMMA OnlyUniform ==
  ASSUME NEW S, NEW sdp \in Seq(S), NEW c, Uniform(sdp, c), NEW A
  PROVE  Uniform(Only(sdp, A), c)
<1>1. CASE sdp = <<>>
  BY <1>1, OnlyEmpty DEF Uniform
<1>2. CASE sdp # <<>>
  <2> DEFINE C == {line \in S : line.sep = c}
  <2>1. PICK t \in Seq(S), x \in S : sdp = Append(t, x)
    BY <1>2, SequenceEmptyOrAppend
  <2>2. /\ DOMAIN t = 1..Len(t) /\ Len(t) \in Nat /\ DOMAIN sdp = 1..Len(t) + 1
        /\ Len(sdp) = Len(t) + 1 /\ \A i \in 1..Len(t) : sdp[i] = t[i] /\ t[i] \in S
    BY <2>1
  <2>3. \A i \in 1..Len(t) : t[i].sep = c
    BY <2>2 DEF Uniform
  <2>4. \A i \in 1..Len(t) : t[i] \in C
    BY <2>2, <2>3
  <2>5. t \in Seq(C)
    BY <2>2, <2>4
  <2> DEFINE u == Only(t, A)
  <2>6. u \in Seq(C \cap A)
    BY <2>5, OnlySeq
  <2>7. \A i \in DOMAIN u : u[i].sep = c
    BY <2>6
  <2>8. Only(sdp, A) = IF x \in A THEN Append(u, x) ELSE u
    BY <2>1, OnlyAppend
  <2> HIDE DEF u
  <2>9. Uniform(u, c)
    BY <2>7 DEF Uniform
  <2>10. x \in A => Uniform(Append(u, x), c)
    <3>1. /\ DOMAIN Append(u, x) = 1..Len(u) + 1 /\ Len(Append(u, x)) = Len(u) + 1
          /\ Len(u) \in Nat /\ DOMAIN u = 1..Len(u)
          /\ \A i \in 1..Len(u) : Append(u, x)[i] = u[i]
      BY <2>6
    <3> QED
      BY <2>7, <3>1 DEF Uniform
  <2> QED
    BY <2>8, <2>9, <2>10
<1> QED
  BY <1>1, <1>2

\* A message that is a description of lines in S, or names a candidate.
Messages(S, C) ==
  [type : Text, description : Text, sdp : Seq(S), decodes : BOOLEAN]
    \cup [type : {"ice-candidate"}, candidate : C, decodes : BOOLEAN]

\* A description of however many lines that is relayed holds no candidate
\* without an IP address and lost nothing else, unless it mixed its
\* separators, and passes again unchanged (sanitizeMessage).
THEOREM RelaysAlwaysClean ==
  ASSUME NEW S, NEW C, \A line \in S : line.sep \in {"crlf", "lf"},
         NEW msg \in Messages(S, C)
  PROVE  RelayedIsClean(msg)
<1> DEFINE out == sanitizeMessage(msg)
<1>1. CASE msg.type = "ice-candidate"
  <2>1. out = IF msg.decodes /\ isValidCandidate(msg.candidate) THEN msg ELSE Refused
    BY <1>1 DEF sanitizeMessage
  <2> QED
    BY <1>1, <2>1 DEF RelayedIsClean
<1>2. CASE msg.type \in {"offer", "answer"}
  <2>1. msg \in [type : Text, description : Text, sdp : Seq(S), decodes : BOOLEAN]
    BY <1>2 DEF Messages
  <2>2. out = IF msg.decodes /\ msg.description = msg.type
              THEN [msg EXCEPT !.sdp = sanitizeSDP(msg.sdp)] ELSE Refused
    BY <1>2 DEF sanitizeMessage
  <2>3. ASSUME msg.decodes, msg.description = msg.type, ~MixesSeparators(msg.sdp)
        PROVE  /\ sanitizeSDP(msg.sdp) = Only(msg.sdp, Fine(S))
               /\ sanitizeSDP(sanitizeSDP(msg.sdp)) = sanitizeSDP(msg.sdp)
    <3> DEFINE kept == Only(msg.sdp, Fine(S))
    <3>1. msg.sdp \in Seq(S)
      BY <2>1
    <3>2. sanitizeSDP(msg.sdp) = kept
      BY <2>3, <3>1, SanitizeIsOnly
    <3>3. kept \in Seq(S \cap Fine(S))
      BY <3>1, OnlySeq
    <3>4. PICK c : Uniform(msg.sdp, c)
      BY <2>3 DEF MixesSeparators, Uniform
    <3>5. Uniform(kept, c)
      BY <3>1, <3>4, OnlyUniform
    <3> HIDE DEF kept
    <3>6. ~MixesSeparators(kept)
      BY <3>5 DEF MixesSeparators, Uniform
    <3>7. kept \in Seq(S) /\ kept \in Seq(Fine(S))
      BY <3>3, SeqMonotonic
    <3>8. sanitizeSDP(kept) = Only(kept, Fine(S))
      BY <3>6, <3>7, SanitizeIsOnly
    <3>9. Only(kept, Fine(S)) = kept
      BY <3>7, OnlyAll
    <3> QED
      BY <3>2, <3>8, <3>9 DEF kept
  <2>4. Only(msg.sdp, Fine(S)) = Picked(msg.sdp, {i \in DOMAIN msg.sdp : ~IsBad(msg.sdp[i])})
    <3> DEFINE I == {i \in DOMAIN msg.sdp : msg.sdp[i] \in Fine(S)}
    <3> DEFINE J == {i \in DOMAIN msg.sdp : ~IsBad(msg.sdp[i])}
    <3>1. msg.sdp \in Seq(S)
      BY <2>1
    <3>2. Len(msg.sdp) \in Nat /\ \A i \in 1..Len(msg.sdp) : i \in I <=> i \in J
      BY <3>1 DEF Fine
    <3> HIDE DEF I, J
    <3>3. Picked(msg.sdp, I) = Picked(msg.sdp, J)
      BY <3>2, PickedAgree
    <3> QED
      BY <3>3 DEF I, J, Only
  <2>5. CASE msg.decodes /\ msg.description = msg.type
    <3>1. /\ out.sdp = sanitizeSDP(msg.sdp) /\ out.type = msg.type
          /\ out.description = msg.type /\ out.decodes
          /\ out = [msg EXCEPT !.sdp = sanitizeSDP(msg.sdp)]
      BY <2>1, <2>2, <2>5
    <3>2. sanitizeMessage(out) = [out EXCEPT !.sdp = sanitizeSDP(out.sdp)]
      <4> HIDE DEF out
      <4> QED
        BY <1>2, <3>1 DEF sanitizeMessage
    <3>3. ASSUME ~MixesSeparators(msg.sdp)
          PROVE  /\ out.sdp = Picked(msg.sdp, {i \in DOMAIN msg.sdp : ~IsBad(msg.sdp[i])})
                 /\ sanitizeMessage(out) = out
      <4>1. out.sdp = Only(msg.sdp, Fine(S)) /\ sanitizeSDP(out.sdp) = out.sdp
        BY <2>3, <2>5, <3>1, <3>3
      <4>2. [out EXCEPT !.sdp = out.sdp] = out
        BY <2>1, <3>1
      <4> HIDE DEF out
      <4> QED
        BY <2>4, <3>2, <4>1, <4>2
    <3> HIDE DEF out
    <3> QED
      BY <1>2, <3>1, <3>3, Zenon DEF RelayedIsClean, out
  <2>6. CASE ~(msg.decodes /\ msg.description = msg.type)
    BY <2>2, <2>6 DEF RelayedIsClean
  <2> QED
    BY <2>5, <2>6
<1>3. CASE msg.type \notin {"ice-candidate", "offer", "answer"}
  <2>1. out = Refused
    BY <1>3 DEF sanitizeMessage
  <2> QED
    BY <2>1 DEF RelayedIsClean
<1> QED
  BY <1>1, <1>2, <1>3

-----------------------------------------------------------------------------
(* SetAll: a Map in which one parameter after the other is set. *)

\* The recursion of SetAll, as far as m.
Sets(s, m, f) ==
  f = [n \in 0..m |->
         IF n = 0 THEN <<>>
         ELSE MapSet(f[n - 1], s[n])]

\* The recursion defines a function.
LEMMA SetsExists ==
  ASSUME NEW s
  PROVE  \A m \in Nat : \E f : Sets(s, m, f)
<1> DEFINE P == {m \in Nat : \E f : Sets(s, m, f)}
<1>1. 0 \in P
  <2> DEFINE f == [n \in 0..0 |-> <<>>]
  <2>1. f = [n \in 0..0 |->
         IF n = 0 THEN <<>>
         ELSE MapSet(f[n - 1], s[n])]
    OBVIOUS
  <2>2. Sets(s, 0, f)
    BY <2>1, Zenon DEF Sets
  <2> HIDE DEF f
  <2> QED
    BY <2>2
<1>2. ASSUME NEW m \in P PROVE m + 1 \in P
  <2>1. PICK f : Sets(s, m, f)
    OBVIOUS
  <2> DEFINE next == MapSet(f[m], s[m + 1])
  <2> DEFINE g == [n \in 0..m + 1 |-> IF n = m + 1 THEN next ELSE f[n]]
  <2>2. \A n \in 0..m + 1 : g[n] = IF n = 0 THEN <<>>
                ELSE MapSet(g[n - 1], s[n])
    <3> SUFFICES ASSUME NEW n \in 0..m + 1
                 PROVE  g[n] = IF n = 0 THEN <<>>
                    ELSE MapSet(g[n - 1], s[n])
      OBVIOUS
    <3>1. CASE n = m + 1
      <4>1. n # 0 /\ n - 1 = m /\ m \in 0..m + 1 /\ m # m + 1 /\ n \in 0..m + 1
        BY <3>1
      <4>2. g[m] = f[m]
        BY <4>1
      <4>3. g[n] = next
        BY <3>1
      <4> HIDE DEF g
      <4> QED
        BY <3>1, <4>1, <4>2, <4>3
    <3>2. CASE n # m + 1
      <4>1. n \in 0..m /\ (n # 0 => n - 1 \in 0..m /\ n - 1 # m + 1)
        BY <3>2
      <4>2. f[n] = IF n = 0 THEN <<>>
                ELSE MapSet(f[n - 1], s[n])
        BY <2>1, <4>1 DEF Sets
      <4>3. g[n] = f[n] /\ (n # 0 => g[n - 1] = f[n - 1])
        BY <3>2, <4>1
      <4> HIDE DEF g
      <4> QED
        BY <4>2, <4>3
    <3> QED
      BY <3>1, <3>2
  <2>3. g = [n \in 0..m + 1 |-> g[n]]
    OBVIOUS
  <2> HIDE DEF g
  <2>4. g = [n \in 0..m + 1 |-> IF n = 0 THEN <<>>
                ELSE MapSet(g[n - 1], s[n])]
    BY <2>2, <2>3
  <2>5. Sets(s, m + 1, g)
    BY <2>4, Zenon DEF Sets
  <2>6. \E h : Sets(s, m + 1, h)
    BY <2>5
  <2> QED
    BY <2>6
<1> HIDE DEF P
<1>3. \A m \in Nat : m \in P
  <2>1. P \subseteq Nat
    BY DEF P
  <2> QED
    BY <1>1, <1>2, <2>1, NoFirstException
<1> QED
  BY <1>3 DEF P

\* SetAll is where that function ends.
LEMMA SetAllIs ==
  ASSUME NEW s, Len(s) \in Nat
  PROVE  \E f : Sets(s, Len(s), f) /\ SetAll(s) = f[Len(s)]
<1> DEFINE map == CHOOSE f : Sets(s, Len(s), f)
<1>1. Sets(s, Len(s), map)
  BY SetsExists, Zenon
<1>2. SetAll(s) = map[Len(s)]
  BY Zenon DEF SetAll, Sets
<1> QED
  BY <1>1, <1>2, Zenon

\* Two sequences that agree on their first m elements give the same so far.
LEMMA SetsAgree ==
  ASSUME NEW s, NEW f, NEW k \in Nat, Sets(s, k, f),
         NEW t, NEW g, NEW l \in Nat, Sets(t, l, g),
         NEW m \in Nat, m <= k, m <= l, \A i \in 1..m : s[i] = t[i]
  PROVE  f[m] = g[m]
<1> DEFINE P == {n \in Nat : n <= m => f[n] = g[n]}
<1>1. \A n \in 0..k : f[n] = IF n = 0 THEN <<>>
         ELSE MapSet(f[n - 1], s[n])
  BY DEF Sets
<1>2. \A n \in 0..l : g[n] = IF n = 0 THEN <<>>
         ELSE MapSet(g[n - 1], t[n])
  BY DEF Sets
<1>3. 0 \in P
  <2>1. 0 \in 0..k /\ 0 \in 0..l
    OBVIOUS
  <2>2. f[0] = <<>>
    BY <1>1, <2>1, Zenon
  <2>3. g[0] = <<>>
    BY <1>2, <2>1, Zenon
  <2> QED
    BY <2>2, <2>3
<1>4. ASSUME NEW n \in P PROVE n + 1 \in P
  <2> SUFFICES ASSUME n + 1 <= m PROVE f[n + 1] = g[n + 1]
    OBVIOUS
  <2>1. /\ n \in Nat /\ f[n] = g[n] /\ n + 1 \in 0..k /\ n + 1 \in 0..l
        /\ n + 1 \in 1..m /\ n + 1 # 0 /\ (n + 1) - 1 = n /\ s[n + 1] = t[n + 1]
    OBVIOUS
  <2>2. f[n + 1] = MapSet(f[n], s[n + 1])
    BY <1>1, <2>1
  <2>3. g[n + 1] = MapSet(g[n], t[n + 1])
    BY <1>2, <2>1
  <2> QED
    BY <2>1, <2>2, <2>3
<1>5. P \subseteq Nat
  OBVIOUS
<1> HIDE DEF P
<1>6. m \in P
  BY <1>3, <1>4, <1>5, NoFirstException
<1> QED
  BY <1>6 DEF P

\* The recursion in terms of sequences: empty, and one element more.
LEMMA SetAllEmpty == SetAll(<<>>) = <<>>
<1>1. Len(<<>>) = 0
  OBVIOUS
<1>2. PICK f : Sets(<<>>, 0, f) /\ SetAll(<<>>) = f[0]
  BY <1>1, SetAllIs
<1> QED
  BY <1>2 DEF Sets

\* The last parameter is set in the map of the others.
LEMMA SetAllAppend ==
  ASSUME NEW S, NEW s \in Seq(S), NEW x \in S
  PROVE  SetAll(Append(s, x)) = MapSet(SetAll(s), x)
<1> DEFINE t == Append(s, x)
<1>1. /\ t \in Seq(S) /\ Len(t) = Len(s) + 1 /\ Len(s) \in Nat /\ Len(t) \in Nat
      /\ t[Len(s) + 1] = x /\ \A i \in 1..Len(s) : t[i] = s[i]
  OBVIOUS
<1> HIDE DEF t
<1>2. PICK f : Sets(s, Len(s), f) /\ SetAll(s) = f[Len(s)]
  BY <1>1, SetAllIs
<1>3. PICK g : Sets(t, Len(t), g) /\ SetAll(t) = g[Len(t)]
  BY <1>1, SetAllIs
<1>4. f[Len(s)] = g[Len(s)]
  <2>1. Len(s) <= Len(s) /\ Len(s) <= Len(t) /\ \A i \in 1..Len(s) : s[i] = t[i]
    BY <1>1
  <2> QED
    BY <1>1, <1>2, <1>3, <2>1, SetsAgree
<1>5. g[Len(t)] = MapSet(g[Len(t) - 1], t[Len(t)])
  <2>1. Len(t) \in 0..Len(t) /\ Len(t) # 0
    BY <1>1
  <2> QED
    BY <1>3, <2>1 DEF Sets
<1>6. Len(t) - 1 = Len(s)
  BY <1>1
<1> QED
  BY <1>1, <1>2, <1>3, <1>4, <1>5, <1>6 DEF t

-----------------------------------------------------------------------------
(* WithFmtp *)

\* The recursion of WithFmtp, as far as m.
Adds(s, pt, m, f) ==
  f = [n \in 0..m |->
         IF n = 0 THEN <<>>
         ELSE f[n - 1] \o (IF IsOpus(s[n], pt) THEN <<s[n], Fmtp(pt, opusParams)>> ELSE <<s[n]>>)]

\* The recursion defines a function.
LEMMA AddsExists ==
  ASSUME NEW s, NEW pt
  PROVE  \A m \in Nat : \E f : Adds(s, pt, m, f)
<1> DEFINE P == {m \in Nat : \E f : Adds(s, pt, m, f)}
<1>1. 0 \in P
  <2> DEFINE f == [n \in 0..0 |-> <<>>]
  <2>1. f = [n \in 0..0 |->
         IF n = 0 THEN <<>>
         ELSE f[n - 1] \o (IF IsOpus(s[n], pt) THEN <<s[n], Fmtp(pt, opusParams)>> ELSE <<s[n]>>)]
    OBVIOUS
  <2>2. Adds(s, pt, 0, f)
    BY <2>1, Zenon DEF Adds
  <2> HIDE DEF f
  <2> QED
    BY <2>2
<1>2. ASSUME NEW m \in P PROVE m + 1 \in P
  <2>1. PICK f : Adds(s, pt, m, f)
    OBVIOUS
  <2> DEFINE next == f[m] \o (IF IsOpus(s[m + 1], pt) THEN <<s[m + 1], Fmtp(pt, opusParams)>>
                                                       ELSE <<s[m + 1]>>)
  <2> DEFINE g == [n \in 0..m + 1 |-> IF n = m + 1 THEN next ELSE f[n]]
  <2>2. \A n \in 0..m + 1 : g[n] = IF n = 0 THEN <<>>
                ELSE g[n - 1] \o (IF IsOpus(s[n], pt) THEN <<s[n], Fmtp(pt, opusParams)>> ELSE <<s[n]>>)
    <3> SUFFICES ASSUME NEW n \in 0..m + 1
                 PROVE  g[n] = IF n = 0 THEN <<>>
                    ELSE g[n - 1] \o (IF IsOpus(s[n], pt) THEN <<s[n], Fmtp(pt, opusParams)>> ELSE <<s[n]>>)
      OBVIOUS
    <3>1. CASE n = m + 1
      <4>1. n # 0 /\ n - 1 = m /\ m \in 0..m + 1 /\ m # m + 1 /\ n \in 0..m + 1
        BY <3>1
      <4>2. g[m] = f[m]
        BY <4>1
      <4>3. g[n] = next
        BY <3>1
      <4> HIDE DEF g
      <4> QED
        BY <3>1, <4>1, <4>2, <4>3
    <3>2. CASE n # m + 1
      <4>1. n \in 0..m /\ (n # 0 => n - 1 \in 0..m /\ n - 1 # m + 1)
        BY <3>2
      <4>2. f[n] = IF n = 0 THEN <<>>
                ELSE f[n - 1] \o (IF IsOpus(s[n], pt) THEN <<s[n], Fmtp(pt, opusParams)>> ELSE <<s[n]>>)
        BY <2>1, <4>1 DEF Adds
      <4>3. g[n] = f[n] /\ (n # 0 => g[n - 1] = f[n - 1])
        BY <3>2, <4>1
      <4> HIDE DEF g
      <4> QED
        BY <4>2, <4>3
    <3> QED
      BY <3>1, <3>2
  <2>3. g = [n \in 0..m + 1 |-> g[n]]
    OBVIOUS
  <2> HIDE DEF g
  <2>4. g = [n \in 0..m + 1 |-> IF n = 0 THEN <<>>
                ELSE g[n - 1] \o (IF IsOpus(s[n], pt) THEN <<s[n], Fmtp(pt, opusParams)>> ELSE <<s[n]>>)]
    BY <2>2, <2>3
  <2>5. Adds(s, pt, m + 1, g)
    BY <2>4, Zenon DEF Adds
  <2>6. \E h : Adds(s, pt, m + 1, h)
    BY <2>5
  <2> QED
    BY <2>6
<1> HIDE DEF P
<1>3. \A m \in Nat : m \in P
  <2>1. P \subseteq Nat
    BY DEF P
  <2> QED
    BY <1>1, <1>2, <2>1, NoFirstException
<1> QED
  BY <1>3 DEF P

\* WithFmtp is where that function ends.
LEMMA WithFmtpIs ==
  ASSUME NEW s, NEW pt, Len(s) \in Nat
  PROVE  \E f : Adds(s, pt, Len(s), f) /\ WithFmtp(s, pt) = f[Len(s)]
<1> DEFINE added == CHOOSE f : Adds(s, pt, Len(s), f)
<1>1. Adds(s, pt, Len(s), added)
  BY AddsExists, Zenon
<1>2. WithFmtp(s, pt) = added[Len(s)]
  BY Zenon DEF WithFmtp, Adds
<1> QED
  BY <1>1, <1>2, Zenon

\* Two sequences that agree on their first m elements give the same so far.
LEMMA AddsAgree ==
  ASSUME NEW s, NEW pt, NEW f, NEW k \in Nat, Adds(s, pt, k, f),
         NEW t, NEW g, NEW l \in Nat, Adds(t, pt, l, g),
         NEW m \in Nat, m <= k, m <= l, \A i \in 1..m : s[i] = t[i]
  PROVE  f[m] = g[m]
<1> DEFINE P == {n \in Nat : n <= m => f[n] = g[n]}
<1>1. \A n \in 0..k : f[n] = IF n = 0 THEN <<>>
         ELSE f[n - 1] \o (IF IsOpus(s[n], pt) THEN <<s[n], Fmtp(pt, opusParams)>> ELSE <<s[n]>>)
  BY DEF Adds
<1>2. \A n \in 0..l : g[n] = IF n = 0 THEN <<>>
         ELSE g[n - 1] \o (IF IsOpus(t[n], pt) THEN <<t[n], Fmtp(pt, opusParams)>> ELSE <<t[n]>>)
  BY DEF Adds
<1>3. 0 \in P
  <2>1. 0 \in 0..k /\ 0 \in 0..l
    OBVIOUS
  <2>2. f[0] = <<>>
    BY <1>1, <2>1, Zenon
  <2>3. g[0] = <<>>
    BY <1>2, <2>1, Zenon
  <2> QED
    BY <2>2, <2>3
<1>4. ASSUME NEW n \in P PROVE n + 1 \in P
  <2> SUFFICES ASSUME n + 1 <= m PROVE f[n + 1] = g[n + 1]
    OBVIOUS
  <2>1. /\ n \in Nat /\ f[n] = g[n] /\ n + 1 \in 0..k /\ n + 1 \in 0..l
        /\ n + 1 \in 1..m /\ n + 1 # 0 /\ (n + 1) - 1 = n /\ s[n + 1] = t[n + 1]
    OBVIOUS
  <2>2. f[n + 1] = f[n] \o (IF IsOpus(s[n + 1], pt) THEN <<s[n + 1], Fmtp(pt, opusParams)>> ELSE <<s[n + 1]>>)
    BY <1>1, <2>1
  <2>3. g[n + 1] = g[n] \o (IF IsOpus(t[n + 1], pt) THEN <<t[n + 1], Fmtp(pt, opusParams)>> ELSE <<t[n + 1]>>)
    BY <1>2, <2>1
  <2> QED
    BY <2>1, <2>2, <2>3
<1>5. P \subseteq Nat
  OBVIOUS
<1> HIDE DEF P
<1>6. m \in P
  BY <1>3, <1>4, <1>5, NoFirstException
<1> QED
  BY <1>6 DEF P

\* The recursion in terms of sequences: empty, and one element more.
LEMMA WithFmtpEmpty == \A pt : WithFmtp(<<>>, pt) = <<>>
<1> SUFFICES ASSUME NEW pt PROVE WithFmtp(<<>>, pt) = <<>>
  OBVIOUS
<1>1. Len(<<>>) = 0
  OBVIOUS
<1>2. PICK f : Adds(<<>>, pt, 0, f) /\ WithFmtp(<<>>, pt) = f[0]
  BY <1>1, WithFmtpIs
<1> QED
  BY <1>2 DEF Adds

\* The last line is put behind what the others became.
LEMMA WithFmtpAppend ==
  ASSUME NEW S, NEW s \in Seq(S), NEW x \in S, NEW pt
  PROVE  WithFmtp(Append(s, x), pt) =
           WithFmtp(s, pt) \o (IF IsOpus(x, pt) THEN <<x, Fmtp(pt, opusParams)>> ELSE <<x>>)
<1> DEFINE t == Append(s, x)
<1>1. /\ t \in Seq(S) /\ Len(t) = Len(s) + 1 /\ Len(s) \in Nat /\ Len(t) \in Nat
      /\ t[Len(s) + 1] = x /\ \A i \in 1..Len(s) : t[i] = s[i]
  OBVIOUS
<1> HIDE DEF t
<1>2. PICK f : Adds(s, pt, Len(s), f) /\ WithFmtp(s, pt) = f[Len(s)]
  BY <1>1, WithFmtpIs
<1>3. PICK g : Adds(t, pt, Len(t), g) /\ WithFmtp(t, pt) = g[Len(t)]
  BY <1>1, WithFmtpIs
<1>4. f[Len(s)] = g[Len(s)]
  <2>1. Len(s) <= Len(s) /\ Len(s) <= Len(t) /\ \A i \in 1..Len(s) : s[i] = t[i]
    BY <1>1
  <2> QED
    BY <1>1, <1>2, <1>3, <2>1, AddsAgree
<1>5. g[Len(t)] = g[Len(t) - 1] \o (IF IsOpus(t[Len(t)], pt) THEN <<t[Len(t)], Fmtp(pt, opusParams)>>
                                                               ELSE <<t[Len(t)]>>)
  <2>1. Len(t) \in 0..Len(t) /\ Len(t) # 0
    BY <1>1
  <2> QED
    BY <1>3, <2>1 DEF Adds
<1>6. Len(t) - 1 = Len(s)
  BY <1>1
<1> QED
  BY <1>1, <1>2, <1>3, <1>4, <1>5, <1>6 DEF t

-----------------------------------------------------------------------------
(* mergeFmtpParams *)

Param == [k : Text, v : Text]

\* What a Map looks like: each key once, in lower case.
IsMap(map) ==
  /\ map \in Seq(Param)
  /\ \A i \in DOMAIN map : Lower(map[i].k) = map[i].k
  /\ \A i, j \in DOMAIN map : map[i].k = map[j].k => i = j

KeysOf(params) == {params[i].k : i \in DOMAIN params}
LoweredKeys(params) == {Lower(params[i].k) : i \in DOMAIN params}

\* A key in lower case stays as it is.
LEMMA LowerTwice == \A k : Lower(Lower(k)) = Lower(k)
  BY DEF Lower

\* A parameter set in a map: it is a map, has the parameter, and the others.
LEMMA MapSetSets ==
  ASSUME NEW map, IsMap(map), NEW p \in Param
  PROVE  /\ IsMap(MapSet(map, p))
         /\ KeysOf(MapSet(map, p)) = KeysOf(map) \cup {Lower(p.k)}
         /\ [k |-> Lower(p.k), v |-> p.v] \in ToSet(MapSet(map, p))
         /\ \A i \in DOMAIN map : map[i].k # Lower(p.k) => map[i] \in ToSet(MapSet(map, p))
<1> DEFINE q == [k |-> Lower(p.k), v |-> p.v]
<1> DEFINE places == {i \in DOMAIN map : map[i].k = Lower(p.k)}
<1>1. /\ map \in Seq(Param) /\ q \in Param /\ q.k = Lower(p.k) /\ q.v = p.v
      /\ Lower(q.k) = q.k
  <2>1. Lower(p.k) \in Text /\ p.v \in Text
    BY DEF Lower, Param, Text
  <2>2. map \in Seq(Param)
    BY DEF IsMap
  <2>3. q \in Param /\ q.k = Lower(p.k) /\ q.v = p.v
    BY <2>1 DEF Param
  <2>4. Lower(Lower(p.k)) = Lower(p.k)
    BY LowerTwice
  <2> HIDE DEF q
  <2> QED
    BY <2>2, <2>3, <2>4
<1>2. CASE places = {}
  <2> DEFINE out == Append(map, q)
  <2>1. MapSet(map, p) = out
    BY <1>2 DEF MapSet
  <2>2. /\ out \in Seq(Param) /\ DOMAIN map = 1..Len(map) /\ DOMAIN out = 1..(Len(map) + 1)
        /\ out[Len(map) + 1] = q /\ \A i \in 1..Len(map) : out[i] = map[i] /\ i \in 1..(Len(map) + 1)
        /\ Len(map) + 1 \in 1..(Len(map) + 1)
        /\ \A i \in 1..(Len(map) + 1) : i \in 1..Len(map) \/ i = Len(map) + 1
    BY <1>1, AppendedElements
  <2>3. \A i \in DOMAIN map : map[i].k # q.k
    BY <1>1, <1>2
  <2> HIDE DEF out, q, places
  <2>4. IsMap(out)
    BY <1>1, <2>2, <2>3 DEF IsMap
  <2>5. KeysOf(out) = KeysOf(map) \cup {q.k}
    BY <2>2 DEF KeysOf
  <2>6. q \in ToSet(out) /\ \A i \in DOMAIN map : map[i] \in ToSet(out)
    BY <2>2 DEF ToSet
  <2> QED
    BY <1>1, <2>1, <2>4, <2>5, <2>6 DEF q
<1>3. CASE places # {}
  <2> DEFINE out == [i \in DOMAIN map |-> IF i \in places THEN [map[i] EXCEPT !.v = p.v] ELSE map[i]]
  <2>1. MapSet(map, p) = out
    BY <1>3 DEF MapSet
  <2>2. /\ DOMAIN out = DOMAIN map /\ DOMAIN map = 1..Len(map) /\ Len(map) \in Nat
        /\ \A i \in DOMAIN map : map[i] \in Param
    BY <1>1
  <2>3. \A i \in places : i \in DOMAIN map /\ map[i].k = q.k
    BY <1>1
  <2>4. \A i \in DOMAIN map : i \notin places => map[i].k # q.k /\ out[i] = map[i]
    BY <1>1
  <2>5. \A i \in places : out[i] = q
    <3> SUFFICES ASSUME NEW i \in places PROVE out[i] = q
      OBVIOUS
    <3>1. map[i] \in Param /\ map[i].k = q.k
      BY <2>2, <2>3
    <3>2. [map[i] EXCEPT !.v = p.v] = [k |-> map[i].k, v |-> p.v]
      BY <3>1 DEF Param
    <3> QED
      BY <2>3, <3>1, <3>2
  <2> HIDE DEF out, q, places
  <2>6. \A i \in DOMAIN map : out[i].k = map[i].k /\ out[i] \in Param
    BY <1>1, <2>2, <2>3, <2>4, <2>5
  <2>7. out \in Seq(Param)
    <3>1. out = [i \in 1..Len(map) |-> out[i]]
      BY <2>2 DEF out
    <3> QED
      BY <2>2, <2>6, <3>1
  <2>8. IsMap(out)
    BY <2>2, <2>6, <2>7 DEF IsMap
  <2>9. PICK a : a \in places
    BY <1>3
  <2>10. KeysOf(out) = KeysOf(map) \cup {q.k}
    BY <2>2, <2>3, <2>6, <2>9 DEF KeysOf
  <2>11. q \in ToSet(out) /\ \A i \in DOMAIN map : map[i].k # q.k => map[i] \in ToSet(out)
    BY <2>2, <2>3, <2>4, <2>5, <2>9 DEF ToSet
  <2> QED
    BY <1>1, <2>1, <2>8, <2>10, <2>11 DEF q
<1> QED
  BY <1>2, <1>3

\* A parameter that is there already changes nothing.
LEMMA MapSetAgain ==
  ASSUME NEW map, IsMap(map), NEW p \in ToSet(map)
  PROVE  MapSet(map, p) = map
<1>1. PICK a \in DOMAIN map : p = map[a]
  BY DEF ToSet
<1> DEFINE places == {i \in DOMAIN map : map[i].k = Lower(p.k)}
<1>2. places = {a}
  BY <1>1 DEF IsMap
<1> DEFINE out == [i \in DOMAIN map |-> IF i \in places THEN [map[i] EXCEPT !.v = p.v] ELSE map[i]]
<1>3. MapSet(map, p) = out
  BY <1>2 DEF MapSet
<1>4. map[a] \in Param
  BY <1>1 DEF IsMap
<1>5. [map[a] EXCEPT !.v = p.v] = map[a]
  BY <1>1, <1>4 DEF Param
<1> HIDE DEF places
<1>6. \A i \in DOMAIN map : out[i] = map[i]
  BY <1>2, <1>5
<1>7. map = [i \in DOMAIN map |-> map[i]]
  BY DEF IsMap
<1> QED
  BY <1>3, <1>6, <1>7

\* Whatever is set, the result is a map of the keys in lower case.
LEMMA SetAllMaps ==
  \A s \in Seq(Param) : IsMap(SetAll(s)) /\ KeysOf(SetAll(s)) = LoweredKeys(s)
<1> DEFINE P == {s \in Seq(Param) : IsMap(SetAll(s)) /\ KeysOf(SetAll(s)) = LoweredKeys(s)}
<1>1. <<>> \in P
  <2>1. SetAll(<<>>) = <<>>
    BY SetAllEmpty
  <2>2. IsMap(<<>>) /\ KeysOf(<<>>) = {} /\ LoweredKeys(<<>>) = {} /\ <<>> \in Seq(Param)
    BY DEF IsMap, KeysOf, LoweredKeys
  <2> QED
    BY <2>1, <2>2
<1>2. ASSUME NEW s \in Seq(Param), NEW x \in Param, s \in P PROVE Append(s, x) \in P
  <2>1. IsMap(SetAll(s)) /\ KeysOf(SetAll(s)) = LoweredKeys(s)
    BY <1>2
  <2>2. SetAll(Append(s, x)) = MapSet(SetAll(s), x)
    BY SetAllAppend
  <2>3. /\ IsMap(MapSet(SetAll(s), x))
        /\ KeysOf(MapSet(SetAll(s), x)) = KeysOf(SetAll(s)) \cup {Lower(x.k)}
    BY <2>1, MapSetSets
  <2>4. LoweredKeys(Append(s, x)) = LoweredKeys(s) \cup {Lower(x.k)}
    BY AppendedElements DEF LoweredKeys
  <2>5. Append(s, x) \in Seq(Param)
    OBVIOUS
  <2> QED
    BY <2>1, <2>2, <2>3, <2>4, <2>5
<1> HIDE DEF P
<1>3. \A s \in Seq(Param) : s \in P
  BY <1>1, <1>2, SeqInduction
<1> QED
  BY <1>3 DEF P

\* All but the last of a map's parameters are a map without the last one's key.
LEMMA MapFront ==
  ASSUME NEW t \in Seq(Param), NEW x \in Param, IsMap(Append(t, x))
  PROVE  IsMap(t) /\ Lower(x.k) = x.k /\ \A i \in DOMAIN t : t[i].k # x.k
  BY AppendedElements DEF IsMap

\* The last of the parameters set win.
LEMMA LastWins ==
  ASSUME NEW e \in Seq(Param)
  PROVE  \A t \in Seq(Param) : IsMap(t) => ToSet(t) \subseteq ToSet(SetAll(e \o t))
<1> DEFINE P == {t \in Seq(Param) : IsMap(t) => ToSet(t) \subseteq ToSet(SetAll(e \o t))}
<1>1. <<>> \in P
  BY DEF ToSet
<1>2. ASSUME NEW t \in Seq(Param), NEW x \in Param, t \in P PROVE Append(t, x) \in P
  <2>1. SUFFICES ASSUME IsMap(Append(t, x))
                 PROVE  ToSet(Append(t, x)) \subseteq ToSet(SetAll(e \o Append(t, x)))
    BY AppendedElements
  <2>2. IsMap(t) /\ Lower(x.k) = x.k /\ \A i \in DOMAIN t : t[i].k # x.k
    BY <2>1, MapFront
  <2> DEFINE u == e \o t
  <2>3. u \in Seq(Param)
    BY ConcatProperties
  <2>4. ToSet(t) \subseteq ToSet(SetAll(u))
    BY <1>2, <2>2
  <2>5. e \o Append(t, x) = Append(u, x)
    BY AppendToConcat
  <2> HIDE DEF u
  <2> DEFINE m == SetAll(u)
  <2>6. IsMap(m)
    BY <2>3, SetAllMaps
  <2>7. SetAll(Append(u, x)) = MapSet(m, x)
    BY <2>3, SetAllAppend
  <2> HIDE DEF m
  <2>8. /\ [k |-> Lower(x.k), v |-> x.v] \in ToSet(MapSet(m, x))
        /\ \A i \in DOMAIN m : m[i].k # Lower(x.k) => m[i] \in ToSet(MapSet(m, x))
    BY <2>6, MapSetSets
  <2>9. x = [k |-> Lower(x.k), v |-> x.v]
    BY <2>2 DEF Param
  <2>10. \A y \in ToSet(t) : y \in ToSet(MapSet(m, x))
    <3> SUFFICES ASSUME NEW y \in ToSet(t) PROVE y \in ToSet(MapSet(m, x))
      OBVIOUS
    <3>1. y.k # x.k
      BY <2>2 DEF ToSet
    <3>2. PICK i \in DOMAIN m : y = m[i]
      BY <2>4 DEF ToSet, m
    <3> QED
      BY <2>2, <2>8, <3>1, <3>2
  <2>11. \A y \in ToSet(Append(t, x)) : y = x \/ y \in ToSet(t)
    BY AppendedElements DEF ToSet
  <2> QED
    BY <2>5, <2>7, <2>8, <2>9, <2>10, <2>11
<1> HIDE DEF P
<1>3. \A t \in Seq(Param) : t \in P
  BY <1>1, <1>2, SeqInduction
<1> QED
  BY <1>3 DEF P

\* Parameters that are there already change nothing.
LEMMA SetAllAgain ==
  ASSUME NEW s \in Seq(Param)
  PROVE  \A t \in Seq(Param) : ToSet(t) \subseteq ToSet(SetAll(s)) => SetAll(s \o t) = SetAll(s)
<1> DEFINE P == {t \in Seq(Param) : ToSet(t) \subseteq ToSet(SetAll(s)) => SetAll(s \o t) = SetAll(s)}
<1>1. <<>> \in P
  BY ConcatEmptySeq
<1>2. ASSUME NEW t \in Seq(Param), NEW x \in Param, t \in P PROVE Append(t, x) \in P
  <2>1. SUFFICES ASSUME ToSet(Append(t, x)) \subseteq ToSet(SetAll(s))
                 PROVE  SetAll(s \o Append(t, x)) = SetAll(s)
    BY AppendedElements
  <2>2. ToSet(t) \subseteq ToSet(SetAll(s)) /\ x \in ToSet(SetAll(s))
    <3>1. \A y \in ToSet(t) : y \in ToSet(Append(t, x))
      BY AppendedElements DEF ToSet
    <3>2. x \in ToSet(Append(t, x))
      BY AppendedElements DEF ToSet
    <3> QED
      BY <2>1, <3>1, <3>2
  <2>3. SetAll(s \o t) = SetAll(s)
    BY <1>2, <2>2
  <2> DEFINE u == s \o t
  <2>4. u \in Seq(Param)
    BY ConcatProperties
  <2>5. s \o Append(t, x) = Append(u, x)
    BY AppendToConcat
  <2>6. SetAll(u) = SetAll(s)
    BY <2>3
  <2> HIDE DEF u
  <2>7. SetAll(Append(u, x)) = MapSet(SetAll(u), x)
    BY <2>4, SetAllAppend
  <2> DEFINE m == SetAll(s)
  <2>8. IsMap(m) /\ x \in ToSet(m)
    BY <2>2, SetAllMaps
  <2> HIDE DEF m
  <2>9. MapSet(m, x) = m
    BY <2>8, MapSetAgain
  <2> QED
    BY <2>5, <2>6, <2>7, <2>9 DEF m
<1> HIDE DEF P
<1>3. \A t \in Seq(Param) : t \in P
  BY <1>1, <1>2, SeqInduction
<1> QED
  BY <1>3 DEF P

\* A map's parameters set one after the other are that map.
LEMMA SetAllOfMap ==
  \A t \in Seq(Param) : IsMap(t) => SetAll(t) = t
<1> DEFINE P == {t \in Seq(Param) : IsMap(t) => SetAll(t) = t}
<1>1. <<>> \in P
  BY SetAllEmpty
<1>2. ASSUME NEW t \in Seq(Param), NEW x \in Param, t \in P PROVE Append(t, x) \in P
  <2>1. SUFFICES ASSUME IsMap(Append(t, x)) PROVE SetAll(Append(t, x)) = Append(t, x)
    BY AppendedElements
  <2>2. IsMap(t) /\ Lower(x.k) = x.k /\ \A i \in DOMAIN t : t[i].k # x.k
    BY <2>1, MapFront
  <2>3. SetAll(t) = t
    BY <1>2, <2>2
  <2>4. SetAll(Append(t, x)) = MapSet(t, x)
    BY <2>3, SetAllAppend
  <2>5. x = [k |-> Lower(x.k), v |-> x.v]
    BY <2>2 DEF Param
  <2>6. {i \in DOMAIN t : t[i].k = Lower(x.k)} = {}
    BY <2>2
  <2>7. MapSet(t, x) = Append(t, x)
    BY <2>5, <2>6 DEF MapSet
  <2> QED
    BY <2>4, <2>7
<1> HIDE DEF P
<1>3. \A t \in Seq(Param) : t \in P
  BY <1>1, <1>2, SeqInduction
<1> QED
  BY <1>3 DEF P

\* The parameters the page wants are in lower case, each once.
LEMMA OpusParamsAreMap == IsMap(opusParams) /\ opusParams \in Seq(Param)
<1>1. DOMAIN opusParams = 1..6 /\ Len(opusParams) = 6
  BY DEF opusParams
<1>2. opusParams \in Seq(Param)
  <2> DEFINE P(k, v) == [k |-> k, v |-> v]
  <2>1. \A k, v \in Text : P(k, v) \in Param
    BY DEF Param
  <2> HIDE DEF P
  <2>2. /\ "useinbandfec" \in Text /\ "usedtx" \in Text /\ "stereo" \in Text
        /\ "sprop-stereo" \in Text /\ "maxaveragebitrate" \in Text /\ "cbr" \in Text
        /\ "1" \in Text /\ "0" \in Text /\ "28000" \in Text
    BY DEF Text
  <2>3. /\ P("useinbandfec", "1") \in Param /\ P("usedtx", "1") \in Param
        /\ P("stereo", "0") \in Param /\ P("sprop-stereo", "0") \in Param
        /\ P("maxaveragebitrate", "28000") \in Param /\ P("cbr", "0") \in Param
    BY <2>1, <2>2
  <2>4. opusParams = << P("useinbandfec", "1"), P("usedtx", "1"), P("stereo", "0"),
                        P("sprop-stereo", "0"), P("maxaveragebitrate", "28000"), P("cbr", "0") >>
    BY Zenon DEF opusParams, P
  <2>5. \A a, b, c, d, e, f \in Param : <<a, b, c, d, e, f>> \in Seq(Param)
    OBVIOUS
  <2> QED
    BY <2>3, <2>4, <2>5
<1>3. /\ opusParams[1].k = "useinbandfec" /\ opusParams[2].k = "usedtx"
      /\ opusParams[3].k = "stereo" /\ opusParams[4].k = "sprop-stereo"
      /\ opusParams[5].k = "maxaveragebitrate" /\ opusParams[6].k = "cbr"
  BY DEF opusParams
<1>4. \A i \in 1..6 : i = 1 \/ i = 2 \/ i = 3 \/ i = 4 \/ i = 5 \/ i = 6
  OBVIOUS
<1>5. \A i \in 1..6 : Lower(opusParams[i].k) = opusParams[i].k
  BY <1>3, <1>4 DEF Lower
<1>6. \A i, j \in 1..6 : opusParams[i].k = opusParams[j].k => i = j
  BY <1>3, <1>4
<1> QED
  BY <1>1, <1>2, <1>5, <1>6 DEF IsMap

\* What the page makes of the parameters of an fmtp line, whatever they are:
\* its own are among them, each key comes once, none is lost, and doing it
\* again changes nothing.
LEMMA MergedOnce ==
  ASSUME NEW e \in Seq(Param)
  PROVE  /\ IsMap(mergeFmtpParams(e))
         /\ ToSet(opusParams) \subseteq ToSet(mergeFmtpParams(e))
         /\ LoweredKeys(e) \subseteq KeysOf(mergeFmtpParams(e))
         /\ mergeFmtpParams(mergeFmtpParams(e)) = mergeFmtpParams(e)
<1> DEFINE t == opusParams
<1>1. t \in Seq(Param) /\ IsMap(t)
  BY OpusParamsAreMap
<1> HIDE DEF t
<1> DEFINE u == e \o t
<1>2. u \in Seq(Param)
  BY <1>1, ConcatProperties
<1>3. LoweredKeys(e) \subseteq LoweredKeys(u)
  <2>1. DOMAIN e \subseteq DOMAIN u /\ \A i \in DOMAIN e : u[i] = e[i]
    BY <1>1
  <2> QED
    BY <2>1 DEF LoweredKeys
<1> DEFINE m == SetAll(u)
<1>4. mergeFmtpParams(e) = m
  BY DEF mergeFmtpParams, t
<1>5. ToSet(t) \subseteq ToSet(m)
  BY <1>1, LastWins
<1> HIDE DEF u
<1>6. IsMap(m) /\ KeysOf(m) = LoweredKeys(u)
  BY <1>2, SetAllMaps
<1> HIDE DEF m
<1>7. SetAll(m) = m /\ m \in Seq(Param)
  BY <1>6, SetAllOfMap DEF IsMap
<1>8. SetAll(m \o t) = m
  BY <1>1, <1>5, <1>7, SetAllAgain
<1>9. mergeFmtpParams(m) = SetAll(m \o t)
  BY DEF mergeFmtpParams, t
<1> QED
  BY <1>3, <1>4, <1>5, <1>6, <1>8, <1>9 DEF t

\* The page's own parameters are as it wants them.
LEMMA OpusParamsMerge == mergeFmtpParams(opusParams) = opusParams
<1> DEFINE t == opusParams
<1>1. t \in Seq(Param) /\ IsMap(t)
  BY OpusParamsAreMap
<1> HIDE DEF t
<1>2. SetAll(t) = t
  BY <1>1, SetAllOfMap
<1>3. SetAll(t \o t) = t
  BY <1>1, <1>2, SetAllAgain
<1> QED
  BY <1>3 DEF mergeFmtpParams, t

-----------------------------------------------------------------------------
(* enhanceOpusSDP *)

\* The payload type is that of the first line about Opus.
LEMMA OpusPtIs ==
  ASSUME NEW S, NEW lines \in Seq(S), NEW i \in OpusLines(lines), \A j \in OpusLines(lines) : i <= j
  PROVE  OpusPt(lines) = lines[i].pt
<1>1. OpusLines(lines) \subseteq Nat
  BY DEF OpusLines
<1>2. \A h \in OpusLines(lines) : (\A j \in OpusLines(lines) : h <= j) => h = i
  BY <1>1
<1>3. (CHOOSE h \in OpusLines(lines) : \A j \in OpusLines(lines) : h <= j) = i
  BY <1>2
<1> QED
  BY <1>3, Zenon DEF OpusPt

\* A description about Opus has a first line about it.
LEMMA FirstOpus ==
  ASSUME NEW S, NEW lines \in Seq(S), OpusLines(lines) # {}
  PROVE  \E i \in OpusLines(lines) : (\A j \in OpusLines(lines) : i <= j) /\ OpusPt(lines) = lines[i].pt
<1>1. OpusLines(lines) \subseteq Nat
  BY DEF OpusLines
<1>2. PICK i \in OpusLines(lines) : \A j \in OpusLines(lines) : i <= j
  BY <1>1, LeastOfMany
<1> QED
  BY <1>2, OpusPtIs

\* The first that is kept is the first there was.
LEMMA FirstKept ==
  ASSUME NEW S, NEW A
  PROVE  \A s \in Seq(S) : \A i \in DOMAIN s :
           s[i] \in A /\ (\A j \in DOMAIN s : s[j] \in A => i <= j) => Only(s, A)[1] = s[i]
<1> DEFINE First(s, i) == s[i] \in A /\ \A j \in DOMAIN s : s[j] \in A => i <= j
<1> DEFINE P == {s \in Seq(S) : \A i \in DOMAIN s : First(s, i) => Only(s, A)[1] = s[i]}
<1>1. <<>> \in P
  OBVIOUS
<1>2. ASSUME NEW s \in Seq(S), NEW x \in S, s \in P PROVE Append(s, x) \in P
  <2> DEFINE t == Append(s, x)
  <2>1. /\ t \in Seq(S) /\ DOMAIN s = 1..Len(s) /\ DOMAIN t = 1..(Len(s) + 1) /\ Len(s) \in Nat
        /\ t[Len(s) + 1] = x /\ \A i \in 1..Len(s) : t[i] = s[i]
    OBVIOUS
  <2>2. Only(t, A) = IF x \in A THEN Append(Only(s, A), x) ELSE Only(s, A)
    BY OnlyAppend
  <2> DEFINE u == Only(s, A)
  <2>3. u \in Seq(S \cap A)
    BY OnlySeq
  <2>4. (\E i \in DOMAIN s : s[i] \in A) => u # <<>>
    BY OnlyKeeps
  <2> HIDE DEF t, u
  <2>5. ASSUME NEW i \in DOMAIN t, First(t, i) PROVE Only(t, A)[1] = t[i]
    <3>1. CASE i \in DOMAIN s
      <4>1. First(s, i)
        BY <2>1, <2>5, <3>1
      <4>2. u[1] = s[i]
        BY <1>2, <3>1, <4>1 DEF u
      <4>3. Len(u) \in Nat \ {0}
        BY <2>3, <2>4, <3>1, <4>1, EmptySeq
      <4>4. Append(u, x)[1] = u[1]
        BY <2>3, <4>3
      <4> QED
        BY <2>1, <2>2, <3>1, <4>2, <4>4 DEF u
    <3>2. CASE i = Len(s) + 1
      <4>1. x \in A
        BY <2>1, <2>5, <3>2
      <4>2. \A j \in DOMAIN s : s[j] \notin A
        BY <2>1, <2>5, <3>2
      <4>3. u = <<>>
        <5>1. s \in Seq(S \ A)
          BY <2>1, <4>2
        <5>2. u \in Seq((S \ A) \cap A)
          BY <5>1, OnlySeq DEF u
        <5>3. Len(u) = 0
          <6>1. SUFFICES ASSUME Len(u) # 0 PROVE FALSE
            OBVIOUS
          <6>2. 1 \in 1..Len(u)
            BY <5>2, <6>1, LenProperties
          <6> QED
            BY <5>2, <6>2, ElementOfSeq
        <5> QED
          BY <2>3, <5>3, EmptySeq
      <4>4. Append(u, x) = <<x>>
        BY <4>3
      <4> QED
        BY <2>1, <2>2, <3>2, <4>1, <4>4 DEF u
    <3> QED
      BY <2>1, <2>5, <3>1, <3>2
  <2> QED
    BY <2>1, <2>5 DEF t
<1> HIDE DEF P
<1>3. \A s \in Seq(S) : s \in P
  BY <1>1, <1>2, SeqInduction
<1> QED
  BY <1>3, Zenon DEF P

\* Where no line is an fmtp of pt, what is put in between the lines is the
\* page's own one, it is put there if Opus has the type, and the lines stay.
LEMMA WithFmtpAdds ==
  ASSUME NEW S, NEW pt, \A line \in S : ~IsFmtp(line, pt)
  PROVE  \A s \in Seq(S) :
           /\ WithFmtp(s, pt) \in Seq(S \cup {Fmtp(pt, opusParams)})
           /\ Only(WithFmtp(s, pt), S) = s
           /\ (\E i \in DOMAIN s : IsOpus(s[i], pt)) =>
                \E i \in DOMAIN WithFmtp(s, pt) : WithFmtp(s, pt)[i] = Fmtp(pt, opusParams)
<1> DEFINE F == Fmtp(pt, opusParams)
<1> DEFINE T == S \cup {F}
<1> DEFINE Has(s) == \E i \in DOMAIN s : IsOpus(s[i], pt)
<1> DEFINE Q(s, o) == /\ o \in Seq(T) /\ Only(o, S) = s
                      /\ Has(s) => \E i \in DOMAIN o : o[i] = F
<1> DEFINE P == {s \in Seq(S) : Q(s, WithFmtp(s, pt))}
<1>1. <<>> \in P
  <2>1. WithFmtp(<<>>, pt) = <<>>
    BY WithFmtpEmpty
  <2>2. Only(<<>>, S) = <<>>
    BY OnlyEmpty
  <2>3. ~Has(<<>>) /\ <<>> \in Seq(T) /\ <<>> \in Seq(S)
    OBVIOUS
  <2> HIDE DEF Has, T
  <2> QED
    BY <2>1, <2>2, <2>3
<1>2. F \notin S
  BY DEF IsFmtp, Fmtp
<1>3. ASSUME NEW s \in Seq(S), NEW x \in S, s \in P PROVE Append(s, x) \in P
  <2> DEFINE w == WithFmtp(s, pt)
  <2> DEFINE wx == Append(w, x)
  <2> DEFINE o == WithFmtp(Append(s, x), pt)
  <2>1. Q(s, w)
    BY <1>3
  <2>2. o = w \o (IF IsOpus(x, pt) THEN <<x, F>> ELSE <<x>>)
    BY WithFmtpAppend
  <2> HIDE DEF w, F, o
  <2>3. w \in Seq(T) /\ x \in T /\ F \in T
    BY <2>1
  <2>4. wx \in Seq(T) /\ w \o <<x>> = wx
    BY <2>3, AppendIsConcat
  <2>5. w \o <<x, F>> = Append(wx, F)
    BY <2>3
  <2>6. Only(wx, S) = Append(s, x)
    <3> HIDE DEF T
    <3>1. Only(wx, S) = IF x \in S THEN Append(Only(w, S), x) ELSE Only(w, S)
      BY <2>3, OnlyAppend
    <3> QED
      BY <2>1, <3>1
  <2>7. Only(Append(wx, F), S) = Only(wx, S)
    <3> HIDE DEF wx, T
    <3>1. Only(Append(wx, F), S) = IF F \in S THEN Append(Only(wx, S), F) ELSE Only(wx, S)
      BY <2>3, <2>4, OnlyAppend
    <3> QED
      BY <1>2, <3>1
  <2>8. (\E i \in DOMAIN w : w[i] = F) => \E i \in DOMAIN wx : wx[i] = F
    BY <2>3, AppendedElements
  <2>9. \E i \in DOMAIN Append(wx, F) : Append(wx, F)[i] = F
    <3> HIDE DEF wx
    <3> QED
      BY <2>3, <2>4, AppendedElements
  <2>10. Append(wx, F) \in Seq(T)
    BY <2>3, <2>4
  <2>11. Has(Append(s, x)) => Has(s) \/ IsOpus(x, pt)
    BY AppendedElements
  <2>12. Q(Append(s, x), o)
    <3>1. CASE IsOpus(x, pt)
      <4>1. o = Append(wx, F)
        BY <2>2, <2>5, <3>1
      <4> HIDE DEF wx, Has
      <4> QED
        BY <2>6, <2>7, <2>9, <2>10, <4>1
    <3>2. CASE ~IsOpus(x, pt)
      <4>1. o = wx
        BY <2>2, <2>4, <3>2
      <4> HIDE DEF wx, Has
      <4> QED
        BY <2>1, <2>4, <2>6, <2>8, <2>11, <3>2, <4>1
    <3> QED
      BY <3>1, <3>2
  <2>13. Append(s, x) \in Seq(S)
    OBVIOUS
  <2> HIDE DEF Q
  <2> QED
    BY <2>12, <2>13 DEF o
<1> HIDE DEF P
<1>4. \A s \in Seq(S) : s \in P
  BY <1>1, <1>3, SeqInduction
<1> QED
  BY <1>4, Zenon DEF P

\* What has no fmtp of pt stays in what is put in between: the same lines
\* about Opus, so the same payload type.
LEMMA WithFmtpPt ==
  ASSUME NEW S, NEW lines \in Seq(S), NEW pt, \A line \in S : ~IsFmtp(line, pt),
         OpusLines(lines) # {}
  PROVE  OpusLines(WithFmtp(lines, pt)) # {} /\ OpusPt(WithFmtp(lines, pt)) = OpusPt(lines)
<1> DEFINE F == Fmtp(pt, opusParams)
<1> DEFINE T == S \cup {F}
<1> DEFINE O == {line \in T : line.is = "opus"}
<1> DEFINE out == WithFmtp(lines, pt)
<1>1. out \in Seq(T) /\ Only(out, S) = lines
  BY WithFmtpAdds
<1>2. F.is # "opus"
  BY DEF Fmtp
<1>3. S \cap O = O /\ S \subseteq T
  BY <1>2
<1> HIDE DEF F, T, out
<1>4. \A l \in T : l \in O <=> l.is = "opus"
  OBVIOUS
<1>5. lines \in Seq(T)
  BY <1>3, SeqMonotonic
<1>6. \A s \in Seq(T) : \A i \in DOMAIN s : s[i] \in O <=> i \in OpusLines(s)
  BY <1>4 DEF OpusLines
<1> HIDE DEF O
<1>7. Only(out, O) = Only(lines, O)
  BY <1>1, <1>3, OnlyOnly
<1>8. PICK i \in OpusLines(lines) :
        (\A j \in OpusLines(lines) : i <= j) /\ OpusPt(lines) = lines[i].pt
  BY FirstOpus
<1>9. i \in DOMAIN lines
  BY <1>8 DEF OpusLines
<1>10. Only(lines, O)[1] = lines[i]
  <2>1. lines[i] \in O /\ \A j \in DOMAIN lines : lines[j] \in O => i <= j
    BY <1>5, <1>6, <1>8, <1>9
  <2> QED
    BY <1>5, <1>9, <2>1, FirstKept
<1>11. OpusLines(out) # {}
  <2>1. SUFFICES ASSUME OpusLines(out) = {} PROVE FALSE
    OBVIOUS
  <2>2. \A j \in DOMAIN out : out[j] \notin O
    BY <1>1, <1>6, <2>1
  <2>3. out \in Seq(T \ O)
    BY <1>1, <2>2
  <2>4. Only(out, O) \in Seq((T \ O) \cap O)
    BY <2>3, OnlySeq
  <2>5. Only(lines, O) # <<>> /\ Only(lines, O) \in Seq(T \cap O)
    <3>1. lines[i] \in O
      BY <1>5, <1>6, <1>8, <1>9
    <3> QED
      BY <1>5, <1>9, <3>1, OnlyKeeps, OnlySeq
  <2> DEFINE k == Only(lines, O)
  <2>6. k \in Seq((T \ O) \cap O) /\ k # <<>> /\ k \in Seq(T \cap O)
    BY <1>7, <2>4, <2>5
  <2> HIDE DEF k
  <2>7. Len(k) \in Nat \ {0}
    BY <2>6, EmptySeq
  <2>8. k[1] \in (T \ O) \cap O
    BY <2>6, <2>7
  <2> QED
    BY <2>8
<1>12. PICK h \in OpusLines(out) :
         (\A j \in OpusLines(out) : h <= j) /\ OpusPt(out) = out[h].pt
  BY <1>1, <1>11, FirstOpus
<1>13. h \in DOMAIN out
  BY <1>12 DEF OpusLines
<1>14. Only(out, O)[1] = out[h]
  <2>1. out[h] \in O /\ \A j \in DOMAIN out : out[j] \in O => h <= j
    BY <1>1, <1>6, <1>12, <1>13
  <2> QED
    BY <1>1, <1>13, <2>1, FirstKept
<1>15. OpusPt(out) = OpusPt(lines)
  BY <1>7, <1>8, <1>10, <1>12, <1>14
<1> QED
  BY <1>11, <1>15 DEF out

\* The description from the payload type, with the names of OpusIsTuned.
Tuned(lines, out, pt) ==
  /\ Picked(out, {i \in DOMAIN out : ~IsFmtp(out[i], pt)})
       = Picked(lines, {i \in DOMAIN lines : ~IsFmtp(lines[i], pt)})
  /\ \E i \in DOMAIN out : IsFmtp(out[i], pt)
  /\ \A i \in DOMAIN out : IsFmtp(out[i], pt) =>
       /\ ToSet(opusParams) \subseteq ToSet(out[i].params)
       /\ IsMap(out[i].params)
  /\ \A i \in DOMAIN lines : IsFmtp(lines[i], pt) =>
       LoweredKeys(lines[i].params) \subseteq KeysOf(out[i].params)
  /\ enhanceOpusSDP(out) = out

\* Tuned says what OpusIsTuned says of a description about Opus.
LEMMA TunedIsTuned ==
  ASSUME NEW lines, OpusLines(lines) # {}, Tuned(lines, enhanceOpusSDP(lines), OpusPt(lines))
  PROVE  OpusIsTuned(lines)
<1> DEFINE out == enhanceOpusSDP(lines)
<1> DEFINE pt == OpusPt(lines)
<1>1. Tuned(lines, out, pt)
  OBVIOUS
<1> HIDE DEF out, pt
<1>2. \A i \in DOMAIN out : IsFmtp(out[i], pt) =>
        IsInjective([n \in DOMAIN out[i].params |-> out[i].params[n].k])
  <2> SUFFICES ASSUME NEW i \in DOMAIN out, IsFmtp(out[i], pt)
               PROVE  IsInjective([n \in DOMAIN out[i].params |-> out[i].params[n].k])
    OBVIOUS
  <2> DEFINE m == out[i].params
  <2>1. IsMap(m)
    BY <1>1 DEF Tuned
  <2> HIDE DEF m
  <2>2. IsInjective([n \in DOMAIN m |-> m[n].k])
    BY <2>1 DEF IsMap, IsInjective
  <2> QED
    BY <2>2 DEF m
<1>3. {i \in DOMAIN out : IsFmtp(out[i], pt)} # {}
  BY <1>1 DEF Tuned
<1> QED
  BY <1>1, <1>2, <1>3, Zenon DEF OpusIsTuned, Tuned, KeysOf, LoweredKeys, out, pt

\* Offers and answers of any lines, with any parameters in them, keep what
\* they say when the page tunes them, and tuning again changes nothing
\* (enhanceOpusSDP, mergeFmtpParams).
THEOREM OpusAlwaysTuned ==
  ASSUME NEW L, \A line \in L : line.is = "fmtp" => line.params \in Seq(Param),
         NEW lines \in Seq(L)
  PROVE  OpusIsTuned(lines)
<1> DEFINE out == enhanceOpusSDP(lines)
<1> DEFINE pt == OpusPt(lines)
<1> DEFINE merged == [i \in DOMAIN lines |->
                        IF IsFmtp(lines[i], pt) THEN Fmtp(pt, mergeFmtpParams(lines[i].params))
                                                ELSE lines[i]]
<1> DEFINE has == \E i \in DOMAIN lines : IsFmtp(lines[i], pt)
<1>1. out = IF OpusLines(lines) = {} THEN lines ELSE IF has THEN merged ELSE WithFmtp(lines, pt)
  BY Zenon DEF enhanceOpusSDP
<1>2. CASE OpusLines(lines) = {}
  <2>1. out = lines
    BY <1>1, <1>2
  <2> QED
    BY <1>2, <2>1 DEF OpusIsTuned
<1>3. CASE OpusLines(lines) # {} /\ has
  <2>1. out = merged
    BY <1>1, <1>3
  <2>2. /\ DOMAIN lines = 1..Len(lines) /\ Len(lines) \in Nat /\ DOMAIN merged = DOMAIN lines
        /\ Len(merged) = Len(lines) /\ \A i \in DOMAIN lines : lines[i] \in L
    OBVIOUS
  <2>3. \A i \in DOMAIN lines : IsFmtp(lines[i], pt) =>
          /\ merged[i] = Fmtp(pt, mergeFmtpParams(lines[i].params))
          /\ lines[i].params \in Seq(Param)
    BY <2>2 DEF IsFmtp
  <2>4. \A i \in DOMAIN lines : ~IsFmtp(lines[i], pt) => merged[i] = lines[i]
    OBVIOUS
  <2>5. \A m : IsFmtp(Fmtp(pt, m), pt) /\ Fmtp(pt, m).is = "fmtp" /\ Fmtp(pt, m).params = m
    BY DEF IsFmtp, Fmtp
  <2> HIDE DEF merged, pt
  <2>6. \A i \in DOMAIN lines : IsFmtp(merged[i], pt) <=> IsFmtp(lines[i], pt)
    BY <2>3, <2>4, <2>5
  <2>7. OpusLines(merged) = OpusLines(lines)
    <3>1. \A i \in DOMAIN lines : merged[i].is = "opus" <=> lines[i].is = "opus"
      BY <2>3, <2>4, <2>5 DEF IsFmtp
    <3> QED
      BY <2>2, <3>1 DEF OpusLines
  <2>8. OpusPt(merged) = pt
    <3>1. \A i \in OpusLines(lines) : merged[i] = lines[i]
      BY <2>4 DEF OpusLines, IsFmtp
    <3>2. PICK i \in OpusLines(lines) :
            (\A j \in OpusLines(lines) : i <= j) /\ OpusPt(lines) = lines[i].pt
      BY <1>3, FirstOpus
    <3>3. OpusLines(lines) \subseteq Nat
      BY <2>2 DEF OpusLines
    <3>4. (CHOOSE h \in OpusLines(lines) : \A j \in OpusLines(lines) : h <= j) = i
      BY <3>2, <3>3
    <3>5. OpusPt(merged) = merged[i].pt
      BY <2>7, <3>4, Zenon DEF OpusPt
    <3> QED
      BY <3>1, <3>2, <3>5 DEF pt
  <2>9. enhanceOpusSDP(merged) = merged
    <3> DEFINE again == [i \in DOMAIN merged |->
             IF IsFmtp(merged[i], pt) THEN Fmtp(pt, mergeFmtpParams(merged[i].params))
                                      ELSE merged[i]]
    <3>1. \E i \in DOMAIN merged : IsFmtp(merged[i], pt)
      BY <1>3, <2>2, <2>6
    <3>2. enhanceOpusSDP(merged) = again
      BY <1>3, <2>7, <2>8, <3>1, Zenon DEF enhanceOpusSDP
    <3>3. \A i \in DOMAIN merged : again[i] = merged[i]
      <4> SUFFICES ASSUME NEW i \in DOMAIN merged PROVE again[i] = merged[i]
        OBVIOUS
      <4>1. CASE IsFmtp(merged[i], pt)
        <5> DEFINE e == lines[i].params
        <5>1. e \in Seq(Param) /\ merged[i] = Fmtp(pt, mergeFmtpParams(e))
          BY <2>2, <2>3, <2>6, <4>1
        <5> HIDE DEF e
        <5>2. mergeFmtpParams(mergeFmtpParams(e)) = mergeFmtpParams(e)
          BY <5>1, MergedOnce
        <5>3. again[i] = Fmtp(pt, mergeFmtpParams(merged[i].params))
          BY <4>1
        <5> QED
          BY <2>5, <5>1, <5>2, <5>3
      <4>2. CASE ~IsFmtp(merged[i], pt)
        BY <4>2
      <4> QED
        BY <4>1, <4>2
    <3>4. merged = [i \in DOMAIN merged |-> merged[i]]
      BY DEF merged
    <3> HIDE DEF again
    <3>5. again = [i \in DOMAIN merged |-> again[i]]
      BY DEF again
    <3>6. again = merged
      BY <3>3, <3>4, <3>5
    <3> QED
      BY <3>2, <3>6
  <2>10. Picked(merged, {i \in DOMAIN merged : ~IsFmtp(merged[i], pt)})
           = Picked(lines, {i \in DOMAIN lines : ~IsFmtp(lines[i], pt)})
    <3> DEFINE I == {i \in DOMAIN merged : ~IsFmtp(merged[i], pt)}
    <3> DEFINE J == {i \in DOMAIN lines : ~IsFmtp(lines[i], pt)}
    <3>1. \A i \in 1..Len(merged) : (i \in I <=> i \in J) /\ (i \in I => merged[i] = lines[i])
      BY <2>2, <2>4, <2>6
    <3> HIDE DEF I, J
    <3>2. Picked(merged, I) = Picked(lines, J)
      BY <2>2, <3>1, PickedAgree
    <3> QED
      BY <3>2 DEF I, J
  <2>11. \A i \in DOMAIN lines : IsFmtp(lines[i], pt) =>
           /\ ToSet(opusParams) \subseteq ToSet(merged[i].params)
           /\ IsMap(merged[i].params)
           /\ LoweredKeys(lines[i].params) \subseteq KeysOf(merged[i].params)
    <3> SUFFICES ASSUME NEW i \in DOMAIN lines, IsFmtp(lines[i], pt)
                 PROVE  /\ ToSet(opusParams) \subseteq ToSet(merged[i].params)
                        /\ IsMap(merged[i].params)
                        /\ LoweredKeys(lines[i].params) \subseteq KeysOf(merged[i].params)
      OBVIOUS
    <3> DEFINE e == lines[i].params
    <3>1. e \in Seq(Param) /\ merged[i].params = mergeFmtpParams(e)
      BY <2>3, <2>5
    <3> HIDE DEF e
    <3> QED
      BY <3>1, MergedOnce DEF e
  <2>12. Tuned(lines, merged, pt)
    BY <1>3, <2>2, <2>6, <2>9, <2>10, <2>11 DEF Tuned
  <2> QED
    BY <1>3, <2>1, <2>12, TunedIsTuned DEF pt
<1>4. CASE OpusLines(lines) # {} /\ ~has
  <2> DEFINE S == {line \in L : ~IsFmtp(line, pt)}
  <2> DEFINE F == Fmtp(pt, opusParams)
  <2> DEFINE T == S \cup {F}
  <2> DEFINE w == WithFmtp(lines, pt)
  <2>1. out = w
    BY <1>1, <1>4
  <2>2. lines \in Seq(S)
    BY <1>4
  <2>3. \A line \in S : ~IsFmtp(line, pt)
    OBVIOUS
  <2>4. IsFmtp(F, pt) /\ F.params = opusParams /\ Fmtp(pt, F.params) = F
    BY DEF IsFmtp, Fmtp
  <2> HIDE DEF S, pt
  <2>5. /\ w \in Seq(T) /\ Only(w, S) = lines
        /\ (\E i \in DOMAIN lines : IsOpus(lines[i], pt)) => \E i \in DOMAIN w : w[i] = F
    BY <2>2, <2>3, WithFmtpAdds
  <2>6. OpusLines(w) # {} /\ OpusPt(w) = pt
    BY <1>4, <2>2, <2>3, WithFmtpPt DEF pt
  <2>7. \E i \in DOMAIN w : w[i] = F
    <3>1. PICK i \in OpusLines(lines) : OpusPt(lines) = lines[i].pt
      BY <1>4, FirstOpus
    <3>2. i \in DOMAIN lines /\ IsOpus(lines[i], pt)
      BY <3>1 DEF OpusLines, IsOpus, pt
    <3> QED
      BY <2>5, <3>2
  <2> HIDE DEF F, w
  <2>8. \A i \in DOMAIN w : (IsFmtp(w[i], pt) <=> w[i] = F) /\ (w[i] \in S <=> ~IsFmtp(w[i], pt))
    BY <2>3, <2>4, <2>5
  <2>9. Picked(w, {i \in DOMAIN w : ~IsFmtp(w[i], pt)}) = lines
    <3> DEFINE I == {i \in DOMAIN w : ~IsFmtp(w[i], pt)}
    <3> DEFINE J == {i \in DOMAIN w : w[i] \in S}
    <3>1. I = J
      BY <2>8
    <3>2. Only(w, S) = Picked(w, J)
      BY DEF Only
    <3> HIDE DEF I, J
    <3>3. Picked(w, I) = lines
      BY <2>5, <3>1, <3>2
    <3> QED
      BY <3>3 DEF I
  <2>10. Picked(lines, {i \in DOMAIN lines : ~IsFmtp(lines[i], pt)}) = lines
    <3> DEFINE I == {i \in DOMAIN lines : ~IsFmtp(lines[i], pt)}
    <3> DEFINE J == {i \in DOMAIN lines : lines[i] \in S}
    <3>1. I = J
      BY <2>2, <2>3
    <3>2. Only(lines, S) = Picked(lines, J)
      BY DEF Only
    <3>3. Only(lines, S) = lines
      BY <2>2, OnlyAll
    <3> HIDE DEF I, J
    <3>4. Picked(lines, I) = lines
      BY <3>1, <3>2, <3>3
    <3> QED
      BY <3>4 DEF I
  <2>11. mergeFmtpParams(F.params) = F.params /\ IsMap(F.params)
    BY <2>4, OpusParamsMerge, OpusParamsAreMap
  <2>12. enhanceOpusSDP(w) = w
    <3> DEFINE again == [i \in DOMAIN w |->
             IF IsFmtp(w[i], pt) THEN Fmtp(pt, mergeFmtpParams(w[i].params)) ELSE w[i]]
    <3>1. \E i \in DOMAIN w : IsFmtp(w[i], pt)
      BY <2>7, <2>8
    <3>2. enhanceOpusSDP(w) = again
      BY <2>6, <3>1, Zenon DEF enhanceOpusSDP
    <3>3. \A i \in DOMAIN w : again[i] = w[i]
      BY <2>4, <2>8, <2>11
    <3>4. w = [i \in DOMAIN w |-> w[i]]
      BY <2>5
    <3>5. again = [i \in DOMAIN w |-> again[i]]
      OBVIOUS
    <3> HIDE DEF again
    <3>6. again = w
      BY <3>3, <3>4, <3>5
    <3> QED
      BY <3>2, <3>6
  <2>13. Tuned(lines, w, pt)
    <3>1. \A i \in DOMAIN lines : ~IsFmtp(lines[i], pt)
      BY <1>4
    <3>2. \A i \in DOMAIN w : IsFmtp(w[i], pt) =>
            ToSet(opusParams) \subseteq ToSet(w[i].params) /\ IsMap(w[i].params)
      BY <2>4, <2>8, <2>11
    <3>3. \E i \in DOMAIN w : IsFmtp(w[i], pt)
      BY <2>7, <2>8
    <3> QED
      BY <2>9, <2>10, <2>12, <3>1, <3>2, <3>3, Zenon DEF Tuned
  <2> QED
    BY <1>4, <2>1, <2>13, TunedIsTuned DEF pt
<1> QED
  BY <1>2, <1>3, <1>4

-----------------------------------------------------------------------------
(* EncryptPayload, DecryptPayload *)

\* A payload comes out of its record as it went in, whatever it ends in.
LEMMA UnpaddedRecord ==
  ASSUME NEW S, NEW p \in Seq(S)
  PROVE  /\ Len(Record(p)) = Len(p) + 1 /\ Len(p) \in Nat
         /\ Unpadded(Record(p)) = p
<1> DEFINE r == Append(p, Delimiter)
<1>1. /\ Len(r) = Len(p) + 1 /\ Len(p) \in Nat /\ DOMAIN r = 1..(Len(p) + 1)
      /\ r[Len(p) + 1] = Delimiter /\ \A i \in 1..Len(p) : r[i] = p[i]
      /\ DOMAIN p = 1..Len(p) /\ r \in Seq(S \cup {Delimiter})
  <2>1. p \in Seq(S \cup {Delimiter})
    BY SeqMonotonic
  <2> QED
    BY <2>1, AppendedElements
<1>2. SubSeq(r, 1, Len(p)) = p
  <2>1. p \in Seq(S \cup {Delimiter}) /\ Delimiter \in S \cup {Delimiter}
    BY SeqMonotonic
  <2> DEFINE D == Delimiter
  <2> DEFINE T == S \cup {Delimiter}
  <2>2. p \in Seq(T) /\ D \in T
    BY <2>1
  <2> HIDE DEF T, D
  <2>3. SubSeq(Append(p, D), 1, Len(p)) = p
    BY <2>2
  <2> QED
    BY <2>3 DEF D
<1>3. Record(p) = r
  BY DEF Record
<1> HIDE DEF r
<1> DEFINE last == {i \in DOMAIN r : r[i] # 0 /\ \A j \in DOMAIN r : j > i => r[j] = 0}
<1>4. last = {Len(p) + 1}
  <2>1. Len(p) + 1 \in last
    BY <1>1 DEF Delimiter
  <2>2. \A i \in last : i = Len(p) + 1
    BY <1>1 DEF Delimiter
  <2> HIDE DEF last
  <2> QED
    BY <2>1, <2>2
<1>5. (CHOOSE i \in last : TRUE) = Len(p) + 1
  BY <1>4
<1>6. \E i \in last : r[i] \in {1, 2}
  BY <1>1, <1>4 DEF Delimiter
<1>7. Unpadded(r) = SubSeq(r, 1, (CHOOSE i \in last : TRUE) - 1)
  BY <1>6, Zenon DEF Unpadded
<1>8. (Len(p) + 1) - 1 = Len(p)
  BY <1>1
<1> QED
  BY <1>1, <1>2, <1>3, <1>5, <1>7, <1>8

\* A payload of any length and of any bytes opens for the key and the secret
\* it was sealed for, unchanged, and for no other; what cannot be a key or a
\* secret is refused (EncryptPayload, DecryptPayload).
THEOREM AlwaysSealedForOne ==
  ASSUME NEW uas, NEW auths, NEW ua, NEW auth, NEW as, NEW salt,
         NEW S, NEW plaintext \in Seq(S)
  PROVE  SealedForOne(uas, auths, ua, auth, as, salt, plaintext)
<1> DEFINE msg == EncryptPayload(ua, auth, as, salt, plaintext)
<1>1. CASE ~(IsKey(ua) /\ ua.onCurve /\ auth.length = 16)
  <2>1. msg = Invalid
    BY <1>1 DEF EncryptPayload
  <2> QED
    BY <1>1, <2>1, Zenon DEF SealedForOne
<1>2. CASE IsKey(ua) /\ ua.onCurve /\ auth.length = 16
  <2>1. /\ msg.salt = salt /\ msg.keyid = as
        /\ msg.key = ContentKey(Ecdh(as, ua), auth, ua, as, salt)
        /\ msg.record = Record(plaintext)
    BY <1>2 DEF EncryptPayload
  <2>2. /\ Len(msg.record) = Len(plaintext) + 1 /\ Len(plaintext) \in Nat
        /\ Unpadded(msg.record) = plaintext
    BY <2>1, UnpaddedRecord
  <2> HIDE DEF msg
  <2>3. ASSUME NEW u \in uas, NEW a \in auths
        PROVE  DecryptPayload(u, a, msg) = IF u = ua /\ a = auth THEN plaintext ELSE Invalid
    <3>1. ~(Len(msg.record) < 1)
      BY <2>2
    <3>2. DecryptPayload(u, a, msg) =
            IF ContentKey(Ecdh(as, ua), auth, ua, as, salt) # ContentKey(Ecdh(u, as), a, u, as, salt)
            THEN Invalid ELSE plaintext
      BY <2>1, <2>2, <3>1, Zenon DEF DecryptPayload
    <3>3. CASE u = ua /\ a = auth
      <4>1. Ecdh(u, as) = Ecdh(as, ua)
        BY <3>3 DEF Ecdh
      <4> QED
        BY <3>2, <3>3, <4>1, Zenon
    <3>4. CASE ~(u = ua /\ a = auth)
      <4>1. ContentKey(Ecdh(as, ua), auth, ua, as, salt) # ContentKey(Ecdh(u, as), a, u, as, salt)
        BY <3>4 DEF ContentKey
      <4> QED
        BY <3>2, <3>4, <4>1, Zenon
    <3> QED
      BY <3>3, <3>4
  <2> QED
    BY <1>2, <2>3, Zenon DEF SealedForOne, msg
<1> QED
  BY <1>1, <1>2

-----------------------------------------------------------------------------
(* newVAPIDKeysFromPrivate, LoadVAPIDKeys *)

Numbers == [1..KeyLen -> Nat]

\* The bytes of a number, padded, are what they were before their leading
\* zeros were lost.
LEMMA PaddedBytes ==
  ASSUME NEW d \in Numbers
  PROVE  /\ Bytes(d) \in Seq(Nat)
         /\ Padded(Bytes(d)) = d
<1>1. KeyLen \in Nat
  BY SizesAssumption
<1>2. d \in Seq(Nat) /\ Len(d) = KeyLen /\ DOMAIN d = 1..KeyLen
  BY <1>1 DEF Numbers
<1> DEFINE first == {i \in DOMAIN d : d[i] # 0 /\ \A j \in 1..(i - 1) : d[j] = 0}
<1>3. Bytes(d) = IF first = {} THEN <<>> ELSE SubSeq(d, CHOOSE i \in first : TRUE, Len(d))
  BY DEF Bytes
<1>4. CASE \A i \in DOMAIN d : d[i] = 0
  <2>1. first = {}
    BY <1>4
  <2>2. Bytes(d) = <<>>
    BY <1>3, <2>1
  <2> DEFINE z == [i \in 1..(KeyLen - 0) |-> 0]
  <2>3. Padded(<<>>) = z \o <<>>
    BY DEF Padded
  <2>4. z \in Seq(Nat) /\ DOMAIN z = 1..KeyLen /\ \A i \in 1..KeyLen : z[i] = 0
    BY <1>1
  <2> HIDE DEF z
  <2>5. z \o <<>> = z
    BY <2>4, ConcatEmptySeq
  <2>6. z = d
    BY <1>2, <1>4, <2>4 DEF Numbers
  <2> QED
    BY <2>2, <2>3, <2>5, <2>6
<1>5. CASE \E i \in DOMAIN d : d[i] # 0
  <2> DEFINE I == {i \in 1..KeyLen : d[i] # 0}
  <2>1. I \subseteq Nat /\ I # {}
    BY <1>2, <1>5
  <2> HIDE DEF I
  <2>2. PICK f \in I : \A j \in I : f <= j
    BY <2>1, LeastOfMany
  <2>3. /\ f \in 1..KeyLen /\ d[f] # 0 /\ \A j \in 1..(f - 1) : d[j] = 0
    BY <1>1, <2>2 DEF I
  <2>4. f \in first /\ \A i \in first : i = f
    BY <1>1, <1>2, <2>3
  <2>5. Bytes(d) = SubSeq(d, f, KeyLen)
    <3> HIDE DEF first
    <3>1. (CHOOSE i \in first : TRUE) = f /\ first # {}
      BY <2>4
    <3> QED
      BY <1>2, <1>3, <3>1
  <2> DEFINE b == SubSeq(d, f, KeyLen)
  <2>6. /\ b \in Seq(Nat) /\ Len(b) = KeyLen - f + 1
        /\ \A i \in 1..(KeyLen - f + 1) : b[i] = d[f + i - 1]
    BY <1>1, <1>2, <2>3
  <2> HIDE DEF b
  <2>7. KeyLen - Len(b) = f - 1
    BY <1>1, <2>3, <2>6
  <2> DEFINE z == [i \in 1..(f - 1) |-> 0]
  <2>8. Padded(b) = z \o b
    BY <2>7 DEF Padded
  <2>9. z \in Seq(Nat) /\ Len(z) = f - 1 /\ \A i \in 1..(f - 1) : z[i] = 0
    BY <1>1, <2>3
  <2> HIDE DEF z
  <2> DEFINE p == z \o b
  <2>10. p \in Seq(Nat) /\ Len(p) = KeyLen
    <3>1. p \in Seq(Nat) /\ Len(p) = Len(z) + Len(b)
      BY <2>6, <2>9, ConcatProperties
    <3>2. f \in Nat /\ f <= KeyLen
      BY <1>1, <2>3
    <3> QED
      BY <1>1, <2>6, <2>9, <3>1, <3>2
  <2>11. \A i \in 1..KeyLen : p[i] = d[i]
    <3> SUFFICES ASSUME NEW i \in 1..KeyLen PROVE p[i] = d[i]
      OBVIOUS
    <3>1. CASE i < f
      <4>1. i \in 1..(f - 1) /\ p[i] = z[i]
        BY <1>1, <2>3, <2>6, <2>9, <3>1
      <4> QED
        BY <2>3, <2>9, <4>1
    <3>2. CASE ~(i < f)
      <4>1. /\ i - (f - 1) \in 1..(KeyLen - f + 1) /\ p[i] = b[i - (f - 1)]
            /\ f + (i - (f - 1)) - 1 = i
        BY <1>1, <2>3, <2>6, <2>9, <3>2
      <4> QED
        BY <2>6, <4>1
    <3> QED
      BY <3>1, <3>2
  <2> HIDE DEF p
  <2>12. p = d
    BY <1>1, <1>2, <2>10, <2>11
  <2> QED
    BY <2>5, <2>6, <2>8, <2>12 DEF p, b
<1> QED
  BY <1>4, <1>5

\* A key of any number of its length, leading zeros or not, that was saved is
\* the same key when it is loaded, in each form of base64, and is refused with
\* another key's public half (KeyOf, LoadVAPIDKeys).
THEOREM SavedKeysAlwaysLoad ==
  ASSUME NEW d \in Numbers, NEW other \in Numbers,
         NEW alphabet \in {"url", "std", "both", "mixed"}
  PROVE  SavedKeyLoads(d, other, alphabet)
<1> DEFINE made == KeyOf(d)
<1> DEFINE private == [bytes |-> made.saved, alphabet |-> alphabet]
<1>1. /\ Bytes(d) \in Seq(Nat) /\ Padded(Bytes(d)) = d
      /\ Bytes(other) \in Seq(Nat) /\ Padded(Bytes(other)) = other
  BY PaddedBytes
<1>2. KeyLen \in Nat /\ d \in Seq(Nat) /\ Len(d) = KeyLen /\ other \in Seq(Nat) /\ Len(other) = KeyLen
  BY SizesAssumption DEF Numbers
<1>3. Len(Padded(Bytes(d)) \o Padded(Bytes(other))) = 2 * KeyLen
  <2>1. Len(d \o other) = Len(d) + Len(other)
    BY <1>2, ConcatProperties
  <2> HIDE DEF made, private
  <2>2. Len(Padded(Bytes(d)) \o Padded(Bytes(other))) = Len(d) + Len(other)
    BY <1>1, <2>1
  <2> QED
    BY <1>2, <2>2
<1>4. ASSUME alphabet # "mixed"
      PROVE  \A public : LoadVAPIDKeys(public, private) =
               IF public # Invalid /\ public # made.public THEN Invalid ELSE made
  <2>1. made.saved = d
    BY <1>1 DEF KeyOf
  <2>2. Decode(private) = d
    BY <1>4, <2>1 DEF Decode
  <2>3. d # Invalid
    BY <1>2, InvalidAssumption
  <2> HIDE DEF private
  <2> QED
    BY <1>2, <2>2, <2>3, Zenon DEF LoadVAPIDKeys
<1>5. /\ made.public = <<"P", Bytes(d)>> /\ KeyOf(other).public = <<"P", Bytes(other)>>
  BY DEF KeyOf
<1>6. KeyOf(other).public # Invalid
  <2>1. <<"P", Bytes(other)>> \in {"P"} \X Seq(Nat)
    BY <1>1
  <2> QED
    BY <1>5, <2>1, InvalidAssumption
<1>7. Bytes(other) # Bytes(d) => KeyOf(other).public # made.public
  BY <1>5
<1> HIDE DEF made, private
<1>8. alphabet # "mixed" => /\ LoadVAPIDKeys(made.public, private) = made
                            /\ LoadVAPIDKeys(Invalid, private) = made
                            /\ Bytes(other) # Bytes(d) =>
                                 LoadVAPIDKeys(KeyOf(other).public, private) = Invalid
  BY <1>4, <1>6, <1>7
<1> QED
  BY <1>3, <1>8, Zenon DEF SavedKeyLoads, made, private

-----------------------------------------------------------------------------
(* The runs of module Codecs *)

\* The inputs of a small set are sequences.
LEMMA UptoSeq == \A S : \A n : Upto(S, n) \subseteq Seq(S)
  BY DEF Upto

\* What each function is run on.
OpusInput == OpusLine \cup {Fmtp(111, p) : p \in Params}
CodecInput == [mime : {"h264", "vp8", "rtx"}, profile : {1, 2}]
Inputs ==
  /\ what = "opus" => input \in Seq(OpusInput)
  /\ what = "codecs" => input \in Seq(CodecInput)
  /\ what = "relay" => input \in Messages(SdpLine, AnyCandidate)
  /\ what = "seal" => input.payload \in Seq(0..2)
  /\ what = "key" => /\ input.d \in Numbers /\ input.other \in Numbers
                     /\ input.alphabet \in {"url", "std", "both", "mixed"}

\* Each action of Codecs takes an input of the kind it names.
LEMMA OpusInputs == TuneOpus => what' = "opus" /\ input' \in Seq(OpusInput)
<1>1. ASSUME NEW s \in Upto(OpusLine, MaxLines) PROVE s \in Seq(OpusInput)
  BY UptoSeq, SeqMonotonic DEF OpusInput
<1>2. ASSUME NEW p \in Params
      PROVE  <<[is |-> "opus", pt |-> 111], Fmtp(111, p)>> \in Seq(OpusInput)
  <2>1. [is |-> "opus", pt |-> 111] \in OpusInput
    BY DEF OpusInput, OpusLine
  <2>2. Fmtp(111, p) \in OpusInput
    BY DEF OpusInput
  <2>3. \A a, b \in OpusInput : <<a, b>> \in Seq(OpusInput)
    OBVIOUS
  <2> QED
    BY <2>1, <2>2, <2>3
<1> QED
  BY <1>1, <1>2 DEF TuneOpus, Run

\* The messages that are relayed, or refused.
LEMMA RelayInputs == Relay => what' = "relay" /\ input' \in Messages(SdpLine, AnyCandidate)
<1>1. ASSUME NEW c \in AnyCandidate, NEW d \in BOOLEAN
      PROVE  [type |-> "ice-candidate", candidate |-> c, decodes |-> d] \in Messages(SdpLine, AnyCandidate)
  BY DEF Messages
<1>2. ASSUME NEW sdp \in Seq(SdpLine), NEW t \in Text, NEW e \in Text, NEW d \in BOOLEAN
      PROVE  [type |-> t, description |-> e, sdp |-> sdp, decodes |-> d] \in Messages(SdpLine, AnyCandidate)
  BY DEF Messages
<1>3. "offer" \in Text /\ "answer" \in Text /\ "leave" \in Text
  BY DEF Text
<1>4. <<>> \in Seq(SdpLine) /\ \A sdp \in Upto(SdpLine, MaxLines) : sdp \in Seq(SdpLine)
  BY UptoSeq
<1> HIDE DEF Messages
<1> QED
  BY <1>1, <1>2, <1>3, <1>4 DEF Relay, Run

\* The keys that are saved.
LEMMA KeyInputs ==
  SaveKey => /\ what' = "key" /\ input'.d \in Numbers /\ input'.other \in Numbers
             /\ input'.alphabet \in {"url", "std", "both", "mixed"}
<1>1. \A d \in Scalars : d \in Numbers
  BY DEF Scalars, Numbers
<1> QED
  BY <1>1 DEF SaveKey, Run

\* Inputs is inductive.
LEMMA InputsStep == Inputs /\ [CodecsNext]_codecsVars => Inputs'
<1> SUFFICES ASSUME Inputs, [CodecsNext]_codecsVars PROVE Inputs'
  OBVIOUS
<1>1. CASE TuneOpus
  BY <1>1, OpusInputs DEF Inputs
<1>2. CASE OrderCodecs
  <2>1. what' = "codecs" /\ input' \in Seq(CodecInput)
    BY <1>2, UptoSeq DEF OrderCodecs, Run, CodecInput
  <2> QED
    BY <2>1 DEF Inputs
<1>3. CASE Relay
  BY <1>3, RelayInputs DEF Inputs
<1>4. CASE Seal
  <2>1. what' = "seal" /\ input'.payload \in Seq(0..2)
    BY <1>4, UptoSeq DEF Seal, Run
  <2> QED
    BY <2>1 DEF Inputs
<1>5. CASE SaveKey
  BY <1>5, KeyInputs DEF Inputs
<1>6. CASE Configure
  BY <1>6, Zenon DEF Configure, Run, Inputs
<1>7. CASE UNCHANGED codecsVars
  BY <1>7 DEF Inputs, codecsVars
<1> QED
  BY <1>1, <1>2, <1>3, <1>4, <1>5, <1>6, <1>7 DEF CodecsNext

\* Inputs is an invariant.
LEMMA InputsInvariant == CodecsSpec => []Inputs
<1>1. CodecsInit => Inputs
  BY DEF CodecsInit, Inputs
<1> QED
  BY <1>1, InputsStep, PTL DEF CodecsSpec

\* Offers and answers keep what they say when the page tunes them, and all
\* codecs stay on offer (enhanceOpusSDP, preferVideoCodec).
THEOREM TunedDescriptionsAgreeHolds == CodecsSpec => []TunedDescriptionsAgree
<1>1. Inputs => TunedDescriptionsAgree
  <2>1. \A line \in OpusInput : line.is = "fmtp" => line.params \in Seq(Param)
    <3>1. \A p \in Params : p \in Seq(Param)
      <4>1. [k : {"stereo", "STEREO", "minptime"}, v : {"1", NoValue}] \subseteq Param
        BY DEF Param, Text, NoValue
      <4> QED
        BY <4>1, UptoSeq, SeqMonotonic DEF Params
    <3>2. \A p : Fmtp(111, p).params = p
      BY DEF Fmtp
    <3>3. \A p \in {<<>>, opusParams} : p \in Seq(Param)
      <4>1. <<>> \in Seq(Param)
        BY EmptySeq
      <4> QED
        BY <4>1, OpusParamsAreMap
    <3>4. \A line \in OpusLine : line.is = "fmtp" => line.params \in {<<>>, opusParams}
      BY DEF OpusLine
    <3>5. ASSUME NEW line \in OpusLine, line.is = "fmtp" PROVE line.params \in Seq(Param)
      BY <3>3, <3>4, <3>5
    <3>6. ASSUME NEW p \in Params PROVE Fmtp(111, p).params \in Seq(Param)
      BY <3>1, <3>2
    <3> QED
      BY <3>5, <3>6, Zenon DEF OpusInput
  <2>2. ASSUME input \in Seq(OpusInput) PROVE OpusIsTuned(input)
    BY <2>1, <2>2, OpusAlwaysTuned
  <2>3. ASSUME input \in Seq(CodecInput) PROVE CodecsAreKept(input)
    BY <2>3, CodecsAlwaysKept
  <2> QED
    BY <2>2, <2>3 DEF Inputs, TunedDescriptionsAgree
<1> QED
  BY <1>1, InputsInvariant, PTL

\* The server relays no candidate without an IP address and loses nothing
\* else, a description of mixed separators aside (sanitizeMessage).
THEOREM RelaysCleanlyHolds == CodecsSpec => []RelaysCleanly
<1>1. Inputs => RelaysCleanly
  <2>1. \A line \in SdpLine : line.sep \in {"crlf", "lf"}
    BY DEF SdpLine
  <2>2. ASSUME input \in Messages(SdpLine, AnyCandidate) PROVE RelayedIsClean(input)
    BY <2>1, <2>2, RelaysAlwaysClean
  <2> QED
    BY <2>2 DEF Inputs, RelaysCleanly
<1> QED
  BY <1>1, InputsInvariant, PTL

\* A push opens for its subscription only and unchanged, and a saved key is
\* the same key when it is loaded (EncryptPayload, LoadVAPIDKeys).
THEOREM PushSurvivesHolds == CodecsSpec => []PushSurvives
<1>1. Inputs => PushSurvives
  <2>1. ASSUME input.payload \in Seq(0..2)
        PROVE  SealedForOne(Uas, Auths, input.ua, input.auth, Key("as"), "salt", input.payload)
    BY <2>1, AlwaysSealedForOne
  <2>2. ASSUME input.d \in Numbers, input.other \in Numbers,
               input.alphabet \in {"url", "std", "both", "mixed"}
        PROVE  SavedKeyLoads(input.d, input.other, input.alphabet)
    BY <2>2, SavedKeysAlwaysLoad
  <2> QED
    BY <2>1, <2>2 DEF Inputs, PushSurvives
<1> QED
  BY <1>1, InputsInvariant, PTL

-----------------------------------------------------------------------------
(* The ICE servers *)

\* Seconds keep the order of the times they are cut from, but for one second.
LEMMA UnixOrder ==
  ASSUME NEW x \in Int, NEW y \in Int
  PROVE  /\ Unix(x) \in Int /\ Unix(y) \in Int
         /\ y + Second <= x => Unix(y) < Unix(x)
         /\ Unix(y) <= Unix(x) => y < x + Second
<1> DEFINE u == Unix(x)
<1> DEFINE v == Unix(y)
<1>1. /\ u \in Int /\ v \in Int
      /\ Second * u <= x /\ x < Second * u + Second
      /\ Second * v <= y /\ y < Second * v + Second
  BY SecondAssumption DEF Unix
<1> HIDE DEF u, v
<1>2. ASSUME u <= v PROVE Second * u <= Second * v
  BY <1>1, <1>2, SecondAssumption
<1>3. ASSUME v <= u PROVE Second * v <= Second * u
  BY <1>1, <1>3, SecondAssumption
<1>4. Second * u \in Int /\ Second * v \in Int /\ Second \in Nat
  BY <1>1, SecondAssumption
<1>5. ASSUME y + Second <= x PROVE v < u
  BY <1>1, <1>2, <1>4, <1>5
<1>6. ASSUME v <= u PROVE y < x + Second
  BY <1>1, <1>3, <1>4, <1>6
<1> QED
  BY <1>1, <1>5, <1>6 DEF u, v

\* One server, or none, put behind the servers there are.
LEMMA BehindServers ==
  ASSUME NEW S, NEW servers \in Seq(S), NEW more \in S
  PROVE  /\ servers \o <<more>> \in Seq(S) /\ servers \o <<>> = servers
         /\ Len(servers \o <<more>>) = Len(servers) + 1 /\ Len(servers) \in Nat
         /\ DOMAIN servers = 1..Len(servers)
         /\ DOMAIN (servers \o <<more>>) = 1..(Len(servers) + 1)
         /\ (servers \o <<more>>)[Len(servers) + 1] = more
         /\ \A i \in 1..Len(servers) : (servers \o <<more>>)[i] = servers[i]
  OBVIOUS

\* The TURN server of a config: TURN_URLS with a credential made then.
Ours(e, t, nonce) ==
  Server(csvEnv(e.turnURLs), <<Unix(t + Read(e).turnTTL), nonce>>,
         Mac(e.turnSecret, <<Unix(t + Read(e).turnTTL), nonce>>))

\* It is among the servers a page is given, and the only one of those URLs.
LEMMA OursIsGiven ==
  ASSUME NEW e \in Environments, Accepted(e), NEW t, NEW nonce, csvEnv(e.turnURLs) # <<>>,
         NEW given, given = ClientICEServers(e, t, nonce)
  PROVE  /\ \E i \in DOMAIN given : given[i] = Ours(e, t, nonce)
         /\ \A i \in DOMAIN given :
              given[i].urls = csvEnv(e.turnURLs) => given[i] = Ours(e, t, nonce)
<1> DEFINE static == StaticICEServers(e)
<1> DEFINE stun == csvEnv(e.stunURLs)
<1> DEFINE turn == csvEnv(e.turnURLs)
<1> DEFINE a == Server(stun, NoAuth, NoAuth)
<1> DEFINE b == Ours(e, t, nonce)
<1> DEFINE S == {static[i] : i \in DOMAIN static}
<1> DEFINE T == S \cup {a, b}
<1> DEFINE withStun == static \o (IF stun = <<>> THEN <<>> ELSE <<a>>)
<1> DEFINE servers == withStun \o <<b>>
<1>1. given = servers
  BY Zenon DEF ClientICEServers, Ours, turnCredentials
<1>2. static \in Seq(S) /\ \A i \in DOMAIN static : static[i].urls # turn
  <2>1. CASE e.iceJSON = Unset
    BY <2>1, EmptySeq DEF StaticICEServers
  <2>2. CASE e.iceJSON # Unset
    <3>1. static = e.iceJSON /\ e.iceJSON # Garbage
      BY <2>2 DEF StaticICEServers, Accepted
    <3> QED
      BY <2>2, <3>1, EnvironmentsAssumption, Zenon
  <2> QED
    BY <2>1, <2>2
<1>3. stun # turn
  BY EnvironmentsAssumption
<1>4. a.urls = stun /\ b.urls = turn
  BY DEF Server, Ours
<1>5. a \in T /\ b \in T /\ static \in Seq(T)
  BY <1>2, SeqMonotonic
<1> HIDE DEF a, b, S, T, static, stun, turn
<1>6. /\ withStun \in Seq(T) /\ Len(withStun) \in Nat
      /\ \A i \in 1..Len(withStun) : withStun[i].urls # turn
  BY <1>2, <1>3, <1>4, <1>5, BehindServers
<1> HIDE DEF withStun
<1>7. /\ DOMAIN servers = 1..(Len(withStun) + 1) /\ servers[Len(withStun) + 1] = b
      /\ \A i \in 1..Len(withStun) : servers[i] = withStun[i]
  BY <1>5, <1>6, BehindServers
<1> HIDE DEF servers
<1>8. Len(withStun) + 1 \in DOMAIN servers
  BY <1>6, <1>7
<1>9. \A i \in DOMAIN servers : servers[i].urls = turn => servers[i] = b
  BY <1>6, <1>7
<1> QED
  BY <1>1, <1>7, <1>8, <1>9, Zenon DEF b, turn

\* What a gathering with the servers of a config comes to.
LEMMA GatherGives ==
  ASSUME env \in Environments, Accepted(env), clock \in Nat, began \in Nat,
         NEW c, Issued(c), began <= c.made, Gather(c.servers)
  PROVE  /\ Lifetime \in Int
         /\ gathered'.time = clock
         /\ csvEnv(env.turnURLs) # <<>> /\ clock - began <= Lifetime - Second => gathered'.relay
         /\ gathered'.relay => clock - c.made < Lifetime + Second
<1> DEFINE turn == csvEnv(env.turnURLs)
<1> DEFINE turns == {server \in {c.servers[i] : i \in DOMAIN c.servers} :
                       turn # <<>> /\ server.urls = turn}
<1>1. PICK given \in SUBSET turns :
        /\ \A server \in given : MayAccept(server)
        /\ \A server \in turns \ given : MayRefuse(server)
        /\ gathered' = [time |-> clock, relay |-> given # {}]
  BY Zenon DEF Gather
<1>2. gathered'.time = clock /\ gathered'.relay = (given # {})
  BY <1>1
<1>3. Lifetime \in Int
  <2>1. Read(env).turnTTL = Or(env.turnTTL, 3600 * Second)
    BY DEF Read, Defaults
  <2>2. 3600 * Second \in Int
    BY SecondAssumption
  <2>3. env.turnTTL \in Int \/ env.turnTTL \in {Unset, Garbage}
    BY EnvironmentsAssumption
  <2> QED
    BY <2>1, <2>2, <2>3 DEF Or, Lifetime
<1>4. CASE turn = <<>>
  <2>1. given = {}
    BY <1>1, <1>4
  <2> QED
    BY <1>2, <1>3, <1>4, <2>1
<1>5. CASE turn # <<>>
  <2>1. PICK nonce \in Nonces : c.servers = ClientICEServers(env, c.made, nonce)
    BY DEF Issued
  <2> DEFINE ours == Ours(env, c.made, nonce)
  <2>2. turns = {ours}
    <3>0. /\ env \in Environments /\ Accepted(env) /\ csvEnv(env.turnURLs) # <<>>
          /\ c.servers = ClientICEServers(env, c.made, nonce)
      BY <1>5, <2>1
    <3>1. \E i \in DOMAIN c.servers : c.servers[i] = ours
      BY <3>0, OursIsGiven
    <3>2. \A i \in DOMAIN c.servers : c.servers[i].urls = turn => c.servers[i] = ours
      BY <3>0, OursIsGiven
    <3>3. ours.urls = turn
      BY DEF Ours, Server
    <3> HIDE DEF ours, turn
    <3> QED
      BY <1>5, <3>1, <3>2, <3>3
  <2> DEFINE last == Unix(c.made + Lifetime)
  <2>5. c.made \in Nat /\ c.made + Lifetime \in Int /\ clock \in Int
    BY <1>3 DEF Issued
  <2>3. /\ last > Unix(clock) => ours \in given
        /\ ours \in given => last >= Unix(clock)
    <3>1. /\ ours.username[1] = last
          /\ ours.credential = Mac(env.turnSecret, ours.username)
      BY DEF Ours, Server, Lifetime
    <3>2. ours \in given => MayAccept(ours)
      BY <1>1
    <3>3. ours \notin given => MayRefuse(ours)
      BY <1>1, <2>2
    <3>4. last \in Int /\ Unix(clock) \in Int
      BY <2>5, UnixOrder
    <3> HIDE DEF ours, last
    <3> QED
      BY <3>1, <3>2, <3>3, <3>4 DEF MayAccept, MayRefuse, Authentic
  <2>4. gathered'.relay = (ours \in given)
    BY <1>1, <1>2, <2>2
  <2> HIDE DEF ours
  <2>6. ASSUME clock - began <= Lifetime - Second PROVE gathered'.relay
    <3>1. clock + Second <= c.made + Lifetime
      BY <1>3, <2>5, <2>6, SecondAssumption
    <3>2. Unix(clock) < last /\ Unix(clock) \in Int /\ last \in Int
      BY <2>5, <3>1, UnixOrder
    <3> HIDE DEF last
    <3>3. last > Unix(clock)
      BY <3>2
    <3> QED
      BY <2>3, <2>4, <3>3, Zenon
  <2>7. ASSUME gathered'.relay PROVE clock - c.made < Lifetime + Second
    <3>1. last >= Unix(clock)
      BY <2>3, <2>4, <2>7, Zenon
    <3>2. last \in Int /\ Unix(clock) \in Int
      BY <2>5, UnixOrder
    <3>3. clock < c.made + Lifetime + Second
      BY <2>5, <3>1, <3>2, UnixOrder
    <3> QED
      BY <1>3, <2>5, <3>3, SecondAssumption
  <2> QED
    BY <1>2, <1>3, <2>6, <2>7
<1> QED
  BY <1>4, <1>5

\* A step of the page or of the server that gathers nothing.
LEMMA StillRelay ==
  ASSUME RelayForALifetime, UNCHANGED <<env, conn, gathered, began>>
  PROVE  RelayForALifetime'
  BY DEF RelayForALifetime, Lifetime

LEMMA IceInitHolds == IceInit => IceInv
<1> SUFFICES ASSUME IceInit PROVE IceInv
  OBVIOUS
<1>1. Idle \in [step : {"idle", "sent", "answered"}, sent : Int, reply : [servers : Issuable, made : Int]]
  BY DEF Idle, NoConfig, Issuable
<1>2. \A r \in Requests : request[r].step = "idle"
  BY DEF IceInit, Idle
<1>3. "session" \in Requests
  BY DEF Requests
<1> QED
  BY <1>1, <1>2, <1>3, LastTickAssumption
  DEF IceInit, IceInv, IceTypes, FreshRequests, FreshConfigs, UnderWay, RelayForALifetime

\* A request, as the page and the server have it.
RequestType == [step : {"idle", "sent", "answered"}, sent : Int,
                reply : [servers : Issuable, made : Int]]

\* Time passes: what was made before stays made before.
LEMMA IceTickHolds == IceInv /\ IceTick => IceInv'
<1> SUFFICES ASSUME IceInv, IceTick PROVE IceInv'
  OBVIOUS
<1>1. /\ clock \in Nat /\ clock' = clock + 1 /\ clock' \in 0..LastTick
      /\ UNCHANGED <<env, stage, request, config, conn, gathered, began>> /\ UnderWay' = UnderWay
  BY LastTickAssumption DEF IceInv, IceTypes, IceTick, UnderWay
<1>2. /\ \A r \in UnderWay : Issued(request[r].reply) => Issued(request[r].reply)'
      /\ Issued(config) => Issued(config)'
      /\ Issued(conn) => Issued(conn)'
  BY <1>1 DEF Issued
<1>3. RelayForALifetime'
  BY <1>1, StillRelay DEF IceInv
<1>4. IceTypes'
  BY <1>1 DEF IceInv, IceTypes, Issuable
<1>5. FreshRequests'
  BY <1>1, <1>2 DEF IceInv, FreshRequests
<1>6. FreshConfigs'
  BY <1>1, <1>2 DEF IceInv, FreshConfigs, NotGathered
<1> QED
  BY <1>3, <1>4, <1>5, <1>6 DEF IceInv

\* The server answers with what is good from now.
LEMMA AnswerHolds == ASSUME NEW r \in Requests PROVE IceInv /\ Answer(r) => IceInv'
<1> SUFFICES ASSUME IceInv, Answer(r) PROVE IceInv'
  OBVIOUS
<1>1. /\ request \in [Requests -> RequestType] /\ request[r].step = "sent"
      /\ UNCHANGED <<env, clock, stage, config, conn, gathered, began>>
  BY DEF IceInv, IceTypes, Answer, RequestType
<1>2. PICK nonce \in Nonces :
        request' = [request EXCEPT ![r].step = "answered",
                                   ![r].reply = [servers |-> ClientICEServers(env, clock, nonce),
                                                 made |-> clock]]
  BY DEF Answer
<1> DEFINE given == ClientICEServers(env, clock, nonce)
<1>3. given \in Issuable /\ clock \in Int /\ clock \in Nat
  BY LastTickAssumption DEF IceInv, IceTypes, Issuable
<1> HIDE DEF given
<1>4. /\ request' \in [Requests -> RequestType]
      /\ request'[r].step = "answered" /\ request'[r].sent = request[r].sent
      /\ request'[r].reply.servers = given /\ request'[r].reply.made = clock
      /\ \A q \in Requests \ {r} : request'[q] = request[q]
  BY <1>1, <1>2, <1>3 DEF RequestType, given
<1>5. UnderWay' = UnderWay /\ r \in UnderWay
  BY <1>1, <1>4 DEF UnderWay
<1>6. Issued(request[r].reply)'
  BY <1>1, <1>3, <1>4 DEF Issued, given
<1>7. \A q \in UnderWay \ {r} : Issued(request[q].reply) => Issued(request[q].reply)'
  BY <1>1, <1>4 DEF Issued, UnderWay
<1>8. IceTypes'
  BY <1>1, <1>4 DEF IceInv, IceTypes, RequestType, Issuable
<1>9. FreshRequests'
  <2>1. ASSUME NEW q \in UnderWay, q # r
        PROVE  /\ q = "session" => stage' = "config"
               /\ request'[q].sent \in Nat /\ request'[q].sent <= clock'
               /\ stage' # "precall" => began' <= request'[q].sent
               /\ request'[q].step = "answered" =>
                    Issued(request[q].reply)' /\ request'[q].sent <= request'[q].reply.made
    BY <1>1, <1>4, <1>7, <2>1 DEF IceInv, FreshRequests, UnderWay
  <2>2. /\ r = "session" => stage' = "config"
        /\ request'[r].sent \in Nat /\ request'[r].sent <= clock'
        /\ stage' # "precall" => began' <= request'[r].sent
        /\ Issued(request[r].reply)' /\ request'[r].sent <= request'[r].reply.made
    BY <1>1, <1>4, <1>5, <1>6 DEF IceInv, FreshRequests
  <2> QED
    BY <1>5, <2>1, <2>2 DEF FreshRequests
<1>10. FreshConfigs'
  BY <1>1 DEF IceInv, FreshConfigs, Issued, NotGathered
<1>11. RelayForALifetime'
  BY <1>1, StillRelay DEF IceInv
<1> QED
  BY <1>8, <1>9, <1>10, <1>11 DEF IceInv

\* A request begins, unless it is the page's own.
LEMMA RefreshHolds == ASSUME NEW k \in Refreshes PROVE IceInv /\ Refresh(k) => IceInv'
<1> SUFFICES ASSUME IceInv, Refresh(k) PROVE IceInv'
  OBVIOUS
<1>1. /\ request \in [Requests -> RequestType] /\ k \in Requests /\ k # "session"
      /\ clock \in Nat /\ began \in Nat
      /\ UNCHANGED <<env, clock, stage, config, conn, gathered, began>>
      /\ request' = [request EXCEPT ![k] = Sent]
  BY LastTickAssumption, RefreshesAssumption DEF IceInv, IceTypes, Refresh, RequestType, Requests
<1>2. Sent \in RequestType /\ Sent.step = "sent" /\ Sent.sent = clock
  BY <1>1 DEF Sent, RequestType, NoConfig, Issuable
<1>3. /\ request' \in [Requests -> RequestType] /\ request'[k] = Sent
      /\ \A q \in Requests \ {k} : request'[q] = request[q]
  BY <1>1, <1>2
<1>4. UnderWay' = UnderWay \cup {k}
  BY <1>1, <1>2, <1>3 DEF UnderWay
<1>5. IceTypes'
  BY <1>1, <1>3 DEF IceInv, IceTypes, RequestType, Issuable
<1>6. FreshRequests'
  <2>1. ASSUME NEW q \in UnderWay, q # k
        PROVE  /\ q = "session" => stage' = "config"
               /\ request'[q].sent \in Nat /\ request'[q].sent <= clock'
               /\ stage' # "precall" => began' <= request'[q].sent
               /\ request'[q].step = "answered" =>
                    Issued(request[q].reply)' /\ request'[q].sent <= request'[q].reply.made
    BY <1>1, <1>3, <2>1 DEF IceInv, FreshRequests, UnderWay, Issued
  <2>2. began <= clock
    BY DEF IceInv, IceTypes
  <2> QED
    BY <1>1, <1>2, <1>3, <1>4, <2>1, <2>2 DEF FreshRequests
<1>7. FreshConfigs'
  BY <1>1 DEF IceInv, FreshConfigs, Issued, NotGathered
<1>8. RelayForALifetime'
  BY <1>1, StillRelay DEF IceInv
<1> QED
  BY <1>5, <1>6, <1>7, <1>8 DEF IceInv

\* A request that is over: what is left of the others.
LEMMA OthersStay ==
  ASSUME IceInv, NEW r \in Requests, request' = [request EXCEPT ![r] = Idle],
         UNCHANGED <<env, clock, began>>,
         stage' = stage \/ r = "session", stage' # "precall" => stage # "precall"
  PROVE  /\ request' \in [Requests -> RequestType]
         /\ FreshRequests'
<1>1. request \in [Requests -> RequestType]
  BY DEF IceInv, IceTypes, RequestType
<1>2. Idle \in RequestType /\ Idle.step = "idle"
  BY DEF Idle, NoConfig, RequestType, Issuable
<1>3. /\ request' \in [Requests -> RequestType] /\ request'[r] = Idle
      /\ \A q \in Requests \ {r} : request'[q] = request[q]
  BY <1>1, <1>2
<1>4. UnderWay' = UnderWay \ {r}
  BY <1>2, <1>3 DEF UnderWay
<1>5. ASSUME NEW q \in UnderWay, q # r
      PROVE  /\ q = "session" => stage' = "config"
             /\ request'[q].sent \in Nat /\ request'[q].sent <= clock'
             /\ stage' # "precall" => began' <= request'[q].sent
             /\ request'[q].step = "answered" =>
                  Issued(request[q].reply)' /\ request'[q].sent <= request'[q].reply.made
  BY <1>3, <1>5 DEF IceInv, FreshRequests, UnderWay, Issued
<1> QED
  BY <1>3, <1>4, <1>5 DEF FreshRequests

\* The config of a request that was sent after began was made after it.
LEMMA ReceiveHolds == ASSUME NEW r \in Requests PROVE IceInv /\ Receive(r) => IceInv'
<1> SUFFICES ASSUME IceInv, Receive(r) PROVE IceInv'
  OBVIOUS
<1>1. /\ r \in UnderWay /\ request[r].step = "answered"
      /\ config' = request[r].reply /\ request' = [request EXCEPT ![r] = Idle]
      /\ stage' = (IF r = "session" THEN "media" ELSE stage)
      /\ UNCHANGED <<env, clock, conn, gathered, began>>
  BY DEF Receive, UnderWay
<1>2. /\ r = "session" => stage = "config"
      /\ request[r].sent \in Nat
      /\ stage # "precall" => began <= request[r].sent
      /\ Issued(request[r].reply) /\ request[r].sent <= request[r].reply.made
      /\ began \in Nat
  BY <1>1 DEF IceInv, FreshRequests, IceTypes
<1>3. /\ request' \in [Requests -> RequestType]
      /\ FreshRequests'
  BY <1>1, <1>2, OthersStay
<1>4. IceTypes'
  BY <1>1, <1>3 DEF IceInv, IceTypes, RequestType, Issuable
<1>5. Issued(config)' /\ (stage' # "precall" => began' <= config'.made)
  BY <1>1, <1>2 DEF Issued
<1>6. FreshConfigs'
  <2>1. Issued(conn) => Issued(conn)'
    BY <1>1 DEF Issued
  <2> QED
    BY <1>1, <1>2, <1>5, <2>1 DEF IceInv, FreshConfigs, NotGathered
<1>7. RelayForALifetime'
  BY <1>1, StillRelay DEF IceInv
<1> QED
  BY <1>3, <1>4, <1>6, <1>7 DEF IceInv

\* A request that fails leaves what there was.
LEMMA FailHolds == ASSUME NEW r \in Requests PROVE IceInv /\ Fail(r) => IceInv'
<1> SUFFICES ASSUME IceInv, Fail(r) PROVE IceInv'
  OBVIOUS
<1>1. /\ r \in UnderWay
      /\ request' = [request EXCEPT ![r] = Idle]
      /\ stage' = (IF r = "session" THEN "precall" ELSE stage)
      /\ UNCHANGED <<env, clock, config, conn, gathered, began>>
  BY DEF Fail, UnderWay
<1>2. r = "session" => stage = "config"
  BY <1>1 DEF IceInv, FreshRequests
<1>3. /\ request' \in [Requests -> RequestType]
      /\ FreshRequests'
  BY <1>1, <1>2, OthersStay
<1>4. IceTypes'
  BY <1>1, <1>3 DEF IceInv, IceTypes, RequestType, Issuable
<1>5. FreshConfigs'
  BY <1>1, <1>2 DEF IceInv, FreshConfigs, Issued, NotGathered
<1>6. RelayForALifetime'
  BY <1>1, StillRelay DEF IceInv
<1> QED
  BY <1>3, <1>4, <1>5, <1>6 DEF IceInv

\* Start looks back to the oldest request that is under way.
LEMMA StartHolds == IceInv /\ Start => IceInv'
<1> SUFFICES ASSUME IceInv, Start PROVE IceInv'
  OBVIOUS
<1> DEFINE s == "session"
<1>1. /\ request \in [Requests -> RequestType] /\ s \in Requests /\ clock \in Nat
      /\ request' = [request EXCEPT ![s] = Sent]
      /\ stage = "precall" /\ stage' = "config"
      /\ UNCHANGED <<env, clock, config, conn, gathered>>
  BY LastTickAssumption DEF IceInv, IceTypes, Start, RequestType, Requests
<1>2. /\ began' \in Nat /\ began' <= clock
      /\ \A q \in UnderWay : began' <= request[q].sent
  BY <1>1 DEF Start, Began
<1>3. Sent \in RequestType /\ Sent.step = "sent" /\ Sent.sent = clock
  BY <1>1 DEF Sent, RequestType, NoConfig, Issuable
<1>4. gathered = NotGathered
  BY <1>1 DEF IceInv, FreshConfigs
<1> HIDE DEF s
<1>5. /\ request' \in [Requests -> RequestType] /\ request'[s] = Sent
      /\ \A q \in Requests \ {s} : request'[q] = request[q]
  BY <1>1, <1>3
<1>6. UnderWay' = UnderWay \cup {s}
  BY <1>1, <1>3, <1>5 DEF UnderWay
<1>7. IceTypes'
  BY <1>1, <1>2, <1>5 DEF IceInv, IceTypes, RequestType, Issuable
<1>8. FreshRequests'
  <2>1. ASSUME NEW q \in UnderWay, q # s
        PROVE  /\ request'[q].sent \in Nat /\ request'[q].sent <= clock'
               /\ began' <= request'[q].sent
               /\ request'[q].step = "answered" =>
                    Issued(request[q].reply)' /\ request'[q].sent <= request'[q].reply.made
    BY <1>1, <1>2, <1>5, <2>1 DEF IceInv, FreshRequests, UnderWay, Issued
  <2> QED
    BY <1>1, <1>2, <1>3, <1>5, <1>6, <2>1 DEF FreshRequests
<1>9. FreshConfigs'
  BY <1>1, <1>4 DEF FreshConfigs, NotGathered
<1>10. RelayForALifetime'
  BY <1>1, <1>4 DEF RelayForALifetime, NotGathered
<1> QED
  BY <1>7, <1>8, <1>9, <1>10 DEF IceInv

\* Requests are left alone by what happens to the connection.
LEMMA RequestsStay ==
  ASSUME IceInv, UNCHANGED <<env, clock, request, began>>,
         "session" \notin UnderWay, stage' \in {"precall", "media", "call"},
         stage # "precall"
  PROVE  IceTypes' /\ FreshRequests'
<1>1. UnderWay' = UnderWay
  BY DEF UnderWay
<1>2. IceTypes'
  BY DEF IceInv, IceTypes, Issuable
<1>3. FreshRequests'
  BY <1>1 DEF IceInv, FreshRequests, Issued
<1> QED
  BY <1>2, <1>3

\* A connection gathers with a config that was made after began.
LEMMA GatheringHolds ==
  ASSUME IceInv, NEW c, Issued(c), began <= c.made, Gather(c.servers), conn' = c,
         UNCHANGED <<env, began>>
  PROVE  RelayForALifetime'
<1>1. /\ env \in Environments /\ Accepted(env) /\ clock \in Nat /\ began \in Nat
  BY LastTickAssumption DEF IceInv, IceTypes
<1>2. /\ gathered'.time = clock
      /\ csvEnv(env.turnURLs) # <<>> /\ clock - began <= Lifetime - Second => gathered'.relay
      /\ gathered'.relay => clock - c.made < Lifetime + Second
  BY <1>1, GatherGives
<1>3. Lifetime' = Lifetime
  BY DEF Lifetime
<1> QED
  BY <1>2, <1>3 DEF RelayForALifetime

LEMMA ConnectHolds == IceInv /\ Connect => IceInv'
<1> SUFFICES ASSUME IceInv, Connect PROVE IceInv'
  OBVIOUS
<1>1. /\ stage = "media" /\ stage' = "call" /\ conn' = config /\ Gather(config.servers)
      /\ UNCHANGED <<env, clock, request, config, began>>
  BY DEF Connect
<1>2. "session" \notin UnderWay
  BY <1>1 DEF IceInv, FreshRequests
<1>3. Issued(config) /\ began <= config.made
  BY <1>1 DEF IceInv, FreshConfigs
<1>4. IceTypes' /\ FreshRequests'
  BY <1>1, <1>2, RequestsStay
<1>5. RelayForALifetime'
  BY <1>1, <1>3, GatheringHolds
<1>6. FreshConfigs'
  BY <1>1, <1>3 DEF FreshConfigs, Issued
<1> QED
  BY <1>4, <1>5, <1>6 DEF IceInv

LEMMA RestartHolds == IceInv /\ Restart => IceInv'
<1> SUFFICES ASSUME IceInv, Restart PROVE IceInv'
  OBVIOUS
<1>1. /\ stage = "call" /\ stage' = "call" /\ conn' = conn /\ Gather(conn.servers)
      /\ UNCHANGED <<env, clock, request, config, began>>
  BY DEF Restart
<1>2. "session" \notin UnderWay
  BY <1>1 DEF IceInv, FreshRequests
<1>3. Issued(conn) /\ began <= conn.made /\ Issued(config) /\ began <= config.made
  BY <1>1 DEF IceInv, FreshConfigs
<1>4. IceTypes' /\ FreshRequests'
  BY <1>1, <1>2, RequestsStay
<1>5. RelayForALifetime'
  BY <1>1, <1>3, GatheringHolds
<1>6. FreshConfigs'
  BY <1>1, <1>3 DEF FreshConfigs, Issued
<1> QED
  BY <1>4, <1>5, <1>6 DEF IceInv

LEMMA NoMediaHolds == IceInv /\ NoMedia => IceInv'
<1> SUFFICES ASSUME IceInv, NoMedia PROVE IceInv'
  OBVIOUS
<1>1. /\ stage = "media" /\ stage' = "precall"
      /\ UNCHANGED <<env, clock, request, config, conn, gathered, began>>
  BY DEF NoMedia
<1>2. "session" \notin UnderWay
  BY <1>1 DEF IceInv, FreshRequests
<1>3. IceTypes' /\ FreshRequests'
  BY <1>1, <1>2, RequestsStay
<1>4. FreshConfigs'
  BY <1>1 DEF IceInv, FreshConfigs, NotGathered
<1>5. RelayForALifetime'
  BY <1>1, StillRelay DEF IceInv
<1> QED
  BY <1>3, <1>4, <1>5 DEF IceInv

LEMMA IceStutterHolds == IceInv /\ UNCHANGED iceVars => IceInv'
<1> SUFFICES ASSUME IceInv, UNCHANGED iceVars PROVE IceInv'
  OBVIOUS
<1>1. UNCHANGED <<env, clock, stage, request, config, conn, gathered, began>> /\ UnderWay' = UnderWay
  BY DEF iceVars, UnderWay
<1>2. IceTypes' /\ FreshRequests' /\ FreshConfigs'
  BY <1>1 DEF IceInv, IceTypes, FreshRequests, FreshConfigs, Issued, Issuable, NotGathered
<1>3. RelayForALifetime'
  BY <1>1, StillRelay DEF IceInv
<1> QED
  BY <1>2, <1>3 DEF IceInv

\* In every call, with any environment, refreshes and delays, there is a relay
\* for a lifetime from Start, less a second, and none a second longer than
\* the lifetime (ClientICEServers, turnCredentials, startSession).
THEOREM AlwaysRelayForALifetime == IceSpec => []RelayForALifetime
<1>1. IceInv /\ [IceNext]_iceVars => IceInv'
  BY IceTickHolds, AnswerHolds, ReceiveHolds, FailHolds, RefreshHolds, StartHolds,
     ConnectHolds, NoMediaHolds, RestartHolds, IceStutterHolds DEF IceNext
<1>2. IceInv => RelayForALifetime
  BY DEF IceInv
<1> QED
  BY <1>1, <1>2, IceInitHolds, PTL DEF IceSpec

-----------------------------------------------------------------------------
(* The rate limiter *)

\* What a request finds in its bucket, and what the sweep of a new key takes.
LEMMA FoundBounds ==
  ASSUME IndInv, NEW k \in Keys, NEW t \in 0..MaxTime, t <= now, now - t <= Delay
  PROVE  /\ Found(k, t) \in Int
         /\ Found(k, t) <= Burst
         /\ k \in live => Found(k, t) <= tokens[k] + (t - seen[k])
         /\ k \in live => \/ Found(k, t) = Burst
                          \/ Found(k, t) = tokens[k] + (t - seen[k])
         /\ Found(k, t) + (now - t) >= 0
         /\ Found(k, t) >= -Delay
BY LimiterAssumption DEF IndInv, TypeOK, NotOverdrawn, Found, Refill

\* A bucket that is swept was full again, with Delay to spare.
LEMMA SweptWasFull ==
  ASSUME IndInv, NEW k \in Keys, NEW t \in 0..MaxTime, t <= now, k \in IdleAt(t)
  PROVE  /\ tokens[k] + (now - seen[k]) >= Burst
         /\ used[k] <= now - since[k]
<1>1. k \in live /\ t - seen[k] > Burst + Margin
  BY DEF IdleAt
<1>2. tokens[k] \in Int /\ seen[k] \in Nat /\ used[k] \in Nat /\ since[k] \in Nat /\ now \in Nat
      /\ since[k] <= now
  BY LimiterAssumption DEF IndInv, TypeOK
<1>3. tokens[k] >= -Delay /\ Paid(k)
  BY <1>1 DEF IndInv, NotOverdrawn
<1> QED
  BY <1>1, <1>2, <1>3, LimiterAssumption DEF Paid

\* The limiter starts in IndInv.
LEMMA InitHolds == Init => IndInv
BY LimiterAssumption DEF Init, IndInv, TypeOK, NotOverdrawn, Paid, Quota, NoTime

-----------------------------------------------------------------------------
(* One lemma for each action *)

\* Time passes, but no request gets older than Delay.
LEMMA TickHolds == IndInv /\ Tick => IndInv'
<1> SUFFICES ASSUME IndInv, Tick PROVE IndInv'
  OBVIOUS
<1>1. TypeOK'
  BY LimiterAssumption DEF Tick, IndInv, TypeOK, NoTime
<1>2. NotOverdrawn'
  BY LimiterAssumption DEF Tick, IndInv, TypeOK, NotOverdrawn
<1>3. (\A k \in Keys : Paid(k))'
  BY LimiterAssumption DEF Tick, IndInv, TypeOK, Paid
<1>4. Quota'
  BY LimiterAssumption DEF Tick, IndInv, TypeOK, Quota
<1> QED
  BY <1>1, <1>2, <1>3, <1>4 DEF IndInv

\* A request reads the clock; no bucket changes.
LEMMA ArriveHolds ==
  ASSUME IndInv, NEW c \in Callers, NEW k \in Keys, Arrive(c, k)
  PROVE  IndInv'
<1>1. TypeOK'
  BY LimiterAssumption DEF Arrive, IndInv, TypeOK, NoTime
<1>2. NotOverdrawn'
  BY DEF Arrive, IndInv, NotOverdrawn
<1>3. (\A q \in Keys : Paid(q))' /\ Quota'
  BY DEF Arrive, IndInv, Paid, Quota
<1> QED
  BY <1>1, <1>2, <1>3 DEF IndInv

\* An observer that starts over has seen nothing yet.
LEMMA WatchHolds ==
  ASSUME IndInv, NEW k \in Keys, Watch(k)
  PROVE  IndInv'
<1>1. TypeOK'
  BY LimiterAssumption DEF Watch, IndInv, TypeOK, NoTime
<1>2. NotOverdrawn'
  BY DEF Watch, IndInv, NotOverdrawn
<1>3. ASSUME NEW q \in Keys PROVE Paid(q)'
  <2>1. CASE q = k
    BY <2>1, LimiterAssumption DEF Watch, IndInv, TypeOK, Paid
  <2>2. CASE q # k
    BY <2>2 DEF Watch, IndInv, TypeOK, Paid
  <2> QED
    BY <2>1, <2>2
<1>4. Quota'
  BY LimiterAssumption DEF Watch, IndInv, TypeOK, Quota
<1> QED
  BY <1>1, <1>2, <1>3, <1>4 DEF IndInv

\* The heart: one request, with a clock that may be old.
LEMMA AllowHolds ==
  ASSUME IndInv, NEW c \in Callers, Allow(c)
  PROVE  IndInv'
<1> DEFINE k == key[c]
           t == at[c]
           f == Found(k, t)
<1>1. /\ k \in Keys /\ t \in 0..MaxTime /\ t <= now /\ now - t <= Delay
      /\ now \in 0..MaxTime
  BY LimiterAssumption DEF Allow, IndInv, TypeOK, NoTime
<1>2. /\ f \in Int /\ f <= Burst
      /\ k \in live => f <= tokens[k] + (t - seen[k])
      /\ f + (now - t) >= 0 /\ f >= -Delay
  BY <1>1, FoundBounds
<1>3. /\ live' \subseteq Keys /\ k \in live'
      /\ seen' = [seen EXCEPT ![k] = t]
      /\ at' = [at EXCEPT ![c] = NoTime]
      /\ UNCHANGED <<now, key, since>>
  BY <1>1 DEF Allow, IndInv, TypeOK
<1>4. \/ /\ f < Cost
         /\ tokens' = [tokens EXCEPT ![k] = f]
         /\ used' = used
      \/ /\ f >= Cost
         /\ tokens' = [tokens EXCEPT ![k] = f - Cost]
         /\ used' = [used EXCEPT ![k] = @ + Cost]
  BY DEF Allow
<1>5. \A q \in Keys : q # k =>
         /\ q \in live' => q \in live
         /\ q \in live /\ q \notin live' => q \in IdleAt(t)
  BY DEF Allow
<1>6. /\ live \subseteq Keys /\ tokens \in [Keys -> Int] /\ seen \in [Keys -> 0..MaxTime]
      /\ since \in [Keys -> 0..MaxTime] /\ used \in [Keys -> Nat]
      /\ key \in [Callers -> Keys] /\ at \in [Callers -> 0..MaxTime \cup {NoTime}]
  BY DEF IndInv, TypeOK
<1>7. /\ tokens' \in [Keys -> Int] /\ used' \in [Keys -> Nat]
      /\ tokens'[k] \in {f, f - Cost} /\ tokens'[k] <= f
      /\ tokens'[k] + used'[k] = f + used[k]
      /\ tokens'[k] + (now - t) >= 0 /\ tokens'[k] >= -Delay
      /\ used'[k] = used[k] \/ tokens'[k] >= 0
      /\ \A q \in Keys : q # k => tokens'[q] = tokens[q] /\ used'[q] = used[q] /\ seen'[q] = seen[q]
      /\ seen'[k] = t
  BY <1>1, <1>2, <1>3, <1>4, <1>6, LimiterAssumption
<1> HIDE DEF k, t, f
<1>8. TypeOK'
  <2>1. seen' \in [Keys -> 0..MaxTime] /\ at' \in [Callers -> 0..MaxTime \cup {NoTime}]
    BY <1>1, <1>3, <1>6
  <2>2. \A q \in Keys : tokens'[q] <= Burst /\ seen'[q] <= now /\ since[q] <= now
    BY <1>1, <1>2, <1>7, LimiterAssumption DEF IndInv, TypeOK
  <2>3. \A d \in Callers : at'[d] # NoTime => at'[d] <= now /\ now - at'[d] <= Delay
    BY <1>3, <1>6 DEF IndInv, TypeOK
  <2> QED
    BY <1>1, <1>3, <1>6, <1>7, <2>1, <2>2, <2>3 DEF TypeOK
<1>9. NotOverdrawn'
  <2>1. ASSUME NEW q \in live' PROVE tokens'[q] + (now' - seen'[q]) >= 0 /\ tokens'[q] >= -Delay
    <3>1. CASE q = k
      BY <3>1, <1>3, <1>7
    <3>2. CASE q # k
      BY <3>2, <1>3, <1>5, <1>7 DEF IndInv, NotOverdrawn
    <3> QED
      BY <3>1, <3>2
  <2> QED
    BY <2>1 DEF NotOverdrawn
<1>10. since[k] \in 0..MaxTime /\ since[k] <= now /\ used[k] \in Nat /\ Paid(k)
       /\ tokens[k] \in Int /\ seen[k] \in 0..MaxTime
  BY <1>1, <1>6 DEF IndInv, TypeOK
<1>11. f + used[k] <= Burst + (t - since[k]) + Delay
  <2>1. CASE used[k] = 0
    BY <2>1, <1>1, <1>2, <1>10, LimiterAssumption
  <2>2. CASE k \in live /\ tokens[k] + used[k] <= Burst + (seen[k] - since[k]) + Delay
    BY <2>2, <1>1, <1>2, <1>10, LimiterAssumption
  <2>3. CASE k \notin live /\ used[k] <= now - since[k]
    BY <2>3, <1>1, <1>2, <1>10, LimiterAssumption
  <2> QED
    BY <2>1, <2>2, <2>3, <1>10 DEF Paid
<1>12. (\A q \in Keys : Paid(q))'
  <2>1. ASSUME NEW q \in Keys PROVE Paid(q)'
    <3>1. CASE q = k
      BY <3>1, <1>3, <1>7, <1>11 DEF Paid
    <3>2. CASE q # k /\ q \in live /\ q \notin live'
      <4>1. used[q] <= now - since[q]
        BY <3>2, <1>1, <1>5, SweptWasFull
      <4> QED
        BY <4>1, <3>2, <1>3, <1>7 DEF Paid
    <3>3. CASE q # k /\ (q \in live <=> q \in live')
      <4>1. Paid(q)
        BY DEF IndInv
      <4> QED
        BY <4>1, <3>3, <1>3, <1>7 DEF Paid
    <3> QED
      BY <3>1, <3>2, <3>3, <1>5
  <2> QED
    BY <2>1
<1>13. Quota'
  <2>1. ASSUME NEW q \in Keys PROVE used'[q] <= Burst + (now' - since'[q]) + Delay
    <3>1. CASE q # k \/ used'[q] = used[q]
      BY <3>1, <1>3, <1>7 DEF IndInv, Quota
    <3>2. CASE q = k /\ tokens'[k] >= 0
      BY <3>2, <1>1, <1>2, <1>3, <1>7, <1>10, <1>11, LimiterAssumption
    <3> QED
      BY <3>1, <3>2, <1>7
  <2> QED
    BY <2>1 DEF Quota
<1> QED
  BY <1>8, <1>9, <1>12, <1>13 DEF IndInv

\* Nothing changes.
LEMMA StutterHolds == IndInv /\ UNCHANGED vars => IndInv'
BY DEF vars, IndInv, TypeOK, NotOverdrawn, Paid, Quota, NoTime

-----------------------------------------------------------------------------
\* IndInv is inductive.
LEMMA StepHolds == IndInv /\ [Next]_vars => IndInv'
BY TickHolds, ArriveHolds, AllowHolds, WatchHolds, StutterHolds DEF Next

\* The strengthened invariant holds in every reachable state.
THEOREM Inductive == Spec => []IndInv
BY InitHolds, StepHolds, PTL DEF Spec

\* Type correctness: buckets stay within the burst, clocks within Delay.
THEOREM TypeCorrect == Spec => []TypeOK
<1>1. IndInv => TypeOK
  BY DEF IndInv
<1> QED
  BY <1>1, Inductive, PTL

\* In any window a client gets the burst and the window's refill, and no more
\* than Delay's refill besides.
THEOREM AlwaysQuota == Spec => []Quota
<1>1. IndInv => Quota
  BY DEF IndInv
<1> QED
  BY <1>1, Inductive, PTL

\* A swept bucket could not be told from a fresh one.
THEOREM AlwaysSweepInvisible == Spec => SweepInvisible
<1> DEFINE Step == \A k \in live \ live' : tokens[k] + (now - seen[k]) >= Burst
<1>1. ASSUME IndInv, NEW c \in Callers, Allow(c) PROVE Step
  <2>1. at[c] \in 0..MaxTime /\ at[c] <= now
    BY <1>1, LimiterAssumption DEF Allow, IndInv, TypeOK, NoTime
  <2>2. \A k \in live \ live' : k \in Keys /\ k \in IdleAt(at[c])
    BY <1>1 DEF Allow, IndInv, TypeOK
  <2> QED
    BY <1>1, <2>1, <2>2, SweptWasFull
<1>2. IndInv /\ [Next]_vars => [Step]_vars
  BY <1>1 DEF Next, Tick, Arrive, Watch, vars
<1> QED
  BY <1>2, Inductive, PTL DEF Spec, SweepInvisible

\* A client that waited for a token's time and Delay is not refused.
THEOREM AlwaysIdleIsAdmitted == Spec => IdleIsAdmitted
<1> DEFINE Step == \A c \in Callers :
             LET k == key[c]
             IN /\ Burst >= Cost
                /\ at[c] # NoTime /\ at'[c] = NoTime /\ k \in live
                /\ at[c] - seen[k] >= Cost + Delay
                => used'[k] # used[k]
<1>1. ASSUME IndInv, NEW d \in Callers, Allow(d) PROVE Step
  <2> SUFFICES ASSUME NEW c \in Callers, Burst >= Cost, at[c] # NoTime, at'[c] = NoTime,
                      key[c] \in live, at[c] - seen[key[c]] >= Cost + Delay
               PROVE  used'[key[c]] # used[key[c]]
    OBVIOUS
  <2>1. c = d
    BY <1>1 DEF Allow, IndInv, TypeOK
  <2>2. /\ key[c] \in Keys /\ at[c] \in 0..MaxTime /\ at[c] <= now /\ now - at[c] <= Delay
        /\ tokens[key[c]] \in Int /\ seen[key[c]] \in 0..MaxTime /\ used[key[c]] \in Nat
    BY LimiterAssumption, <1>1 DEF IndInv, TypeOK, NoTime
  <2>3. Found(key[c], at[c]) >= Cost
    <3>1. tokens[key[c]] >= -Delay
      BY <1>1 DEF IndInv, NotOverdrawn
    <3> QED
      BY <3>1, <2>2, LimiterAssumption DEF Found, Refill
  <2>4. Found(key[c], at[c]) \in Int
    BY <1>1, <2>2, FoundBounds
  <2>5. used' = [used EXCEPT ![key[c]] = @ + Cost]
    BY <1>1, <2>1, <2>3, <2>4, LimiterAssumption DEF Allow
  <2> QED
    BY <2>5, <2>2, <1>1, LimiterAssumption DEF IndInv, TypeOK
<1>2. IndInv /\ [Next]_vars => [Step]_vars
  <2> SUFFICES ASSUME IndInv, Next PROVE Step
    BY DEF vars
  <2>1. CASE Tick
    BY <2>1 DEF Tick
  <2>2. ASSUME NEW c \in Callers, NEW k \in Keys, Arrive(c, k) PROVE Step
    BY <2>2, LimiterAssumption DEF Arrive, IndInv, TypeOK, NoTime
  <2>3. ASSUME NEW k \in Keys, Watch(k) PROVE Step
    BY <2>3 DEF Watch
  <2> QED
    BY <2>1, <2>2, <2>3, <1>1 DEF Next
<1> QED
  BY <1>2, Inductive, PTL DEF Spec, IdleIsAdmitted
=============================================================================
