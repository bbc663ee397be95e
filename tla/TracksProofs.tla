---------------------------- MODULE TracksProofs ----------------------------
(***************************************************************************)
(* What Tracks promises a user, for any number of requests for media: the  *)
(* camera light goes out, off is off, the peer is not left with a dead     *)
(* track, unless one of the named mishaps happened.                        *)
(***************************************************************************)
EXTENDS Tracks, TLAPS, WellFoundedInduction

-----------------------------------------------------------------------------
(* First: the first track of a kind, as getVideoTracks()[0] is. *)

\* Of any tracks there is one that was granted first.
LEMMA Earliest ==
  ASSUME NEW S, S # {}, \A t \in S : t.grant \in Nat
  PROVE  \E t \in S : \A u \in S : t.grant <= u.grant
<1> DEFINE Reqs == {t.grant : t \in S}
<1>1. Reqs \subseteq Nat /\ Reqs # {}
  OBVIOUS
<1> DEFINE Less == {ss \in Nat \X Nat : ss[1] < ss[2]}
<1>2. IsWellFoundedOn(Less, Nat)
  BY NatLessThanWellFounded DEF OpToRel
<1>3. \E x \in Reqs : \A y \in Reqs : ~ (<<y, x>> \in Less)
  <2> HIDE DEF Reqs, Less
  <2> QED
    BY <1>1, <1>2, WFMin
<1>4. \E x \in Reqs : \A y \in Reqs : x <= y
  <2>1. \A x, y \in Nat : <<y, x>> \in Less <=> y < x
    OBVIOUS
  <2> HIDE DEF Reqs, Less
  <2>2. PICK x \in Reqs : \A y \in Reqs : ~ (<<y, x>> \in Less)
    BY <1>3
  <2>3. ASSUME NEW y \in Reqs PROVE x <= y
    <3>1. x \in Nat /\ y \in Nat
      BY <1>1
    <3>2. ~ (y < x)
      BY <2>1, <2>2, <3>1
    <3> QED
      BY <3>1, <3>2
  <2> QED
    BY <2>3
<1> QED
  BY <1>4

\* First is a track of the stream and of the kind, or there is none.
LEMMA FirstGives ==
  ASSUME NEW S, \A t \in S : t.grant \in Nat /\ t.kind # "none", NEW k
  PROVE  \/ First(S, k) \in S /\ First(S, k).kind = k
         \/ First(S, k) = NoTrack /\ \A t \in S : t.kind # k
<1> DEFINE of == {t \in S : t.kind = k}
<1>1. CASE of = {}
  BY <1>1 DEF First
<1>2. CASE of # {}
  <2>1. \E t \in of : \A u \in of : t.grant <= u.grant
    BY <1>2, Earliest
  <2>2. First(S, k) \in of
    BY <1>2, <2>1 DEF First
  <2> QED
    BY <2>2
<1> QED
  BY <1>1, <1>2

\* Of a stream with one track of a kind, that is the first one.
LEMMA FirstOfOne ==
  ASSUME NEW S, \A t \in S : t.grant \in Nat /\ t.kind # "none",
         NEW k, NEW t \in S, t.kind = k, \A u \in S : u.kind = k => u = t
  PROVE  First(S, k) = t
BY FirstGives

LEMMA FirstOfSame ==
  ASSUME NEW S, NEW T, NEW k, {t \in S : t.kind = k} = {t \in T : t.kind = k}
  PROVE  First(S, k) = First(T, k)
<1> DEFINE of(U) == {t \in U : t.kind = k}
           least(X) == IF X = {} THEN NoTrack ELSE CHOOSE t \in X : \A u \in X : t.grant <= u.grant
<1>1. First(S, k) = least(of(S)) /\ First(T, k) = least(of(T))
  BY DEF First
<1>2. of(S) = of(T)
  OBVIOUS
<1> HIDE DEF of, least
<1> QED
  BY <1>1, <1>2

LEMMA FirstOfNone ==
  ASSUME NEW S, NEW k, \A t \in S : t.kind # k
  PROVE  First(S, k) = NoTrack
BY DEF First

-----------------------------------------------------------------------------
(* Types *)

LEMMA FirstTyped ==
  ASSUME TypeOK, NEW S, S \subseteq Track, NEW k
  PROVE  /\ First(S, k) \in Track \cup {NoTrack}
         /\ \/ First(S, k) \in S /\ First(S, k).kind = k
            \/ First(S, k) = NoTrack /\ \A t \in S : t.kind # k
<1> asked \in Nat
  BY DEF TypeOK
<1>1. \A t \in S : t.grant \in Nat /\ t.kind # "none"
  BY DEF Track, Kinds
<1> QED
  BY <1>1, FirstGives

\* Tracks that there are, and those of the next request that is granted.
NextTrack == [grant : 1..(grants + 1), kind : Kinds \cup {"screen"}]

\* The tracks of an answer are typed, one of each kind, and nobody had them.
LEMMA NewTyped ==
  ASSUME TypeOK, NEW r \in pending
  PROVE  /\ New(r) \subseteq NextTrack /\ Track \subseteq NextTrack
         /\ \A t \in New(r) : t.grant = grants + 1 /\ t.kind \in r.kinds
         /\ \A t, u \in New(r) : t.kind = u.kind => t = u
         /\ \A k \in r.kinds : [grant |-> grants + 1, kind |-> k] \in New(r)
         /\ \A t \in New(r) : t \notin Track /\ t # NoTrack
<1>1. grants \in Nat /\ r.kinds \subseteq Kinds \cup {"screen"}
  <2>1. r \in Request /\ grants \in Nat
    BY DEF TypeOK
  <2> QED
    BY <2>1 DEF Request
<1>2. \A t \in New(r) : t = [grant |-> grants + 1, kind |-> t.kind] /\ t.kind \in r.kinds
  BY DEF New
<1>3. Track \subseteq NextTrack
  BY <1>1 DEF Track, NextTrack
<1>4. ASSUME NEW t \in New(r) PROVE t \in NextTrack /\ t.grant = grants + 1 /\ t.kind \in r.kinds
  <2>1. [grant |-> grants + 1, kind |-> t.kind] \in NextTrack
    BY <1>1, <1>2 DEF NextTrack
  <2> QED
    BY <1>2, <2>1
<1>5. \A k \in r.kinds : [grant |-> grants + 1, kind |-> k] \in New(r)
  BY DEF New
<1>6. \A t, u \in New(r) : t.kind = u.kind => t = u
  BY <1>2
<1>7. \A t \in Track \cup {NoTrack} : t.grant # grants + 1
  BY <1>1 DEF Track, NoTrack
<1> QED
  BY <1>3, <1>4, <1>5, <1>6, <1>7

LEMMA TrackGrows ==
  ASSUME asked \in Nat, asked' \in {asked, asked + 1}, grants \in Nat, grants' \in {grants, grants + 1}
  PROVE  Track \subseteq Track' /\ Request \subseteq Request'
BY DEF Track, Request

LEMMA Counts ==
  ASSUME NEW a \in Nat, NEW b, b = a + 1
  PROVE  b \in {a, a + 1} /\ b \in Nat /\ a + 1 \in 1..b
OBVIOUS

\* An asking handler adds one request with a number of its own.
LEMMA AskTyped ==
  ASSUME TypeOK, NEW use, NEW kinds, NEW old, NEW also, Ask(use, kinds, old, also),
         use \in {"preview", "session", "swap", "switch", "share", "unshare"},
         kinds \subseteq Kinds \cup {"screen"}, old \in Track \cup {NoTrack},
         also \subseteq {"share ended", "nothing to replace"}, grants' = grants
  PROVE  /\ asked' = asked + 1 /\ asked' \in Nat
         /\ Track \subseteq Track'
         /\ pending' \subseteq Request'
         /\ mishaps' \subseteq Mishaps
<1>a. asked \in Nat /\ grants \in Nat
  BY DEF TypeOK
<1>b. asked' = asked + 1
  BY DEF Ask
<1>1. asked' \in {asked, asked + 1} /\ asked' \in Nat /\ asked + 1 \in 1..asked'
  BY <1>a, <1>b, Counts
<1>2. Track \subseteq Track' /\ Request \subseteq Request'
  BY <1>a, <1>1, TrackGrows
<1>3. [id |-> asked + 1, use |-> use, kinds |-> kinds, old |-> old] \in Request'
  <2>1. asked + 1 \in 1..asked'
    BY <1>1
  <2>2. old \in Track' \cup {NoTrack}
    BY <1>2
  <2>3. kinds \in SUBSET (Kinds \cup {"screen"})
    OBVIOUS
  <2> QED
    BY <2>1, <2>2, <2>3 DEF Request
<1>4. pending' \subseteq Request'
  BY <1>2, <1>3 DEF Ask, TypeOK
<1> QED
  BY <1>b, <1>1, <1>2, <1>4 DEF Ask, Overlap, Mishaps, TypeOK

LEMMA TypeInit == Init => TypeOK
<1> SUFFICES ASSUME Init PROVE TypeOK
  OBVIOUS
<1>1. sender \in [Kinds -> Track \cup {NoTrack}]
  BY DEF Init, NoSender
<1>2. chosen \in [Kinds -> BOOLEAN] /\ wants \in [Kinds -> BOOLEAN]
  BY DEF Init
<1> QED
  BY <1>1, <1>2 DEF Init, TypeOK

\* What does not ask keeps requests, tracks and mishaps typed.
LEMMA SameTracks ==
  asked' = asked /\ grants' = grants => Track' = Track /\ Request' = Request
BY DEF Track, Request

LEMMA ChosenTyped == Chosen \subseteq Kinds
BY DEF Chosen

LEMMA TypeAsk ==
  ASSUME TypeOK, UNCHANGED <<grants, refused>>,
         StartPreview \/ SwapPreviewMic \/ AskForSession \/ Share \/ Unshare
           \/ \E k \in Kinds : SwitchInput(k)
  PROVE  TypeOK'
<1>1. preview \subseteq Track /\ local \subseteq Track /\ screen \subseteq Track
      /\ live \subseteq Track /\ on \subseteq Track /\ sender \in [Kinds -> Track \cup {NoTrack}]
      /\ asked \in Nat /\ pending \subseteq Request /\ mishaps \subseteq Mishaps
      /\ grants \in Nat /\ refused \subseteq Kinds
  BY DEF TypeOK
<1> DEFINE Typed == asked' \in Nat /\ Track \subseteq Track' /\ pending' \subseteq Request'
                    /\ mishaps' \subseteq Mishaps
<1>2. ASSUME Typed,
             preview' \subseteq preview, local' = local, screen' \subseteq screen,
             live' \subseteq live, on' = on, sender' = sender,
             phase' \in {"precall", "config", "media", "call"}, sharing' \in BOOLEAN,
             UNCHANGED <<chosen, wants>>
      PROVE  TypeOK'
  <2>1. sender' \in [Kinds -> Track' \cup {NoTrack}]
    BY <1>1, <1>2
  <2>2. /\ preview' \subseteq Track' /\ local' \subseteq Track' /\ screen' \subseteq Track'
        /\ live' \subseteq Track' /\ on' \subseteq Track'
    BY <1>1, <1>2
  <2>3. chosen' \in [Kinds -> BOOLEAN] /\ wants' \in [Kinds -> BOOLEAN]
    BY <1>2 DEF TypeOK
  <2> QED
    BY <1>1, <1>2, <2>1, <2>2, <2>3 DEF TypeOK
<1> HIDE DEF Typed
<1>p. phase \in {"precall", "config", "media", "call"} /\ sharing \in BOOLEAN
  BY DEF TypeOK
<1>3. CASE StartPreview
  <2>1. CASE Chosen = {}
    <3>1. asked' = asked /\ pending' = pending /\ mishaps' \subseteq Mishaps
      BY <1>1, <1>3, <2>1 DEF StartPreview, Overlap, Mishaps
    <3>2. Typed
      BY <1>1, <3>1, SameTracks DEF Typed
    <3> QED
      BY <1>2, <1>3, <1>p, <3>2 DEF StartPreview
  <2>2. CASE Chosen # {}
    <3>1. /\ Ask("preview", Chosen, NoTrack, {}) /\ preview' = {} /\ live' = live \ preview
          /\ UNCHANGED <<phase, chosen, local, screen, sharing, sender, on, wants>>
      BY <1>3, <2>2 DEF StartPreview
    <3>2. Typed
      BY <3>1, AskTyped, ChosenTyped DEF Typed
    <3>3. preview' \subseteq preview /\ live' \subseteq live
      BY <3>1
    <3> QED
      BY <1>2, <1>p, <3>1, <3>2, <3>3
  <2> QED
    BY <2>1, <2>2
<1>4. CASE SwapPreviewMic
  <2> DEFINE old == First(preview, "audio")
             kinds == {"audio"}
  <2>1. old \in Track \cup {NoTrack}
    BY <1>1, FirstTyped
  <2>2. Ask("swap", kinds, old, {})
    BY <1>4 DEF SwapPreviewMic
  <2>u. UNCHANGED <<page, wants>>
    BY <1>4 DEF SwapPreviewMic
  <2>3. kinds \subseteq Kinds \cup {"screen"}
    BY DEF Kinds
  <2> HIDE DEF old, kinds
  <2>4. Typed
    BY <2>1, <2>2, <2>3, AskTyped DEF Typed
  <2> QED
    BY <1>2, <1>p, <2>u, <2>4 DEF page
<1>5. CASE AskForSession
  <2>1. Typed
    BY <1>5, AskTyped, ChosenTyped DEF Typed, AskForSession
  <2> QED
    BY <1>2, <1>5, <1>p, <2>1 DEF AskForSession
<1>6. CASE Share
  <2> DEFINE kinds == {"screen"}
  <2>1. Ask("share", kinds, NoTrack, {})
    BY <1>6 DEF Share
  <2>u. UNCHANGED <<page, wants>>
    BY <1>6 DEF Share
  <2>2. kinds \subseteq Kinds \cup {"screen"}
    OBVIOUS
  <2> HIDE DEF kinds
  <2>3. Typed
    BY <2>1, <2>2, AskTyped DEF Typed
  <2> QED
    BY <1>2, <1>p, <2>u, <2>3 DEF page
<1>7. CASE Unshare
  <2>1. Typed
    BY <1>7, AskTyped DEF Typed, Unshare, Kinds
  <2> QED
    BY <1>2, <1>7, <1>p, <2>1 DEF Unshare
<1>8. ASSUME NEW k \in Kinds, SwitchInput(k) PROVE TypeOK'
  <2>1. First(local, k) \in Track \cup {NoTrack}
    BY <1>1, FirstTyped
  <2> DEFINE also == IF First(local, k) = NoTrack THEN {"nothing to replace"} ELSE {}
  <2>2. /\ Ask("switch", {k}, First(local, k), also)
        /\ live' \subseteq live
        /\ UNCHANGED <<phase, chosen, preview, local, screen, sharing, sender, on, wants>>
    BY <1>8 DEF SwitchInput
  <2>3. also \subseteq {"share ended", "nothing to replace"}
    OBVIOUS
  <2>4. {k} \subseteq Kinds \cup {"screen"}
    OBVIOUS
  <2> HIDE DEF also
  <2>5. Typed
    BY <2>1, <2>2, <2>3, <2>4, AskTyped DEF Typed
  <2> QED
    BY <1>2, <1>p, <2>2, <2>5
<1> QED
  BY <1>3, <1>4, <1>5, <1>6, <1>7, <1>8

\* A step that asks for nothing keeps the types if it puts tracks where
\* tracks are.
LEMMA TypeKept ==
  ASSUME TypeOK, asked' = asked, grants' \in {grants, grants + 1}, refused' \subseteq Kinds,
         pending' \subseteq pending, mishaps' \subseteq Mishaps,
         phase' \in {"precall", "config", "media", "call"}, sharing' \in BOOLEAN,
         chosen' \in [Kinds -> BOOLEAN], wants' \in [Kinds -> BOOLEAN],
         preview' \subseteq Track', local' \subseteq Track', screen' \subseteq Track',
         live' \subseteq Track', on' \subseteq Track', sender' \in [Kinds -> Track' \cup {NoTrack}]
  PROVE  TypeOK'
<1>1. Request \subseteq Request'
  BY TrackGrows DEF TypeOK
<1>2. pending' \subseteq Request' /\ asked' \in Nat /\ grants' \in Nat
  BY <1>1 DEF TypeOK
<1> QED
  BY <1>2 DEF TypeOK

\* A step that grants nothing, and puts tracks where tracks are.
LEMMA TypeSame ==
  ASSUME TypeOK, asked' = asked, grants' = grants, refused' \subseteq Kinds,
         pending' \subseteq pending, mishaps' \subseteq Mishaps,
         phase' \in {"precall", "config", "media", "call"}, sharing' \in BOOLEAN,
         chosen' \in [Kinds -> BOOLEAN], wants' \in [Kinds -> BOOLEAN],
         preview' \subseteq Track, local' \subseteq Track, screen' \subseteq Track,
         live' \subseteq Track, on' \subseteq Track, sender' \in [Kinds -> Track \cup {NoTrack}]
  PROVE  TypeOK'
BY SameTracks, TypeKept

\* TypeOK, taken apart.
LEMMA Typing ==
  ASSUME TypeOK
  PROVE  /\ phase \in {"precall", "config", "media", "call"} /\ sharing \in BOOLEAN
         /\ chosen \in [Kinds -> BOOLEAN] /\ wants \in [Kinds -> BOOLEAN]
         /\ preview \subseteq Track /\ local \subseteq Track /\ screen \subseteq Track
         /\ live \subseteq Track /\ on \subseteq Track /\ sender \in [Kinds -> Track \cup {NoTrack}]
         /\ asked \in Nat /\ pending \subseteq Request /\ mishaps \subseteq Mishaps
         /\ grants \in Nat /\ refused \subseteq Kinds
BY DEF TypeOK

LEMMA NoSenderTyped == NoSender \in [Kinds -> Track \cup {NoTrack}]
BY DEF NoSender

\* A sender that takes a track of New(r) is typed.
LEMMA ReplaceTyped ==
  ASSUME NEW T, sender \in [Kinds -> T], NEW k, NEW t \in T
  PROVE  Replace(k, t) \in [Kinds -> T]
BY DEF Replace

\* What an answer leaves alone, whatever it was for.
LEMMA Answered ==
  ASSUME NEW r \in pending, pending' = pending \ {r}, Granted(r) \/ Refused(r), UNCHANGED asked
  PROVE  /\ asked' = asked /\ pending' \subseteq pending /\ chosen' = chosen /\ wants' = wants
         /\ mishaps' \subseteq mishaps \cup {"replaced while off"}
         /\ refused' \subseteq refused \cup Kinds
BY DEF Granted, Refused, PreviewGranted, SwapGranted, SwitchGranted, SessionGranted,
       ShareGranted, UnshareGranted, Enabled, CloseResources, page

\* First of the tracks of an answer is one of them.
LEMMA FirstNew ==
  ASSUME TypeOK, NEW r \in pending, NEW k
  PROVE  First(New(r), k) \in New(r) \cup {NoTrack} /\ First(New(r), k).kind \in {k, "none"}
<1>1. \A t \in New(r) : t.grant \in Nat /\ t.kind # "none"
  BY NewTyped, Typing DEF NextTrack, Kinds
<1> QED
  BY <1>1, FirstGives DEF NoTrack

LEMMA TypeGranted ==
  ASSUME TypeOK, NEW r \in pending, pending' = pending \ {r}, Granted(r), UNCHANGED asked
  PROVE  TypeOK'
<1>0. grants' = grants + 1 /\ Track' = NextTrack
  BY DEF Granted, Track, NextTrack
<1>1. New(r) \subseteq Track' /\ Track \subseteq Track'
  BY <1>0, NewTyped
<1>2. \A k : First(New(r), k) \in Track' \cup {NoTrack}
  BY <1>1, FirstNew
<1>3. /\ asked' = asked /\ pending' \subseteq pending
      /\ chosen' \in [Kinds -> BOOLEAN] /\ wants' \in [Kinds -> BOOLEAN]
      /\ mishaps' \subseteq Mishaps /\ refused' \subseteq Kinds
      /\ grants' \in {grants, grants + 1}
  BY <1>0, Answered, Typing DEF Mishaps
<1>4. /\ live \cup New(r) \subseteq Track' /\ on \cup New(r) \subseteq Track'
      /\ preview \subseteq Track' /\ local \subseteq Track' /\ screen \subseteq Track'
      /\ sender \in [Kinds -> Track' \cup {NoTrack}]
  BY <1>1, Typing
<1>5. CASE PreviewGranted(r)
  <2>1. /\ preview' \subseteq Track' /\ local' \subseteq Track' /\ screen' \subseteq Track'
        /\ live' \subseteq Track' /\ on' \subseteq Track'
    BY <1>1, <1>4, <1>5, Typing DEF PreviewGranted
  <2>2. UNCHANGED <<phase, sharing, sender>>
    BY <1>5 DEF PreviewGranted
  <2> QED
    BY <1>3, <1>4, <2>1, <2>2, Typing, TypeKept
<1>6. CASE SwapGranted(r)
  <2>1. /\ preview' \subseteq Track' /\ local' \subseteq Track' /\ screen' \subseteq Track'
        /\ live' \subseteq Track' /\ on' \subseteq Track'
    BY <1>1, <1>4, <1>6, Typing DEF SwapGranted
  <2>2. UNCHANGED <<phase, sharing, sender>>
    BY <1>6 DEF SwapGranted
  <2> QED
    BY <1>3, <1>4, <2>1, <2>2, Typing, TypeKept
<1>7. CASE SwitchGranted(r)
  <2>1. PICK t \in New(r) :
          /\ Enabled(r, t.kind)
          /\ IF r.old = NoTrack THEN UNCHANGED <<local, sender>>
             ELSE local' = (local \ {r.old}) \cup {t} /\ sender' = Replace(t.kind, t)
    BY <1>7 DEF SwitchGranted
  <2>2. UNCHANGED <<phase, chosen, preview, screen, sharing>>
    BY <1>7 DEF SwitchGranted
  <2>3. t \in Track'
    BY <1>1
  <2>4. sender' \in [Kinds -> Track' \cup {NoTrack}]
    BY <1>4, <2>1, <2>3 DEF Replace
  <2>5. /\ preview' \subseteq Track' /\ local' \subseteq Track' /\ screen' \subseteq Track'
        /\ live' \subseteq Track' /\ on' \subseteq Track'
    BY <1>4, <2>1, <2>2, <2>3, Typing DEF Enabled
  <2> QED
    BY <1>3, <2>2, <2>4, <2>5, Typing, TypeKept
<1>8. CASE SessionGranted(r)
  <2>1. sender' \in [Kinds -> Track' \cup {NoTrack}]
    BY <1>2, <1>8 DEF SessionGranted
  <2>2. /\ preview' \subseteq Track' /\ local' \subseteq Track' /\ screen' \subseteq Track'
        /\ live' \subseteq Track' /\ on' \subseteq Track'
    BY <1>1, <1>4, <1>8, Typing DEF SessionGranted
  <2>3. phase' = "call" /\ UNCHANGED sharing
    BY <1>8 DEF SessionGranted
  <2> QED
    BY <1>3, <2>1, <2>2, <2>3, Typing, TypeKept
<1>9. CASE ShareGranted(r)
  <2>1. sender' \in [Kinds -> Track' \cup {NoTrack}]
    BY <1>2, <1>4, <1>9, ReplaceTyped DEF ShareGranted
  <2>2. /\ preview' \subseteq Track' /\ local' \subseteq Track' /\ screen' \subseteq Track'
        /\ live' \subseteq Track' /\ on' \subseteq Track'
    BY <1>1, <1>4, <1>9, Typing DEF ShareGranted
  <2>3. sharing' = TRUE /\ UNCHANGED phase
    BY <1>9 DEF ShareGranted
  <2> QED
    BY <1>3, <2>1, <2>2, <2>3, Typing, TypeKept
<1>10. CASE UnshareGranted(r)
  <2>1. sender' \in [Kinds -> Track' \cup {NoTrack}]
    BY <1>2, <1>4, <1>10, ReplaceTyped DEF UnshareGranted
  <2>2. /\ preview' \subseteq Track' /\ local' \subseteq Track' /\ screen' \subseteq Track'
        /\ live' \subseteq Track' /\ on' \subseteq Track'
    BY <1>1, <1>4, <1>10, Typing DEF UnshareGranted, Enabled
  <2>3. UNCHANGED <<phase, sharing>>
    BY <1>10 DEF UnshareGranted
  <2> QED
    BY <1>3, <2>1, <2>2, <2>3, Typing, TypeKept
<1> QED
  BY <1>5, <1>6, <1>7, <1>8, <1>9, <1>10 DEF Granted

LEMMA TypeClosed ==
  ASSUME TypeOK, CloseResources, asked' = asked, grants' = grants, refused' \subseteq Kinds,
         pending' \subseteq pending, mishaps' \subseteq Mishaps
  PROVE  TypeOK'
<1>1. /\ preview' \subseteq Track /\ local' \subseteq Track /\ screen' \subseteq Track
      /\ live' \subseteq Track /\ on' \subseteq Track
      /\ sender' \in [Kinds -> Track \cup {NoTrack}]
  BY Typing, NoSenderTyped DEF CloseResources
<1>2. /\ phase' = "precall" /\ UNCHANGED <<chosen, sharing, wants>>
  BY DEF CloseResources
<1> QED
  BY <1>1, <1>2, Typing, TypeSame

LEMMA TypeStep == TypeOK /\ [Next]_vars => TypeOK'
<1> SUFFICES ASSUME TypeOK, [Next]_vars PROVE TypeOK'
  OBVIOUS
<1>1. CASE UNCHANGED <<grants, refused>> /\ (StartPreview \/ SwapPreviewMic \/ AskForSession \/ Share \/ Unshare
             \/ \E k \in Kinds : SwitchInput(k))
  BY <1>1, TypeAsk
<1>2. CASE StartSession /\ UNCHANGED <<grants, refused>>
  <2>1. mishaps' \subseteq Mishaps /\ preview' \subseteq Track /\ live' \subseteq Track
    BY <1>2, Typing DEF StartSession, Overlap, Mishaps
  <2>2. phase' = "config" /\ UNCHANGED <<chosen, local, screen, sharing, sender, on, pending, asked, wants>>
    BY <1>2 DEF StartSession
  <2> QED
    BY <1>2, <2>1, <2>2, Typing, TypeSame
<1>3. CASE SessionFails /\ UNCHANGED <<grants, refused>>
  <2>1. /\ CloseResources /\ asked' = asked /\ pending' = pending /\ mishaps' \subseteq Mishaps
        /\ grants' = grants /\ refused' \subseteq Kinds
    BY <1>3, Typing DEF SessionFails, Overlap, Mishaps
  <2> QED
    BY <2>1, TypeClosed
<1>4. ASSUME NEW k \in Kinds, TogglePrecall(k), UNCHANGED <<grants, refused>> PROVE TypeOK'
  <2>1. /\ chosen' \in [Kinds -> BOOLEAN] /\ wants' \in [Kinds -> BOOLEAN]
        /\ mishaps' \subseteq Mishaps
    BY <1>4, Typing DEF TogglePrecall, Mishaps
  <2>2. on' \subseteq Track
    BY <1>4, Typing DEF TogglePrecall
  <2>3. UNCHANGED <<phase, preview, local, screen, sharing, sender, live, pending, asked>>
    BY <1>4 DEF TogglePrecall
  <2> QED
    BY <1>4, <2>1, <2>2, <2>3, Typing, TypeSame
<1>5. ASSUME NEW k \in Kinds, ToggleTrack(k), UNCHANGED <<grants, refused>> PROVE TypeOK'
  <2> DEFINE t == First(local, k)
             wanted == IF t = NoTrack THEN ~ wants[k] ELSE t \notin on
  <2>1. t \in Track \cup {NoTrack} /\ wanted \in BOOLEAN
    BY Typing, FirstTyped
  <2>2. /\ on' = IF t = NoTrack THEN on ELSE (on \ {t}) \cup ({t} \ on)
        /\ wants' = [wants EXCEPT ![k] = wanted]
        /\ mishaps' \subseteq mishaps \cup {"clicked in vain"}
        /\ UNCHANGED <<phase, chosen, preview, local, screen, sharing, sender, live, pending, asked>>
    BY <1>5 DEF ToggleTrack
  <2> HIDE DEF t, wanted
  <2>3. on' \subseteq Track
    BY <2>1, <2>2, Typing
  <2>4. wants' \in [Kinds -> BOOLEAN]
    BY <2>1, <2>2, Typing
  <2>5. mishaps' \subseteq Mishaps
    BY <2>2, Typing DEF Mishaps
  <2> QED
    BY <1>5, <2>2, <2>3, <2>4, <2>5, Typing, TypeSame
<1>6. CASE Answer
  <2>1. PICK r \in pending : pending' = pending \ {r} /\ (Granted(r) \/ Refused(r)) /\ UNCHANGED asked
    BY <1>6 DEF Answer
  <2>2. CASE Granted(r)
    BY <2>1, <2>2, TypeGranted
  <2>3. CASE Refused(r) /\ r.use = "session"
    <3>1. /\ CloseResources /\ asked' = asked /\ grants' = grants /\ refused' \subseteq Kinds
          /\ pending' \subseteq pending /\ mishaps' \subseteq Mishaps
      BY <2>1, <2>3, Typing DEF Refused
    <3> QED
      BY <3>1, TypeClosed
  <2>4. CASE Refused(r) /\ r.use # "session"
    <3>1. /\ UNCHANGED <<page, wants, grants, mishaps, asked>> /\ refused' \subseteq Kinds
          /\ pending' \subseteq pending
      BY <2>1, <2>4, Typing DEF Refused
    <3> QED
      BY <3>1, Typing, TypeSame DEF page
  <2> QED
    BY <2>1, <2>2, <2>3, <2>4
<1>7. CASE UNCHANGED vars
  BY <1>7, Typing, TypeSame DEF vars, page
<1> QED
  BY <1>1, <1>2, <1>3, <1>4, <1>5, <1>6, <1>7 DEF Next, Handler

-----------------------------------------------------------------------------
(* Requests and senders *)

\* What each handler asks for.
WellAsked(r) ==
  /\ r.use \in {"preview", "session"} => r.kinds \subseteq Kinds
  /\ r.use = "swap" => r.kinds = {"audio"}
  /\ r.use = "switch" => \E k \in Kinds : r.kinds = {k}
  /\ r.use = "share" => r.kinds = {"screen"}
  /\ r.use = "unshare" => r.kinds = {"video"}

\* The sender of the microphone has a microphone, that of the camera a camera
\* or the screen.
SenderKinds ==
  /\ sender["audio"].kind \in {"audio", "none"}
  /\ sender["video"].kind \in {"video", "screen", "none"}

Requests ==
  /\ SenderKinds
  /\ \A t \in screen : t.kind = "screen"
  /\ \A r \in pending : WellAsked(r) /\ (r.use = "unshare" => "share ended" \in mishaps)

\* The request an asking handler adds.
Query(use, kinds, old) == [id |-> asked + 1, use |-> use, kinds |-> kinds, old |-> old]

\* A step asks, or not, or goes on with an answer.
Asking(q) ==
  /\ pending' = pending \cup {q} /\ WellAsked(q)
  /\ q.use = "unshare" => "share ended" \in mishaps'
  /\ sender' = sender /\ screen' \subseteq screen /\ mishaps \subseteq mishaps'

Resting ==
  /\ pending' = pending /\ mishaps \subseteq mishaps'
  /\ sender' \in {sender, NoSender} /\ screen' \subseteq screen

LEMMA AskingStep ==
  ASSUME SwapPreviewMic \/ AskForSession \/ Share \/ Unshare
           \/ (StartPreview /\ Chosen # {}) \/ \E k \in Kinds : SwitchInput(k)
  PROVE  \E q : Asking(q)
<1>1. CASE StartPreview /\ Chosen # {}
  <2>1. WellAsked(Query("preview", Chosen, NoTrack))
    BY ChosenTyped DEF WellAsked, Query
  <2> QED
    BY <1>1, <2>1 DEF StartPreview, Ask, Asking, Query
<1>2. CASE SwapPreviewMic
  <2> DEFINE old == First(preview, "audio")
  <2>1. Ask("swap", {"audio"}, old, {}) /\ UNCHANGED page
    BY <1>2 DEF SwapPreviewMic
  <2>2. WellAsked(Query("swap", {"audio"}, old))
    BY DEF WellAsked, Query
  <2> HIDE DEF old
  <2> QED
    BY <2>1, <2>2 DEF page, Ask, Asking, Query
<1>3. CASE AskForSession
  <2>1. WellAsked(Query("session", Chosen, NoTrack))
    BY ChosenTyped DEF WellAsked, Query
  <2> QED
    BY <1>3, <2>1 DEF AskForSession, Ask, Asking, Query
<1>4. CASE Share
  <2>1. WellAsked(Query("share", {"screen"}, NoTrack))
    BY DEF WellAsked, Query
  <2> QED
    BY <1>4, <2>1 DEF Share, page, Ask, Asking, Query
<1>5. CASE Unshare
  <2>1. WellAsked(Query("unshare", {"video"}, NoTrack))
    BY DEF WellAsked, Query
  <2> QED
    BY <1>5, <2>1 DEF Unshare, Ask, Asking, Query
<1>6. ASSUME NEW k \in Kinds, SwitchInput(k) PROVE \E q : Asking(q)
  <2> DEFINE old == First(local, k)
             also == IF old = NoTrack THEN {"nothing to replace"} ELSE {}
  <2>1. Ask("switch", {k}, old, also) /\ sender' = sender /\ screen' = screen
    BY <1>6 DEF SwitchInput
  <2>2. WellAsked(Query("switch", {k}, old))
    BY DEF WellAsked, Query
  <2> HIDE DEF old, also
  <2> QED
    BY <2>1, <2>2 DEF Ask, Asking, Query
<1> QED
  BY <1>1, <1>2, <1>3, <1>4, <1>5, <1>6

LEMMA RestingStep ==
  ASSUME StartSession \/ SessionFails \/ (StartPreview /\ Chosen = {})
           \/ (\E k \in Kinds : TogglePrecall(k) \/ ToggleTrack(k))
           \/ UNCHANGED vars
  PROVE  Resting
BY DEF StartSession, SessionFails, CloseResources, StartPreview, TogglePrecall, ToggleTrack,
       vars, page, Resting

\* What Replace does to either sender.
LEMMA Replaced ==
  ASSUME TypeOK, NEW j \in Kinds, NEW t
  PROVE  \A k \in Kinds :
           /\ k # j => Replace(j, t)[k] = sender[k]
           /\ k = j /\ sender[k] = NoTrack => Replace(j, t)[k] = NoTrack
           /\ k = j /\ sender[k] # NoTrack => Replace(j, t)[k] = t
BY Typing DEF Replace

LEMMA AnsweringStep ==
  ASSUME TypeOK, Requests, NEW r \in pending, Granted(r) \/ Refused(r)
  PROVE  SenderKinds' /\ \A t \in screen' : t.kind = "screen"
<1>0. SenderKinds /\ WellAsked(r) /\ \A t \in screen : t.kind = "screen"
  BY DEF Requests
<1>1. \A k : First(New(r), k).kind \in {k, "none"}
  BY FirstNew
<1>2. ASSUME sender' = sender PROVE SenderKinds'
  BY <1>0, <1>2 DEF SenderKinds
<1>3. ASSUME NEW j \in Kinds, NEW t, sender' = Replace(j, t),
             t.kind \in IF j = "audio" THEN {"audio", "none"} ELSE {"video", "screen", "none"}
      PROVE  SenderKinds'
  BY <1>0, <1>3, Replaced DEF SenderKinds, Kinds
<1>4. CASE PreviewGranted(r) \/ SwapGranted(r)
  BY <1>0, <1>2, <1>4 DEF PreviewGranted, SwapGranted
<1>5. CASE SwitchGranted(r)
  <2>1. PICK t \in New(r) :
          IF r.old = NoTrack THEN UNCHANGED <<local, sender>>
          ELSE local' = (local \ {r.old}) \cup {t} /\ sender' = Replace(t.kind, t)
    BY <1>5 DEF SwitchGranted
  <2>2. t.kind \in Kinds
    BY <1>0, <1>5, NewTyped DEF SwitchGranted, WellAsked
  <2>3. SenderKinds'
    BY <1>2, <1>3, <2>1, <2>2 DEF Kinds
  <2> QED
    BY <1>0, <1>5, <2>3 DEF SwitchGranted
<1>6. CASE SessionGranted(r)
  <2>1. sender'["audio"] = First(New(r), "audio") /\ sender'["video"] = First(New(r), "video")
    BY <1>6 DEF SessionGranted, Kinds
  <2> QED
    BY <1>0, <1>1, <1>6, <2>1 DEF SessionGranted, SenderKinds
<1>7. CASE ShareGranted(r)
  <2> DEFINE t == First(New(r), "screen")
  <2>1. sender' = Replace("video", t) /\ t.kind \in {"screen", "none"} /\ screen' = New(r)
    BY <1>1, <1>7 DEF ShareGranted
  <2> HIDE DEF t
  <2>2. SenderKinds'
    BY <1>3, <2>1 DEF Kinds
  <2>3. \A u \in New(r) : u.kind = "screen"
    BY <1>0, <1>7, NewTyped DEF ShareGranted, WellAsked
  <2> QED
    BY <2>1, <2>2, <2>3
<1>8. CASE UnshareGranted(r)
  <2> DEFINE t == First(New(r), "video")
  <2>1. sender' = Replace("video", t) /\ t.kind \in {"video", "none"} /\ screen' = screen
    BY <1>1, <1>8 DEF UnshareGranted
  <2> HIDE DEF t
  <2>2. SenderKinds'
    BY <1>3, <2>1 DEF Kinds
  <2> QED
    BY <1>0, <2>1, <2>2
<1>9. CASE Refused(r)
  <2>1. sender' \in {sender, NoSender} /\ screen' \subseteq screen
    BY <1>9 DEF Refused, CloseResources, page
  <2> QED
    BY <1>0, <1>2, <2>1 DEF SenderKinds, NoSender, NoTrack, Kinds
<1> QED
  BY <1>4, <1>5, <1>6, <1>7, <1>8, <1>9 DEF Granted

\* What happened has happened.
LEMMA Remembered ==
  ASSUME [Next]_vars
  PROVE  mishaps \subseteq mishaps'
<1>1. CASE Answer
  BY <1>1 DEF Answer, Granted, Refused, PreviewGranted, SwapGranted, SwitchGranted, SessionGranted,
              ShareGranted, UnshareGranted, Enabled
<1>2. CASE Handler \/ UNCHANGED vars
  BY <1>2, AskingStep, RestingStep DEF Handler, Asking, Resting
<1> QED
  BY <1>1, <1>2 DEF Next

LEMMA RequestsInit == Init => Requests
BY DEF Init, Requests, SenderKinds, NoSender, NoTrack, Kinds

LEMMA RequestsStep ==
  ASSUME TypeOK, Requests, [Next]_vars
  PROVE  Requests'
<1>1. mishaps \subseteq mishaps'
  BY Remembered
<1>2. \A r \in pending : WellAsked(r) /\ (r.use = "unshare" => "share ended" \in mishaps')
  BY <1>1 DEF Requests
<1>3. \A r : WellAsked(r) => WellAsked(r)'
  BY DEF WellAsked
<1>4. ASSUME NEW q, Asking(q) PROVE Requests'
  <2>1. SenderKinds' /\ \A t \in screen' : t.kind = "screen"
    BY <1>4 DEF Asking, Requests, SenderKinds
  <2>2. \A r \in pending' : WellAsked(r)' /\ (r.use = "unshare" => "share ended" \in mishaps')
    BY <1>2, <1>3, <1>4 DEF Asking
  <2> QED
    BY <2>1, <2>2 DEF Requests
<1>5. CASE Resting
  <2>1. SenderKinds'
    <3>1. NoSender["audio"].kind = "none" /\ NoSender["video"].kind = "none"
      BY DEF NoSender, NoTrack, Kinds
    <3> QED
      BY <1>5, <3>1 DEF Resting, Requests, SenderKinds
  <2> QED
    BY <1>2, <1>3, <1>5, <2>1 DEF Resting, Requests
<1>6. CASE Answer
  <2>1. PICK r \in pending : pending' = pending \ {r} /\ (Granted(r) \/ Refused(r))
    BY <1>6 DEF Answer
  <2> QED
    BY <1>2, <1>3, <2>1, AnsweringStep DEF Requests
<1> QED
  BY <1>4, <1>5, <1>6, AskingStep, RestingStep DEF Next, Handler

-----------------------------------------------------------------------------
(* One request at a time *)

\* Outside of a call there is nothing of one, and a screen while it is shared.
Calm ==
  /\ phase # "call" => local = {} /\ screen = {} /\ ~sharing /\ sender = NoSender
  /\ ~sharing => screen = {}
  /\ \A t, u \in local : t.kind = u.kind => t = u

\* The page when the answer comes is the page that asked.
Due(r) ==
  /\ r.use = "session" => phase = "media"
  /\ r.use \in {"switch", "share", "unshare"} => phase = "call"
  /\ r.use \in {"share", "unshare"} => ~sharing
  /\ r.use = "preview" => preview = {}
  /\ r.use = "swap" => preview # {}
  /\ r.use = "switch" => r.old \notin live /\ \A k \in r.kinds : r.old = First(local, k)

Alone ==
  "overlap" \notin mishaps =>
    /\ \A r, s \in pending : r = s
    /\ Calm
    /\ \A r \in pending : Due(r)

LEMMA AloneInit == Init => Alone
BY DEF Init, Alone, Calm, NoSender

\* Who asks without overlap waits for nothing else.
LEMMA AsksAlone ==
  ASSUME NEW use, NEW kinds, NEW old, NEW also, Ask(use, kinds, old, also),
         "overlap" \notin mishaps'
  PROVE  /\ "overlap" \notin mishaps
         /\ pending = {} /\ also \subseteq mishaps' /\ mishaps \subseteq mishaps'
         /\ \E q : /\ pending' = {q}
                  /\ q.use = use /\ q.kinds = kinds /\ q.old = old
<1>1. /\ "overlap" \notin mishaps
      /\ pending = {} /\ also \subseteq mishaps' /\ mishaps \subseteq mishaps'
  BY DEF Ask, Overlap
<1> DEFINE q == [id |-> asked + 1, use |-> use, kinds |-> kinds, old |-> old]
<1>2. pending' = {q}
  BY <1>1 DEF Ask
<1>3. q.use = use /\ q.kinds = kinds /\ q.old = old
  OBVIOUS
<1> HIDE DEF q
<1> QED
  BY <1>1, <1>2, <1>3

LEMMA AsksOne ==
  ASSUME NEW use, NEW kinds, NEW old, NEW also, Ask(use, kinds, old, also),
         "overlap" \notin mishaps'
  PROVE  \E q : pending' = {q} /\ q.use = use
BY AsksAlone

\* A switch is noted when there is nothing to replace.
LEMMA SwitchAlone ==
  ASSUME NEW k \in Kinds, SwitchInput(k), "overlap" \notin mishaps'
  PROVE  \E q : /\ pending' = {q} /\ q.use = "switch" /\ q.kinds = {k} /\ q.old = First(local, k)
                /\ q.old = NoTrack => "nothing to replace" \in mishaps'
<1> DEFINE old == First(local, k)
           also == IF old = NoTrack THEN {"nothing to replace"} ELSE {}
<1>1. Ask("switch", {k}, old, also)
  BY DEF SwitchInput
<1>2. old = NoTrack => "nothing to replace" \in also
  OBVIOUS
<1> HIDE DEF old, also
<1>3. PICK q : pending' = {q} /\ q.use = "switch" /\ q.kinds = {k} /\ q.old = old
  BY <1>1, AsksAlone
<1>4. also \subseteq mishaps'
  BY <1>1 DEF Ask
<1> QED
  BY <1>2, <1>3, <1>4 DEF old

\* A track that was stopped, or none, is not running.
LEMMA NotRunning ==
  ASSUME TypeOK
  PROVE  NoTrack \notin live /\ NoTrack \notin local /\ NoTrack \notin on
<1>1. NoTrack \notin Track
  BY Typing DEF Track, NoTrack, Kinds
<1> QED
  BY <1>1, Typing

LEMMA AloneAsk ==
  ASSUME TypeOK, Alone, "overlap" \notin mishaps',
         SwapPreviewMic \/ AskForSession \/ Share \/ Unshare
           \/ (StartPreview /\ Chosen # {}) \/ \E k \in Kinds : SwitchInput(k)
  PROVE  Alone'
<1>1. ASSUME NEW q, "overlap" \notin mishaps, pending' = {q}, Calm', Due(q)' PROVE Alone'
  BY <1>1 DEF Alone
<1>2. CASE StartPreview /\ Chosen # {}
  <2>1. Ask("preview", Chosen, NoTrack, {})
    BY <1>2 DEF StartPreview
  <2>2. "overlap" \notin mishaps
         /\ \E q : pending' = {q} /\ q.use = "preview" /\ q.kinds = Chosen /\ q.old = NoTrack
    BY <2>1, AsksAlone
  <2>q. PICK q : pending' = {q} /\ q.use = "preview" /\ q.kinds = Chosen /\ q.old = NoTrack
    BY <2>2
  <2>3. UNCHANGED <<phase, local, screen, sharing, sender>> /\ preview' = {}
    BY <1>2 DEF StartPreview
  <2>4. Calm'
    BY <2>2, <2>3 DEF Alone, Calm
  <2>5. Due(q)'
    BY <2>3, <2>q DEF Due
  <2> QED
    BY <1>1, <2>q, <2>2, <2>4, <2>5
<1>3. CASE SwapPreviewMic
  <2> DEFINE old == First(preview, "audio")
  <2>1. Ask("swap", {"audio"}, old, {}) /\ preview # {} /\ UNCHANGED page
    BY <1>3 DEF SwapPreviewMic
  <2> HIDE DEF old
  <2>2. "overlap" \notin mishaps
         /\ \E q : pending' = {q} /\ q.use = "swap" /\ q.kinds = {"audio"} /\ q.old = old
    BY <2>1, AsksAlone
  <2>q. PICK q : pending' = {q} /\ q.use = "swap" /\ q.kinds = {"audio"} /\ q.old = old
    BY <2>2
  <2>3. Calm'
    BY <2>1, <2>2 DEF Alone, Calm, page
  <2>4. Due(q)'
    BY <2>1, <2>q DEF Due, page
  <2> QED
    BY <1>1, <2>q, <2>2, <2>3, <2>4
<1>4. CASE AskForSession
  <2>1. Ask("session", Chosen, NoTrack, {})
    BY <1>4 DEF AskForSession
  <2>2. "overlap" \notin mishaps
         /\ \E q : pending' = {q} /\ q.use = "session" /\ q.kinds = Chosen /\ q.old = NoTrack
    BY <2>1, AsksAlone
  <2>q. PICK q : pending' = {q} /\ q.use = "session" /\ q.kinds = Chosen /\ q.old = NoTrack
    BY <2>2
  <2>3. phase = "config" /\ phase' = "media" /\ UNCHANGED <<local, screen, sharing, sender>>
    BY <1>4 DEF AskForSession
  <2>4. Calm'
    BY <2>2, <2>3 DEF Alone, Calm
  <2>5. Due(q)'
    BY <2>3, <2>q DEF Due
  <2> QED
    BY <1>1, <2>q, <2>2, <2>4, <2>5
<1>5. CASE Share
  <2>1. Ask("share", {"screen"}, NoTrack, {}) /\ phase = "call" /\ ~sharing /\ UNCHANGED page
    BY <1>5 DEF Share
  <2>2. "overlap" \notin mishaps
         /\ \E q : pending' = {q} /\ q.use = "share" /\ q.kinds = {"screen"} /\ q.old = NoTrack
    BY <2>1, AsksAlone
  <2>q. PICK q : pending' = {q} /\ q.use = "share" /\ q.kinds = {"screen"} /\ q.old = NoTrack
    BY <2>2
  <2>3. Calm'
    BY <2>1, <2>2 DEF Alone, Calm, page
  <2>4. Due(q)'
    BY <2>1, <2>q DEF Due, page
  <2> QED
    BY <1>1, <2>q, <2>2, <2>3, <2>4
<1>6. CASE Unshare
  <2> DEFINE also == {"share ended"}
  <2>1. Ask("unshare", {"video"}, NoTrack, also)
    BY <1>6 DEF Unshare
  <2> HIDE DEF also
  <2>2. "overlap" \notin mishaps
         /\ \E q : pending' = {q} /\ q.use = "unshare" /\ q.kinds = {"video"} /\ q.old = NoTrack
    BY <2>1, AsksAlone
  <2>q. PICK q : pending' = {q} /\ q.use = "unshare" /\ q.kinds = {"video"} /\ q.old = NoTrack
    BY <2>2
  <2>3. phase = "call" /\ sharing' = FALSE /\ screen' = {} /\ UNCHANGED <<phase, local>>
    BY <1>6 DEF Unshare
  <2>4. Calm'
    BY <2>2, <2>3 DEF Alone, Calm
  <2>5. Due(q)'
    BY <2>3, <2>q DEF Due
  <2> QED
    BY <1>1, <2>q, <2>2, <2>4, <2>5
<1>7. ASSUME NEW k \in Kinds, SwitchInput(k) PROVE Alone'
  <2>1. PICK q : pending' = {q} /\ q.use = "switch" /\ q.kinds = {k} /\ q.old = First(local, k)
    BY <1>7, SwitchAlone
  <2>2. /\ phase = "call" /\ live' = live \ {q.old} /\ mishaps \subseteq mishaps'
        /\ UNCHANGED <<phase, local, screen, sharing, sender>>
    BY <1>7, <2>1 DEF SwitchInput, Ask
  <2>3. Calm'
    BY <2>2 DEF Alone, Calm
  <2>4. Due(q)'
    BY <2>1, <2>2 DEF Due
  <2> QED
    BY <1>1, <2>1, <2>2, <2>3, <2>4
<1> QED
  BY <1>2, <1>3, <1>4, <1>5, <1>6, <1>7

LEMMA AloneRest ==
  ASSUME TypeOK, Alone, "overlap" \notin mishaps',
         StartSession \/ SessionFails \/ (StartPreview /\ Chosen = {})
           \/ (\E k \in Kinds : TogglePrecall(k) \/ ToggleTrack(k))
           \/ UNCHANGED vars
  PROVE  Alone'
<1>1. ASSUME mishaps' = mishaps \cup Overlap, pending' = pending, "overlap" \notin mishaps => Calm'
      PROVE  Alone'
  BY <1>1 DEF Alone, Overlap
<1>2. CASE StartSession
  BY <1>1, <1>2 DEF StartSession, Alone, Calm
<1>3. CASE SessionFails
  BY <1>1, <1>3 DEF SessionFails, CloseResources, Alone, Calm
<1>4. CASE StartPreview /\ Chosen = {}
  BY <1>1, <1>4 DEF StartPreview, Alone, Calm
<1>5. ASSUME mishaps \subseteq mishaps',
             UNCHANGED <<phase, preview, local, screen, sharing, sender, live, pending>>
      PROVE  Alone'
  <2>1. Calm <=> Calm'
    BY <1>5 DEF Calm
  <2>2. \A r : Due(r) => Due(r)'
    BY <1>5 DEF Due
  <2> QED
    BY <1>5, <2>1, <2>2 DEF Alone
<1>6. CASE \E k \in Kinds : TogglePrecall(k) \/ ToggleTrack(k)
  BY <1>5, <1>6 DEF TogglePrecall, ToggleTrack
<1>7. CASE UNCHANGED vars
  BY <1>5, <1>7 DEF vars, page
<1> QED
  BY <1>2, <1>3, <1>4, <1>6, <1>7

\* The track of a switch takes the place of the one track of its kind.
LEMMA Switched ==
  ASSUME TypeOK, Calm, NEW r \in pending, Due(r), WellAsked(r), SwitchGranted(r)
  PROVE  \E t \in New(r), k \in Kinds :
           /\ r.kinds = {k} /\ t.kind = k /\ Enabled(r, k) /\ r.old = First(local, k)
           /\ r.old = NoTrack => UNCHANGED <<local, sender>>
           /\ r.old # NoTrack =>
                /\ r.old \in local /\ local' = (local \ {r.old}) \cup {t}
                /\ \A u \in local : u.kind = k => u = r.old
                /\ sender' = Replace(k, t)
<1>1. PICK k \in Kinds : r.kinds = {k}
  BY DEF SwitchGranted, WellAsked
<1>2. PICK t \in New(r) :
        /\ Enabled(r, t.kind)
        /\ IF r.old = NoTrack THEN UNCHANGED <<local, sender>>
           ELSE local' = (local \ {r.old}) \cup {t} /\ sender' = Replace(t.kind, t)
  BY DEF SwitchGranted
<1>3. t.kind = k
  BY <1>1, <1>2, NewTyped
<1>4. r.old = First(local, k)
  BY <1>1 DEF Due, SwitchGranted
<1>5. \/ r.old \in local /\ r.old.kind = k
      \/ r.old = NoTrack
  BY <1>4, Typing, FirstTyped
<1>6. r.old # NoTrack => r.old \in local /\ \A u \in local : u.kind = k => u = r.old
  BY <1>5 DEF Calm
<1> QED
  BY <1>1, <1>2, <1>3, <1>4, <1>6

LEMMA AloneAnswer ==
  ASSUME TypeOK, Requests, Alone, Answer
  PROVE  Alone'
<1> SUFFICES ASSUME "overlap" \notin mishaps' PROVE Alone'
  BY DEF Alone
<1>1. PICK r \in pending : pending' = pending \ {r} /\ (Granted(r) \/ Refused(r)) /\ UNCHANGED asked
  BY DEF Answer
<1>2. mishaps \subseteq mishaps'
  BY Remembered DEF Next
<1>3. Calm /\ Due(r) /\ WellAsked(r) /\ pending' = {}
  BY <1>1, <1>2 DEF Alone, Requests
<1> SUFFICES Calm'
  BY <1>3 DEF Alone
<1>4. CASE PreviewGranted(r) \/ SwapGranted(r)
  BY <1>3, <1>4 DEF PreviewGranted, SwapGranted, Calm
<1>5. CASE SwitchGranted(r)
  <2>1. PICK t \in New(r), k \in Kinds :
          /\ t.kind = k
          /\ r.old = NoTrack => UNCHANGED <<local, sender>>
          /\ r.old # NoTrack =>
               /\ local' = (local \ {r.old}) \cup {t}
               /\ \A u \in local : u.kind = k => u = r.old
    BY <1>3, <1>5, Switched
  <2>2. \A u, v \in local' : u.kind = v.kind => u = v
    BY <1>3, <2>1 DEF Calm
  <2>3. phase = "call" /\ UNCHANGED <<phase, screen, sharing>>
    BY <1>3, <1>5 DEF SwitchGranted, Due
  <2> QED
    BY <1>3, <2>2, <2>3 DEF Calm
<1>6. CASE SessionGranted(r)
  <2>1. \A t, u \in New(r) : t.kind = u.kind => t = u
    BY NewTyped
  <2>2. phase # "call"
    BY <1>3, <1>6 DEF Due, SessionGranted
  <2> QED
    BY <1>3, <1>6, <2>1, <2>2 DEF Calm, SessionGranted
<1>7. CASE ShareGranted(r)
  BY <1>3, <1>7 DEF ShareGranted, Calm, Due
<1>8. CASE UnshareGranted(r)
  <2>1. \A t, u \in New(r) : t.kind = u.kind => t = u
    BY NewTyped
  <2> QED
    BY <1>3, <1>8, <2>1 DEF Calm, UnshareGranted, Due
<1>9. CASE Refused(r)
  <2>1. CASE r.use = "session"
    BY <1>3, <1>9, <2>1 DEF Refused, CloseResources, Calm, Due
  <2>2. CASE r.use # "session"
    BY <1>3, <1>9, <2>2 DEF Refused, page, Calm
  <2> QED
    BY <2>1, <2>2
<1> QED
  BY <1>1, <1>4, <1>5, <1>6, <1>7, <1>8, <1>9 DEF Granted

LEMMA AloneStep ==
  ASSUME TypeOK, Requests, Alone, [Next]_vars
  PROVE  Alone'
<1> SUFFICES ASSUME "overlap" \notin mishaps' PROVE Alone'
  BY DEF Alone
<1>1. CASE \/ SwapPreviewMic \/ AskForSession \/ Share \/ Unshare
           \/ (StartPreview /\ Chosen # {}) \/ \E k \in Kinds : SwitchInput(k)
  BY <1>1, AloneAsk
<1>2. CASE \/ StartSession \/ SessionFails \/ (StartPreview /\ Chosen = {})
           \/ (\E k \in Kinds : TogglePrecall(k) \/ ToggleTrack(k)) \/ UNCHANGED vars
  BY <1>2, AloneRest
<1>3. CASE Answer
  BY <1>3, AloneAnswer
<1> QED
  BY <1>1, <1>2, <1>3 DEF Next, Handler

-----------------------------------------------------------------------------
(* The camera light goes out *)

\* Unless one of the mishaps: running tracks are in a stream, and no answer
\* that is awaited will break this.
Streams ==
  ~ Unless({"overlap", "share ended", "nothing to replace"}) =>
    /\ live \subseteq preview \cup local \cup screen
    /\ \A r \in pending : r.use # "unshare" /\ (r.use = "switch" => r.old # NoTrack)

LEMMA StreamsInit == Init => Streams
BY DEF Init, Streams

LEMMA StreamsStep ==
  ASSUME TypeOK, Requests, Alone, Streams, [Next]_vars
  PROVE  Streams'
<1> SUFFICES ASSUME ~ Unless({"overlap", "share ended", "nothing to replace"})' PROVE Streams'
  BY DEF Streams
<1>1. mishaps \subseteq mishaps'
  BY Remembered
<1>2. /\ "overlap" \notin mishaps' /\ "share ended" \notin mishaps'
      /\ "nothing to replace" \notin mishaps' /\ "overlap" \notin mishaps
  BY <1>1 DEF Unless
<1>o. "overlap" \notin mishaps'
  BY <1>2
<1>3. /\ live \subseteq preview \cup local \cup screen
      /\ \A r \in pending : r.use # "unshare" /\ (r.use = "switch" => r.old # NoTrack)
  BY <1>1 DEF Streams, Unless
<1>4. Calm
  BY <1>2 DEF Alone
<1>5. ASSUME NEW q, pending' = {q}, live' \subseteq preview' \cup local' \cup screen',
             q.use # "unshare", q.use = "switch" => q.old # NoTrack
      PROVE  Streams'
  BY <1>5 DEF Streams
<1>6. ASSUME pending' \subseteq pending, live' \subseteq preview' \cup local' \cup screen'
      PROVE  Streams'
  BY <1>3, <1>6 DEF Streams
<1>7. CASE StartPreview
  <2>1. live' \subseteq preview' \cup local' \cup screen'
    BY <1>3, <1>7 DEF StartPreview
  <2>2. CASE Chosen = {}
    BY <1>6, <1>7, <2>1, <2>2 DEF StartPreview
  <2>3. CASE Chosen # {}
    <3>1. Ask("preview", Chosen, NoTrack, {})
      BY <1>7, <2>3 DEF StartPreview
    <3>2. PICK q : pending' = {q} /\ q.use = "preview"
      BY <1>2, <3>1, AsksAlone
    <3> QED
      BY <1>5, <2>1, <3>2
  <2> QED
    BY <2>2, <2>3
<1>8. CASE SwapPreviewMic
  <2> DEFINE old == First(preview, "audio")
             kinds == {"audio"}
  <2>1. Ask("swap", kinds, old, {})
    BY <1>8 DEF SwapPreviewMic
  <2>u. UNCHANGED page
    BY <1>8 DEF SwapPreviewMic
  <2> HIDE DEF old, kinds
  <2>2. PICK q : pending' = {q} /\ q.use = "swap"
    BY <1>o, <2>1, AsksOne
  <2> QED
    BY <1>3, <1>5, <2>u, <2>2 DEF page
<1>9. CASE AskForSession
  <2>1. Ask("session", Chosen, NoTrack, {}) /\ UNCHANGED <<preview, local, screen, live>>
    BY <1>9 DEF AskForSession
  <2>2. PICK q : pending' = {q} /\ q.use = "session"
    BY <1>2, <2>1, AsksAlone
  <2> QED
    BY <1>3, <1>5, <2>1, <2>2
<1>10. CASE Share
  <2> DEFINE kinds == {"screen"}
  <2>1. Ask("share", kinds, NoTrack, {})
    BY <1>10 DEF Share
  <2> HIDE DEF kinds
  <2>u. UNCHANGED page
    BY <1>10 DEF Share
  <2>2. PICK q : pending' = {q} /\ q.use = "share"
    BY <1>o, <2>1, AsksOne
  <2> QED
    BY <1>3, <1>5, <2>u, <2>2 DEF page
<1>11. ASSUME Unshare PROVE FALSE
  BY <1>2, <1>11 DEF Unshare, Ask
<1>12. ASSUME NEW k \in Kinds, SwitchInput(k) PROVE Streams'
  <2>1. PICK q : /\ pending' = {q} /\ q.use = "switch" /\ q.old = First(local, k)
                 /\ q.old = NoTrack => "nothing to replace" \in mishaps'
    BY <1>2, <1>12, SwitchAlone
  <2>2. q.old # NoTrack
    BY <1>2, <2>1
  <2> QED
    BY <1>3, <1>5, <1>12, <2>1, <2>2 DEF SwitchInput
<1>13. CASE StartSession
  BY <1>3, <1>6, <1>13 DEF StartSession
<1>14. CASE SessionFails
  BY <1>3, <1>6, <1>14 DEF SessionFails, CloseResources
<1>15. ASSUME NEW k \in Kinds, TogglePrecall(k) PROVE Streams'
  BY <1>3, <1>6, <1>15 DEF TogglePrecall
<1>16. ASSUME NEW k \in Kinds, ToggleTrack(k) PROVE Streams'
  BY <1>3, <1>6, <1>16 DEF ToggleTrack
<1>17. CASE Answer
  <2>1. PICK r \in pending : pending' = pending \ {r} /\ (Granted(r) \/ Refused(r)) /\ UNCHANGED asked
    BY <1>17 DEF Answer
  <2>2. /\ Due(r) /\ WellAsked(r) /\ r.use # "unshare" /\ (r.use = "switch" => r.old # NoTrack)
        /\ pending' \subseteq pending
    BY <1>2, <1>3, <2>1 DEF Alone, Requests
  <2>3. CASE PreviewGranted(r)
    BY <1>3, <1>6, <2>2, <2>3 DEF PreviewGranted, Due
  <2>4. CASE SwapGranted(r)
    <3>1. preview' = (preview \ {r.old}) \cup New(r) /\ live' = (live \ {r.old}) \cup New(r)
          /\ UNCHANGED <<local, screen>>
      BY <2>2, <2>4 DEF SwapGranted, Due
    <3>2. live' \subseteq preview' \cup local' \cup screen'
      BY <1>3, <3>1
    <3> QED
      BY <1>6, <2>2, <3>2
  <2>5. CASE SwitchGranted(r)
    <3>1. PICK t \in New(r), k \in Kinds :
            /\ r.kinds = {k} /\ t.kind = k /\ Enabled(r, k)
            /\ r.old # NoTrack => local' = (local \ {r.old}) \cup {t}
      BY <1>4, <2>2, <2>5, Switched
    <3>2. \A u \in New(r) : u = t
      BY <3>1, NewTyped
    <3>3. r.use = "switch" /\ r.old \notin live /\ UNCHANGED <<preview, screen>>
      BY <2>2, <2>5 DEF SwitchGranted, Due
    <3>4. live' = live \cup {t}
      BY <3>1, <3>2 DEF Enabled
    <3> QED
      BY <1>3, <1>6, <2>2, <3>1, <3>3, <3>4
  <2>6. CASE SessionGranted(r)
    <3>1. local = {}
      BY <1>4, <2>2, <2>6 DEF SessionGranted, Due, Calm
    <3> QED
      BY <1>3, <1>6, <2>2, <2>6, <3>1 DEF SessionGranted
  <2>7. CASE ShareGranted(r)
    <3>1. screen = {}
      BY <1>4, <2>2, <2>7 DEF ShareGranted, Due, Calm
    <3> QED
      BY <1>3, <1>6, <2>2, <2>7, <3>1 DEF ShareGranted
  <2>8. CASE UnshareGranted(r)
    BY <2>2, <2>8 DEF UnshareGranted
  <2>9. CASE Refused(r)
    BY <1>3, <1>6, <2>2, <2>9 DEF Refused, CloseResources, page
  <2> QED
    BY <2>1, <2>3, <2>4, <2>5, <2>6, <2>7, <2>8, <2>9 DEF Granted
<1>18. CASE UNCHANGED vars
  BY <1>3, <1>6, <1>18 DEF vars, page
<1> QED
  BY <1>7, <1>8, <1>9, <1>10, <1>11, <1>12, <1>13, <1>14, <1>15, <1>16, <1>17, <1>18 DEF Next, Handler

-----------------------------------------------------------------------------
(* What is sent is running *)

\* No sender has a track of the preview, which the preview's own handlers stop.
Apart ==
  /\ \A k \in Kinds : sender[k] \notin preview
  /\ \A r \in pending : \A k \in Kinds : r.use = "swap" /\ r.old = sender[k] => r.old = NoTrack

Alive == Apart /\ SentIsAlive

LEMMA AliveInit == Init => Alive
BY DEF Init, Alive, Apart, SentIsAlive, NoSender

\* Senders keep their tracks, what is stopped is none of them, and no request
\* for a replacement is answered.
LEMMA AliveKept ==
  ASSUME Alive, sender' = sender, UNCHANGED refused,
         \A k \in Kinds : sender[k] \in live => sender[k] \in live',
         \A k \in Kinds : sender[k] \notin preview',
         \A r \in pending : r \in pending' \/ \A k \in Kinds : ~ Replaces(r, k),
         \A r \in pending' : r \in pending \/ r.use # "swap" \/ r.old = NoTrack \/ r.old \in preview
  PROVE  Alive'
<1>1. Apart'
  BY DEF Alive, Apart
<1>2. ASSUME NEW k \in Kinds
      PROVE  \/ sender[k] \in live' \cup {NoTrack}
             \/ \E r \in pending' : Replaces(r, k)
             \/ k \in refused
  BY DEF Alive, SentIsAlive
<1>3. \A r, k : Replaces(r, k) <=> Replaces(r, k)'
  BY DEF Replaces
<1> QED
  BY <1>1, <1>2, <1>3 DEF Alive, SentIsAlive

\* Without a call there is nothing to send.
LEMMA AliveClosed ==
  ASSUME TypeOK, CloseResources, pending' \subseteq pending
  PROVE  Alive'
<1>1. \A k \in Kinds : sender'[k] = NoTrack
  BY DEF CloseResources, NoSender
<1>2. preview' = {}
  BY DEF CloseResources
<1> QED
  BY <1>1, <1>2 DEF Alive, Apart, SentIsAlive

LEMMA AliveAsk ==
  ASSUME TypeOK, Requests, Alive, UNCHANGED refused,
         StartPreview \/ SwapPreviewMic \/ AskForSession \/ Share \/ Unshare
           \/ \E k \in Kinds : SwitchInput(k)
  PROVE  Alive'
<1>0. \A k \in Kinds : sender[k] \notin preview
  BY DEF Alive, Apart
<1>1. CASE StartPreview
  <2>1. sender' = sender /\ live' = live \ preview /\ preview' = {}
        /\ pending \subseteq pending' /\ \A r \in pending' : r \in pending \/ r.use # "swap"
    BY <1>1 DEF StartPreview, Ask
  <2> QED
    BY <1>0, <2>1, AliveKept
<1>2. CASE SwapPreviewMic
  <2> DEFINE old == First(preview, "audio")
  <2>1. old \in preview \cup {NoTrack}
    BY Typing, FirstTyped
  <2>2. Ask("swap", {"audio"}, old, {}) /\ UNCHANGED page
    BY <1>2 DEF SwapPreviewMic
  <2> HIDE DEF old
  <2>3. pending \subseteq pending' /\ \A r \in pending' : r \in pending \/ r.old = old
    BY <2>2 DEF Ask
  <2> QED
    BY <1>0, <2>1, <2>2, <2>3, AliveKept DEF page
<1>3. CASE AskForSession
  <2>1. sender' = sender /\ live' = live /\ preview' = preview
        /\ pending \subseteq pending' /\ \A r \in pending' : r \in pending \/ r.use # "swap"
    BY <1>3 DEF AskForSession, Ask
  <2> QED
    BY <1>0, <2>1, AliveKept
<1>4. CASE Share
  <2>1. UNCHANGED page
        /\ pending \subseteq pending' /\ \A r \in pending' : r \in pending \/ r.use # "swap"
    BY <1>4 DEF Share, Ask
  <2> QED
    BY <1>0, <2>1, AliveKept DEF page
<1>5. ASSUME NEW j \in Kinds, NEW q, pending' = pending \cup {q}, q.use # "swap", Replaces(q, j),
             sender' = sender, preview' = preview,
             \A k \in Kinds \ {j} : sender[k] \in live => sender[k] \in live'
      PROVE  Alive'
  <2>1. Apart'
    BY <1>5 DEF Alive, Apart
  <2>2. \A r, k : Replaces(r, k) <=> Replaces(r, k)'
    BY DEF Replaces
  <2>3. ASSUME NEW k \in Kinds, k # j
        PROVE  \/ sender[k] \in live' \cup {NoTrack}
               \/ \E r \in pending' : Replaces(r, k)
               \/ k \in refused
    BY <1>5, <2>3 DEF Alive, SentIsAlive
  <2>4. \E r \in pending' : Replaces(r, j)
    BY <1>5
  <2> QED
    BY <1>5, <2>1, <2>2, <2>3, <2>4 DEF Alive, SentIsAlive
<1>6. CASE Unshare
  <2> DEFINE q == Query("unshare", {"video"}, NoTrack)
  <2>1. pending' = pending \cup {q} /\ sender' = sender /\ preview' = preview /\ live' = live \ screen
    BY <1>6 DEF Unshare, Ask, Query
  <2>2. q.use # "swap" /\ Replaces(q, "video")
    BY DEF Query, Replaces
  <2> HIDE DEF q
  <2>3. sender["audio"] \notin screen
    BY DEF Requests, SenderKinds
  <2> QED
    BY <1>5, <2>1, <2>2, <2>3 DEF Kinds
<1>7. ASSUME NEW j \in Kinds, SwitchInput(j) PROVE Alive'
  <2> DEFINE old == First(local, j)
             q == Query("switch", {j}, old)
  <2>1. /\ pending' = pending \cup {q} /\ sender' = sender /\ preview' = preview
        /\ live' = live \ {old}
    BY <1>7 DEF SwitchInput, Ask, Query
  <2>2. q.use = "switch" /\ q.kinds = {j} /\ q.old = old
    BY DEF Query
  <2>3. old = NoTrack \/ old.kind = j
    BY Typing, FirstTyped
  <2> HIDE DEF old, q
  <2>4. CASE old = NoTrack
    <3>1. live' = live
      BY <2>1, <2>4, NotRunning
    <3> QED
      BY <1>0, <2>1, <2>2, <3>1, AliveKept
  <2>5. CASE old # NoTrack
    <3>1. Replaces(q, j)
      BY <2>2, <2>5 DEF Replaces
    <3>2. \A k \in Kinds \ {j} : sender[k] # old
      BY <2>3, <2>5 DEF Requests, SenderKinds, Kinds
    <3> QED
      BY <1>5, <2>1, <2>2, <3>1, <3>2
  <2> QED
    BY <2>4, <2>5
<1> QED
  BY <1>1, <1>2, <1>3, <1>4, <1>6, <1>7

\* A track that is granted now is in no sender, no preview and no request.
LEMMA Unseen ==
  ASSUME TypeOK, NEW r \in pending, NEW t \in New(r)
  PROVE  /\ t \notin preview /\ \A k \in Kinds : t # sender[k]
         /\ \A s \in pending : t # s.old
<1>1. t \notin Track \cup {NoTrack}
  BY NewTyped
<1>2. \A s \in pending : s.old \in Track \cup {NoTrack}
  BY Typing DEF Request
<1> QED
  BY <1>1, <1>2, Typing

LEMMA AliveAnswer ==
  ASSUME TypeOK, Requests, Alive, Answer
  PROVE  Alive'
<1>1. PICK r \in pending : pending' = pending \ {r} /\ (Granted(r) \/ Refused(r)) /\ UNCHANGED asked
  BY DEF Answer
<1>2. WellAsked(r)
  BY DEF Requests
<1>3. /\ \A k \in Kinds : sender[k] \notin preview
      /\ \A s \in pending : \A k \in Kinds : s.use = "swap" /\ s.old = sender[k] => s.old = NoTrack
  BY DEF Alive, Apart
<1>4. \A s, k : Replaces(s, k) <=> Replaces(s, k)'
  BY DEF Replaces
<1>5. \A k \in Kinds : \/ sender[k] \in live \cup {NoTrack}
                       \/ \E s \in pending : Replaces(s, k)
                       \/ k \in refused
  BY DEF Alive, SentIsAlive
\* What a grant has to keep: a sender that takes a track takes the new one,
\* and one whose replacement this was takes it.
<1>6. ASSUME \A k \in refused : Replaces(r, k) \/ k \in refused',
             live \subseteq live', New(r) \subseteq live', preview' = preview,
             \A k \in Kinds : \/ sender'[k] \in New(r) \cup {NoTrack}
                              \/ sender'[k] = sender[k] /\ ~ Replaces(r, k)
      PROVE  Alive'
  <2>1. ASSUME NEW k \in Kinds, sender'[k] \in New(r) \cup {NoTrack}
        PROVE  /\ sender'[k] \notin preview' /\ sender'[k] \in live' \cup {NoTrack}
               /\ \A s \in pending : s.old = sender'[k] => s.old = NoTrack
    <3>1. CASE sender'[k] = NoTrack
      <4>1. NoTrack \notin preview
        BY Typing DEF Track, NoTrack, Kinds
      <4> QED
        BY <1>6, <3>1, <4>1
    <3>2. CASE sender'[k] \in New(r)
      BY <1>6, <3>2, Unseen
    <3> QED
      BY <2>1, <3>1, <3>2
  <2>2. ASSUME NEW k \in Kinds, sender'[k] = sender[k], ~ Replaces(r, k)
        PROVE  /\ sender'[k] \notin preview'
               /\ \/ sender'[k] \in live' \cup {NoTrack}
                  \/ \E s \in pending' : Replaces(s, k)'
                  \/ k \in refused'
               /\ \A s \in pending : s.use = "swap" /\ s.old = sender'[k] => s.old = NoTrack
    BY <1>1, <1>3, <1>4, <1>5, <1>6, <2>2
  <2>3. Apart'
    BY <1>1, <1>6, <2>1, <2>2 DEF Apart
  <2>4. SentIsAlive'
    BY <1>6, <2>1, <2>2 DEF SentIsAlive
  <2> QED
    BY <2>3, <2>4 DEF Alive
<1>g. Granted(r) => \A k \in refused : Replaces(r, k) \/ k \in refused'
  BY DEF Granted
<1>8. CASE Granted(r) /\ PreviewGranted(r)
  <2>1. /\ sender' = sender /\ live' = live \cup New(r) /\ preview' = New(r) /\ r.use = "preview"
    BY <1>8 DEF PreviewGranted
  <2>3. refused' = refused /\ \A k \in Kinds : ~ Replaces(r, k)
    BY <1>8, <2>1 DEF Granted, Replaces
  <2>2. \A k \in Kinds : sender[k] \notin preview'
    BY <2>1, Unseen
  <2> QED
    BY <1>1, <2>1, <2>2, <2>3, AliveKept
<1>9. CASE Granted(r) /\ SwapGranted(r)
  <2>1. /\ sender' = sender /\ live' = (live \ {r.old}) \cup New(r)
        /\ preview' \subseteq preview \cup New(r) /\ r.use = "swap"
    BY <1>9 DEF SwapGranted
  <2>4. refused' = refused /\ \A k \in Kinds : ~ Replaces(r, k)
    BY <1>9, <2>1 DEF Granted, Replaces
  <2>2. \A k \in Kinds : sender[k] \notin preview'
    BY <1>3, <2>1, Unseen
  <2>3. \A k \in Kinds : sender[k] \in live => sender[k] \in live'
    BY <1>3, <2>1, NotRunning
  <2> QED
    BY <1>1, <2>1, <2>2, <2>3, <2>4, AliveKept
<1>10. CASE Granted(r) /\ SwitchGranted(r)
  <2>1. PICK t \in New(r) :
          /\ Enabled(r, t.kind)
          /\ IF r.old = NoTrack THEN UNCHANGED <<local, sender>>
             ELSE local' = (local \ {r.old}) \cup {t} /\ sender' = Replace(t.kind, t)
    BY <1>10 DEF SwitchGranted
  <2>2. PICK j \in Kinds : r.kinds = {j} /\ t.kind = j
    BY <1>2, <1>10, NewTyped DEF SwitchGranted, WellAsked
  <2>3. r.use = "switch" /\ preview' = preview /\ live' = live \cup New(r)
    BY <1>10, <2>1 DEF SwitchGranted, Enabled
  <2>4. ASSUME NEW k \in Kinds
        PROVE  \/ sender'[k] \in New(r) \cup {NoTrack}
               \/ sender'[k] = sender[k] /\ ~ Replaces(r, k)
    <3>1. CASE r.old = NoTrack
      BY <2>1, <2>3, <3>1 DEF Replaces
    <3>2. CASE r.old # NoTrack
      <4>1. sender' = Replace(j, t)
        BY <2>1, <2>2, <3>2
      <4>2. CASE k = j
        BY <4>1, <4>2, Replaced
      <4>3. CASE k # j
        <5>1. sender'[k] = sender[k]
          BY <4>1, <4>3, Replaced
        <5>2. ~ Replaces(r, k)
          BY <2>2, <2>3, <4>3 DEF Replaces
        <5> QED
          BY <5>1, <5>2
      <4> QED
        BY <4>2, <4>3
    <3> QED
      BY <3>1, <3>2
  <2> QED
    <3>1. live \subseteq live' /\ New(r) \subseteq live'
      BY <2>3
    <3> QED
      BY <1>6, <1>10, <1>g, <2>3, <2>4, <3>1
<1>11. CASE Granted(r) /\ SessionGranted(r)
  <2>1. /\ preview' = preview /\ live' = live \cup New(r)
        /\ \A k \in Kinds : sender'[k] = First(New(r), k)
    BY <1>11 DEF SessionGranted
  <2> QED
    <3>1. live \subseteq live' /\ New(r) \subseteq live'
      BY <2>1
    <3>2. \A k \in Kinds : sender'[k] \in New(r) \cup {NoTrack}
      BY <2>1, FirstNew
    <3> QED
      BY <1>6, <1>11, <1>g, <2>1, <3>1, <3>2
<1>12. ASSUME NEW t \in New(r) \cup {NoTrack}, Granted(r), r.use \in {"share", "unshare"},
              sender' = Replace("video", t), preview' = preview, live' = live \cup New(r)
       PROVE  Alive'
  <2>1. ASSUME NEW k \in Kinds
        PROVE  \/ sender'[k] \in New(r) \cup {NoTrack}
               \/ sender'[k] = sender[k] /\ ~ Replaces(r, k)
    <3>1. CASE k = "video"
      BY <1>12, <3>1, Replaced
    <3>2. CASE k # "video"
      <4>1. sender'[k] = sender[k]
        BY <1>12, <3>2, Replaced DEF Kinds
      <4>2. ~ Replaces(r, k)
        BY <1>12, <3>2 DEF Replaces
      <4> QED
        BY <4>1, <4>2
    <3> QED
      BY <3>1, <3>2
  <2> QED
    <3>1. live \subseteq live' /\ New(r) \subseteq live'
      BY <1>12
    <3> QED
      BY <1>6, <1>12, <1>g, <2>1, <3>1
<1>13. CASE Granted(r) /\ ShareGranted(r)
  <2> DEFINE t == First(New(r), "screen")
  <2>1. t \in New(r) \cup {NoTrack}
    BY FirstNew
  <2>2. sender' = Replace("video", t) /\ preview' = preview /\ live' = live \cup New(r) /\ r.use = "share"
    BY <1>13 DEF ShareGranted
  <2> HIDE DEF t
  <2> QED
    BY <1>12, <1>13, <2>1, <2>2
<1>14. CASE Granted(r) /\ UnshareGranted(r)
  <2> DEFINE t == First(New(r), "video")
  <2>1. t \in New(r) \cup {NoTrack}
    BY FirstNew
  <2>2. sender' = Replace("video", t) /\ preview' = preview /\ live' = live \cup New(r) /\ r.use = "unshare"
    BY <1>14 DEF UnshareGranted, Enabled
  <2> HIDE DEF t
  <2> QED
    BY <1>12, <1>14, <2>1, <2>2
<1>15. CASE Refused(r) /\ r.use = "session"
  <2>1. CloseResources /\ pending' \subseteq pending
    BY <1>1, <1>15 DEF Refused
  <2> QED
    BY <2>1, AliveClosed
<1>16. CASE Refused(r) /\ r.use # "session"
  <2>1. UNCHANGED page /\ refused' = refused \cup {k \in Kinds : Replaces(r, k)}
    BY <1>16 DEF Refused
  <2>2. Apart'
    BY <1>1, <1>3, <2>1 DEF Apart, page
  <2>3. ASSUME NEW k \in Kinds
        PROVE  \/ sender[k] \in live \cup {NoTrack}
               \/ \E s \in pending' : Replaces(s, k)
               \/ k \in refused'
    BY <1>1, <1>5, <2>1
  <2> QED
    BY <1>4, <2>1, <2>2, <2>3 DEF Alive, SentIsAlive, page
<1> QED
  BY <1>1, <1>8, <1>9, <1>10, <1>11, <1>13, <1>14, <1>15, <1>16 DEF Granted

LEMMA AliveStep ==
  ASSUME TypeOK, Requests, Alive, [Next]_vars
  PROVE  Alive'
<1>0. \A k \in Kinds : sender[k] \notin preview
  BY DEF Alive, Apart
<1>1. CASE UNCHANGED refused /\ (StartPreview \/ SwapPreviewMic \/ AskForSession \/ Share \/ Unshare
             \/ \E k \in Kinds : SwitchInput(k))
  BY <1>1, AliveAsk
<1>2. CASE StartSession /\ UNCHANGED refused
  <2>1. UNCHANGED <<sender, pending>> /\ live' = live \ preview /\ preview' = {}
    BY <1>2 DEF StartSession
  <2> QED
    BY <1>0, <1>2, <2>1, AliveKept
<1>3. CASE SessionFails
  BY <1>3, AliveClosed DEF SessionFails
<1>4. CASE UNCHANGED refused /\ \E k \in Kinds : TogglePrecall(k) \/ ToggleTrack(k)
  <2>1. UNCHANGED <<sender, pending, live, preview>>
    BY <1>4 DEF TogglePrecall, ToggleTrack
  <2> QED
    BY <1>0, <1>4, <2>1, AliveKept
<1>5. CASE Answer
  BY <1>5, AliveAnswer
<1>6. CASE UNCHANGED vars
  BY <1>0, <1>6, AliveKept DEF vars, page
<1> QED
  BY <1>1, <1>2, <1>3, <1>4, <1>5, <1>6 DEF Next, Handler

-----------------------------------------------------------------------------
(* Off is off *)

\* The sender of k has what the toggle of k switches, or the screen; the
\* microphone of a call goes without a toggle once a share has ended.
Follows(k) ==
  \/ sender[k] = NoTrack
  \/ sender[k] = First(local, k)
  \/ sender[k].kind = "screen"
  \/ First(local, k) = NoTrack /\ k = "audio" /\ "share ended" \in mishaps

Quiet(k) ==
  ~wants[k] => \/ sender[k] \notin live \cap on
               \/ sender[k].kind = "screen"
               \/ k = "audio" /\ "share ended" \in mishaps /\ "clicked in vain" \in mishaps

OffMishaps == {"replaced while off", "pre-call toggle after start", "overlap"}

Silent ==
  ~ Unless(OffMishaps) =>
    /\ phase # "call" => wants = chosen
    /\ \A r \in pending : r.use = "session" => r.kinds = Chosen
    /\ \A k \in Kinds : Follows(k) /\ Quiet(k)

LEMMA SilentInit == Init => Silent
BY DEF Init, Silent, Follows, Quiet, NoSender

\* A step that leaves senders, the local stream and the choices alone, and
\* starts no track a sender has.
LEMMA SilentKept ==
  ASSUME TypeOK, Silent, ~ Unless(OffMishaps), mishaps \subseteq mishaps',
         UNCHANGED <<local, sender, wants, chosen>>,
         phase = "call" => phase' = "call",
         \A k \in Kinds : sender[k] \in live' \cap on' => sender[k] \in live \cap on,
         \A r \in pending' : r \in pending \/ (r.use = "session" => r.kinds = Chosen)
  PROVE  Silent'
<1>1. \A k \in Kinds : (Follows(k) => Follows(k)') /\ (Quiet(k) => Quiet(k)')
  BY DEF Follows, Quiet
<1>2. Chosen' = Chosen
  BY DEF Chosen
<1>3. phase' # "call" => wants' = chosen'
  BY DEF Silent
<1> QED
  BY <1>1, <1>2, <1>3 DEF Silent

LEMMA SilentAsk ==
  ASSUME TypeOK, Silent, ~ Unless(OffMishaps), "overlap" \notin mishaps', mishaps \subseteq mishaps',
         StartPreview \/ SwapPreviewMic \/ AskForSession \/ Share \/ Unshare
           \/ \E k \in Kinds : SwitchInput(k)
  PROVE  Silent'
<1>1. ASSUME UNCHANGED <<local, sender, wants, chosen, on>>, live' \subseteq live,
             phase = "call" => phase' = "call",
             NEW q, pending' \subseteq pending \cup {q}, q.use = "session" => q.kinds = Chosen
      PROVE  Silent'
  BY <1>1, SilentKept
<1>2. CASE StartPreview
  <2>1. UNCHANGED <<local, sender, wants, chosen, on, phase>> /\ live' \subseteq live
    BY <1>2 DEF StartPreview
  <2>2. CASE Chosen = {}
    <3>1. pending' = pending
      BY <1>2, <2>2 DEF StartPreview
    <3> QED
      BY <2>1, <3>1, SilentKept
  <2>3. CASE Chosen # {}
    <3>1. Ask("preview", Chosen, NoTrack, {})
      BY <1>2, <2>3 DEF StartPreview
    <3>2. PICK q : pending' = {q} /\ q.use = "preview"
      BY <3>1, AsksAlone
    <3> QED
      BY <1>1, <2>1, <3>2
  <2> QED
    BY <2>2, <2>3
<1>3. CASE SwapPreviewMic
  <2> DEFINE old == First(preview, "audio")
  <2>1. Ask("swap", {"audio"}, old, {}) /\ UNCHANGED <<page, wants>>
    BY <1>3 DEF SwapPreviewMic
  <2> HIDE DEF old
  <2>2. PICK q : pending' = {q} /\ q.use = "swap"
    BY <2>1, AsksAlone
  <2> QED
    BY <1>1, <2>1, <2>2 DEF page
<1>4. CASE AskForSession
  <2>1. Ask("session", Chosen, NoTrack, {}) /\ phase = "config"
        /\ UNCHANGED <<local, sender, wants, chosen, on, live>>
    BY <1>4 DEF AskForSession
  <2>2. PICK q : pending' = {q} /\ q.kinds = Chosen
    BY <2>1, AsksAlone
  <2> QED
    BY <1>1, <2>1, <2>2
<1>5. CASE Share
  <2>1. Ask("share", {"screen"}, NoTrack, {}) /\ UNCHANGED <<page, wants>>
    BY <1>5 DEF Share
  <2>2. PICK q : pending' = {q} /\ q.use = "share"
    BY <2>1, AsksAlone
  <2> QED
    BY <1>1, <2>1, <2>2 DEF page
<1>6. CASE Unshare
  <2> DEFINE also == {"share ended"}
  <2>1. Ask("unshare", {"video"}, NoTrack, also)
    BY <1>6 DEF Unshare
  <2> HIDE DEF also
  <2>2. PICK q : pending' = {q} /\ q.use = "unshare"
    BY <2>1, AsksAlone
  <2>3. UNCHANGED <<local, sender, wants, chosen, on, phase>> /\ live' \subseteq live
    BY <1>6 DEF Unshare
  <2> QED
    BY <1>1, <2>2, <2>3
<1>7. ASSUME NEW k \in Kinds, SwitchInput(k) PROVE Silent'
  <2>1. PICK q : pending' = {q} /\ q.use = "switch"
    BY <1>7, SwitchAlone
  <2>2. UNCHANGED <<local, sender, wants, chosen, on, phase>> /\ live' \subseteq live
    BY <1>7 DEF SwitchInput
  <2> QED
    BY <1>1, <2>1, <2>2
<1> QED
  BY <1>2, <1>3, <1>4, <1>5, <1>6, <1>7

\* A toggle switches the track that is sent.
LEMMA SilentToggle ==
  ASSUME TypeOK, SenderKinds, Silent, ~ Unless(OffMishaps), NEW k \in Kinds, ToggleTrack(k)
  PROVE  Silent'
<1> DEFINE t == First(local, k)
<1>1. /\ phase = "call" /\ mishaps \subseteq mishaps'
      /\ on' = IF t = NoTrack THEN on ELSE (on \ {t}) \cup ({t} \ on)
      /\ wants' = [wants EXCEPT ![k] = IF t = NoTrack THEN ~ wants[k] ELSE t \notin on]
      /\ t = NoTrack => "clicked in vain" \in mishaps'
      /\ UNCHANGED <<phase, chosen, local, sender, live, pending>>
  BY DEF ToggleTrack
<1>2. t = NoTrack \/ t.kind = k
  BY Typing, FirstTyped
<1>3. \A j \in Kinds : Follows(j) /\ Quiet(j)
  BY DEF Silent
<1>4. \A j \in Kinds : Follows(j)'
  BY <1>1, <1>3 DEF Follows
<1>5. Quiet(k)'
  <2>1. wants'[k] = IF t = NoTrack THEN ~ wants[k] ELSE t \notin on
    BY <1>1, Typing
  <2>2. CASE sender[k] = NoTrack
    BY <1>1, <2>2, NotRunning DEF Quiet
  <2>3. CASE sender[k] = t /\ t # NoTrack
    BY <1>1, <2>1, <2>3 DEF Quiet
  <2>4. CASE sender[k].kind = "screen"
    BY <1>1, <2>4 DEF Quiet
  <2>5. CASE t = NoTrack /\ k = "audio" /\ "share ended" \in mishaps
    BY <1>1, <2>5 DEF Quiet
  <2> QED
    BY <1>1, <1>3, <2>2, <2>3, <2>4, <2>5 DEF Follows
<1>6. ASSUME NEW j \in Kinds, j # k PROVE Quiet(j)'
  <2>1. wants'[j] = wants[j]
    BY <1>1, <1>6, Typing
  <2>2. t # NoTrack => sender[j] # t
    BY <1>2, <1>6 DEF SenderKinds, Kinds
  <2> HIDE DEF t
  <2>3. sender[j] \in on' => sender[j] \in on
    BY <1>1, <2>2
  <2> QED
    BY <1>1, <1>3, <2>1, <2>3 DEF Quiet
<1>7. \A r \in pending' : r.use = "session" => r.kinds = Chosen'
  BY <1>1 DEF Silent, Chosen
<1> QED
  BY <1>1, <1>4, <1>5, <1>6, <1>7 DEF Silent

\* Before the call a toggle is all there is.
LEMMA SilentPrecall ==
  ASSUME TypeOK, Alone, Silent, ~ Unless(OffMishaps)', NEW k \in Kinds, TogglePrecall(k)
  PROVE  Silent'
<1>1. /\ phase = "precall" /\ "overlap" \notin mishaps
      /\ UNCHANGED <<phase, local, sender, live, pending>>
  BY DEF TogglePrecall, Unless, OffMishaps
<1>2. wants = chosen
  BY <1>1 DEF Silent, TogglePrecall, Unless, OffMishaps
<1>3. wants' = chosen'
  BY <1>2, Typing DEF TogglePrecall
<1>4. sender = NoSender /\ \A r \in pending : r.use # "session"
  BY <1>1 DEF Alone, Calm, Due
<1>5. \A j \in Kinds : sender'[j] = NoTrack
  BY <1>1, <1>4 DEF NoSender
<1>6. NoTrack \notin live'
  BY <1>1, NotRunning
<1>7. \A j \in Kinds : Follows(j)' /\ Quiet(j)'
  BY <1>5, <1>6 DEF Follows, Quiet
<1> QED
  BY <1>1, <1>3, <1>4, <1>7 DEF Silent

\* Without a call nothing is sent.
LEMMA SilentClosed ==
  ASSUME TypeOK, Silent, ~ Unless(OffMishaps), phase # "call", CloseResources, pending' = {}
  PROVE  Silent'
<1>1. wants' = chosen'
  BY DEF Silent, CloseResources
<1>2. \A j \in Kinds : sender'[j] = NoTrack
  BY DEF CloseResources, NoSender
<1>3. NoTrack \notin live'
  BY NotRunning DEF CloseResources
<1>4. \A j \in Kinds : Follows(j)' /\ Quiet(j)'
  BY <1>2, <1>3 DEF Follows, Quiet
<1> QED
  BY <1>1, <1>4 DEF Silent

\* An answer in a call or before it, once the session is not what is granted.
LEMMA SilentInCall ==
  ASSUME phase' = "call", pending' = {}, \A k \in Kinds : Follows(k)' /\ Quiet(k)'
  PROVE  Silent'
BY DEF Silent

\* A track nobody had is not the one a sender has.
LEMMA QuietKept ==
  ASSUME TypeOK, Requests, NEW r \in pending, NEW k \in Kinds, Quiet(k),
         sender'[k] = sender[k], wants'[k] = wants[k], mishaps \subseteq mishaps',
         live' \subseteq live \cup New(r), on' \subseteq on \cup New(r)
  PROVE  Quiet(k)'
<1>1. sender[k] \notin New(r)
  BY Unseen
<1> QED
  BY <1>1 DEF Quiet

LEMMA SilentAnswer ==
  ASSUME TypeOK, TypeOK', Requests, Alone, Silent, ~ Unless(OffMishaps)', Answer
  PROVE  Silent'
<1>1. PICK r \in pending : pending' = pending \ {r} /\ (Granted(r) \/ Refused(r)) /\ UNCHANGED asked
  BY DEF Answer
<1>2. mishaps \subseteq mishaps'
  BY Remembered DEF Next
<1>3. "overlap" \notin mishaps /\ ~ Unless(OffMishaps) /\ "replaced while off" \notin mishaps'
  BY <1>2 DEF Unless, OffMishaps
<1>4. Calm /\ Due(r) /\ WellAsked(r) /\ pending' = {}
  BY <1>1, <1>3 DEF Alone, Requests
<1>5. /\ phase # "call" => wants = chosen
      /\ r.use = "session" => r.kinds = Chosen
      /\ \A k \in Kinds : Follows(k) /\ Quiet(k)
  BY <1>3 DEF Silent
<1>6. UNCHANGED <<wants, chosen>>
  BY <1>1, Answered
<1>7. CASE PreviewGranted(r) \/ SwapGranted(r)
  <2>1. /\ UNCHANGED <<phase, local, sender>>
        /\ live' \subseteq live \cup New(r) /\ on' \subseteq on \cup New(r)
    BY <1>7 DEF PreviewGranted, SwapGranted
  <2>2. \A k \in Kinds : Quiet(k)'
    BY <1>2, <1>5, <1>6, <2>1, QuietKept
  <2>3. \A k \in Kinds : Follows(k)'
    BY <1>2, <1>5, <2>1 DEF Follows
  <2> QED
    BY <1>4, <1>5, <1>6, <2>1, <2>2, <2>3 DEF Silent
<1>8. CASE SwitchGranted(r)
  <2>1. PICK t \in New(r), j \in Kinds :
          /\ r.kinds = {j} /\ t.kind = j /\ Enabled(r, j) /\ r.old = First(local, j)
          /\ r.old = NoTrack => UNCHANGED <<local, sender>>
          /\ r.old # NoTrack =>
               /\ r.old \in local /\ local' = (local \ {r.old}) \cup {t}
               /\ \A u \in local : u.kind = j => u = r.old
               /\ sender' = Replace(j, t)
    BY <1>4, <1>8, Switched
  <2>2. phase' = "call"
    BY <1>4, <1>8 DEF SwitchGranted, Due
  <2>3. live' \subseteq live \cup New(r) /\ on' \subseteq on \cup New(r) /\ wants[j]
    BY <1>3, <2>1 DEF Enabled
  <2>4. Quiet(j)'
    BY <1>6, <2>3 DEF Quiet
  <2>5. r.old # NoTrack => r.old.kind = j
    BY <2>1, Typing, FirstTyped
  <2>6. Follows(j)'
    <3>1. CASE r.old = NoTrack
      BY <1>2, <1>5, <2>1, <3>1 DEF Follows
    <3>2. CASE r.old # NoTrack
      <4>1. t \in local' /\ \A u \in local' : u.kind = j => u = t
        BY <2>1, <3>2
      <4>2. \A u \in local' : u.grant \in Nat /\ u.kind # "none"
        BY Typing, NewTyped, <2>1, <3>2 DEF Track, NextTrack, Kinds
      <4>3. First(local', j) = t
        BY <2>1, <4>1, <4>2, FirstOfOne
      <4>4. sender'[j] \in {sender[j], t} /\ (sender'[j] = sender[j] => sender[j] \in {NoTrack, t})
        BY <2>1, <3>2, Typing DEF Replace
      <4> QED
        BY <4>3, <4>4 DEF Follows
    <3> QED
      BY <3>1, <3>2
  <2>7. ASSUME NEW k \in Kinds, k # j PROVE Follows(k)' /\ Quiet(k)'
    <3>1. sender'[k] = sender[k]
      BY <2>1, <2>7, Typing DEF Replace
    <3>2. {u \in local' : u.kind = k} = {u \in local : u.kind = k}
      BY <2>1, <2>5, <2>7
    <3>3. First(local', k) = First(local, k)
      BY <3>2, FirstOfSame
    <3>4. Quiet(k)'
      BY <1>2, <1>5, <1>6, <2>3, <3>1, QuietKept
    <3>5. Follows(k)'
      BY <1>2, <1>5, <3>1, <3>3 DEF Follows
    <3> QED
      BY <3>4, <3>5
  <2> QED
    BY <1>4, <2>2, <2>4, <2>6, <2>7, SilentInCall
<1>9. CASE SessionGranted(r)
  <2>1. /\ phase' = "call" /\ local' = New(r) /\ r.kinds = Chosen /\ wants = chosen
        /\ \A k \in Kinds : sender'[k] = First(local', k)
    BY <1>4, <1>5, <1>9 DEF SessionGranted, Due
  <2>2. ASSUME NEW k \in Kinds, ~ wants[k] PROVE sender'[k] = NoTrack
    <3>1. k \notin r.kinds
      BY <2>1, <2>2 DEF Chosen
    <3>2. \A t \in New(r) : t.kind # k
      BY <3>1, NewTyped
    <3> QED
      BY <2>1, <3>2, FirstOfNone
  <2>3. NoTrack \notin live'
    BY <1>9, NotRunning, NewTyped DEF SessionGranted
  <2>4. \A k \in Kinds : Quiet(k)'
    BY <1>6, <2>2, <2>3 DEF Quiet
  <2>5. \A k \in Kinds : Follows(k)'
    BY <2>1 DEF Follows
  <2> QED
    BY <1>4, <2>1, <2>4, <2>5, SilentInCall
<1>10. CASE ShareGranted(r)
  <2>1. /\ phase' = "call" /\ UNCHANGED local
        /\ live' \subseteq live \cup New(r) /\ on' \subseteq on \cup New(r)
        /\ sender' = Replace("video", First(New(r), "screen"))
    BY <1>4, <1>10 DEF ShareGranted, Due
  <2>2. First(New(r), "screen").kind = "screen"
    <3>1. [grant |-> grants + 1, kind |-> "screen"] \in New(r)
      BY <1>4, <1>10, NewTyped DEF ShareGranted, WellAsked
    <3>2. \A t \in New(r) : t.grant \in Nat /\ t.kind # "none"
      BY NewTyped, Typing DEF NextTrack, Kinds
    <3> QED
      BY <3>1, <3>2, FirstGives
  <2>3. sender'["audio"] = sender["audio"]
    BY <2>1, Typing DEF Replace, Kinds
  <2>4. Follows("audio")' /\ Quiet("audio")'
    <3>1. Quiet("audio")'
      BY <1>2, <1>5, <1>6, <2>1, <2>3, QuietKept DEF Kinds
    <3> QED
      BY <1>2, <1>5, <2>1, <2>3, <3>1 DEF Follows, Kinds
  <2>5. sender'["video"] = NoTrack \/ sender'["video"].kind = "screen"
    BY <2>1, <2>2, Typing DEF Replace, Kinds
  <2>6. NoTrack \notin live'
    BY <1>10, NotRunning, NewTyped DEF ShareGranted
  <2>7. Follows("video")' /\ Quiet("video")'
    BY <2>5, <2>6 DEF Follows, Quiet
  <2> QED
    BY <1>4, <2>1, <2>4, <2>7, SilentInCall DEF Kinds
<1>11. CASE UnshareGranted(r)
  <2>1. /\ phase' = "call" /\ local' = New(r) /\ wants["video"]
        /\ live' \subseteq live \cup New(r) /\ on' \subseteq on \cup New(r)
        /\ sender' = Replace("video", First(New(r), "video"))
    BY <1>3, <1>4, <1>11 DEF UnshareGranted, Enabled, Due
  <2>2. sender'["audio"] = sender["audio"]
    BY <2>1, Typing DEF Replace, Kinds
  <2>3. Quiet("audio")'
    BY <1>2, <1>5, <1>6, <2>1, <2>2, QuietKept DEF Kinds
  <2>4. \A t \in New(r) : t.kind # "audio"
    BY <1>4, <1>11, NewTyped DEF UnshareGranted, WellAsked
  <2>s. "share ended" \in mishaps'
    BY <1>2, <1>11 DEF UnshareGranted, Requests
  <2>5. Follows("audio")'
    BY <2>1, <2>4, <2>s, FirstOfNone DEF Follows
  <2>6. sender'["video"] \in {NoTrack, First(local', "video")}
    BY <2>1, Typing DEF Replace, Kinds
  <2>7. Follows("video")' /\ Quiet("video")'
    BY <1>6, <2>1, <2>6 DEF Follows, Quiet
  <2> QED
    BY <1>4, <2>1, <2>3, <2>5, <2>7, SilentInCall DEF Kinds
<1>12. CASE Refused(r) /\ r.use = "session"
  <2>1. CloseResources /\ phase # "call"
    BY <1>4, <1>12 DEF Refused, Due
  <2> QED
    BY <1>3, <1>4, <2>1, SilentClosed
<1>13. CASE Refused(r) /\ r.use # "session"
  <2>1. UNCHANGED <<page, wants>>
    BY <1>13 DEF Refused
  <2> QED
    BY <1>2, <1>3, <1>4, <2>1, SilentKept DEF page
<1> QED
  BY <1>1, <1>7, <1>8, <1>9, <1>10, <1>11, <1>12, <1>13 DEF Granted

LEMMA SilentStep ==
  ASSUME TypeOK, TypeOK', Requests, Alone, Silent, [Next]_vars
  PROVE  Silent'
<1> SUFFICES ASSUME ~ Unless(OffMishaps)' PROVE Silent'
  BY DEF Silent
<1>1. mishaps \subseteq mishaps'
  BY Remembered
<1>2. ~ Unless(OffMishaps) /\ "overlap" \notin mishaps'
  BY <1>1 DEF Unless, OffMishaps
<1>3. CASE StartPreview \/ SwapPreviewMic \/ AskForSession \/ Share \/ Unshare
             \/ \E k \in Kinds : SwitchInput(k)
  BY <1>1, <1>2, <1>3, SilentAsk
<1>4. CASE StartSession
  <2>1. /\ UNCHANGED <<local, sender, wants, chosen, on, pending>>
        /\ phase = "precall" /\ live' \subseteq live
    BY <1>4 DEF StartSession
  <2> QED
    BY <1>1, <1>2, <2>1, SilentKept
<1>5. CASE SessionFails
  <2>1. CloseResources /\ phase # "call" /\ pending' = pending /\ pending = {}
    BY <1>2, <1>5 DEF SessionFails, Overlap
  <2> QED
    BY <1>2, <2>1, SilentClosed
<1>6. ASSUME NEW k \in Kinds, TogglePrecall(k) PROVE Silent'
  BY <1>6, SilentPrecall
<1>7. ASSUME NEW k \in Kinds, ToggleTrack(k) PROVE Silent'
  BY <1>2, <1>7, SilentToggle DEF Requests
<1>8. CASE Answer
  BY <1>8, SilentAnswer
<1>9. CASE UNCHANGED vars
  BY <1>1, <1>2, <1>9, SilentKept DEF vars, page
<1> QED
  BY <1>3, <1>4, <1>5, <1>6, <1>7, <1>8, <1>9 DEF Next, Handler

-----------------------------------------------------------------------------
(* Theorems *)

IInv == TypeOK /\ Requests /\ Alone /\ Streams /\ Alive /\ Silent

\* IInv is inductive: requests and their answers stay apart, and without
\* overlap each of the three promises is kept by every handler.
THEOREM Inductive == Spec => []IInv
<1>1. Init => IInv
  BY TypeInit, RequestsInit, AloneInit, StreamsInit, AliveInit, SilentInit DEF IInv
<1>2. IInv /\ [Next]_vars => IInv'
  <2> SUFFICES ASSUME IInv, [Next]_vars PROVE IInv'
    OBVIOUS
  <2>1. TypeOK /\ Requests /\ Alone /\ Streams /\ Alive /\ Silent
    BY DEF IInv
  <2>2. TypeOK'
    BY <2>1, TypeStep
  <2>3. Requests'
    BY <2>1, RequestsStep
  <2>4. Alone'
    BY <2>1, AloneStep
  <2>5. Streams'
    BY <2>1, StreamsStep
  <2>6. Alive'
    BY <2>1, AliveStep
  <2>7. Silent'
    BY <2>1, <2>2, SilentStep
  <2> QED
    BY <2>2, <2>3, <2>4, <2>5, <2>6, <2>7 DEF IInv
<1> QED
  BY <1>1, <1>2, PTL DEF Spec

\* The streams, the senders and the running and enabled tracks are of tracks
\* that were granted, and every request is one a handler of ui.go 3975-4455
\* makes.
THEOREM TypeCorrect == Spec => []TypeOK
<1>1. IInv => TypeOK
  BY DEF IInv
<1> QED
  BY <1>1, Inductive, PTL

\* Every running track is in a stream that will be stopped, unless requests
\* overlapped, a share ended, or there was nothing to replace.
THEOREM AlwaysNothingLeftRunning == Spec => []NothingLeftRunning
<1>1. IInv => NothingLeftRunning
  BY DEF IInv, Streams, NothingLeftRunning
<1> QED
  BY <1>1, Inductive, PTL

\* What the user switched off sends nothing, unless it was replaced meanwhile,
\* the pre-call toggle was used late, or requests overlapped, or a click on the
\* button of the microphone was in vain once a share had ended.
THEOREM AlwaysOffMeansOff == Spec => []OffMeansOff
<1>1. IInv => OffMeansOff
  BY DEF IInv, Silent, Quiet, OffMishaps, OffMeansOff, Unless
<1> QED
  BY <1>1, Inductive, PTL

\* The peer is not left with a track that has ended, however requests overlap,
\* unless the last request for another was refused.
THEOREM AlwaysSentIsAlive == Spec => []SentIsAlive
<1>1. IInv => SentIsAlive
  BY DEF IInv, Alive
<1> QED
  BY <1>1, Inductive, PTL
=============================================================================
