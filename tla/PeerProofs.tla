----------------------------- MODULE PeerProofs -----------------------------
(***************************************************************************)
(* Proofs about one peer, for any number of senders, any buffer size and   *)
(* any number of Enqueue calls.                                            *)
(***************************************************************************)
EXTENDS Peer, SequenceTheorems, TLAPS

\* No step breaks the types.
LEMMA TypeStep == TypeOK /\ [Next]_vars => TypeOK'
<1> SUFFICES ASSUME TypeOK, [Next]_vars PROVE TypeOK'
  OBVIOUS
<1>1. ASSUME NEW s \in Senders, EnqueueCheck(s) PROVE TypeOK'
  <2>1. calls[s] + 1 \in 1..MaxSends
    BY <1>1, PeerAssumption DEF EnqueueCheck, TypeOK
  <2>2. calls' \in [Senders -> 0..MaxSends]
    BY <1>1, <2>1 DEF EnqueueCheck, TypeOK
  <2>3. refused' \subseteq Payloads
    BY <1>1, <2>1 DEF EnqueueCheck, TypeOK, Payloads
  <2>4. checked' \in [Senders -> BOOLEAN] /\ \A t \in Senders : checked'[t] => calls'[t] > 0
    <3>1. calls'[s] > 0 /\ \A t \in Senders \ {s} : calls'[t] = calls[t]
      BY <1>1, <2>1 DEF EnqueueCheck, TypeOK
    <3>2. checked' = checked \/ checked' = [checked EXCEPT ![s] = TRUE]
      BY <1>1 DEF EnqueueCheck
    <3>3. \A t \in Senders \ {s} : checked'[t] = checked[t]
      BY <3>2 DEF TypeOK
    <3>4. checked' \in [Senders -> BOOLEAN]
      BY <3>2 DEF TypeOK
    <3> QED
      BY <3>1, <3>3, <3>4 DEF TypeOK
  <2> QED
    BY <1>1, <2>2, <2>3, <2>4 DEF EnqueueCheck, TypeOK
<1>2. ASSUME NEW s \in Senders, EnqueueTry(s) PROVE TypeOK'
  <2> DEFINE payload == <<s, calls[s]>>
  <2>1. payload \in Payloads
    BY <1>2, PeerAssumption DEF EnqueueTry, TypeOK, Payloads
  <2> HIDE DEF payload
  <2>2. /\ \/ send' = send /\ accepted' = accepted
           \/ /\ Len(send) < Buffer
              /\ send' = Append(send, payload)
              /\ accepted' = Append(accepted, payload)
        /\ refused' \subseteq refused \cup {payload}
        /\ late' \subseteq late \cup {payload}
        /\ dead' \in {TRUE, dead}
    BY <1>2 DEF EnqueueTry, payload
  <2>3. send' \in Seq(Payloads) /\ Len(send') <= Buffer /\ accepted' \in Seq(Payloads)
    <3>1. Append(send, payload) \in Seq(Payloads) /\ Append(accepted, payload) \in Seq(Payloads)
      BY <2>1 DEF TypeOK
    <3>2. Len(Append(send, payload)) = Len(send) + 1 /\ Len(send) \in Nat
      BY <2>1 DEF TypeOK
    <3>3. CASE send' = send /\ accepted' = accepted
      BY <3>3 DEF TypeOK
    <3>4. CASE /\ Len(send) < Buffer
               /\ send' = Append(send, payload)
               /\ accepted' = Append(accepted, payload)
      BY <3>1, <3>2, <3>4, PeerAssumption
    <3> QED
      BY <2>2, <3>3, <3>4
  <2>4. refused' \subseteq Payloads /\ late' \subseteq Payloads /\ dead' \in BOOLEAN
    BY <2>1, <2>2 DEF TypeOK
  <2>5. checked' \in [Senders -> BOOLEAN] /\ \A t \in Senders : checked'[t] => calls'[t] > 0
    BY <1>2 DEF EnqueueTry, TypeOK
  <2> QED
    BY <1>2, <2>3, <2>4, <2>5 DEF EnqueueTry, TypeOK
<1>3. CASE Kill
  BY <1>3 DEF Kill, TypeOK
<1>4. CASE PumpTake
  <2>1. Head(send) \in Payloads /\ Tail(send) \in Seq(Payloads) /\ Len(Tail(send)) <= Buffer
    BY <1>4, PeerAssumption DEF PumpTake, TypeOK
  <2> QED
    BY <1>4, <2>1 DEF PumpTake, TypeOK
<1>5. CASE PumpWrite
  BY <1>5 DEF PumpWrite, TypeOK
<1>6. CASE PumpWriteFails \/ PumpPingFails \/ PumpDead \/ PumpDone
  <2>1. PumpReturn
    BY <1>6 DEF PumpWriteFails, PumpPingFails, PumpDead, PumpDone
  <2>2. inflight' \in Seq(Payloads) /\ Len(inflight') = 0 /\ pump' = "stopped"
    BY <2>1 DEF PumpReturn
  <2>3. /\ open' \in BOOLEAN
        /\ UNCHANGED <<send, dead, checked, calls, accepted, refused, late, wire, done>>
    BY <2>1 DEF PumpReturn
  <2>4. Len(inflight') = IF pump' = "writing" THEN 1 ELSE 0
    BY <2>2
  <2> QED
    BY <2>2, <2>3, <2>4 DEF TypeOK
<1>7. CASE ReadLoopEnds
  BY <1>7 DEF ReadLoopEnds, TypeOK
<1>8. CASE CloseConn
  BY <1>8 DEF CloseConn, TypeOK
<1>9. CASE UNCHANGED vars
  BY <1>9 DEF vars, TypeOK
<1> QED
  BY <1>1, <1>2, <1>3, <1>4, <1>5, <1>6, <1>7, <1>8, <1>9 DEF Next, Pump

\* Only a dead peer is pushed to late.
LEMMA LateOnlyDead == TypeOK /\ Bookkeeping /\ ~dead => late = {}
  BY DEF TypeOK, Bookkeeping, Payloads

\* The inductive step.  The pump and the read loop touch none of the variables
\* the invariant is about, so only Enqueue and Kill need an argument.
LEMMA IndStep == IndInv /\ [Next]_vars => IndInv'
<1> SUFFICES ASSUME IndInv, [Next]_vars
             PROVE  NoGap' /\ RefusedMeansDead' /\ OneLateEach' /\ Bookkeeping'
  BY TypeStep DEF IndInv
<1>0. TypeOK /\ NoGap /\ RefusedMeansDead /\ OneLateEach /\ Bookkeeping
  BY DEF IndInv
<1>1. ASSUME NEW s \in Senders, EnqueueCheck(s)
      PROVE  NoGap' /\ RefusedMeansDead' /\ OneLateEach' /\ Bookkeeping'
  <2>0. /\ calls[s] \in Nat /\ calls' = [calls EXCEPT ![s] = @ + 1]
        /\ UNCHANGED <<accepted, late, dead>> /\ ~checked[s]
        /\ calls'[s] = calls[s] + 1 /\ \A t \in Senders \ {s} : calls'[t] = calls[t]
    BY <1>0, <1>1 DEF EnqueueCheck, TypeOK
  <2>1. \A i \in 1..Len(accepted) : accepted[i] \in Payloads
    BY <1>0 DEF TypeOK
  <2>2. CASE dead
    <3>1. refused' = refused \cup {<<s, calls[s] + 1>>} /\ checked' = checked
      BY <1>1, <2>2 DEF EnqueueCheck
    <3>2. NoGap'
      BY <1>0, <2>0, <2>1, <3>1 DEF NoGap, Bookkeeping, Payloads
    <3>3. Bookkeeping'
      BY <1>0, <2>0, <2>1, <3>1 DEF Bookkeeping, TypeOK, Payloads
    <3> QED
      BY <1>0, <2>0, <2>2, <3>2, <3>3 DEF RefusedMeansDead, OneLateEach
  <2>3. CASE ~dead
    <3>1. refused' = refused /\ checked' = [checked EXCEPT ![s] = TRUE] /\ refused = {}
      BY <1>0, <1>1, <2>3 DEF EnqueueCheck, RefusedMeansDead
    <3>2. Bookkeeping'
      <4>1. late = {}
        BY <1>0, <2>3, LateOnlyDead
      <4>2. \A t \in Senders \ {s} : checked'[t] = checked[t]
        BY <1>0, <3>1 DEF TypeOK
      <4>3. \A i \in 1..Len(accepted) : accepted[i][1] = s => accepted[i][2] < calls'[s]
        BY <1>0, <2>0, <2>1 DEF Bookkeeping, Payloads
      <4>4. \A i \in 1..Len(accepted) : accepted[i][2] \in Nat
        BY <2>1 DEF Payloads
      <4>5. \A i \in 1..Len(accepted) : accepted[i][1] = s => accepted[i][2] <= calls'[s]
        BY <2>0, <4>3, <4>4
      <4>6. ASSUME NEW t \in Senders, t # s
            PROVE  \A i \in 1..Len(accepted) : accepted[i][1] = t =>
                     /\ accepted[i][2] <= calls'[t]
                     /\ checked'[t] => accepted[i][2] < calls'[t]
        BY <1>0, <2>0, <4>2, <4>6 DEF Bookkeeping
      <4> QED
        BY <2>0, <3>1, <4>1, <4>3, <4>5, <4>6 DEF Bookkeeping
    <3> QED
      BY <1>0, <2>0, <3>1, <3>2 DEF NoGap, RefusedMeansDead, OneLateEach
  <2> QED
    BY <2>2, <2>3
<1>2. ASSUME NEW s \in Senders, EnqueueTry(s)
      PROVE  NoGap' /\ RefusedMeansDead' /\ OneLateEach' /\ Bookkeeping'
  <2>0. /\ calls' = calls /\ checked[s]
        /\ ~checked'[s] /\ \A t \in Senders \ {s} : checked'[t] = checked[t]
        /\ calls[s] \in 1..MaxSends
    BY <1>0, <1>2, PeerAssumption DEF EnqueueTry, TypeOK
  <2>1. \A n \in 1..MaxSends : <<s, n>> \notin refused /\ <<s, n>> \notin late
    BY <1>0, <2>0 DEF Bookkeeping
  <2>2. \A i \in 1..Len(accepted) : accepted[i] \in Payloads
    BY <1>0 DEF TypeOK
  <2>3. CASE Len(send) < Buffer
    <3>1. /\ accepted' = Append(accepted, <<s, calls[s]>>)
          /\ late' = IF dead THEN late \cup {<<s, calls[s]>>} ELSE late
          /\ dead' = dead /\ refused' = refused
      BY <1>0, <1>2, <2>3, PeerAssumption DEF EnqueueTry, TypeOK
    <3>2. /\ Len(accepted') = Len(accepted) + 1
          /\ \A i \in 1..Len(accepted) : accepted'[i] = accepted[i]
          /\ accepted'[Len(accepted) + 1] = <<s, calls[s]>>
          /\ Len(accepted) \in Nat
      BY <1>0, <3>1 DEF TypeOK
    <3>3. NoGap'
      BY <1>0, <2>1, <3>1, <3>2 DEF NoGap
    <3>4. OneLateEach'
      BY <1>0, <2>1, <3>1 DEF OneLateEach
    <3>5. Bookkeeping'
      <4>1. ASSUME NEW t \in Senders, NEW i \in 1..Len(accepted), accepted[i][1] = t
            PROVE  accepted[i][2] <= calls[t] /\ (checked'[t] => accepted[i][2] < calls[t])
        BY <1>0, <2>0, <4>1 DEF Bookkeeping
      <4>2. \A t \in Senders : \A i \in 1..Len(accepted') : accepted'[i][1] = t =>
              accepted'[i][2] <= calls[t] /\ (checked'[t] => accepted'[i][2] < calls[t])
        <5>1. SUFFICES ASSUME NEW t \in Senders, NEW i \in 1..Len(accepted'), accepted'[i][1] = t
                       PROVE  /\ accepted'[i][2] <= calls[t]
                              /\ checked'[t] => accepted'[i][2] < calls[t]
          OBVIOUS
        <5>2. CASE i \in 1..Len(accepted)
          BY <3>2, <4>1, <5>1, <5>2
        <5>3. CASE i = Len(accepted) + 1
          BY <2>0, <3>2, <5>1, <5>3
        <5> QED
          BY <3>2, <5>2, <5>3
      <4>3. \A t \in Senders : \A n \in 1..MaxSends :
              <<t, n>> \in refused => n <= calls[t] /\ ~checked'[t]
        BY <1>0, <2>0, <3>1 DEF Bookkeeping
      <4>4. \A t \in Senders : \A n \in 1..MaxSends :
              <<t, n>> \in late' => dead /\ ~checked'[t]
        BY <1>0, <2>0, <3>1 DEF Bookkeeping
      <4> QED
        BY <2>0, <3>1, <4>2, <4>3, <4>4 DEF Bookkeeping
    <3> QED
      BY <1>0, <3>1, <3>3, <3>4, <3>5 DEF RefusedMeansDead
  <2>4. CASE ~(Len(send) < Buffer)
    <3>1. /\ dead' = TRUE /\ refused' = refused \cup {<<s, calls[s]>>}
          /\ accepted' = accepted /\ late' = late
      BY <1>0, <1>2, <2>4, PeerAssumption DEF EnqueueTry, TypeOK
    <3>2. NoGap'
      BY <1>0, <2>0, <3>1 DEF NoGap, Bookkeeping
    <3>3. Bookkeeping'
      BY <1>0, <2>0, <2>1, <2>2, <3>1 DEF Bookkeeping, TypeOK, Payloads
    <3> QED
      BY <1>0, <3>1, <3>2, <3>3 DEF RefusedMeansDead, OneLateEach
  <2> QED
    BY <2>3, <2>4
<1>3. CASE Kill
  BY <1>0, <1>3 DEF Kill, NoGap, RefusedMeansDead, OneLateEach, Bookkeeping
<1>4. CASE UNCHANGED <<dead, checked, calls, accepted, refused, late>>
  BY <1>0, <1>4 DEF NoGap, RefusedMeansDead, OneLateEach, Bookkeeping
<1> QED
  BY <1>1, <1>2, <1>3, <1>4
  DEF Next, Pump, PumpTake, PumpWrite, PumpReturn, PumpWriteFails, PumpPingFails,
      PumpDead, PumpDone, ReadLoopEnds, CloseConn, vars

\* The inductive invariant of a peer.
THEOREM Inductive == Spec => []IndInv
<1>1. Init => IndInv
  <2> SUFFICES ASSUME Init PROVE IndInv
    OBVIOUS
  <2>1. TypeOK
    <3>1. <<>> \in Seq(Payloads) /\ Len(<<>>) = 0
      OBVIOUS
    <3>2. /\ send \in Seq(Payloads) /\ accepted \in Seq(Payloads)
          /\ inflight \in Seq(Payloads) /\ wire \in Seq(Payloads)
          /\ Len(send) = 0 /\ Len(inflight) = 0
      BY <3>1 DEF Init
    <3>3. /\ checked \in [Senders -> BOOLEAN]
          /\ \A s \in Senders : ~checked[s]
      BY DEF Init
    <3>4. calls \in [Senders -> 0..MaxSends]
      BY PeerAssumption DEF Init
    <3>5. /\ dead \in BOOLEAN /\ open \in BOOLEAN /\ done \in BOOLEAN
          /\ refused = {} /\ late = {} /\ pump = "select"
      BY DEF Init
    <3> QED
      BY <3>2, <3>3, <3>4, <3>5, PeerAssumption DEF TypeOK
  <2>2. NoGap /\ RefusedMeansDead /\ OneLateEach
    BY DEF Init, NoGap, RefusedMeansDead, OneLateEach
  <2>3. Bookkeeping
    <3>1. Len(accepted) = 0 /\ refused = {} /\ late = {}
      BY DEF Init
    <3> QED
      BY <3>1 DEF Bookkeeping
  <2> QED
    BY <2>1, <2>2, <2>3 DEF IndInv
<1> QED
  BY <1>1, IndStep, PTL DEF Spec

\* The state of a peer keeps its types.
THEOREM TypeCorrect == Spec => []TypeOK
  BY Inductive, PTL DEF IndInv

\* A sender whose payload was refused never gets a later one through.
THEOREM AlwaysNoGap == Spec => []NoGap
  BY Inductive, PTL DEF IndInv

\* No payload is refused by a peer that stays alive.
THEOREM AlwaysRefusedMeansDead == Spec => []RefusedMeansDead
  BY Inductive, PTL DEF IndInv

\* The race between the two selects costs at most one payload for each sender.
THEOREM AlwaysOneLateEach == Spec => []OneLateEach
  BY Inductive, PTL DEF IndInv

-----------------------------------------------------------------------------
(* Order *)

\* A sequence that agrees with the start of another one is its prefix.
LEMMA PrefixIs ==
  ASSUME NEW S, NEW s \in Seq(S), NEW a \in Seq(S), Len(s) <= Len(a),
         \A i \in 1..Len(s) : s[i] = a[i]
  PROVE  s = SubSeq(a, 1, Len(s))
<1>1. Len(s) \in Nat /\ Len(a) \in Nat
  OBVIOUS
<1>2. \A i \in 1..Len(s) : a[i] \in S
  BY <1>1
<1>3. /\ SubSeq(a, 1, Len(s)) \in Seq(S)
      /\ Len(SubSeq(a, 1, Len(s))) = Len(s)
      /\ \A i \in 1..Len(s) : SubSeq(a, 1, Len(s))[i] = a[i]
  BY <1>1, <1>2, SubSeqProperties
<1> QED BY <1>3, SeqEqual

\* ... and the other way round.
LEMMA PrefixAgrees ==
  ASSUME NEW S, NEW s \in Seq(S), NEW a \in Seq(S), Len(s) <= Len(a),
         s = SubSeq(a, 1, Len(s))
  PROVE  \A i \in 1..Len(s) : s[i] = a[i]
<1>1. Len(s) \in Nat /\ Len(a) \in Nat
  OBVIOUS
<1>2. \A i \in 1..Len(s) : a[i] \in S
  BY <1>1
<1>3. \A i \in 1..Len(s) : SubSeq(a, 1, Len(s))[i] = a[i]
  BY <1>1, <1>2, SubSeqProperties
<1> QED BY <1>3

\* A pump that stops loses what it was writing and what was queued.
LEMMA StopIsPrefix ==
  ASSUME NEW S, NEW w \in Seq(S), NEW f \in Seq(S), NEW q \in Seq(S)
  PROVE  /\ Len(w) <= Len(w \o f \o q)
         /\ w = SubSeq(w \o f \o q, 1, Len(w))
<1>1. f \o q \in Seq(S) /\ w \o f \o q = w \o (f \o q) /\ Len(w) \in Nat /\ Len(f \o q) \in Nat
  <2>1. f \o q \in Seq(S)
    BY ConcatProperties
  <2>2. w \o f \o q = w \o (f \o q)
    BY ConcatAssociative
  <2>3. Len(w) \in Nat /\ Len(f \o q) \in Nat
    BY <2>1
  <2> QED BY <2>1, <2>2, <2>3
<1>2. /\ w \o (f \o q) \in Seq(S)
      /\ Len(w \o (f \o q)) = Len(w) + Len(f \o q)
      /\ \A i \in 1..Len(w) : (w \o (f \o q))[i] = w[i]
  BY <1>1, ConcatProperties
<1>3. Len(w) <= Len(w \o (f \o q))
  BY <1>1, <1>2
<1> QED BY <1>1, <1>2, <1>3, PrefixIs

\* Order needs the types only: what is accepted is queued at the end, what is
\* written is taken from the front.
LEMMA OrderedStep == TypeOK /\ TypeOK' /\ Ordered /\ [Next]_vars => Ordered'
<1> SUFFICES ASSUME TypeOK, TypeOK', Ordered, [Next]_vars PROVE Ordered'
  OBVIOUS
<1>0. /\ send \in Seq(Payloads) /\ accepted \in Seq(Payloads)
      /\ inflight \in Seq(Payloads) /\ wire \in Seq(Payloads)
      /\ Len(inflight) = IF pump = "writing" THEN 1 ELSE 0
  BY DEF TypeOK
<1>1. ASSUME NEW s \in Senders, EnqueueTry(s) PROVE Ordered'
  <2> DEFINE payload == <<s, calls[s]>>
  <2>1. payload \in Payloads
    BY <1>1, PeerAssumption DEF EnqueueTry, TypeOK, Payloads
  <2>2. /\ UNCHANGED <<pump, inflight, wire>>
        /\ \/ UNCHANGED <<send, accepted>>
           \/ send' = Append(send, payload) /\ accepted' = Append(accepted, payload)
    BY <1>1 DEF EnqueueTry
  <2> HIDE DEF payload
  <2>3. CASE UNCHANGED <<send, accepted>>
    BY <2>2, <2>3 DEF Ordered
  <2>4. CASE /\ send' = Append(send, payload) /\ accepted' = Append(accepted, payload)
             /\ pump # "stopped"
    <3>1. /\ wire \o inflight \in Seq(Payloads) /\ <<payload>> \in Seq(Payloads)
          /\ send' = send \o <<payload>> /\ accepted' = accepted \o <<payload>>
      BY <1>0, <2>1, <2>4, ConcatProperties, AppendIsConcat
    <3>2. accepted = (wire \o inflight) \o send
      BY <2>4 DEF Ordered
    <3>3. accepted' = (wire \o inflight) \o send'
      BY <1>0, <3>1, <3>2, ConcatAssociative
    <3> QED BY <2>2, <2>4, <3>3 DEF Ordered
  <2>5. CASE accepted' = Append(accepted, payload) /\ pump = "stopped"
    <3>1. /\ Len(wire) <= Len(accepted)
          /\ \A i \in 1..Len(wire) : wire[i] = accepted[i]
      BY <1>0, <2>5, PrefixAgrees DEF Ordered
    <3>2. /\ Len(accepted') = Len(accepted) + 1 /\ accepted' \in Seq(Payloads)
          /\ \A i \in 1..Len(accepted) : accepted'[i] = accepted[i]
          /\ Len(wire) \in Nat /\ Len(accepted) \in Nat
      BY <1>0, <2>1, <2>5
    <3>3. Len(wire) <= Len(accepted') /\ \A i \in 1..Len(wire) : wire[i] = accepted'[i]
      BY <3>1, <3>2
    <3>4. wire = SubSeq(accepted', 1, Len(wire))
      BY <1>0, <3>2, <3>3, PrefixIs
    <3> QED BY <2>2, <2>5, <3>3, <3>4 DEF Ordered
  <2> QED BY <2>2, <2>3, <2>4, <2>5
<1>2. CASE PumpTake
  <2>1. /\ pump = "select" /\ pump' = "writing" /\ send # <<>>
        /\ inflight' = <<Head(send)>> /\ send' = Tail(send) /\ UNCHANGED <<accepted, wire>>
    BY <1>2 DEF PumpTake
  <2>2. inflight = <<>>
    BY <1>0, <2>1
  <2>3. accepted = wire \o send
    BY <1>0, <2>1, <2>2, ConcatEmptySeq DEF Ordered
  <2>4. send = <<Head(send)>> \o Tail(send) /\ <<Head(send)>> \in Seq(Payloads) /\ Tail(send) \in Seq(Payloads)
    BY <1>0, <2>1
  <2>5. accepted = wire \o <<Head(send)>> \o Tail(send)
    BY <1>0, <2>3, <2>4, ConcatAssociative
  <2> QED BY <2>1, <2>5 DEF Ordered
<1>3. CASE PumpWrite
  <2>1. /\ pump = "writing" /\ pump' = "select" /\ wire' = wire \o inflight /\ inflight' = <<>>
        /\ UNCHANGED <<accepted, send>>
    BY <1>3 DEF PumpWrite
  <2>2. wire' \in Seq(Payloads) /\ wire' \o <<>> = wire'
    BY <1>0, <2>1, ConcatProperties, ConcatEmptySeq
  <2> QED BY <2>1, <2>2 DEF Ordered
<1>4. CASE PumpWriteFails \/ PumpPingFails \/ PumpDead \/ PumpDone
  <2>1. pump # "stopped" /\ pump' = "stopped" /\ UNCHANGED <<accepted, wire>>
    <3>1. CASE PumpDone
      BY <3>1 DEF PumpDone, PumpReturn
    <3>2. CASE PumpWriteFails \/ PumpPingFails \/ PumpDead
      BY <3>2 DEF PumpWriteFails, PumpPingFails, PumpDead, PumpReturn
    <3> QED BY <1>4, <3>1, <3>2
  <2>2. accepted = wire \o inflight \o send
    BY <2>1 DEF Ordered
  <2>3. Len(wire) <= Len(accepted) /\ wire = SubSeq(accepted, 1, Len(wire))
    BY <1>0, <2>2, StopIsPrefix
  <2> QED BY <2>1, <2>3 DEF Ordered
<1>5. CASE UNCHANGED <<pump, accepted, wire, inflight, send>>
  BY <1>5 DEF Ordered
<1> QED
  BY <1>1, <1>2, <1>3, <1>4, <1>5
  DEF Next, Pump, EnqueueCheck, Kill, ReadLoopEnds, CloseConn, vars

\* What reaches the socket is what was accepted, in that order and without a
\* hole; only a pump that stops leaves a tail behind.
THEOREM AlwaysOrdered == Spec => []Ordered
<1>1. Init => Ordered
  <2>1. <<>> \o <<>> \o <<>> = <<>>
    BY EmptySeq, ConcatEmptySeq
  <2> QED BY <2>1 DEF Init, Ordered
<1> QED BY <1>1, TypeCorrect, OrderedStep, PTL DEF Spec
=============================================================================
