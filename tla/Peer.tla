-------------------------------- MODULE Peer --------------------------------
(***************************************************************************)
(* One connected peer: the buffered channel Peer.Send that any number of   *)
(* goroutines push to through Peer.Enqueue (internal/rooms/manager.go),    *)
(* the writePump goroutine that drains it into the socket, and the read    *)
(* loop of ServeHTTP that ends when the socket does                        *)
(* (internal/signaling/handler.go).                                        *)
(*                                                                         *)
(* Enqueue is two selects, not one: a sender that has seen the peer alive  *)
(* may push after another one has killed it.                               *)
(***************************************************************************)
EXTENDS Integers, Sequences

CONSTANTS
  Senders,    \* goroutines calling Enqueue on this peer
  Buffer,     \* capacity of Peer.Send (sendBufferSize)
  MaxSends    \* bound of the model: Enqueue calls of one sender

ASSUME PeerAssumption == Buffer \in Nat \ {0} /\ MaxSends \in Nat

VARIABLES
  send,       \* contents of the channel Peer.Send
  dead,       \* Peer.dead is closed
  checked,    \* checked[s]: s is between the two selects of Enqueue
  calls,      \* calls[s]: Enqueue calls s has begun; payloads are <<s, 1>>, ...
  accepted,   \* history: payloads pushed, in order
  refused,    \* history: payloads for which Enqueue returned false
  late,       \* history: payloads pushed while dead was closed
  pump,       \* writePump: "select", "writing", "stopped"
  inflight,   \* the payload writePump is writing, as a sequence
  wire,       \* payloads the socket took
  open,       \* the server side of the socket is open
  done        \* ServeHTTP has closed done: the read loop is over

vars == <<send, dead, checked, calls, accepted, refused, late,
          pump, inflight, wire, open, done>>

Payloads == Senders \X (1..MaxSends)

Init ==
  /\ send = <<>>
  /\ dead = FALSE
  /\ checked = [s \in Senders |-> FALSE]
  /\ calls = [s \in Senders |-> 0]
  /\ accepted = <<>>
  /\ refused = {}
  /\ late = {}
  /\ pump = "select"
  /\ inflight = <<>>
  /\ wire = <<>>
  /\ open = TRUE
  /\ done = FALSE

-----------------------------------------------------------------------------
(* Enqueue *)

\* MUTANT: Enqueue without its first select.
EnqueueCheckNothing(s) ==
  /\ ~checked[s]
  /\ calls[s] < MaxSends
  /\ calls' = [calls EXCEPT ![s] = @ + 1]
  /\ checked' = [checked EXCEPT ![s] = TRUE]
  /\ UNCHANGED <<refused, send, dead, accepted, late, pump, inflight, wire, open, done>>

\* The first select: a dead peer refuses.
EnqueueCheck(s) ==
  /\ ~checked[s]
  /\ calls[s] < MaxSends
  /\ calls' = [calls EXCEPT ![s] = @ + 1]
  /\ \/ /\ dead
        /\ refused' = refused \cup {<<s, calls[s] + 1>>}
        /\ UNCHANGED checked
     \/ /\ ~dead
        /\ checked' = [checked EXCEPT ![s] = TRUE]
        /\ UNCHANGED refused
  /\ UNCHANGED <<send, dead, accepted, late, pump, inflight, wire, open, done>>

\* MUTANT: a full buffer drops the payload and leaves the peer alive.
EnqueueTryDrops(s) ==
  LET payload == <<s, calls[s]>>
  IN /\ checked[s]
     /\ checked' = [checked EXCEPT ![s] = FALSE]
     /\ \/ /\ Len(send) < Buffer
           /\ send' = Append(send, payload)
           /\ accepted' = Append(accepted, payload)
           /\ UNCHANGED refused
        \/ /\ Len(send) >= Buffer
           /\ refused' = refused \cup {payload}
           /\ UNCHANGED <<send, accepted>>
     /\ late' = IF dead THEN late \cup {payload} ELSE late
     /\ UNCHANGED <<dead, calls, pump, inflight, wire, open, done>>

\* The second select: push, or kill the peer when the buffer is full.
EnqueueTry(s) ==
  LET payload == <<s, calls[s]>>
  IN /\ checked[s]
     /\ checked' = [checked EXCEPT ![s] = FALSE]
     /\ \/ /\ Len(send) < Buffer
           /\ send' = Append(send, payload)
           /\ accepted' = Append(accepted, payload)
           /\ late' = IF dead THEN late \cup {payload} ELSE late
           /\ UNCHANGED <<dead, refused>>
        \/ /\ Len(send) >= Buffer
           /\ dead' = TRUE
           /\ refused' = refused \cup {payload}
           /\ UNCHANGED <<send, accepted, late>>
     /\ UNCHANGED <<calls, pump, inflight, wire, open, done>>

\* The manager kills the peer with its room.
Kill ==
  /\ dead' = TRUE
  /\ UNCHANGED <<send, checked, calls, accepted, refused, late,
                 pump, inflight, wire, open, done>>

-----------------------------------------------------------------------------
(* writePump *)

\* select picks at random among the ready cases: a payload may still be taken
\* from a dead peer.
PumpTake ==
  /\ pump = "select"
  /\ send # <<>>
  /\ pump' = "writing"
  /\ inflight' = <<Head(send)>>
  /\ send' = Tail(send)
  /\ UNCHANGED <<dead, checked, calls, accepted, refused, late, wire, open, done>>

\* MUTANT: writePump returns without closing the socket.
PumpReturnOpen ==
  /\ pump' = "stopped"
  /\ inflight' = <<>>
  /\ UNCHANGED <<send, dead, checked, calls, accepted, refused, late, wire, open, done>>

\* Every return of writePump closes the socket.
PumpReturn ==
  /\ pump' = "stopped"
  /\ open' = FALSE
  /\ inflight' = <<>>
  /\ UNCHANGED <<send, dead, checked, calls, accepted, refused, late, wire, done>>

\* WriteMessage returns within writeWait: the socket took the payload ...
PumpWrite ==
  /\ pump = "writing"
  /\ open
  /\ pump' = "select"
  /\ wire' = wire \o inflight
  /\ inflight' = <<>>
  /\ UNCHANGED <<send, dead, checked, calls, accepted, refused, late, open, done>>

\* ... or it is closed, stalled or broken.
PumpWriteFails == pump = "writing" /\ PumpReturn

\* The ping ticker fires and the control frame cannot be written; a ping that
\* goes through changes nothing.
PumpPingFails == pump = "select" /\ PumpReturn

\* MUTANT: writePump does not listen to Dead().
PumpIgnoresDead == FALSE /\ PumpReturn

PumpDead == pump = "select" /\ dead /\ PumpReturn

PumpDone == pump = "select" /\ done /\ PumpReturn

-----------------------------------------------------------------------------
(* ServeHTTP *)

\* The read loop ends: the browser closed, said hangup, stayed silent for
\* pongWait, was replaced, or the server side closed the socket.  The deferred
\* calls run done first, the socket after.
ReadLoopEnds ==
  /\ ~done
  /\ done' = TRUE
  /\ UNCHANGED <<send, dead, checked, calls, accepted, refused, late,
                 pump, inflight, wire, open>>

CloseConn ==
  /\ done
  /\ open
  /\ open' = FALSE
  /\ UNCHANGED <<send, dead, checked, calls, accepted, refused, late,
                 pump, inflight, wire, done>>

Pump == PumpTake \/ PumpWrite \/ PumpWriteFails \/ PumpPingFails \/ PumpDead \/ PumpDone

Next ==
  \/ \E s \in Senders : EnqueueCheck(s)
  \/ \E s \in Senders : EnqueueTry(s)
  \/ Kill
  \/ Pump
  \/ ReadLoopEnds
  \/ CloseConn

\* writePump and ServeHTTP are goroutines that run; a write ends by its
\* deadline; a read on a closed socket fails.  A ping that fails, a browser
\* that closes and a sender that sends are obliged to nothing.
Fairness ==
  /\ WF_vars(PumpTake \/ PumpDead \/ PumpDone)
  /\ WF_vars(PumpWrite \/ PumpWriteFails)
  /\ WF_vars(~open /\ ReadLoopEnds)
  /\ WF_vars(CloseConn)

Spec == Init /\ [][Next]_vars

FairSpec == Spec /\ Fairness

-----------------------------------------------------------------------------
(* Properties *)

\* Type invariant; writePump holds a payload exactly while it writes.
TypeOK ==
  /\ send \in Seq(Payloads)
  /\ Len(send) <= Buffer
  /\ dead \in BOOLEAN
  /\ checked \in [Senders -> BOOLEAN]
  /\ calls \in [Senders -> 0..MaxSends]
  /\ \A s \in Senders : checked[s] => calls[s] > 0
  /\ accepted \in Seq(Payloads)
  /\ refused \subseteq Payloads
  /\ late \subseteq Payloads
  /\ pump \in {"select", "writing", "stopped"}
  /\ inflight \in Seq(Payloads)
  /\ Len(inflight) = IF pump = "writing" THEN 1 ELSE 0
  /\ wire \in Seq(Payloads)
  /\ open \in BOOLEAN
  /\ done \in BOOLEAN

\* Signaling has no retransmit, so what one goroutine sends to a peer must
\* arrive without a gap: once a payload of a sender has been refused, no later
\* payload of that sender is ever queued, although the buffer drains and the
\* select of writePump is unordered.
NoGap ==
  \A s \in Senders : \A n \in 1..MaxSends :
    <<s, n>> \in refused =>
      \A i \in 1..Len(accepted) : accepted[i][1] = s => accepted[i][2] < n

\* Enqueue reports false only to a peer that is being torn down: no payload is
\* lost while the client goes on believing in the connection.
RefusedMeansDead == refused # {} => dead

\* What the socket took, what is being written and what is queued is what was
\* accepted, in the order it was accepted; a stopped pump loses a tail only.
Ordered ==
  \/ /\ pump # "stopped"
     /\ accepted = wire \o inflight \o send
  \/ /\ pump = "stopped"
     /\ Len(wire) <= Len(accepted)
     /\ wire = SubSeq(accepted, 1, Len(wire))

\* The window between the two selects lets each sender slip at most one
\* payload into a dead peer.
OneLateEach ==
  \A s \in Senders : \A m, n \in 1..MaxSends :
    <<s, m>> \in late /\ <<s, n>> \in late => m = n

\* The relations between the counters and the histories that make the
\* properties above inductive: a sender between the selects has had nothing
\* refused and nothing pushed late, and is about to push its latest payload.
Bookkeeping ==
  \A s \in Senders :
    /\ \A i \in 1..Len(accepted) : accepted[i][1] = s =>
         /\ accepted[i][2] <= calls[s]
         /\ checked[s] => accepted[i][2] < calls[s]
    /\ \A n \in 1..MaxSends : <<s, n>> \in refused => n <= calls[s] /\ ~checked[s]
    /\ \A n \in 1..MaxSends : <<s, n>> \in late => dead /\ ~checked[s]

IndInv == TypeOK /\ NoGap /\ RefusedMeansDead /\ OneLateEach /\ Bookkeeping

\* A killed peer does not linger (handler.go:198): its socket is closed and its
\* read loop ends, even if writePump keeps picking payloads over Dead().
DeadIsClosed == dead ~> ~open /\ done

\* An accepted payload is written or the socket goes down: the peer never
\* holds a payload for ever on a connection the browser takes for alive.
AcceptedIsSettled ==
  \A x \in Payloads :
    (\E i \in 1..Len(accepted) : accepted[i] = x)
      ~> (\E i \in 1..Len(wire) : wire[i] = x) \/ ~open
=============================================================================
