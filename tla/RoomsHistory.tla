---------------------------- MODULE RoomsHistory ----------------------------
(***************************************************************************)
(* The room manager with a record of what a room has seen, which its own   *)
(* fields cannot be trusted to say: when it last held a connection, and    *)
(* whether the last step was the hangup that deletes it.  The record is    *)
(* written beside every step of Rooms and restricts none, so that the      *)
(* removal of a room can be judged by its cause: a Delete and a sweep that *)
(* takes the same room leave the same table behind.                        *)
(***************************************************************************)
EXTENDS Rooms

VARIABLES
  heldAt,     \* heldAt[r]: the last time at which r held a connection
  hungUp      \* the room a Delete was called for in the last step

hvars == <<vars, heldAt, hungUp>>

HInit ==
  /\ Init
  /\ heldAt = [r \in RoomIds |-> NoTime]
  /\ hungUp = {}

Record(asked) ==
  /\ hungUp' = asked
  /\ heldAt' = [r \in RoomIds |->
                  IF r \notin rooms' THEN NoTime
                  ELSE IF Connected(r)' # {} THEN now'
                  ELSE heldAt[r]]

HNext ==
  \/ Tick /\ Record({})
  \/ \E r \in RoomIds : CreateBegin(r) /\ Record({})
  \/ \E r \in RoomIds : CreateLocked(r) /\ Record({})
  \/ \E r \in RoomIds, p \in Peers, s \in BOOLEAN, t \in Tokens :
       Join(r, p, s, t) /\ Record({})
  \/ \E r \in RoomIds, p \in Peers : Leave(r, p) /\ Record({})
  \/ \E r \in RoomIds : Delete(r) /\ Record({r} \cap rooms)
  \/ Cleanup /\ Record({})
  \/ \E p \in Peers : Kill(p) /\ Record({})

HSpec == HInit /\ [][HNext]_hvars

HFairSpec == HSpec /\ Fairness
-----------------------------------------------------------------------------
\* A room that disappears was deleted on purpose (the hangup), or its time to
\* live is over, or it is without any connection and has been for the whole
\* grace period, counted from the last time it held one.  This binds the sweep
\* and the eviction of a Create at the cap, although Create sweeps with a
\* clock value that may be old, and although Join, Leave and the sweep agree
\* on that time only through emptySince.
GraceHonoured ==
  [][\A r \in rooms \ rooms' :
       \/ r \in hungUp'
       \/ Expired(r, now)
       \/ /\ Connected(r) = {}
          /\ heldAt[r] # NoTime
          /\ now - heldAt[r] >= Grace]_hvars
=============================================================================
