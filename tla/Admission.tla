----------------------------- MODULE Admission -----------------------------
(***************************************************************************)
(* What the room manager promises about admission, without connections,    *)
(* tokens, clocks or caps.  A room id is unused, then perhaps open, then   *)
(* gone for good.  An open room has a caller's and a callee's seat; the    *)
(* first client admitted takes the caller's, the next one the callee's,    *)
(* and a seat once taken keeps its client until the room is gone.          *)
(***************************************************************************)
CONSTANTS RoomIds, Clients

VARIABLES
  phase,     \* phase[r]: "none", "open" or "gone"
  holders    \* holders[r]: pairs <<role, client>>, empty unless r is open

avars == <<phase, holders>>

Init ==
  /\ phase = [r \in RoomIds |-> "none"]
  /\ holders = [r \in RoomIds |-> {}]

\* A client that holds no seat takes the first free one.
Admit(r, c) ==
  /\ phase[r] = "open"
  /\ \A seat \in holders[r] : seat[2] # c
  /\ \/ /\ holders[r] = {}
        /\ holders' = [holders EXCEPT ![r] = {<<"caller", c>>}]
     \/ \E d \in Clients :
          /\ holders[r] = {<<"caller", d>>}
          /\ holders' = [holders EXCEPT ![r] = @ \cup {<<"callee", c>>}]
  /\ UNCHANGED phase

\* Some rooms end; a new id is opened or refused in the same step, or not.
Turnover(ended, r) ==
  /\ \A q \in ended : phase[q] = "open"
  /\ phase[r] = "none" \/ r \in ended
  /\ \E fate \in {"open", "gone"} :
       phase' = [q \in RoomIds |->
                   IF q \in ended THEN "gone" ELSE IF q = r THEN fate ELSE phase[q]]
  /\ holders' = [q \in RoomIds |-> IF q \in ended THEN {} ELSE holders[q]]

Next ==
  \/ \E r \in RoomIds, c \in Clients : Admit(r, c)
  \/ \E ended \in SUBSET RoomIds, r \in RoomIds : Turnover(ended, r)

Spec == Init /\ [][Next]_avars
=============================================================================
