------------------------------ MODULE MCRooms ------------------------------
(* Small instances of the room manager for TLC. *)
EXTENDS RoomsHistory, TLC

CONSTANTS r1, r2, ca, cb, cc, p1, p2, p3, p4

\* Client ca has a connection p1 and a later or earlier one p4.
MCClientOf ==
  [p \in Peers |-> IF p \in {p1, p4} THEN ca ELSE IF p = p2 THEN cb ELSE cc]

\* Room ids are interchangeable, and so are the two connections of ca.
MCSymmetry == Permutations({r1, r2}) \cup Permutations({p1, p4})
=============================================================================
