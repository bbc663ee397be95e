---------------------------- MODULE MCSignaling ----------------------------
(* Small instances of the signaling server for TLC. *)
EXTENDS Signaling, TLC

CONSTANTS r1, ca, cb, p1, p2, p3, p4

\* Client ca has two connections, p1 and p3; client cb has p2 and p4.
MCClientOf == [p \in Peers |-> IF p \in {p2, p4} THEN cb ELSE ca]

MCSymmetry == Permutations({p1, p3})
=============================================================================
