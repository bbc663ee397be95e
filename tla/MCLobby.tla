------------------------------ MODULE MCLobby -------------------------------
(* A small instance of the page's navigation for TLC. *)
EXTENDS Lobby, TLC

CONSTANTS r1, r2

MCSymmetry == Permutations(RoomIds)
=============================================================================
