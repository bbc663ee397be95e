------------------------------- MODULE MCPeer -------------------------------
(* Small instances of a peer for TLC. *)
EXTENDS Peer

CONSTANTS s1, s2, s3
=============================================================================
