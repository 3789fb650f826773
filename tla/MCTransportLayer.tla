-------------------------- MODULE MCTransportLayer --------------------------
(* Small instances of TransportLayer for TLC.                              *)
EXTENDS TransportLayer, TLC

CONSTANTS p1, p2

MCPeers  == {p1, p2}
OnePeer  == {p1}
Symmetry == Permutations(MCPeers)
=============================================================================
