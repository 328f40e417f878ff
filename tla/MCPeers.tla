------------------------------ MODULE MCPeers ------------------------------
(* Three other nodes, room for one beside the node itself, two found at a time. *)
EXTENDS Peers, TLC

Alike == Permutations(PeerIDs) \cup Permutations(Workers)
=============================================================================
