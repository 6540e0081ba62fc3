----------------------------- MODULE MCPeerTable -----------------------------
(***************************************************************************)
(* PeerTable on a subnet of eight addresses: network 8, ours 9, DNS 14,    *)
(* broadcast 15.  A user types 10, 11 or 13, so generated addresses run    *)
(* into the reserved ones and past the end.                                *)
(***************************************************************************)
EXTENDS PeerTable, TLC

CONSTANTS p1, p2, p3

PeerSymmetry == Permutations(Peers)
=============================================================================
