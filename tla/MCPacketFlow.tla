---------------------------- MODULE MCPacketFlow ----------------------------
(* Two peers, batches of two, channels of one packet.  Beside it, the          *)
(* checksums of one datagram in words of three bits: a behaviour is that of    *)
(* the data path, or of a datagram while the data path is at rest.             *)
EXTENDS PacketFlow, Checksum, TLC

Symmetry == Permutations(Peers)

AtRest == Init /\ ~server /\ inst = [p \in Peers |-> 0]
MCInit == (Init /\ wire = NoDatagram) \/ (AtRest /\ UnderWay)
MCNext ==
  \/ wire = NoDatagram /\ Next /\ UNCHANGED wire
  \/ \E src, dst \in AddrWords : WriteInbound(src, dst) /\ UNCHANGED vars
MCSpec == MCInit /\ [][MCNext]_<<vars, wire>>
=============================================================================
