------------------------------ MODULE Checksum ------------------------------
(***************************************************************************)
(* The checksums of a packet whose addresses the receiving peer rewrites:   *)
(* Packet.Parse and RecalculateChecksum of vpn/packet.go, in words of W     *)
(* bits instead of 16.  A packet is its protocol headers (for IPv6 the      *)
(* chain of extension headers), its addresses, and the transport checksum   *)
(* and payload it carries; the length tests are left out, a piece with a    *)
(* transport header has room for the checksum.                              *)
(***************************************************************************)
EXTENDS Naturals, Sequences, SequencesExt

CONSTANTS
  W,          \* bound: bits of a word
  AddrWords,  \* bound: what an address may be
  LoadWords   \* bound: what a word of payload may be

VARIABLE wire \* a datagram: its protocol, its pieces, whether they were rewritten

Ones == 2^W - 1
Number(proto) == CASE proto = "icmp6" -> 1 [] proto = "tcp" -> 2 [] OTHER -> 3
Total(words) == FoldLeft(LAMBDA a, b : a + b, 0, words)

\* The end-around carries of every sum in the file.
FoldCarries[v \in Nat] ==
  IF v > Ones THEN FoldCarries[(v \div 2^W) + (v % 2^W)] ELSE v

tcpipChecksum(load, csum) == Ones - FoldCarries[csum + Total(load)]
checksumTCPUDP(load, proto, src, dst) ==
  tcpipChecksum(load, src + dst + Len(load) + Number(proto))
checksumIPv4Header(p) == tcpipChecksum(<<p.src, p.dst>>, Number(p.chain[1]))

\* The delta of the addresses, for a payload that is not here in full.
adjustIPv6PseudoHeaderChecksum(sum, old, src, dst) ==
  LET one == FoldCarries[(Ones - sum) + (Ones - old[1]) + src]
  IN Ones - FoldCarries[one + (Ones - old[2]) + dst]

\* The walk over at most sixteen headers.  It stops at a transport protocol, at
\* a fragment other than the first, naming what that is a part of, and, not ok,
\* at a routing or security header.
Skipped == {"options", "fragment0"}
ipv6UpperLayerIgnoresFragments(chain) ==
  LET k == SelectInSeq(chain, LAMBDA h : h \notin Skipped)
  IN [protocol |-> Last(chain), fragmented |-> chain[k] = "fragmentN",
      first |-> chain[k] # "fragmentN", ok |-> k <= 16 /\ chain[k] # "routing"]
ipv6UpperLayer(chain) ==
  LET k == SelectInSeq(chain, LAMBDA h : h \notin Skipped)
  IN [protocol |-> Last(chain),
      fragmented |-> \E j \in 1..k : chain[j] \in {"fragment0", "fragmentN"},
      first |-> chain[k] # "fragmentN",
      ok |-> k <= 16 /\ chain[k] # "routing"]

rememberIPv6Addrs(p) == [p EXCEPT !.original = <<p.src, p.dst>>]

\* Zero means no checksum to UDP, which IPv6 does not allow.
NonZero(proto, sum) == IF proto = "udp" /\ sum = 0 THEN Ones ELSE sum
Checksummed == {"tcp", "udp", "icmp6"}

recalculateChecksumIPv6(p) ==
  LET u == ipv6UpperLayer(p.chain)
      sum == IF u.fragmented
             THEN adjustIPv6PseudoHeaderChecksum(p.sum, p.original, p.src, p.dst)
             ELSE checksumTCPUDP(p.load, u.protocol, p.src, p.dst)
  IN IF ~u.ok THEN p
     ELSE IF \/ u.protocol \notin Checksummed
             \/ u.fragmented /\ (~u.first \/ p.original = <<>>)
     THEN rememberIPv6Addrs(p)
     ELSE rememberIPv6Addrs([p EXCEPT !.sum = NonZero(u.protocol, sum)])

\* IPv4: the header's checksum, then the transport's over the bytes at hand.
recalculateChecksumIPv4(p) ==
  LET proto == p.chain[1]
  IN [p EXCEPT !.header = checksumIPv4Header(p),
               !.sum = IF proto \in {"tcp", "udp"}
                       THEN checksumTCPUDP(p.load, proto, p.src, p.dst) ELSE @]

RecalculateChecksum(p) ==
  IF p.v6 THEN recalculateChecksumIPv6(p) ELSE recalculateChecksumIPv4(p)

Parse(p) == IF p.v6 THEN rememberIPv6Addrs(p) ELSE [p EXCEPT !.original = <<>>]

\* writeInboundBatch: the addresses are replaced, then the checksums follow.
Rewrite(p, src, dst) == RecalculateChecksum([p EXCEPT !.src = src, !.dst = dst])

-----------------------------------------------------------------------------
(* The two ends: how a sender cuts a datagram into packets, and what its   *)
(* receiver accepts.                                                       *)

Sender(v6, proto, src, dst, load) ==
  LET sum == checksumTCPUDP(load, proto, src, dst)
  IN IF v6 THEN NonZero(proto, sum) ELSE sum

Packet(v6, chain, src, dst, sum, load) ==
  [v6 |-> v6, chain |-> chain, src |-> src, dst |-> dst, sum |-> sum, load |-> load,
   header |-> 0, original |-> <<>>]

\* Whole, in a single fragment, or in two, after options or not.
Cuts(proto, src, dst, load) ==
  LET sum == Sender(TRUE, proto, src, dst, load)
      P(chain, part) == Packet(TRUE, chain, src, dst, sum, part)
  IN {<<P(pre \o post, load)>> : pre \in {<<>>, <<"options">>},
                                 post \in {<<proto>>, <<"fragment0", proto>>}}
     \cup {<<P(<<"fragment0", proto>>, <<load[1]>>), P(<<"fragmentN", proto>>, Tail(load))>>}
     \cup {<<P([i \in 1..15 |-> "options"] \o <<proto>>, load)>>}

Sent4(proto, src, dst, load) ==
  <<Packet(FALSE, <<proto>>, src, dst, Sender(FALSE, proto, src, dst, load), load)>>

\* Reassembled and verified: the words, the checksum included, sum to all ones.
Accepted(pieces, proto) ==
  LET p == pieces[1]
      load == FlattenSeq([i \in DOMAIN pieces |-> pieces[i].load])
      verifies == FoldCarries[p.src + p.dst + Len(load) + Number(proto) + p.sum + Total(load)] = Ones
  IN IF p.v6 THEN verifies /\ (proto = "udp" => p.sum # 0)
     ELSE /\ verifies \/ (proto = "udp" /\ p.sum = 0)
          /\ FoldCarries[p.src + p.dst + Number(proto) + p.header] = Ones

Loads == LoadWords \X LoadWords
Datagram(proto, pieces) == [proto |-> proto, pieces |-> pieces, rewritten |-> FALSE]
SentDatagrams(proto) ==
  UNION {{Datagram(proto, pieces) :
            pieces \in Cuts(proto, src, dst, load)
                       \cup (IF proto = "icmp6" THEN {} ELSE {Sent4(proto, src, dst, load)})} :
         src \in AddrWords, dst \in AddrWords, load \in Loads}
NoDatagram == [proto |-> "none", pieces |-> <<>>, rewritten |-> FALSE]

\* The datagram under way through the tunnel.
UnderWay == \E proto \in Checksummed : wire \in SentDatagrams(proto)

\* Every piece is received, parsed and written to the TUN with other addresses.
WriteInbound(src, dst) ==
  /\ wire.pieces # <<>> /\ ~wire.rewritten
  /\ wire' = [wire EXCEPT !.rewritten = TRUE,
                          !.pieces = [i \in DOMAIN @ |-> Rewrite(Parse(@[i]), src, dst)]]

\* A datagram its receiver would have accepted is still accepted after the peer
\* at the other end of the tunnel replaced its addresses: whole packets of either
\* version, recomputed, and IPv6 datagrams in fragments, where only the first
\* carries a checksum and it has to be corrected without the rest.  A second
\* call, with the addresses as they are, changes nothing.  (IPv4 fragments are
\* recomputed as if they were whole and are not covered.)
RewriteVerifies ==
  wire.rewritten =>
    /\ Accepted(wire.pieces, wire.proto)
    /\ \A i \in DOMAIN wire.pieces : RecalculateChecksum(wire.pieces[i]) = wire.pieces[i]
=============================================================================
