----------------------------- MODULE PacketFlow -----------------------------
(***************************************************************************)
(* The data path of service/tunnel.go and vpn/vpn.go: packet buffers taken   *)
(* from a pool travel between the TUN reader, the stream handlers of the    *)
(* peers, the channels of each VpnPeer and its two background handlers,     *)
(* while peers are added and removed and the gateway roles change.          *)
(* peersLock is a reader-writer lock: the reader holds it over a whole      *)
(* batch, the refresh and Close take it exclusively.                        *)
(***************************************************************************)
EXTENDS Naturals, Sequences, Functions

CONSTANTS
  Peers, None,
  NumBuf,      \* bound: packet buffers
  MaxInst,     \* bound: VpnPeers ever created
  ChanCap,     \* packetHandlersChanCap
  Batch,       \* the TUN's batch size, also that of the handlers
  MaxPackets,  \* bound: packets read from the TUN or received on streams
  MaxChanges   \* bound: changes of peers or roles

ASSUME PeersAssumption == None \notin Peers
ASSUME BoundAssumption ==
  MaxInst \in Nat /\ NumBuf \in Nat /\ Batch \in Nat \ {0} /\ None \notin 1..NumBuf

Inst == 1..MaxInst
Buffers == 1..NumBuf
Dirs == {"none", "forward", "return"}
Dsts == Peers \cup {"net", "bcast"}

VARIABLES
  pool,        \* free buffers
  data,        \* data[b]: dst, inet (source outside the mesh), dir, on
  rd, slots, idx, cnt,   \* the TUN reader: step, its slice, loop index, count
  sbuf,                  \* per peer: the buffer its stream handler holds
  inst,                  \* peerIDToPeer, and netIPToPeer: 0 = unknown
  peerOf, shut,          \* per VpnPeer: its peer; closed channels
  inCh, outCh,           \* per VpnPeer: channels
  inB, outB,             \* per VpnPeer: the buffers of the handlers' batches
  flags,                 \* per VpnPeer: roles the inbound handler has read
  allow,                 \* the VpnPeers with weAllowUsingAsExitNode
  gwOn, gwInst, server,  \* vpnGatewayPeerID, vpnGatewayPeer, server flag
  isClosed, panic,       \* Tunnel.Close called; a send on a closed channel
  packets, changes

reader == <<rd, slots, idx, cnt, packets>>
peers == <<inst, peerOf, shut>>
chans == <<inCh, outCh, inB, outB, flags>>
roles == <<allow, gwOn, gwInst, server, isClosed>>
vars == <<pool, data, reader, sbuf, peers, chans, roles, panic, changes>>

Blank == [dst |-> None, inet |-> FALSE, dir |-> "none", on |-> FALSE, ok |-> FALSE]
\* Packet.clear forgets everything, the gateway tag included.
clearKeepsTag(p) == [Blank EXCEPT !.dir = p.dir]
clear(p) == Blank

\* A member of T for each member of S, no two the same; it does not matter
\* which, those of T are alike.
Handout(S, T) == CHOOSE f \in Injection(S, T) : TRUE

\* NewTunnel: the known peers have their VpnPeer, no packet is under way.
Init ==
  /\ pool = Buffers /\ data = [b \in Buffers |-> Blank]
  /\ rd = "idle" /\ slots = [j \in 1..Batch |-> None] /\ idx = 1 /\ cnt = 0
  /\ sbuf = [p \in Peers |-> None]
  /\ \E known \in SUBSET Peers :
       /\ ExistsInjection(known, Inst)
       /\ inst = [p \in Peers |-> IF p \in known THEN Handout(known, Inst)[p] ELSE 0]
       /\ allow \in {{}, {inst[p] : p \in known}}
  /\ peerOf = [i \in Inst |-> IF \E p \in Peers : inst[p] = i
                              THEN CHOOSE p \in Peers : inst[p] = i ELSE None]
  /\ shut = {}
  /\ inCh = [i \in Inst |-> <<>>] /\ outCh = [i \in Inst |-> <<>>]
  /\ inB = [i \in Inst |-> {}] /\ outB = [i \in Inst |-> {}]
  /\ flags = [i \in Inst |-> {}]
  /\ gwOn = None /\ gwInst = 0 /\ server \in BOOLEAN
  /\ isClosed = FALSE /\ panic = FALSE
  /\ packets = 0 /\ changes = 0

Held(s) == {s[j] : j \in DOMAIN s} \ {None}
Wiped(bs) == [b \in Buffers |-> IF b \in bs THEN clear(data[b]) ELSE data[b]]
Known(p) == inst[p] # 0
Unlocked == rd # "handle"     \* no read lock held across steps

(***************************************************************************)
(* ReadTUNPackets and HandleReadPackets.                                   *)
(***************************************************************************)
\* Once the tunnel is closed a batch is not handled.
AlwaysHandled == TRUE
Handled == ~isClosed

\* Empty slots get a buffer, the others are cleared for reuse; n packets are
\* read and those of bad, which do not parse, lose their slot.  The read lock is
\* then held for the whole batch.  What a packet holds matters only when it is
\* handled, and is chosen there.
ReadTUNPackets(n, bad) ==
  LET empty == {j \in 1..Batch : slots[j] = None}
      taken == Handout(empty, pool)
      full == [j \in 1..Batch |-> IF j \in empty THEN taken[j] ELSE slots[j]]
  IN /\ rd = "idle" /\ packets + n <= MaxPackets
     /\ ExistsInjection(empty, pool)
     /\ pool' = (pool \ Range(taken)) \cup {full[j] : j \in bad}
     /\ slots' = [j \in 1..Batch |-> IF j \in bad THEN None ELSE full[j]]
     /\ data' = Wiped(Held(slots))
     /\ rd' = IF Handled THEN "handle" ELSE "idle"
     /\ idx' = 1 /\ cnt' = n /\ packets' = packets + n
     /\ UNCHANGED <<sbuf, peers, chans, roles, panic, changes>>

\* select with default: a full channel drops, a closed one panics.
Room(ch, i) == i \notin shut /\ Len(ch[i]) < ChanCap
Sent(ch, i, b) == IF Room(ch, i) THEN [ch EXCEPT ![i] = Append(@, b)] ELSE ch

NextPacket ==
  /\ idx' = idx + 1
  /\ rd' = IF idx = cnt THEN "idle" ELSE "handle"

\* Where a packet goes and whether its source is outside the mesh.  One of zero
\* size has no destination and takes the way of "net".
TunPacket == [dst : Dsts, inet : {FALSE}] \cup [dst : Peers, inet : {TRUE}]
Parsed(b, x) == [data[b] EXCEPT !.dst = x.dst, !.inet = x.inet]

\* Queued for i with tag dir; a packet that does not fit keeps its slot.
Enqueue(b, x, i, dir) ==
  /\ data' = [data EXCEPT ![b] = [Parsed(b, x) EXCEPT !.dir = dir]]
  /\ outCh' = Sent(outCh, i, b)
  /\ slots' = [slots EXCEPT ![idx] = IF Room(outCh, i) THEN None ELSE b]
  /\ panic' = (panic \/ i \in shut)
  /\ UNCHANGED pool

\* To a known peer; what NAT returned for an exit-node client is tagged.
HandleToPeer(b, x) ==
  LET i == inst[x.dst]
  IN Enqueue(b, x, i, IF i \in allow /\ server /\ x.inet THEN "return" ELSE data[b].dir)

CopyTo(b, x) == Parsed(b, x)

\* A copy for every connected peer; copies that do not fit go back.
HandleBroadcast(b, x, connected) ==
  LET to == {inst[p] : p \in connected}
      fit == {i \in to : Room(outCh, i)}
      taken == Handout(fit, pool)
  IN /\ ExistsInjection(fit, pool)
     /\ outCh' = [i \in Inst |->
          IF i \in fit THEN Append(outCh[i], taken[i]) ELSE outCh[i]]
     /\ pool' = pool \ Range(taken)
     /\ data' = [c \in Buffers |-> IF c \in Range(taken) THEN CopyTo(b, x) ELSE data[c]]
     /\ panic' = (panic \/ to \cap shut # {})
     /\ UNCHANGED slots

\* Through the exit node: everything else that is not the mesh's own.
ForGateway(x) == gwOn # None /\ gwInst # 0 /\ x.dst = "net"

HandlePacket(x) ==
  LET b == slots[idx]
      toPeer == x.dst \in Peers /\ inst[x.dst] # 0
  IN /\ rd = "handle" /\ NextPacket
     /\ IF b # None /\ toPeer THEN HandleToPeer(b, x)
        ELSE IF b # None /\ x.dst = "bcast"
        THEN \E connected \in SUBSET {p \in Peers : Known(p)} :
               HandleBroadcast(b, x, connected)
        ELSE IF b # None /\ ForGateway(x) THEN Enqueue(b, x, gwInst, "forward")
        ELSE UNCHANGED <<pool, data, slots, outCh, panic>>
     /\ UNCHANGED <<cnt, packets, sbuf, peers, inCh, inB, outB, flags, roles, changes>>

(***************************************************************************)
(* StreamHandler: packets of a remote peer.                                *)
(***************************************************************************)
Created == {i \in Inst : peerOf[i] # None}
\* A stream is accepted from a known peer and may outlive that peer's entry;
\* a failed read only puts the buffer back.
StreamPacket == [dir : Dirs, ok : {TRUE}] \cup [dir : {"none"}, ok : {FALSE}]
ReadPacketHeader(p, x) ==
  /\ \E i \in Created : peerOf[i] = p
  /\ sbuf[p] = None /\ packets < MaxPackets
  /\ pool # {}
  /\ LET b == CHOOSE c \in pool : TRUE
     IN /\ pool' = pool \ {b}
        /\ sbuf' = [sbuf EXCEPT ![p] = b]
        /\ data' = [data EXCEPT ![b].dir = x.dir, ![b].ok = x.ok,
                                ![b].on = server]
  /\ packets' = packets + 1
  /\ UNCHANGED <<rd, slots, idx, cnt, peers, chans, roles, panic, changes>>

\* The peer is looked up again for every packet, under the read lock.
Deliver(p) ==
  LET b == sbuf[p] i == inst[p]
  IN /\ b # None
     /\ sbuf' = [sbuf EXCEPT ![p] = None]
     /\ panic' = (panic \/ i \in shut)
     /\ IF i # 0 /\ Room(inCh, i)
        THEN inCh' = Sent(inCh, i, b) /\ UNCHANGED <<pool, data>>
        ELSE pool' = pool \cup {b} /\ data' = Wiped({b}) /\ UNCHANGED inCh
     /\ UNCHANGED <<reader, peers, outCh, inB, outB, flags, roles, changes>>

(***************************************************************************)
(* The handlers of a VpnPeer.                                              *)
(***************************************************************************)
Least(a, b) == IF a < b THEN a ELSE b
readBatch(ch) == SubSeq(ch, 1, Least(Len(ch), Batch))
Rest(ch) == SubSeq(ch, Least(Len(ch), Batch) + 1, Len(ch))

\* A batch is taken and compacted: what does not parse goes back at once.
Unfiltered(batch) == batch
Filtered(batch) == {b \in batch : data[b].ok}
InboundReceive(i) ==
  LET batch == Held(readBatch(inCh[i]))
      bad == {b \in batch : ~data[b].ok}
  IN /\ inCh[i] # <<>> /\ inB[i] = {}
     /\ inCh' = [inCh EXCEPT ![i] = Rest(@)]
     /\ inB' = [inB EXCEPT ![i] = Filtered(batch)]
     /\ pool' = pool \cup bad /\ data' = Wiped(bad)
     /\ UNCHANGED <<reader, sbuf, peers, outCh, outB, flags, roles, panic, changes>>

\* The roles are read under the lock before the batch is rewritten.
ReadRoles(i) ==
  {"read"} \cup (IF server THEN {"server"} ELSE {})
           \cup (IF gwOn # None /\ gwOn = peerOf[i] THEN {"gateway"} ELSE {})
InboundRolesEarly(i) ==
  /\ i \in Created /\ flags[i] = {}
  /\ flags' = [flags EXCEPT ![i] = ReadRoles(i)]
  /\ UNCHANGED <<pool, data, reader, sbuf, peers, inCh, outCh, inB, outB, roles,
                 panic, changes>>
InboundRoles(i) ==
  /\ inB[i] # {} /\ flags[i] = {}
  /\ flags' = [flags EXCEPT ![i] = ReadRoles(i)]
  /\ UNCHANGED <<pool, data, reader, sbuf, peers, inCh, outCh, inB, outB, roles,
                 panic, changes>>

\* Forward needs the server role and the peer's permission, return needs the
\* sender to be our gateway.
Permitted(i, b) ==
  CASE data[b].dir = "forward" -> "server" \in flags[i] /\ i \in allow
    [] data[b].dir = "return" -> "gateway" \in flags[i]
    [] OTHER -> TRUE
writeInboundBatch(i) ==
  /\ inB[i] # {} /\ flags[i] # {}
  /\ pool' = pool \cup inB[i] /\ data' = Wiped(inB[i])
  /\ inB' = [inB EXCEPT ![i] = {}] /\ flags' = [flags EXCEPT ![i] = {}]
  /\ UNCHANGED <<reader, sbuf, peers, inCh, outCh, outB, roles, panic, changes>>

OutboundReceive(i) ==
  /\ outCh[i] # <<>> /\ outB[i] = {}
  /\ outB' = [outB EXCEPT ![i] = Held(readBatch(outCh[i]))]
  /\ outCh' = [outCh EXCEPT ![i] = Rest(@)]
  /\ UNCHANGED <<pool, data, reader, sbuf, peers, inCh, inB, flags, roles, panic, changes>>

\* Sent, failed or not connected: the buffers go back either way.  The stream
\* underneath (opened on demand, replaced after its quota or when idle) is left
\* out, and one sender stands for the ParallelSendingStreamsCount of a peer: each
\* owns what it took from the channel.
OutboundSend(i) ==
  /\ outB[i] # {}
  /\ pool' = pool \cup outB[i] /\ data' = Wiped(outB[i])
  /\ outB' = [outB EXCEPT ![i] = {}]
  /\ UNCHANGED <<reader, sbuf, peers, inCh, outCh, inB, flags, roles, panic,
                 changes>>

(***************************************************************************)
(* Refresh, gateway roles and Close, under the write lock.                 *)
(***************************************************************************)
\* VpnPeer.Close: channels closed and drained into the pool.
Drained(is) == UNION {Held(inCh[i]) \cup Held(outCh[i]) : i \in is}
Close(is) ==
  /\ shut' = shut \cup is
  /\ pool' = pool \cup Drained(is) /\ data' = Wiped(Drained(is))
  /\ inCh' = [i \in Inst |-> IF i \in is THEN <<>> ELSE inCh[i]]
  /\ outCh' = [i \in Inst |-> IF i \in is THEN <<>> ELSE outCh[i]]

\* The gateway pointer follows the map; a vanished peer ends client mode.
Rebind(new) ==
  LET gone == gwOn # None => new[gwOn] = 0
  IN /\ gwOn' = IF gone THEN None ELSE gwOn
     /\ gwInst' = IF gone THEN 0 ELSE new[gwOn]

RefreshPeersList(known, exits) ==
  LET added == {p \in known : inst[p] = 0}
      removed == {inst[p] : p \in Peers \ known} \ {0}
      fresh == Handout(added, Inst \ Created)
      new == [p \in Peers |->
        IF p \notin known THEN 0
        ELSE IF p \in added THEN fresh[p] ELSE inst[p]]
  IN /\ Unlocked /\ ~isClosed /\ changes < MaxChanges
     /\ ExistsInjection(added, Inst \ Created)
     /\ changes' = changes + 1
     /\ inst' = new
     /\ peerOf' = [i \in Inst |->
          IF i \in Created THEN peerOf[i]
          ELSE IF \E p \in added : new[p] = i
          THEN CHOOSE p \in added : new[p] = i ELSE None]
     /\ Close(removed)
     /\ Rebind(new)
     /\ allow' = (allow \ {new[p] : p \in known})
                 \cup {new[p] : p \in known \cap exits}
     /\ UNCHANGED <<reader, sbuf, inB, outB, flags, server, isClosed, panic>>

SetVPNGatewayPeer(p) ==
  /\ Unlocked /\ Known(p) /\ changes < MaxChanges
  /\ gwOn' = p /\ gwInst' = inst[p]
  /\ changes' = changes + 1
  /\ UNCHANGED <<pool, data, reader, sbuf, peers, chans, allow, server,
                 isClosed, panic>>

ClearVPNGatewayPeer ==
  /\ Unlocked /\ gwOn # None /\ changes < MaxChanges
  /\ gwOn' = None /\ gwInst' = 0
  /\ changes' = changes + 1
  /\ UNCHANGED <<pool, data, reader, sbuf, peers, chans, allow, server,
                 isClosed, panic>>

\* A packet under way has seen the role on, once it was on.
SetVPNGatewayServerEnabled ==
  /\ Unlocked /\ changes < MaxChanges
  /\ server' = ~server
  /\ data' = [b \in Buffers |-> [data[b] EXCEPT !.on = @ \/ (server' /\ b \notin pool)]]
  /\ changes' = changes + 1
  /\ UNCHANGED <<pool, reader, sbuf, peers, chans, allow, gwOn, gwInst,
                 isClosed, panic>>

\* Tunnel.Close leaves the gateway pointer as it is.
CloseTunnel ==
  /\ Unlocked /\ ~isClosed
  /\ isClosed' = TRUE
  /\ Close({inst[p] : p \in Peers} \ {0})
  /\ inst' = [p \in Peers |-> 0]
  /\ UNCHANGED <<reader, sbuf, peerOf, inB, outB, flags, allow, gwOn, gwInst,
                 server, panic, changes>>

Next ==
  \/ \E n \in 1..Batch : \E bad \in SUBSET (1..n) : ReadTUNPackets(n, bad)
  \/ \E x \in TunPacket : HandlePacket(x)
  \/ \E p \in Peers :
       \/ Deliver(p) \/ SetVPNGatewayPeer(p)
       \/ \E x \in StreamPacket : ReadPacketHeader(p, x)
  \/ \E i \in Inst :
       \/ InboundReceive(i) \/ InboundRoles(i) \/ writeInboundBatch(i)
       \/ OutboundReceive(i) \/ OutboundSend(i)
  \/ \E known \in SUBSET Peers : \E exits \in SUBSET known :
        RefreshPeersList(known, exits)
  \/ ClearVPNGatewayPeer \/ SetVPNGatewayServerEnabled \/ CloseTunnel

Spec == Init /\ [][Next]_vars

-----------------------------------------------------------------------------
\* Who has buffer b, a kind of place and which one.
Holders(b) ==
  {<<"pool", 0>> : x \in {b} \cap pool}
  \cup {<<"slot", j>> : j \in {j \in 1..Batch : slots[j] = b}}
  \cup {<<"stream", p>> : p \in {p \in Peers : sbuf[p] = b}}
  \cup {<<"in", i>> : i \in {i \in Inst : b \in Held(inCh[i])}}
  \cup {<<"out", i>> : i \in {i \in Inst : b \in Held(outCh[i])}}
  \cup {<<"inB", i>> : i \in {i \in Inst : b \in inB[i]}}
  \cup {<<"outB", i>> : i \in {i \in Inst : b \in outB[i]}}

\* Every packet buffer is in exactly one place - the pool, the reader's slice,
\* a stream handler, a channel or a handler's batch: none is returned twice,
\* shared by two goroutines, or lost on an error, full-channel or close path.
OwnedOnce ==
  /\ \A b \in Buffers : \E h \in Holders(b) : Holders(b) = {h}
  /\ \A i \in Inst : IsInjective(inCh[i]) /\ IsInjective(outCh[i])

\* No goroutine ever sends on a closed channel, which would crash the process,
\* whatever VpnPeer pointer it goes through.
NoSendOnClosed == ~panic

\* Tags tell the truth: only traffic of the internet is handed to the exit
\* node, never the mesh's, and only what came back from there is a return.
TagsTrue ==
  \A i \in Inst : \A b \in Held(outCh[i]) \cup outB[i] :
    /\ data[b].dir = "forward" => data[b].dst = "net"
    /\ data[b].dir = "return" => data[b].inet /\ data[b].dst = peerOf[i]

\* A packet asking for transit goes to the TUN only if the server role was on
\* at some moment since it arrived: no batch is written on an older reading.
ForwardNeedsRole ==
  \A i \in Inst : \A b \in inB[i] :
    flags[i] # {} /\ data[b].dir = "forward" /\ Permitted(i, b) => data[b].on
=============================================================================
