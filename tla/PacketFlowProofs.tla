-------------------------- MODULE PacketFlowProofs --------------------------
(***************************************************************************)
(* The invariants of PacketFlow for any peers, pool, batch and channel     *)
(* sizes and number of VpnPeers.                                           *)
(*                                                                         *)
(* No send on a closed channel: three pointers lead to a VpnPeer, the      *)
(* maps, the gateway pointer, and, after Close, a gateway pointer nobody   *)
(* cleared.  The inductive invariant IInv says that the maps lead to open  *)
(* ones of the right peer, that the gateway pointer agrees with the maps   *)
(* until Close, and that no batch is being handled after Close.            *)
(* Ownership (BInv), and on top of it tags (TagInv) and roles (RoleInv),   *)
(* follow below.                                                           *)
(***************************************************************************)
EXTENDS PacketFlow, TLAPS

MapsRight ==
  /\ inst \in [Peers -> Nat] /\ peerOf \in [Inst -> Peers \cup {None}]
  /\ \A p \in Peers : inst[p] # 0 => inst[p] \in Inst /\ peerOf[inst[p]] = p
ClosedApart == shut \subseteq Created /\ \A p \in Peers : inst[p] \notin shut
GatewayRight ==
  /\ gwOn \in Peers \cup {None}
  /\ gwOn = None => gwInst = 0
  /\ gwOn # None /\ ~isClosed => gwInst = inst[gwOn]
HandlesOpen == isClosed \in BOOLEAN /\ (rd = "handle" => ~isClosed)

IInv ==
  /\ MapsRight /\ ClosedApart /\ GatewayRight /\ HandlesOpen
  /\ panic = FALSE

-----------------------------------------------------------------------------
(* What is handed out goes to one taker each. *)
LEMMA HandoutRight ==
  ASSUME NEW S, NEW T, ExistsInjection(S, T)
  PROVE  /\ Handout(S, T) \in [S -> T] /\ Range(Handout(S, T)) \subseteq T
         /\ \A x, y \in S : Handout(S, T)[x] = Handout(S, T)[y] => x = y
         /\ \A x \in S : Handout(S, T)[x] \in Range(Handout(S, T))
         /\ \A y \in Range(Handout(S, T)) : \E x \in S : Handout(S, T)[x] = y
<1>1. Handout(S, T) \in Injection(S, T)
  BY Zenon DEF ExistsInjection, Handout
<1> QED BY <1>1, Zenon DEF Injection, IsInjective, Range

LEMMA InitHolds == Init => IInv
<1> SUFFICES ASSUME Init PROVE IInv
  OBVIOUS
<1>1. PICK known \in SUBSET Peers :
        /\ ExistsInjection(known, Inst)
        /\ inst = [p \in Peers |-> IF p \in known THEN Handout(known, Inst)[p] ELSE 0]
  BY Zenon DEF Init
<1>2. PICK h : h = Handout(known, Inst)
  OBVIOUS
<1>3. h \in [known -> Inst] /\ \A p, q \in known : h[p] = h[q] => p = q
  BY <1>1, <1>2, HandoutRight
<1>4. inst = [p \in Peers |-> IF p \in known THEN h[p] ELSE 0] /\ 0 \notin Inst /\ Inst \subseteq Nat
  BY <1>1, <1>2, BoundAssumption DEF Inst
<1>5. \A p, q \in Peers : inst[p] \in Inst /\ inst[p] = inst[q] => p = q
  BY <1>3, <1>4, Zenon
<1>6. peerOf = [i \in Inst |-> IF \E p \in Peers : inst[p] = i
                               THEN CHOOSE p \in Peers : inst[p] = i ELSE None]
  BY Zenon DEF Init
<1>7. \A i \in Inst : \/ peerOf[i] = None
                      \/ peerOf[i] \in Peers /\ inst[peerOf[i]] = i
  BY <1>6, Zenon
<1>8. inst \in [Peers -> Nat] /\ \A p \in Peers : inst[p] # 0 => inst[p] \in Inst
  BY <1>3, <1>4, Zenon
<1>9. \A p \in Peers : inst[p] # 0 => peerOf[inst[p]] = p
  <2> SUFFICES ASSUME NEW p \in Peers, inst[p] # 0 PROVE peerOf[inst[p]] = p
    OBVIOUS
  <2>1. inst[p] \in Inst
    BY <1>8, Zenon
  <2>2. PICK i \in Inst : i = inst[p]
    BY <2>1, Zenon
  <2>3. peerOf[i] \in Peers /\ inst[peerOf[i]] = i
    BY <2>2, <1>6, Zenon
  <2> QED BY <2>2, <2>3, <1>5, Zenon
<1>10. MapsRight
  BY <1>6, <1>7, <1>8, <1>9, Zenon DEF MapsRight
<1> QED BY <1>4, <1>8, <1>10, Zenon DEF Init, IInv, ClosedApart, GatewayRight, HandlesOpen

-----------------------------------------------------------------------------
(* Whatever leaves the maps, the gateway and Close alone keeps the         *)
(* invariant, unless it sends on a closed channel.                         *)
LEMMA Apart ==
  ASSUME IInv, UNCHANGED <<peers, gwOn, gwInst, isClosed>>, panic' = FALSE,
         rd' = "handle" => ~isClosed
  PROVE  IInv'
BY Zenon DEF IInv, MapsRight, Created, ClosedApart, GatewayRight, HandlesOpen, peers

(* The reader sends to a VpnPeer of the maps, or through the gateway       *)
(* pointer, which is as good while a batch is handled.                     *)
LEMMA HandleKeeps ==
  ASSUME IInv, NEW x \in TunPacket, HandlePacket(x)
  PROVE  IInv'
<1>1. \A p \in Peers : inst[p] \notin shut
  BY Zenon DEF IInv, ClosedApart
<1>2. rd = "handle" /\ ~isClosed
  BY Zenon DEF HandlePacket, IInv, HandlesOpen
<1>3. ForGateway(x) => gwInst \notin shut
  BY <1>1, <1>2, Zenon DEF ForGateway, IInv, GatewayRight
<1>4. panic = FALSE
  BY Zenon DEF IInv
<1> DEFINE b == slots[idx]
<1>5. panic' = FALSE
  <2>1. CASE b # None /\ x.dst \in Peers /\ inst[x.dst] # 0
    <3>1. HandleToPeer(b, x)
      BY <2>1, Zenon DEF HandlePacket
    <3>2. panic' = (panic \/ inst[x.dst] \in shut)
      BY <3>1, Zenon DEF HandleToPeer, Enqueue
    <3> QED BY <3>2, <2>1, <1>1, <1>4, Zenon
  <2>2. CASE b # None /\ ~(x.dst \in Peers /\ inst[x.dst] # 0) /\ x.dst = "bcast"
    <3>1. PICK connected \in SUBSET {p \in Peers : Known(p)} : HandleBroadcast(b, x, connected)
      BY <2>2, Zenon DEF HandlePacket
    <3>2. panic' = (panic \/ {inst[p] : p \in connected} \cap shut # {})
      BY <3>1, Zenon DEF HandleBroadcast
    <3> QED BY <3>2, <1>1, <1>4, Zenon
  <2>3. CASE b # None /\ ~(x.dst \in Peers /\ inst[x.dst] # 0) /\ x.dst # "bcast" /\ ForGateway(x)
    <3>1. Enqueue(b, x, gwInst, "forward")
      BY <2>3, Zenon DEF HandlePacket
    <3>2. panic' = (panic \/ gwInst \in shut)
      BY <3>1, Zenon DEF Enqueue
    <3> QED BY <3>2, <2>3, <1>3, <1>4, Zenon
  <2>4. CASE b = None \/ (~(x.dst \in Peers /\ inst[x.dst] # 0) /\ x.dst # "bcast" /\ ~ForGateway(x))
    BY <2>4, <1>4, Zenon DEF HandlePacket
  <2> QED BY <2>1, <2>2, <2>3, <2>4, Zenon
<1> QED BY <1>2, <1>5, Apart, Zenon DEF HandlePacket, roles

(* A stream's packet goes to a VpnPeer of the maps. *)
LEMMA StreamKeeps ==
  ASSUME IInv, NEW p \in Peers,
         Deliver(p) \/ \E x \in StreamPacket : ReadPacketHeader(p, x)
  PROVE  IInv'
<1>1. inst[p] \notin shut /\ panic = FALSE /\ (rd = "handle" => ~isClosed)
  BY Zenon DEF IInv, ClosedApart, HandlesOpen
<1> QED BY <1>1, Apart, Zenon DEF Deliver, ReadPacketHeader, roles, reader

LEMMA HandlersKeep ==
  ASSUME IInv, NEW i \in Inst,
         \/ InboundReceive(i) \/ InboundRoles(i) \/ writeInboundBatch(i)
         \/ OutboundReceive(i) \/ OutboundSend(i)
  PROVE  IInv'
<1>1. panic = FALSE /\ (rd = "handle" => ~isClosed)
  BY Zenon DEF IInv, HandlesOpen
<1> QED BY <1>1, Apart, Zenon DEF InboundReceive, InboundRoles, writeInboundBatch,
             OutboundReceive, OutboundSend, roles, reader

-----------------------------------------------------------------------------
(* A refresh gives added peers VpnPeers there were not before, closes only *)
(* those it takes out of the maps, and moves the gateway pointer along.    *)
LEMMA RefreshKeeps ==
  ASSUME IInv, NEW known \in SUBSET Peers, NEW exits, RefreshPeersList(known, exits)
  PROVE  IInv'
<1> DEFINE added == {p \in known : inst[p] = 0}
           removed == {inst[p] : p \in Peers \ known} \ {0}
           fresh == Handout(added, Inst \ Created)
           new == [p \in Peers |->
                     IF p \notin known THEN 0
                     ELSE IF p \in added THEN fresh[p] ELSE inst[p]]
<1>2. ExistsInjection(added, Inst \ Created)
  BY Zenon DEF RefreshPeersList
<1>3. fresh \in [added -> Inst \ Created] /\ \A p, q \in added : fresh[p] = fresh[q] => p = q
  <2> HIDE DEF added
  <2> QED BY <1>2, HandoutRight, Zenon
<1>4. /\ inst' = new
      /\ peerOf' = [i \in Inst |->
           IF i \in Created THEN peerOf[i]
           ELSE IF \E p \in added : new[p] = i
           THEN CHOOSE p \in added : new[p] = i ELSE None]
      /\ Rebind(new)
  BY Zenon DEF RefreshPeersList
<1> HIDE DEF fresh
<1>5. shut' = shut \cup removed
  BY Zenon DEF RefreshPeersList, Close
<1>6. ~isClosed /\ UNCHANGED <<isClosed, panic, rd>>
  BY Zenon DEF RefreshPeersList, reader
<1>7. \A p \in added : new[p] = fresh[p] /\ new[p] \in Inst /\ new[p] \notin Created
  BY <1>3, Zenon
<1>8. \A p, q \in added : new[p] = new[q] => p = q
  BY <1>3, <1>7, Zenon
<1>9. \A p \in Peers : p \notin added => new[p] = 0 \/ (p \in known /\ new[p] = inst[p])
  OBVIOUS
<1>10. inst' = [p \in Peers |-> new[p]]
  BY <1>4, Zenon
<1> HIDE DEF new
<1>11. Inst \subseteq Nat /\ 0 \notin Inst /\ Created \subseteq Inst
  BY BoundAssumption DEF Inst, Created
<1>12. \A p \in Peers : inst[p] # 0 => inst[p] \in Created /\ peerOf[inst[p]] = p
  BY PeersAssumption, Zenon DEF IInv, MapsRight, Created
<1>13. \A p \in added : peerOf'[new[p]] = p
  <2> SUFFICES ASSUME NEW p \in added PROVE peerOf'[new[p]] = p
    OBVIOUS
  <2>1. PICK i \in Inst : i = new[p] /\ i \notin Created
    BY <1>7, Zenon
  <2>2. peerOf'[i] = CHOOSE q \in added : new[q] = i
    BY <1>4, <2>1, Zenon
  <2>3. peerOf'[i] \in added /\ new[peerOf'[i]] = i
    BY <2>1, <2>2, Zenon
  <2> QED BY <2>1, <2>3, <1>8, Zenon
<1>14. \A i \in Created : peerOf'[i] = peerOf[i]
  BY <1>4, <1>11, Zenon
<1>15. MapsRight'
  <2>1. inst' \in [Peers -> Nat]
    <3>1. ASSUME NEW p \in Peers PROVE new[p] \in Nat
      <4>1. inst[p] \in Nat
        BY Zenon DEF IInv, MapsRight
      <4>2. CASE p \in added
        BY <4>2, <1>7, <1>11, Zenon
      <4>3. CASE p \notin added
        BY <4>1, <4>3, <1>9
      <4> QED BY <4>2, <4>3, Zenon
    <3> QED BY <1>10, <3>1, Zenon
  <2>2. peerOf' \in [Inst -> Peers \cup {None}]
    <3>1. \A i \in Inst : peerOf[i] \in Peers \cup {None}
      BY Zenon DEF IInv, MapsRight
    <3> QED BY <1>4, <3>1, Zenon
  <2>3. ASSUME NEW p \in Peers, new[p] # 0
        PROVE  new[p] \in Inst /\ peerOf'[new[p]] = p
    <3>1. CASE p \in added
      BY <3>1, <1>7, <1>13, Zenon
    <3>2. CASE p \notin added
      <4>1. new[p] = inst[p] /\ inst[p] # 0
        BY <3>2, <2>3, <1>9, Zenon
      <4> QED BY <4>1, <1>11, <1>12, <1>14, Zenon
    <3> QED BY <3>1, <3>2, Zenon
  <2> QED BY <2>1, <2>2, <2>3, <1>4, Zenon DEF MapsRight
<1>16. ClosedApart'
  <2>1. removed \subseteq Created /\ shut \subseteq Created
    BY <1>12, Zenon DEF IInv, ClosedApart
  <2>2. shut' \subseteq Created'
    BY <2>1, <1>5, <1>14, Zenon DEF Created
  <2>3. ASSUME NEW p \in Peers PROVE new[p] \notin shut'
    <3>1. CASE p \in added
      BY <3>1, <2>1, <1>5, <1>7, Zenon
    <3>2. CASE new[p] = 0
      BY <3>2, <2>1, <1>5, <1>11, Zenon
    <3>3. CASE p \in known /\ new[p] = inst[p] /\ new[p] # 0
      <4>1. inst[p] \notin shut
        BY Zenon DEF IInv, ClosedApart
      <4>2. inst[p] \notin removed
        BY <3>3, <1>12
      <4> QED BY <3>3, <4>1, <4>2, <1>5, Zenon
    <3> QED BY <3>1, <3>2, <3>3, <1>9, Zenon
  <2> QED BY <2>2, <2>3, <1>4, Zenon DEF ClosedApart
<1>17. GatewayRight'
  BY <1>4, <1>6, Zenon DEF IInv, GatewayRight, Rebind
<1>18. HandlesOpen' /\ panic' = FALSE
  BY <1>6, Zenon DEF IInv, HandlesOpen
<1> QED BY <1>15, <1>16, <1>17, <1>18, Zenon DEF IInv

-----------------------------------------------------------------------------
(* The gateway roles and Close. *)
LEMMA RolesKeep ==
  ASSUME IInv,
         \/ \E p \in Peers : SetVPNGatewayPeer(p)
         \/ ClearVPNGatewayPeer \/ SetVPNGatewayServerEnabled
  PROVE  IInv'
<1>1. UNCHANGED <<inst, peerOf, shut, isClosed, rd, panic>>
  BY Zenon DEF SetVPNGatewayPeer, ClearVPNGatewayPeer, SetVPNGatewayServerEnabled, peers, reader
<1>2. MapsRight' /\ ClosedApart' /\ HandlesOpen' /\ panic' = FALSE
  BY <1>1, Zenon DEF IInv, MapsRight, Created, ClosedApart, HandlesOpen
<1>3. GatewayRight'
  BY <1>1, PeersAssumption, Zenon DEF IInv, GatewayRight, SetVPNGatewayPeer,
     ClearVPNGatewayPeer, SetVPNGatewayServerEnabled
<1> QED BY <1>2, <1>3, Zenon DEF IInv

LEMMA CloseKeeps == ASSUME IInv, CloseTunnel PROVE IInv'
<1>1. /\ inst' = [p \in Peers |-> 0] /\ shut' = shut \cup ({inst[p] : p \in Peers} \ {0})
      /\ isClosed' = TRUE /\ rd # "handle" /\ UNCHANGED <<peerOf, rd, gwOn, gwInst, panic>>
  BY Zenon DEF CloseTunnel, Close, Unlocked, reader
<1>2. MapsRight' /\ HandlesOpen' /\ GatewayRight' /\ panic' = FALSE
  BY <1>1, Zenon DEF IInv, MapsRight, Created, HandlesOpen, GatewayRight
<1>3. shut' \subseteq Created'
  BY <1>1, PeersAssumption DEF IInv, MapsRight, ClosedApart, Created
<1>4. 0 \notin Created'
  BY BoundAssumption DEF Created, Inst
<1>5. ClosedApart'
  BY <1>1, <1>3, <1>4, Zenon DEF ClosedApart
<1> QED BY <1>2, <1>5, Zenon DEF IInv

LEMMA NextHolds == IInv /\ [Next]_vars => IInv'
<1> SUFFICES ASSUME IInv, [Next]_vars PROVE IInv'
  OBVIOUS
<1>1. CASE UNCHANGED vars
  BY <1>1, Apart, Zenon DEF vars, roles, reader, IInv, HandlesOpen
<1>2. CASE \E x \in TunPacket : HandlePacket(x)
  BY <1>2, HandleKeeps, Zenon
<1>3. CASE \E known \in SUBSET Peers : \E exits \in SUBSET known : RefreshPeersList(known, exits)
  BY <1>3, RefreshKeeps, Zenon
<1>4. CASE \/ \E p \in Peers : SetVPNGatewayPeer(p)
           \/ ClearVPNGatewayPeer \/ SetVPNGatewayServerEnabled
  BY <1>4, RolesKeep, Zenon
<1>5. CASE CloseTunnel
  BY <1>5, CloseKeeps, Zenon
<1>6. CASE \E n \in 1..Batch : \E bad \in SUBSET (1..n) : ReadTUNPackets(n, bad)
  BY <1>6, Apart, Zenon DEF ReadTUNPackets, Handled, roles, IInv, HandlesOpen
<1>7. CASE \E p \in Peers : Deliver(p) \/ \E x \in StreamPacket : ReadPacketHeader(p, x)
  BY <1>7, StreamKeeps, Zenon
<1>8. CASE \E i \in Inst : \/ InboundReceive(i) \/ InboundRoles(i) \/ writeInboundBatch(i)
                           \/ OutboundReceive(i) \/ OutboundSend(i)
  BY <1>8, HandlersKeep, Zenon
<1> QED BY <1>1, <1>2, <1>3, <1>4, <1>5, <1>6, <1>7, <1>8, Zenon DEF Next

(***************************************************************************)
(* For any peers, batch and channel sizes: no goroutine sends on a closed  *)
(* channel, through the maps or the gateway pointer, before or after Close. *)
(***************************************************************************)
THEOREM ClosedUnused == Spec => []NoSendOnClosed
<1>1. IInv => NoSendOnClosed
  BY Zenon DEF IInv, NoSendOnClosed
<1> QED BY InitHolds, NextHolds, <1>1, PTL DEF Spec

-----------------------------------------------------------------------------
(***************************************************************************)
(* Buffers.  Where a buffer sits is a kind of place and which one of them; *)
(* the ownership invariant says that every buffer sits somewhere, hence    *)
(* nowhere else.                                                           *)
(***************************************************************************)
Place(k, x) ==
  \/ k = "pool" /\ x = 0
  \/ k = "slot" /\ x \in 1..Batch
  \/ k = "stream" /\ x \in Peers
  \/ k \in {"in", "out", "inB", "outB"} /\ x \in Inst

Sits(b, k, x) ==
  /\ Place(k, x)
  /\ b \in pool <=> k = "pool"
  /\ \A j \in 1..Batch : slots[j] = b <=> k = "slot" /\ x = j
  /\ \A p \in Peers : sbuf[p] = b <=> k = "stream" /\ x = p
  /\ \A i \in Inst :
       /\ b \in Held(inCh[i]) <=> k = "in" /\ x = i
       /\ b \in Held(outCh[i]) <=> k = "out" /\ x = i
       /\ b \in inB[i] <=> k = "inB" /\ x = i
       /\ b \in outB[i] <=> k = "outB" /\ x = i

Owned == \A b \in Buffers : \E k, x : Sits(b, k, x)

(* A buffer stays where it is when a step moves only others. *)
LEMMA SitsStill ==
  ASSUME NEW b, NEW k, NEW x, Sits(b, k, x),
         b \in pool' <=> b \in pool,
         \A j \in 1..Batch : slots'[j] = b <=> slots[j] = b,
         \A p \in Peers : sbuf'[p] = b <=> sbuf[p] = b,
         \A i \in Inst : b \in Held(inCh'[i]) <=> b \in Held(inCh[i]),
         \A i \in Inst : b \in Held(outCh'[i]) <=> b \in Held(outCh[i]),
         \A i \in Inst : b \in inB'[i] <=> b \in inB[i],
         \A i \in Inst : b \in outB'[i] <=> b \in outB[i]
  PROVE  Sits(b, k, x)'
<1>1. Place(k, x) /\ (b \in pool' <=> k = "pool")
  BY Zenon DEF Sits
<1>2. \A j \in 1..Batch : slots'[j] = b <=> k = "slot" /\ x = j
  BY Zenon DEF Sits
<1>3. \A p \in Peers : sbuf'[p] = b <=> k = "stream" /\ x = p
  BY Zenon DEF Sits
<1>4. \A i \in Inst : b \in Held(inCh'[i]) <=> k = "in" /\ x = i
  BY Zenon DEF Sits
<1>5. \A i \in Inst : b \in Held(outCh'[i]) <=> k = "out" /\ x = i
  BY Zenon DEF Sits
<1>6. \A i \in Inst : b \in inB'[i] <=> k = "inB" /\ x = i
  BY Zenon DEF Sits
<1>7. \A i \in Inst : b \in outB'[i] <=> k = "outB" /\ x = i
  BY Zenon DEF Sits
<1> QED BY <1>1, <1>2, <1>3, <1>4, <1>5, <1>6, <1>7, Zenon DEF Sits

Queue(ch) == ch \in Seq(Buffers) /\ IsInjective(ch)

BufTypes ==
  /\ pool \subseteq Buffers
  /\ slots \in [1..Batch -> Buffers \cup {None}]
  /\ sbuf \in [Peers -> Buffers \cup {None}]
  /\ inCh \in [Inst -> Seq(Buffers)] /\ outCh \in [Inst -> Seq(Buffers)]
  /\ \A i \in Inst : Queue(inCh[i]) /\ Queue(outCh[i])
  /\ inB \in [Inst -> SUBSET Buffers] /\ outB \in [Inst -> SUBSET Buffers]

(* The reader's loop stays within the packets it read. *)
ReaderTypes ==
  /\ idx \in Nat /\ cnt \in Nat
  /\ rd = "handle" => idx \in 1..cnt /\ cnt \in 1..Batch

BInv == BufTypes /\ ReaderTypes /\ Owned

(* What a queue holds, and what joining or leaving it does. *)
LEMMA HeldByQueue ==
  ASSUME NEW ch \in Seq(Buffers)
  PROVE  /\ \A b : b \in Held(ch) <=> \E j \in 1..Len(ch) : ch[j] = b
         /\ Held(ch) \subseteq Buffers
<1>1. DOMAIN ch = 1..Len(ch) /\ \A j \in 1..Len(ch) : ch[j] \in Buffers
  OBVIOUS
<1> QED BY <1>1, BoundAssumption, Zenon DEF Held, Buffers

LEMMA EmptyQueue == Queue(<<>>) /\ Held(<<>>) = {}
BY DEF Queue, IsInjective, Held

LEMMA Joins ==
  ASSUME NEW ch, Queue(ch), NEW b \in Buffers, b \notin Held(ch)
  PROVE  Queue(Append(ch, b)) /\ Held(Append(ch, b)) = Held(ch) \cup {b}
<1> DEFINE new == Append(ch, b)
<1>1. /\ ch \in Seq(Buffers) /\ new \in Seq(Buffers) /\ Len(new) = Len(ch) + 1
      /\ Len(ch) \in Nat
      /\ \A j \in 1..Len(ch) : new[j] = ch[j]
      /\ new[Len(ch) + 1] = b
  BY DEF Queue
<1> HIDE DEF new
<1>2. /\ \A c : c \in Held(ch) <=> \E j \in 1..Len(ch) : ch[j] = c
      /\ \A c : c \in Held(new) <=> \E j \in 1..Len(new) : new[j] = c
  BY <1>1, HeldByQueue, Zenon
<1>3. 1..Len(new) = 1..Len(ch) \cup {Len(ch) + 1}
  BY <1>1
<1>4. Held(new) = Held(ch) \cup {b}
  BY <1>1, <1>2, <1>3
<1>5. \A j, k \in 1..Len(ch) : ch[j] = ch[k] => j = k
  BY <1>1 DEF Queue, IsInjective
<1>6. \A j \in 1..Len(ch) : ch[j] # b
  BY <1>2, Zenon
<1>7. \A j, k \in 1..Len(new) : new[j] = new[k] => j = k
  BY <1>1, <1>3, <1>5, <1>6, Zenon
<1>8. IsInjective(new)
  BY <1>1, <1>7 DEF IsInjective
<1> QED BY <1>1, <1>4, <1>8, Zenon DEF Queue, new

LEMMA Leaves ==
  ASSUME NEW ch, Queue(ch)
  PROVE  /\ Queue(Rest(ch))
         /\ Held(ch) = Held(readBatch(ch)) \cup Held(Rest(ch))
         /\ Held(readBatch(ch)) \cap Held(Rest(ch)) = {}
<1> DEFINE n == Least(Len(ch), Batch)
           m == Len(ch) - n
           head == readBatch(ch)
           tail == Rest(ch)
<1>0. ch \in Seq(Buffers) /\ Len(ch) \in Nat
  BY DEF Queue
<1>1. ch \in Seq(Buffers) /\ Len(ch) \in Nat /\ n \in Nat /\ m \in Nat /\ Len(ch) = n + m
  BY <1>0, BoundAssumption DEF Least
<1>2. \A j, k \in 1..Len(ch) : ch[j] = ch[k] => j = k
  <2>1. DOMAIN ch = 1..Len(ch)
    BY <1>0
  <2> QED BY <2>1, Zenon DEF Queue, IsInjective
<1>3. /\ head \in Seq(Buffers) /\ Len(head) = n
      /\ \A j \in 1..n : head[j] = ch[j]
  <2>1. head = SubSeq(ch, 1, n)
    BY Zenon DEF readBatch
  <2> HIDE DEF n, m, head
  <2> QED BY <1>1, <2>1
<1>4. /\ tail \in Seq(Buffers) /\ Len(tail) = m
      /\ \A j \in 1..m : tail[j] = ch[n + j]
  <2>1. tail = SubSeq(ch, n + 1, n + m)
    BY <1>1, Zenon DEF Rest
  <2> HIDE DEF n, m, tail
  <2>2. PICK p \in Int, q \in Int : p = n + 1 /\ q = n + m
    BY <1>1
  <2>3. \A j \in p..q : ch[j] \in Buffers
    BY <1>1, <2>2
  <2>4. \A j \in 1..m : p + j - 1 = n + j
    BY <1>1, <2>2
  <2>5. /\ SubSeq(ch, p, q) \in Seq(Buffers)
        /\ Len(SubSeq(ch, p, q)) = IF p <= q THEN q - p + 1 ELSE 0
        /\ \A j \in 1..(q - p + 1) : SubSeq(ch, p, q)[j] = ch[p + j - 1]
    BY <2>2, <2>3
  <2>7. q - p + 1 = m /\ (IF p <= q THEN q - p + 1 ELSE 0) = m
    BY <1>1, <2>2
  <2>6. /\ tail \in Seq(Buffers) /\ Len(tail) = m
        /\ \A j \in 1..m : tail[j] = ch[p + j - 1]
    BY <2>1, <2>2, <2>5, <2>7, Zenon
  <2> QED BY <2>4, <2>6, Zenon
<1> HIDE DEF n, m, head, tail
<1>5. /\ \A b : b \in Held(ch) <=> \E j \in 1..Len(ch) : ch[j] = b
      /\ \A b : b \in Held(head) <=> \E j \in 1..n : ch[j] = b
      /\ \A b : b \in Held(tail) <=> \E j \in 1..m : ch[n + j] = b
  <2>1. \A b : b \in Held(ch) <=> \E j \in 1..Len(ch) : ch[j] = b
    BY <1>1, HeldByQueue, Zenon
  <2>2. \A b : b \in Held(head) <=> \E j \in 1..n : head[j] = b
    BY <1>3, HeldByQueue, Zenon
  <2>3. \A b : b \in Held(tail) <=> \E j \in 1..m : tail[j] = b
    BY <1>4, HeldByQueue, Zenon
  <2>4. \A b : (\E j \in 1..n : head[j] = b) <=> (\E j \in 1..n : ch[j] = b)
    BY <1>3, Zenon
  <2>5. \A b : (\E j \in 1..m : tail[j] = b) <=> (\E j \in 1..m : ch[n + j] = b)
    BY <1>4, Zenon
  <2> QED BY <2>1, <2>2, <2>3, <2>4, <2>5, Zenon
<1>6. \A j \in 1..Len(ch) : j \in 1..n \/ \E k \in 1..m : n + k = j
  <2> SUFFICES ASSUME NEW j \in 1..Len(ch), j \notin 1..n PROVE \E k \in 1..m : n + k = j
    OBVIOUS
  <2>1. j - n \in 1..m /\ n + (j - n) = j
    BY <1>1
  <2> QED BY <2>1, Zenon
<1>7. /\ \A j \in 1..m : n + j \in 1..Len(ch) /\ n + j \notin 1..n
      /\ \A j \in 1..n : j \in 1..Len(ch)
      /\ \A j, k \in 1..m : n + j = n + k => j = k
  BY <1>1
<1>8. Held(ch) = Held(head) \cup Held(tail)
  BY <1>5, <1>6, <1>7, Zenon
<1>9. Held(head) \cap Held(tail) = {}
  BY <1>2, <1>5, <1>7
<1>10. IsInjective(tail)
  <2>1. \A j, k \in 1..m : ch[n + j] = ch[n + k] => j = k
    BY <1>2, <1>7, Zenon
  <2>2. DOMAIN tail = 1..m
    BY <1>4
  <2> QED BY <1>4, <2>1, <2>2, Zenon DEF IsInjective
<1> QED BY <1>4, <1>8, <1>9, <1>10, Zenon DEF Queue, head, tail

(* No buffer sits in two places. *)
LEMMA SitsOnce ==
  ASSUME NEW b, NEW k, NEW x, NEW l, NEW y, Sits(b, k, x), Sits(b, l, y)
  PROVE  k = l /\ x = y
BY Zenon DEF Sits, Place

LEMMA InitOwned == Init => BInv
<1> SUFFICES ASSUME Init PROVE BInv
  OBVIOUS
<1>1. BufTypes
  BY EmptyQueue DEF Init, BufTypes
<1>2. ReaderTypes
  BY Zenon DEF Init, ReaderTypes
<1>3. ASSUME NEW b \in Buffers PROVE Sits(b, "pool", 0)
  <2>1. b # None
    BY BoundAssumption, Zenon DEF Buffers
  <2> QED BY <2>1, EmptyQueue, Zenon DEF Init, Sits, Place
<1> QED BY <1>1, <1>2, <1>3, Zenon DEF BInv, Owned

(* Batches that were written or sent go back to the pool. *)
LEMMA BatchReturned ==
  ASSUME BInv, NEW i \in Inst, writeInboundBatch(i) \/ OutboundSend(i)
  PROVE  BInv'
<1>1. /\ UNCHANGED <<slots, sbuf, inCh, outCh, rd, idx, cnt>>
      /\ \/ pool' = pool \cup inB[i] /\ inB' = [inB EXCEPT ![i] = {}] /\ outB' = outB
         \/ pool' = pool \cup outB[i] /\ outB' = [outB EXCEPT ![i] = {}] /\ inB' = inB
  BY Zenon DEF writeInboundBatch, OutboundSend, reader
<1>2. BufTypes' /\ ReaderTypes'
  BY <1>1, Zenon DEF BInv, BufTypes, ReaderTypes
<1>3. ASSUME NEW b \in Buffers, NEW k, NEW x, Sits(b, k, x)
      PROVE  \E l, y : Sits(b, l, y)'
  <2>1. CASE b \in pool' /\ b \notin pool
    <3>1. Sits(b, "pool", 0)'
      BY <1>1, <1>3, <2>1, ZenonT(40) DEF Sits, Place, BInv, BufTypes
    <3> QED BY <3>1, Zenon
  <2>2. CASE b \notin pool' \/ b \in pool
    <3>1. Sits(b, k, x)'
      BY <1>1, <1>3, <2>2 DEF Sits, Place, BInv, BufTypes
    <3> QED BY <3>1, Zenon
  <2> QED BY <2>1, <2>2, Zenon
<1> QED BY <1>2, <1>3, Zenon DEF BInv, Owned

(* A batch leaves its channel; what does not parse goes back at once. *)
LEMMA BatchReceived ==
  ASSUME BInv, NEW i \in Inst, InboundReceive(i) \/ OutboundReceive(i)
  PROVE  BInv'
<1>0. Queue(inCh[i]) /\ Queue(outCh[i])
  BY Zenon DEF BInv, BufTypes
<1>1. CASE InboundReceive(i)
  <2> DEFINE batch == Held(readBatch(inCh[i]))
             good == {b \in batch : data[b].ok}
             bad == {b \in batch : ~data[b].ok}
  <2>1. /\ inB[i] = {} /\ UNCHANGED <<slots, sbuf, outCh, outB, rd, idx, cnt>>
        /\ pool' = pool \cup bad
        /\ inCh' = [inCh EXCEPT ![i] = Rest(@)] /\ inB' = [inB EXCEPT ![i] = good]
    BY <1>1, Zenon DEF InboundReceive, Filtered, reader
  <2>2. /\ Queue(Rest(inCh[i])) /\ Held(inCh[i]) = batch \cup Held(Rest(inCh[i]))
        /\ batch \cap Held(Rest(inCh[i])) = {} /\ batch \subseteq Buffers
    BY <1>0, Leaves, HeldByQueue, Zenon DEF Queue
  <2> HIDE DEF batch
  <2>3. /\ good \subseteq batch /\ bad \subseteq batch /\ good \cap bad = {} /\ batch = good \cup bad
    OBVIOUS
  <2> HIDE DEF good, bad
  <2>4. /\ inCh'[i] = Rest(inCh[i]) /\ \A j \in Inst \ {i} : inCh'[j] = inCh[j]
        /\ inB'[i] = good /\ \A j \in Inst \ {i} : inB'[j] = inB[j]
    BY <2>1, Zenon DEF BInv, BufTypes
  <2>5. BufTypes' /\ ReaderTypes'
    BY <2>1, <2>2, <2>3, <2>4, Zenon DEF BInv, BufTypes, ReaderTypes, Queue
  <2>6. ASSUME NEW b \in Buffers, NEW k, NEW x, Sits(b, k, x)
        PROVE  \E l, y : Sits(b, l, y)'
    <3>1. CASE b \in bad
      <4>1. k = "in" /\ x = i
        BY <2>2, <2>3, <2>6, <3>1, Zenon DEF Sits
      <4>2. Sits(b, "pool", 0)'
        BY <2>1, <2>2, <2>3, <2>4, <2>6, <3>1, <4>1, Zenon DEF Sits, Place
      <4> QED BY <4>2, Zenon
    <3>2. CASE b \in good
      <4>1. k = "in" /\ x = i
        BY <2>2, <2>3, <2>6, <3>2, Zenon DEF Sits
      <4>2. /\ b \notin pool /\ \A j \in 1..Batch : slots[j] # b
            /\ \A q \in Peers : sbuf[q] # b
            /\ \A h \in Inst : /\ b \in Held(inCh[h]) <=> h = i
                               /\ b \notin Held(outCh[h]) /\ b \notin inB[h] /\ b \notin outB[h]
        BY <2>6, <4>1, Zenon DEF Sits
      <4>3. b \notin pool' /\ \A h \in Inst : b \notin Held(inCh'[h])
        BY <2>1, <2>2, <2>3, <2>4, <3>2, <4>2
      <4>4. \A h \in Inst : b \in inB'[h] <=> h = i
        BY <2>4, <3>2, <4>2
      <4>5. Sits(b, "inB", i)'
        BY <2>1, <4>2, <4>3, <4>4, Zenon DEF Sits, Place
      <4> QED BY <4>5, Zenon
    <3>3. CASE b \notin batch
      <4>1. Sits(b, k, x)'
        BY <2>1, <2>2, <2>3, <2>4, <2>6, <3>3 DEF Sits
      <4> QED BY <4>1, Zenon
    <3> QED BY <2>3, <3>1, <3>2, <3>3, Zenon
  <2> QED BY <2>5, <2>6, Zenon DEF BInv, Owned
<1>2. CASE OutboundReceive(i)
  <2> DEFINE batch == Held(readBatch(outCh[i]))
  <2>1. /\ outB[i] = {} /\ UNCHANGED <<pool, slots, sbuf, inCh, inB, rd, idx, cnt>>
        /\ outCh' = [outCh EXCEPT ![i] = Rest(@)] /\ outB' = [outB EXCEPT ![i] = batch]
    BY <1>2, Zenon DEF OutboundReceive, reader
  <2>2. /\ Queue(Rest(outCh[i])) /\ Held(outCh[i]) = batch \cup Held(Rest(outCh[i]))
        /\ batch \cap Held(Rest(outCh[i])) = {} /\ batch \subseteq Buffers
    BY <1>0, Leaves, HeldByQueue, Zenon DEF Queue
  <2> HIDE DEF batch
  <2>4. /\ outCh'[i] = Rest(outCh[i]) /\ \A j \in Inst \ {i} : outCh'[j] = outCh[j]
        /\ outB'[i] = batch /\ \A j \in Inst \ {i} : outB'[j] = outB[j]
    BY <2>1, Zenon DEF BInv, BufTypes
  <2>5. BufTypes' /\ ReaderTypes'
    BY <2>1, <2>2, <2>4, Zenon DEF BInv, BufTypes, ReaderTypes, Queue
  <2>6. ASSUME NEW b \in Buffers, NEW k, NEW x, Sits(b, k, x)
        PROVE  \E l, y : Sits(b, l, y)'
    <3>1. CASE b \in batch
      <4>1. k = "out" /\ x = i
        BY <2>2, <2>6, <3>1, Zenon DEF Sits
      <4>2. Sits(b, "outB", i)'
        BY <2>1, <2>2, <2>4, <2>6, <3>1, <4>1 DEF Sits, Place
      <4> QED BY <4>2, Zenon
    <3>2. CASE b \notin batch
      <4>1. Sits(b, k, x)'
        BY <2>1, <2>2, <2>4, <2>6, <3>2 DEF Sits
      <4> QED BY <4>1, Zenon
    <3> QED BY <3>1, <3>2, Zenon
  <2> QED BY <2>5, <2>6, Zenon DEF BInv, Owned
<1> QED BY <1>1, <1>2, Zenon

(* A stream handler takes a buffer from the pool ... *)
LEMMA HeaderOwned ==
  ASSUME BInv, NEW p \in Peers, NEW r, ReadPacketHeader(p, r)
  PROVE  BInv'
<1>n. PICK c : c = CHOOSE d \in pool : TRUE
  OBVIOUS
<1>1. /\ sbuf[p] = None /\ pool' = pool \ {c} /\ sbuf' = [sbuf EXCEPT ![p] = c] /\ c \in pool
      /\ UNCHANGED <<slots, inCh, outCh, inB, outB, rd, idx, cnt>>
  BY <1>n, Zenon DEF ReadPacketHeader, chans
<1>2. /\ sbuf'[p] = c /\ \A q \in Peers \ {p} : sbuf'[q] = sbuf[q]
      /\ c \in Buffers /\ None \notin Buffers
  BY <1>1, BoundAssumption, Zenon DEF BInv, BufTypes, Buffers
<1>3. BufTypes' /\ ReaderTypes'
  BY <1>1, <1>2, Zenon DEF BInv, BufTypes, ReaderTypes
<1>4. ASSUME NEW b \in Buffers, NEW k, NEW x, Sits(b, k, x)
      PROVE  \E l, y : Sits(b, l, y)'
  <2>1. CASE b = c
    <3>1. k = "pool"
      BY <1>1, <1>4, <2>1, Zenon DEF Sits
    <3>2. Sits(b, "stream", p)'
      BY <1>1, <1>2, <1>4, <2>1, <3>1, Zenon DEF Sits, Place
    <3> QED BY <3>2, Zenon
  <2>2. CASE b # c
    <3>1. Sits(b, k, x)'
      BY <1>1, <1>2, <1>4, <2>2, Zenon DEF Sits
    <3> QED BY <3>1, Zenon
  <2> QED BY <2>1, <2>2, Zenon
<1> QED BY <1>3, <1>4, Zenon DEF BInv, Owned

(* ... and hands it to the channel of its VpnPeer, or back. *)
LEMMA DeliverOwned ==
  ASSUME IInv, BInv, NEW p \in Peers, Deliver(p)
  PROVE  BInv'
<1>n. PICK c, i : c = sbuf[p] /\ i = inst[p]
  OBVIOUS
<1>1. /\ c # None /\ sbuf' = [sbuf EXCEPT ![p] = None]
      /\ \/ i # 0 /\ Room(inCh, i) /\ inCh' = [inCh EXCEPT ![i] = Append(@, c)] /\ UNCHANGED pool
         \/ pool' = pool \cup {c} /\ UNCHANGED inCh
      /\ UNCHANGED <<slots, outCh, inB, outB, rd, idx, cnt>>
  BY <1>n, Zenon DEF Deliver, Sent, reader
<1>2. /\ c \in Buffers /\ None \notin Buffers
      /\ i # 0 => i \in Inst
      /\ sbuf'[p] = None /\ \A q \in Peers \ {p} : sbuf'[q] = sbuf[q]
  BY <1>n, <1>1, BoundAssumption, Zenon DEF BInv, BufTypes, Buffers, IInv, MapsRight
<1>3. ASSUME NEW k, NEW x, Sits(c, k, x) PROVE k = "stream" /\ x = p
  BY <1>n, <1>3, Zenon DEF Sits
<1>4. CASE pool' = pool \cup {c} /\ UNCHANGED inCh
  <2>1. BufTypes' /\ ReaderTypes'
    BY <1>1, <1>2, <1>4, Zenon DEF BInv, BufTypes, ReaderTypes
  <2>2. ASSUME NEW b \in Buffers, NEW k, NEW x, Sits(b, k, x)
        PROVE  \E l, y : Sits(b, l, y)'
    <3>1. CASE b = c
      <4>1. Sits(b, "pool", 0)'
        BY <1>1, <1>2, <1>3, <1>4, <2>2, <3>1 DEF Sits, Place
      <4> QED BY <4>1, Zenon
    <3>2. CASE b # c
      <4>1. Sits(b, k, x)'
        <5>1. b \in pool' <=> b \in pool
          BY <1>4, <3>2, Zenon
        <5>2. \A q \in Peers : sbuf'[q] = b <=> sbuf[q] = b
          BY <1>n, <1>2, <3>2, Zenon
        <5> QED BY <1>1, <1>4, <2>2, <5>1, <5>2, SitsStill, Zenon
      <4> QED BY <4>1, Zenon
    <3> QED BY <3>1, <3>2, Zenon
  <2> QED BY <2>1, <2>2, Zenon DEF BInv, Owned
<1>5. CASE i # 0 /\ inCh' = [inCh EXCEPT ![i] = Append(@, c)] /\ UNCHANGED pool
  <2>1. c \notin Held(inCh[i])
    BY <1>2, <1>3, <1>5 DEF BInv, Owned, Sits
  <2>2. Queue(Append(inCh[i], c)) /\ Held(Append(inCh[i], c)) = Held(inCh[i]) \cup {c}
    BY <1>2, <1>5, <2>1, Joins, Zenon DEF BInv, BufTypes
  <2>3. inCh'[i] = Append(inCh[i], c) /\ \A j \in Inst \ {i} : inCh'[j] = inCh[j]
    BY <1>2, <1>5, Zenon DEF BInv, BufTypes
  <2>4. BufTypes' /\ ReaderTypes'
    BY <1>1, <1>2, <1>5, <2>2, <2>3, Zenon DEF BInv, BufTypes, ReaderTypes, Queue
  <2>5. ASSUME NEW b \in Buffers, NEW k, NEW x, Sits(b, k, x)
        PROVE  \E l, y : Sits(b, l, y)'
    <3>1. CASE b = c
      <4>1. /\ b \notin pool /\ \A j \in 1..Batch : slots[j] # b
            /\ \A q \in Peers \ {p} : sbuf[q] # b
            /\ \A h \in Inst : /\ b \notin Held(inCh[h]) /\ b \notin Held(outCh[h])
                               /\ b \notin inB[h] /\ b \notin outB[h]
        BY <1>3, <2>5, <3>1 DEF Sits
      <4>2. /\ \A q \in Peers : sbuf'[q] # b
            /\ \A h \in Inst : b \in Held(inCh'[h]) <=> h = i
        BY <1>2, <2>2, <2>3, <3>1, <4>1, Zenon
      <4>3. Sits(b, "in", i)'
        BY <1>1, <1>2, <1>5, <4>1, <4>2, Zenon DEF Sits, Place
      <4> QED BY <4>3, Zenon
    <3>2. CASE b # c
      <4>1. Sits(b, k, x)'
        <5>1. \A q \in Peers : sbuf'[q] = b <=> sbuf[q] = b
          BY <1>n, <1>2, <3>2, Zenon
        <5>2. \A h \in Inst : b \in Held(inCh'[h]) <=> b \in Held(inCh[h])
          <6>1. b \in Held(inCh'[i]) <=> b \in Held(inCh[i])
            BY <2>2, <2>3, <3>2, Zenon
          <6> QED BY <2>3, <6>1, Zenon
        <5> QED BY <1>1, <1>5, <2>5, <5>1, <5>2, SitsStill, Zenon
      <4> QED BY <4>1, Zenon
    <3> QED BY <3>1, <3>2, Zenon
  <2> QED BY <2>4, <2>5, Zenon DEF BInv, Owned
<1> QED BY <1>1, <1>4, <1>5, Zenon

(* A packet of the reader's slice goes to a channel with room. *)
LEMMA EnqueueOwned ==
  ASSUME BInv, NEW i \in Inst, NEW r, NEW dir, rd = "handle", slots[idx] # None,
         Enqueue(slots[idx], r, i, dir), NextPacket,
         UNCHANGED <<cnt, sbuf, inCh, inB, outB>>
  PROVE  BInv'
<1>n. PICK c, j : c = slots[idx] /\ j = idx
  OBVIOUS
<1>0. j \in 1..Batch /\ c \in Buffers /\ None \notin Buffers
  BY <1>n, BoundAssumption DEF BInv, BufTypes, ReaderTypes, Buffers
<1>1. ReaderTypes'
  BY DEF NextPacket, BInv, ReaderTypes
<1>2. ASSUME NEW k, NEW x, Sits(c, k, x) PROVE k = "slot" /\ x = j
  BY <1>n, <1>0, <1>2, Zenon DEF Sits
<1>3. UNCHANGED pool
  BY Zenon DEF Enqueue
<1>4. CASE Room(outCh, i)
  <2>1. outCh' = [outCh EXCEPT ![i] = Append(@, c)] /\ slots' = [slots EXCEPT ![j] = None]
    BY <1>n, <1>4, Zenon DEF Enqueue, Sent
  <2>2. c \notin Held(outCh[i])
    BY <1>0, <1>2, Zenon DEF BInv, Owned, Sits
  <2>3. Queue(Append(outCh[i], c)) /\ Held(Append(outCh[i], c)) = Held(outCh[i]) \cup {c}
    BY <1>0, <2>2, Joins, Zenon DEF BInv, BufTypes
  <2>4. /\ outCh'[i] = Append(outCh[i], c) /\ \A h \in Inst \ {i} : outCh'[h] = outCh[h]
        /\ slots'[j] = None /\ \A h \in 1..Batch \ {j} : slots'[h] = slots[h]
    BY <1>0, <2>1, Zenon DEF BInv, BufTypes
  <2>5. BufTypes'
    BY <1>0, <1>3, <2>1, <2>3, <2>4, Zenon DEF BInv, BufTypes, Queue
  <2>6. ASSUME NEW b \in Buffers, NEW k, NEW x, Sits(b, k, x)
        PROVE  \E l, y : Sits(b, l, y)'
    <3>1. CASE b = c
      <4>1. /\ b \notin pool /\ \A q \in Peers : sbuf[q] # b
            /\ \A h \in 1..Batch \ {j} : slots[h] # b
            /\ \A h \in Inst : /\ b \notin Held(inCh[h]) /\ b \notin Held(outCh[h])
                               /\ b \notin inB[h] /\ b \notin outB[h]
        BY <1>2, <2>6, <3>1 DEF Sits
      <4>2. /\ \A h \in 1..Batch : slots'[h] # b
            /\ \A h \in Inst : b \in Held(outCh'[h]) <=> h = i
        BY <1>0, <2>3, <2>4, <3>1, <4>1, Zenon
      <4>3. Place("out", i) /\ b \notin pool'
        BY <1>3, <4>1, Zenon DEF Place
      <4>4. Sits(b, "out", i)'
        BY <4>1, <4>2, <4>3, Zenon DEF Sits
      <4> QED BY <4>4, Zenon
    <3>2. CASE b # c
      <4>1. Sits(b, k, x)'
        <5>1. \A h \in 1..Batch : slots'[h] = b <=> slots[h] = b
          BY <1>n, <1>0, <2>4, <3>2, Zenon
        <5>2. \A h \in Inst : b \in Held(outCh'[h]) <=> b \in Held(outCh[h])
          <6>1. b \in Held(outCh'[i]) <=> b \in Held(outCh[i])
            BY <2>3, <2>4, <3>2, Zenon
          <6> QED BY <2>4, <6>1, Zenon
        <5> QED BY <1>3, <2>6, <5>1, <5>2, SitsStill, Zenon
      <4> QED BY <4>1, Zenon
    <3> QED BY <3>1, <3>2, Zenon
  <2> QED BY <1>1, <2>5, <2>6, Zenon DEF BInv, Owned
<1>5. CASE ~Room(outCh, i)
  <2>1. outCh' = outCh /\ slots' = slots
    BY <1>n, <1>0, <1>5, Zenon DEF Enqueue, Sent, BInv, BufTypes
  <2>2. BufTypes'
    BY <1>3, <2>1, Zenon DEF BInv, BufTypes
  <2>3. ASSUME NEW b, NEW k, NEW x, Sits(b, k, x)
        PROVE  Sits(b, k, x)'
    BY <1>3, <2>1, <2>3, SitsStill, Zenon
  <2> QED BY <1>1, <2>2, <2>3, Zenon DEF BInv, Owned
<1> QED BY <1>4, <1>5, Zenon

(* Copies of a packet: a buffer of the pool for every channel with room. *)
Copies(o, r, fit, bs, h) ==
  /\ outCh' = [i \in Inst |-> IF i \in fit THEN Append(outCh[i], h[i]) ELSE outCh[i]]
  /\ pool' = pool \ bs /\ slots' = slots
  /\ data' = [c \in Buffers |-> IF c \in bs THEN CopyTo(o, r) ELSE data[c]]
  /\ fit \subseteq Inst /\ bs \subseteq pool
  /\ h \in [fit -> bs]
  /\ \A i, j \in fit : h[i] = h[j] => i = j
  /\ \A b \in bs : \E i \in fit : h[i] = b

LEMMA Copied ==
  ASSUME IInv, BInv, NEW r, NEW connected \in SUBSET Peers, NEW o,
         \A p \in connected : Known(p),
         HandleBroadcast(o, r, connected)
  PROVE  \E fit, bs, h : Copies(o, r, fit, bs, h)
<1> DEFINE to == {inst[p] : p \in connected}
           fits == {i \in to : Room(outCh, i)}
<1>n. PICK fit, bs, h : fit = fits /\ h = Handout(fits, pool) /\ bs = Range(h)
  BY Zenon
<1>1. /\ ExistsInjection(fit, pool)
      /\ outCh' = [i \in Inst |-> IF i \in fit THEN Append(outCh[i], h[i]) ELSE outCh[i]]
      /\ pool' = pool \ bs /\ slots' = slots
      /\ data' = [c \in Buffers |-> IF c \in bs THEN CopyTo(o, r) ELSE data[c]]
  BY <1>n, Zenon DEF HandleBroadcast
<1>2. fit \subseteq Inst
  BY <1>n, Zenon DEF IInv, MapsRight, Known
<1> HIDE DEF to, fits
<1>5. /\ h \in [fit -> bs] /\ bs \subseteq pool
      /\ \A i, j \in fit : h[i] = h[j] => i = j
      /\ \A b \in bs : \E i \in fit : h[i] = b
  BY <1>n, <1>1, HandoutRight
<1>6. Copies(o, r, fit, bs, h)
  BY <1>1, <1>2, <1>5, Zenon DEF Copies
<1> QED BY <1>6, Zenon

LEMMA BroadcastOwned ==
  ASSUME IInv, BInv, rd = "handle", NextPacket, NEW r, NEW connected \in SUBSET Peers, NEW o,
         \A p \in connected : Known(p),
         HandleBroadcast(o, r, connected),
         UNCHANGED <<cnt, sbuf, inCh, inB, outB>>
  PROVE  BInv'
<1>0. PICK fit, bs, h : Copies(o, r, fit, bs, h)
  BY Copied, Zenon
<1>1. /\ outCh' = [i \in Inst |-> IF i \in fit THEN Append(outCh[i], h[i]) ELSE outCh[i]]
      /\ pool' = pool \ bs /\ slots' = slots
  BY <1>0, Zenon DEF Copies
<1>2. fit \subseteq Inst /\ bs \subseteq pool
  BY <1>0, Zenon DEF Copies
<1>4. bs \subseteq pool
  BY <1>0, Zenon DEF Copies
<1>5. /\ h \in [fit -> bs]
      /\ \A i, j \in fit : h[i] = h[j] => i = j
      /\ \A b \in bs : \E i \in fit : h[i] = b
  BY <1>0, Zenon DEF Copies
<1>6. bs \subseteq Buffers /\ \A i \in Inst : \A b \in bs : b \notin Held(outCh[i])
  BY <1>4, Zenon DEF BInv, BufTypes, Owned, Sits
<1>7. \A i \in fit : /\ Queue(outCh'[i]) /\ Held(outCh'[i]) = Held(outCh[i]) \cup {h[i]}
                     /\ outCh'[i] \in Seq(Buffers)
  <2> SUFFICES ASSUME NEW i \in fit
               PROVE  Queue(outCh'[i]) /\ Held(outCh'[i]) = Held(outCh[i]) \cup {h[i]}
    BY Zenon DEF Queue
  <2>1. outCh'[i] = Append(outCh[i], h[i]) /\ h[i] \in Buffers /\ h[i] \notin Held(outCh[i])
    BY <1>1, <1>2, <1>5, <1>6, Zenon
  <2>2. Queue(outCh[i])
    BY <1>2, Zenon DEF BInv, BufTypes
  <2> QED BY <2>1, <2>2, Joins
<1>8. \A i \in Inst \ fit : outCh'[i] = outCh[i]
  BY <1>1, Zenon
<1>9. BufTypes' /\ ReaderTypes'
  <2>1. \A i \in Inst : outCh'[i] \in Seq(Buffers) /\ Queue(outCh'[i])
    BY <1>7, <1>8, Zenon DEF BInv, BufTypes
  <2>2. outCh' \in [Inst -> Seq(Buffers)]
    BY <1>1, <2>1, Zenon
  <2> QED BY <1>1, <1>2, <2>1, <2>2 DEF BInv, BufTypes, ReaderTypes, NextPacket
<1>10. ASSUME NEW b \in Buffers, NEW k, NEW x, Sits(b, k, x)
       PROVE  \E l, y : Sits(b, l, y)'
  <2>1. CASE b \in bs
    <3>1. PICK i \in fit : h[i] = b
      BY <1>5, <2>1, Zenon
    <3>2. /\ \A q \in Peers : sbuf[q] # b
          /\ \A j \in 1..Batch : slots[j] # b
          /\ \A j \in Inst : /\ b \notin Held(inCh[j]) /\ b \notin Held(outCh[j])
                             /\ b \notin inB[j] /\ b \notin outB[j]
      BY <1>4, <1>10, <2>1, Zenon DEF Sits
    <3>3. \A j \in Inst : b \in Held(outCh'[j]) <=> j = i
      <4>1. \A j \in fit : b \in Held(outCh'[j]) <=> b = h[j]
        BY <1>2, <1>7, <3>2, Zenon
      <4>2. \A j \in fit : b = h[j] <=> j = i
        BY <1>5, <3>1, Zenon
      <4>3. \A j \in Inst \ fit : b \notin Held(outCh'[j])
        BY <1>8, <3>2, Zenon
      <4> QED BY <1>2, <3>1, <4>1, <4>2, <4>3, Zenon
    <3>4. Sits(b, "out", i)'
      BY <1>1, <1>2, <2>1, <3>2, <3>3, Zenon DEF Sits, Place
    <3> QED BY <3>4, Zenon
  <2>2. CASE b \notin bs
    <3>1. \A j \in Inst : b \in Held(outCh'[j]) <=> b \in Held(outCh[j])
      <4>1. \A j \in fit : h[j] # b
        BY <1>5, <2>2
      <4> QED BY <1>7, <1>8, <4>1, Zenon
    <3>2. Sits(b, k, x)'
      BY <1>1, <1>10, <2>2, <3>1, Zenon DEF Sits
    <3> QED BY <3>2, Zenon
  <2> QED BY <2>1, <2>2, Zenon
<1> QED BY <1>9, <1>10, Zenon DEF BInv, Owned

(* Empty slots get a buffer of the pool; what does not parse goes back. *)
Fills(bad, bs, full) ==
  /\ pool' = (pool \ bs) \cup {full[j] : j \in bad}
  /\ slots' = [j \in 1..Batch |-> IF j \in bad THEN None ELSE full[j]]
  /\ bs \subseteq pool
  /\ full \in [1..Batch -> Buffers]
  /\ \A i, j \in 1..Batch : full[i] = full[j] => i = j
  /\ \A j \in 1..Batch : IF slots[j] = None THEN full[j] \in bs ELSE full[j] = slots[j]
  /\ \A b \in bs : \E j \in 1..Batch : full[j] = b

LEMMA Filled ==
  ASSUME BInv, NEW n \in 1..Batch, NEW bad \in SUBSET (1..n), ReadTUNPackets(n, bad)
  PROVE  \E bs, full : Fills(bad, bs, full)
<1> DEFINE empties == {j \in 1..Batch : slots[j] = None}
<1>n. PICK empty, bs, h : empty = empties /\ h = Handout(empties, pool) /\ bs = Range(h)
  BY Zenon
<1>m. PICK full : full = [j \in 1..Batch |-> IF j \in empty THEN h[j] ELSE slots[j]]
  BY Zenon
<1>1. /\ ExistsInjection(empty, pool)
      /\ pool' = (pool \ bs) \cup {full[j] : j \in bad}
      /\ slots' = [j \in 1..Batch |-> IF j \in bad THEN None ELSE full[j]]
      /\ idx' = 1 /\ cnt' = n
      /\ UNCHANGED <<sbuf, inCh, outCh, inB, outB>>
  BY <1>n, <1>m, Zenon DEF ReadTUNPackets, chans
<1>2. /\ empty \subseteq 1..Batch /\ bad \subseteq 1..Batch /\ None \notin Buffers
      /\ \A j \in 1..Batch : j \notin empty => slots[j] \in Buffers
      /\ \A j \in empty : slots[j] = None
  BY <1>n, BoundAssumption DEF BInv, BufTypes, Buffers
<1> HIDE DEF empties
<1>5. /\ h \in [empty -> bs] /\ bs \subseteq pool
      /\ \A i, j \in empty : h[i] = h[j] => i = j
      /\ \A b \in bs : \E i \in empty : h[i] = b
  BY <1>n, <1>1, HandoutRight
<1>6. bs \subseteq Buffers /\ \A j \in 1..Batch : slots[j] \notin bs
  BY <1>2, <1>5 DEF BInv, BufTypes, Owned, Sits
<1>7. ASSUME NEW i \in 1..Batch, NEW j \in 1..Batch, slots[i] = slots[j], slots[i] \in Buffers
      PROVE  i = j
  <2>1. PICK k, x : Sits(slots[i], k, x)
    BY <1>7, Zenon DEF BInv, Owned
  <2> QED BY <1>7, <2>1, Zenon DEF Sits
<1>8. /\ full \in [1..Batch -> Buffers]
      /\ \A i, j \in 1..Batch : full[i] = full[j] => i = j
  <2>1. \A j \in 1..Batch : full[j] = IF j \in empty THEN h[j] ELSE slots[j]
    BY <1>m, Zenon
  <2>2. \A j \in empty : h[j] \in bs
    BY <1>5, Zenon
  <2>3. full \in [1..Batch -> Buffers]
    BY <1>m, <1>2, <1>6, <2>1, <2>2, Zenon
  <2> QED BY <1>2, <1>5, <1>6, <1>7, <2>1, <2>2, <2>3
<1>9. /\ \A j \in 1..Batch : IF slots[j] = None THEN full[j] \in bs ELSE full[j] = slots[j]
      /\ \A b \in bs : \E j \in 1..Batch : full[j] = b
  <2>1. \A j \in 1..Batch : full[j] = IF j \in empty THEN h[j] ELSE slots[j]
    BY <1>m, Zenon
  <2>2. \A j \in empty : h[j] \in bs
    BY <1>5, Zenon
  <2>3. \A j \in 1..Batch : j \in empty <=> slots[j] = None
    BY <1>2, Zenon
  <2> QED BY <1>2, <1>5, <2>1, <2>2, <2>3, Zenon
<1>10. Fills(bad, bs, full)
  BY <1>1, <1>5, <1>8, <1>9, Zenon DEF Fills
<1> QED BY <1>10, Zenon

LEMMA ReadOwned ==
  ASSUME BInv, NEW n \in 1..Batch, NEW bad \in SUBSET (1..n), ReadTUNPackets(n, bad)
  PROVE  BInv'
<1>0. PICK bs, full : Fills(bad, bs, full)
  BY Filled, Zenon
<1>1. /\ pool' = (pool \ bs) \cup {full[j] : j \in bad}
      /\ slots' = [j \in 1..Batch |-> IF j \in bad THEN None ELSE full[j]]
      /\ idx' = 1 /\ cnt' = n
      /\ UNCHANGED <<sbuf, inCh, outCh, inB, outB>>
  BY <1>0, Zenon DEF Fills, ReadTUNPackets, chans
<1>2. /\ bad \subseteq 1..Batch /\ None \notin Buffers
      /\ \A j \in 1..Batch : slots[j] # None => slots[j] \in Buffers
  BY BoundAssumption DEF BInv, BufTypes, Buffers
<1>4. /\ bs \subseteq pool
      /\ \A j \in 1..Batch : IF slots[j] = None THEN full[j] \in bs ELSE full[j] = slots[j]
      /\ \A b \in bs : \E j \in 1..Batch : full[j] = b
  BY <1>0, Zenon DEF Fills
<1>8. /\ full \in [1..Batch -> Buffers]
      /\ \A i, j \in 1..Batch : full[i] = full[j] => i = j
  BY <1>0, Zenon DEF Fills
<1>9. BufTypes' /\ ReaderTypes'
  BY <1>1, <1>2, <1>4, <1>8 DEF BInv, BufTypes, ReaderTypes
<1>10. ASSUME NEW b \in Buffers, NEW k, NEW x, Sits(b, k, x)
       PROVE  \E l, y : Sits(b, l, y)'
  <2>1. CASE \E j \in 1..Batch : full[j] = b
    <3>1. PICK j \in 1..Batch : full[j] = b
      BY <2>1, Zenon
    <3>2. \A i \in 1..Batch : full[i] = b <=> i = j
      BY <1>8, <3>1, Zenon
    <3>3. k \in {"pool", "slot"}
      <4>1. b \in pool \/ slots[j] = b
        BY <1>4, <3>1, Zenon
      <4> QED BY <1>10, <4>1, Zenon DEF Sits
    <3>4. /\ \A q \in Peers : sbuf[q] # b
          /\ \A i \in Inst : /\ b \notin Held(inCh[i]) /\ b \notin Held(outCh[i])
                             /\ b \notin inB[i] /\ b \notin outB[i]
      BY <1>10, <3>3, Zenon DEF Sits
    <3>5. b \in pool => b \in bs
      <4>1. b \in pool => slots[j] # b
        BY <1>10, Zenon DEF Sits
      <4> QED BY <1>4, <3>1, <4>1, Zenon
    <3>6. CASE j \in bad
      <4>1. b \in pool' /\ \A i \in 1..Batch : slots'[i] # b
        BY <1>1, <1>2, <3>1, <3>2, <3>6, Zenon
      <4>2. Sits(b, "pool", 0)'
        BY <1>1, <3>4, <4>1, Zenon DEF Sits, Place
      <4> QED BY <4>2, Zenon
    <3>7. CASE j \notin bad
      <4>1. b \notin pool' /\ \A i \in 1..Batch : slots'[i] = b <=> i = j
        BY <1>1, <1>2, <3>1, <3>2, <3>5, <3>7, Zenon
      <4>2. Sits(b, "slot", j)'
        BY <1>1, <3>4, <4>1, Zenon DEF Sits, Place
      <4> QED BY <4>2, Zenon
    <3> QED BY <3>6, <3>7, Zenon
  <2>2. CASE \A j \in 1..Batch : full[j] # b
    <3>1. b \notin bs
      BY <1>4, <2>2, Zenon
    <3>2. \A j \in 1..Batch : slots[j] # b /\ slots'[j] # b
      BY <1>1, <1>2, <1>4, <2>2, Zenon
    <3>3. b \in pool' <=> b \in pool
      BY <1>1, <1>2, <2>2, <3>1, Zenon
    <3>4. Sits(b, k, x)'
      BY <1>1, <1>10, <3>2, <3>3, Zenon DEF Sits
    <3> QED BY <3>4, Zenon
  <2> QED BY <2>1, <2>2, Zenon
<1> QED BY <1>9, <1>10, Zenon DEF BInv, Owned

LEMMA HandleOwned ==
  ASSUME IInv, BInv, NEW r \in TunPacket, HandlePacket(r)
  PROVE  BInv'
<1>n. PICK c : c = slots[idx]
  OBVIOUS
<1>1. /\ rd = "handle" /\ NextPacket /\ UNCHANGED <<cnt, sbuf, inCh, inB, outB>>
  BY Zenon DEF HandlePacket
<1>2. CASE c # None /\ r.dst \in Peers /\ inst[r.dst] # 0
  <2>1. inst[r.dst] \in Inst
    BY <1>2, Zenon DEF IInv, MapsRight
  <2>2. PICK i, dir : i \in Inst /\ Enqueue(slots[idx], r, i, dir)
    BY <1>n, <1>2, <2>1, Zenon DEF HandlePacket, HandleToPeer
  <2> QED BY <1>n, <1>1, <1>2, <2>2, EnqueueOwned, Zenon
<1>3. CASE c # None /\ ~(r.dst \in Peers /\ inst[r.dst] # 0) /\ r.dst = "bcast"
  <2>1. PICK connected \in SUBSET {p \in Peers : Known(p)} : HandleBroadcast(slots[idx], r, connected)
    BY <1>n, <1>3, Zenon DEF HandlePacket
  <2>2. connected \in SUBSET Peers /\ \A p \in connected : Known(p)
    BY <2>1, Zenon
  <2> QED BY <1>1, <2>1, <2>2, BroadcastOwned, Zenon
<1>4. CASE c # None /\ ~(r.dst \in Peers /\ inst[r.dst] # 0) /\ r.dst # "bcast" /\ ForGateway(r)
  <2>1. gwOn \in Peers /\ gwInst = inst[gwOn] /\ gwInst # 0
    BY <1>1, <1>4, Zenon DEF IInv, HandlesOpen, GatewayRight, ForGateway
  <2>2. gwInst \in Inst
    BY <2>1, Zenon DEF IInv, MapsRight
  <2>3. Enqueue(slots[idx], r, gwInst, "forward")
    BY <1>n, <1>4, Zenon DEF HandlePacket
  <2>4. PICK i \in Inst : Enqueue(slots[idx], r, i, "forward")
    BY <2>2, <2>3, Zenon
  <2> QED BY <1>n, <1>1, <1>4, <2>4, EnqueueOwned, Zenon
<1>5. CASE UNCHANGED <<pool, data, slots, outCh, panic>>
  <2>1. ReaderTypes'
    BY <1>1 DEF NextPacket, BInv, ReaderTypes
  <2>2. BufTypes' /\ Owned'
    BY <1>1, <1>5 DEF BInv, BufTypes, Owned, Sits
  <2> QED BY <2>1, <2>2, Zenon DEF BInv
<1> QED BY <1>n, <1>2, <1>3, <1>4, <1>5, Zenon DEF HandlePacket

(* The channels of closed VpnPeers are drained into the pool. *)
LEMMA CloseOwned ==
  ASSUME BInv, NEW is \in SUBSET Inst, Close(is),
         UNCHANGED <<slots, sbuf, inB, outB, rd, idx, cnt>>
  PROVE  BInv'
<1>n. PICK dr : dr = Drained(is)
  OBVIOUS
<1>0. \A b : b \in dr <=> \E i \in is : b \in Held(inCh[i]) \/ b \in Held(outCh[i])
  BY <1>n DEF Drained
<1>1. /\ pool' = pool \cup dr
      /\ inCh' = [i \in Inst |-> IF i \in is THEN <<>> ELSE inCh[i]]
      /\ outCh' = [i \in Inst |-> IF i \in is THEN <<>> ELSE outCh[i]]
  BY <1>n, Zenon DEF Close
<1>2. /\ \A i \in is : Held(inCh'[i]) = {} /\ Held(outCh'[i]) = {}
      /\ \A i \in Inst \ is : inCh'[i] = inCh[i] /\ outCh'[i] = outCh[i]
  BY <1>1, EmptyQueue, Zenon
<1>3. BufTypes' /\ ReaderTypes'
  <2>1. \A i \in Inst : Queue(inCh'[i]) /\ Queue(outCh'[i])
    BY <1>1, EmptyQueue, Zenon DEF BInv, BufTypes
  <2>2. inCh' \in [Inst -> Seq(Buffers)] /\ outCh' \in [Inst -> Seq(Buffers)]
    BY <1>1, <2>1, Zenon DEF Queue
  <2>3. dr \subseteq Buffers
    <3>1. \A i \in Inst : Held(inCh[i]) \subseteq Buffers /\ Held(outCh[i]) \subseteq Buffers
      BY HeldByQueue, Zenon DEF BInv, BufTypes
    <3> QED BY <1>0, <3>1, Zenon
  <2> QED BY <1>1, <2>1, <2>2, <2>3, Zenon DEF BInv, BufTypes, ReaderTypes
<1>4. ASSUME NEW b \in Buffers, NEW k, NEW x, Sits(b, k, x)
      PROVE  \E l, y : Sits(b, l, y)'
  <2>1. CASE b \in dr
    <3>1. PICK i \in is : k \in {"in", "out"} /\ x = i
      <4>1. PICK i \in is : b \in Held(inCh[i]) \/ b \in Held(outCh[i])
        BY <1>0, <2>1, Zenon
      <4>2. k \in {"in", "out"} /\ x = i
        BY <1>4, <4>1, Zenon DEF Sits
      <4> QED BY <4>2, Zenon
    <3>2. /\ \A j \in 1..Batch : slots[j] # b
          /\ \A q \in Peers : sbuf[q] # b
          /\ \A j \in Inst : b \notin inB[j] /\ b \notin outB[j]
          /\ \A j \in Inst \ is : b \notin Held(inCh[j]) /\ b \notin Held(outCh[j])
      BY <1>4, <3>1, Zenon DEF Sits
    <3>3. \A j \in Inst : b \notin Held(inCh'[j]) /\ b \notin Held(outCh'[j])
      BY <1>2, <3>2, Zenon
    <3>4. Sits(b, "pool", 0)'
      BY <1>1, <2>1, <3>2, <3>3, Zenon DEF Sits, Place
    <3> QED BY <3>4, Zenon
  <2>2. CASE b \notin dr
    <3>1. \A j \in Inst : /\ b \in Held(inCh'[j]) <=> b \in Held(inCh[j])
                          /\ b \in Held(outCh'[j]) <=> b \in Held(outCh[j])
      BY <1>0, <1>2, <2>2, Zenon
    <3>2. Sits(b, k, x)'
      BY <1>1, <1>4, <2>2, <3>1, Zenon DEF Sits
    <3> QED BY <3>2, Zenon
  <2> QED BY <2>1, <2>2, Zenon
<1> QED BY <1>3, <1>4, Zenon DEF BInv, Owned

LEMMA NextOwned == IInv /\ BInv /\ [Next]_vars => BInv'
<1> SUFFICES ASSUME IInv, BInv, [Next]_vars PROVE BInv'
  OBVIOUS
<1>1. CASE \E n \in 1..Batch : \E bad \in SUBSET (1..n) : ReadTUNPackets(n, bad)
  BY <1>1, ReadOwned, Zenon
<1>2. CASE \E x \in TunPacket : HandlePacket(x)
  BY <1>2, HandleOwned, Zenon
<1>3. CASE \E p \in Peers : Deliver(p) \/ \E x \in StreamPacket : ReadPacketHeader(p, x)
  BY <1>3, DeliverOwned, HeaderOwned, Zenon
<1>4. CASE \E i \in Inst : \/ InboundReceive(i) \/ writeInboundBatch(i)
                           \/ OutboundReceive(i) \/ OutboundSend(i)
  BY <1>4, BatchReceived, BatchReturned, Zenon
<1>5. CASE \E known \in SUBSET Peers : \E exits \in SUBSET known : RefreshPeersList(known, exits)
  <2>1. PICK known \in SUBSET Peers : \E exits : RefreshPeersList(known, exits)
    BY <1>5, Zenon
  <2>2. PICK is : is = {inst[p] : p \in Peers \ known} \ {0}
    BY Zenon
  <2>3. is \in SUBSET Inst
    BY <2>2, Zenon DEF IInv, MapsRight
  <2>4. Close(is) /\ UNCHANGED <<slots, sbuf, inB, outB, rd, idx, cnt>>
    BY <2>1, <2>2, Zenon DEF RefreshPeersList, reader
  <2> QED BY <2>3, <2>4, CloseOwned, Zenon
<1>6. CASE CloseTunnel
  <2>1. PICK is : is = {inst[p] : p \in Peers} \ {0}
    BY Zenon
  <2>2. is \in SUBSET Inst
    BY <2>1, Zenon DEF IInv, MapsRight
  <2>3. Close(is) /\ UNCHANGED <<slots, sbuf, inB, outB, rd, idx, cnt>>
    BY <1>6, <2>1, Zenon DEF CloseTunnel, reader
  <2> QED BY <2>2, <2>3, CloseOwned, Zenon
<1>7. CASE UNCHANGED <<pool, slots, sbuf, inCh, outCh, inB, outB, rd, idx, cnt>>
  BY <1>7 DEF BInv, BufTypes, ReaderTypes, Owned, Sits
<1>8. \/ UNCHANGED vars \/ \E p \in Peers : SetVPNGatewayPeer(p)
      \/ \E i \in Inst : InboundRoles(i)
      \/ ClearVPNGatewayPeer \/ SetVPNGatewayServerEnabled
      => UNCHANGED <<pool, slots, sbuf, inCh, outCh, inB, outB, rd, idx, cnt>>
  BY Zenon DEF vars, reader, chans, SetVPNGatewayPeer, InboundRoles, ClearVPNGatewayPeer,
     SetVPNGatewayServerEnabled
<1> QED BY <1>1, <1>2, <1>3, <1>4, <1>5, <1>6, <1>7, <1>8, Zenon DEF Next

(***************************************************************************)
(* For any peers, batch, channel and pool sizes: every packet buffer is in *)
(* exactly one place on every path of the tunnel - pool, reader's slice,   *)
(* stream handler, channel or batch - and once only in its channel.        *)
(***************************************************************************)
THEOREM BuffersAreOwned == Spec => []OwnedOnce
<1>1. BInv => OwnedOnce
  <2> SUFFICES ASSUME BInv PROVE OwnedOnce
    OBVIOUS
  <2>1. ASSUME NEW b \in Buffers PROVE \E h \in Holders(b) : Holders(b) = {h}
    <3>1. PICK k, x : Sits(b, k, x)
      BY Zenon DEF BInv, Owned
    <3>2. Holders(b) = {<<k, x>>}
      BY <3>1 DEF Sits, Place, Holders
    <3> QED BY <3>2, Zenon
  <2>2. \A i \in Inst : IsInjective(inCh[i]) /\ IsInjective(outCh[i])
    BY Zenon DEF BInv, BufTypes, Queue
  <2> QED BY <2>1, <2>2, Zenon DEF OwnedOnce
<1> QED BY InitHolds, NextHolds, InitOwned, NextOwned, <1>1, PTL DEF Spec
-----------------------------------------------------------------------------
(***************************************************************************)
(* What the packets say.  A packet on its way to a peer carries a true     *)
(* tag, one on its way from a peer has seen the server role on if it is on *)
(* now; free buffers, and the packets the reader has still to handle, have *)
(* no tag left from their last use.                                        *)
(***************************************************************************)
Packet == [dst : Dsts \cup {None}, inet : BOOLEAN, dir : Dirs, on : BOOLEAN, ok : BOOLEAN]

Outward(i, b) == b \in Held(outCh[i]) \/ b \in outB[i]
Inward(b) ==
  \/ \E p \in Peers : sbuf[p] = b
  \/ \E i \in Inst : b \in Held(inCh[i]) \/ b \in inB[i]

Tagged(i, b) ==
  /\ data[b].dir = "forward" => data[b].dst = "net"
  /\ data[b].dir = "return" =>
       data[b].inet /\ data[b].dst \in Peers /\ data[b].dst = peerOf[i]

TagInv ==
  /\ data \in [Buffers -> Packet]
  /\ \A b \in pool : data[b].dir = "none"
  /\ \A j \in 1..Batch : rd = "handle" /\ j >= idx /\ slots[j] # None => data[slots[j]].dir = "none"
  /\ \A i \in Inst : \A b \in Buffers : Outward(i, b) => Tagged(i, b)

RoleInv ==
  /\ server \in BOOLEAN
  /\ server => \A b \in Buffers : Inward(b) => data[b].on
  /\ flags \in [Inst -> SUBSET {"read", "server", "gateway"}]
  /\ \A i \in Inst : inB[i] = {} => flags[i] = {}
  /\ \A i \in Inst : "server" \in flags[i] => \A b \in inB[i] : data[b].on

(* Ownership as the tags need it: free buffers, the reader's, those on     *)
(* their way out and those on their way in are apart.                      *)
Separate ==
  /\ \A b \in pool : /\ b \in Buffers /\ ~Inward(b)
                     /\ \A j \in 1..Batch : slots[j] # b
                     /\ \A i \in Inst : ~Outward(i, b)
  /\ \A j \in 1..Batch : slots[j] # None =>
       /\ slots[j] \in Buffers /\ ~Inward(slots[j])
       /\ \A k \in 1..Batch : slots[k] = slots[j] => k = j
       /\ \A i \in Inst : ~Outward(i, slots[j])
  /\ \A b \in Buffers : \A i \in Inst : Outward(i, b) => ~Inward(b)

LEMMA Separation == BInv => Separate
<1> SUFFICES ASSUME BInv PROVE Separate
  OBVIOUS
<1>1. ASSUME NEW b \in pool
      PROVE  /\ b \in Buffers /\ ~Inward(b)
             /\ \A j \in 1..Batch : slots[j] # b
             /\ \A i \in Inst : ~Outward(i, b)
  <2>1. b \in Buffers
    BY Zenon DEF BInv, BufTypes
  <2>2. PICK k, x : Sits(b, k, x)
    BY <2>1, Zenon DEF BInv, Owned
  <2> QED BY <2>1, <2>2, Zenon DEF Sits, Inward, Outward
<1>2. ASSUME NEW j \in 1..Batch, slots[j] # None
      PROVE  /\ slots[j] \in Buffers /\ ~Inward(slots[j])
             /\ \A k \in 1..Batch : slots[k] = slots[j] => k = j
             /\ \A i \in Inst : ~Outward(i, slots[j])
  <2>1. PICK b \in Buffers : slots[j] = b
    BY <1>2, Zenon DEF BInv, BufTypes
  <2>2. PICK k, x : Sits(b, k, x)
    BY <2>1, Zenon DEF BInv, Owned
  <2> QED BY <2>1, <2>2, Zenon DEF Sits, Inward, Outward
<1>3. ASSUME NEW b \in Buffers, NEW i \in Inst, Outward(i, b) PROVE ~Inward(b)
  <2>1. PICK k, x : Sits(b, k, x)
    BY Zenon DEF BInv, Owned
  <2> QED BY <1>3, <2>1, Zenon DEF Sits, Inward, Outward
<1> QED BY <1>1, <1>2, <1>3, Zenon DEF Separate

LEMMA SeparationNext == BInv' => Separate'
BY Separation, PTL

LEMMA InitTags == Init => TagInv /\ RoleInv
<1> SUFFICES ASSUME Init PROVE TagInv /\ RoleInv
  OBVIOUS
<1>1. Blank \in Packet /\ Blank.dir = "none"
  BY Zenon DEF Blank, Packet, Dirs
<1>2. /\ data = [b \in Buffers |-> Blank] /\ rd = "idle"
      /\ sbuf = [p \in Peers |-> None]
      /\ inCh = [i \in Inst |-> <<>>] /\ outCh = [i \in Inst |-> <<>>]
      /\ inB = [i \in Inst |-> {}] /\ outB = [i \in Inst |-> {}]
      /\ flags = [i \in Inst |-> {}] /\ server \in BOOLEAN /\ pool = Buffers
  BY Zenon DEF Init
<1>3. \A b \in Buffers : ~Inward(b) /\ \A i \in Inst : ~Outward(i, b)
  BY <1>2, EmptyQueue, BoundAssumption, Zenon DEF Inward, Outward, Buffers
<1> QED BY <1>1, <1>2, <1>3, Zenon DEF TagInv, RoleInv

(***************************************************************************)
(* Steps that only wipe buffers on their way to the pool.                  *)
(***************************************************************************)
Wipes(bs) ==
  /\ bs \subseteq Buffers /\ bs \subseteq pool' /\ pool' \subseteq pool \cup bs
  /\ data' = [b \in Buffers |-> IF b \in bs THEN Blank ELSE data[b]]

LEMMA QuietTags ==
  ASSUME BInv', TagInv, NEW bs, Wipes(bs), UNCHANGED <<slots, rd, idx>>,
         \A i \in Inst : \A b \in Buffers : Outward(i, b)' => Outward(i, b),
         \A i \in Inst : peerOf[i] \in Peers => peerOf'[i] = peerOf[i]
  PROVE  TagInv'
<1>0. Separate'
  BY SeparationNext, Zenon
<1>1. Blank \in Packet /\ Blank.dir = "none"
  BY Zenon DEF Blank, Packet, Dirs
<1>2. data' \in [Buffers -> Packet]
  BY <1>1, Zenon DEF Wipes, TagInv
<1>3. \A b \in Buffers : b \notin bs => data'[b] = data[b]
  BY Zenon DEF Wipes
<1>4. \A b \in pool' : data'[b].dir = "none"
  BY <1>0, <1>1, Zenon DEF Wipes, TagInv, Separate
<1>5. \A j \in 1..Batch :
        rd' = "handle" /\ j >= idx' /\ slots'[j] # None => data'[slots'[j]].dir = "none"
  <2> SUFFICES ASSUME NEW j \in 1..Batch, rd' = "handle", j >= idx', slots'[j] # None
               PROVE  data'[slots'[j]].dir = "none"
    OBVIOUS
  <2>1. slots'[j] \in Buffers /\ slots'[j] \notin bs
    BY <1>0, Zenon DEF Separate, Wipes
  <2> QED BY <1>3, <2>1, Zenon DEF TagInv
<1>6. ASSUME NEW i \in Inst, NEW b \in Buffers, Outward(i, b)' PROVE Tagged(i, b)'
  <2>1. b \notin bs /\ Tagged(i, b)
    BY <1>0, <1>6, Zenon DEF Separate, Wipes, TagInv
  <2> QED BY <1>3, <2>1, Zenon DEF Tagged
<1> QED BY <1>2, <1>4, <1>5, <1>6, Zenon DEF TagInv

LEMMA QuietRoles ==
  ASSUME BInv', RoleInv, NEW bs, Wipes(bs), UNCHANGED server,
         \A b \in Buffers : Inward(b)' => Inward(b),
         flags' \in [Inst -> SUBSET {"read", "server", "gateway"}],
         \A i \in Inst : inB'[i] = {} => flags'[i] = {},
         \A i \in Inst : "server" \in flags'[i] => "server" \in flags[i] /\ inB'[i] = inB[i]
  PROVE  RoleInv'
<1>0. Separate'
  BY SeparationNext, Zenon
<1>1. \A b \in Buffers : b \notin bs => data'[b] = data[b]
  BY Zenon DEF Wipes
<1>2. ASSUME server', NEW b \in Buffers, Inward(b)' PROVE data'[b].on
  BY <1>0, <1>1, <1>2, Zenon DEF RoleInv, Wipes, Separate
<1>3. ASSUME NEW i \in Inst, "server" \in flags'[i], NEW b \in inB'[i] PROVE data'[b].on
  <2>1. b \in Buffers /\ Inward(b)'
    BY Zenon DEF BInv, BufTypes, Inward
  <2>2. b \notin bs /\ data[b].on
    BY <1>0, <1>3, <2>1, Zenon DEF RoleInv, Wipes, Separate
  <2> QED BY <1>1, <2>1, <2>2, Zenon
<1> QED BY <1>2, <1>3, Zenon DEF RoleInv

LEMMA NothingWiped ==
  ASSUME BInv, TagInv, UNCHANGED <<pool, data>>
  PROVE  Wipes({})
BY Zenon DEF Wipes, TagInv

LEMMA DeliverTags ==
  ASSUME IInv, BInv, BInv', TagInv, RoleInv, NEW p \in Peers, Deliver(p)
  PROVE  TagInv' /\ RoleInv'
<1>n. PICK c, i : c = sbuf[p] /\ i = inst[p]
  OBVIOUS
<1>1. /\ c # None /\ sbuf' = [sbuf EXCEPT ![p] = None]
      /\ UNCHANGED <<slots, rd, idx, peerOf, outCh, outB, inB, flags, server>>
  BY <1>n, Zenon DEF Deliver, reader, peers, roles
<1>2. /\ c \in Buffers /\ None \notin Buffers
      /\ i # 0 => i \in Inst
      /\ sbuf'[p] = None /\ \A q \in Peers \ {p} : sbuf'[q] = sbuf[q]
  BY <1>n, <1>1, BoundAssumption, Zenon DEF BInv, BufTypes, Buffers, IInv, MapsRight
<1>3. PICK bs : /\ Wipes(bs)
                /\ \A j \in Inst : \A b \in Held(inCh'[j]) : b = c \/ b \in Held(inCh[j])
  <2>1. CASE i # 0 /\ Room(inCh, i)
    <3>1. inCh' = [inCh EXCEPT ![i] = Append(@, c)] /\ UNCHANGED <<pool, data>>
      BY <1>n, <2>1, Zenon DEF Deliver, Sent
    <3>3. /\ inCh'[i] = Append(inCh[i], c) /\ \A j \in Inst \ {i} : inCh'[j] = inCh[j]
      BY <1>2, <2>1, <3>1, Zenon DEF BInv, BufTypes
    <3>4. \A b \in Held(inCh'[i]) : b = c \/ b \in Held(inCh[i])
      <4>1. c \notin Held(inCh[i])
        <5>1. PICK k, x : Sits(c, k, x)
          BY <1>2, Zenon DEF BInv, Owned
        <5> QED BY <1>n, <1>2, <2>1, <5>1, Zenon DEF Sits
      <4>2. Held(Append(inCh[i], c)) = Held(inCh[i]) \cup {c}
        BY <1>2, <2>1, <4>1, Joins, Zenon DEF BInv, BufTypes
      <4> QED BY <3>3, <4>2, Zenon
    <3> QED BY <3>1, <3>3, <3>4, NothingWiped, Zenon
  <2>2. CASE ~(i # 0 /\ Room(inCh, i))
    <3>1. pool' = pool \cup {c} /\ data' = Wiped({c}) /\ UNCHANGED inCh
      BY <1>n, <2>2, Zenon DEF Deliver
    <3>2. Wipes({c})
      BY <1>2, <3>1, Zenon DEF Wipes, Wiped, clear
    <3> QED BY <3>1, <3>2, Zenon
  <2> QED BY <2>1, <2>2, Zenon
<1>4. \A b \in Buffers : Inward(b)' => Inward(b)
  BY <1>n, <1>1, <1>2, <1>3, Zenon DEF Inward
<1>5. TagInv'
  <2>1. \A h \in Inst : \A b \in Buffers : Outward(h, b)' => Outward(h, b)
    BY <1>1, Zenon DEF Outward
  <2> QED BY <1>1, <1>3, <2>1, QuietTags, Zenon
<1>6. RoleInv'
  <2>1. /\ flags' \in [Inst -> SUBSET {"read", "server", "gateway"}]
        /\ \A h \in Inst : inB'[h] = {} => flags'[h] = {}
        /\ \A h \in Inst : "server" \in flags'[h] => "server" \in flags[h] /\ inB'[h] = inB[h]
    BY <1>1, Zenon DEF RoleInv
  <2> QED BY <1>1, <1>3, <1>4, <2>1, QuietRoles, Zenon
<1> QED BY <1>5, <1>6, Zenon

LEMMA InboundTags ==
  ASSUME BInv, BInv', TagInv, RoleInv, NEW i \in Inst,
         InboundReceive(i) \/ writeInboundBatch(i)
  PROVE  TagInv' /\ RoleInv'
<1>1. UNCHANGED <<slots, rd, idx, peerOf, outCh, outB, sbuf, server>>
  BY Zenon DEF InboundReceive, writeInboundBatch, reader, peers, roles
<1>2. Queue(inCh[i])
  BY Zenon DEF BInv, BufTypes
<1>3. PICK bs : /\ Wipes(bs)
                /\ \A b \in Buffers : Inward(b)' => Inward(b)
                /\ flags' \in [Inst -> SUBSET {"read", "server", "gateway"}]
                /\ \A h \in Inst : inB'[h] = {} => flags'[h] = {}
                /\ \A h \in Inst : "server" \in flags'[h] => "server" \in flags[h] /\ inB'[h] = inB[h]
  <2>1. CASE InboundReceive(i)
    <3>n. PICK batch, bad : /\ batch = Held(readBatch(inCh[i]))
                            /\ bad = {b \in batch : ~data[b].ok}
      BY Zenon
    <3>1. /\ inCh' = [inCh EXCEPT ![i] = Rest(@)]
          /\ inB' = [inB EXCEPT ![i] = {b \in batch : data[b].ok}]
          /\ pool' = pool \cup bad /\ data' = Wiped(bad)
          /\ inB[i] = {} /\ UNCHANGED flags
      BY <2>1, <3>n, Zenon DEF InboundReceive, Filtered
    <3>2. batch \subseteq Held(inCh[i]) /\ Held(Rest(inCh[i])) \subseteq Held(inCh[i])
      BY <1>2, <3>n, Leaves
    <3>3. Held(inCh[i]) \subseteq Buffers
      BY <1>2, HeldByQueue, Zenon DEF Queue
    <3>4. Wipes(bad)
      BY <3>n, <3>1, <3>2, <3>3, Zenon DEF Wipes, Wiped, clear
    <3>5. /\ inCh'[i] = Rest(inCh[i]) /\ inB'[i] \subseteq batch
          /\ \A h \in Inst \ {i} : inCh'[h] = inCh[h] /\ inB'[h] = inB[h]
      BY <3>1, Zenon DEF BInv, BufTypes
    <3>6. \A b \in Buffers : Inward(b)' => Inward(b)
      BY <1>1, <3>2, <3>5, Zenon DEF Inward
    <3>7. flags[i] = {}
      BY <3>1, Zenon DEF RoleInv
    <3> QED BY <3>1, <3>4, <3>5, <3>6, <3>7, Zenon DEF RoleInv
  <2>2. CASE writeInboundBatch(i)
    <3>1. /\ pool' = pool \cup inB[i] /\ data' = Wiped(inB[i]) /\ UNCHANGED inCh
          /\ inB' = [inB EXCEPT ![i] = {}] /\ flags' = [flags EXCEPT ![i] = {}]
      BY <2>2, Zenon DEF writeInboundBatch
    <3>2. Wipes(inB[i])
      BY <3>1, Zenon DEF Wipes, Wiped, clear, BInv, BufTypes
    <3>3. /\ inB'[i] = {} /\ flags'[i] = {}
          /\ \A h \in Inst \ {i} : inB'[h] = inB[h] /\ flags'[h] = flags[h]
          /\ flags' \in [Inst -> SUBSET {"read", "server", "gateway"}]
      BY <3>1, Zenon DEF BInv, BufTypes, RoleInv
    <3>4. \A b \in Buffers : Inward(b)' => Inward(b)
      BY <1>1, <3>1, <3>3, Zenon DEF Inward
    <3> QED BY <3>2, <3>3, <3>4, Zenon DEF RoleInv
  <2> QED BY <2>1, <2>2, Zenon
<1>4. TagInv'
  <2>1. \A h \in Inst : \A b \in Buffers : Outward(h, b)' => Outward(h, b)
    BY <1>1, Zenon DEF Outward
  <2> QED BY <1>1, <1>3, <2>1, QuietTags, Zenon
<1>5. RoleInv'
  BY <1>1, <1>3, QuietRoles, Zenon
<1> QED BY <1>4, <1>5, Zenon

LEMMA OutboundTags ==
  ASSUME BInv, BInv', TagInv, RoleInv, NEW i \in Inst,
         OutboundReceive(i) \/ OutboundSend(i)
  PROVE  TagInv' /\ RoleInv'
<1>1. UNCHANGED <<slots, rd, idx, peerOf, inCh, inB, flags, sbuf, server>>
  BY Zenon DEF OutboundReceive, OutboundSend, reader, peers, roles
<1>2. PICK bs : /\ Wipes(bs)
                /\ \A h \in Inst : \A b \in Buffers : Outward(h, b)' => Outward(h, b)
  <2>1. CASE OutboundReceive(i)
    <3>1. /\ outB' = [outB EXCEPT ![i] = Held(readBatch(outCh[i]))]
          /\ outCh' = [outCh EXCEPT ![i] = Rest(@)] /\ UNCHANGED <<pool, data>>
      BY <2>1, Zenon DEF OutboundReceive
    <3>2. /\ Held(readBatch(outCh[i])) \subseteq Held(outCh[i])
          /\ Held(Rest(outCh[i])) \subseteq Held(outCh[i])
      BY Leaves DEF BInv, BufTypes
    <3>3. /\ outCh'[i] = Rest(outCh[i]) /\ outB'[i] = Held(readBatch(outCh[i]))
          /\ \A h \in Inst \ {i} : outCh'[h] = outCh[h] /\ outB'[h] = outB[h]
      BY <3>1, Zenon DEF BInv, BufTypes
    <3>4. \A h \in Inst : \A b \in Buffers : Outward(h, b)' => Outward(h, b)
      BY <3>2, <3>3, Zenon DEF Outward
    <3> QED BY <3>1, <3>4, NothingWiped, Zenon
  <2>2. CASE OutboundSend(i)
    <3>1. /\ pool' = pool \cup outB[i] /\ data' = Wiped(outB[i]) /\ UNCHANGED outCh
          /\ outB' = [outB EXCEPT ![i] = {}]
      BY <2>2, Zenon DEF OutboundSend
    <3>2. Wipes(outB[i])
      BY <3>1, Zenon DEF Wipes, Wiped, clear, BInv, BufTypes
    <3>3. outB'[i] = {} /\ \A h \in Inst \ {i} : outB'[h] = outB[h]
      BY <3>1, Zenon DEF BInv, BufTypes
    <3>4. \A h \in Inst : \A b \in Buffers : Outward(h, b)' => Outward(h, b)
      BY <3>1, <3>3, Zenon DEF Outward
    <3> QED BY <3>2, <3>4, Zenon
  <2> QED BY <2>1, <2>2, Zenon
<1>3. TagInv'
  BY <1>1, <1>2, QuietTags, Zenon
<1>4. RoleInv'
  <2>1. \A b \in Buffers : Inward(b)' => Inward(b)
    BY <1>1, Zenon DEF Inward
  <2>2. /\ flags' \in [Inst -> SUBSET {"read", "server", "gateway"}]
        /\ \A h \in Inst : inB'[h] = {} => flags'[h] = {}
        /\ \A h \in Inst : "server" \in flags'[h] => "server" \in flags[h] /\ inB'[h] = inB[h]
    BY <1>1, Zenon DEF RoleInv
  <2> QED BY <1>1, <1>2, <2>1, <2>2, QuietRoles, Zenon
<1> QED BY <1>3, <1>4, Zenon

LEMMA CloseTags ==
  ASSUME BInv, BInv', TagInv, RoleInv, NEW is \in SUBSET Inst, Close(is),
         UNCHANGED <<slots, rd, idx, sbuf, inB, outB, flags, server>>,
         \A i \in Inst : peerOf[i] \in Peers => peerOf'[i] = peerOf[i]
  PROVE  TagInv' /\ RoleInv'
<1>n. PICK dr : dr = Drained(is)
  BY Zenon
<1>1. /\ pool' = pool \cup dr /\ data' = Wiped(dr)
      /\ inCh' = [i \in Inst |-> IF i \in is THEN <<>> ELSE inCh[i]]
      /\ outCh' = [i \in Inst |-> IF i \in is THEN <<>> ELSE outCh[i]]
  BY <1>n, Zenon DEF Close
<1>2. dr \subseteq Buffers
  <2>1. \A i \in Inst : Held(inCh[i]) \subseteq Buffers /\ Held(outCh[i]) \subseteq Buffers
    BY HeldByQueue, Zenon DEF BInv, BufTypes
  <2> QED BY <1>n, <2>1, Zenon DEF Drained
<1>3. Wipes(dr)
  BY <1>1, <1>2, Zenon DEF Wipes, Wiped, clear
<1>4. \A i \in Inst : Held(inCh'[i]) \subseteq Held(inCh[i]) /\ Held(outCh'[i]) \subseteq Held(outCh[i])
  BY <1>1, EmptyQueue, Zenon
<1>5. TagInv'
  <2>1. \A h \in Inst : \A b \in Buffers : Outward(h, b)' => Outward(h, b)
    BY <1>4, Zenon DEF Outward
  <2> QED BY <1>3, <2>1, QuietTags, Zenon
<1>6. RoleInv'
  <2>1. \A b \in Buffers : Inward(b)' => Inward(b)
    BY <1>4, Zenon DEF Inward
  <2>2. /\ flags' \in [Inst -> SUBSET {"read", "server", "gateway"}]
        /\ \A h \in Inst : inB'[h] = {} => flags'[h] = {}
        /\ \A h \in Inst : "server" \in flags'[h] => "server" \in flags[h] /\ inB'[h] = inB[h]
    BY Zenon DEF RoleInv
  <2> QED BY <1>3, <2>1, <2>2, QuietRoles, Zenon
<1> QED BY <1>5, <1>6, Zenon

(* The inbound handler reads the roles: what it has in its batch has seen  *)
(* the server role on if it reads it on.                                   *)
LEMMA RolesTags ==
  ASSUME BInv, TagInv, RoleInv, NEW i \in Inst, InboundRoles(i)
  PROVE  TagInv' /\ RoleInv'
<1>1. /\ UNCHANGED <<pool, data, slots, rd, idx, peerOf, inCh, outCh, inB, outB, sbuf, server>>
      /\ inB[i] # {} /\ flags' = [flags EXCEPT ![i] = ReadRoles(i)]
  BY Zenon DEF InboundRoles, reader, peers, roles
<1>2. TagInv'
  BY <1>1, ZenonT(40) DEF TagInv, Outward, Tagged
<1>3. ReadRoles(i) \in SUBSET {"read", "server", "gateway"} /\ ("server" \in ReadRoles(i) => server)
  BY Zenon DEF ReadRoles
<1>4. /\ flags' \in [Inst -> SUBSET {"read", "server", "gateway"}]
      /\ flags'[i] = ReadRoles(i) /\ \A h \in Inst \ {i} : flags'[h] = flags[h]
  BY <1>1, <1>3, Zenon DEF RoleInv
<1>5. \A b \in inB[i] : b \in Buffers /\ Inward(b)
  BY Zenon DEF BInv, BufTypes, Inward
<1>6. \A b \in Buffers : Inward(b)' <=> Inward(b)
  BY <1>1, Zenon DEF Inward
<1>7. RoleInv'
  BY <1>1, <1>3, <1>4, <1>5, <1>6, Zenon DEF RoleInv
<1> QED BY <1>2, <1>7, Zenon

(* Server mode is switched: every packet under way sees it. *)
LEMMA ServerTags ==
  ASSUME BInv, TagInv, RoleInv, SetVPNGatewayServerEnabled
  PROVE  TagInv' /\ RoleInv'
<1>1. /\ UNCHANGED <<pool, slots, rd, idx, peerOf, inCh, outCh, inB, outB, sbuf, flags>>
      /\ server' = ~server
      /\ data' = [b \in Buffers |-> [data[b] EXCEPT !.on = @ \/ (server' /\ b \notin pool)]]
  BY Zenon DEF SetVPNGatewayServerEnabled, reader, peers, chans
<1>2. ASSUME NEW b \in Buffers
      PROVE  /\ data'[b] \in Packet
             /\ data'[b].dir = data[b].dir /\ data'[b].dst = data[b].dst /\ data'[b].inet = data[b].inet
             /\ data[b].on => data'[b].on
             /\ server' /\ b \notin pool => data'[b].on
  <2>1. PICK v \in BOOLEAN : v = (data[b].on \/ (server' /\ b \notin pool))
    BY <1>1, Zenon DEF TagInv, RoleInv, Packet
  <2>2. data'[b] = [data[b] EXCEPT !.on = v]
    BY <1>1, <2>1, Zenon
  <2>3. data[b] \in Packet
    BY Zenon DEF TagInv
  <2>4. /\ data'[b] \in Packet /\ data'[b].on = v
        /\ data'[b].dir = data[b].dir /\ data'[b].dst = data[b].dst /\ data'[b].inet = data[b].inet
    BY <2>2, <2>3, Zenon DEF Packet
  <2> QED BY <2>1, <2>4, Zenon
<1>3. data' \in [Buffers -> Packet]
  BY <1>1, <1>2, Zenon
<1>4. /\ \A b \in Buffers : Inward(b)' <=> Inward(b)
      /\ \A b \in Buffers : \A i \in Inst : Outward(i, b)' <=> Outward(i, b)
      /\ \A b \in Buffers : \A i \in Inst : Tagged(i, b)' <=> Tagged(i, b)
  BY <1>1, <1>2 DEF Inward, Outward, Tagged
<1>5. /\ \A b \in Buffers : Inward(b) => b \notin pool
      /\ \A j \in 1..Batch : slots[j] # None => slots[j] \in Buffers
      /\ pool \subseteq Buffers /\ \A i \in Inst : inB[i] \subseteq Buffers
  BY Separation, Zenon DEF Separate, BInv, BufTypes
<1>6. TagInv'
  BY <1>1, <1>2, <1>3, <1>4, <1>5 DEF TagInv
<1>7. RoleInv'
  BY <1>1, <1>2, <1>4, <1>5, Zenon DEF RoleInv
<1> QED BY <1>6, <1>7, Zenon

(* A packet of a stream: its buffer comes from the pool. *)
LEMMA HeaderTags ==
  ASSUME BInv, TagInv, RoleInv, NEW p \in Peers, NEW r \in StreamPacket, ReadPacketHeader(p, r)
  PROVE  TagInv' /\ RoleInv'
<1>n. PICK c : c = CHOOSE d \in pool : TRUE
  OBVIOUS
<1>1. /\ c \in pool /\ c \in Buffers /\ pool' = pool \ {c} /\ sbuf' = [sbuf EXCEPT ![p] = c]
      /\ data' = [data EXCEPT ![c].dir = r.dir, ![c].ok = r.ok, ![c].on = server]
      /\ UNCHANGED <<slots, rd, idx, peerOf, inCh, outCh, inB, outB, flags, server>>
  BY <1>n, Zenon DEF ReadPacketHeader, peers, chans, roles, BInv, BufTypes
<1>2. r.dir \in Dirs /\ r.ok \in BOOLEAN /\ server \in BOOLEAN
  BY Zenon DEF StreamPacket, Dirs, RoleInv
<1>3. /\ data'[c] \in Packet /\ data'[c].on = server
      /\ \A b \in Buffers \ {c} : data'[b] = data[b]
      /\ data' \in [Buffers -> Packet]
  <2>1. PICK d \in Packet : d = data[c]
    BY <1>1, Zenon DEF TagInv
  <2>2. PICK e : e = [d EXCEPT !.dir = r.dir, !.ok = r.ok, !.on = server]
    OBVIOUS
  <2>3. e \in Packet /\ e.on = server
    BY <1>2, <2>1, <2>2, Zenon DEF Packet
  <2>4. data' = [data EXCEPT ![c] = e]
    BY <1>1, <2>1, <2>2, Zenon DEF TagInv
  <2>5. data \in [Buffers -> Packet]
    BY Zenon DEF TagInv
  <2>6. c \in Buffers
    BY <1>1
  <2> QED BY <2>3, <2>4, <2>5, <2>6
<1>4. Separate
  BY Separation, Zenon
<1>5. /\ \A b \in Buffers : Inward(b)' => b = c \/ Inward(b)
      /\ \A b \in Buffers : \A i \in Inst : Outward(i, b)' <=> Outward(i, b)
  BY <1>1, Zenon DEF Inward, Outward, BInv, BufTypes
<1>6. TagInv'
  <2>1. \A b \in pool' : data'[b].dir = "none"
    BY <1>1, <1>3, Zenon DEF TagInv, BInv, BufTypes
  <2>2. \A j \in 1..Batch :
          rd' = "handle" /\ j >= idx' /\ slots'[j] # None => data'[slots'[j]].dir = "none"
    BY <1>1, <1>3, <1>4 DEF TagInv, Separate
  <2>3. ASSUME NEW i \in Inst, NEW b \in Buffers, Outward(i, b)' PROVE Tagged(i, b)'
    <3>1. b # c /\ Tagged(i, b)
      BY <1>1, <1>4, <1>5, <2>3, Zenon DEF Separate, TagInv
    <3> QED BY <1>1, <1>3, <3>1, Zenon DEF Tagged
  <2> QED BY <1>3, <2>1, <2>2, <2>3, Zenon DEF TagInv
<1>7. RoleInv'
  <2>1. ASSUME server', NEW b \in Buffers, Inward(b)' PROVE data'[b].on
    BY <1>1, <1>3, <1>5, <2>1, Zenon DEF RoleInv
  <2>2. \A i \in Inst : \A b \in inB[i] : b \in Buffers /\ Inward(b) /\ b # c
    BY <1>1, <1>4, Zenon DEF Separate, Inward, BInv, BufTypes
  <2> QED BY <1>1, <1>3, <2>1, <2>2, Zenon DEF RoleInv
<1> QED BY <1>6, <1>7, Zenon

(* The reader's slice is filled: with clean buffers of the pool, and with  *)
(* its own, wiped.                                                         *)
LEMMA ReadTags ==
  ASSUME BInv, TagInv, RoleInv, NEW n \in 1..Batch, NEW bad \in SUBSET (1..n),
         ReadTUNPackets(n, bad)
  PROVE  TagInv' /\ RoleInv'
<1>0. PICK bs, full : Fills(bad, bs, full)
  BY Filled, Zenon
<1>n. PICK old : old = Held(slots)
  OBVIOUS
<1>1. /\ data' = [b \in Buffers |-> IF b \in old THEN Blank ELSE data[b]]
      /\ UNCHANGED <<peerOf, sbuf, inCh, outCh, inB, outB, flags, server>>
  BY <1>n, Zenon DEF ReadTUNPackets, Wiped, clear, peers, chans, roles
<1>2. \A b : b \in old <=> b # None /\ \E j \in 1..Batch : slots[j] = b
  BY <1>n, Zenon DEF Held, BInv, BufTypes
<1>3. Separate
  BY Separation, Zenon
<1>4. Blank \in Packet /\ Blank.dir = "none"
  BY Zenon DEF Blank, Packet, Dirs
<1>5. data' \in [Buffers -> Packet]
  BY <1>1, <1>4, Zenon DEF TagInv
<1>6. \A b \in Buffers : b \in pool \/ b \in old => data'[b].dir = "none"
  BY <1>1, <1>4, Zenon DEF TagInv
<1>7. \A j \in 1..Batch : full[j] \in Buffers /\ data'[full[j]].dir = "none"
  <2>1. \A j \in 1..Batch : full[j] \in Buffers /\ (full[j] \in pool \/ full[j] \in old)
    BY <1>0, <1>2, Zenon DEF Fills
  <2> QED BY <1>6, <2>1, Zenon
<1>8. TagInv'
  <2>1. \A b \in pool' : data'[b].dir = "none"
    <3>1. bad \subseteq 1..Batch
      BY BoundAssumption
    <3>2. \A b \in pool' : (b \in pool /\ b \in Buffers) \/ \E j \in bad : b = full[j]
      BY <1>0, Zenon DEF Fills, BInv, BufTypes
    <3> QED BY <1>6, <1>7, <3>1, <3>2, Zenon
  <2>2. \A j \in 1..Batch : slots'[j] # None => data'[slots'[j]].dir = "none"
    BY <1>0, <1>7, Zenon DEF Fills
  <2>3. ASSUME NEW i \in Inst, NEW b \in Buffers, Outward(i, b)' PROVE Tagged(i, b)'
    <3>1. Outward(i, b)
      BY <1>1, <2>3, Zenon DEF Outward
    <3>2. b \notin old
      BY <1>2, <1>3, <3>1 DEF Separate
    <3>3. Tagged(i, b)
      BY <3>1, Zenon DEF TagInv
    <3> QED BY <1>1, <3>2, <3>3, Zenon DEF Tagged
  <2> QED BY <1>5, <2>1, <2>2, <2>3, Zenon DEF TagInv
<1>9. RoleInv'
  <2>1. \A b \in Buffers : Inward(b)' <=> Inward(b)
    BY <1>1, Zenon DEF Inward
  <2>2. ASSUME NEW b \in Buffers, Inward(b) PROVE data'[b] = data[b]
    <3>1. b \notin old
      BY <1>2, <1>3, <2>2 DEF Separate
    <3> QED BY <1>1, <3>1, Zenon
  <2>3. \A i \in Inst : \A b \in inB[i] : b \in Buffers /\ Inward(b)
    BY Zenon DEF Inward, BInv, BufTypes
  <2> QED BY <1>1, <2>1, <2>2, <2>3, Zenon DEF RoleInv
<1> QED BY <1>8, <1>9, Zenon

(* A packet is queued for i under a true tag. *)
LEMMA EnqueueTags ==
  ASSUME BInv, TagInv, RoleInv, NEW i \in Inst, NEW r \in TunPacket, NEW dir \in Dirs,
         rd = "handle", slots[idx] # None,
         Enqueue(slots[idx], r, i, dir), NextPacket,
         UNCHANGED <<cnt, sbuf, peerOf, inCh, inB, outB, flags, server>>,
         dir = "forward" => r.dst = "net",
         dir = "return" => r.inet /\ r.dst \in Peers /\ r.dst = peerOf[i]
  PROVE  TagInv' /\ RoleInv'
<1>n. PICK c, j : c = slots[idx] /\ j = idx
  OBVIOUS
<1>0. j \in 1..Batch /\ c \in Buffers /\ c # None /\ None \notin Buffers
  BY <1>n, BoundAssumption DEF BInv, BufTypes, ReaderTypes, Buffers
<1>1. Separate
  BY Separation, Zenon
<1>2. /\ data'[c] \in Packet
      /\ data'[c].dst = r.dst /\ data'[c].inet = r.inet /\ data'[c].dir = dir
      /\ \A b \in Buffers \ {c} : data'[b] = data[b]
      /\ data' \in [Buffers -> Packet]
  <2>1. PICK d \in Packet : d = data[c]
    BY <1>0, Zenon DEF TagInv
  <2>2. r.dst \in Dsts /\ r.inet \in BOOLEAN
    BY Zenon DEF TunPacket, Dsts
  <2>3. PICK e : e = [d EXCEPT !.dst = r.dst, !.inet = r.inet]
    OBVIOUS
  <2>4. e \in Packet /\ e.dst = r.dst /\ e.inet = r.inet
    BY <2>1, <2>2, <2>3, Zenon DEF Packet
  <2>5. PICK g : g = [e EXCEPT !.dir = dir]
    BY Zenon
  <2>6. g \in Packet /\ g.dst = r.dst /\ g.inet = r.inet /\ g.dir = dir
    BY <2>4, <2>5, Zenon DEF Packet
  <2>7. data' = [data EXCEPT ![c] = g]
    BY <1>n, <2>1, <2>3, <2>5, Zenon DEF Enqueue, Parsed
  <2> QED BY <1>0, <2>6, <2>7, Zenon DEF TagInv
<1>3. c \notin pool /\ ~Inward(c) /\ \A h \in Inst : ~Outward(h, c)
  BY <1>n, <1>0, <1>1, Zenon DEF Separate
<1>4. \A h \in Inst : \A b \in Buffers : Outward(h, b)' => Outward(h, b) \/ (h = i /\ b = c)
  <2>1. CASE Room(outCh, i)
    <3>1. outCh' = [outCh EXCEPT ![i] = Append(@, c)]
      BY <1>n, <2>1, Zenon DEF Enqueue, Sent
    <3>2. Held(Append(outCh[i], c)) = Held(outCh[i]) \cup {c}
      BY <1>0, <1>3, Joins, Zenon DEF Outward, BInv, BufTypes
    <3>3. outCh'[i] = Append(outCh[i], c) /\ \A h \in Inst \ {i} : outCh'[h] = outCh[h]
      BY <3>1, Zenon DEF BInv, BufTypes
    <3>4. \A h \in Inst : \A b : b \in Held(outCh'[h]) => b \in Held(outCh[h]) \/ (h = i /\ b = c)
      BY <3>2, <3>3, Zenon
    <3> QED BY <3>4, Zenon DEF Outward
  <2>2. CASE ~Room(outCh, i)
    BY <2>2, Zenon DEF Enqueue, Sent, Outward
  <2> QED BY <2>1, <2>2, Zenon
<1>5. TagInv'
  <2>1. \A b \in pool' : data'[b].dir = "none"
    BY <1>2, <1>3, ZenonT(40) DEF Enqueue, TagInv, BInv, BufTypes
  <2>2. ASSUME NEW k \in 1..Batch, rd' = "handle", k >= idx', slots'[k] # None
        PROVE  data'[slots'[k]].dir = "none"
    <3>0. k >= j + 1 /\ k \in Nat /\ j \in Nat
      BY <1>n, <1>0, <2>2, BoundAssumption DEF NextPacket
    <3>1. k >= j + 1 /\ k # j /\ k >= idx
      BY <1>n, <3>0
    <3>2. slots'[k] = slots[k]
      BY <1>n, <3>1, Zenon DEF Enqueue, BInv, BufTypes
    <3>3. slots[k] \in Buffers /\ slots[k] # c /\ data[slots[k]].dir = "none"
      BY <1>n, <1>0, <1>1, <2>2, <3>1, <3>2, Zenon DEF Separate, TagInv
    <3> QED BY <1>2, <3>2, <3>3, Zenon
  <2>3. ASSUME NEW h \in Inst, NEW b \in Buffers, Outward(h, b)' PROVE Tagged(h, b)'
    <3>1. CASE b = c
      <4>1. h = i
        BY <1>3, <1>4, <2>3, <3>1, Zenon
      <4> QED BY <1>2, <3>1, <4>1, Zenon DEF Tagged
    <3>2. CASE b # c
      <4>1. Tagged(h, b)
        BY <1>4, <2>3, <3>2, Zenon DEF TagInv
      <4> QED BY <1>2, <3>2, <4>1, Zenon DEF Tagged
    <3> QED BY <3>1, <3>2, Zenon
  <2> QED BY <1>2, <2>1, <2>2, <2>3, Zenon DEF TagInv
<1>6. RoleInv'
  <2>1. \A b \in Buffers : Inward(b)' <=> Inward(b)
    BY Zenon DEF Inward
  <2>2. \A b \in Buffers : Inward(b) => data'[b] = data[b]
    BY <1>2, <1>3, Zenon
  <2>3. \A h \in Inst : \A b \in inB[h] : b \in Buffers /\ Inward(b)
    BY Zenon DEF Inward, BInv, BufTypes
  <2> QED BY <2>1, <2>2, <2>3, Zenon DEF RoleInv
<1> QED BY <1>5, <1>6, Zenon

(* Copies of a packet that has no tag yet. *)
LEMMA BroadcastTags ==
  ASSUME IInv, BInv, TagInv, RoleInv, NEW r \in TunPacket, rd = "handle", slots[idx] # None,
         NEW connected \in SUBSET Peers, \A p \in connected : Known(p),
         HandleBroadcast(slots[idx], r, connected), NextPacket,
         UNCHANGED <<cnt, sbuf, peerOf, inCh, inB, outB, flags, server>>
  PROVE  TagInv' /\ RoleInv'
<1>n. PICK o, j : o = slots[idx] /\ j = idx
  OBVIOUS
<1>0. j \in 1..Batch /\ o \in Buffers
  BY <1>n, BoundAssumption DEF BInv, BufTypes, ReaderTypes
<1>1. PICK fit, bs, h : Copies(o, r, fit, bs, h)
  <2>1. HandleBroadcast(o, r, connected)
    BY <1>n, Zenon
  <2> QED BY <2>1, Copied, Zenon
<1>2. Separate
  BY Separation, Zenon
<1>3. PICK e : e = CopyTo(o, r)
  OBVIOUS
<1>4. e \in Packet /\ e.dir = "none"
  <2>1. PICK d \in Packet : d = data[o] /\ d.dir = "none"
    BY <1>n, <1>0 DEF TagInv
  <2>2. r.dst \in Dsts /\ r.inet \in BOOLEAN
    BY Zenon DEF TunPacket, Dsts
  <2>3. e = [d EXCEPT !.dst = r.dst, !.inet = r.inet]
    BY <1>3, <2>1, Zenon DEF CopyTo, Parsed
  <2> QED BY <2>1, <2>2, <2>3, Zenon DEF Packet
<1>5. /\ data' = [c \in Buffers |-> IF c \in bs THEN e ELSE data[c]]
      /\ bs \subseteq pool /\ pool' \subseteq pool \ bs /\ slots' = slots
  BY <1>1, <1>3, Zenon DEF Copies
<1>6. data' \in [Buffers -> Packet] /\ \A b \in Buffers \ bs : data'[b] = data[b]
  BY <1>4, <1>5, Zenon DEF TagInv
<1>7. ASSUME NEW i \in Inst, NEW b \in Buffers, Outward(i, b)', b \notin bs PROVE Outward(i, b)
  <2>1. CASE i \in fit
    <3>1. outCh'[i] = Append(outCh[i], h[i]) /\ h[i] \in bs /\ h[i] \in pool
      BY <1>1, <2>1, Zenon DEF Copies
    <3>2. h[i] \in Buffers /\ h[i] \notin Held(outCh[i])
      BY <1>2, <3>1, Zenon DEF Separate, Outward
    <3>3. Held(outCh'[i]) = Held(outCh[i]) \cup {h[i]}
      BY <3>1, <3>2, Joins, Zenon DEF BInv, BufTypes
    <3> QED BY <1>7, <3>1, <3>3, Zenon DEF Outward
  <2>2. CASE i \notin fit
    <3>1. outCh'[i] = outCh[i]
      BY <1>1, <2>2, Zenon DEF Copies
    <3> QED BY <1>7, <3>1, Zenon DEF Outward
  <2> QED BY <2>1, <2>2, Zenon
<1>8. TagInv'
  <2>1. \A b \in pool' : data'[b].dir = "none"
    BY <1>5, <1>6, Zenon DEF TagInv, BInv, BufTypes
  <2>2. ASSUME NEW k \in 1..Batch, rd' = "handle", k >= idx', slots'[k] # None
        PROVE  data'[slots'[k]].dir = "none"
    <3>0. idx' = idx + 1
      BY Zenon DEF NextPacket
    <3>1. k >= idx /\ slots'[k] = slots[k]
      BY <1>n, <1>0, <1>5, <2>2, <3>0
    <3>2. slots[k] # None
      BY <2>2, <3>1, Zenon
    <3>3. slots[k] \in Buffers \ bs
      BY <1>2, <1>5, <3>2, Zenon DEF Separate
    <3>4. data[slots[k]].dir = "none"
      BY <3>1, <3>2, Zenon DEF TagInv
    <3> QED BY <1>6, <3>1, <3>3, <3>4, Zenon
  <2>3. ASSUME NEW i \in Inst, NEW b \in Buffers, Outward(i, b)' PROVE Tagged(i, b)'
    <3>1. CASE b \in bs
      BY <1>4, <1>5, <3>1, Zenon DEF Tagged
    <3>2. CASE b \notin bs
      <4>1. Tagged(i, b)
        BY <1>7, <2>3, <3>2, Zenon DEF TagInv
      <4> QED BY <1>6, <3>2, <4>1, Zenon DEF Tagged
    <3> QED BY <3>1, <3>2, Zenon
  <2> QED BY <1>6, <2>1, <2>2, <2>3, Zenon DEF TagInv
<1>9. RoleInv'
  <2>1. \A b \in Buffers : Inward(b)' <=> Inward(b)
    BY Zenon DEF Inward
  <2>2. \A b \in Buffers : Inward(b) => data'[b] = data[b]
    BY <1>2, <1>5, <1>6, Zenon DEF Separate
  <2>3. \A i \in Inst : \A b \in inB[i] : b \in Buffers /\ Inward(b)
    BY Zenon DEF Inward, BInv, BufTypes
  <2> QED BY <2>1, <2>2, <2>3, Zenon DEF RoleInv
<1> QED BY <1>8, <1>9, Zenon

LEMMA HandleTags ==
  ASSUME IInv, BInv, TagInv, RoleInv, NEW r \in TunPacket, HandlePacket(r)
  PROVE  TagInv' /\ RoleInv'
<1>n. PICK c : c = slots[idx]
  OBVIOUS
<1>1. /\ rd = "handle" /\ NextPacket
      /\ UNCHANGED <<cnt, sbuf, peerOf, inCh, inB, outB, flags, server>>
  BY Zenon DEF HandlePacket, peers, roles
<1>2. CASE c # None /\ r.dst \in Peers /\ inst[r.dst] # 0
  <2>1. inst[r.dst] \in Inst /\ peerOf[inst[r.dst]] = r.dst
    BY <1>2, Zenon DEF IInv, MapsRight
  <2>2. data[c].dir = "none"
    <3>1. idx \in 1..Batch /\ idx >= idx
      BY <1>1, BoundAssumption DEF BInv, ReaderTypes
    <3> QED BY <1>n, <1>1, <1>2, <3>1, Zenon DEF TagInv
  <2>3. r.inet \in BOOLEAN
    BY Zenon DEF TunPacket
  <2>4. PICK i, dir : /\ i = inst[r.dst]
                      /\ dir = IF i \in allow /\ server /\ r.inet THEN "return" ELSE data[c].dir
    BY Zenon
  <2>5. Enqueue(slots[idx], r, i, dir)
    BY <1>n, <1>2, <2>4, Zenon DEF HandlePacket, HandleToPeer
  <2>6. i \in Inst /\ dir \in Dirs /\ dir # "forward" /\ (dir = "return" => r.inet)
    BY <2>1, <2>2, <2>3, <2>4, Zenon DEF Dirs
  <2> QED BY <1>n, <1>1, <1>2, <2>1, <2>4, <2>5, <2>6, EnqueueTags, Zenon
<1>3. CASE c # None /\ ~(r.dst \in Peers /\ inst[r.dst] # 0) /\ r.dst = "bcast"
  <2>1. PICK connected \in SUBSET {p \in Peers : Known(p)} : HandleBroadcast(slots[idx], r, connected)
    BY <1>n, <1>3, Zenon DEF HandlePacket
  <2>2. connected \in SUBSET Peers /\ \A p \in connected : Known(p)
    BY <2>1, Zenon
  <2> QED BY <1>n, <1>1, <1>3, <2>1, <2>2, BroadcastTags, Zenon
<1>4. CASE c # None /\ ~(r.dst \in Peers /\ inst[r.dst] # 0) /\ r.dst # "bcast" /\ ForGateway(r)
  <2>1. gwOn \in Peers /\ gwInst = inst[gwOn] /\ gwInst # 0
    BY <1>1, <1>4, Zenon DEF IInv, HandlesOpen, GatewayRight, ForGateway
  <2>2. gwInst \in Inst
    BY <2>1, Zenon DEF IInv, MapsRight
  <2>3. PICK i, dir : i = gwInst /\ dir = "forward"
    OBVIOUS
  <2>4. Enqueue(slots[idx], r, i, dir) /\ dir \in Dirs /\ r.dst = "net" /\ i \in Inst
    BY <1>n, <1>4, <2>2, <2>3, Zenon DEF HandlePacket, ForGateway, Dirs
  <2> QED BY <1>n, <1>1, <1>4, <2>3, <2>4, EnqueueTags, Zenon
<1>5. CASE UNCHANGED <<pool, data, slots, outCh, panic>>
  <2>1. TagInv'
    <3>1. \A k \in 1..Batch : rd' = "handle" /\ k >= idx' => rd = "handle" /\ k >= idx
      BY <1>1 DEF NextPacket, BInv, ReaderTypes
    <3> QED BY <1>1, <1>5, <3>1, Zenon DEF TagInv, Outward, Tagged
  <2>2. RoleInv'
    BY <1>1, <1>5, Zenon DEF RoleInv, Inward
  <2> QED BY <2>1, <2>2, Zenon
<1> QED BY <1>n, <1>2, <1>3, <1>4, <1>5, Zenon DEF HandlePacket

LEMMA NextTags == IInv /\ BInv /\ BInv' /\ TagInv /\ RoleInv /\ [Next]_vars => TagInv' /\ RoleInv'
<1> SUFFICES ASSUME IInv, BInv, BInv', TagInv, RoleInv, [Next]_vars PROVE TagInv' /\ RoleInv'
  OBVIOUS
<1>1. CASE \E n \in 1..Batch : \E bad \in SUBSET (1..n) : ReadTUNPackets(n, bad)
  BY <1>1, ReadTags, Zenon
<1>2. CASE \E x \in TunPacket : HandlePacket(x)
  BY <1>2, HandleTags, Zenon
<1>3. CASE \E p \in Peers : Deliver(p) \/ \E x \in StreamPacket : ReadPacketHeader(p, x)
  BY <1>3, DeliverTags, HeaderTags, Zenon
<1>4. CASE \E i \in Inst : \/ InboundReceive(i) \/ writeInboundBatch(i) \/ InboundRoles(i)
                           \/ OutboundReceive(i) \/ OutboundSend(i)
  BY <1>4, InboundTags, RolesTags, OutboundTags, Zenon
<1>5. CASE \E known \in SUBSET Peers : \E exits \in SUBSET known : RefreshPeersList(known, exits)
  <2>1. PICK known \in SUBSET Peers : \E exits : RefreshPeersList(known, exits)
    BY <1>5, Zenon
  <2>2. PICK is : is = {inst[p] : p \in Peers \ known} \ {0}
    BY Zenon
  <2>3. is \in SUBSET Inst
    BY <2>2 DEF IInv, MapsRight
  <2>4. Close(is) /\ UNCHANGED <<slots, rd, idx, sbuf, inB, outB, flags, server>>
    BY <2>1, <2>2, Zenon DEF RefreshPeersList, reader
  <2>5. \A i \in Inst : i \in Created => peerOf'[i] = peerOf[i]
    BY <2>1, Zenon DEF RefreshPeersList
  <2>6. \A i \in Inst : peerOf[i] \in Peers => peerOf'[i] = peerOf[i]
    BY <2>5, PeersAssumption, Zenon DEF Created
  <2> QED BY <2>3, <2>4, <2>6, CloseTags, Zenon
<1>6. CASE CloseTunnel
  <2>1. PICK is : is = {inst[p] : p \in Peers} \ {0}
    BY Zenon
  <2>2. is \in SUBSET Inst
    BY <2>1, Zenon DEF IInv, MapsRight
  <2>3. Close(is) /\ UNCHANGED <<slots, rd, idx, sbuf, inB, outB, flags, server, peerOf>>
    BY <1>6, <2>1, Zenon DEF CloseTunnel, reader
  <2> QED BY <2>2, <2>3, CloseTags, Zenon
<1>7. CASE SetVPNGatewayServerEnabled
  BY <1>7, ServerTags, Zenon
<1>8. CASE UNCHANGED <<pool, data, slots, sbuf, inCh, outCh, inB, outB, rd, idx, peerOf, flags, server>>
  BY <1>8, ZenonT(40) DEF TagInv, RoleInv, Outward, Tagged, Inward
<1>9. UNCHANGED vars \/ (\E p \in Peers : SetVPNGatewayPeer(p)) \/ ClearVPNGatewayPeer
      => UNCHANGED <<pool, data, slots, sbuf, inCh, outCh, inB, outB, rd, idx, peerOf, flags, server>>
  BY Zenon DEF vars, reader, peers, chans, roles, SetVPNGatewayPeer, ClearVPNGatewayPeer
<1> QED BY <1>1, <1>2, <1>3, <1>4, <1>5, <1>6, <1>7, <1>8, <1>9, Zenon DEF Next

(* Everything above holds throughout. *)
LEMMA PacketsAreRight == Spec => [](BInv /\ TagInv /\ RoleInv)
BY InitHolds, NextHolds, InitOwned, NextOwned, InitTags, NextTags, PTL DEF Spec

(***************************************************************************)
(* For any peers, batch, channel and pool sizes: what is queued for or     *)
(* being sent to a peer with a gateway tag is what the tag says, whatever  *)
(* the buffer carried before and however roles and peers change.           *)
(***************************************************************************)
THEOREM TagsAreTrue == Spec => []TagsTrue
<1>1. BInv /\ TagInv => TagsTrue
  <2> SUFFICES ASSUME BInv, TagInv, NEW i \in Inst, NEW b \in Held(outCh[i]) \cup outB[i]
               PROVE  /\ data[b].dir = "forward" => data[b].dst = "net"
                      /\ data[b].dir = "return" => data[b].inet /\ data[b].dst = peerOf[i]
    BY Zenon DEF TagsTrue
  <2>1. Held(outCh[i]) \subseteq Buffers
    BY HeldByQueue, Zenon DEF BInv, BufTypes
  <2>2. b \in Buffers /\ Outward(i, b)
    BY <2>1, Zenon DEF BInv, BufTypes, Outward
  <2> QED BY <2>2, Zenon DEF TagInv, Tagged
<1> QED BY PacketsAreRight, <1>1, PTL

(***************************************************************************)
(* For any peers, batch, channel and pool sizes: no transit packet of a    *)
(* peer is written to the TUN unless the server role was on since the      *)
(* packet arrived.                                                         *)
(***************************************************************************)
THEOREM ForwardingNeedsRole == Spec => []ForwardNeedsRole
<1>1. RoleInv => ForwardNeedsRole
  BY Zenon DEF RoleInv, ForwardNeedsRole, Permitted
<1> QED BY PacketsAreRight, <1>1, PTL
=============================================================================
