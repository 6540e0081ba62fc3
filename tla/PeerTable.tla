------------------------------ MODULE PeerTable ------------------------------
(***************************************************************************)
(* The addresses of the known peers: config/network_addr.go hands them     *)
(* out, the API and the status exchange change them, and                   *)
(* Tunnel.RefreshPeersList (service/tunnel.go) copies them into the maps   *)
(* that route packets.                                                     *)
(*                                                                         *)
(* RefreshPeersList runs on a KnownPeerChanged event, some time after the  *)
(* change, and sees the config of that moment: several changes may be      *)
(* copied by one refresh.  It holds peersLock and the config lock, and Go  *)
(* iterates over both maps in any order, so one step of the model is one   *)
(* iteration.  Addresses are numbers.  A peer reports its second address   *)
(* itself and the code stores what it reports, so any two peers may share  *)
(* one; a report that is no address counts as none.                        *)
(***************************************************************************)
EXTENDS Integers

CONSTANTS
  Peers,      \* remote peer IDs
  None,       \* no peer
  Network,    \* first address of the VPN subnet
  Broadcast,  \* last address of the VPN subnet
  Local,      \* our own address
  Manual,     \* addresses a user types
  Reported,   \* addresses the peers report as their IPv6 address
  MaxChanges  \* bound: config changes between two refreshes

ASSUME PeersAssumption == None \notin Peers /\ None \notin Nat
ASSUME SubnetAssumption ==
  /\ Network \in Nat /\ Broadcast \in Nat /\ Local \in Nat
  /\ Network < Local /\ Local < Broadcast
ASSUME InputAssumption ==
  Manual \subseteq Nat /\ Reported \subseteq Nat /\ MaxChanges \in Nat

Subnet == Network .. Broadcast
\* GenerateNextIpAddr may step one past the subnet, never further
Addresses == (Network .. (Broadcast + 1)) \cup Manual
\* The keys of netIPToPeer, of both families
Keys == Addresses \cup Reported

VARIABLES
  known,       \* config.KnownPeers
  ipAddr,      \* KnownPeer.IPAddr; Local stands for no peer
  ipAddrV6,    \* KnownPeer.IPAddrV6, None until reported
  allowed,     \* the known peers with WeAllowUsingAsExitNode
  dnsIP,       \* config.netstackDNSIP, None when the subnet is full
  changes,     \* config changes not seen by a refresh yet
  vpnPeers,    \* Tunnel.peerIDToPeer
  localIP,     \* VpnPeer.localIP, likewise
  localIPv6,   \* VpnPeer.localIPv6, None when nil
  exitAllowed, \* the VpnPeers with weAllowUsingAsExitNode
  netIP,       \* Tunnel.netIPToPeer
  phase,       \* where RefreshPeersList is; "closed" after Tunnel.Close
  todo         \* peers the current loop of it has still to visit

confVars == <<known, ipAddr, ipAddrV6, allowed, dnsIP>>
tableVars == <<vpnPeers, localIP, localIPv6, exitAllowed, netIP>>
vars == <<confVars, tableVars, changes, phase, todo>>

-----------------------------------------------------------------------------
(* The address plan *)

\* CheckIPUnique with the reservation dns: what may be assigned to peer p
Free(a, p, ips, peers, dns) ==
  /\ a \in Subnet
  /\ a # Broadcast /\ a # Local /\ a # dns
  /\ \A q \in peers \ {p} : ips[q] # a

CheckIPUnique(a, p) == Free(a, p, ipAddr, known, dnsIP)

MaxOf(S) == CHOOSE a \in S : \A b \in S : b <= a

\* The highest free address of the subnet, None when there is none
ComputeDNSIP(ips, peers) ==
  LET free == {a \in (Network + 1) .. (Broadcast - 1) :
                 Free(a, None, ips, peers, None)}
  IN  IF free = {} THEN None ELSE MaxOf(free)

Used == {Local} \cup {ipAddr[q] : q \in {r \in known : ipAddr[r] \in Subnet}}

\* The highest address in use inside the subnet
MaxIP == MaxOf(Used)

\* Mutant: only the broadcast address is skipped
ReservedBroadcast == {Broadcast}

\* Reserved addresses that must never be handed out to a peer
Reserved == {Broadcast, dnsIP}

\* The first address after the highest one that is not reserved
GenerateNextIpAddr ==
  CHOOSE a \in (MaxIP + 1) .. (MaxIP + 3) :
    /\ a \notin Reserved
    /\ \A b \in (MaxIP + 1) .. (a - 1) : b \in Reserved

-----------------------------------------------------------------------------
(* Changes of the config *)

\* emitKnownPeerChanged: a refresh will run; it needs the config lock, so
\* nothing changes while one is running
Emit ==
  /\ phase \in {"idle", "closed"} /\ changes < MaxChanges
  /\ changes' = changes + 1
  /\ UNCHANGED <<tableVars, phase, todo>>

\* AuthStatus.AddPeer, with an address typed by the user or generated
AddPeer(p) ==
  /\ p \notin known
  /\ \E a \in Manual \cup {GenerateNextIpAddr} :
       /\ a = GenerateNextIpAddr \/ CheckIPUnique(a, p)
       /\ ipAddr' = [ipAddr EXCEPT ![p] = a]
  /\ known' = known \cup {p}
  /\ \E b \in BOOLEAN : allowed' = IF b THEN allowed \cup {p} ELSE allowed
  /\ Emit
  /\ UNCHANGED <<ipAddrV6, dnsIP>>

\* api.UpdatePeerSettings, the address and the exit-node permission
UpdatePeerSettings(p) ==
  /\ p \in known
  /\ \E a \in Manual \cup {ipAddr[p]} :
       CheckIPUnique(a, p) /\ ipAddr' = [ipAddr EXCEPT ![p] = a]
  /\ \E b \in BOOLEAN :
       allowed' = IF b THEN allowed \cup {p} ELSE allowed \ {p}
  /\ Emit
  /\ UNCHANGED <<known, ipAddrV6, dnsIP>>

\* processPeerStatusInfo stores the IPv6 address a peer reports, once
LearnIPv6(p) ==
  /\ p \in known /\ ipAddrV6[p] = None
  /\ \E a \in Reported : ipAddrV6' = [ipAddrV6 EXCEPT ![p] = a]
  /\ Emit
  /\ UNCHANGED <<known, ipAddr, allowed, dnsIP>>

\* config.RemovePeer
RemovePeer(p) ==
  /\ p \in known
  /\ known' = known \ {p}
  /\ ipAddr' = [ipAddr EXCEPT ![p] = Local]
  /\ ipAddrV6' = [ipAddrV6 EXCEPT ![p] = None]
  /\ allowed' = allowed \ {p}
  /\ Emit
  /\ UNCHANGED dnsIP

-----------------------------------------------------------------------------
(* RefreshPeersList *)

RefreshStart ==
  /\ phase = "idle" /\ changes > 0
  /\ phase' = "copy" /\ todo' = known /\ changes' = 0
  /\ UNCHANGED <<confVars, tableVars>>

\* Mutant: the old address keeps its entry
RekeyKeepsOld(m, p, old, new) ==
  [a \in Keys |-> IF a = new THEN p ELSE m[a]]

\* The map m with the key of peer p moved from old to new; None is no key
Rekey(m, p, old, new) ==
  IF old = new THEN m
  ELSE [a \in Keys |-> CASE a = new -> p [] a = old -> None [] OTHER -> m[a]]

\* One iteration over KnownPeers: a new VpnPeer, or its changed addresses
RefreshCopy(p) ==
  /\ phase = "copy" /\ p \in todo
  /\ todo' = todo \ {p}
  /\ vpnPeers' = vpnPeers \cup {p}
  /\ LET oldIP == IF p \in vpnPeers THEN localIP[p] ELSE None
     IN  netIP' = Rekey(Rekey(netIP, p, oldIP, ipAddr[p]),
                        p, localIPv6[p], ipAddrV6[p])
  /\ localIP' = [localIP EXCEPT ![p] = ipAddr[p]]
  /\ localIPv6' = [localIPv6 EXCEPT ![p] = ipAddrV6[p]]
  /\ UNCHANGED <<confVars, exitAllowed, changes, phase>>

RefreshCopied ==
  /\ phase = "copy" /\ todo = {}
  /\ phase' = "delete" /\ todo' = vpnPeers \ known
  /\ UNCHANGED <<confVars, tableVars, changes>>

\* VpnPeer.Close and the deletion of its entries in the three maps
Drop(p) ==
  /\ vpnPeers' = vpnPeers \ {p}
  /\ netIP' = [a \in Keys |-> IF a \in {localIP[p], localIPv6[p]} THEN None
                              ELSE netIP[a]]
  /\ localIP' = [localIP EXCEPT ![p] = Local]
  /\ localIPv6' = [localIPv6 EXCEPT ![p] = None]
  /\ exitAllowed' = exitAllowed \ {p}

\* One iteration of "delete unknown peers"
RefreshDelete(p) ==
  /\ phase = "delete" /\ p \in todo
  /\ todo' = todo \ {p}
  /\ Drop(p)
  /\ UNCHANGED <<confVars, changes, phase>>

\* The permissions of every known peer are stored anew
RefreshEnd ==
  /\ phase = "delete" /\ todo = {}
  /\ phase' = "idle"
  /\ exitAllowed' = allowed
  /\ UNCHANGED <<confVars, changes, vpnPeers, localIP, localIPv6, netIP, todo>>

\* Tunnel.Close takes peersLock and drops every peer
CloseTunnel ==
  /\ phase = "idle"
  /\ phase' = "closing" /\ todo' = vpnPeers
  /\ UNCHANGED <<confVars, tableVars, changes>>

CloseDrop(p) ==
  /\ phase = "closing" /\ p \in todo
  /\ todo' = todo \ {p}
  /\ Drop(p)
  /\ UNCHANGED <<confVars, changes, phase>>

Closed ==
  /\ phase = "closing" /\ todo = {}
  /\ phase' = "closed"
  /\ UNCHANGED <<confVars, tableVars, changes, todo>>

\* The next start loads the config, reserves the DNS address anew and makes
\* a Tunnel with a first refresh
Restart ==
  /\ phase = "closed"
  /\ dnsIP' = ComputeDNSIP(ipAddr, known)
  /\ phase' = "copy" /\ todo' = known /\ changes' = 0
  /\ UNCHANGED <<known, ipAddr, ipAddrV6, allowed, tableVars>>

-----------------------------------------------------------------------------
Init ==
  /\ known = {} /\ allowed = {}
  /\ ipAddr = [p \in Peers |-> Local]
  /\ ipAddrV6 = [p \in Peers |-> None]
  /\ dnsIP = ComputeDNSIP(ipAddr, known)
  /\ changes = 0
  /\ vpnPeers = {} /\ exitAllowed = {}
  /\ localIP = [p \in Peers |-> Local]
  /\ localIPv6 = [p \in Peers |-> None]
  /\ netIP = [a \in Keys |-> None]
  /\ phase = "idle" /\ todo = {}

Next ==
  \/ \E p \in Peers :
       \/ AddPeer(p) \/ UpdatePeerSettings(p) \/ LearnIPv6(p) \/ RemovePeer(p)
       \/ RefreshCopy(p) \/ RefreshDelete(p) \/ CloseDrop(p)
  \/ RefreshStart \/ RefreshCopied \/ RefreshEnd
  \/ CloseTunnel \/ Closed \/ Restart

Spec == Init /\ [][Next]_vars

-----------------------------------------------------------------------------
(* Properties *)

\* The types of the config and of the tunnel's maps.
TypeOK ==
  /\ known \subseteq Peers /\ allowed \subseteq known
  /\ ipAddr \in [Peers -> Addresses]
  /\ ipAddrV6 \in [Peers -> Reported \cup {None}]
  /\ dnsIP \in Subnet \cup {None}
  /\ changes \in 0 .. MaxChanges
  /\ vpnPeers \subseteq Peers /\ exitAllowed \subseteq Peers
  /\ localIP \in [Peers -> Addresses]
  /\ localIPv6 \in [Peers -> Reported \cup {None}]
  /\ netIP \in [Keys -> Peers \cup {None}]
  /\ phase \in {"idle", "copy", "delete", "closing", "closed"}
  /\ todo \subseteq Peers

\* No packet is routed by an old address: every entry of netIPToPeer leads
\* to a running VpnPeer that has this very address, however many changes one
\* refresh has to copy, in whatever order Go visits the peers, and though two
\* peers may have reported the same IPv6 address.
NoStaleRoute ==
  \A a \in Keys : netIP[a] # None =>
    /\ netIP[a] \in vpnPeers
    /\ a \in {localIP[netIP[a]], localIPv6[netIP[a]]}

\* An address inside the VPN subnet is never shared by two peers, and is
\* never our own, the broadcast or the reserved DNS address, though
\* GenerateNextIpAddr checks none of this and the reservation moves with
\* every start.
SubnetAddressesUnique ==
  \A p \in known : ipAddr[p] \in Subnet =>
    /\ ipAddr[p] \notin {Local, Broadcast, dnsIP}
    /\ \A q \in known \ {p} : ipAddr[q] # ipAddr[p]

\* At rest the tunnel knows exactly the configured peers and permissions, and
\* a packet for an address only one known peer has (either family) reaches
\* its VpnPeer: what netIPToPeer is for.
Reachable ==
  phase = "idle" /\ changes = 0 =>
    /\ vpnPeers = known /\ exitAllowed = allowed
    /\ \A p \in known :
         /\ localIP[p] = ipAddr[p] /\ localIPv6[p] = ipAddrV6[p]
         /\ \A a \in {ipAddr[p], ipAddrV6[p]} \ {None} :
              \/ netIP[a] = p
              \/ \E q \in known \ {p} : a \in {ipAddr[q], ipAddrV6[q]}
=============================================================================
